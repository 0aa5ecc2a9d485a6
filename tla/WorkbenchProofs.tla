--------------------------- MODULE WorkbenchProofs ---------------------------
(***************************************************************************)
(* For any number of processes, clients, tabs, sessions and events: a      *)
(* process that listens can be reached and is the only one, a request to   *)
(* stop takes no work away, the sessions that are trusted are those that   *)
(* were paired, no tab skips a change, and the workbench implements the    *)
(* lifetime of its service.                                                *)
(*                                                                         *)
(* The argument: a process that is past the lock has it (Locked), so what  *)
(* it finds and leaves at service.sock is its own; who works when the      *)
(* service stops is late.  A token is new when it is paired and no tab or  *)
(* cookie has it yet (Pairings), so nobody can have forgotten it; and what *)
(* is written to the file is made of what the memory holds, which has      *)
(* every granted token as long as a process serves.  A tab goes on from    *)
(* the place it has shown, and the frames on their way to it are what the  *)
(* log has next, unless a restore took such a place back (Streams).        *)
(***************************************************************************)
EXTENDS Workbench, TLAPS

Holding == {"locked", "cleared", "bound", "serving", "stopping", "closed", "released", "removed"}
Listening == {"bound", "serving", "stopping", "closed", "released"}
Ending == {"stopping", "closed", "released", "removed", "unlocked"}

\* What only the holder of the lock does.
Locked ==
    \A s \in Services :
        /\ pc[s] \in Holding => lock = s
        /\ pc[s] = "cleared" => sock = Nobody

\* Who works, works for a process that serves, and is late if it ends.
Working ==
    \A c \in Clients : stage[c] = "working" =>
        /\ peer[c] \in Services
        /\ pc[peer[c]] \in Ending \cup {"serving"}
        /\ pc[peer[c]] \in Ending => c \in late

LInv == LifetimeTypeOK /\ Locked /\ Reachable /\ Working

-----------------------------------------------------------------------------
(* The service.                                                            *)

LEMMA LifetimeInitInv == LifetimeInit => LInv
  BY NobodyAssumption, BoundAssumption
  DEF LifetimeInit, LInv, LifetimeTypeOK, Locked, Reachable, Working, Places, Stages,
      Holding, Listening, Ending

\* A step of a client.
LEMMA ClientKeeps ==
    ASSUME LInv, NEW c \in Clients,
           ClientStep(c) \/ Call(c) \/ Asked(c) \/ AskStop(c)
    PROVE  LInv'
  <1>. USE NobodyAssumption, BoundAssumption
  <1>1. CASE \/ Call(c) \/ Told(c) \/ Refused(c) \/ GiveUp(c) \/ Asked(c) \/ Missed(c)
             \/ AskStop(c)
    BY <1>1 DEF LInv, LifetimeTypeOK, Locked, Reachable, Working, Call, Told, Refused, GiveUp,
         Asked, Missed, AskStop, Moves, ClientOnly, Stages
  <1>2. CASE Spawn(c)
    <2>. DEFINE s == FreeSlot
    <2>1. s \in Services /\ pc[s] = "off"
      BY <1>2 DEF Spawn, FreeSlot
    <2>2. pc' = [pc EXCEPT ![s] = "launched"]
      BY <1>2 DEF Spawn
    <2>. HIDE DEF s
    <2>. QED
      BY <1>2, <2>1, <2>2 DEF Spawn, LInv, LifetimeTypeOK, Locked, Reachable, Working, Moves,
           Stages, Places, Holding, Ending
  <1>3. CASE Begin(c)
    BY <1>3 DEF Begin, LInv, LifetimeTypeOK, Locked, Reachable, Working, Moves, ClientOnly,
         Stages, Places, Answers, Ending
  <1>4. CASE Finish(c)
    BY <1>4 DEF Finish, LInv, LifetimeTypeOK, Locked, Reachable, Working, Moves, ClientOnly,
         Stages
  <1>5. CASE Stop(c)
    <2> PICK s \in Services : /\ Answers(s) /\ WorkingFor(s) = {}
                              /\ pc' = [pc EXCEPT ![s] = "stopping"]
      BY <1>5 DEF Stop
    <2>. QED
      BY <1>5 DEF Stop, LInv, LifetimeTypeOK, Locked, Reachable, Working, Moves, Stages,
           Places, Answers, WorkingFor, Holding
  <1>6. CASE StopRefused(c)
    BY <1>6 DEF StopRefused, LInv, LifetimeTypeOK, Locked, Reachable, Working, Moves,
         ClientOnly, Stages
  <1>. QED  BY <1>1, <1>2, <1>3, <1>4, <1>5, <1>6 DEF ClientStep

\* A process that ends leaves nobody working for it.
LEMMA EndsKeeps ==
    ASSUME LInv, NEW s \in Services, Ends(s), faults' \in 0..MaxFaults
    PROVE  LInv'
  <1>. USE NobodyAssumption, BoundAssumption
  <1>1. LifetimeTypeOK'
    BY DEF LInv, LifetimeTypeOK, Ends, Places, Stages
  <1>2. Locked' /\ Reachable'
    BY DEF LInv, LifetimeTypeOK, Ends, Locked, Reachable, Holding
  <1>3. Working'
    BY DEF LInv, LifetimeTypeOK, Ends, Working, WorkingFor, Ending
  <1>. QED  BY <1>1, <1>2, <1>3 DEF LInv

\* A step of a process.
LEMMA ProcessKeeps ==
    ASSUME LInv, NEW s \in Services,
           ServiceStep(s) \/ Serve(s) \/ Signal(s) \/ Close(s) \/ Fail(s)
    PROVE  LInv'
  <1>. USE NobodyAssumption, BoundAssumption DEF Goes, ServiceOnly
  <1>1. CASE TryLock(s)
    BY <1>1 DEF TryLock, LInv, LifetimeTypeOK, Locked, Reachable, Working, Places, Holding, Ending
  <1>2. CASE Clear(s)
    BY <1>2 DEF Clear, LInv, LifetimeTypeOK, Locked, Reachable, Working, Places, Holding, Ending
  <1>3. CASE Bind(s)
    BY <1>3 DEF Bind, LInv, LifetimeTypeOK, Locked, Reachable, Working, Places, Holding, Ending
  <1>4. CASE Serve(s) \/ Close(s) \/ Release(s)
    BY <1>4 DEF Serve, Close, Release, LInv, LifetimeTypeOK, Locked, Reachable, Working, Places,
         Holding, Ending
  <1>5. CASE Signal(s)
    BY <1>5 DEF Signal, LInv, LifetimeTypeOK, Locked, Reachable, Working, Places, Holding,
         Ending, WorkingFor
  <1>6. CASE RemoveSocket(s) \/ Unlock(s)
    BY <1>6 DEF RemoveSocket, Unlock, LInv, LifetimeTypeOK, Locked, Reachable, Working, Places,
         Holding, Ending
  <1>7. CASE Loses(s) \/ Exit(s) \/ Fail(s)
    <2>1. Ends(s) /\ faults' \in 0..MaxFaults
      BY <1>7 DEF Loses, Exit, Fail, LInv, LifetimeTypeOK
    <2>. QED  BY <2>1, EndsKeeps
  <1>. QED  BY <1>1, <1>2, <1>3, <1>4, <1>5, <1>6, <1>7 DEF ServiceStep

LEMMA LifetimeKeeps == LInv /\ [LifetimeNext]_svars => LInv'
  <1>1. ASSUME LInv, UNCHANGED svars PROVE LInv'
    BY <1>1 DEF svars, LInv, LifetimeTypeOK, Locked, Reachable, Working
  <1>. QED  BY <1>1, ClientKeeps, ProcessKeeps DEF LifetimeNext

\* With the lock, one process serves or stops.
LEMMA OneServes ==
    ASSUME LInv, NEW r \in Services, NEW s \in Services,
           pc[r] \in Holding, pc[s] \in Holding
    PROVE  r = s
  BY DEF LInv, Locked

-----------------------------------------------------------------------------
(* The workbench implements the lifetime of its service.                    *)

\* Each step of the workbench is a step of the service, or none.
LEMMA StepOfService == [Next]_vars => [LifetimeNext]_svars
  <1>. SUFFICES ASSUME [Next]_vars PROVE [LifetimeNext]_svars
    OBVIOUS
  <1>1. CASE \E c \in Clients : (ClientStep(c) \/ AskStop(c)) /\ Elsewhere
    BY <1>1 DEF LifetimeNext
  <1>2. CASE \E c \in Clients : Visit(c) \/ \E t \in Tabs : Dashboard(c, t)
    BY <1>2 DEF LifetimeNext, Visit, Dashboard
  <1>3. CASE \E s \in Services : (ServiceStep(s) \/ Signal(s)) /\ Elsewhere
    BY <1>3 DEF LifetimeNext
  <1>4. CASE \E s \in Services : Serves(s) \/ Closes(s) \/ Fails(s)
    BY <1>4 DEF LifetimeNext, Serves, Closes, Fails
  <1>5. ASSUME NEW t \in Tabs,
               Load(t) \/ AskForget(t) \/ Request(t) \/ Follow(t) \/ Drop(t)
        PROVE  UNCHANGED svars
    BY <1>5 DEF Load, AskForget, Request, Follow, Drop, Check, Redeem, Remember, Forget, Landed,
         Forgot, Connect, Read, Send, Leave, SessionsOnly, ChangesOnly
  <1>6. ASSUME NEW k \in Tokens, Lapse(k) PROVE UNCHANGED svars
    BY <1>6 DEF Lapse, SessionsOnly
  <1>7. ASSUME Change \/ Backup \/ \E copy \in copies : Restore(copy) PROVE UNCHANGED svars
    BY <1>7 DEF Change, Backup, Restore, ChangesOnly
  <1>8. CASE UNCHANGED vars
    BY <1>8 DEF vars
  <1>. QED  BY <1>1, <1>2, <1>3, <1>4, <1>5, <1>6, <1>7, <1>8 DEF Next

\* The workbench implements the lifetime of its service: the browser and the
\* changes hold up its end, and do nothing else to it.
THEOREM ImplementsLifetime == Spec => LifetimeSpec
  <1>1. Init => LifetimeInit
    BY DEF Init
  <1>. QED  BY <1>1, StepOfService, PTL DEF Spec, LifetimeSpec

LEMMA LifetimeInvariance == LifetimeSpec => []LInv
  BY LifetimeInitInv, LifetimeKeeps, PTL DEF LifetimeSpec

\* While a process listens, service.sock leads to it and the lock is its own,
\* whoever else starts, stops or dies (run_with_port in service.rs).
THEOREM AlwaysReachable == Spec => []Reachable
  <1>1. LInv => Reachable
    BY DEF LInv
  <1>. QED  BY <1>1, ImplementsLifetime, LifetimeInvariance, PTL

\* A request to stop takes no work away: what is cut short was late, or cut by
\* a failure (stop and run_with_port in service.rs).
THEOREM StopAlwaysSparesWork == Spec => StopSparesWork
  <1>1. LInv /\ [LifetimeNext]_svars =>
          [\A c \in Clients :
              stage[c] = "working" /\ peer[c] \in Services /\ pc'[peer[c]] = "off" =>
                  c \in late \/ faults' < faults]_svars
    <2> SUFFICES ASSUME LInv, LifetimeNext, NEW c \in Clients,
                        stage[c] = "working", peer[c] \in Services, pc'[peer[c]] = "off",
                        c \notin late
                 PROVE  faults' < faults
      BY DEF svars
    <2>. DEFINE r == peer[c]
    <2>1. pc[r] = "serving"
      BY DEF LInv, Working
    <2>2. pc' # pc
      BY <2>1
    <2>3. ASSUME NEW d \in Clients, ClientStep(d) \/ Call(d) \/ Asked(d) \/ AskStop(d)
          PROVE  FALSE
      <3>1. ASSUME Spawn(d) PROVE FALSE
        <4>1. FreeSlot \in Services /\ pc[FreeSlot] = "off"
          BY <3>1 DEF Spawn, FreeSlot
        <4>. QED  BY <2>1, <3>1, <4>1 DEF Spawn, LInv, LifetimeTypeOK
      <3>2. ASSUME Stop(d) PROVE FALSE
        BY <2>1, <3>2 DEF Stop, LInv, LifetimeTypeOK
      <3>. QED
        BY <2>2, <2>3, <3>1, <3>2 DEF ClientStep, Call, Asked, AskStop, Told, Refused, GiveUp,
             Begin, Missed, Finish, StopRefused, ClientOnly
    <2>4. ASSUME NEW s \in Services, ServiceStep(s) \/ Serve(s) \/ Signal(s) \/ Close(s)
          PROVE  FALSE
      BY <2>1, <2>4 DEF ServiceStep, TryLock, Loses, Clear, Bind, Release, RemoveSocket, Unlock,
           Exit, Serve, Signal, Close, Goes, Ends, LInv, LifetimeTypeOK
    <2>5. ASSUME NEW s \in Services, Fail(s) PROVE faults' < faults
      BY <2>5, BoundAssumption DEF Fail, LInv, LifetimeTypeOK
    <2>. QED  BY <2>3, <2>4, <2>5 DEF LifetimeNext
  <1>. QED
    BY <1>1, ImplementsLifetime, LifetimeInvariance, PTL DEF LifetimeSpec, StopSparesWork

-----------------------------------------------------------------------------
(* Types.                                                                   *)

SessionTypes ==
    /\ saved \subseteq Tokens /\ trusted \subseteq Tokens
    /\ codes \subseteq Tabs /\ url \subseteq Tabs
    /\ cookie \in 0..MaxTokens
    /\ page \in [Tabs -> {"closed", "loading", "open", "refused"}]
    /\ ask \in [Tabs -> Asks]
    /\ held \in [Tabs -> 0..MaxTokens]
    /\ made \in 0..MaxTokens
    /\ asks \in [Tabs -> 0..MaxAsks]
    /\ visits \in 0..MaxVisits
    /\ slips \in 0..MaxSlips
    /\ granted \subseteq Tokens /\ forgotten \subseteq Tokens

ChangeTypes ==
    /\ follows \subseteq Tabs
    /\ log \in Seq(Identities) /\ copies \subseteq Seq(Identities)
    /\ events \in 0..MaxEvents
    /\ stream \in [Tabs -> {"off", "open", "dead"}]
    /\ cursor \in [Tabs -> 0..MaxEvents]
    /\ pending \in [Tabs -> Seq(Frames)]
    /\ last \in [Tabs -> 0..MaxEvents]
    /\ seen \in [Tabs -> SUBSET Identities]
    /\ behind \subseteq Tabs

\* The log has room for the events that are left to make.
Room ==
    /\ Len(log) + events <= MaxEvents
    /\ \A copy \in copies : Len(copy) + events <= MaxEvents

LEMMA TypesSplit == TypeOK <=> LifetimeTypeOK /\ SessionTypes /\ ChangeTypes
  BY DEF TypeOK, SessionTypes, ChangeTypes

\* A token that is held by a tab that may renew, pair or forget is a token.
HeldTokens ==
    \A t \in Tabs : ask[t] \in {"renewing", "renewed", "pairing", "paired", "forgetting", "forgot"} =>
        held[t] \in 1..made

LEMMA SessionTypesInit == Init => SessionTypes /\ HeldTokens
  BY BrowserAssumption DEF Init, SessionTypes, HeldTokens, Tokens, Asks

LEMMA SessionTypesKept ==
    ASSUME SessionTypes, HeldTokens, [Next]_vars,
           trusted \subseteq 1..made
    PROVE  SessionTypes' /\ HeldTokens'
  <1>. USE BrowserAssumption DEF SessionTypes, HeldTokens, Tokens, Asks
  <1>1. CASE UNCHANGED sessions
    BY <1>1 DEF sessions
  <1>2. ASSUME NEW c \in Clients, Visit(c) PROVE SessionTypes' /\ HeldTokens'
    BY <1>2 DEF Visit
  <1>3. ASSUME NEW c \in Clients, NEW t \in Tabs, Dashboard(c, t) PROVE SessionTypes' /\ HeldTokens'
    BY <1>3 DEF Dashboard
  <1>4. ASSUME NEW s \in Services, Serves(s) \/ Closes(s) PROVE SessionTypes' /\ HeldTokens'
    BY <1>4 DEF Serves, Closes
  <1>5. ASSUME NEW s \in Services, Fails(s) PROVE SessionTypes' /\ HeldTokens'
    BY <1>5 DEF Fails, sessions
  <1>6. ASSUME NEW t \in Tabs, Load(t) PROVE SessionTypes' /\ HeldTokens'
    BY <1>6 DEF Load, Asking, Shows, Becomes
  <1>7. ASSUME NEW t \in Tabs, AskForget(t) PROVE SessionTypes' /\ HeldTokens'
    BY <1>7 DEF AskForget, Asking, Becomes
  <1>8. ASSUME NEW t \in Tabs, Check(t) PROVE SessionTypes' /\ HeldTokens'
    BY <1>8 DEF Check, Becomes, Unknown, Shows
  <1>9. ASSUME NEW t \in Tabs, Redeem(t) PROVE SessionTypes' /\ HeldTokens'
    BY <1>9 DEF Redeem, Becomes, Shows
  <1>10. ASSUME NEW t \in Tabs, Remember(t) PROVE SessionTypes' /\ HeldTokens'
    <2>1. /\ held[t] \in 1..made
          /\ trusted' \in {trusted, Remembered(t)} /\ saved' \in {saved, Remembered(t)}
          /\ granted' \in {granted, granted \cup {held[t]}}
          /\ slips' \in 0..MaxSlips
      BY <1>10 DEF Remember, Save, SaveFails, Unknown
    <2>2. \E what \in {"none", "pair", "paired", "renewed"} : Becomes(t, what)
      BY <1>10 DEF Remember, Save, SaveFails, Unknown
    <2>3. UNCHANGED page \/ Shows(t, "refused")
      BY <1>10 DEF Remember, Unknown
    <2>4. UNCHANGED <<codes, url, cookie, held, made, asks, visits, forgotten>>
      BY <1>10 DEF Remember
    <2>. QED  BY <2>1, <2>2, <2>3, <2>4 DEF Becomes, Shows, Remembered
  <1>11. ASSUME NEW t \in Tabs, Forget(t) PROVE SessionTypes' /\ HeldTokens'
    <2>1. /\ held[t] \in 1..made
          /\ trusted' \subseteq trusted /\ saved' \subseteq saved \cup trusted
          /\ granted' \subseteq granted /\ forgotten' \subseteq forgotten \cup {held[t]}
          /\ slips' \in 0..MaxSlips
      BY <1>11 DEF Forget, Save, SaveFails
    <2>2. \E what \in {"none", "forgot"} : Becomes(t, what)
      BY <1>11 DEF Forget, Save, SaveFails
    <2>3. UNCHANGED <<codes, url, cookie, page, held, made, asks, visits>>
      BY <1>11 DEF Forget
    <2>. QED  BY <2>1, <2>2, <2>3 DEF Becomes
  <1>12. ASSUME NEW t \in Tabs, Landed(t) \/ Forgot(t) PROVE SessionTypes' /\ HeldTokens'
    <2>1. cookie' \in 0..MaxTokens /\ url' \subseteq url
      BY <1>12 DEF Landed, Forgot
    <2>2. Becomes(t, "none") /\ (UNCHANGED page \/ Shows(t, "open"))
      BY <1>12 DEF Landed, Forgot
    <2>3. UNCHANGED <<saved, trusted, codes, held, made, asks, visits, slips, granted, forgotten>>
      BY <1>12 DEF Landed, Forgot
    <2>. QED  BY <2>1, <2>2, <2>3 DEF Becomes, Shows
  <1>13. ASSUME NEW t \in Tabs, Drop(t) PROVE SessionTypes' /\ HeldTokens'
    BY <1>13 DEF Drop
  <1>14. ASSUME NEW k \in Tokens, Lapse(k) PROVE SessionTypes' /\ HeldTokens'
    BY <1>14 DEF Lapse
  <1>15. ASSUME NEW t \in Tabs, Follow(t) PROVE UNCHANGED sessions
    BY <1>15 DEF Follow, Connect, Read, Send, Leave, ChangesOnly
  <1>16. ASSUME Change \/ Backup \/ \E copy \in copies : Restore(copy) PROVE UNCHANGED sessions
    BY <1>16 DEF Change, Backup, Restore, ChangesOnly
  <1>. QED
    BY <1>1, <1>2, <1>3, <1>4, <1>5, <1>6, <1>7, <1>8, <1>9, <1>10, <1>11, <1>12, <1>13, <1>14,
       <1>15, <1>16 DEF Next, Request, Elsewhere, vars

LEMMA ChangeTypesInit == Init => ChangeTypes /\ Room
  BY BrowserAssumption DEF Init, ChangeTypes, Room, Identities, Frames

\* One more event in the log, or in a backup that is restored.
LEMMA Appended ==
    ASSUME NEW s \in Seq(Identities), events \in 1..MaxEvents, Len(s) + events <= MaxEvents
    PROVE  /\ Append(s, events) \in Seq(Identities)
           /\ Len(Append(s, events)) + (events - 1) <= MaxEvents
  BY BrowserAssumption DEF Identities

\* What a query finds: a reset, or the places that follow.
LEMMA FoundFields ==
    ASSUME log \in Seq(Identities), Len(log) <= MaxEvents, NEW after \in 0..MaxEvents
    PROVE  /\ Found(after) \in Seq(Frames)
           /\ after > Len(log) => Found(after) = << [place |-> Len(log), id |-> 0] >>
           /\ after <= Len(log) =>
                /\ Len(Found(after)) <= Len(log) - after
                /\ \A i \in 1..Len(Found(after)) :
                      Found(after)[i] = [place |-> after + i, id |-> log[after + i]]
  <1>1. /\ Len(log) \in 0..MaxEvents /\ Len(log) \in Nat /\ after \in Nat
        /\ \A i \in 1..Len(log) : log[i] \in 0..MaxEvents
    BY BrowserAssumption DEF Identities
  <1>. DEFINE found == Found(after)
  <1>2. ASSUME after > Len(log)
        PROVE  found \in Seq(Frames) /\ found = << [place |-> Len(log), id |-> 0] >>
    <2>1. found = << [place |-> Len(log), id |-> 0] >>
      BY <1>2 DEF Found
    <2>2. [place |-> Len(log), id |-> 0] \in Frames
      BY <1>1, BrowserAssumption DEF Frames
    <2>. HIDE DEF found
    <2>. QED  BY <2>1, <2>2
  <1>3. ASSUME after <= Len(log)
        PROVE  /\ found \in Seq(Frames)
               /\ Len(found) <= Len(log) - after
               /\ \A i \in 1..Len(found) :
                     found[i] = [place |-> after + i, id |-> log[after + i]]
    <2>. DEFINE n == IF Len(log) - after < Batch THEN Len(log) - after ELSE Batch
                f == [i \in 1..n |-> [place |-> after + i, id |-> log[after + i]]]
    <2>1. n \in Nat /\ n <= Len(log) - after
      BY <1>1, <1>3, BrowserAssumption
    <2>2. found = f
      BY <1>1, <1>3 DEF Found
    <2>. HIDE DEF n
    <2>3. ASSUME NEW i \in 1..n PROVE after + i \in 1..Len(log) /\ after + i \in 0..MaxEvents
      BY <1>1, <2>1, BrowserAssumption
    <2>4. \A i \in 1..n : [place |-> after + i, id |-> log[after + i]] \in Frames
      BY <1>1, <2>3 DEF Frames
    <2>5. f \in Seq(Frames) /\ Len(f) = n
      <3>1. f \in [1..n -> Frames]
        BY <2>4
      <3>. HIDE DEF f
      <3>. QED  BY <2>1, <3>1
    <2>6. \A i \in 1..n : f[i] = [place |-> after + i, id |-> log[after + i]]
      OBVIOUS
    <2>. HIDE DEF f, found
    <2>. QED  BY <2>1, <2>2, <2>5, <2>6
  <1>. HIDE DEF found
  <1>4. /\ found \in Seq(Frames)
        /\ after > Len(log) => found = << [place |-> Len(log), id |-> 0] >>
        /\ after <= Len(log) =>
             /\ Len(found) <= Len(log) - after
             /\ \A i \in 1..Len(found) : found[i] = [place |-> after + i, id |-> log[after + i]]
    <2>1. after > Len(log) \/ after <= Len(log)
      BY <1>1
    <2>2. ~(after > Len(log) /\ after <= Len(log))
      BY <1>1
    <2>3. CASE after > Len(log)
      BY <1>2, <2>2, <2>3
    <2>4. CASE after <= Len(log)
      BY <1>3, <2>2, <2>4
    <2>. QED  BY <2>1, <2>3, <2>4
  <1>. QED  BY <1>4 DEF found

LEMMA ChangeTypesKept ==
    ASSUME ChangeTypes, Room, [Next]_vars
    PROVE  ChangeTypes' /\ Room'
  <1>. USE BrowserAssumption
  <1>0. Len(log) \in 0..MaxEvents /\ events \in 0..MaxEvents
    BY DEF ChangeTypes, Room
  <1>1. CASE UNCHANGED changes
    BY <1>1 DEF changes, ChangeTypes, Room
  <1>2. ASSUME NEW t \in Tabs, Load(t) PROVE ChangeTypes' /\ Room'
    BY <1>2 DEF Load, ChangeTypes, Room
  <1>3. ASSUME NEW t \in Tabs, Landed(t) PROVE ChangeTypes' /\ Room'
    <2>1. Range(log) \subseteq Identities
      BY DEF ChangeTypes, Range
    <2>. QED  BY <1>3, <2>1 DEF Landed, ChangeTypes, Room
  <1>4. ASSUME NEW t \in Tabs, Connect(t) PROVE ChangeTypes' /\ Room'
    BY <1>4 DEF Connect, ChangeTypes, Room
  <1>5. ASSUME NEW t \in Tabs, Read(t) PROVE ChangeTypes' /\ Room'
    <2>1. Found(cursor[t]) \in Seq(Frames)
      BY <1>0, FoundFields DEF ChangeTypes
    <2>. QED  BY <1>5, <2>1 DEF Read, ChangeTypes, Room
  <1>6. ASSUME NEW t \in Tabs, Send(t) PROVE ChangeTypes' /\ Room'
    <2>1. Head(pending[t]) \in Frames /\ Tail(pending[t]) \in Seq(Frames)
      BY <1>6 DEF Send, ChangeTypes
    <2>2. PlaceSent(t) \in 0..MaxEvents /\ Head(pending[t]).id \in 0..MaxEvents
      BY <2>1 DEF PlaceSent, Frames
    <2>3. Range(log) \subseteq Identities
      BY DEF ChangeTypes, Range
    <2>4. seen' \in [Tabs -> SUBSET Identities]
      BY <1>6, <2>2, <2>3 DEF Send, ChangeTypes, Identities
    <2>5. behind' \subseteq Tabs
      BY <1>6 DEF Send, ChangeTypes
    <2>. QED  BY <1>6, <2>1, <2>2, <2>4, <2>5 DEF Send, ChangeTypes, Room
  <1>7. ASSUME NEW t \in Tabs, Leave(t) \/ Drop(t) PROVE ChangeTypes' /\ Room'
    <2>1. <<>> \in Seq(Frames)
      OBVIOUS
    <2>2. /\ stream' = [stream EXCEPT ![t] = "off"]
          /\ pending' = [pending EXCEPT ![t] = <<>>]
          /\ UNCHANGED <<follows, log, copies, events, cursor, last, seen, behind>>
      BY <1>7 DEF Leave, Drop, StreamEnds
    <2>. QED  BY <2>1, <2>2 DEF ChangeTypes, Room
  <1>8. ASSUME Change PROVE ChangeTypes' /\ Room'
    <2>1. events \in 1..MaxEvents /\ log \in Seq(Identities) /\ Len(log) + events <= MaxEvents
      BY <1>0, <1>8 DEF Change, ChangeTypes, Room
    <2>2. log' \in Seq(Identities) /\ Len(log') + events' <= MaxEvents
      BY <1>8, <2>1, Appended DEF Change
    <2>. QED  BY <1>8, <2>1, <2>2 DEF Change, ChangeTypes, Room
  <1>9. ASSUME Backup PROVE ChangeTypes' /\ Room'
    BY <1>9 DEF Backup, ChangeTypes, Room
  <1>10. ASSUME NEW copy \in copies, Restore(copy) PROVE ChangeTypes' /\ Room'
    <2>1. events \in 1..MaxEvents /\ copy \in Seq(Identities) /\ Len(copy) + events <= MaxEvents
      BY <1>0, <1>10 DEF Restore, ChangeTypes, Room
    <2>2. log' \in Seq(Identities) /\ Len(log') + events' <= MaxEvents
      BY <1>10, <2>1, Appended DEF Restore
    <2>3. behind' \subseteq Tabs
      BY <1>10 DEF Restore, Overtaken, ChangeTypes
    <2>. QED  BY <1>10, <2>1, <2>2, <2>3 DEF Restore, ChangeTypes, Room
  <1>11. ASSUME NEW s \in Services, Fails(s) PROVE ChangeTypes' /\ Room'
    <2>1. CASE UNCHANGED changes
      BY <1>1, <2>1
    <2>2. <<>> \in Seq(Frames)
      OBVIOUS
    <2>3. CASE /\ stream' = [t \in Tabs |-> IF stream[t] = "open" THEN "off" ELSE stream[t]]
               /\ pending' = [t \in Tabs |-> <<>>]
               /\ UNCHANGED <<follows, log, copies, events, cursor, last, seen, behind>>
      BY <2>2, <2>3 DEF ChangeTypes, Room
    <2>. QED  BY <1>11, <2>1, <2>3 DEF Fails
  <1>12. ASSUME \/ \E c \in Clients : Visit(c) \/ \E t \in Tabs : Dashboard(c, t)
                \/ \E s \in Services : Serves(s) \/ Closes(s)
                \/ \E k \in Tokens : Lapse(k)
                \/ \E t \in Tabs : \/ AskForget(t) \/ Check(t) \/ Redeem(t) \/ Remember(t)
                                   \/ Forget(t) \/ Forgot(t)
         PROVE  UNCHANGED changes
    BY <1>12 DEF Visit, Dashboard, Serves, Closes, Lapse, AskForget, Check, Redeem, Remember,
         Forget, Forgot, SessionsOnly
  <1>. QED
    BY <1>1, <1>2, <1>3, <1>4, <1>5, <1>6, <1>7, <1>8, <1>9, <1>10, <1>11, <1>12
       DEF Next, Request, Follow, Elsewhere, vars

-----------------------------------------------------------------------------
(* The sessions.                                                            *)

\* Every token anywhere is one that was made.
Known ==
    /\ saved \cup trusted \cup granted \cup forgotten \subseteq 1..made
    /\ cookie <= made
    /\ \A t \in Tabs : held[t] <= made

\* A token that is being paired is nowhere else.
Pairings ==
    \A t \in Tabs : ask[t] = "pairing" =>
        /\ held[t] \notin saved \cup trusted \cup granted \cup forgotten \cup {cookie}
        /\ \A u \in Tabs \ {t} : held[u] # held[t]

Inv ==
    /\ LInv
    /\ SessionTypes /\ HeldTokens /\ Known /\ Pairings /\ SessionsRight
    /\ ChangeTypes /\ Room

LEMMA InitInv == Init => Inv
  <1>. SUFFICES ASSUME Init PROVE Inv
    OBVIOUS
  <1>1. LInv
    BY LifetimeInitInv DEF Init
  <1>2. Known /\ Pairings /\ SessionsRight
    BY DEF Init, Known, Pairings, SessionsRight, ForgottenStaysOut, TrustSurvives
  <1>. QED  BY <1>1, <1>2, SessionTypesInit, ChangeTypesInit DEF Inv

\* No step but Serves brings a service up, and one that goes leaves none.
LEMMA UpKept ==
    ASSUME LInv,
           \/ \E c \in Clients : ClientStep(c) \/ AskStop(c)
           \/ \E s \in Services : ServiceStep(s) \/ Signal(s)
           \/ \E s \in Services : Fail(s)
    PROVE  Up' => Up
  <1>1. ASSUME NEW c \in Clients, ClientStep(c) \/ AskStop(c) PROVE Up' => Up
    <2>1. CASE UNCHANGED pc
      BY <2>1 DEF Up
    <2>2. CASE Spawn(c)
      <3>1. FreeSlot \in Services
        BY <2>2 DEF Spawn, FreeSlot
      <3>. QED  BY <2>2, <3>1 DEF Spawn, Up, LInv, LifetimeTypeOK
    <2>3. CASE Stop(c)
      BY <2>3 DEF Stop, Up, Answers, LInv, LifetimeTypeOK
    <2>. QED
      BY <1>1, <2>1, <2>2, <2>3 DEF ClientStep, AskStop, Call, Told, Refused, GiveUp, Begin,
           Missed, Finish, StopRefused, ClientOnly
  <1>2. ASSUME NEW s \in Services, ServiceStep(s) \/ Signal(s) PROVE Up' => Up
    BY <1>2 DEF ServiceStep, TryLock, Loses, Clear, Bind, Release, RemoveSocket, Unlock, Exit,
         Signal, Goes, Ends, Up, LInv, LifetimeTypeOK
  <1>3. ASSUME NEW s \in Services, Fail(s) PROVE Up' => Up
    BY <1>3 DEF Fail, Ends, Up, LInv, LifetimeTypeOK
  <1>. QED  BY <1>1, <1>2, <1>3

\* With the service that closes or fails, every service is gone.
LEMMA LastGoes ==
    ASSUME LInv, NEW s \in Services, pc[s] \in {"serving", "stopping"}, Close(s) \/ Fail(s)
    PROVE  ~Up'
  <1>1. \A r \in Services : pc[r] \in {"serving", "stopping"} => r = s
    BY OneServes DEF Holding
  <1>2. pc'[s] \in {"closed", "off"} /\ \A r \in Services \ {s} : pc'[r] = pc[r]
    BY DEF Close, Goes, Fail, Ends, LInv, LifetimeTypeOK
  <1>. QED  BY <1>1, <1>2 DEF Up

LEMMA SessionsKept ==
    ASSUME Inv, Next
    PROVE  Known' /\ Pairings' /\ SessionsRight'
  <1>. DEFINE Goal == Known' /\ Pairings' /\ SessionsRight'
  <1>. USE DEF Known, Pairings, SessionsRight, ForgottenStaysOut, TrustSurvives
  <1>0. SessionTypes /\ LInv /\ Known /\ Pairings /\ SessionsRight
    BY DEF Inv
  <1>1. ASSUME UNCHANGED sessions, Up' => Up PROVE Goal
    BY <1>0, <1>1 DEF sessions
  <1>2. ASSUME UNCHANGED svars PROVE Up' <=> Up
    BY <1>2 DEF svars, Up
  <1>3. CASE \/ \E c \in Clients : (ClientStep(c) \/ AskStop(c)) /\ Elsewhere
             \/ \E s \in Services : (ServiceStep(s) \/ Signal(s)) /\ Elsewhere
    BY <1>0, <1>1, <1>3, UpKept DEF Elsewhere
  <1>4. ASSUME NEW c \in Clients, Visit(c) \/ \E t \in Tabs : Dashboard(c, t) PROVE Goal
    <2>1. Up' <=> Up
      BY <1>4 DEF Visit, Dashboard, Call, Asked, ClientOnly, Up
    <2>. QED  BY <1>0, <1>4, <2>1 DEF Visit, Dashboard
  <1>5. ASSUME NEW s \in Services, Serves(s) PROVE Goal
    BY <1>0, <1>5 DEF Serves
  <1>6. ASSUME NEW s \in Services, Closes(s) PROVE Goal
    <2>1. ~Up'
      BY <1>0, <1>6, LastGoes DEF Closes, Close, Goes
    <2>. QED  BY <1>0, <1>6, <2>1 DEF Closes
  <1>7. ASSUME NEW s \in Services, Fails(s) PROVE Goal
    <2>1. CASE pc[s] \notin {"serving", "stopping"}
      BY <1>0, <1>1, <1>7, <2>1, UpKept DEF Fails
    <2>2. CASE pc[s] \in {"serving", "stopping"}
      <3>1. ~Up'
        BY <1>0, <1>7, <2>2, LastGoes DEF Fails
      <3>2. /\ trusted' = {} /\ ask' = [t \in Tabs |-> "none"]
            /\ UNCHANGED <<saved, cookie, held, made, granted, forgotten>>
        BY <1>7, <2>2 DEF Fails
      <3>. QED  BY <1>0, <3>1, <3>2
    <2>. QED  BY <2>1, <2>2
  <1>8. ASSUME NEW t \in Tabs, Load(t) \/ AskForget(t) PROVE Goal
    <2>1. /\ held' = [held EXCEPT ![t] = cookie]
          /\ ask' \in {[ask EXCEPT ![t] = "renew"], [ask EXCEPT ![t] = "forget"]}
          /\ UNCHANGED <<saved, trusted, cookie, made, granted, forgotten>>
      BY <1>8 DEF Load, AskForget, Becomes
    <2>2. Up' <=> Up
      BY <1>2, <1>8 DEF Load, AskForget, SessionsOnly
    <2>. QED  BY <1>0, <2>1, <2>2 DEF SessionTypes
  <1>9. ASSUME NEW t \in Tabs, Check(t) PROVE Goal
    <2>1. \E what \in Asks \ {"pairing"} : ask' = [ask EXCEPT ![t] = what]
      BY <1>9 DEF Check, Becomes, Unknown, Asks
    <2>2. UNCHANGED <<saved, trusted, cookie, held, made, granted, forgotten>> /\ (Up' <=> Up)
      BY <1>2, <1>9 DEF Check, SessionsOnly
    <2>. QED  BY <1>0, <2>1, <2>2 DEF SessionTypes
  <1>10. ASSUME NEW t \in Tabs, Landed(t) \/ Forgot(t) PROVE Goal
    <2>1. ask' = [ask EXCEPT ![t] = "none"]
      BY <1>10 DEF Landed, Forgot, Becomes
    <2>2. cookie' = 0 \/ (cookie' = held[t] /\ ask[t] # "pairing")
      BY <1>10 DEF Landed, Forgot
    <2>3. UNCHANGED <<saved, trusted, held, made, granted, forgotten>> /\ (Up' <=> Up)
      BY <1>2, <1>10 DEF Landed, Forgot, SessionsOnly
    <2>4. Pairings'
      <3> SUFFICES ASSUME NEW u \in Tabs, ask'[u] = "pairing"
                   PROVE  /\ held[u] \notin saved \cup trusted \cup granted \cup forgotten
                          /\ held[u] # cookie'
                          /\ \A v \in Tabs \ {u} : held[v] # held[u]
        BY <2>3
      <3>1. u # t /\ ask[u] = "pairing" /\ held[u] # 0
        BY <1>0, <2>1 DEF SessionTypes, Inv, HeldTokens
      <3>. QED  BY <1>0, <2>2, <3>1
    <2>. QED  BY <1>0, <2>2, <2>3, <2>4 DEF SessionTypes
  <1>11. ASSUME NEW t \in Tabs, Redeem(t) PROVE Goal
    <2>1. UNCHANGED <<saved, trusted, cookie, granted, forgotten>> /\ (Up' <=> Up)
      BY <1>2, <1>11 DEF Redeem, SessionsOnly
    <2>2. CASE made' = made + 1 /\ held' = [held EXCEPT ![t] = made + 1] /\ Becomes(t, "pairing")
      <3>1. \A u \in Tabs : held[u] < made + 1
        BY <1>0 DEF SessionTypes
      <3>2. made + 1 \notin saved \cup trusted \cup granted \cup forgotten \cup {cookie}
        BY <1>0 DEF SessionTypes
      <3>3. 1..made \subseteq 1..made'
        BY <1>0, <2>2 DEF SessionTypes
      <3>4. Known'
        BY <1>0, <2>1, <2>2, <3>1, <3>3 DEF SessionTypes
      <3>5. Pairings'
        BY <1>0, <2>1, <2>2, <3>1, <3>2 DEF SessionTypes, Becomes
      <3>. QED  BY <1>0, <2>1, <3>4, <3>5
    <2>3. CASE Becomes(t, "none") /\ UNCHANGED <<held, made>>
      BY <1>0, <2>1, <2>3 DEF SessionTypes, Becomes
    <2>. QED  BY <1>11, <2>2, <2>3 DEF Redeem
  <1>12. ASSUME NEW t \in Tabs, Remember(t) PROVE Goal
    <2>1. Up /\ (Up' <=> Up) /\ UNCHANGED <<cookie, held, made, forgotten>>
      BY <1>2, <1>12 DEF Remember
    <2>2. \E what \in Asks \ {"pairing"} : ask' = [ask EXCEPT ![t] = what]
      BY <1>12 DEF Remember, Save, SaveFails, Becomes, Unknown, Asks
    <2>3. held[t] \in 1..made
      BY <1>12 DEF Remember, Inv, HeldTokens
    <2>4. \A u \in Tabs \ {t} : ask[u] = "pairing" => held[u] # held[t]
      BY <1>0
    <2>5. CASE UNCHANGED <<saved, trusted, granted>>
      BY <1>0, <2>1, <2>2, <2>5 DEF SessionTypes
    <2>6. CASE /\ ask[t] = "pairing" \/ held[t] \in trusted
               /\ saved' \in {saved, Remembered(t)} /\ trusted' \in {trusted, Remembered(t)}
               /\ trusted' = Remembered(t) => saved' = Remembered(t)
               /\ granted' \subseteq granted \cup {held[t]}
               /\ granted' # granted => trusted' = Remembered(t)
      <3>1. held[t] \notin forgotten
        BY <1>0, <2>6
      <3>2. TrustSurvives' /\ ForgottenStaysOut'
        BY <1>0, <2>1, <2>6, <3>1 DEF Remembered
      <3>3. Known'
        BY <1>0, <2>1, <2>3, <2>6 DEF Remembered
      <3>4. Pairings'
        BY <1>0, <2>1, <2>2, <2>4, <2>6 DEF Remembered, SessionTypes
      <3>. QED  BY <3>2, <3>3, <3>4
    <2>. QED  BY <1>12, <2>5, <2>6 DEF Remember, Save, SaveFails, MayRenew
  <1>13. ASSUME NEW t \in Tabs, Forget(t) PROVE Goal
    <2>1. Up /\ (Up' <=> Up) /\ UNCHANGED <<cookie, held, made>>
      BY <1>2, <1>13 DEF Forget
    <2>2. \E what \in Asks \ {"pairing"} : ask' = [ask EXCEPT ![t] = what]
      BY <1>13 DEF Forget, Save, SaveFails, Becomes, Asks
    <2>3. held[t] \in 1..made
      BY <1>13 DEF Forget, Inv, HeldTokens
    <2>4. \A u \in Tabs \ {t} : ask[u] = "pairing" => held[u] # held[t]
      BY <1>0
    <2>5. /\ granted' = granted \ {held[t]}
          /\ \/ /\ saved' = trusted \ {held[t]} /\ trusted' = trusted \ {held[t]}
                /\ forgotten' = forgotten \cup {held[t]}
             \/ /\ saved' \in {saved, trusted \ {held[t]}}
                /\ UNCHANGED <<trusted, forgotten>>
      BY <1>13 DEF Forget, Save, SaveFails
    <2>6. SessionsRight' /\ Known'
      BY <1>0, <2>1, <2>3, <2>5
    <2>7. Pairings'
      BY <1>0, <2>1, <2>2, <2>4, <2>5 DEF SessionTypes
    <2>. QED  BY <2>6, <2>7
  <1>14. ASSUME NEW k \in Tokens, Lapse(k) PROVE Goal
    BY <1>0, <1>2, <1>14 DEF Lapse, SessionsOnly
  <1>15. ASSUME \/ \E t \in Tabs : Follow(t) \/ Drop(t)
                \/ Change \/ Backup \/ \E copy \in copies : Restore(copy)
         PROVE  Goal
    <2>1. /\ UNCHANGED <<saved, trusted, cookie, ask, held, made, granted, forgotten>>
          /\ Up' <=> Up
      BY <1>2, <1>15 DEF Follow, Drop, Connect, Read, Send, Leave, Change, Backup, Restore,
           ChangesOnly, sessions
    <2>. QED  BY <1>0, <2>1
  <1>. QED
    BY <1>3, <1>4, <1>5, <1>6, <1>7, <1>8, <1>9, <1>10, <1>11, <1>12, <1>13, <1>14, <1>15
       DEF Next, Request

LEMMA InvKept == Inv /\ [Next]_vars => Inv'
  <1>. SUFFICES ASSUME Inv, [Next]_vars PROVE Inv'
    OBVIOUS
  <1>1. LInv'
    BY StepOfService, LifetimeKeeps DEF Inv
  <1>2. SessionTypes' /\ HeldTokens'
    BY SessionTypesKept DEF Inv, Known
  <1>3. ChangeTypes' /\ Room'
    BY ChangeTypesKept DEF Inv
  <1>4. Known' /\ Pairings' /\ SessionsRight'
    <2>1. CASE UNCHANGED vars
      BY <2>1 DEF vars, svars, sessions, Inv, Known, Pairings, SessionsRight, ForgottenStaysOut,
         TrustSurvives, Up
    <2>. QED  BY <2>1, SessionsKept
  <1>. QED  BY <1>1, <1>2, <1>3, <1>4 DEF Inv

LEMMA Invariance == Spec => []Inv
  BY InitInv, InvKept, PTL DEF Spec

\* Types, for any number of processes, clients and tabs, and any bounds.
THEOREM TypeCorrect == Spec => []TypeOK
  <1>1. Inv => TypeOK
    BY TypesSplit DEF Inv, LInv
  <1>. QED  BY <1>1, Invariance, PTL

\* Nobody is trusted after being forgotten, and who was paired stays trusted,
\* however tabs, failed writes, stops and failures interleave
\* (remember_browser, forget_browser, load_browser_sessions in service.rs).
THEOREM SessionsAlwaysRight == Spec => []SessionsRight
  <1>1. Inv => SessionsRight
    BY DEF Inv
  <1>. QED  BY <1>1, Invariance, PTL

-----------------------------------------------------------------------------
(* The stream.                                                              *)

Loading == {"renew", "renewing", "renewed", "pair", "pairing", "paired"}

\* Frames that say what the log has after a place; a place up to which all of
\* the log is shown; a reset that comes alone.
Continues(frames, at, text) ==
    \A i \in 1..Len(frames) :
        at + i <= Len(text) /\ frames[i] = [place |-> at + i, id |-> text[at + i]]
Shown(place, text, shown) == place <= Len(text) /\ \A i \in 1..place : text[i] \in shown
ResetAlone(frames) == \A i \in 1..Len(frames) : frames[i].id = 0 => Len(frames) = 1

\* A stream belongs to an open page and is where the page is.
Following ==
    \A t \in Tabs :
        /\ ask[t] \in Loading => page[t] = "loading"
        /\ stream[t] = "open" => page[t] = "open" /\ cursor[t] = last[t]
        /\ stream[t] # "open" => pending[t] = <<>>
        /\ ResetAlone(pending[t])

\* What a tab that is not behind has read is what the log has next, and an
\* open page shows what came before.
Current ==
    \A t \in Tabs \ behind :
        /\ last[t] <= Len(log)
        /\ Continues(pending[t], cursor[t], log)
        /\ page[t] = "open" => Shown(last[t], log, seen[t])

Streams == Following /\ Current

LEMMA NoFrames == \A at, text : Continues(<<>>, at, text) /\ ResetAlone(<<>>)
  BY DEF Continues, ResetAlone

LEMMA StreamsInit == Init => Streams
  <1> SUFFICES ASSUME Init PROVE Streams
    OBVIOUS
  <1>1. \A t \in Tabs : /\ ask[t] = "none" /\ page[t] = "closed" /\ stream[t] = "off"
                        /\ pending[t] = <<>> /\ last[t] = 0
    BY DEF Init
  <1>2. Len(log) = 0
    BY DEF Init
  <1>3. Following
    BY <1>1, NoFrames DEF Following, Loading
  <1>4. Current
    BY <1>1, <1>2, NoFrames DEF Current
  <1>. QED  BY <1>3, <1>4 DEF Streams

\* What a log shows is still shown by a log that goes on as it did.
LEMMA GoesOn ==
    ASSUME NEW old \in Seq(Identities), NEW text \in Seq(Identities), NEW place \in Nat,
           \A i \in 1..place : i <= Len(text) /\ text[i] = old[i],
           NEW shown, Shown(place, old, shown)
    PROVE  Shown(place, text, shown)
  <1>1. CASE place = 0
    BY <1>1 DEF Shown
  <1>2. CASE place # 0
    <2>1. place \in 1..place
      BY <1>2
    <2>. QED  BY <2>1 DEF Shown
  <1>. QED  BY <1>1, <1>2

LEMMA StillContinues ==
    ASSUME NEW old \in Seq(Identities), NEW text \in Seq(Identities), NEW at \in Nat,
           NEW frames \in Seq(Frames), Len(old) <= Len(text),
           \A i \in 1..Len(old) : text[i] = old[i], Continues(frames, at, old)
    PROVE  Continues(frames, at, text)
  <1> SUFFICES ASSUME NEW i \in 1..Len(frames)
               PROVE  at + i <= Len(text) /\ frames[i] = [place |-> at + i, id |-> text[at + i]]
    BY DEF Continues
  <1>1. at + i <= Len(old) /\ frames[i] = [place |-> at + i, id |-> old[at + i]]
    BY DEF Continues
  <1>2. at + i \in 1..Len(old)
    BY <1>1
  <1>. QED  BY <1>1, <1>2

\* The frames of a query continue the place it asks for.
LEMMA FoundContinues ==
    ASSUME log \in Seq(Identities), Len(log) <= MaxEvents, NEW after \in 0..MaxEvents
    PROVE  /\ ResetAlone(Found(after))
           /\ after <= Len(log) => Continues(Found(after), after, log)
  <1>. DEFINE found == Found(after)
  <1>1. /\ found \in Seq(Frames) /\ Len(found) \in Nat
        /\ after > Len(log) => found = << [place |-> Len(log), id |-> 0] >>
        /\ after <= Len(log) =>
              /\ Len(found) <= Len(log) - after
              /\ \A i \in 1..Len(found) : found[i] = [place |-> after + i, id |-> log[after + i]]
    BY FoundFields
  <1>. HIDE DEF found
  <1>2. Len(log) \in Nat /\ after \in Nat
    BY BrowserAssumption
  <1>3. ASSUME after > Len(log) PROVE ResetAlone(found)
    <2>1. Len(found) = 1
      BY <1>1, <1>3
    <2>. QED  BY <2>1 DEF ResetAlone
  <1>4. ASSUME after <= Len(log) PROVE ResetAlone(found) /\ Continues(found, after, log)
    <2>1. ASSUME NEW i \in 1..Len(found)
          PROVE  /\ after + i <= Len(log) /\ after + i \in 1..Len(log)
                 /\ found[i] = [place |-> after + i, id |-> log[after + i]]
      BY <1>1, <1>2, <1>4
    <2>2. ASSUME NEW i \in 1..Len(found) PROVE found[i].id # 0
      <3>1. log[after + i] \in Identities /\ found[i] = [place |-> after + i, id |-> log[after + i]]
        BY <2>1
      <3>2. log[after + i] # 0
        BY <3>1, BrowserAssumption DEF Identities
      <3>. QED  BY <3>1, <3>2
    <2>3. ResetAlone(found)
      BY <2>2 DEF ResetAlone
    <2>4. Continues(found, after, log)
      BY <2>1 DEF Continues
    <2>. QED  BY <2>3, <2>4
  <1>5. after > Len(log) \/ after <= Len(log)
    BY <1>2
  <1>6. ResetAlone(found) /\ (after <= Len(log) => Continues(found, after, log))
    BY <1>3, <1>4, <1>5
  <1>. QED  BY <1>6 DEF found

\* Sending the first frame.
LEMMA FirstSent ==
    ASSUME NEW frames \in Seq(Frames), frames # <<>>, NEW at \in Nat, NEW text \in Seq(Identities),
           ResetAlone(frames)
    PROVE  /\ Head(frames) \in Frames
           /\ Tail(frames) \in Seq(Frames)
           /\ ResetAlone(Tail(frames))
           /\ Head(frames).id = 0 => Tail(frames) = <<>>
           /\ Continues(frames, at, text) =>
                 /\ Head(frames).place = at + 1 /\ Head(frames).place <= Len(text)
                 /\ Head(frames).id = text[at + 1] /\ Head(frames).id # 0
                 /\ Continues(Tail(frames), Head(frames).place, text)
  <1>. DEFINE first == Head(frames)
              rest == Tail(frames)
  <1>1. /\ first = frames[1] /\ first \in Frames /\ rest \in Seq(Frames)
        /\ Len(frames) \in Nat \ {0} /\ Len(rest) = Len(frames) - 1
        /\ \A i \in 1..Len(rest) : rest[i] = frames[i + 1]
    OBVIOUS
  <1>2. first.id = 0 => rest = <<>>
    <2>1. first.id = 0 => Len(rest) = 0
      BY <1>1 DEF ResetAlone
    <2>. QED  BY <1>1, <2>1
  <1>. HIDE DEF first, rest
  <1>3. ASSUME NEW i \in 1..Len(rest) PROVE i + 1 \in 1..Len(frames) /\ rest[i] = frames[i + 1]
    BY <1>1
  <1>4. ResetAlone(rest)
    <2>1. ASSUME NEW i \in 1..Len(rest) PROVE rest[i].id # 0
      <3>1. i + 1 \in 1..Len(frames) /\ rest[i] = frames[i + 1] /\ Len(frames) # 1
        BY <1>1, <1>3
      <3>. QED  BY <3>1 DEF ResetAlone
    <2>. QED  BY <2>1 DEF ResetAlone
  <1>5. ASSUME Continues(frames, at, text)
        PROVE  /\ first.place = at + 1 /\ first.place <= Len(text)
               /\ first.id = text[at + 1] /\ first.id # 0
               /\ Continues(rest, first.place, text)
    <2>1. first = [place |-> at + 1, id |-> text[at + 1]] /\ at + 1 <= Len(text)
      BY <1>1, <1>5 DEF Continues
    <2>2. text[at + 1] \in Identities
      BY <2>1
    <2>3. ASSUME NEW i \in 1..Len(rest)
          PROVE  /\ first.place + i <= Len(text)
                 /\ rest[i] = [place |-> first.place + i, id |-> text[first.place + i]]
      <3>1. /\ at + (i + 1) <= Len(text)
            /\ rest[i] = [place |-> at + (i + 1), id |-> text[at + (i + 1)]]
        BY <1>3, <1>5 DEF Continues
      <3>2. at + (i + 1) = first.place + i
        BY <1>1, <2>1
      <3>. QED  BY <3>1, <3>2
    <2>. QED  BY <2>1, <2>2, <2>3, BrowserAssumption DEF Continues, Identities
  <1>. QED  BY <1>1, <1>2, <1>4, <1>5 DEF first, rest

\* A step that leaves the streams, and may move the page of a tab that loads.
LEMMA PageStep ==
    ASSUME SessionTypes, Streams, NEW t \in Tabs, UNCHANGED changes, stream[t] # "open",
           NEW what, Becomes(t, what), what \in Loading => UNCHANGED page /\ page[t] = "loading",
           UNCHANGED page \/ Shows(t, "refused")
    PROVE  Streams'
  BY DEF SessionTypes, Streams, Following, Current, changes, Becomes, Shows, Loading

LEMMA StreamsKept ==
    ASSUME Inv, Streams, Next
    PROVE  Streams'
  <1>. USE DEF Streams, Following, Current
  <1>0. /\ SessionTypes /\ ChangeTypes
        /\ Len(log) \in 0..MaxEvents /\ log \in Seq(Identities)
        /\ \A i \in 1..Len(log) : log[i] \in Range(log)
    BY BrowserAssumption DEF Inv, ChangeTypes, Room, Range
  <1>1. ASSUME UNCHANGED <<changes, page, ask>> PROVE Streams'
    BY <1>1 DEF changes
  <1>2. ASSUME NEW s \in Services, Fails(s) PROVE Streams'
    <2>1. CASE UNCHANGED <<sessions, changes>>
      BY <1>1, <2>1 DEF sessions
    <2>2. CASE /\ ask' = [t \in Tabs |-> "none"]
               /\ page' = [t \in Tabs |-> IF page[t] = "loading" THEN "refused" ELSE page[t]]
               /\ stream' = [t \in Tabs |-> IF stream[t] = "open" THEN "off" ELSE stream[t]]
               /\ pending' = [t \in Tabs |-> <<>>]
               /\ UNCHANGED <<log, last, seen, behind>>
      BY <2>2, NoFrames DEF Loading
    <2>. QED  BY <1>2, <2>1, <2>2 DEF Fails
  <1>3. ASSUME NEW t \in Tabs, Load(t) PROVE Streams'
    <2>1. /\ page' = [page EXCEPT ![t] = "loading"] /\ ask' = [ask EXCEPT ![t] = "renew"]
          /\ stream' = [stream EXCEPT ![t] = "off"] /\ pending' = [pending EXCEPT ![t] = <<>>]
          /\ UNCHANGED <<log, cursor, last, seen, behind>>
      BY <1>3 DEF Load, Shows, Becomes
    <2>. QED  BY <1>0, <2>1, NoFrames DEF SessionTypes, ChangeTypes
  <1>4. ASSUME NEW t \in Tabs, AskForget(t) \/ Forgot(t) \/ Forget(t) PROVE Streams'
    <2>1. \E what : what \notin Loading /\ ask' = [ask EXCEPT ![t] = what]
      BY <1>4 DEF AskForget, Forgot, Forget, Save, SaveFails, Becomes, Loading
    <2>2. UNCHANGED <<changes, page>>
      BY <1>4 DEF AskForget, Forgot, Forget, SessionsOnly
    <2>. QED  BY <1>0, <2>1, <2>2 DEF SessionTypes, changes
  <1>5. ASSUME NEW t \in Tabs, Check(t) PROVE Streams'
    <2>1. UNCHANGED changes
      BY <1>5 DEF Check, SessionsOnly
    <2>2. CASE ask[t] = "renew"
      <3>1. page[t] = "loading" /\ stream[t] # "open"
        BY <2>2 DEF Loading
      <3>. QED  BY <1>0, <1>5, <2>1, <2>2, <3>1, PageStep DEF Check, Unknown, Loading
    <2>3. CASE ask[t] = "forget"
      BY <1>0, <1>5, <2>1, <2>3 DEF Check, Becomes, changes, SessionTypes, Loading
    <2>. QED  BY <1>5, <2>2, <2>3 DEF Check
  <1>6. ASSUME NEW t \in Tabs, Redeem(t) PROVE Streams'
    <2>1. UNCHANGED changes /\ ask[t] = "pair"
      BY <1>6 DEF Redeem, SessionsOnly
    <2>2. page[t] = "loading" /\ stream[t] # "open"
      BY <2>1 DEF Loading
    <2>. QED  BY <1>0, <1>6, <2>1, <2>2, PageStep DEF Redeem, Loading
  <1>7. ASSUME NEW t \in Tabs, Remember(t) PROVE Streams'
    <2>1. UNCHANGED changes /\ ask[t] \in {"pairing", "renewing"}
      BY <1>7 DEF Remember
    <2>2. page[t] = "loading" /\ stream[t] # "open"
      BY <2>1 DEF Loading
    <2>. QED
      BY <1>0, <1>7, <2>1, <2>2, PageStep DEF Remember, Save, SaveFails, Unknown, Loading
  <1>8. ASSUME NEW t \in Tabs, Landed(t) PROVE Streams'
    <2>1. /\ ask' = [ask EXCEPT ![t] = "none"] /\ page' = [page EXCEPT ![t] = "open"]
          /\ seen' = [seen EXCEPT ![t] = Range(log)]
          /\ behind' = IF last[t] <= Len(log) THEN behind \ {t} ELSE behind
          /\ UNCHANGED <<log, stream, cursor, pending, last>>
      BY <1>8 DEF Landed, Becomes, Shows
    <2>2. stream[t] # "open" /\ pending[t] = <<>>
      BY <1>8 DEF Landed, Loading
    <2>3. last[t] <= Len(log) => Shown(last[t], log, Range(log))
      <3>1. last[t] \in Nat
        BY <1>0, BrowserAssumption DEF ChangeTypes
      <3>. QED  BY <1>0, <3>1 DEF Shown
    <2>. QED  BY <1>0, <2>1, <2>2, <2>3, NoFrames DEF SessionTypes, ChangeTypes, Loading
  <1>9. ASSUME NEW t \in Tabs, Connect(t) PROVE Streams'
    <2>1. /\ page[t] = "open" /\ stream[t] = "off"
          /\ stream' = [stream EXCEPT ![t] = IF cookie \in trusted THEN "open" ELSE "dead"]
          /\ cursor' = [cursor EXCEPT ![t] = last[t]]
          /\ UNCHANGED <<sessions, log, pending, last, seen, behind>>
      BY <1>9 DEF Connect, ChangesOnly
    <2>. QED  BY <1>0, <2>1, NoFrames DEF sessions, ChangeTypes
  <1>10. ASSUME NEW t \in Tabs, Read(t) PROVE Streams'
    <2>1. /\ stream[t] = "open" /\ pending' = [pending EXCEPT ![t] = Found(cursor[t])]
          /\ UNCHANGED <<sessions, log, stream, cursor, last, seen, behind>>
      BY <1>10 DEF Read, Flowing, ChangesOnly
    <2>2. cursor[t] \in 0..MaxEvents /\ Len(log) <= MaxEvents
      BY <1>0, BrowserAssumption DEF ChangeTypes
    <2>3. /\ ResetAlone(Found(cursor[t]))
          /\ cursor[t] <= Len(log) => Continues(Found(cursor[t]), cursor[t], log)
      BY <1>0, <2>2, FoundContinues
    <2>. QED  BY <1>0, <2>1, <2>3 DEF sessions, ChangeTypes
  <1>11. ASSUME NEW t \in Tabs, Send(t) PROVE Streams'
    <2>. DEFINE first == Head(pending[t])
                rest == Tail(pending[t])
    <2>1. /\ stream[t] = "open" /\ pending[t] # <<>> /\ pending[t] \in Seq(Frames)
          /\ page[t] = "open" /\ cursor[t] = last[t] /\ last[t] \in Nat
      BY <1>0, <1>11, BrowserAssumption DEF Send, Flowing, ChangeTypes
    <2>2. /\ first \in Frames /\ ResetAlone(rest)
          /\ first.id = 0 => rest = <<>>
          /\ Continues(pending[t], last[t], log) =>
                /\ first.place = last[t] + 1 /\ first.place <= Len(log)
                /\ first.id = log[last[t] + 1] /\ first.id # 0
                /\ Continues(rest, first.place, log)
      BY <1>0, <2>1, FirstSent
    <2>3. /\ pending' = [pending EXCEPT ![t] = rest]
          /\ cursor' = [cursor EXCEPT ![t] = first.place]
          /\ last' = [last EXCEPT ![t] = first.place]
          /\ seen' = [seen EXCEPT ![t] = IF first.id = 0 THEN Range(log) ELSE seen[t] \cup {first.id}]
          /\ behind' = IF first.id = 0 /\ first.place <= Len(log) THEN behind \ {t} ELSE behind
          /\ UNCHANGED <<sessions, log, stream>>
      BY <1>11 DEF Send, PlaceSent, ChangesOnly
    <2>. HIDE DEF first, rest
    <2>4. first.place \in Nat
      BY <2>2, BrowserAssumption DEF Frames
    <2>5. Following'
      BY <1>0, <2>1, <2>2, <2>3 DEF sessions, ChangeTypes
    <2>6. ASSUME t \notin behind, first.id # 0
          PROVE  Shown(first.place, log, seen[t] \cup {first.id})
      <3>1. /\ first.place = last[t] + 1 /\ first.place <= Len(log) /\ first.id = log[last[t] + 1]
            /\ Shown(last[t], log, seen[t])
        BY <2>1, <2>2, <2>6
      <3>2. ASSUME NEW i \in 1..first.place PROVE log[i] \in seen[t] \cup {first.id}
        <4>1. i = last[t] + 1 \/ i \in 1..last[t]
          BY <2>1, <3>1
        <4>. QED  BY <3>1, <4>1 DEF Shown
      <3>. QED  BY <3>1, <3>2 DEF Shown
    <2>7. first.id = 0 /\ first.place <= Len(log) => Shown(first.place, log, Range(log))
      BY <1>0, <2>4 DEF Shown
    <2>8. ASSUME NEW u \in Tabs \ behind', u # t
          PROVE  /\ last'[u] <= Len(log')
                 /\ Continues(pending'[u], cursor'[u], log')
                 /\ page'[u] = "open" => Shown(last'[u], log', seen'[u])
      BY <1>0, <2>3, <2>8 DEF sessions, ChangeTypes
    <2>9. ASSUME t \notin behind'
          PROVE  /\ last'[t] <= Len(log')
                 /\ Continues(pending'[t], cursor'[t], log')
                 /\ Shown(last'[t], log', seen'[t])
      <3>1. /\ last'[t] = first.place /\ cursor'[t] = first.place /\ pending'[t] = rest
            /\ log' = log
            /\ seen'[t] = IF first.id = 0 THEN Range(log) ELSE seen[t] \cup {first.id}
        BY <1>0, <2>3 DEF ChangeTypes
      <3>2. CASE first.id = 0
        <4>1. first.place <= Len(log)
          BY <2>1, <2>2, <2>3, <2>9, <3>2
        <4>. QED  BY <2>2, <2>7, <3>1, <3>2, <4>1, NoFrames
      <3>3. CASE first.id # 0
        <4>1. t \notin behind
          BY <2>3, <2>9, <3>3
        <4>. QED  BY <2>1, <2>2, <2>6, <3>1, <3>3, <4>1
      <3>. QED  BY <3>2, <3>3
    <2>. QED  BY <2>5, <2>8, <2>9
  <1>12. ASSUME NEW t \in Tabs, Leave(t) \/ Drop(t) PROVE Streams'
    <2>1. /\ stream' = [stream EXCEPT ![t] = "off"] /\ pending' = [pending EXCEPT ![t] = <<>>]
          /\ UNCHANGED <<page, ask, log, cursor, last, seen, behind>>
      BY <1>12 DEF Leave, Drop, StreamEnds, ChangesOnly, sessions
    <2>. QED  BY <1>0, <2>1, NoFrames DEF ChangeTypes
  <1>13. ASSUME Change PROVE Streams'
    <2>1. log' = Append(log, events) /\ events \in Identities
      BY <1>0, <1>13, BrowserAssumption DEF Change, ChangeTypes, Identities
    <2>2. /\ log' \in Seq(Identities) /\ Len(log') = Len(log) + 1 /\ Len(log) \in Nat
          /\ \A i \in 1..Len(log) : log'[i] = log[i]
      BY <1>0, <2>1
    <2>3. UNCHANGED <<page, ask, stream, cursor, pending, last, seen, behind>>
      BY <1>13 DEF Change, ChangesOnly, sessions
    <2>4. ASSUME NEW t \in Tabs \ behind
          PROVE  /\ last[t] <= Len(log')
                 /\ Continues(pending[t], cursor[t], log')
                 /\ page[t] = "open" => Shown(last[t], log', seen[t])
      <3>1. last[t] \in Nat /\ cursor[t] \in Nat /\ last[t] <= Len(log)
        BY <1>0, BrowserAssumption DEF ChangeTypes
      <3>2. Continues(pending[t], cursor[t], log')
        BY <1>0, <2>2, <3>1, StillContinues DEF ChangeTypes
      <3>3. \A i \in 1..last[t] : i <= Len(log') /\ log'[i] = log[i]
        BY <2>2, <3>1
      <3>4. page[t] = "open" => Shown(last[t], log', seen[t])
        BY <1>0, <2>2, <3>1, <3>3, GoesOn
      <3>. QED  BY <2>2, <3>1, <3>2, <3>4
    <2>. QED  BY <2>3, <2>4
  <1>14. ASSUME NEW copy \in copies, Restore(copy) PROVE Streams'
    <2>1. /\ copy \in Seq(Identities) /\ log' = Append(copy, events) /\ events \in Identities
          /\ behind' = behind \cup Overtaken(copy)
      BY <1>0, <1>14, BrowserAssumption DEF Restore, ChangeTypes, Identities
    <2>2. /\ log' \in Seq(Identities) /\ Len(log') = Len(copy) + 1 /\ Len(copy) \in Nat
          /\ \A i \in 1..Len(copy) : log'[i] = copy[i]
      BY <2>1
    <2>3. UNCHANGED <<page, ask, stream, cursor, pending, last, seen>>
      BY <1>14 DEF Restore, ChangesOnly, sessions
    <2>4. ASSUME NEW t \in Tabs \ behind'
          PROVE  /\ last[t] <= Len(log')
                 /\ Continues(pending[t], cursor[t], log')
                 /\ page[t] = "open" => Shown(last[t], log', seen[t])
      <3>1. /\ last[t] \in Nat /\ cursor[t] \in Nat /\ pending[t] \in Seq(Frames)
            /\ t \in Tabs \ behind
        BY <1>0, <2>1, BrowserAssumption DEF ChangeTypes
      <3>2. \A p \in {last[t]} \cup {f.place : f \in Range(pending[t])} :
                \A i \in 1..p : i <= Len(copy) /\ i <= Len(log) /\ copy[i] = log[i]
        BY <2>1, <2>2, <1>0, <2>4 DEF Overtaken
      <3>3. \A i \in 1..last[t] : i <= Len(log') /\ log'[i] = log[i]
        <4>1. \A i \in 1..last[t] : i <= Len(copy) /\ copy[i] = log[i]
          BY <3>2
        <4>. QED  BY <2>2, <3>1, <4>1
      <3>4. last[t] <= Len(log')
        <4>1. last[t] # 0 => last[t] \in 1..last[t]
          BY <3>1
        <4>. QED  BY <2>2, <3>1, <3>3, <4>1
      <3>5. Continues(pending[t], cursor[t], log')
        <4> SUFFICES ASSUME NEW i \in 1..Len(pending[t])
                     PROVE  /\ cursor[t] + i <= Len(log')
                            /\ pending[t][i] = [place |-> cursor[t] + i, id |-> log'[cursor[t] + i]]
          BY DEF Continues
        <4>1. pending[t][i] = [place |-> cursor[t] + i, id |-> log[cursor[t] + i]]
          BY <3>1 DEF Continues
        <4>2. pending[t][i] \in Range(pending[t])
          BY <3>1 DEF Range
        <4>3. cursor[t] + i \in {f.place : f \in Range(pending[t])}
          BY <4>1, <4>2
        <4>4. cursor[t] + i \in 1..(cursor[t] + i)
          BY <3>1
        <4>5. cursor[t] + i <= Len(copy) /\ copy[cursor[t] + i] = log[cursor[t] + i]
          BY <3>2, <4>3, <4>4
        <4>6. cursor[t] + i \in 1..Len(copy)
          BY <2>2, <3>1, <4>5
        <4>. QED  BY <2>2, <4>1, <4>5, <4>6
      <3>6. page[t] = "open" => Shown(last[t], log', seen[t])
        BY <1>0, <2>2, <3>1, <3>3, GoesOn
      <3>. QED  BY <3>4, <3>5, <3>6
    <2>. QED  BY <2>3, <2>4
  <1>15. ASSUME \/ \E c \in Clients : (ClientStep(c) \/ AskStop(c)) /\ Elsewhere
                \/ \E c \in Clients : Visit(c) \/ \E t \in Tabs : Dashboard(c, t)
                \/ \E s \in Services : (ServiceStep(s) \/ Signal(s)) /\ Elsewhere
                \/ \E s \in Services : Serves(s) \/ Closes(s)
                \/ \E k \in Tokens : Lapse(k)
                \/ Backup
         PROVE  Streams'
    <2>1. CASE Backup
      BY <2>1 DEF Backup, ChangesOnly, sessions
    <2>2. CASE ~Backup
      BY <1>1, <1>15, <2>2 DEF Elsewhere, sessions, Visit, Dashboard, Serves, Closes, Lapse,
         SessionsOnly
    <2>. QED  BY <2>1, <2>2
  <1>. QED
    BY <1>2, <1>3, <1>4, <1>5, <1>6, <1>7, <1>8, <1>9, <1>10, <1>11, <1>12, <1>13, <1>14, <1>15
       DEF Next, Request, Follow

\* A tab has the effect of every change up to the place it goes on from, or a
\* restore took that place back and the tab has had no reset since (events in
\* service.rs and store.rs, connectEvents in App.vue).
THEOREM NothingEverSkipped == Spec => []NothingSkipped
  <1>1. Init => Streams
    BY StreamsInit
  <1>2. Inv /\ Streams /\ [Next]_vars => Streams'
    <2>1. ASSUME Streams, UNCHANGED vars PROVE Streams'
      BY <2>1 DEF vars, sessions, changes, Streams, Following, Current
    <2>. QED  BY <2>1, StreamsKept
  <1>3. Streams => NothingSkipped
    BY DEF Streams, Current, Shown, NothingSkipped
  <1>. QED  BY <1>1, <1>2, <1>3, Invariance, PTL DEF Spec
=============================================================================
