-------------------------- MODULE InferenceProofs ---------------------------
(***************************************************************************)
(* The two halves of an answer.  AssessmentReuse, for every set of         *)
(* predictions and changes: types, and that a reused assessment is current *)
(* and not of a deleted decision.  InferenceWorker, for any set of         *)
(* requests and any length of the queue: types, one model at a time, and   *)
(* clean pipes.                                                            *)
(*                                                                         *)
(* The argument for reuse: whatever a prediction has read at the current   *)
(* epoch holds every change whose epoch has been counted, because a change *)
(* counts after it is made and a prediction reads the epoch before         *)
(* anything else.  The assessments of a deleted decision have older epochs *)
(* in their keys.                                                          *)
(***************************************************************************)
EXTENDS AssessmentReuse, InferenceWorker, TLAPS

-----------------------------------------------------------------------------
(* AssessmentReuse.                                                        *)

\* The epoch has been counted since the change c was made.
Counted(c) == kind[c] # "preferences" /\ at[c] \in {"advanced", "done"}

Concluded(c) == kind[c] = "preferences" /\ at[c] = "done"

\* p works with the current epoch.
AtEpoch(p) == pc[p] \in Running /\ seen[p].epoch = epoch

\* No epoch is from the future.
EpochsPast ==
    /\ \A p \in Predictions : pc[p] \in Running => seen[p].epoch <= epoch
    /\ \A e \in cache : e.key.epoch <= epoch

\* A change is at most the last one of what it changes.
VersionsPast ==
    \A c \in Changes :
       /\ version[c] <= IF kind[c] = "preferences" THEN prefs ELSE store
       /\ at[c] \in {"announced", "applied"} => kind[c] = "preferences"
       /\ at[c] \in {"committed", "orphan"} => kind[c] # "preferences"

\* What has been read at this epoch holds what was counted.
ReadsFresh ==
    \A p \in Predictions, c \in Changes :
       AtEpoch(p) /\ Counted(c) =>
          /\ pc[p] \in {"configured", "ready", "inferred"} => seen[p].settings >= version[c]
          /\ pc[p] \in {"ready", "inferred"} => seen[p].memory >= version[c]

\* The worker used the preferences that were concluded.
PreferencesFresh ==
    \A p \in Predictions, c \in Changes :
       AtEpoch(p) /\ pc[p] = "inferred" /\ Concluded(c) => seen[p].prefs >= version[c]

\* Only a prediction about to be answered reuses an assessment.
SourcesInferred ==
    \A p \in Predictions : source[p] # Nobody => pc[p] = "inferred"

\* A decision that is deleted has ended, and at this epoch nothing is of it.
DeletedBehind ==
    \A c \in Changes :
       /\ target[c] # Nobody => pc[target[c]] \in Ended
       /\ at[c] = "done" /\ target[c] # Nobody =>
             /\ \A e \in cache : e.of = target[c] => e.key.epoch < epoch
             /\ \A p \in Predictions :
                   pc[p] = "inferred" /\ source[p] = target[c] => seen[p].epoch < epoch

\* The epochs and versions that order the reads of a prediction and the changes.
Order == EpochsPast /\ VersionsPast /\ ReadsFresh /\ PreferencesFresh

Inv == TypeOK /\ Order /\ SourcesInferred /\ DeletedBehind

-----------------------------------------------------------------------------

\* The inductive invariant holds initially.
LEMMA InitInv == Init => Inv
  <1> SUFFICES ASSUME Init PROVE Inv
    OBVIOUS
  <1>1. TypeOK
    BY NobodyAssumption DEF Init, TypeOK, Inputs, Nothing, Kinds, Running, Ended, Busy
  <1>2. Order
    BY DEF Init, Order, EpochsPast, VersionsPast, ReadsFresh, PreferencesFresh,
           AtEpoch, Counted, Concluded, Running, Kinds
  <1>3. SourcesInferred /\ DeletedBehind
    BY DEF Init, SourcesInferred, DeletedBehind
  <1>. QED  BY <1>1, <1>2, <1>3 DEF Inv

\* What a prediction would be computed from is a key.
LEMMA KeyType ==
    ASSUME TypeOK, NEW p \in Predictions
    PROVE  /\ Key(p) \in Inputs
           /\ Key(p).epoch = seen[p].epoch
           /\ Key(p).settings = seen[p].settings
           /\ Key(p).memory = seen[p].memory
           /\ Key(p).prefs = prefs
  BY DEF TypeOK, Key, Inputs

\* A step of a prediction, or one that loses assessments.
LEMMA PredictKeepsType ==
    ASSUME TypeOK, NEW p \in Predictions, Predict(p) \/ Leave(p)
    PROVE  TypeOK'
  <1>1. CASE Start(p) \/ Record(p) \/ ReadSettings(p) \/ RetrieveMemory(p)
    <2>1. seen' \in [Predictions -> Inputs]
      <3>1. CASE Start(p)
        BY <3>1 DEF TypeOK, Start, Inputs
      <3>2. CASE Record(p)
        BY <3>2 DEF TypeOK, Record
      <3>3. CASE ReadSettings(p)
        BY <3>3 DEF TypeOK, ReadSettings, Inputs
      <3>4. CASE RetrieveMemory(p)
        BY <3>4 DEF TypeOK, RetrieveMemory, Inputs
      <3>. QED  BY <1>1, <3>1, <3>2, <3>3, <3>4
    <2>2. pc' \in [Predictions -> {"idle"} \cup Running \cup Ended]
      BY <1>1 DEF TypeOK, Start, Record, ReadSettings, RetrieveMemory, Running
    <2>. QED  BY <1>1, <2>1, <2>2
              DEF TypeOK, Start, Record, ReadSettings, RetrieveMemory, changing
  <1>2. CASE InferHit(p) \/ InferMiss(p)
    BY <1>2, KeyType DEF TypeOK, InferHit, InferMiss, Running, changing
  <1>3. CASE InferFails(p) \/ Finish(p) \/ Leave(p)
    <2>1. PICK how \in Ended : End(p, how)
      BY <1>3 DEF InferFails, Finish, Leave, Ended
    <2>2. Nothing \in Inputs
      BY DEF Nothing, Inputs
    <2>3. UNCHANGED <<epoch, privacy, store, prefs, cache, changing>>
      BY <1>3 DEF InferFails, Finish, Leave
    <2>. QED  BY <2>1, <2>2, <2>3 DEF TypeOK, End, changing
  <1>. QED  BY <1>1, <1>2, <1>3 DEF Predict

LEMMA ChangeKeepsType ==
    ASSUME TypeOK, NEW c \in Changes,
           Enter(c) \/ Change(c) \/ Orphaned(c) \/ OrphanCommit(c) \/ Drop(c)
    PROVE  TypeOK'
  <1>1. CASE Enter(c) \/ Refused(c) \/ Orphaned(c) \/ Drop(c)
    BY <1>1, NobodyAssumption
       DEF TypeOK, Enter, Refused, Orphaned, Drop, Step, Busy, predicting
  <1>2. CASE Commit(c)
    <2>1. target' \in [Changes -> Predictions \cup {Nobody}]
      BY <1>2 DEF TypeOK, Commit, Targets
    <2>. QED  BY <1>2, <2>1, NobodyAssumption
              DEF TypeOK, Commit, Allowed, Write, Step, Busy, predicting
  <1>3. CASE OrphanCommit(c)
    BY <1>3, NobodyAssumption DEF TypeOK, OrphanCommit, Write, Step, Busy, predicting
  <1>4. CASE Advance(c) \/ Purge(c)
    BY <1>4, NobodyAssumption DEF TypeOK, Advance, Purge, Step, Busy, predicting
  <1>5. CASE Announce(c) \/ Apply(c) \/ Conclude(c)
    BY <1>5, NobodyAssumption DEF TypeOK, Announce, Apply, Conclude, Step, Busy, predicting
  <1>. QED  BY <1>1, <1>2, <1>3, <1>4, <1>5 DEF Change

\* Predictions read the last change, at an epoch that is not from the future.
LEMMA PredictKeepsOrder ==
    ASSUME Inv, NEW p \in Predictions, Predict(p) \/ Leave(p)
    PROVE  Order'
  <1>1. TypeOK /\ EpochsPast /\ VersionsPast /\ ReadsFresh /\ PreferencesFresh
    BY DEF Inv, Order
  <1>2. /\ epoch' = epoch /\ store' = store /\ prefs' = prefs
        /\ at' = at /\ kind' = kind /\ version' = version
    BY DEF Predict, Start, Record, ReadSettings, RetrieveMemory, InferHit, InferMiss,
           InferFails, Finish, Leave, changing
  <1>3. VersionsPast'
    BY <1>1, <1>2 DEF VersionsPast
  <1>4. CASE Start(p)
    BY <1>1, <1>2, <1>3, <1>4
       DEF TypeOK, Inputs, Start, Order, EpochsPast, ReadsFresh, PreferencesFresh,
           AtEpoch, Counted, Concluded, Running
  <1>5. CASE Record(p)
    BY <1>1, <1>2, <1>3, <1>5
       DEF TypeOK, Inputs, Record, Order, EpochsPast, ReadsFresh, PreferencesFresh,
           AtEpoch, Counted, Concluded, Running
  <1>6. CASE ReadSettings(p)
    BY <1>1, <1>2, <1>3, <1>6
       DEF TypeOK, Inputs, ReadSettings, Order, EpochsPast, VersionsPast, ReadsFresh,
           PreferencesFresh, AtEpoch, Counted, Concluded, Running
  <1>7. CASE RetrieveMemory(p)
    BY <1>1, <1>2, <1>3, <1>7
       DEF TypeOK, Inputs, RetrieveMemory, Order, EpochsPast, VersionsPast, ReadsFresh,
           PreferencesFresh, AtEpoch, Counted, Concluded, Running
  <1>8. CASE InferHit(p) \/ InferMiss(p)
    <2>1. /\ seen' = [seen EXCEPT ![p] = Key(p)]
          /\ pc[p] = "ready" /\ pc' = [pc EXCEPT ![p] = "inferred"]
          /\ cache' \in {cache, cache \cup {[key |-> Key(p), of |-> p]}}
      BY <1>8 DEF InferHit, InferMiss
    <2>2. EpochsPast'
      BY <1>1, <1>2, <2>1, KeyType DEF TypeOK, EpochsPast, Running
    <2>3. ReadsFresh'
      BY <1>1, <1>2, <2>1, KeyType DEF TypeOK, ReadsFresh, AtEpoch, Counted, Running
    <2>4. PreferencesFresh'
      BY <1>1, <1>2, <2>1, KeyType
         DEF TypeOK, PreferencesFresh, VersionsPast, AtEpoch, Concluded, Running
    <2>. QED  BY <1>3, <2>2, <2>3, <2>4 DEF Order
  <1>9. CASE InferFails(p) \/ Finish(p) \/ Leave(p)
    <2>1. /\ seen' = [seen EXCEPT ![p] = Nothing] /\ cache' = cache
          /\ pc'[p] \in Ended /\ pc' = [pc EXCEPT ![p] = pc'[p]]
      BY <1>1, <1>9 DEF TypeOK, InferFails, Finish, Leave, End, Ended
    <2>. QED  BY <1>1, <1>2, <1>3, <2>1
              DEF TypeOK, Order, EpochsPast, ReadsFresh, PreferencesFresh,
                  AtEpoch, Counted, Concluded, Running, Ended
  <1>. QED  BY <1>4, <1>5, <1>6, <1>7, <1>8, <1>9 DEF Predict

\* A change is counted after it is made, and then no one is at the epoch.
LEMMA ChangeKeepsOrder ==
    ASSUME Inv, NEW c \in Changes,
           Enter(c) \/ Change(c) \/ Orphaned(c) \/ OrphanCommit(c) \/ Drop(c)
    PROVE  Order'
  <1>1. TypeOK /\ EpochsPast /\ VersionsPast /\ ReadsFresh /\ PreferencesFresh
    BY DEF Inv, Order
  <1>2. pc' = pc /\ seen' = seen /\ kind' = kind
    BY DEF Change, Enter, Commit, Refused, Orphaned, OrphanCommit, Advance, Purge,
           Announce, Apply, Conclude, Drop, predicting
  <1>3. CASE Enter(c) \/ Refused(c) \/ Orphaned(c) \/ Drop(c)
    <2>1. /\ epoch' = epoch /\ store' = store /\ prefs' = prefs /\ cache' = cache
          /\ version' = version
          /\ at' = [at EXCEPT ![c] = at'[c]] /\ at'[c] \in {"entered", "orphan", "lost"}
          /\ at'[c] = "orphan" => kind[c] # "preferences"
      BY <1>1, <1>3 DEF TypeOK, Enter, Refused, Orphaned, Drop, Step
    <2>. QED  BY <1>1, <1>2, <2>1
              DEF TypeOK, Order, EpochsPast, VersionsPast, ReadsFresh,
                  PreferencesFresh, AtEpoch, Counted, Concluded
  <1>4. CASE Commit(c) \/ OrphanCommit(c)
    <2>1. /\ epoch' = epoch /\ prefs' = prefs /\ cache' = cache
          /\ kind[c] # "preferences"
          /\ at' = [at EXCEPT ![c] = at'[c]] /\ at'[c] \in {"committed", "lost"}
          /\ store' \in {store, store + 1} /\ version' = [version EXCEPT ![c] = store']
      BY <1>1, <1>4 DEF TypeOK, VersionsPast, Commit, OrphanCommit, Step, Write
    <2>2. ~Counted(c)' /\ ~Concluded(c)'
      BY <1>1, <2>1 DEF TypeOK, Counted, Concluded
    <2>3. VersionsPast'
      BY <1>1, <1>2, <2>1 DEF TypeOK, VersionsPast
    <2>4. EpochsPast' /\ ReadsFresh' /\ PreferencesFresh'
      BY <1>1, <1>2, <2>1, <2>2
         DEF TypeOK, EpochsPast, ReadsFresh, PreferencesFresh, AtEpoch, Counted, Concluded
    <2>. QED  BY <2>3, <2>4 DEF Order
  <1>5. CASE Advance(c) \/ Purge(c) \/ Announce(c) \/ Conclude(c)
    <2>1. /\ epoch' = epoch + 1 /\ cache' \subseteq cache
          /\ store' = store /\ prefs' = prefs /\ version' = version
          /\ at' = [at EXCEPT ![c] = at'[c]] /\ at'[c] \in {"advanced", "announced", "done"}
          /\ at'[c] = "announced" => kind[c] = "preferences"
      BY <1>1, <1>5 DEF TypeOK, Advance, Purge, Announce, Conclude, Step
    <2>2. EpochsPast' /\ VersionsPast'
      BY <1>1, <1>2, <2>1 DEF TypeOK, Inputs, EpochsPast, VersionsPast
    <2>3. \A p \in Predictions : ~AtEpoch(p)'
      BY <1>1, <1>2, <2>1 DEF TypeOK, Inputs, EpochsPast, AtEpoch
    <2>. QED  BY <2>2, <2>3 DEF Order, ReadsFresh, PreferencesFresh
  <1>6. CASE Apply(c)
    <2>1. /\ epoch' = epoch /\ store' = store /\ cache' \subseteq cache
          /\ at' = [at EXCEPT ![c] = "applied"] /\ prefs' \in {prefs, prefs + 1}
          /\ version' = version \/ (prefs' = prefs + 1 /\ version' = [version EXCEPT ![c] = prefs'])
          /\ kind[c] = "preferences" /\ at[c] = "announced"
      BY <1>1, <1>6 DEF Apply, Step, VersionsPast
    <2>2. \A d \in Changes : Counted(d)' \/ Concluded(d)' =>
             version'[d] = version[d] /\ (Counted(d)' => Counted(d)) /\ (Concluded(d)' => Concluded(d))
      BY <1>1, <1>2, <2>1 DEF TypeOK, Counted, Concluded
    <2>4. EpochsPast'
      BY <1>1, <1>2, <2>1 DEF EpochsPast
    <2>5. ReadsFresh' /\ PreferencesFresh'
      BY <1>1, <1>2, <2>1, <2>2 DEF ReadsFresh, PreferencesFresh, AtEpoch
    <2>6. VersionsPast'
      BY <1>1, <1>2, <2>1 DEF TypeOK, VersionsPast
    <2>. QED  BY <2>4, <2>5, <2>6 DEF Order
  <1>. QED  BY <1>3, <1>4, <1>5, <1>6 DEF Change

\* A running prediction computes and reuses at its own epoch.
LEMMA PredictKeepsDeleted ==
    ASSUME Inv, NEW p \in Predictions, Predict(p) \/ Leave(p)
    PROVE  SourcesInferred' /\ DeletedBehind'
  <1>1. TypeOK /\ SourcesInferred /\ DeletedBehind /\ EpochsPast
    BY DEF Inv, Order
  <1>2. epoch' = epoch /\ at' = at /\ target' = target
    BY DEF Predict, Start, Record, ReadSettings, RetrieveMemory, InferHit, InferMiss,
           InferFails, Finish, Leave, changing
  <1>3. pc[p] \notin Ended
    BY DEF Predict, Start, Record, ReadSettings, RetrieveMemory, InferHit, InferMiss,
           InferFails, Finish, Leave, Running, Ended
  <1>4. CASE Start(p) \/ Record(p) \/ ReadSettings(p) \/ RetrieveMemory(p)
    <2>1. /\ cache' = cache /\ source' = source /\ pc[p] # "inferred"
          /\ pc' = [pc EXCEPT ![p] = pc'[p]] /\ pc'[p] \in Running \ {"inferred"}
          /\ \A q \in Predictions \ {p} : seen'[q] = seen[q]
      BY <1>1, <1>4
         DEF TypeOK, Start, Record, ReadSettings, RetrieveMemory, Running
    <2>. QED  BY <1>1, <1>2, <1>3, <2>1 DEF TypeOK, SourcesInferred, DeletedBehind
  <1>5. CASE InferHit(p)
    BY <1>1, <1>2, <1>3, <1>5, KeyType
       DEF TypeOK, SourcesInferred, DeletedBehind, InferHit, Ended
  <1>6. CASE InferMiss(p)
    <2>1. \A e \in cache' : e \in cache \/ e.of = p
      BY <1>6 DEF InferMiss
    <2>2. /\ pc' = [pc EXCEPT ![p] = "inferred"] /\ source' = source
          /\ seen' = [seen EXCEPT ![p] = Key(p)] /\ source[p] = Nobody
      BY <1>1, <1>6 DEF InferMiss, SourcesInferred
    <2>3. SourcesInferred'
      BY <1>1, <2>2 DEF TypeOK, SourcesInferred
    <2>4. DeletedBehind'
      BY <1>1, <1>2, <1>3, <2>1, <2>2 DEF TypeOK, DeletedBehind, Ended
    <2>. QED  BY <2>3, <2>4
  <1>7. CASE InferFails(p) \/ Finish(p) \/ Leave(p)
    <2>1. /\ seen' = [seen EXCEPT ![p] = Nothing] /\ cache' = cache
          /\ source' = [source EXCEPT ![p] = Nobody]
          /\ pc'[p] \in Ended /\ pc' = [pc EXCEPT ![p] = pc'[p]]
      BY <1>1, <1>7 DEF TypeOK, InferFails, Finish, Leave, End, Ended
    <2>. QED  BY <1>1, <1>2, <1>3, <2>1
              DEF TypeOK, SourcesInferred, DeletedBehind, Ended
  <1>. QED  BY <1>4, <1>5, <1>6, <1>7 DEF Predict

\* A deletion is acknowledged with an epoch that nothing has been made at.
LEMMA ChangeKeepsDeleted ==
    ASSUME Inv, NEW c \in Changes,
           Enter(c) \/ Change(c) \/ Orphaned(c) \/ OrphanCommit(c) \/ Drop(c)
    PROVE  SourcesInferred' /\ DeletedBehind'
  <1>1. TypeOK /\ SourcesInferred /\ DeletedBehind /\ EpochsPast
    BY DEF Inv, Order
  <1>2. pc' = pc /\ seen' = seen /\ source' = source
    BY DEF Change, Enter, Commit, Refused, Orphaned, OrphanCommit, Advance, Purge,
           Announce, Apply, Conclude, Drop, predicting
  <1>0. SourcesInferred'
    BY <1>1, <1>2 DEF SourcesInferred
  <1>3. CASE Enter(c) \/ Refused(c) \/ Orphaned(c) \/ OrphanCommit(c) \/ Drop(c)
    BY <1>0, <1>1, <1>2, <1>3
       DEF TypeOK, Enter, Refused, Orphaned, OrphanCommit, Drop, Step, DeletedBehind
  <1>4. CASE Commit(c)
    BY <1>0, <1>1, <1>2, <1>4 DEF TypeOK, Commit, Step, Targets, DeletedBehind
  <1>5. CASE Advance(c) \/ Purge(c) \/ Announce(c) \/ Conclude(c)
    <2>1. epoch' = epoch + 1 /\ cache' \subseteq cache /\ target' = target
      BY <1>5 DEF Advance, Purge, Announce, Conclude
    <2>. QED  BY <1>0, <1>1, <1>2, <2>1
              DEF TypeOK, Inputs, DeletedBehind, EpochsPast, Running
  <1>6. CASE Apply(c)
    BY <1>0, <1>1, <1>2, <1>6 DEF TypeOK, Apply, Step, DeletedBehind
  <1>. QED  BY <1>3, <1>4, <1>5, <1>6 DEF Change

\* The loss of assessments, and of everything but the files.
LEMMA LossKeepsInv ==
    ASSUME Inv, (\E e \in cache : Forget(e)) \/ ChildStops \/ Crash
    PROVE  Inv'
  <1>1. CASE (\E e \in cache : Forget(e)) \/ ChildStops
    <2>1. /\ cache' \subseteq cache
          /\ UNCHANGED <<epoch, privacy, store, prefs, predicting, changing>>
      BY <1>1 DEF Forget, ChildStops
    <2>. QED  BY <2>1
              DEF Inv, TypeOK, Order, EpochsPast, VersionsPast, ReadsFresh,
                  PreferencesFresh, SourcesInferred, DeletedBehind, AtEpoch, Counted, Concluded,
                  predicting, changing
  <1>2. CASE Crash
    <2>1. TypeOK'
      BY <1>2, NobodyAssumption
         DEF Inv, TypeOK, Crash, Nothing, Inputs, Running, Ended, Busy
    <2>2. \A p \in Predictions : pc'[p] \notin Running /\ (pc[p] \in Ended => pc'[p] \in Ended)
      BY <1>2 DEF Crash, Running, Ended
    <2>3. Order'
      BY <1>2, <2>2
         DEF Inv, Order, EpochsPast, VersionsPast, ReadsFresh, PreferencesFresh,
             AtEpoch, Crash
    <2>4. SourcesInferred' /\ DeletedBehind'
      BY <1>2, <2>2 DEF Inv, TypeOK, SourcesInferred, DeletedBehind, Crash, Running
    <2>. QED  BY <2>1, <2>3, <2>4 DEF Inv
  <1>. QED  BY <1>1, <1>2

\* The invariant is inductive.
LEMMA NextInv == Inv /\ [Next]_vars => Inv'
  <1> SUFFICES ASSUME Inv, [Next]_vars PROVE Inv'
    OBVIOUS
  <1>1. CASE \E p \in Predictions : Predict(p) \/ Leave(p)
    BY <1>1, PredictKeepsType, PredictKeepsOrder, PredictKeepsDeleted DEF Inv
  <1>2. CASE \E c \in Changes :
                Enter(c) \/ Change(c) \/ Orphaned(c) \/ OrphanCommit(c) \/ Drop(c)
    BY <1>2, ChangeKeepsType, ChangeKeepsOrder, ChangeKeepsDeleted DEF Inv
  <1>3. CASE (\E e \in cache : Forget(e)) \/ ChildStops \/ Crash
    BY <1>3, LossKeepsInv
  <1>4. CASE UNCHANGED vars
    BY <1>4 DEF Inv, TypeOK, Order, EpochsPast, VersionsPast, ReadsFresh,
                PreferencesFresh, SourcesInferred, DeletedBehind, AtEpoch, Counted, Concluded,
                vars, predicting, changing
  <1>. QED  BY <1>1, <1>2, <1>3, <1>4 DEF Next

\* The inductive invariant always holds.
LEMMA AlwaysInv == Spec => []Inv
  BY InitInv, NextInv, PTL DEF Spec

-----------------------------------------------------------------------------

\* Whoever reuses an assessment does so at the current epoch, since the answer
\* is checked against it.
LEMMA ReuseAtEpoch ==
    ASSUME TypeOK, Next, NEW p \in Predictions, Reuses(p)
    PROVE  AtEpoch(p) /\ pc[p] = "inferred"
  <1>1. Finish(p)
    <2>1. CASE \E q \in Predictions : Predict(q) \/ Leave(q)
      <3> PICK q \in Predictions : Predict(q) \/ Leave(q)
        BY <2>1
      <3>1. q = p
        BY DEF TypeOK, Reuses, Predict, Leave, Start, Record, ReadSettings,
               RetrieveMemory, InferHit, InferMiss, InferFails, Finish, End
      <3>. QED  BY <3>1
                DEF TypeOK, Reuses, Predict, Leave, Start, Record, ReadSettings,
                    RetrieveMemory, InferHit, InferMiss, InferFails, Finish, End
    <2>2. CASE \E c \in Changes :
                  Enter(c) \/ Change(c) \/ Orphaned(c) \/ OrphanCommit(c) \/ Drop(c)
      BY <2>2 DEF Reuses, Change, Enter, Commit, Refused, Orphaned, OrphanCommit,
                  Advance, Purge, Announce, Apply, Conclude, Drop, predicting
    <2>3. CASE (\E e \in cache : Forget(e)) \/ ChildStops \/ Crash
      BY <2>3 DEF Reuses, Forget, ChildStops, Crash, predicting, Running
    <2>. QED  BY <2>1, <2>2, <2>3 DEF Next
  <1>. QED  BY <1>1 DEF TypeOK, Reuses, Finish, End, Stale, AtEpoch, Running

\* Types, and the holder of the privacy lock, for every number of decisions
\* and changes.
THEOREM TypeCorrect == Spec => []TypeOK
  BY AlwaysInv, PTL DEF Inv

\* A reused assessment holds every acknowledged change (predict and
\* persist_snapshot in service.rs).
THEOREM ReuseAlwaysCurrent == Spec => ReuseIsCurrent
  <1>1. Inv /\ [Next]_vars =>
          [\A p \in Predictions, c \in Acknowledged :
              Reuses(p) => Includes(p, c) /\ source[p] # target[c]]_vars
    <2> SUFFICES ASSUME Inv, Next, NEW p \in Predictions, NEW c \in Acknowledged, Reuses(p)
                 PROVE  Includes(p, c) /\ source[p] # target[c]
      BY DEF vars
    <2>1. AtEpoch(p) /\ pc[p] = "inferred"
      BY ReuseAtEpoch DEF Inv
    <2>2. c \in Changes /\ at[c] = "done"
      BY DEF Acknowledged
    <2>3. Includes(p, c)
      BY <2>1, <2>2
         DEF Inv, Order, ReadsFresh, PreferencesFresh, Counted, Concluded, Includes
    <2>4. source[p] # target[c]
      BY <2>1, <2>2 DEF Inv, TypeOK, Inputs, DeletedBehind, AtEpoch, Reuses
    <2>. QED  BY <2>3, <2>4
  <1>. QED  BY <1>1, AlwaysInv, PTL DEF Spec, ReuseIsCurrent

-----------------------------------------------------------------------------
(* InferenceWorker.                                                        *)

\* The task has taken a request except while it waits for one; it starts a
\* child when there is none and talks to one that exists.
TaskState ==
    /\ work = None <=> control = "receive"
    /\ control = "start" => child = "none"
    /\ control \in {"write", "read"} => child # "none"

\* An answered request is not in both pipes, and there are none without a
\* child to read and write them.
PipeState ==
    /\ asked = {} \/ unread = {}
    /\ child = "none" => asked = {} /\ unread = {}

WorkerInv == WorkerTypeOK /\ OneModel /\ PipesClean /\ TaskState /\ PipeState

\* The queue keeps its type and its bound when it gains or loses a request.
LEMMA QueueType ==
    ASSUME NEW q \in Seq(Requests), Len(q) <= Capacity
    PROVE  /\ q # <<>> => /\ Head(q) \in Requests
                          /\ Tail(q) \in Seq(Requests)
                          /\ Len(Tail(q)) <= Capacity
           /\ \A r \in Requests : Len(q) < Capacity =>
                  /\ Append(q, r) \in Seq(Requests)
                  /\ Len(Append(q, r)) <= Capacity
  BY CapacityAssumption

\* The inductive invariant holds initially.
LEMMA WorkerInitInv == WorkerInit => WorkerInv
  <1> SUFFICES ASSUME WorkerInit PROVE WorkerInv
    OBVIOUS
  <1>1. call \in [Requests -> CallStatus]
    BY DEF WorkerInit, CallStatus
  <1>2. queue \in Seq(Requests) /\ Len(queue) <= Capacity
    BY CapacityAssumption DEF WorkerInit
  <1>3. WorkerTypeOK
    BY <1>1, <1>2 DEF WorkerInit, WorkerTypeOK, Control, ChildStatus
  <1>4. OneModel /\ PipesClean /\ TaskState /\ PipeState
    BY DEF WorkerInit, OneModel, PipesClean, TaskState, PipeState
  <1>. QED  BY <1>3, <1>4 DEF WorkerInv

\* A step of a caller changes no part of the task or the child.
LEMMA CallerKeepsInv ==
    ASSUME WorkerInv, NEW r \in Requests, Call(r) \/ Cancel(r) \/ Deadline(r) \/ GiveUp(r)
    PROVE  WorkerInv'
  <1>1. /\ work' = work /\ control' = control /\ child' = child /\ asked' = asked
        /\ unread' = unread /\ orphan' = orphan /\ snake' = snake
    BY DEF Call, Cancel, Deadline, GiveUp, process
  <1>2. call' \in [Requests -> CallStatus] /\ overdue' \subseteq Requests
    BY DEF WorkerInv, WorkerTypeOK, Call, Cancel, Deadline, GiveUp, CallStatus, process
  <1>3. queue' \in Seq(Requests) /\ Len(queue') <= Capacity
    <2>1. CASE Call(r)
      BY <2>1, QueueType DEF WorkerInv, WorkerTypeOK, Call
    <2>2. CASE Cancel(r) \/ Deadline(r) \/ GiveUp(r)
      BY <2>2 DEF WorkerInv, WorkerTypeOK, Cancel, Deadline, GiveUp
    <2>. QED  BY <2>1, <2>2
  <1>. QED  BY <1>1, <1>2, <1>3
            DEF WorkerInv, WorkerTypeOK, OneModel, PipesClean, TaskState, PipeState

\* A step of the task.
LEMMA TaskKeepsInv ==
    ASSUME WorkerInv, Task
    PROVE  WorkerInv'
  <1>0. work \in Requests \/ control = "receive"
    BY DEF WorkerInv, WorkerTypeOK, TaskState
  <1>1. WorkerTypeOK'
    <2>1. call' \in [Requests -> CallStatus]
      BY DEF WorkerInv, WorkerTypeOK, Task, Receive, IdleStop, Skip, Release, ExpiredInQueue,
             Begin, StartChild, StartFails, WriteRequest, Read, ReadEnd, TimedOut,
             CallerLeft, StopChild, Reply, Answer, CallStatus, service
    <2>2. queue' \in Seq(Requests) /\ Len(queue') <= Capacity
      BY QueueType
         DEF WorkerInv, WorkerTypeOK, Task, Receive, IdleStop, Skip, Release, ExpiredInQueue,
             Begin, StartChild, StartFails, WriteRequest, Read, ReadEnd, TimedOut,
             CallerLeft, StopChild, Reply, service
    <2>3. control' \in Control /\ work' \in Requests \cup {None}
      BY QueueType
         DEF WorkerInv, WorkerTypeOK, Task, Receive, IdleStop, Skip, Release, ExpiredInQueue,
             Begin, StartChild, StartFails, WriteRequest, Read, ReadEnd, TimedOut,
             CallerLeft, StopChild, Reply, service, Goto, Control
    <2>4. child' \in ChildStatus /\ asked' \subseteq Requests /\ unread' \subseteq Requests
      BY <1>0
         DEF WorkerInv, WorkerTypeOK, Task, Receive, IdleStop, Skip, Release, ExpiredInQueue,
             Begin, StartChild, StartFails, WriteRequest, Read, ReadEnd, TimedOut,
             CallerLeft, StopChild, Reply, process, KillChild, ChildStatus
    <2>5. overdue' = overdue /\ orphan' = orphan /\ snake' = snake
      BY DEF Task, Receive, IdleStop, Skip, Release, ExpiredInQueue,
             Begin, StartChild, StartFails, WriteRequest, Read, ReadEnd, TimedOut,
             CallerLeft, StopChild, Reply, service
    <2>. QED  BY <2>1, <2>2, <2>3, <2>4, <2>5 DEF WorkerInv, WorkerTypeOK
  <1>2. (OneModel /\ PipesClean /\ TaskState /\ PipeState)'
    <2>1. CASE Receive
      BY <2>1, QueueType, NoneAssumption
         DEF WorkerInv, WorkerTypeOK, OneModel, PipesClean, TaskState, PipeState, Receive, process
    <2>2. CASE IdleStop
      BY <2>2 DEF WorkerInv, OneModel, PipesClean, TaskState, PipeState, IdleStop,
                  KillChild, service
    <2>3. CASE Skip \/ ExpiredInQueue
      BY <2>3 DEF WorkerInv, OneModel, PipesClean, TaskState, PipeState, Skip,
                  ExpiredInQueue, Goto, process
    <2>4. CASE Release
      BY <2>4 DEF WorkerInv, OneModel, PipesClean, TaskState, PipeState, Release,
                  KillChild, Goto
    <2>5. CASE Begin
      BY <2>5 DEF WorkerInv, OneModel, PipesClean, TaskState, PipeState, Begin, Goto, process
    <2>6. CASE StartChild
      BY <2>6 DEF WorkerInv, OneModel, PipesClean, TaskState, PipeState, StartChild,
                  LockFree, Goto
    <2>7. CASE StartFails
      BY <2>7 DEF WorkerInv, OneModel, PipesClean, TaskState, PipeState, StartFails,
                  Goto, process
    <2>8. CASE WriteRequest
      BY <2>8 DEF WorkerInv, OneModel, PipesClean, TaskState, PipeState, WriteRequest, Goto
    <2>9. CASE \E q \in unread : Read(q)
      BY <2>9 DEF WorkerInv, OneModel, PipesClean, TaskState, PipeState, Read, Goto
    <2>10. CASE ReadEnd \/ TimedOut \/ CallerLeft
      BY <2>10 DEF WorkerInv, OneModel, PipesClean, TaskState, PipeState, ReadEnd,
                   TimedOut, CallerLeft, Goto, process
    <2>11. CASE StopChild
      BY <2>11 DEF WorkerInv, OneModel, PipesClean, TaskState, PipeState, StopChild,
                   KillChild, Goto
    <2>12. CASE Reply
      BY <2>12 DEF WorkerInv, OneModel, PipesClean, TaskState, PipeState, Reply,
                   Goto, process
    <2>. QED  BY <2>1, <2>2, <2>3, <2>4, <2>5, <2>6, <2>7, <2>8, <2>9, <2>10,
                 <2>11, <2>12 DEF Task
  <1>. QED  BY <1>1, <1>2 DEF WorkerInv

\* Every step keeps the inductive invariant.
LEMMA WorkerNextInv == WorkerInv /\ [WorkerNext]_workerVars => WorkerInv'
  <1> SUFFICES ASSUME WorkerInv, [WorkerNext]_workerVars PROVE WorkerInv'
    OBVIOUS
  <1> USE DEF WorkerInv, WorkerTypeOK, OneModel, PipesClean, TaskState, PipeState
  <1>1. CASE \E r \in Requests : Call(r) \/ Cancel(r) \/ Deadline(r) \/ GiveUp(r)
    BY <1>1, CallerKeepsInv
  <1>2. CASE Task
    BY <1>2, TaskKeepsInv
  <1>3. CASE \E q \in asked : ChildReplies(q)
    BY <1>3 DEF ChildReplies, service
  <1>4. CASE ChildExits
    BY <1>4 DEF ChildExits, service, ChildStatus
  <1>5. CASE ServiceKilled
    <2>1. call' \in [Requests -> CallStatus]
      BY <1>5 DEF ServiceKilled, CallStatus
    <2>2. queue' \in Seq(Requests) /\ Len(queue') <= Capacity
      BY <1>5, CapacityAssumption DEF ServiceKilled
    <2>3. orphan' \in BOOLEAN /\ (orphan' => ~snake)
      BY <1>5 DEF ServiceKilled
    <2>. QED  BY <1>5, <2>1, <2>2, <2>3
              DEF ServiceKilled, KillChild, Goto, Control, ChildStatus
  <1>6. CASE OrphanExits
    BY <1>6 DEF OrphanExits, service, process
  <1>7. CASE SnakeStarts
    BY <1>7 DEF SnakeStarts, LockFree, service, process
  <1>8. CASE SnakeEnds
    BY <1>8 DEF SnakeEnds, service, process
  <1>9. CASE UNCHANGED workerVars
    BY <1>9 DEF workerVars
  <1>. QED  BY <1>1, <1>2, <1>3, <1>4, <1>5, <1>6, <1>7, <1>8, <1>9 DEF WorkerNext

\* Every variable of the worker has its type; the queue is never over its
\* capacity.
THEOREM WorkerTypeCorrect == WorkerSpec => []WorkerTypeOK
  BY WorkerInitInv, WorkerNextInv, PTL DEF WorkerSpec, WorkerInv

\* At most one model is in memory, through kills of the service and starts of
\* the demo in any order.
THEOREM AlwaysOneModel == WorkerSpec => []OneModel
  BY WorkerInitInv, WorkerNextInv, PTL DEF WorkerSpec, WorkerInv

\* No exchange meets what another left in the pipes.
THEOREM PipesAlwaysClean == WorkerSpec => []PipesClean
  BY WorkerInitInv, WorkerNextInv, PTL DEF WorkerSpec, WorkerInv
=============================================================================
