--------------------------- MODULE ServiceLifetime ---------------------------
(***************************************************************************)
(* The processes of the service of one workbench, and the clients that     *)
(* start it, find it and stop it.                                          *)
(*                                                                         *)
(* A process takes the file lock service.lock, replaces what is left of    *)
(* service.sock, listens, serves, and undoes this in the reverse order     *)
(* when it is told to stop.  When it is killed or leaves with an error,    *)
(* the lock goes with it and the file stays, leading nowhere.  A client    *)
(* (an MCP bridge, `laya dashboard`) pings the service, launches one when  *)
(* nothing listens, polls until one answers, and makes its call; `laya     *)
(* stop` only makes its call.  service.rs (run_with_port), runtime.rs      *)
(* (rpc, ensure_port), main.rs.                                            *)
(*                                                                         *)
(* A connection that waits to be accepted is a client whose ping or call   *)
(* has not been made yet; an answer is given at once, except by a call     *)
(* that works under the maintenance lock.  The port of the service, the    *)
(* version of its protocol and its log are left out.                       *)
(***************************************************************************)
EXTENDS Naturals

CONSTANTS
    Services,    \* processes, a number of them reused for ever
    Clients,
    Nobody,
    MaxFaults,   \* processes that are killed or fail, at most
    MaxStops     \* requests to stop, at most

ASSUME NobodyAssumption == Nobody \notin Services
ASSUME BoundAssumption == MaxFaults \in Nat /\ MaxStops \in Nat

VARIABLES
    agents,   \* the clients that are MCP bridges; the others are commands a person runs
    pc,       \* where each process is in run_with_port
    lock,     \* the process that holds service.lock
    sock,     \* the process whose listener service.sock was made for
    stage,    \* where each client is
    peer,     \* the process that works for a client
    late,     \* calls whose service was told to stop before or while it works
    faults, stops

svars == <<agents, pc, lock, sock, stage, peer, late, faults, stops>>

Places == {"off", "launched", "locked", "cleared", "bound", "serving", "stopping",
           "closed", "released", "removed", "unlocked"}
Stages == {"idle", "ping", "spawn", "poll", "ready", "working", "stop"}

LifetimeTypeOK ==
    /\ agents \subseteq Clients
    /\ pc \in [Services -> Places]
    /\ lock \in Services \cup {Nobody}
    /\ sock \in Services \cup {Nobody}
    /\ stage \in [Clients -> Stages]
    /\ peer \in [Clients -> Services \cup {Nobody}]
    /\ late \subseteq Clients
    /\ faults \in 0..MaxFaults
    /\ stops \in 0..MaxStops

LifetimeInit ==
    /\ agents \in SUBSET Clients
    /\ pc = [s \in Services |-> "off"]
    /\ lock = Nobody
    /\ sock = Nobody
    /\ stage = [c \in Clients |-> "idle"]
    /\ peer = [c \in Clients |-> Nobody]
    /\ late = {}
    /\ faults \in 0..MaxFaults
    /\ stops \in 0..MaxStops

\* Connecting to service.sock succeeds: the process has its listener.
Reaches(s) == sock = s /\ pc[s] \in {"bound", "serving", "stopping"}

\* What connects is accepted and answered.
Answers(s) == sock = s /\ pc[s] \in {"serving", "stopping"}

NoListener == \A s \in Services : ~Reaches(s)
WorkingFor(s) == {c \in Clients : stage[c] = "working" /\ peer[c] = s}

\* Any process that does not run: they are alike.
FreeSlot == CHOOSE s \in Services : pc[s] = "off"

Moves(c, here, there) ==
    /\ stage[c] = here
    /\ stage' = [stage EXCEPT ![c] = there]

-----------------------------------------------------------------------------
(* Clients.                                                                *)

ClientOnly == UNCHANGED <<agents, pc, lock, sock, faults, stops>>

Call(c) ==
    /\ Moves(c, "idle", "ping")
    /\ ClientOnly /\ UNCHANGED <<peer, late>>

Told(c) ==
    /\ \E here \in {"ping", "poll"} : Moves(c, here, "ready")
    /\ \E s \in Services : Answers(s)
    /\ ClientOnly /\ UNCHANGED <<peer, late>>

Refused(c) ==
    /\ Moves(c, "ping", "spawn")
    /\ NoListener
    /\ ClientOnly /\ UNCHANGED <<peer, late>>

Spawn(c) ==
    /\ Moves(c, "spawn", "poll")
    /\ \E s \in Services : pc[s] = "off"
    /\ pc' = [pc EXCEPT ![FreeSlot] = "launched"]
    /\ UNCHANGED <<agents, lock, sock, peer, late, faults, stops>>

\* The process that was launched has failed, or a hundred polls have.
GiveUp(c) ==
    /\ Moves(c, "poll", "idle")
    /\ NoListener
    /\ ClientOnly /\ UNCHANGED <<peer, late>>

\* A call that takes the maintenance lock, for as long as it works.
Begin(c) ==
    /\ c \in agents
    /\ Moves(c, "ready", "working")
    /\ \E s \in Services :
         /\ Answers(s)
         /\ peer' = [peer EXCEPT ![c] = s]
         /\ late' = IF pc[s] = "stopping" THEN late \cup {c} ELSE late
    /\ ClientOnly

\* `laya dashboard` asks for a pairing code, without that lock.
Asked(c) ==
    /\ c \notin agents
    /\ Moves(c, "ready", "idle")
    /\ \E s \in Services : Answers(s)
    /\ ClientOnly /\ UNCHANGED <<peer, late>>

\* The service was there when the client asked, and is gone.
Missed(c) ==
    /\ \E here \in {"ready", "stop"} : Moves(c, here, "idle")
    /\ NoListener
    /\ ClientOnly /\ UNCHANGED <<peer, late>>

Finish(c) ==
    /\ Moves(c, "working", "idle")
    /\ peer' = [peer EXCEPT ![c] = Nobody]
    /\ late' = late \ {c}
    /\ ClientOnly

AskStop(c) ==
    /\ Moves(c, "idle", "stop")
    /\ stops > 0
    /\ stops' = stops - 1
    /\ UNCHANGED <<agents, pc, lock, sock, peer, late, faults>>

Stop_Anyway(c) ==
    /\ Moves(c, "stop", "idle")
    /\ \E s \in Services : Answers(s) /\ pc' = [pc EXCEPT ![s] = "stopping"]
    /\ UNCHANGED <<agents, lock, sock, peer, late, faults, stops>>

\* The service stops only if nobody holds its maintenance lock.
Stop(c) ==
    /\ Moves(c, "stop", "idle")
    /\ \E s \in Services :
         /\ Answers(s)
         /\ WorkingFor(s) = {}
         /\ pc' = [pc EXCEPT ![s] = "stopping"]
    /\ UNCHANGED <<agents, lock, sock, peer, late, faults, stops>>

StopRefused(c) ==
    /\ Moves(c, "stop", "idle")
    /\ \E s \in Services : Answers(s) /\ WorkingFor(s) # {}
    /\ ClientOnly /\ UNCHANGED <<peer, late>>
-----------------------------------------------------------------------------
(* Processes.                                                              *)

Goes(s, here, there) ==
    /\ pc[s] = here
    /\ pc' = [pc EXCEPT ![s] = there]

ServiceOnly == UNCHANGED <<agents, stage, peer, late, faults, stops>>

\* The process is no more: its lock goes, its calls fail, service.sock stays.
Ends(s) ==
    /\ pc' = [pc EXCEPT ![s] = "off"]
    /\ lock' = IF lock = s THEN Nobody ELSE lock
    /\ stage' = [c \in Clients |-> IF c \in WorkingFor(s) THEN "idle" ELSE stage[c]]
    /\ peer' = [c \in Clients |-> IF c \in WorkingFor(s) THEN Nobody ELSE peer[c]]
    /\ late' = late \ WorkingFor(s)
    /\ UNCHANGED <<agents, sock, stops>>

TryLock(s) ==
    /\ Goes(s, "launched", "locked")
    /\ lock = Nobody
    /\ lock' = s
    /\ UNCHANGED sock /\ ServiceOnly

Loses_Cleans(s) ==
    /\ pc[s] = "launched"
    /\ lock # Nobody
    /\ pc' = [pc EXCEPT ![s] = "off"]
    /\ sock' = Nobody
    /\ UNCHANGED lock /\ ServiceOnly

\* Another process has the lock: this one exits, without an error.
Loses(s) ==
    /\ pc[s] = "launched"
    /\ lock # Nobody
    /\ Ends(s)
    /\ UNCHANGED faults

Clear_KeepsFile(s) ==
    /\ Goes(s, "locked", "cleared")
    /\ UNCHANGED <<lock, sock>> /\ ServiceOnly

Clear(s) ==
    /\ Goes(s, "locked", "cleared")
    /\ sock' = Nobody
    /\ UNCHANGED lock /\ ServiceOnly

\* Binding fails if the file is there.
Bind(s) ==
    /\ Goes(s, "cleared", "bound")
    /\ sock = Nobody
    /\ sock' = s
    /\ UNCHANGED lock /\ ServiceOnly

Serve(s) ==
    /\ Goes(s, "bound", "serving")
    /\ UNCHANGED <<lock, sock>> /\ ServiceOnly

\* Ctrl-C asks nobody.
Signal(s) ==
    /\ Goes(s, "serving", "stopping")
    /\ stops > 0
    /\ stops' = stops - 1
    /\ late' = late \cup WorkingFor(s)
    /\ UNCHANGED <<agents, lock, sock, stage, peer, faults>>

\* Every HTTP connection is done; the task that accepts clients is aborted.
Close(s) ==
    /\ Goes(s, "stopping", "closed")
    /\ UNCHANGED <<lock, sock>> /\ ServiceOnly

Release(s) ==
    /\ Goes(s, "closed", "released")
    /\ UNCHANGED <<lock, sock>> /\ ServiceOnly

RemoveSocket(s) ==
    /\ Goes(s, "released", "removed")
    /\ sock' = Nobody
    /\ UNCHANGED lock /\ ServiceOnly

Unlock(s) ==
    /\ Goes(s, "removed", "unlocked")
    /\ lock' = Nobody
    /\ UNCHANGED sock /\ ServiceOnly

Exit(s) ==
    /\ pc[s] = "unlocked"
    /\ Ends(s)
    /\ UNCHANGED faults

\* Killed anywhere, or out of run_with_port by an error: an occupied port, an
\* invalid file, a worker that cannot be released.
Fail(s) ==
    /\ pc[s] # "off"
    /\ faults > 0
    /\ faults' = faults - 1
    /\ Ends(s)
-----------------------------------------------------------------------------
ClientStep(c) ==
    \/ (c \in agents /\ Call(c)) \/ Told(c) \/ Refused(c) \/ Spawn(c) \/ GiveUp(c)
    \/ Begin(c) \/ Missed(c) \/ Finish(c) \/ Stop(c) \/ StopRefused(c)

ServiceStep(s) ==
    \/ TryLock(s) \/ Loses(s) \/ Clear(s) \/ Bind(s) \/ Release(s)
    \/ RemoveSocket(s) \/ Unlock(s) \/ Exit(s)

LifetimeNext ==
    \/ \E c \in Clients : ClientStep(c) \/ Call(c) \/ Asked(c) \/ AskStop(c)
    \/ \E s \in Services : ServiceStep(s) \/ Serve(s) \/ Signal(s) \/ Close(s) \/ Fail(s)

\* The service on its own.  What holds up its end, and the fairness, are in
\* Workbench.
LifetimeSpec == LifetimeInit /\ [][LifetimeNext]_svars
-----------------------------------------------------------------------------
(* Properties.                                                             *)

\* While a process listens, service.sock leads to it and the lock is its own.
\* So two never listen at once, the socket of a service that comes up is not
\* removed by one that goes, and no second one waits behind an empty lock.
Reachable ==
    \A s \in Services :
        pc[s] \in {"bound", "serving", "stopping", "closed", "released"} =>
            sock = s /\ lock = s

\* A call is cut short only by a failure of its service, or if the service
\* had been told to stop when the call came to it, or by a signal: a request
\* to stop never takes work away.
StopSparesWork ==
    [][\A c \in Clients :
         stage[c] = "working" /\ peer[c] \in Services /\ pc'[peer[c]] = "off" =>
             c \in late \/ faults' < faults]_svars

\* An agent that calls again and again is served again and again, whoever
\* kills, stops or races the service it needs.
ServedAgain == \A c \in Clients : c \in agents => []<><<Begin(c)>>_svars

\* A service that is told to stop comes to its end.
StopEnds == \A s \in Services : (pc[s] = "stopping") ~> (pc[s] = "off")
=============================================================================
