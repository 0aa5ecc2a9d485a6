-------------------------- MODULE InferenceWorker ---------------------------
(***************************************************************************)
(* The inference worker of the local service, crates/laya/src/worker.rs: a *)
(* bounded queue of calls, one task that takes them in turn, and one       *)
(* Python child that holds the model and answers over a pair of pipes.     *)
(*                                                                         *)
(* A call ends by its answer, by a failure, or because its caller leaves;  *)
(* every call has a deadline that covers its time in the queue.  The model *)
(* is exclusive: the child, a child left behind by a killed service and    *)
(* the snake demo (main.rs) share one lock file, and a child inherits the  *)
(* lock so that killing its parent does not release it.                    *)
(*                                                                         *)
(* A definition named X_Y before a definition X is X with the mistake Y;   *)
(* no specification uses it.                                               *)
(***************************************************************************)
EXTENDS Naturals, Sequences

CONSTANTS
    Requests,   \* request ids
    Releases,   \* the requests whose method is "release"
    Capacity,   \* length of the queue, 32 in the code
    None        \* no request

ASSUME ReleasesAssumption == Releases \subseteq Requests
ASSUME CapacityAssumption == Capacity \in Nat \ {0}
ASSUME NoneAssumption == None \notin Requests

VARIABLES
    call,      \* the state of each call, as its caller sees it
    overdue,   \* the calls whose deadline has passed
    queue,     \* the channel to the task
    control,   \* where the task is
    work,      \* the request the task has taken, or None
    child,     \* the child process of this service
    asked,     \* requests written to the child and not answered
    unread,    \* replies of the child that the task has not read
    orphan,    \* a child of a killed service still runs
    snake      \* the demo runs its own model

service == <<call, overdue, queue, control, work>>
process == <<child, asked, unread>>
workerVars == <<call, overdue, queue, control, work, child, asked, unread, orphan, snake>>

CallStatus == {"new", "waiting", "done", "failed", "cancelled"}
Control == {"receive", "check", "start", "write", "read", "stop", "reply", "fail"}
ChildStatus == {"none", "alive", "exited"}

\* The deadline of a call is set when it is queued; the set of requests in a
\* pipe is enough because no pipe ever holds two (PipesClean).
WorkerTypeOK ==
    /\ call \in [Requests -> CallStatus]
    /\ overdue \subseteq Requests
    /\ queue \in Seq(Requests) /\ Len(queue) <= Capacity
    /\ control \in Control
    /\ work \in Requests \cup {None}
    /\ child \in ChildStatus
    /\ asked \subseteq Requests
    /\ unread \subseteq Requests
    /\ orphan \in BOOLEAN
    /\ snake \in BOOLEAN

-----------------------------------------------------------------------------

WorkerInit ==
    /\ call = [r \in Requests |-> "new"]
    /\ overdue = {}
    /\ queue = <<>>
    /\ control = "receive"
    /\ work = None
    /\ child = "none"
    /\ asked = {}
    /\ unread = {}
    /\ orphan = FALSE
    /\ snake = FALSE

LockFree_ParentOnly == child = "none" /\ ~snake

\* The lock belongs to an open file description: it is held while the service
\* keeps the Process or any child that inherited the descriptor still runs.
LockFree == child = "none" /\ ~orphan /\ ~snake

Waiting(r) == call[r] = "waiting"

\* The answer reaches a caller that is still there.
Answer(r, status) ==
    call' = IF Waiting(r) THEN [call EXCEPT ![r] = status] ELSE call

-----------------------------------------------------------------------------
(* Callers.                                                                *)

\* Worker::call: a full queue is an error at once.
Call(r) ==
    /\ call[r] = "new"
    /\ IF Len(queue) < Capacity
       THEN /\ call' = [call EXCEPT ![r] = "waiting"]
            /\ queue' = Append(queue, r)
       ELSE /\ call' = [call EXCEPT ![r] = "failed"]
            /\ UNCHANGED queue
    /\ UNCHANGED <<overdue, control, work, process, orphan, snake>>

\* The future of a call is dropped: its client closed the connection.
Cancel(r) ==
    /\ Waiting(r)
    /\ call' = [call EXCEPT ![r] = "cancelled"]
    /\ UNCHANGED <<overdue, queue, control, work, process, orphan, snake>>

\* 120 seconds after the call.
Deadline(r) ==
    /\ call[r] \in {"waiting", "cancelled"}
    /\ r \notin overdue
    /\ overdue' = overdue \cup {r}
    /\ UNCHANGED <<call, queue, control, work, process, orphan, snake>>

\* A second after its deadline the caller no longer waits for the task.
GiveUp(r) ==
    /\ Waiting(r)
    /\ r \in overdue
    /\ call' = [call EXCEPT ![r] = "failed"]
    /\ UNCHANGED <<overdue, queue, control, work, process, orphan, snake>>

-----------------------------------------------------------------------------
(* The task.                                                               *)

KillChild == child' = "none" /\ asked' = {} /\ unread' = {}

Receive ==
    /\ control = "receive"
    /\ queue # <<>>
    /\ work' = Head(queue)
    /\ queue' = Tail(queue)
    /\ control' = "check"
    /\ UNCHANGED <<call, overdue, process, orphan, snake>>

\* No request arrived for LAYA_IDLE_SECONDS.
IdleStop ==
    /\ control = "receive"
    /\ queue = <<>>
    /\ child # "none"
    /\ KillChild
    /\ UNCHANGED <<service, orphan, snake>>

Goto(next, r) == control' = next /\ work' = r

Skip ==
    /\ control = "check"
    /\ ~Waiting(work)
    /\ Goto("receive", None)
    /\ UNCHANGED <<call, overdue, queue, process, orphan, snake>>

Release ==
    /\ control = "check"
    /\ Waiting(work)
    /\ work \in Releases
    /\ KillChild
    /\ Answer(work, "done")
    /\ Goto("receive", None)
    /\ UNCHANGED <<overdue, queue, orphan, snake>>

ExpiredInQueue ==
    /\ control = "check"
    /\ Waiting(work)
    /\ work \notin Releases
    /\ work \in overdue
    /\ Answer(work, "failed")
    /\ Goto("receive", None)
    /\ UNCHANGED <<overdue, queue, process, orphan, snake>>

Begin ==
    /\ control = "check"
    /\ Waiting(work)
    /\ work \notin Releases
    /\ work \notin overdue
    /\ Goto(IF child = "none" THEN "start" ELSE "write", work)
    /\ UNCHANGED <<call, overdue, queue, process, orphan, snake>>

\* Process::start
StartChild ==
    /\ control = "start"
    /\ LockFree
    /\ child' = "alive"
    /\ Goto("write", work)
    /\ UNCHANGED <<call, overdue, queue, asked, unread, orphan, snake>>

\* The lock is held, or the command cannot be run.
StartFails ==
    /\ control = "start"
    /\ Answer(work, "failed")
    /\ Goto("receive", None)
    /\ UNCHANGED <<overdue, queue, process, orphan, snake>>

\* Process::call: a write to a child that exited fails.
WriteRequest ==
    /\ control = "write"
    /\ IF child = "alive"
       THEN asked' = asked \cup {work} /\ Goto("read", work)
       ELSE UNCHANGED asked /\ Goto("stop", work)
    /\ UNCHANGED <<call, overdue, queue, child, unread, orphan, snake>>

\* A result with this request's id is an answer; a reply with another id, an
\* error or a malformed reply is a failed exchange.
Read(q) ==
    /\ control = "read"
    /\ unread' = unread \ {q}
    /\ \/ q = work /\ Goto("reply", work)
       \/ Goto("stop", work)
    /\ UNCHANGED <<call, overdue, queue, child, asked, orphan, snake>>

ReadEnd ==
    /\ control = "read"
    /\ child = "exited"
    /\ unread = {}
    /\ Goto("stop", work)
    /\ UNCHANGED <<call, overdue, queue, process, orphan, snake>>

TimedOut_WriteOnly ==
    /\ control = "write"
    /\ work \in overdue
    /\ Goto("stop", work)
    /\ UNCHANGED <<call, overdue, queue, process, orphan, snake>>

\* A reply that is there is taken, even after the deadline.
TimedOut ==
    /\ control \in {"write", "read"}
    /\ work \in overdue
    /\ unread = {}
    /\ Goto("stop", work)
    /\ UNCHANGED <<call, overdue, queue, process, orphan, snake>>

CallerLeft_Unnoticed ==
    /\ control = "write"
    /\ ~Waiting(work)
    /\ Goto("stop", work)
    /\ UNCHANGED <<call, overdue, queue, process, orphan, snake>>

CallerLeft ==
    /\ control \in {"write", "read"}
    /\ ~Waiting(work)
    /\ Goto("stop", work)
    /\ UNCHANGED <<call, overdue, queue, process, orphan, snake>>

StopChild_KeepProcess ==
    /\ control = "stop"
    /\ Goto("fail", work)
    /\ UNCHANGED <<call, overdue, queue, process, orphan, snake>>

\* "Failed/partial exchanges cannot safely be reused for the next request."
StopChild ==
    /\ control = "stop"
    /\ KillChild
    /\ Goto("fail", work)
    /\ UNCHANGED <<call, overdue, queue, orphan, snake>>

Reply ==
    /\ control \in {"reply", "fail"}
    /\ Answer(work, IF control = "reply" THEN "done" ELSE "failed")
    /\ Goto("receive", None)
    /\ UNCHANGED <<overdue, queue, process, orphan, snake>>

-----------------------------------------------------------------------------
(* The child, the service as a process, and the demo.                      *)

ChildReplies(q) ==
    /\ child = "alive"
    /\ asked' = asked \ {q}
    /\ unread' = unread \cup {q}
    /\ UNCHANGED <<service, child, orphan, snake>>

ChildExits ==
    /\ child = "alive"
    /\ child' = "exited"
    /\ asked' = {}
    /\ UNCHANGED <<service, unread, orphan, snake>>

\* SIGKILL of the service: nothing runs kill_on_drop, and its callers see the
\* connection close.  The next service starts with an empty queue.
ServiceKilled ==
    /\ call' = [r \in Requests |-> IF Waiting(r) THEN "failed" ELSE call[r]]
    /\ queue' = <<>>
    /\ Goto("receive", None)
    /\ KillChild
    /\ orphan' = (orphan \/ child = "alive")
    /\ UNCHANGED <<overdue, snake>>

\* An orphan reads the end of its input after the request it is working on.
OrphanExits ==
    /\ orphan
    /\ orphan' = FALSE
    /\ UNCHANGED <<service, process, snake>>

SnakeStarts ==
    /\ LockFree
    /\ snake' = TRUE
    /\ UNCHANGED <<service, process, orphan>>

SnakeEnds ==
    /\ snake
    /\ snake' = FALSE
    /\ UNCHANGED <<service, process, orphan>>

-----------------------------------------------------------------------------

Task ==
    \/ Receive \/ IdleStop \/ Skip \/ Release \/ ExpiredInQueue \/ Begin
    \/ StartChild \/ StartFails \/ WriteRequest \/ (\E q \in unread : Read(q))
    \/ ReadEnd \/ TimedOut \/ CallerLeft \/ StopChild \/ Reply

WorkerNext ==
    \/ \E r \in Requests : Call(r) \/ Cancel(r) \/ Deadline(r) \/ GiveUp(r)
    \/ Task
    \/ \E q \in asked : ChildReplies(q)
    \/ ChildExits \/ ServiceKilled \/ OrphanExits \/ SnakeStarts \/ SnakeEnds

WorkerSpec == WorkerInit /\ [][WorkerNext]_workerVars

\* The runtime keeps polling the task.  Nothing is assumed of the child.
WorkerFairSpec == WorkerSpec /\ WF_workerVars(Task)

\* Time passes.
TimePasses == \A r \in Requests : WF_workerVars(Deadline(r))

-----------------------------------------------------------------------------
(* Properties.                                                             *)

\* Never two models in memory: not after the service was killed while its
\* child still runs, not when the demo and a request race for the lock.
OneModel ==
    /\ ~(child = "alive" /\ orphan)
    /\ ~(child = "alive" /\ snake)
    /\ ~(orphan /\ snake)

\* No exchange finds what an earlier one left in the pipes, so no request
\* fails for the timeout or the cancellation of another.
PipesClean ==
    /\ asked \cup unread \subseteq {work}
    /\ asked \cup unread # {} => control \in {"read", "stop"}

\* Every call ends by an answer of the task, even if the child hangs: its
\* caller's own timer (GiveUp) is not needed.  Of WorkerFairSpec.
Answered == TimePasses => \A r \in Requests : Waiting(r) ~> ~Waiting(r)

\* "closing it cancels in-flight work": when a caller leaves, the task stops
\* working for it, without waiting for the deadline.  Of WorkerFairSpec.
CancelledWorkStops ==
    \A r \in Requests : work = r /\ call[r] = "cancelled" ~> work # r
=============================================================================
