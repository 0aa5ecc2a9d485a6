------------------------- MODULE DecisionRecording --------------------------
(***************************************************************************)
(* How the service records a decision: App::predict and persist_snapshot   *)
(* in crates/laya/src/service.rs, the snapshots table of the outbox        *)
(* (outbox.rs), decisions/begin and decisions/finish of the main database  *)
(* (store.rs), and the task that replays the outbox.                       *)
(*                                                                         *)
(* A record is written twice, when the request arrives and when its result *)
(* is known.  Each time it goes to the outbox first, then to the main      *)
(* database, and leaves the outbox when the main database has it.  Between *)
(* those steps the service may be killed, the database may refuse, and the *)
(* client may close its connection.  The last drops the handler with its   *)
(* locks, but not the outbox operation it started on a blocking thread:    *)
(* that operation lands later (the variable late).  Meanwhile the user     *)
(* turns recording on and off, deletes decisions and withdraws a case.     *)
(*                                                                         *)
(* A definition named X_Y before a definition X is X with the mistake Y;   *)
(* no specification uses it.                                               *)
(***************************************************************************)
EXTENDS Naturals, FiniteSets

CONSTANTS
    Decisions,   \* decision ids, chosen by the clients
    Attempts,    \* predict requests
    Texts,       \* contents of requests
    DecisionOf,  \* the id each attempt uses
    TextOf,      \* the content each attempt sends
    Limit,       \* rows one replay reads, 32 in the code
    Case,        \* a case learned from an earlier decision
    Replayer,    \* the replay task
    Nobody       \* no one, no value

ASSUME RequestAssumption ==
    DecisionOf \in [Attempts -> Decisions] /\ TextOf \in [Attempts -> Texts]
ASSUME LimitAssumption == Limit \in Nat \ {0}
ASSUME NamesAssumption ==
    /\ Replayer \notin Attempts /\ Nobody \notin Attempts /\ Replayer # Nobody
    /\ Case \notin Decisions /\ Nobody \notin Decisions /\ Case # Nobody
    /\ Texts \cap Attempts = {} /\ Nobody \notin Texts

VARIABLES
    recording,   \* the setting recording_enabled
    row,         \* the decisions table of the main database
    unrecorded,  \* ids begun while recording was off, in memory
    outbox,      \* the snapshots table
    tombstones,  \* the deleted_decisions table of the outbox
    live,        \* the case has not been withdrawn
    pc,          \* where each attempt is
    shows,       \* the evidence in the result of each attempt
    told,        \* the recording status each client was told at the end
    lock,        \* who holds the privacy lock to write a record
    batch,       \* the snapshots the replay task has yet to offer
    late,        \* outbox operations of handlers that were dropped
    deleting     \* what the handler of a DELETE request is deleting

tables == <<row, unrecorded>>
client == <<pc, shows, told>>
vars == <<recording, row, unrecorded, outbox, tombstones, live, pc, shows,
          told, lock, batch, late, deleting>>

-----------------------------------------------------------------------------

\* The outbox and the main database each scrub a withdrawn case their own way:
\* only the latter also marks the result, so the two texts differ.
Evidence == {"none", "case", "scrubbed_outbox", "scrubbed_store"}
Methods == {"begin", "finish"}
Active == {"begin", "infer", "finish"}
Status == {"nothing", "stored", "queued_local", "not_saved", "not_recorded"}

Event ==
    [decision : Decisions, method : {"begin"}, by : Texts, shows : Evidence]
        \cup [decision : Decisions, method : {"finish"}, by : Attempts,
              shows : Evidence]
LateOps ==
    [op : {"enqueue", "ack"}, event : Event]
        \cup [op : {"purge"}, decision : Decisions] \cup {[op |-> "scrub"]}
Row == [status  : {"absent", "begun", "finished", "deleted"},
        request : Texts \cup {Nobody},
        result  : Attempts \cup {Nobody},
        shows   : Evidence]

SameKey(e, f) == e.decision = f.decision /\ e.method = f.method

\* The key of a snapshot is its decision and method.
TypeOK ==
    /\ recording \in BOOLEAN
    /\ row \in [Decisions -> Row]
    /\ unrecorded \subseteq Decisions
    /\ outbox \subseteq Event /\ \A e, f \in outbox : SameKey(e, f) => e = f
    /\ tombstones \subseteq Decisions
    /\ live \in BOOLEAN
    /\ pc \in [Attempts -> Active \cup {"idle", "done", "gone"}]
    /\ shows \in [Attempts -> Evidence]
    /\ told \in [Attempts -> Status]
    /\ lock \in Attempts \cup {Replayer, Nobody}
    /\ batch \subseteq Event
    /\ late \subseteq LateOps
    /\ deleting \in Decisions \cup {Case, Nobody}

NoRow == [status |-> "absent", request |-> Nobody, result |-> Nobody,
          shows |-> "none"]

Init ==
    /\ recording \in BOOLEAN
    /\ row = [d \in Decisions |-> NoRow]
    /\ unrecorded = {}
    /\ outbox = {}
    /\ tombstones = {}
    /\ live = TRUE
    /\ pc = [a \in Attempts |-> "idle"]
    /\ shows = [a \in Attempts |-> "none"]
    /\ told = [a \in Attempts |-> "nothing"]
    /\ lock = Nobody
    /\ batch = {}
    /\ late = {}
    /\ deleting = Nobody

-----------------------------------------------------------------------------
(* The main database.                                                      *)

DecisionsBegin(e, answer) ==
    LET d == e.decision
    IN  \/ /\ ~recording
           /\ answer = "not_recorded"
           /\ unrecorded' = unrecorded \cup {d}
           /\ UNCHANGED row
        \/ /\ recording
           /\ row[d].status = "absent"
           /\ answer = "stored"
           /\ row' = [row EXCEPT ![d] =
                        [status |-> "begun", request |-> e.by,
                         result |-> Nobody, shows |-> "none"]]
           /\ UNCHANGED unrecorded
        \/ /\ recording
           /\ row[d].status # "absent"
           /\ answer = IF row[d].request = e.by THEN "existing" ELSE "conflict"
           /\ UNCHANGED <<row, unrecorded>>

DecisionsFinish_DeletedToo(e, answer) ==
    LET d == e.decision
    IN  \/ /\ d \in unrecorded
           /\ answer = "not_recorded"
           /\ unrecorded' = unrecorded \ {d}
           /\ UNCHANGED row
        \/ /\ d \notin unrecorded
           /\ row[d].status = "absent"
           /\ answer = "not_found"
           /\ UNCHANGED <<row, unrecorded>>
        \/ /\ d \notin unrecorded
           /\ row[d].status \in {"begun", "deleted"}
           /\ answer = "stored"
           /\ row' = [row EXCEPT ![d] =
                        [status |-> "finished", request |-> row[d].request,
                         result |-> e.by, shows |-> e.shows]]
           /\ UNCHANGED unrecorded
        \/ /\ d \notin unrecorded
           /\ row[d].status = "finished"
           /\ answer = IF row[d].result = e.by /\ row[d].shows = e.shows
                       THEN "existing" ELSE "conflict"
           /\ UNCHANGED <<row, unrecorded>>

DecisionsFinish(e, answer) ==
    LET d == e.decision
    IN  \/ /\ d \in unrecorded
           /\ answer = "not_recorded"
           /\ unrecorded' = unrecorded \ {d}
           /\ UNCHANGED row
        \/ /\ d \notin unrecorded
           /\ row[d].status \in {"absent", "deleted"}
           /\ answer = "not_found"
           /\ UNCHANGED <<row, unrecorded>>
        \/ /\ d \notin unrecorded
           /\ row[d].status = "begun"
           /\ answer = "stored"
           /\ row' = [row EXCEPT ![d] =
                        [status |-> "finished", request |-> row[d].request,
                         result |-> e.by, shows |-> e.shows]]
           /\ UNCHANGED unrecorded
        \/ /\ d \notin unrecorded
           /\ row[d].status = "finished"
           /\ answer = IF row[d].result = e.by /\ row[d].shows = e.shows
                       THEN "existing" ELSE "conflict"
           /\ UNCHANGED <<row, unrecorded>>

Answers ==
    {"stored", "existing", "not_recorded", "conflict", "not_found", "failed"}

StoreServes(e, answer) ==
    \/ e.method = "begin" /\ DecisionsBegin(e, answer)
    \/ e.method = "finish" /\ DecisionsFinish(e, answer)

\* A call can fail before it has an effect (the queue is full, the disk is
\* full) or after it (the evidence files could not be cleaned up).
StoreFails(e) ==
    \/ UNCHANGED <<row, unrecorded>>
    \/ \E done \in {"stored", "existing", "not_recorded"} : StoreServes(e, done)

StoreCall(e, answer) ==
    StoreServes(e, answer) \/ (answer = "failed" /\ StoreFails(e))

-----------------------------------------------------------------------------
(* The outbox.                                                             *)

\* snapshot_enqueue refuses a deleted decision and a changed payload.
Refused(e) ==
    \/ e.decision \in tombstones
    \/ \E f \in outbox : SameKey(e, f) /\ e # f

\* delete_decision
Purge(d) ==
    /\ tombstones' = tombstones \cup {d}
    /\ outbox' = {e \in outbox : e.decision # d}

ScrubEvent(e) ==
    IF e.shows = "case" THEN [e EXCEPT !.shows = "scrubbed_outbox"] ELSE e

\* withdraw_cases
Scrub ==
    /\ outbox' = {ScrubEvent(e) : e \in outbox}
    /\ UNCHANGED tombstones

-----------------------------------------------------------------------------
(* A predict request.                                                      *)

\* The handlers that hold the maintenance lock shared exclude a deletion.
Start(a) ==
    /\ pc[a] = "idle"
    /\ deleting = Nobody
    /\ pc' = [pc EXCEPT ![a] = "begin"]
    /\ UNCHANGED <<recording, tables, outbox, tombstones, live, shows, told,
                   lock, batch, late, deleting>>

\* The snapshot an attempt writes next.
EventOf(a) ==
    [decision |-> DecisionOf[a],
     method   |-> IF pc[a] = "begin" THEN "begin" ELSE "finish",
     by       |-> IF pc[a] = "begin" THEN TextOf[a] ELSE a,
     shows    |-> IF pc[a] = "begin" THEN "none" ELSE shows[a]]

Writing(a) == pc[a] \in {"begin", "finish"}

\* What predict does with the receipt of a snapshot: a request that is already
\* recorded is not inferred again, a conflict is an error, and anything else
\* lets inference go on.  After the result, the receipt is all there is.
Proceed(a, answer, otherwise) ==
    IF pc[a] = "begin"
    THEN /\ pc' = [pc EXCEPT ![a] = IF answer \in {"existing", "conflict"}
                                    THEN "done" ELSE "infer"]
         /\ UNCHANGED told
    ELSE /\ pc' = [pc EXCEPT ![a] = "done"]
         /\ told' = [told EXCEPT ![a] =
                CASE answer \in {"stored", "existing"} -> "stored"
                  [] answer = "not_recorded"           -> "not_recorded"
                  [] answer = "conflict"               -> "not_saved"
                  [] OTHER                             -> otherwise]

\* Recording is off: the outbox is not used.
WriteUnqueued(a) ==
    /\ Writing(a) /\ lock = Nobody /\ ~recording
    /\ \E answer \in Answers :
          /\ StoreCall(EventOf(a), answer)
          /\ Proceed(a, answer, "not_saved")
    /\ UNCHANGED <<recording, outbox, tombstones, live, shows, lock, batch,
                   late, deleting>>

Enqueue(a) ==
    /\ Writing(a) /\ lock = Nobody /\ recording
    /\ ~Refused(EventOf(a))
    /\ outbox' = outbox \cup {EventOf(a)}
    /\ lock' = a
    /\ UNCHANGED <<recording, tables, tombstones, live, client, batch, late,
                   deleting>>

EnqueueFails_ClaimsQueued(a) ==
    /\ Writing(a) /\ lock = Nobody /\ recording
    /\ Proceed(a, "failed", "queued_local")
    /\ UNCHANGED <<recording, tables, outbox, tombstones, live, shows, lock,
                   batch, late, deleting>>

\* The outbox refuses, or cannot be written.
EnqueueFails(a) ==
    /\ Writing(a) /\ lock = Nobody /\ recording
    /\ \/ Refused(EventOf(a)) /\ Proceed(a, "conflict", "not_saved")
       \/ Proceed(a, "failed", "not_saved")
    /\ UNCHANGED <<recording, tables, outbox, tombstones, live, shows, lock,
                   batch, late, deleting>>

Stored_NewOnly(answer) == answer = "stored"

\* A receipt that says "stored".
Stored(answer) == answer \in {"stored", "existing"}

Deliver_AckAll(a) ==
    /\ lock = a
    /\ \E answer \in Answers :
          /\ StoreCall(EventOf(a), answer)
          /\ outbox' = IF answer = "failed" THEN outbox
                       ELSE outbox \ {EventOf(a)}
          /\ Proceed(a, answer, "queued_local")
    /\ lock' = Nobody
    /\ UNCHANGED <<recording, tombstones, live, shows, batch, late, deleting>>

\* The snapshot is offered to the main database and leaves the outbox when
\* the receipt says it is stored.
Deliver(a) ==
    /\ lock = a
    /\ \E answer \in Answers :
          /\ StoreCall(EventOf(a), answer)
          /\ \/ /\ Stored(answer)
                /\ outbox' = outbox \ {EventOf(a)}
                /\ Proceed(a, answer, "queued_local")
             \/ /\ Stored(answer)         \* the acknowledgement fails
                /\ UNCHANGED outbox
                /\ Proceed(a, "failed", "not_saved")
             \/ /\ ~Stored(answer)
                /\ UNCHANGED outbox
                /\ Proceed(a, answer, "queued_local")
    /\ lock' = Nobody
    /\ UNCHANGED <<recording, tombstones, live, shows, batch, late, deleting>>

\* The worker answers, or fails, and the result shows what memory was used.
Infer(a) ==
    /\ pc[a] = "infer"
    /\ pc' = [pc EXCEPT ![a] = "finish"]
    /\ \E s \in {"none"} \cup {x \in {"case"} : live} :
          shows' = [shows EXCEPT ![a] = s]
    /\ UNCHANGED <<recording, tables, outbox, tombstones, live, told, lock,
                   batch, late, deleting>>

\* An invalid orchestration block is an error after the request was recorded.
InferRefused(a) ==
    /\ pc[a] = "infer"
    /\ pc' = [pc EXCEPT ![a] = "done"]
    /\ UNCHANGED <<recording, tables, outbox, tombstones, live, shows, told,
                   lock, batch, late, deleting>>

\* What a dropped handler had under way: nothing; an entry of the outbox that
\* is still to be written; or a call of the store, and then perhaps the
\* acknowledgement that is still to be made.
UnderWay(a) ==
    \/ UNCHANGED <<row, unrecorded, late>>
    \/ /\ Writing(a) /\ lock = Nobody /\ recording
       /\ late' = late \cup {[op |-> "enqueue", event |-> EventOf(a)]}
       /\ UNCHANGED <<row, unrecorded>>
    \/ /\ lock = a \/ (Writing(a) /\ lock = Nobody /\ ~recording)
       /\ \E answer \in Answers :
             /\ StoreServes(EventOf(a), answer)
             /\ \/ UNCHANGED late
                \/ /\ lock = a /\ Stored(answer)
                   /\ late' = late \cup {[op |-> "ack", event |-> EventOf(a)]}

\* The client closes the connection.
Disconnect(a) ==
    /\ pc[a] \in Active
    /\ UnderWay(a)
    /\ pc' = [pc EXCEPT ![a] = "gone"]
    /\ lock' = IF lock = a THEN Nobody ELSE lock
    /\ UNCHANGED <<recording, outbox, tombstones, live, shows, told, batch,
                   deleting>>

-----------------------------------------------------------------------------
(* The replay task.  It holds the privacy lock for a whole batch.          *)

\* Which of the pending snapshots are the oldest is left open.
ReplayStart ==
    /\ lock = Nobody /\ deleting = Nobody
    /\ outbox # {}
    /\ batch' \in SUBSET outbox
    /\ IF Cardinality(outbox) <= Limit THEN batch' = outbox
       ELSE Cardinality(batch') = Limit
    /\ lock' = Replayer
    /\ UNCHANGED <<recording, tables, outbox, tombstones, live, client, late,
                   deleting>>

\* The begin of a decision comes before its finish.
Eligible(e) ==
    /\ e \in batch
    /\ e.method = "finish" =>
          \A f \in batch : f.decision = e.decision => f.method = "finish"

ReplayDone(e) ==
    /\ batch' = batch \ {e}
    /\ lock' = IF batch' = {} THEN Nobody ELSE Replayer
    /\ UNCHANGED <<recording, tombstones, live, client, late, deleting>>

\* The database serves the snapshot and the outbox takes the receipt.
ReplayServes(e) ==
    /\ Eligible(e)
    /\ \E answer \in Answers :
          /\ StoreServes(e, answer)
          /\ outbox' = IF Stored(answer) THEN outbox \ {e} ELSE outbox
    /\ ReplayDone(e)

\* The database fails, or the receipt is lost.
ReplayFails(e) ==
    /\ Eligible(e)
    /\ StoreFails(e)
    /\ UNCHANGED outbox
    /\ ReplayDone(e)

-----------------------------------------------------------------------------
(* Deletions, settings, crashes.                                           *)

\* A deletion has the maintenance lock for itself.
Quiet ==
    /\ \A a \in Attempts : pc[a] \notin Active
    /\ lock = Nobody /\ deleting = Nobody

DeleteOutbox(d) ==
    /\ Quiet
    /\ row[d].status \in {"begun", "finished"}
    /\ deleting' = d
    /\ Purge(d)
    /\ UNCHANGED <<recording, tables, live, client, lock, batch, late>>

WithdrawOutbox ==
    /\ Quiet /\ live
    /\ deleting' = Case
    /\ Scrub
    /\ UNCHANGED <<recording, tables, live, client, lock, batch, late>>

DeleteStore ==
    /\ deleting \in Decisions
    /\ row' = [row EXCEPT ![deleting] = [NoRow EXCEPT !.status = "deleted"]]
    /\ deleting' = Nobody
    /\ UNCHANGED <<recording, unrecorded, outbox, tombstones, live, client,
                   lock, batch, late>>

WithdrawStore ==
    /\ deleting = Case
    /\ live' = FALSE
    /\ row' = [d \in Decisions |->
                  IF row[d].shows = "case"
                  THEN [row[d] EXCEPT !.shows = "scrubbed_store"] ELSE row[d]]
    /\ deleting' = Nobody
    /\ UNCHANGED <<recording, unrecorded, outbox, tombstones, client, lock,
                   batch, late>>

\* The database refuses, or the browser closes the connection.
DeletionFails ==
    /\ deleting # Nobody
    /\ deleting' = Nobody
    /\ UNCHANGED <<recording, tables, outbox, tombstones, live, client, lock,
                   batch, late>>

\* The browser closes the connection while the outbox is being purged.
DeletionDropped ==
    /\ Quiet
    /\ \E op \in [op : {"purge"}, decision : Decisions] \cup {[op |-> "scrub"]} :
          /\ IF op.op = "purge" THEN row[op.decision].status \in {"begun", "finished"}
             ELSE live
          /\ late' = late \cup {op}
    /\ UNCHANGED <<recording, tables, outbox, tombstones, live, client, lock,
                   batch, deleting>>

\* An operation on a blocking thread is not dropped with its handler.
LateLands(op) ==
    /\ late' = late \ {op}
    /\ CASE op.op = "enqueue" ->
              /\ outbox' = IF Refused(op.event) THEN outbox
                           ELSE outbox \cup {op.event}
              /\ UNCHANGED tombstones
         [] op.op = "ack" ->
              outbox' = outbox \ {op.event} /\ UNCHANGED tombstones
         [] op.op = "purge" -> Purge(op.decision)
         [] op.op = "scrub" -> Scrub
    /\ UNCHANGED <<recording, tables, live, client, lock, batch, deleting>>

\* PATCH /settings
Toggle ==
    /\ lock = Nobody /\ deleting = Nobody
    /\ recording' = ~recording
    /\ UNCHANGED <<tables, outbox, tombstones, live, client, lock, batch, late,
                   deleting>>

\* The service is killed and started again; the tables are all that is left.
Crash ==
    /\ pc' = [a \in Attempts |-> IF pc[a] \in Active THEN "gone" ELSE pc[a]]
    /\ unrecorded' = {}
    /\ lock' = Nobody
    /\ batch' = {}
    /\ late' = {}
    /\ deleting' = Nobody
    /\ UNCHANGED <<recording, row, outbox, tombstones, live, shows, told>>

-----------------------------------------------------------------------------

Next ==
    \/ \E a \in Attempts :
          \/ Start(a) \/ WriteUnqueued(a) \/ Enqueue(a) \/ EnqueueFails(a)
          \/ Deliver(a) \/ Infer(a) \/ InferRefused(a) \/ Disconnect(a)
    \/ ReplayStart
    \/ \E e \in batch : ReplayServes(e) \/ ReplayFails(e)
    \/ \E d \in Decisions : DeleteOutbox(d)
    \/ WithdrawOutbox \/ DeleteStore \/ WithdrawStore
    \/ DeletionFails \/ DeletionDropped
    \/ \E op \in late : LateLands(op)
    \/ Toggle \/ Crash

Spec == Init /\ [][Next]_vars

\* The database answers, a deletion ends, and the replay task gets its turn:
\* tokio's locks are handed over in the order they were asked for.  A snapshot
\* that is offered again and again is not refused by a full queue each time.
FairSpec ==
    /\ Spec
    /\ \A a \in Attempts : WF_vars(Deliver(a))
    /\ WF_vars(DeleteStore \/ WithdrawStore \/ DeletionFails)
    /\ SF_vars(ReplayStart)
    /\ WF_vars(\E e \in batch : ReplayServes(e) \/ ReplayFails(e))
    /\ \A d \in Decisions, m \in Methods :
          SF_vars(\E e \in batch : e.decision = d /\ e.method = m
                                     /\ ReplayServes(e))

-----------------------------------------------------------------------------
(* Properties.                                                             *)

Queued(d, m) == \E e \in outbox : e.decision = d /\ e.method = m

\* Once the outbox has the tombstone of a decision nothing of it is queued,
\* and a decision deleted from the main database has that tombstone: no late
\* handler, replay or crash brings a snapshot of a deleted decision back.
TombstonesHold ==
    /\ \A e \in outbox : e.decision \notin tombstones
    /\ \A d \in Decisions : row[d].status = "deleted" => d \in tombstones

\* "A deleted decision must not be resurrected" by a replayed snapshot.
DeletedStaysDeleted ==
    [][\A d \in Decisions :
          row[d].status = "deleted" => row'[d].status = "deleted"]_vars

\* The main database has what the snapshot says.
Has(e) ==
    LET r == row[e.decision]
    IN  IF e.method = "begin" THEN r.request = e.by
        ELSE r.status = "finished" /\ r.result = e.by

\* A snapshot leaves the outbox only when the main database has it, or its
\* decision was deleted: scrubbing a case replaces it by what is left.
NothingLost ==
    [][\A e \in outbox \ outbox' :
          \/ Has(e)' \/ e.decision \in tombstones'
          \/ ScrubEvent(e) \in outbox']_vars

\* A client that was told "stored" or "queued_local" can rely on it: the
\* result is in the main database, or in the outbox, or it was deleted.
ReceiptsHonest ==
    \A a \in Attempts :
        LET d == DecisionOf[a]
            inStore == row[d].status = "finished" /\ row[d].result = a
            inOutbox == \E e \in outbox :
                e.decision = d /\ e.method = "finish" /\ e.by = a
        IN  /\ told[a] = "stored" => inStore \/ d \in tombstones
            /\ told[a] = "queued_local" =>
                  inStore \/ inOutbox \/ d \in tombstones

\* If recording is on from some time, the request of every queued decision
\* reaches the main database.  Of FairSpec, where the outbox fits a batch and
\* the attempts of a decision send the same content.
RequestsDelivered ==
    <>[]recording =>
        \A d \in Decisions : Queued(d, "begin") ~> ~Queued(d, "begin")
=============================================================================
