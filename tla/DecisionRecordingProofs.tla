---------------------- MODULE DecisionRecordingProofs -----------------------
(***************************************************************************)
(* Proofs about DecisionRecording, for any number of decisions, attempts   *)
(* and contents.  The invariant adds to the properties what they rest on:  *)
(* a deletion in progress has left its tombstone, the holder of the lock   *)
(* is writing, and an acknowledgement that is still to be made is one that *)
(* the main database has earned.                                           *)
(***************************************************************************)
EXTENDS DecisionRecording, TLAPS

\* The result of an attempt is in the main database, or it was deleted.
Filed(a) ==
    LET d == DecisionOf[a]
    IN  \/ row[d].status = "finished" /\ row[d].result = a
        \/ d \in tombstones

\* Or it is in the outbox.
Safe(a) ==
    \/ Filed(a)
    \/ \E e \in outbox : /\ e.decision = DecisionOf[a]
                         /\ e.method = "finish" /\ e.by = a

NoGhosts == \A d \in Decisions :
                row[d].status = "absent" => row[d].request = Nobody

DeletionTombstoned == deleting \in Decisions => deleting \in tombstones

HolderWrites ==
    \A a \in Attempts : lock = a =>
        /\ pc[a] \in {"begin", "finish"}
        /\ pc[a] = "finish" => Safe(a)

AcksEarned ==
    \A op \in late : op.op = "ack" =>
        Has(op.event) \/ op.event.decision \in tombstones

Inv ==
    /\ TypeOK
    /\ NoGhosts
    /\ DeletionTombstoned
    /\ TombstonesHold
    /\ ReceiptsHonest
    /\ HolderWrites
    /\ AcksEarned

-----------------------------------------------------------------------------

\* What any step does to the row of a decision: a deletion is final, and a
\* recorded request or result changes only by a deletion.
Kept(d) ==
    /\ row[d].status = "deleted" => row'[d].status = "deleted"
    /\ row[d].status = "finished" =>
          \/ row'[d].status = "finished" /\ row'[d].result = row[d].result
          \/ row'[d].status = "deleted"
    /\ row[d].request # Nobody =>
          row'[d].request = row[d].request \/ row'[d].status = "deleted"

\* What any step does to the tables: a row is deleted only under a tombstone,
\* and a snapshot leaves the outbox only as NothingLost says.
Keeping ==
    /\ NoGhosts'
    /\ tombstones \subseteq tombstones'
    /\ \A d \in Decisions :
          /\ Kept(d)
          /\ row'[d].status = "deleted" =>
                row[d].status = "deleted" \/ d \in tombstones
    /\ \A e \in outbox :
          \/ e \in outbox' \/ Has(e)' \/ e.decision \in tombstones'
          \/ ScrubEvent(e) \in outbox'

\* Of the main database: rows are kept and none is deleted.
Serving ==
    /\ row' \in [Decisions -> Row]
    /\ unrecorded' \subseteq Decisions
    /\ NoGhosts'
    /\ \A d \in Decisions :
          /\ Kept(d)
          /\ row'[d].status = "deleted" => row[d].status = "deleted"

\* The first row of a decision has the type of a row.
LEMMA NoRowType == NoRow \in Row
BY DEF NoRow, Row, Evidence

\* decisions/begin keeps every row, and its "stored" is true.
LEMMA BeginServes ==
    ASSUME TypeOK, NoGhosts, NEW e \in Event, NEW x, e.method = "begin",
           DecisionsBegin(e, x)
    PROVE  Serving /\ (Stored(x) => Has(e)')
<1>1. e.decision \in Decisions /\ e.by \in Texts
    BY DEF Event
<1>2. CASE ~recording /\ UNCHANGED row /\ x = "not_recorded"
              /\ unrecorded' = unrecorded \cup {e.decision}
    BY <1>1, <1>2 DEF TypeOK, Serving, NoGhosts, Kept, Stored
<1>3. CASE /\ row[e.decision].status = "absent"
           /\ row' = [row EXCEPT ![e.decision] =
                        [status |-> "begun", request |-> e.by,
                         result |-> Nobody, shows |-> "none"]]
           /\ UNCHANGED unrecorded
    <2>1. row' \in [Decisions -> Row] /\ unrecorded' \subseteq Decisions
        BY <1>1, <1>3 DEF TypeOK, Row, Evidence
    <2>2. \A d \in Decisions : d # e.decision => row'[d] = row[d]
        BY <1>1, <1>3 DEF TypeOK
    <2>3. row'[e.decision].status = "begun" /\ row'[e.decision].request = e.by
        BY <1>1, <1>3 DEF TypeOK
    <2>4. \A d \in Decisions : Kept(d)
        BY <1>1, <1>3, <2>2 DEF Kept, NoGhosts
    <2> QED
        BY <1>1, <1>3, <2>1, <2>2, <2>3, <2>4 DEF Serving, NoGhosts, Has
<1>4. CASE /\ UNCHANGED <<row, unrecorded>>
           /\ x = IF row[e.decision].request = e.by THEN "existing"
                  ELSE "conflict"
    BY <1>1, <1>4 DEF TypeOK, Serving, NoGhosts, Kept, Stored, Has
<1> QED
    BY <1>2, <1>3, <1>4 DEF DecisionsBegin

\* decisions/finish keeps every row, and its "stored" is true.
LEMMA FinishServes ==
    ASSUME TypeOK, NoGhosts, NEW e \in Event, NEW x, e.method = "finish",
           DecisionsFinish(e, x)
    PROVE  Serving /\ (Stored(x) => Has(e)')
<1>1. e.decision \in Decisions /\ e.by \in Attempts /\ e.shows \in Evidence
    BY DEF Event
<1>2. CASE UNCHANGED row /\ x \in {"not_recorded", "not_found"}
              /\ unrecorded' \in SUBSET unrecorded
    BY <1>1, <1>2 DEF TypeOK, Serving, NoGhosts, Kept, Stored
<1>3. CASE /\ row[e.decision].status = "begun"
           /\ row' = [row EXCEPT ![e.decision] =
                        [status |-> "finished",
                         request |-> row[e.decision].request,
                         result |-> e.by, shows |-> e.shows]]
           /\ UNCHANGED unrecorded
    <2>1. row' \in [Decisions -> Row] /\ unrecorded' \subseteq Decisions
        BY <1>1, <1>3 DEF TypeOK, Row
    <2>2. \A d \in Decisions : d # e.decision => row'[d] = row[d]
        BY <1>1, <1>3 DEF TypeOK
    <2>3. /\ row'[e.decision].status = "finished"
          /\ row'[e.decision].result = e.by
          /\ row'[e.decision].request = row[e.decision].request
        BY <1>1, <1>3 DEF TypeOK
    <2>4. \A d \in Decisions : Kept(d)
        BY <1>1, <1>3, <2>2, <2>3 DEF Kept
    <2> QED
        BY <1>1, <1>3, <2>1, <2>2, <2>3, <2>4 DEF Serving, NoGhosts, Has
<1>4. CASE /\ UNCHANGED <<row, unrecorded>>
           /\ row[e.decision].status = "finished"
           /\ x = IF row[e.decision].result = e.by /\ row[e.decision].shows = e.shows
                  THEN "existing" ELSE "conflict"
    BY <1>1, <1>4 DEF TypeOK, Serving, NoGhosts, Kept, Stored, Has
<1> QED
    BY <1>2, <1>3, <1>4 DEF DecisionsFinish

\* The main database keeps its rows, and "stored" is true.
LEMMA Serves ==
    ASSUME TypeOK, NoGhosts, NEW e \in Event, NEW x, StoreServes(e, x)
    PROVE  Serving /\ (Stored(x) => Has(e)')
BY BeginServes, FinishServes DEF StoreServes

\* A call that fails may have had its effect, and keeps the rows as well.
LEMMA Fails ==
    ASSUME TypeOK, NoGhosts, NEW e \in Event, StoreFails(e)
    PROVE  Serving
<1>1. CASE UNCHANGED <<row, unrecorded>>
    BY <1>1 DEF TypeOK, Serving, NoGhosts, Kept
<1>2. CASE \E done \in {"stored", "existing", "not_recorded"} :
              StoreServes(e, done)
    BY <1>2, Serves
<1> QED
    BY <1>1, <1>2 DEF StoreFails

\* Every call of the store keeps the rows, and a stored receipt is true.
LEMMA Calls ==
    ASSUME TypeOK, NoGhosts, NEW e \in Event, NEW x, StoreCall(e, x)
    PROVE  Serving /\ (Stored(x) => Has(e)')
<1>1. CASE StoreServes(e, x)
    BY <1>1, Serves
<1>2. CASE x = "failed" /\ StoreFails(e)
    BY <1>2, Fails DEF Stored
<1> QED
    BY <1>1, <1>2 DEF StoreCall

\* What an attempt writes is a snapshot.
LEMMA EventType ==
    ASSUME TypeOK, NEW a \in Attempts
    PROVE  EventOf(a) \in Event
BY RequestAssumption DEF TypeOK, EventOf, Event, Evidence

-----------------------------------------------------------------------------

\* Marking a snapshot as scrubbed leaves it a snapshot of the same key.
LEMMA ScrubType ==
    ASSUME NEW e \in Event
    PROVE  /\ ScrubEvent(e) \in Event
           /\ ScrubEvent(e).decision = e.decision
           /\ ScrubEvent(e).method = e.method
           /\ ScrubEvent(e).by = e.by
BY DEF ScrubEvent, Event, Evidence

\* withdraw_cases keeps the key of the snapshots unique.
LEMMA ScrubKeepsType ==
    ASSUME TypeOK, Scrub
    PROVE  /\ outbox' \subseteq Event
           /\ \A e, f \in outbox' : SameKey(e, f) => e = f
           /\ tombstones' = tombstones
<1>1. outbox' \subseteq Event
    BY ScrubType DEF TypeOK, Scrub
<1>2. ASSUME NEW e \in outbox', NEW f \in outbox', SameKey(e, f)
      PROVE  e = f
    <2>1. PICK g \in outbox : e = ScrubEvent(g)
        BY DEF Scrub
    <2>2. PICK h \in outbox : f = ScrubEvent(h)
        BY DEF Scrub
    <2>3. g \in Event /\ h \in Event
        BY DEF TypeOK
    <2>4. SameKey(g, h)
        BY <1>2, <2>1, <2>2, <2>3, ScrubType DEF SameKey
    <2> QED
        BY <2>1, <2>2, <2>4 DEF TypeOK
<1> QED
    BY <1>1, <1>2 DEF Scrub

\* snapshot_enqueue keeps the key of the snapshots unique.
LEMMA EnqueueKeepsType ==
    ASSUME TypeOK, NEW e \in Event, ~Refused(e), outbox' = outbox \cup {e}
    PROVE  /\ outbox' \subseteq Event
           /\ \A f, g \in outbox' : SameKey(f, g) => f = g
BY DEF TypeOK, Refused, SameKey

\* The next place of an attempt is one.
LEMMA ProceedType ==
    ASSUME TypeOK, NEW a \in Attempts, NEW x, NEW otherwise \in Status,
           Proceed(a, x, otherwise)
    PROVE  /\ pc' \in [Attempts -> Active \cup {"idle", "done", "gone"}]
           /\ told' \in [Attempts -> Status]
BY DEF TypeOK, Proceed, Active, Status

\* Every step of an attempt keeps the types.
LEMMA AttemptType ==
    ASSUME TypeOK, NoGhosts, NEW a \in Attempts,
           \/ Start(a) \/ WriteUnqueued(a) \/ Enqueue(a) \/ EnqueueFails(a)
           \/ Deliver(a) \/ Infer(a) \/ InferRefused(a) \/ Disconnect(a)
    PROVE  TypeOK'
<1>0. EventOf(a) \in Event
    BY EventType
<1>1. CASE Start(a)
    BY <1>1 DEF Start, TypeOK, tables, Active
<1>2. CASE WriteUnqueued(a)
    <2>1. PICK x \in Answers : /\ StoreCall(EventOf(a), x)
                               /\ Proceed(a, x, "not_saved")
        BY <1>2 DEF WriteUnqueued
    <2>2. Serving
        BY <1>0, <2>1, Calls
    <2>3. /\ pc' \in [Attempts -> Active \cup {"idle", "done", "gone"}]
          /\ told' \in [Attempts -> Status]
        BY <2>1, ProceedType DEF Status
    <2> QED
        BY <1>2, <2>2, <2>3 DEF WriteUnqueued, TypeOK, Serving, SameKey
<1>3. CASE Enqueue(a)
    BY <1>0, <1>3, EnqueueKeepsType DEF Enqueue, TypeOK, tables, client
<1>4. CASE EnqueueFails(a)
    <2>1. /\ pc' \in [Attempts -> Active \cup {"idle", "done", "gone"}]
          /\ told' \in [Attempts -> Status]
        BY <1>4, ProceedType DEF EnqueueFails, Status
    <2> QED
        BY <1>4, <2>1 DEF EnqueueFails, TypeOK, tables
<1>5. CASE Deliver(a)
    <2>1. PICK x \in Answers :
            /\ StoreCall(EventOf(a), x)
            /\ \/ outbox' = outbox \ {EventOf(a)} /\ Proceed(a, x, "queued_local")
               \/ outbox' = outbox /\ Proceed(a, "failed", "not_saved")
               \/ outbox' = outbox /\ Proceed(a, x, "queued_local")
        BY <1>5 DEF Deliver
    <2>2. Serving
        BY <1>0, <2>1, Calls
    <2>3. /\ pc' \in [Attempts -> Active \cup {"idle", "done", "gone"}]
          /\ told' \in [Attempts -> Status]
        BY <2>1, ProceedType DEF Status
    <2>4. /\ outbox' \subseteq Event
          /\ \A e, f \in outbox' : SameKey(e, f) => e = f
        BY <2>1 DEF TypeOK
    <2> QED
        BY <1>5, <2>2, <2>3, <2>4 DEF Deliver, TypeOK, Serving
<1>6. CASE Infer(a)
    BY <1>6 DEF Infer, TypeOK, tables, Active, Evidence
<1>7. CASE InferRefused(a)
    BY <1>7 DEF InferRefused, TypeOK, tables
<1>8. CASE Disconnect(a)
    <2>1. row' \in [Decisions -> Row] /\ unrecorded' \subseteq Decisions
        BY <1>0, <1>8, Serves DEF Disconnect, UnderWay, TypeOK, Serving
    <2>2. /\ [op |-> "enqueue", event |-> EventOf(a)] \in LateOps
          /\ [op |-> "ack", event |-> EventOf(a)] \in LateOps
        BY <1>0 DEF LateOps
    <2>3. late' \subseteq LateOps
        BY <1>8, <2>2 DEF Disconnect, UnderWay, TypeOK
    <2> QED
        BY <1>8, <2>1, <2>3 DEF Disconnect, TypeOK
<1> QED
    BY <1>1, <1>2, <1>3, <1>4, <1>5, <1>6, <1>7, <1>8

\* Every other step keeps the types.
LEMMA EnvironmentType ==
    ASSUME TypeOK, NoGhosts,
           \/ ReplayStart
           \/ \E e \in batch : ReplayServes(e) \/ ReplayFails(e)
           \/ \E d \in Decisions : DeleteOutbox(d)
           \/ WithdrawOutbox \/ DeleteStore \/ WithdrawStore
           \/ DeletionFails \/ DeletionDropped
           \/ \E op \in late : LateLands(op)
           \/ Toggle \/ Crash
    PROVE  TypeOK'
<1>1. CASE ReplayStart
    BY <1>1 DEF ReplayStart, TypeOK, tables, client
<1>2. ASSUME NEW e \in batch, ReplayServes(e) PROVE TypeOK'
    <2>1. e \in Event
        BY DEF TypeOK
    <2>2. PICK x \in Answers :
            /\ StoreServes(e, x)
            /\ outbox' = IF Stored(x) THEN outbox \ {e} ELSE outbox
        BY <1>2 DEF ReplayServes
    <2>3. Serving
        BY <2>1, <2>2, Serves
    <2>4. /\ outbox' \subseteq Event
          /\ \A f, g \in outbox' : SameKey(f, g) => f = g
        BY <2>2 DEF TypeOK
    <2> QED
        BY <1>2, <2>3, <2>4 DEF ReplayServes, ReplayDone, TypeOK, Serving, client
<1>3. ASSUME NEW e \in batch, ReplayFails(e) PROVE TypeOK'
    <2>1. e \in Event
        BY DEF TypeOK
    <2>2. Serving
        BY <1>3, <2>1, Fails DEF ReplayFails
    <2> QED
        BY <1>3, <2>2 DEF ReplayFails, ReplayDone, TypeOK, Serving, client
<1>4. ASSUME NEW d \in Decisions, DeleteOutbox(d) PROVE TypeOK'
    BY <1>4 DEF DeleteOutbox, Purge, TypeOK, tables, client
<1>5. CASE WithdrawOutbox
    BY <1>5, ScrubKeepsType DEF WithdrawOutbox, TypeOK, tables, client
<1>6. CASE DeleteStore
    <2>1. [NoRow EXCEPT !.status = "deleted"] \in Row
        BY DEF NoRow, Row, Evidence
    <2> QED
        BY <1>6, <2>1 DEF DeleteStore, TypeOK, client
<1>7. CASE WithdrawStore
    <2>1. \A d \in Decisions : [row[d] EXCEPT !.shows = "scrubbed_store"] \in Row
        BY DEF TypeOK, Row, Evidence
    <2> QED
        BY <1>7, <2>1 DEF WithdrawStore, TypeOK, client
<1>8. CASE DeletionFails
    BY <1>8 DEF DeletionFails, TypeOK, tables, client
<1>9. CASE DeletionDropped
    <2>1. [op : {"purge"}, decision : Decisions] \cup {[op |-> "scrub"]} \subseteq LateOps
        BY DEF LateOps
    <2>2. late' \subseteq LateOps
        BY <1>9, <2>1 DEF DeletionDropped, TypeOK
    <2> QED
        BY <1>9, <2>2 DEF DeletionDropped, TypeOK, tables, client
<1>10. ASSUME NEW op \in late, LateLands(op) PROVE TypeOK'
    <2>1. op \in LateOps
        BY DEF TypeOK
    <2>2. CASE op.op = "enqueue"
        <3>1. op.event \in Event
            BY <2>1, <2>2 DEF LateOps
        <3>2. /\ outbox' = IF Refused(op.event) THEN outbox
                           ELSE outbox \cup {op.event}
              /\ tombstones' = tombstones
            BY <1>10, <2>2 DEF LateLands
        <3>3. /\ outbox' \subseteq Event
              /\ \A f, g \in outbox' : SameKey(f, g) => f = g
            BY <3>1, <3>2, EnqueueKeepsType DEF TypeOK
        <3> QED
            BY <1>10, <3>2, <3>3 DEF LateLands, TypeOK, tables, client
    <2>3. CASE op.op = "ack"
        <3>1. outbox' = outbox \ {op.event} /\ tombstones' = tombstones
            BY <1>10, <2>3 DEF LateLands
        <3> QED
            BY <1>10, <3>1 DEF LateLands, TypeOK, tables, client
    <2>4. CASE op.op = "purge"
        <3>1. op.decision \in Decisions
            BY <2>1, <2>4 DEF LateOps
        <3>2. Purge(op.decision)
            BY <1>10, <2>4 DEF LateLands
        <3> QED
            BY <1>10, <3>1, <3>2 DEF LateLands, Purge, TypeOK, tables, client
    <2>5. CASE op.op = "scrub"
        <3>1. Scrub
            BY <1>10, <2>5 DEF LateLands
        <3> QED
            BY <1>10, <3>1, ScrubKeepsType DEF LateLands, TypeOK, tables, client
    <2> QED
        BY <2>1, <2>2, <2>3, <2>4, <2>5 DEF LateOps
<1>11. CASE Toggle
    BY <1>11 DEF Toggle, TypeOK, tables, client
<1>12. CASE Crash
    BY <1>12 DEF Crash, TypeOK, Active
<1> QED
    BY <1>1, <1>2, <1>3, <1>4, <1>5, <1>6, <1>7, <1>8, <1>9, <1>10, <1>11, <1>12

-----------------------------------------------------------------------------

\* Serving, with nothing lost from the outbox, is Keeping.
LEMMA ServingKeeps ==
    ASSUME Serving, tombstones' = tombstones,
           \A e \in outbox : e \in outbox' \/ Has(e)'
    PROVE  Keeping
BY DEF Serving, Keeping

\* Steps that leave the main database alone keep its rows.
LEMMA RowsAlone ==
    ASSUME NoGhosts, UNCHANGED row, tombstones \subseteq tombstones',
           \A e \in outbox :
              \/ e \in outbox' \/ Has(e)' \/ e.decision \in tombstones'
              \/ ScrubEvent(e) \in outbox'
    PROVE  Keeping
BY DEF NoGhosts, Keeping, Kept

\* Every step of an attempt keeps what the tables have.
LEMMA AttemptKeeps ==
    ASSUME TypeOK, NoGhosts, NEW a \in Attempts,
           \/ Start(a) \/ WriteUnqueued(a) \/ Enqueue(a) \/ EnqueueFails(a)
           \/ Deliver(a) \/ Infer(a) \/ InferRefused(a) \/ Disconnect(a)
    PROVE  Keeping
<1>0. EventOf(a) \in Event
    BY EventType
<1>1. CASE Start(a)
    BY <1>1, RowsAlone DEF Start, tables
<1>2. CASE WriteUnqueued(a)
    <2>1. Serving
        BY <1>0, <1>2, Calls DEF WriteUnqueued
    <2> QED
        BY <1>2, <2>1, ServingKeeps DEF WriteUnqueued
<1>3. CASE Enqueue(a)
    BY <1>3, RowsAlone DEF Enqueue, tables
<1>4. CASE EnqueueFails(a)
    BY <1>4, RowsAlone DEF EnqueueFails, tables
<1>5. CASE Deliver(a)
    <2>0. PICK g \in Event : g = EventOf(a)
        BY <1>0
    <2>1. PICK x \in Answers :
            /\ StoreCall(g, x)
            /\ \/ Stored(x) /\ outbox' = outbox \ {g}
               \/ outbox' = outbox
        BY <1>5, <2>0 DEF Deliver
    <2>2. Serving /\ (Stored(x) => Has(g)')
        BY <2>1, Calls
    <2>3. \A e \in outbox : e \in outbox' \/ Has(e)'
        <3>1. CASE Stored(x) /\ outbox' = outbox \ {g}
            <4> TAKE e \in outbox
            <4>1. CASE e = g
                BY <2>2, <3>1, <4>1 DEF Has
            <4>2. CASE e # g
                BY <3>1, <4>2
            <4> QED
                BY <4>1, <4>2
        <3>2. CASE outbox' = outbox
            BY <3>2
        <3> QED
            BY <2>1, <3>1, <3>2
    <2> QED
        BY <1>5, <2>2, <2>3, ServingKeeps DEF Deliver
<1>6. CASE Infer(a)
    BY <1>6, RowsAlone DEF Infer, tables
<1>7. CASE InferRefused(a)
    BY <1>7, RowsAlone DEF InferRefused, tables
<1>8. CASE Disconnect(a)
    <2>1. CASE UNCHANGED row
        BY <1>8, <2>1, RowsAlone DEF Disconnect
    <2>2. CASE \E x \in Answers : StoreServes(EventOf(a), x)
        <3>1. Serving
            BY <1>0, <2>2, Serves
        <3> QED
            BY <1>8, <3>1, ServingKeeps DEF Disconnect
    <2> QED
        BY <1>8, <2>1, <2>2 DEF Disconnect, UnderWay
<1> QED
    BY <1>1, <1>2, <1>3, <1>4, <1>5, <1>6, <1>7, <1>8

\* Every other step keeps what the tables have: a row is deleted only after
\* its tombstone, and a late acknowledgement has been earned.
LEMMA EnvironmentKeeps ==
    ASSUME TypeOK, NoGhosts, DeletionTombstoned, AcksEarned,
           \/ ReplayStart
           \/ \E e \in batch : ReplayServes(e) \/ ReplayFails(e)
           \/ \E d \in Decisions : DeleteOutbox(d)
           \/ WithdrawOutbox \/ DeleteStore \/ WithdrawStore
           \/ DeletionFails \/ DeletionDropped
           \/ \E op \in late : LateLands(op)
           \/ Toggle \/ Crash
    PROVE  Keeping
<1>1. CASE ReplayStart
    BY <1>1, RowsAlone DEF ReplayStart, tables
<1>2. ASSUME NEW e \in batch, ReplayServes(e) PROVE Keeping
    <2>1. e \in Event
        BY DEF TypeOK
    <2>2. PICK x \in Answers :
            /\ StoreServes(e, x)
            /\ outbox' = IF Stored(x) THEN outbox \ {e} ELSE outbox
        BY <1>2 DEF ReplayServes
    <2>3. Serving /\ (Stored(x) => Has(e)')
        BY <2>1, <2>2, Serves
    <2>4. \A f \in outbox : f \in outbox' \/ Has(f)'
        <3> TAKE f \in outbox
        <3>1. CASE f = e
            BY <2>2, <2>3, <3>1 DEF Has
        <3>2. CASE f # e
            BY <2>2, <3>2
        <3> QED
            BY <3>1, <3>2
    <2> QED
        BY <1>2, <2>3, <2>4, ServingKeeps DEF ReplayServes, ReplayDone
<1>3. ASSUME NEW e \in batch, ReplayFails(e) PROVE Keeping
    <2>1. e \in Event
        BY DEF TypeOK
    <2>2. Serving
        BY <1>3, <2>1, Fails DEF ReplayFails
    <2> QED
        BY <1>3, <2>2, ServingKeeps DEF ReplayFails, ReplayDone
<1>4. ASSUME NEW d \in Decisions, DeleteOutbox(d) PROVE Keeping
    BY <1>4, RowsAlone DEF DeleteOutbox, Purge, tables
<1>5. CASE WithdrawOutbox
    BY <1>5, RowsAlone DEF WithdrawOutbox, Scrub, tables
<1>6. CASE DeleteStore
    <2>1. /\ deleting \in Decisions /\ deleting \in tombstones
          /\ row'[deleting].status = "deleted"
          /\ \A d \in Decisions : d # deleting => row'[d] = row[d]
        BY <1>6 DEF DeleteStore, DeletionTombstoned, TypeOK, NoRow
    <2>2. NoGhosts' /\ \A d \in Decisions : Kept(d)
        BY <2>1 DEF NoGhosts, Kept
    <2> QED
        BY <1>6, <2>1, <2>2 DEF DeleteStore, Keeping
<1>7. CASE WithdrawStore
    <2>1. \A d \in Decisions : /\ row'[d].status = row[d].status
                               /\ row'[d].request = row[d].request
                               /\ row'[d].result = row[d].result
        BY <1>7 DEF WithdrawStore, TypeOK, Row
    <2>2. NoGhosts' /\ \A d \in Decisions : Kept(d)
        BY <2>1 DEF NoGhosts, Kept
    <2> QED
        BY <1>7, <2>1, <2>2 DEF WithdrawStore, Keeping
<1>8. CASE DeletionFails
    BY <1>8, RowsAlone DEF DeletionFails, tables
<1>9. CASE DeletionDropped
    BY <1>9, RowsAlone DEF DeletionDropped, tables
<1>10. ASSUME NEW op \in late, LateLands(op) PROVE Keeping
    <2>0. op \in LateOps /\ UNCHANGED row
        BY <1>10 DEF TypeOK, LateLands, tables
    <2>1. CASE op.op = "enqueue"
        BY <1>10, <2>0, <2>1, RowsAlone DEF LateLands
    <2>2. CASE op.op = "ack"
        <3>1. outbox' = outbox \ {op.event} /\ tombstones' = tombstones
            BY <1>10, <2>2 DEF LateLands
        <3>2. Has(op.event)' \/ op.event.decision \in tombstones'
            BY <2>0, <2>2, <3>1 DEF AcksEarned, Has
        <3>3. \A e \in outbox : e \in outbox' \/ Has(e)' \/ e.decision \in tombstones'
            <4> TAKE e \in outbox
            <4>1. CASE e = op.event
                BY <3>2, <4>1 DEF Has
            <4>2. CASE e # op.event
                BY <3>1, <4>2
            <4> QED
                BY <4>1, <4>2
        <3> QED
            BY <2>0, <3>1, <3>3, RowsAlone
    <2>3. CASE op.op = "purge"
        BY <1>10, <2>0, <2>3, RowsAlone DEF LateLands, Purge
    <2>4. CASE op.op = "scrub"
        BY <1>10, <2>0, <2>4, RowsAlone DEF LateLands, Scrub
    <2> QED
        BY <2>0, <2>1, <2>2, <2>3, <2>4 DEF LateOps
<1>11. CASE Toggle
    BY <1>11, RowsAlone DEF Toggle, tables
<1>12. CASE Crash
    BY <1>12, RowsAlone DEF Crash
<1> QED
    BY <1>1, <1>2, <1>3, <1>4, <1>5, <1>6, <1>7, <1>8, <1>9, <1>10, <1>11, <1>12

-----------------------------------------------------------------------------

\* What the main database has of a snapshot it has after any step, or the
\* decision is deleted.
LEMMA HasKept ==
    ASSUME Inv, Keeping, NEW e \in Event,
           Has(e) \/ e.decision \in tombstones
    PROVE  Has(e)' \/ e.decision \in tombstones'
<1>1. e.decision \in Decisions /\ e.by # Nobody
    BY NamesAssumption DEF Event
<1>2. row'[e.decision].status = "deleted" => e.decision \in tombstones'
    BY <1>1 DEF Inv, TombstonesHold, Keeping
<1>3. Kept(e.decision) /\ tombstones \subseteq tombstones'
    BY <1>1 DEF Keeping
<1>4. CASE Has(e)
    BY <1>1, <1>2, <1>3, <1>4 DEF Has, Kept
<1> QED
    BY <1>3, <1>4

\* A result that is in the main database stays there or is deleted.
LEMMA FiledKept ==
    ASSUME Inv, Keeping, NEW a \in Attempts, Filed(a)
    PROVE  Filed(a)'
<1>1. DecisionOf[a] \in Decisions
    BY RequestAssumption
<1>2. row'[DecisionOf[a]].status = "deleted" => DecisionOf[a] \in tombstones'
    BY <1>1 DEF Inv, TombstonesHold, Keeping
<1>3. Kept(DecisionOf[a]) /\ tombstones \subseteq tombstones'
    BY <1>1 DEF Keeping
<1> QED
    BY <1>2, <1>3 DEF Filed, Kept

\* The snapshot of a result is the result, where it has been stored.
LEMMA HasFiles ==
    ASSUME NEW a \in Attempts, NEW e, e.decision = DecisionOf[a],
           e.method = "finish", e.by = a, Has(e)' \/ e.decision \in tombstones'
    PROVE  Filed(a)'
BY DEF Has, Filed

\* A result that is in the main database or in the outbox stays in one of them.
LEMMA SafeKept ==
    ASSUME Inv, Keeping, NEW a \in Attempts, Safe(a)
    PROVE  Safe(a)'
<1>1. CASE Filed(a)
    BY <1>1, FiledKept DEF Safe
<1>2. ASSUME NEW e \in outbox, e.decision = DecisionOf[a],
             e.method = "finish", e.by = a
      PROVE  Safe(a)'
    <2>1. e \in Event
        BY DEF Inv, TypeOK
    <2>2. CASE e \in outbox'
        BY <1>2, <2>2 DEF Safe
    <2>3. CASE Has(e)' \/ e.decision \in tombstones'
        BY <1>2, <2>3, HasFiles DEF Safe
    <2>4. CASE ScrubEvent(e) \in outbox'
        BY <1>2, <2>1, <2>4, ScrubType DEF Safe
    <2> QED
        BY <2>2, <2>3, <2>4 DEF Keeping
<1> QED
    BY <1>1, <1>2 DEF Safe

\* Receipts stay true in a step that gives none.
LEMMA ReceiptsKept ==
    ASSUME Inv, Keeping, UNCHANGED told
    PROVE  ReceiptsHonest'
<1>1. \A a \in Attempts :
          /\ told[a] = "stored" => Filed(a)
          /\ told[a] = "queued_local" => Safe(a)
    BY DEF Inv, ReceiptsHonest, Filed, Safe
<1>2. \A a \in Attempts :
          /\ told'[a] = "stored" => Filed(a)'
          /\ told'[a] = "queued_local" => Safe(a)'
    BY <1>1, FiledKept, SafeKept
<1> QED
    BY <1>2 DEF ReceiptsHonest, Filed, Safe

\* Receipts stay true in a step that gives a true one.
LEMMA ReceiptGiven ==
    ASSUME Inv, Keeping, NEW a \in Attempts, NEW x, NEW otherwise,
           Proceed(a, x, otherwise),
           pc[a] # "begin" /\ Stored(x) => Filed(a)',
           pc[a] # "begin" /\ otherwise = "queued_local" => Safe(a)',
           otherwise \in {"queued_local", "not_saved"}
    PROVE  ReceiptsHonest'
<1>1. CASE UNCHANGED told
    BY <1>1, ReceiptsKept
<1>2. CASE told' # told
    <2>1. /\ pc[a] # "begin"
          /\ told' = [told EXCEPT ![a] =
                CASE x \in {"stored", "existing"} -> "stored"
                  [] x = "not_recorded"           -> "not_recorded"
                  [] x = "conflict"               -> "not_saved"
                  [] OTHER                        -> otherwise]
        BY <1>2 DEF Proceed
    <2>2. \A b \in Attempts : b # a => told'[b] = told[b]
        BY <2>1 DEF Inv, TypeOK
    <2>3. /\ told'[a] = "stored" => Stored(x)
          /\ told'[a] = "queued_local" => otherwise = "queued_local"
        BY <2>1 DEF Inv, TypeOK, Stored
    <2>4. \A b \in Attempts :
              /\ told[b] = "stored" => Filed(b)
              /\ told[b] = "queued_local" => Safe(b)
        BY DEF Inv, ReceiptsHonest, Filed, Safe
    <2>5. \A b \in Attempts : b # a =>
              /\ told'[b] = "stored" => Filed(b)'
              /\ told'[b] = "queued_local" => Safe(b)'
        BY <2>2, <2>4, FiledKept, SafeKept
    <2>6. /\ told'[a] = "stored" => Filed(a)'
          /\ told'[a] = "queued_local" => Safe(a)'
        BY <2>1, <2>3
    <2> QED
        BY <2>5, <2>6 DEF ReceiptsHonest, Filed, Safe
<1> QED
    BY <1>1, <1>2

\* The lock's holder goes on writing where neither it nor the lock moves.
LEMMA HolderKept ==
    ASSUME Inv, Keeping,
           \A a \in Attempts : lock' = a => lock = a /\ pc'[a] = pc[a]
    PROVE  HolderWrites'
BY SafeKept DEF Inv, HolderWrites

\* Late acknowledgements stay earned where none is added.
LEMMA AcksKept ==
    ASSUME Inv, Keeping,
           \A op \in late' : op.op = "ack" =>
              op \in late \/ Has(op.event)' \/ op.event.decision \in tombstones'
    PROVE  AcksEarned'
<1>1. ASSUME NEW op \in late', op.op = "ack", op \in late
      PROVE  Has(op.event)' \/ op.event.decision \in tombstones'
    <2>1. op.event \in Event
        BY <1>1 DEF Inv, TypeOK, LateOps
    <2> QED
        BY <1>1, <2>1, HasKept DEF Inv, AcksEarned
<1> QED
    BY <1>1 DEF AcksEarned

\* Tombstones hold where nothing enters the outbox but what it may take.
LEMMA TombstonesKept ==
    ASSUME Inv, Keeping,
           \A e \in outbox' :
              e.decision \notin tombstones' \/
              (tombstones' = tombstones /\
                \E f \in outbox : e.decision = f.decision)
    PROVE  TombstonesHold'
<1>1. \A e \in outbox' : e.decision \notin tombstones'
    BY DEF Inv, TombstonesHold
<1>2. \A d \in Decisions : row'[d].status = "deleted" => d \in tombstones'
    BY DEF Inv, TombstonesHold, Keeping
<1> QED
    BY <1>1, <1>2 DEF TombstonesHold

-----------------------------------------------------------------------------

\* Every step of an attempt keeps the invariant.
LEMMA AttemptInv ==
    ASSUME Inv, NEW a \in Attempts,
           \/ Start(a) \/ WriteUnqueued(a) \/ Enqueue(a) \/ EnqueueFails(a)
           \/ Deliver(a) \/ Infer(a) \/ InferRefused(a) \/ Disconnect(a)
    PROVE  Inv'
<1>1. TypeOK' /\ Keeping
    BY AttemptType, AttemptKeeps DEF Inv
<1>2. NoGhosts'
    BY <1>1 DEF Keeping
<1>3. PICK g \in Event : g = EventOf(a)
    BY EventType DEF Inv
<1>4. /\ g.decision = DecisionOf[a]
      /\ pc[a] # "begin" => g.method = "finish" /\ g.by = a
    BY <1>3 DEF EventOf
<1>5. DeletionTombstoned'
    BY <1>1 DEF Inv, DeletionTombstoned, Keeping, Start, WriteUnqueued,
        Enqueue, EnqueueFails, Deliver, Infer, InferRefused, Disconnect
<1>6. TombstonesHold'
    <2>1. CASE Enqueue(a)
        <3>1. g.decision \notin tombstones' /\ tombstones' = tombstones
              /\ outbox' = outbox \cup {g}
            BY <1>3, <2>1 DEF Enqueue, Refused
        <3> QED
            BY <1>1, <3>1, TombstonesKept
    <2>2. CASE ~Enqueue(a)
        <3>1. outbox' \subseteq outbox /\ tombstones' = tombstones
            BY <2>2 DEF Start, WriteUnqueued, EnqueueFails, Deliver, Infer,
                InferRefused, Disconnect
        <3> QED
            BY <1>1, <3>1, TombstonesKept
    <2> QED
        BY <2>1, <2>2
<1>7. ReceiptsHonest'
    <2>1. CASE WriteUnqueued(a)
        <3>1. PICK x \in Answers : /\ StoreCall(g, x)
                                   /\ Proceed(a, x, "not_saved")
            BY <1>3, <2>1 DEF WriteUnqueued
        <3>2. Stored(x) => Has(g)'
            BY <3>1, Calls DEF Inv
        <3>3. pc[a] # "begin" /\ Stored(x) => Filed(a)'
            BY <1>4, <3>2, HasFiles
        <3> QED
            BY <1>1, <3>1, <3>3, ReceiptGiven
    <2>2. CASE EnqueueFails(a)
        <3>1. PICK x \in {"conflict", "failed"} : Proceed(a, x, "not_saved")
            BY <2>2 DEF EnqueueFails
        <3>2. ~Stored(x)
            BY DEF Stored
        <3> QED
            BY <1>1, <3>1, <3>2, ReceiptGiven
    <2>3. CASE Deliver(a)
        <3>1. lock = a
            BY <2>3 DEF Deliver
        <3>2. pc[a] # "begin" => Safe(a)'
            BY <1>1, <3>1, SafeKept DEF Inv, HolderWrites
        <3>3. PICK x \in Answers :
                /\ StoreCall(g, x)
                /\ \/ Proceed(a, x, "queued_local")
                   \/ Proceed(a, "failed", "not_saved")
            BY <1>3, <2>3 DEF Deliver
        <3>4. Stored(x) => Has(g)'
            BY <3>3, Calls DEF Inv
        <3>5. pc[a] # "begin" /\ Stored(x) => Filed(a)'
            BY <1>4, <3>4, HasFiles
        <3>6. CASE Proceed(a, x, "queued_local")
            BY <1>1, <3>2, <3>5, <3>6, ReceiptGiven
        <3>7. CASE Proceed(a, "failed", "not_saved")
            <4>1. ~Stored("failed")
                BY DEF Stored
            <4> QED
                BY <1>1, <3>7, <4>1, ReceiptGiven
        <3> QED
            BY <3>3, <3>6, <3>7
    <2>4. CASE UNCHANGED told
        BY <1>1, <2>4, ReceiptsKept
    <2> QED
        BY <2>1, <2>2, <2>3, <2>4 DEF Start, Enqueue, Infer, InferRefused,
            Disconnect, client
<1>8. HolderWrites'
    <2>1. CASE Enqueue(a)
        <3>1. /\ pc' = pc /\ pc[a] \in {"begin", "finish"} /\ lock' = a
              /\ g \in outbox'
            BY <1>3, <2>1 DEF Enqueue, Writing, client
        <3>2. pc[a] = "finish" => Safe(a)'
            BY <1>4, <3>1 DEF Safe
        <3> QED
            BY <3>1, <3>2 DEF HolderWrites
    <2>2. CASE ~Enqueue(a)
        <3>1. \A b \in Attempts : b # a => pc'[b] = pc[b]
            BY <2>2 DEF Start, WriteUnqueued, EnqueueFails, Deliver, Infer,
                InferRefused, Disconnect, Proceed, Inv, TypeOK
        <3>2. lock' # a /\ (lock' = lock \/ lock' = Nobody)
            BY <2>2, NamesAssumption DEF Start, WriteUnqueued, EnqueueFails,
                Deliver, Infer, InferRefused, Disconnect, Inv, HolderWrites
        <3> QED
            BY <1>1, <3>1, <3>2, HolderKept, NamesAssumption
    <2> QED
        BY <2>1, <2>2
<1>9. AcksEarned'
    <2>1. CASE late' = late
        BY <1>1, <2>1, AcksKept
    <2>2. CASE Disconnect(a) /\ late' # late
        <3>1. CASE late' = late \cup {[op |-> "enqueue", event |-> g]}
            BY <1>1, <3>1, AcksKept
        <3>2. CASE /\ late' = late \cup {[op |-> "ack", event |-> g]}
                   /\ \E x \in Answers : StoreServes(g, x) /\ Stored(x)
            <4>1. Has(g)'
                BY <3>2, Serves DEF Inv
            <4>2. \A op \in late' : op \in late \/ op.event = g
                BY <3>2
            <4>3. \A op \in late' : op \in late \/ Has(op.event)'
                BY <4>1, <4>2 DEF Has
            <4> QED
                BY <1>1, <4>3, AcksKept
        <3> QED
            BY <1>3, <2>2, <3>1, <3>2 DEF Disconnect, UnderWay
    <2> QED
        BY <2>1, <2>2 DEF Start, WriteUnqueued, Enqueue, EnqueueFails, Deliver,
            Infer, InferRefused
<1> QED
    BY <1>1, <1>2, <1>5, <1>6, <1>7, <1>8, <1>9 DEF Inv

\* Every other step keeps the invariant.
LEMMA EnvironmentInv ==
    ASSUME Inv,
           \/ ReplayStart
           \/ \E e \in batch : ReplayServes(e) \/ ReplayFails(e)
           \/ \E d \in Decisions : DeleteOutbox(d)
           \/ WithdrawOutbox \/ DeleteStore \/ WithdrawStore
           \/ DeletionFails \/ DeletionDropped
           \/ \E op \in late : LateLands(op)
           \/ Toggle \/ Crash
    PROVE  Inv'
<1>1. TypeOK' /\ Keeping
    BY EnvironmentType, EnvironmentKeeps DEF Inv
<1>2. NoGhosts' /\ tombstones \subseteq tombstones'
    BY <1>1 DEF Keeping
<1>3. ReceiptsHonest'
    <2>1. UNCHANGED told
        BY DEF ReplayStart, ReplayServes, ReplayFails, ReplayDone, DeleteOutbox,
            WithdrawOutbox, DeleteStore, WithdrawStore, DeletionFails,
            DeletionDropped, LateLands, Toggle, Crash, client
    <2> QED
        BY <1>1, <2>1, ReceiptsKept
<1>4. DeletionTombstoned'
    <2>1. ASSUME NEW d \in Decisions, DeleteOutbox(d)
          PROVE  DeletionTombstoned'
        BY <2>1 DEF DeleteOutbox, Purge, DeletionTombstoned
    <2>2. CASE deleting' = deleting \/ deleting' \in {Nobody, Case}
        BY <1>2, <2>2, NamesAssumption DEF Inv, DeletionTombstoned
    <2> QED
        BY <2>1, <2>2 DEF ReplayStart, ReplayServes, ReplayFails, ReplayDone,
            WithdrawOutbox, DeleteStore, WithdrawStore, DeletionFails,
            DeletionDropped, LateLands, Toggle, Crash
<1>5. TombstonesHold'
    <2>1. CASE outbox' \subseteq outbox /\ tombstones' = tombstones
        BY <1>1, <2>1, TombstonesKept
    <2>2. ASSUME NEW d, Purge(d) PROVE TombstonesHold'
        <3>1. \A e \in outbox' : e.decision \notin tombstones'
            BY <2>2 DEF Purge, Inv, TombstonesHold
        <3> QED
            BY <1>1, <3>1, TombstonesKept
    <2>3. CASE Scrub
        <3>1. \A e \in outbox' : \E f \in outbox : e.decision = f.decision
            BY <2>3, ScrubType DEF Scrub, Inv, TypeOK
        <3> QED
            BY <1>1, <2>3, <3>1, TombstonesKept DEF Scrub
    <2>4. ASSUME NEW op \in late, LateLands(op) PROVE TombstonesHold'
        <3>1. CASE op.op = "enqueue"
            <4>1. /\ tombstones' = tombstones
                  /\ \A e \in outbox' : e \in outbox \/
                        e.decision \notin tombstones
                BY <2>4, <3>1 DEF LateLands, Refused
            <4> QED
                BY <1>1, <4>1, TombstonesKept
        <3>2. CASE op.op = "ack"
            BY <2>1, <2>4, <3>2 DEF LateLands
        <3>3. CASE op.op = "purge"
            BY <2>2, <2>4, <3>3 DEF LateLands
        <3>4. CASE op.op = "scrub"
            BY <2>3, <2>4, <3>4 DEF LateLands
        <3> QED
            BY <3>1, <3>2, <3>3, <3>4 DEF LateOps, Inv, TypeOK
    <2>5. ASSUME NEW d \in Decisions, DeleteOutbox(d) PROVE TombstonesHold'
        BY <2>2, <2>5 DEF DeleteOutbox
    <2>6. CASE WithdrawOutbox
        BY <2>3, <2>6 DEF WithdrawOutbox
    <2> QED
        BY <2>1, <2>4, <2>5, <2>6 DEF ReplayStart, ReplayServes, ReplayFails,
            ReplayDone, DeleteStore, WithdrawStore, DeletionFails,
            DeletionDropped, Toggle, Crash
<1>6. HolderWrites'
    <2>1. lock' \notin Attempts \/ (lock' = lock /\ pc' = pc)
        BY NamesAssumption DEF ReplayStart, ReplayServes, ReplayFails,
            ReplayDone, DeleteOutbox, WithdrawOutbox, DeleteStore,
            WithdrawStore, DeletionFails, DeletionDropped, LateLands, Toggle,
            Crash, client
    <2> QED
        BY <1>1, <2>1, HolderKept
<1>7. AcksEarned'
    <2>1. CASE DeletionDropped
        <3>1. PICK op \in [op : {"purge"}, decision : Decisions]
                            \cup {[op |-> "scrub"]} : late' = late \cup {op}
            BY <2>1 DEF DeletionDropped
        <3>2. op.op # "ack"
            OBVIOUS
        <3> QED
            BY <1>1, <3>1, <3>2, AcksKept
    <2>2. CASE late' \subseteq late
        BY <1>1, <2>2, AcksKept
    <2> QED
        BY <2>1, <2>2 DEF ReplayStart, ReplayServes, ReplayFails, ReplayDone,
            DeleteOutbox, WithdrawOutbox, DeleteStore, WithdrawStore,
            DeletionFails, LateLands, Toggle, Crash
<1> QED
    BY <1>1, <1>2, <1>3, <1>4, <1>5, <1>6, <1>7 DEF Inv

\* The invariant holds at the start.
LEMMA InitInv == Init => Inv
BY NoRowType, NamesAssumption DEF Init, Inv, TypeOK, NoGhosts,
    DeletionTombstoned, TombstonesHold, ReceiptsHonest, HolderWrites,
    AcksEarned, NoRow, Evidence, Active, Status

\* Every step, and every stutter, keeps the invariant and what the tables have.
LEMMA NextInv == Inv /\ [Next]_vars => Inv' /\ Keeping
<1> SUFFICES ASSUME Inv, [Next]_vars PROVE Inv' /\ Keeping
    OBVIOUS
<1>1. CASE Next
    BY <1>1, AttemptInv, AttemptKeeps, EnvironmentInv, EnvironmentKeeps
        DEF Next, Inv
<1>2. CASE UNCHANGED vars
    <2>1. Inv'
        BY <1>2 DEF Inv, vars, tables, client, TypeOK, NoGhosts,
            DeletionTombstoned, TombstonesHold, ReceiptsHonest, HolderWrites,
            AcksEarned, Safe, Filed, Has
    <2> QED
        BY <1>2, <2>1, RowsAlone DEF Inv, vars, tables
<1> QED
    BY <1>1, <1>2

-----------------------------------------------------------------------------

\* The invariant holds in every behaviour.
LEMMA InvAlways == Spec => []Inv
BY InitInv, NextInv, PTL DEF Spec

\* Every variable has its type, and the outbox has one snapshot of each
\* decision and method.
THEOREM TypeCorrect == Spec => []TypeOK
<1>1. Inv => TypeOK
    BY DEF Inv
<1> QED
    BY <1>1, InvAlways, PTL

\* Nothing of a tombstoned decision is queued, and a deleted decision has its
\* tombstone.
THEOREM TombstonesAlwaysHold == Spec => []TombstonesHold
<1>1. Inv => TombstonesHold
    BY DEF Inv
<1> QED
    BY <1>1, InvAlways, PTL

\* A client told "stored" or "queued_local" can rely on it.
THEOREM ReceiptsAlwaysHonest == Spec => []ReceiptsHonest
<1>1. Inv => ReceiptsHonest
    BY DEF Inv
<1> QED
    BY <1>1, InvAlways, PTL

\* No snapshot brings a deleted decision back.
THEOREM DeletedAlwaysStaysDeleted == Spec => DeletedStaysDeleted
<1>1. Inv /\ [Next]_vars =>
        [\A d \in Decisions :
            row[d].status = "deleted" => row'[d].status = "deleted"]_vars
    BY NextInv DEF Keeping, Kept
<1> QED
    BY <1>1, InvAlways, PTL DEF Spec, DeletedStaysDeleted

\* A snapshot leaves the outbox only when the main database has it, or its
\* decision was deleted.
THEOREM NothingEverLost == Spec => NothingLost
<1>1. Inv /\ [Next]_vars =>
        [\A e \in outbox \ outbox' :
            \/ Has(e)' \/ e.decision \in tombstones'
            \/ ScrubEvent(e) \in outbox']_vars
    BY NextInv DEF Keeping
<1> QED
    BY <1>1, InvAlways, PTL DEF Spec, NothingLost
=============================================================================
