-------------------------- MODULE FeedbackDelivery --------------------------
(***************************************************************************)
(* How feedback about a decision reaches the main database.  An agent's    *)
(* MCP process writes an event to the outbox and offers it to the service  *)
(* (crates/laya/src/mcp.rs); the replay task of the service offers again   *)
(* what is still queued (service.rs); the store takes an event once, after *)
(* the events it refers to (store.rs, execution.rs).  The senders run      *)
(* concurrently, and between the answer of the store and its record in the *)
(* outbox (outbox.rs) anything may happen: another sender offers the same  *)
(* event, the decision is deleted, a backup is restored, the service is    *)
(* killed.  The workbench may offer an event without the outbox.           *)
(*                                                                         *)
(* An event stands for a valid payload.  Its fields are the ones the store *)
(* compares; a group of scores is an attempt, since one reviewer and one   *)
(* dimension show every rule.                                              *)
(*                                                                         *)
(* A definition named X_Y before a definition X is X with the mistake Y;   *)
(* no specification uses it.                                               *)
(***************************************************************************)
EXTENDS Naturals, FiniteSets

CONSTANTS
    Decisions,   \* decision ids
    Delayable,   \* those whose begin may first be queued in the outbox
    Unrecordable,\* those that may be begun with recording off
    Ids,         \* event ids, chosen by the agents
    Attempts,    \* attempt_ref
    Runs,        \* identities of an execution: run, stage, ordinal, policy
    Events,      \* the events the agents send
    Agents,      \* MCP processes
    Replayer,    \* the replay task of the service
    Archives,    \* backups
    Nothing      \* no event, no archive, no identity

\* "review" stands for test, review and user_choice, which the store treats alike.
Kinds == {"assignment", "review", "usage", "outcome", "run_manifest"}

Event ==
    [id       : Ids,
     decision : Decisions,
     attempt  : Attempts,
     kind     : Kinds,
     phase    : {"initial", "revision", "none"},   \* of its score
     sequence : Nat,                               \* source_sequence
     target   : Ids \cup {Nothing},                \* supersedes_event_id
     run      : Runs \cup {Nothing},               \* identity of an execution
     dispatch : Ids \cup {Nothing},                \* dispatch_event_id
     first    : Ids \cup {Nothing},                \* first_feedback_event_id
     evidence : SUBSET Ids,                        \* tests, reviews and usages
     segments : SUBSET [decision : Decisions, attempt : Attempts, usage : Ids],
     outcomes : SUBSET Ids]                        \* outcome_event_ids

\* What validate_feedback lets through: only a revision supersedes an event,
\* only a versioned outcome refers to the events of its attempt, and a run
\* manifest has no score and includes its own decision.
ASSUME EventsAssumption ==
    /\ Events \subseteq Event
    /\ \A e \in Events :
          /\ e.phase = "revision" <=> e.target # Nothing
          /\ e.run # Nothing => e.kind \in {"assignment", "outcome"}
          /\ e.dispatch # Nothing <=> e.run # Nothing /\ e.kind = "outcome"
          /\ e.dispatch = Nothing => e.first = Nothing /\ e.evidence = {}
          /\ e.kind = "run_manifest" =>
                e.phase = "none" /\ \E s \in e.segments : s.decision = e.decision
          /\ e.kind # "run_manifest" => e.segments = {} /\ e.outcomes = {}
ASSUME DecisionsAssumption ==
    Delayable \subseteq Decisions /\ Unrecordable \subseteq Decisions
ASSUME NamesAssumption ==
    /\ Replayer \notin Agents
    /\ Nothing \notin Ids /\ Nothing \notin Runs /\ Nothing \notin Events
    /\ Nothing \notin Decisions /\ Nothing \notin Archives

Senders == Agents \cup {Replayer}

VARIABLES
    row,         \* the decisions of the main database
    stored,      \* feedback_events
    unrecorded,  \* decisions begun while recording was off, in memory
    snapshots,   \* decisions whose begin is still in the outbox
    outbox,      \* the outbox table
    tombstones,  \* deleted_decisions of the outbox
    work,        \* the event each sender offers
    reply,       \* what the store answered it
    batch,       \* the events the replay task read and has yet to offer
    told,        \* what the last answer about an event promised its agent
    deleting,    \* the decision whose DELETE is between the two databases
    archive,     \* the contents of the backups
    rolledBack   \* events a restore took away (history)

tables == <<row, stored>>
sending == <<work, reply, batch>>
vars == <<row, stored, unrecorded, snapshots, outbox, tombstones, work, reply,
          batch, told, deleting, archive, rolledBack>>

Entries == [event : Events, state : {"queued_local", "acknowledged", "quarantined"}]
Tables == [row : [Decisions -> {"absent", "begun", "deleted"}],
           stored : SUBSET Events]
Answers == {"stored", "not_recorded", "waiting", "failed", "conflict",
            "not_found", "invalid"}

\* event_id is the key of both tables.
TypeOK ==
    /\ [row |-> row, stored |-> stored] \in Tables
    /\ \A e, f \in stored : e.id = f.id => e = f
    /\ unrecorded \subseteq Decisions
    /\ snapshots \subseteq Decisions
    /\ outbox \subseteq Entries
    /\ \A n, m \in outbox : n.event.id = m.event.id => n = m
    /\ tombstones \subseteq Decisions
    /\ work \in [Senders -> Events \cup {Nothing}]
    /\ reply \in [Senders -> Answers \cup {Nothing}]
    /\ batch \subseteq Events
    /\ told \in [Events -> {"nothing", "stored", "kept"}]
    /\ deleting \in Decisions \cup {Nothing}
    /\ archive \in [Archives -> Tables \cup {Nothing}]
    /\ rolledBack \subseteq Events

Init ==
    /\ row = [d \in Decisions |-> "absent"]
    /\ stored = {}
    /\ unrecorded = {}
    /\ snapshots = {}
    /\ outbox = {}
    /\ tombstones = {}
    /\ work = [s \in Senders |-> Nothing]
    /\ reply = [s \in Senders |-> Nothing]
    /\ batch = {}
    /\ told = [e \in Events |-> "nothing"]
    /\ deleting = Nothing
    /\ archive = [a \in Archives |-> Nothing]
    /\ rolledBack = {}

-----------------------------------------------------------------------------
(* The store: Database::feedback.                                          *)

Named(i) == {f \in stored : f.id = i}

SameAttempt(e, f) == e.decision = f.decision /\ e.attempt = f.attempt

\* validate_run_manifest_references.  Which of several bad references is met
\* first is left open, here and below.
ManifestProblems(e) ==
    LET missing == {s \in e.segments : Named(s.usage) = {}}
        wrong == {s \in e.segments : \E f \in Named(s.usage) :
                     f.kind # "usage" \/ ~SameAttempt(f, s)}
        unknown == {i \in e.outcomes : Named(i) = {}}
        foreign == {i \in e.outcomes : \E f \in Named(i) :
                       \/ f.kind # "outcome"
                       \/ \A s \in e.segments : ~SameAttempt(f, s)}
    IN  {IF row[s.decision] = "deleted" THEN "not_found" ELSE "waiting" :
            s \in missing}
            \cup {"waiting" : i \in unknown}
            \cup {"invalid" : s \in wrong} \cup {"invalid" : i \in foreign}

ExecutionConflict_Identity(e) ==
    e.run # Nothing /\ \E f \in stored :
        SameAttempt(e, f) /\ f.run \notin {Nothing, e.run}

\* validate_references: an attempt has one identity and one terminal outcome.
ExecutionConflict(e) ==
    /\ e.run # Nothing
    /\ \E f \in stored :
          /\ SameAttempt(e, f) /\ f.run # Nothing
          /\ f.run # e.run \/ (e.kind = "outcome" /\ f.kind = "outcome")

References(e) == ({e.dispatch, e.first} \cup e.evidence) \ {Nothing}

Misfit(e, f) ==
    \/ ~SameAttempt(e, f)
    \/ f.id = e.dispatch /\ (f.kind # "assignment" \/ f.run # e.run)
    \/ f.id = e.first /\ f.phase # "initial"
    \/ f.id \in e.evidence /\ f.kind \notin {"review", "usage"}

ReferenceProblems(e) ==
    {"waiting" : i \in {i \in References(e) \ {e.id} : Named(i) = {}}}
        \cup {"invalid" : f \in {f \in stored : f.id \in References(e) /\ Misfit(e, f)}}
        \cup {"invalid" : i \in References(e) \cap {e.id}}

Unarrived_Never(e) == FALSE

Unarrived(e) == e.target # Nothing /\ Named(e.target) = {}

\* insert_score
ScoreProblems(e) ==
    LET group == {f \in stored : SameAttempt(e, f) /\ f.phase # "none"}
    IN  {"conflict" : f \in {f \in group :
             \/ e.phase = "initial" /\ f.phase = "initial"
             \/ e.phase # "none" /\ f.sequence = e.sequence}}
            \cup {"invalid" : f \in {f \in Named(e.target) :
                     f \notin group \/ e.sequence <= f.sequence}}

\* What the store may answer to an event, in the order of its checks.
Verdicts(e) ==
    IF e.decision \in unrecorded THEN {"not_recorded"}
    ELSE IF Named(e.id) # {} THEN {IF e \in stored THEN "stored" ELSE "conflict"}
    ELSE IF row[e.decision] # "begun" THEN {"not_found"}
    ELSE IF ManifestProblems(e) # {} THEN ManifestProblems(e)
    ELSE IF ExecutionConflict(e) THEN {"conflict"}
    ELSE IF ReferenceProblems(e) # {} THEN ReferenceProblems(e)
    ELSE IF Unarrived(e) THEN {"waiting"}
    ELSE IF ScoreProblems(e) # {} THEN ScoreProblems(e)
    ELSE {"stored"}

\* A second first score takes the place of the first one.
StoreFeedback_Replaces(e, answer) ==
    /\ answer = "stored" /\ Verdicts(e) \cap {"conflict", "stored"} # {}
    /\ stored' = {f \in stored : f.id # e.id /\ ~(SameAttempt(e, f) /\ f.phase = "initial")}
                     \cup {e}

StoreFeedback(e, answer) ==
    /\ answer \in Verdicts(e)
    /\ stored' = IF answer = "stored" THEN stored \cup {e} ELSE stored

\* The store is busy or its disk is full; or the event is committed and the
\* connection of the agent breaks before the answer.
StoreFails(e, s) == UNCHANGED stored \/ (s # Replayer /\ StoreFeedback(e, "stored"))

-----------------------------------------------------------------------------
(* The outbox.                                                             *)

DecisionsOf(e) == {e.decision} \cup {s.decision : s \in e.segments}

Enqueue_AnyContent(e) ==
    /\ DecisionsOf(e) \cap tombstones = {}
    /\ outbox' = IF \E n \in outbox : n.event = e THEN outbox
                 ELSE outbox \cup {[event |-> e, state |-> "queued_local"]}

\* enqueue: the entry of an event, new or old, unless it is refused.
Enqueue(e) ==
    /\ DecisionsOf(e) \cap tombstones = {}
    /\ \A n \in outbox : n.event.id = e.id => n.event = e
    /\ outbox' = IF \E n \in outbox : n.event = e THEN outbox
                 ELSE outbox \cup {[event |-> e, state |-> "queued_local"]}

\* acknowledge: the entry with the hash of the event.
Acknowledge(e) ==
    outbox' = {IF n.event = e THEN [n EXCEPT !.state = "acknowledged"] ELSE n :
                  n \in outbox}

\* Every failure is one to try again.
Failed_Again(e, permanent) == UNCHANGED outbox

\* failed: the queued entry with the id of the event.
Failed(e, permanent) ==
    outbox' = {IF n.event.id = e.id /\ n.state = "queued_local" /\ permanent
               THEN [n EXCEPT !.state = "quarantined"] ELSE n : n \in outbox}

\* The run manifests of other decisions stay queued.
PurgeOutbox_Own(d) ==
    /\ tombstones' = tombstones \cup {d}
    /\ outbox' = {n \in outbox : n.event.decision # d}
    /\ snapshots' = snapshots \ {d}

\* delete_decision: the payload of an acknowledged entry is gone, so only its
\* own decision finds it.
PurgeOutbox(d) ==
    /\ tombstones' = tombstones \cup {d}
    /\ outbox' = {n \in outbox :
                     /\ n.event.decision # d
                     /\ n.state # "acknowledged" => d \notin DecisionsOf(n.event)}
    /\ snapshots' = snapshots \ {d}

-----------------------------------------------------------------------------
(* The senders.                                                            *)

\* laya_feedback: the event is in the outbox before anything else.  An entry
\* that is acknowledged answers at once.
Send(a, e) ==
    /\ work[a] = Nothing
    /\ Enqueue(e)
    /\ IF [event |-> e, state |-> "acknowledged"] \in outbox
       THEN /\ told' = [told EXCEPT ![e] = "stored"]
            /\ UNCHANGED work
       ELSE /\ work' = [work EXCEPT ![a] = e]
            /\ UNCHANGED told
    /\ UNCHANGED <<tables, unrecorded, snapshots, tombstones, reply, batch,
                   deleting, archive, rolledBack>>

Idle(s) == /\ work' = [work EXCEPT ![s] = Nothing]
           /\ reply' = [reply EXCEPT ![s] = Nothing]

\* Replay is paused or the service cannot be reached: the agent is shown the
\* receipt of the outbox.
Unreachable(a) ==
    /\ work[a] # Nothing /\ reply[a] = Nothing
    /\ told' = [told EXCEPT ![work[a]] = "kept"]
    /\ Idle(a)
    /\ UNCHANGED <<tables, unrecorded, snapshots, outbox, tombstones, batch,
                   deleting, archive, rolledBack>>

\* The agent cancels its call, or its process ends.  What it had sent may still
\* be served: that is Direct.
Abandon(a) ==
    /\ work[a] # Nothing
    /\ Idle(a)
    /\ UNCHANGED <<tables, unrecorded, snapshots, outbox, tombstones, batch,
                   told, deleting, archive, rolledBack>>

\* The replay task reads the entries that are due; the time of a next attempt
\* and the limit of 100 leave some out.
ReplayRead ==
    /\ work[Replayer] = Nothing /\ batch = {}
    /\ batch' \in SUBSET {n.event : n \in {n \in outbox : n.state = "queued_local"}}
    /\ batch' # {}
    /\ UNCHANGED <<tables, unrecorded, snapshots, outbox, tombstones, work,
                   reply, told, deleting, archive, rolledBack>>

ReplayNext(e) ==
    /\ e \in batch /\ work[Replayer] = Nothing
    /\ batch' = batch \ {e}
    /\ work' = [work EXCEPT ![Replayer] = e]
    /\ UNCHANGED <<tables, unrecorded, snapshots, outbox, tombstones, reply,
                   told, deleting, archive, rolledBack>>

\* App::feedback waits for the maintenance lock, which a deletion holds.
Offered(s) == work[s] # Nothing /\ reply[s] = Nothing /\ deleting = Nothing

Served(s) ==
    /\ Offered(s)
    /\ \E answer \in Answers :
          /\ StoreFeedback(work[s], answer)
          /\ reply' = [reply EXCEPT ![s] = answer]
    /\ UNCHANGED <<row, unrecorded, snapshots, outbox, tombstones, work, batch,
                   told, deleting, archive, rolledBack>>

NotServed(s) ==
    /\ Offered(s)
    /\ StoreFails(work[s], s)
    /\ reply' = [reply EXCEPT ![s] = "failed"]
    /\ UNCHANGED <<row, unrecorded, snapshots, outbox, tombstones, work, batch,
                   told, deleting, archive, rolledBack>>

\* An event that comes without the outbox: POST /feedback of the workbench, or
\* the RPC of another client.
Direct(e) ==
    /\ deleting = Nothing
    /\ StoreFeedback(e, "stored")
    /\ UNCHANGED <<row, unrecorded, snapshots, outbox, tombstones, sending, told,
                   deleting, archive, rolledBack>>

Permanent == {"conflict", "not_found", "invalid"}

\* A conflict is taken for the receipt of an earlier call.
Settle_Known(s) ==
    /\ work[s] # Nothing /\ reply[s] # Nothing
    /\ IF reply[s] \in {"stored", "conflict"} THEN Acknowledge(work[s])
       ELSE Failed(work[s], reply[s] \in Permanent)
    /\ Idle(s)
    /\ UNCHANGED <<tables, unrecorded, snapshots, tombstones, batch, told,
                   deleting, archive, rolledBack>>

\* The answer is written to the outbox; an agent passes it on.
Settle(s) ==
    LET e == work[s]
        answer == reply[s]
    IN  /\ e # Nothing /\ answer # Nothing
        /\ CASE answer = "stored" -> Acknowledge(e)
             [] answer = "not_recorded" -> UNCHANGED outbox
             [] OTHER -> Failed(e, answer \in Permanent)
        /\ told' = IF s = Replayer THEN told
                   ELSE [told EXCEPT ![e] =
                            CASE answer = "stored" -> "stored"
                              [] answer \in {"waiting", "failed"} -> "kept"
                              [] OTHER -> "nothing"]
        /\ Idle(s)
        /\ UNCHANGED <<tables, unrecorded, snapshots, tombstones, batch,
                       deleting, archive, rolledBack>>

\* The outbox cannot be written: an agent gets the error, the replay task
\* ignores it.
SettleFails(s) ==
    /\ work[s] # Nothing /\ reply[s] # Nothing
    /\ Idle(s)
    /\ UNCHANGED <<tables, unrecorded, snapshots, outbox, tombstones, batch,
                   told, deleting, archive, rolledBack>>

\* POST /outbox/{id}/retry
Retry(i) ==
    /\ deleting = Nothing
    /\ \E n \in outbox : n.event.id = i /\ n.state = "quarantined"
    /\ outbox' = {IF n.event.id = i /\ n.state = "quarantined"
                  THEN [n EXCEPT !.state = "queued_local"] ELSE n : n \in outbox}
    /\ UNCHANGED <<tables, unrecorded, snapshots, tombstones, sending, told,
                   deleting, archive, rolledBack>>

-----------------------------------------------------------------------------
(* Decisions, as far as feedback depends on them.                          *)

Decided == UNCHANGED <<stored, outbox, tombstones, sending, told, deleting,
                       archive, rolledBack>>

\* decisions/begin with recording on: the main database has it, or it waits in
\* the outbox.
Begin(d) ==
    /\ deleting = Nothing
    /\ row[d] = "absent" /\ d \notin tombstones
    /\ \/ row' = [row EXCEPT ![d] = "begun"] /\ snapshots' = snapshots \ {d}
       \/ d \in Delayable /\ UNCHANGED row /\ snapshots' = snapshots \cup {d}
    /\ UNCHANGED unrecorded
    /\ Decided

\* decisions/begin and decisions/finish with recording off.
BeginUnrecorded(d) ==
    /\ deleting = Nothing /\ d \in Unrecordable
    /\ unrecorded' = unrecorded \cup {d}
    /\ UNCHANGED <<row, snapshots>>
    /\ Decided

FinishUnrecorded(d) ==
    /\ deleting = Nothing /\ d \in unrecorded
    /\ unrecorded' = unrecorded \ {d}
    /\ UNCHANGED <<row, snapshots>>
    /\ Decided

\* The replay task delivers a queued begin.
ReplaySnapshot(d) ==
    /\ deleting = Nothing /\ d \in snapshots
    /\ row' = IF row[d] = "absent" THEN [row EXCEPT ![d] = "begun"] ELSE row
    /\ snapshots' = snapshots \ {d}
    /\ UNCHANGED unrecorded
    /\ Decided

-----------------------------------------------------------------------------
(* Deletion, backups, crashes.                                             *)

\* Manifests of other decisions that count an event of D stay.
Purged_Own(events, D) == {f \in events : f.decision \notin D}

\* purge_decision and remove_cross_decision_run_manifests, for each of D.
Purged(events, D) ==
    LET own == {f \in events : f.decision \in D}
        ids == {f.id : f \in own}
    IN  {f \in events \ own :
            /\ \A s \in f.segments : s.decision \notin D /\ s.usage \notin ids
            /\ f.outcomes \cap ids = {}}

\* DELETE /decisions/{id}: the outbox first, then the main database.
DeleteOutbox(d) ==
    /\ deleting = Nothing /\ row[d] = "begun"
    /\ PurgeOutbox(d)
    /\ deleting' = d
    /\ UNCHANGED <<tables, unrecorded, sending, told, archive, rolledBack>>

DeleteStore ==
    /\ deleting # Nothing
    /\ row' = [row EXCEPT ![deleting] = "deleted"]
    /\ stored' = Purged(stored, {deleting})
    /\ deleting' = Nothing
    /\ UNCHANGED <<unrecorded, snapshots, outbox, tombstones, sending, told,
                   archive, rolledBack>>

DeletionFails ==
    /\ deleting # Nothing
    /\ deleting' = Nothing
    /\ UNCHANGED <<tables, unrecorded, snapshots, outbox, tombstones, sending,
                   told, archive, rolledBack>>

Backup(a) ==
    /\ deleting = Nothing /\ archive[a] = Nothing
    /\ archive' = [archive EXCEPT ![a] = [row |-> row, stored |-> stored]]
    /\ UNCHANGED <<tables, unrecorded, snapshots, outbox, tombstones, sending,
                   told, deleting, rolledBack>>

\* Deletions made since the backup are not repeated.
Restore_Deleted(a) ==
    /\ deleting = Nothing /\ archive[a] # Nothing
    /\ row' = [d \in Decisions |->
                  IF row[d] = "deleted" THEN "deleted" ELSE archive[a].row[d]]
    /\ stored' = archive[a].stored
    /\ rolledBack' = rolledBack \cup stored
    /\ UNCHANGED <<unrecorded, snapshots, outbox, tombstones, sending, told,
                   deleting, archive>>

\* backup_restore: the outbox is not touched.
Restore(a) ==
    LET deleted == {d \in Decisions : row[d] = "deleted"}
    IN  /\ deleting = Nothing /\ archive[a] # Nothing
        /\ row' = [d \in Decisions |->
                      IF d \in deleted THEN "deleted" ELSE archive[a].row[d]]
        /\ stored' = Purged(archive[a].stored, deleted)
        /\ rolledBack' = rolledBack \cup stored
        /\ UNCHANGED <<unrecorded, snapshots, outbox, tombstones, sending, told,
                       deleting, archive>>

\* The service is killed and started again; agents are other processes.
Crash ==
    /\ unrecorded' = {}
    /\ Idle(Replayer)
    /\ batch' = {}
    /\ deleting' = Nothing
    /\ UNCHANGED <<tables, snapshots, outbox, tombstones, told, archive, rolledBack>>

Next ==
    \/ \E a \in Agents :
          Unreachable(a) \/ Abandon(a) \/ \E e \in Events : Send(a, e)
    \/ \E s \in Senders : Served(s) \/ NotServed(s) \/ Settle(s) \/ SettleFails(s)
    \/ ReplayRead \/ \E e \in batch : ReplayNext(e)
    \/ \E e \in Events : Direct(e)
    \/ \E i \in Ids : Retry(i)
    \/ \E d \in Decisions :
          \/ Begin(d) \/ BeginUnrecorded(d) \/ FinishUnrecorded(d)
          \/ ReplaySnapshot(d) \/ DeleteOutbox(d)
    \/ DeleteStore \/ DeletionFails
    \/ \E a \in Archives : Backup(a) \/ Restore(a)
    \/ Crash

Spec == Init /\ [][Next]_vars

Queued(e) == [event |-> e, state |-> "queued_local"] \in outbox

\* The replay task runs again and again, a deletion ends, and an event that is
\* read and offered again and again is served and settled at last.
FairSpec ==
    /\ Spec
    /\ WF_vars(DeleteStore \/ DeletionFails)
    /\ \A e \in Events :
          /\ SF_vars(ReplayRead /\ e \in batch')
          /\ SF_vars(ReplayNext(e))
          /\ SF_vars(work[Replayer] = e /\ Served(Replayer))
          /\ SF_vars(work[Replayer] = e /\ reply[Replayer] # "failed" /\ Settle(Replayer))
    /\ WF_vars(Served(Replayer) \/ NotServed(Replayer))
    /\ WF_vars(Settle(Replayer) \/ SettleFails(Replayer))

-----------------------------------------------------------------------------
(* Properties.                                                             *)

Gone(e) == DecisionsOf(e) \cap tombstones # {}

\* An event the outbox calls acknowledged or an agent was told is stored is in
\* the main database, and one an agent was told is kept has an entry; unless
\* its decision was deleted, or the user went back to a backup without it.
ReceiptsHonest ==
    LET committed(e) == e \in stored \/ Gone(e) \/ e \in rolledBack
    IN  /\ \A n \in outbox : n.state = "acknowledged" => committed(n.event)
        /\ \A e \in Events :
              /\ told[e] = "stored" => committed(e)
              /\ told[e] = "kept" => Gone(e) \/ \E n \in outbox : n.event = e

\* Whatever the order of arrival, deletions and restores: an attempt has one
\* initial score, one identity and one outcome; a chain of revisions goes back
\* to an older score; and every reference leads to a stored event that fits.
EvidenceSound ==
    \A e \in stored :
        /\ \A f \in stored : SameAttempt(e, f) /\ e # f =>
              /\ e.phase = "initial" => f.phase # "initial"
              /\ e.phase # "none" /\ f.phase # "none" => e.sequence # f.sequence
              /\ e.run # Nothing /\ f.run # Nothing => e.run = f.run
              /\ e.dispatch # Nothing => f.dispatch = Nothing
        /\ \A i \in References(e) : \E f \in Named(i) : ~Misfit(e, f)
        /\ e.target # Nothing => \E f \in Named(e.target) :
              SameAttempt(e, f) /\ f.phase # "none" /\ f.sequence < e.sequence
        /\ \A s \in e.segments : \E f \in Named(s.usage) :
              f.kind = "usage" /\ SameAttempt(f, s)
        /\ \A i \in e.outcomes : \E f \in Named(i), s \in e.segments :
              f.kind = "outcome" /\ SameAttempt(f, s)

\* Nothing about a deleted decision is left: no event of it, no run manifest
\* of another decision that counts it, and nothing queued that would bring it
\* back.
DeletedLeavesNothing ==
    /\ \A e \in stored : \A d \in DecisionsOf(e) : row[d] = "begun"
    /\ \A n \in outbox :
          /\ n.event.decision \notin tombstones
          /\ n.state # "acknowledged" => ~Gone(n.event)

\* "Preserve initial scores": no later event, retry or crash replaces or drops
\* an event that is stored.
EvidenceKept ==
    [][\A e \in stored : e \in stored' \/ Gone(e) \/ e \in rolledBack']_vars

\* An event is ready when the store would give it a final answer.
Ready(e) == Queued(e) /\ Verdicts(e) \cap {"waiting", "not_recorded"} = {}

\* A queued event whose dependencies have arrived does not stay queued.  Of
\* FairSpec.
QueuedSettles == \A e \in Events : Ready(e) ~> ~Ready(e)
=============================================================================
