--------------------------- MODULE LearningMemory ---------------------------
(***************************************************************************)
(* The learning memory of the workbench: the part of the main database in  *)
(* crates/laya/src/store.rs that turns human reviews of recorded decisions *)
(* into cases, freezes cases into memory versions, lets one evaluated      *)
(* version be active, and takes cases and whole decisions back again.      *)
(*                                                                         *)
(* The store runs every operation on one thread and in one SQLite          *)
(* transaction, so each operation is one action.  The tables are one       *)
(* record, db; a backup is such a record kept aside, and a restore puts    *)
(* it back after reapplying the deletions made since.  An operation is     *)
(* written as a function from tables to tables, because a restore applies  *)
(* the same functions to the tables of the backup.                         *)
(*                                                                         *)
(* A definition named X_Y before a definition X is X with the mistake Y;   *)
(* no specification uses it.  It shows which property a mistake of that    *)
(* kind in the code would break.                                           *)
(***************************************************************************)
EXTENDS Integers

CONSTANTS
    Decisions,    \* ids of recorded decisions
    Versions,     \* ids of memory versions
    Archives,     \* ids of managed backups, safety backups included
    NoVersion,    \* the NULL of settings.active_memory_version
    NoArchive,    \* an archive id not in the backups table
    MaxRevision,  \* bound on the reviews of one decision
    MaxPolicy     \* bound on evaluation policies (releases of the service)

ASSUME NoVersionAssumption == NoVersion \notin Versions
ASSUME MaxRevisionAssumption == MaxRevision \in Nat
ASSUME MaxPolicyAssumption == MaxPolicy \in Nat \ {0}

VARIABLES
    db,        \* the tables of the main database
    archive,   \* the backups table and the files it names
    policy     \* the evaluator and retrieval policy this release implements

vars == <<db, archive, policy>>

-----------------------------------------------------------------------------
(* The tables.  A case id is the text "decision:revision".                 *)

CaseIds == Decisions \X (1 .. MaxRevision)

DecisionStatus == {"absent", "stored", "source_expired", "deleted"}
Verdict == {"none", "pending", "completed", "rejected"}
CaseStatus == {"none", "active", "inactive", "withdrawn"}
VersionStatus == {"none", "candidate", "active", "superseded", "invalidated"}
Evaluation == {"pending", "passed", "failed"}

\* confirmed and corrected are "completed"; insufficient and excluded are
\* "rejected": the store treats the members of each pair alike.
Memory ==
    [decision    : [Decisions -> DecisionStatus],
     revision    : [Decisions -> 0 .. MaxRevision],
     reviews     : [CaseIds -> Verdict],
     cases       : [CaseIds -> CaseStatus],
     status      : [Versions -> VersionStatus],
     invalidated : [Versions -> BOOLEAN],
     evaluation  : [Versions -> Evaluation],
     policy      : [Versions -> 0 .. MaxPolicy],
     mentions    : [Versions -> SUBSET CaseIds],
     members     : [Versions -> SUBSET CaseIds],
     active      : Versions \cup {NoVersion}]

EmptyMemory ==
    [decision    |-> [d \in Decisions |-> "absent"],
     revision    |-> [d \in Decisions |-> 0],
     reviews     |-> [c \in CaseIds |-> "none"],
     cases       |-> [c \in CaseIds |-> "none"],
     status      |-> [v \in Versions |-> "none"],
     invalidated |-> [v \in Versions |-> FALSE],
     evaluation  |-> [v \in Versions |-> "pending"],
     policy      |-> [v \in Versions |-> 0],
     mentions    |-> [v \in Versions |-> {}],
     members     |-> [v \in Versions |-> {}],
     active      |-> NoVersion]

CasesOf(D) == {c \in CaseIds : c[1] \in D}
ActiveCases(m) == {c \in CaseIds : m.cases[c] = "active"}
LiveCases(m) == {c \in CaseIds : m.cases[c] \in {"active", "inactive"}}
WithdrawnCases(m) == {c \in CaseIds : m.cases[c] = "withdrawn"}
DeletedDecisions(m) == {d \in Decisions : m.decision[d] = "deleted"}

-----------------------------------------------------------------------------
(* What the operations do to the tables.                                   *)

\* UPDATE memory_versions SET invalidated=1, and no version stays active.
Invalidate(m, V) ==
    [m EXCEPT
        !.invalidated = [v \in Versions |-> v \in V \/ m.invalidated[v]],
        !.status = [v \in Versions |->
                        IF v \in V /\ m.status[v] = "active"
                        THEN "invalidated" ELSE m.status[v]]]

VersionsWith(m, C) == {v \in Versions : m.members[v] \cap C # {}}

ScrubReports_KeepIds(m, C) ==
    Invalidate(m, {v \in Versions : m.mentions[v] \cap C # {}})

\* The ids C are removed from the stored reports, and a version whose report
\* loses evidence is invalidated.
ScrubReports(m, C) ==
    [Invalidate(m, {v \in Versions : m.mentions[v] \cap C # {}})
        EXCEPT !.mentions = [v \in Versions |-> m.mentions[v] \ C]]

\* The rows of the cases C that exist are marked deleted.
WithdrawCases(m, C) ==
    [ScrubReports(Invalidate(m, VersionsWith(m, C)), C) EXCEPT
        !.cases = [c \in CaseIds |->
                        IF c \in C /\ m.cases[c] # "none"
                        THEN "withdrawn" ELSE m.cases[c]]]

PurgeDecisions_InvalidateLast(m, D) ==
    LET C == CasesOf(D)
        n == [ScrubReports(m, C) EXCEPT
                !.members  = [v \in Versions |-> m.members[v] \ C],
                !.cases    = [c \in CaseIds |->
                                IF c \in C THEN "none" ELSE m.cases[c]],
                !.reviews  = [c \in CaseIds |->
                                IF c \in C THEN "none" ELSE m.reviews[c]],
                !.revision = [d \in Decisions |->
                                IF d \in D THEN 0 ELSE m.revision[d]],
                !.decision = [d \in Decisions |->
                                IF d \in D THEN "deleted" ELSE m.decision[d]]]
    IN  Invalidate(n, VersionsWith(n, C))

PurgeDecisions_KeepMembers(m, D) ==
    LET C == CasesOf(D)
    IN  [ScrubReports(Invalidate(m, VersionsWith(m, C)), C) EXCEPT
            !.cases    = [c \in CaseIds |->
                            IF c \in C THEN "none" ELSE m.cases[c]],
            !.reviews  = [c \in CaseIds |->
                            IF c \in C THEN "none" ELSE m.reviews[c]],
            !.revision = [d \in Decisions |->
                            IF d \in D THEN 0 ELSE m.revision[d]],
            !.decision = [d \in Decisions |->
                            IF d \in D THEN "deleted" ELSE m.decision[d]]]

\* The decisions D keep a tombstone row and nothing else.
PurgeDecisions(m, D) ==
    LET C == CasesOf(D)
        n == ScrubReports(Invalidate(m, VersionsWith(m, C)), C)
    IN  [n EXCEPT
            !.members  = [v \in Versions |-> m.members[v] \ C],
            !.cases    = [c \in CaseIds |->
                            IF c \in C THEN "none" ELSE m.cases[c]],
            !.reviews  = [c \in CaseIds |->
                            IF c \in C THEN "none" ELSE m.reviews[c]],
            !.revision = [d \in Decisions |->
                            IF d \in D THEN 0 ELSE m.revision[d]],
            !.decision = [d \in Decisions |->
                            IF d \in D THEN "deleted" ELSE m.decision[d]]]

Fallbacks_Invalidated(m) ==
    {v \in Versions : /\ m.evaluation[v] = "passed"
                      /\ m.status[v] \in {"active", "superseded"}
                      /\ v # m.active}

\* The versions that may take over from an invalidated active one.  The code
\* takes the one activated last, to the second; any of them is allowed here.
\* A version of these two statuses has an activated_at.
Fallbacks(m) ==
    {v \in Versions : /\ ~m.invalidated[v]
                      /\ m.evaluation[v] = "passed"
                      /\ m.status[v] \in {"active", "superseded"}
                      /\ v # m.active}

NeedsRepair(m) == m.active # NoVersion /\ m.invalidated[m.active]

\* repair_active_version turns the tables m into n.
Repair(m, n) ==
    \/ ~NeedsRepair(m) /\ n = m
    \/ NeedsRepair(m) /\ Fallbacks(m) = {} /\ n = [m EXCEPT !.active = NoVersion]
    \/ /\ NeedsRepair(m)
       /\ \E v \in Fallbacks(m) :
             n = [m EXCEPT !.active = v, !.status[v] = "active"]

Revoke_KeepVersions(m, d) ==
    [m EXCEPT !.cases = [c \in CaseIds |->
        IF c \in CasesOf({d}) \cap ActiveCases(m) THEN "inactive" ELSE m.cases[c]]]

\* A concluding review of an already reviewed decision takes the case of the
\* earlier judgment out of use, with every version that froze it.
Revoke(m, d) ==
    LET C == CasesOf({d}) \cap ActiveCases(m)
    IN  [Invalidate(m, VersionsWith(m, C)) EXCEPT
            !.cases = [c \in CaseIds |->
                          IF c \in C THEN "inactive" ELSE m.cases[c]]]

Revokes_RejectedOnly(m, d, verdict) == verdict = "rejected" /\ m.revision[d] > 0

Revokes(m, d, verdict) == verdict # "pending" /\ m.revision[d] > 0

RecordReview(m, d, verdict) ==
    LET n == IF Revokes(m, d, verdict) THEN Revoke(m, d) ELSE m
        c == <<d, m.revision[d] + 1>>
    IN  [n EXCEPT
            !.revision[d] = m.revision[d] + 1,
            !.reviews[c]  = verdict,
            !.cases[c]    = IF verdict = "completed" THEN "active" ELSE @]

-----------------------------------------------------------------------------
(* The operations.                                                         *)

\* decisions/begin with recording on, for a request not seen before.
BeginDecision(d) ==
    /\ db.decision[d] = "absent"
    /\ db' = [db EXCEPT !.decision[d] = "stored"]
    /\ UNCHANGED <<archive, policy>>

\* retention: an unprotected decision no one reviewed loses its content.
Retention(d) ==
    /\ db.decision[d] = "stored"
    /\ db.revision[d] = 0
    /\ db' = [db EXCEPT !.decision[d] = "source_expired"]
    /\ UNCHANGED <<archive, policy>>

\* reviews/create with the current revision as expected_revision.  A
\* completed review needs the state of the request, which expiry removed.
ReviewDecision(d, verdict) ==
    /\ db.decision[d] \in {"stored", "source_expired"}
    /\ db.revision[d] < MaxRevision
    /\ verdict = "completed" => db.decision[d] = "stored"
    /\ IF Revokes(db, d, verdict)
       THEN Repair(RecordReview(db, d, verdict), db')
       ELSE db' = RecordReview(db, d, verdict)
    /\ UNCHANGED <<archive, policy>>

\* cases/delete
DeleteCase(c) ==
    /\ db.cases[c] # "none"
    /\ Repair(WithdrawCases(db, {c}), db')
    /\ UNCHANGED <<archive, policy>>

\* decisions/delete
DeleteDecision(d) ==
    /\ db.decision[d] # "absent"
    /\ Repair(PurgeDecisions(db, {d}), db')
    /\ UNCHANGED <<archive, policy>>

\* versions/create: freezes the given active cases, whatever they are.
CreateVersion(v, C) ==
    /\ db.status[v] = "none"
    /\ C \subseteq ActiveCases(db)
    /\ db' = [db EXCEPT !.status[v] = "candidate", !.members[v] = C]
    /\ UNCHANGED <<archive, policy>>

\* versions/report, called by the evaluation job.  The report lists the cases
\* that were retrieved for the candidate and for the version active when the
\* job began; the job and the deletion of a case exclude each other.
ReportVersion(v, result, C) ==
    /\ db.status[v] # "none"
    /\ ~db.invalidated[v]
    /\ db.status[v] \notin {"active", "superseded"}
    /\ db.evaluation[v] = "pending"
    /\ C \subseteq LiveCases(db)
    /\ db' = [db EXCEPT !.evaluation[v] = result,
                        !.policy[v]     = policy,
                        !.mentions[v]   = C]
    /\ UNCHANGED <<archive, policy>>

\* versions/activate
ActivateVersion(v) ==
    /\ db.status[v] # "none"
    /\ ~db.invalidated[v]
    /\ db.evaluation[v] = "passed"
    /\ db.policy[v] = policy
    /\ db.members[v] \subseteq ActiveCases(db)
    /\ db' = [db EXCEPT
                !.status = [w \in Versions |->
                              IF w = v THEN "active"
                              ELSE IF db.status[w] = "active"
                                   THEN "superseded" ELSE db.status[w]],
                !.active = v]
    /\ UNCHANGED <<archive, policy>>

\* backups/create.  The safety backup of a restore that fails before its
\* installation is the same step.
CreateBackup(a) ==
    /\ archive[a] = NoArchive
    /\ archive' = [archive EXCEPT ![a] = db]
    /\ UNCHANGED <<db, policy>>

\* backups/delete
DeleteBackup(a) ==
    /\ archive[a] # NoArchive
    /\ archive' = [archive EXCEPT ![a] = NoArchive]
    /\ UNCHANGED <<db, policy>>

Reapply_KeepDeleted(m, backup) == WithdrawCases(backup, WithdrawnCases(m))

Reapply_KeepWithdrawn(m, backup) == PurgeDecisions(backup, DeletedDecisions(m))

Reapply_KeepVersions(m, backup) ==
    LET n == PurgeDecisions(backup, DeletedDecisions(m))
    IN  [n EXCEPT !.cases = [c \in CaseIds |->
            IF c \in WithdrawnCases(m) /\ n.cases[c] # "none"
            THEN "withdrawn" ELSE n.cases[c]]]

\* The tables of a backup after the deletions recorded in the current tables
\* m have been reapplied to them.
Reapply(m, backup) ==
    WithdrawCases(PurgeDecisions(backup, DeletedDecisions(m)),
                  WithdrawnCases(m))

RestoreBackup_NoRepair(a, s) ==
    /\ archive[a] # NoArchive
    /\ archive[s] = NoArchive
    /\ db' = Reapply(db, archive[a])
    /\ archive' = [archive EXCEPT ![s] = db]
    /\ UNCHANGED policy

\* backups/restore of a, with a safety backup s of the tables it replaces.
RestoreBackup(a, s) ==
    /\ archive[a] # NoArchive
    /\ archive[s] = NoArchive
    /\ Repair(Reapply(db, archive[a]), db')
    /\ archive' = [archive EXCEPT ![s] = db]
    /\ UNCHANGED policy

\* A new release of the service implements another evaluation policy.
UpgradePolicy ==
    /\ policy < MaxPolicy
    /\ policy' = policy + 1
    /\ UNCHANGED <<db, archive>>

-----------------------------------------------------------------------------

Init ==
    /\ db = EmptyMemory
    /\ archive = [a \in Archives |-> NoArchive]
    /\ policy = 1

Next ==
    \/ \E d \in Decisions : BeginDecision(d)
    \/ \E d \in Decisions : Retention(d)
    \/ \E d \in Decisions, verdict \in Verdict \ {"none"} :
          ReviewDecision(d, verdict)
    \/ \E c \in CaseIds : DeleteCase(c)
    \/ \E d \in Decisions : DeleteDecision(d)
    \/ \E v \in Versions : \E C \in SUBSET ActiveCases(db) : CreateVersion(v, C)
    \/ \E v \in Versions, result \in {"passed", "failed"} :
          \E C \in SUBSET LiveCases(db) : ReportVersion(v, result, C)
    \/ \E v \in Versions : ActivateVersion(v)
    \/ \E a \in Archives : CreateBackup(a)
    \/ \E a \in Archives : DeleteBackup(a)
    \/ \E a, s \in Archives : RestoreBackup(a, s)
    \/ UpgradePolicy

Spec == Init /\ [][Next]_vars

-----------------------------------------------------------------------------
(* Properties.                                                             *)

\* Every table holds rows of its type, and a backup holds tables.
TypeOK ==
    /\ db \in Memory
    /\ archive \in [Archives -> Memory \cup {NoArchive}]
    /\ policy \in 1 .. MaxPolicy

\* The active pointer names a version that memory/retrieve can use: passed,
\* not invalidated, and the one version whose status is active.  Otherwise
\* every prediction would fail with "memory version is not usable".
ActiveUsable(m) ==
    /\ m.active # NoVersion =>
          /\ m.status[m.active] = "active"
          /\ ~m.invalidated[m.active]
          /\ m.evaluation[m.active] = "passed"
    /\ \A v \in Versions : m.status[v] = "active" => v = m.active

\* A version that is not invalidated still has every case it froze in use:
\* no review, withdrawal, deletion or restore leaves it with a stale one.
FrozenMembersLive(m) ==
    \A v \in Versions :
        ~m.invalidated[v] => m.members[v] \subseteq ActiveCases(m)

\* A case in use states the latest judgment of its decision: it comes from a
\* completed review that no later concluding review has replaced.
CurrentJudgment(m) ==
    \A d \in Decisions, r \in 1 .. MaxRevision :
        m.cases[<<d, r>>] = "active" =>
            /\ m.reviews[<<d, r>>] = "completed"
            /\ \A s \in (r + 1) .. MaxRevision :
                  m.reviews[<<d, s>>] \in {"none", "pending"}

\* Nothing learned from a deleted decision is left anywhere in the tables.
NothingOfDeleted(m) ==
    \A d \in DeletedDecisions(m) :
        /\ \A r \in 1 .. MaxRevision :
              /\ m.cases[<<d, r>>] = "none"
              /\ m.reviews[<<d, r>>] = "none"
        /\ \A v \in Versions :
              (m.members[v] \cup m.mentions[v]) \cap CasesOf({d}) = {}

\* No report shows a case that was withdrawn or does not exist.
ReportsShowLiveCases(m) ==
    \A v \in Versions : m.mentions[v] \subseteq LiveCases(m)

\* Rows exist only for reviews that were made.
OnlyReviewed(m) ==
    \A d \in Decisions, r \in 1 .. MaxRevision :
        r > m.revision[d] =>
            m.cases[<<d, r>>] = "none" /\ m.reviews[<<d, r>>] = "none"

\* The active pointer is null or names a version memory/retrieve can use.
RetrievalWorks == ActiveUsable(db)

\* A valid version froze cases that are in use, and a case in use is the
\* latest judgment of its decision.
VersionsFresh == FrozenMembersLive(db) /\ CurrentJudgment(db)

\* Nothing learned from what was deleted is left in the tables, and no report
\* shows a case that was withdrawn.
DeletionComplete == NothingOfDeleted(db) /\ ReportsShowLiveCases(db)

\* The inductive invariant: a backup is as sound as the tables it copied.
Sound(m) ==
    /\ FrozenMembersLive(m)
    /\ CurrentJudgment(m)
    /\ NothingOfDeleted(m)
    /\ ReportsShowLiveCases(m)
    /\ OnlyReviewed(m)

Inv ==
    /\ TypeOK
    /\ ActiveUsable(db) /\ Sound(db)
    /\ \A a \in Archives : archive[a] # NoArchive =>
          ActiveUsable(archive[a]) /\ Sound(archive[a])

Restores == \E a, s \in Archives : RestoreBackup(a, s)

\* Except by a restore, an invalidated version never becomes valid again, and
\* a version that stays valid keeps the cases it froze and its report: a
\* deletion cannot quietly shrink what was evaluated.
VersionsImmutable ==
    [][Restores \/
       \A v \in Versions :
          /\ db.invalidated[v] => db'.invalidated[v]
          /\ db.status[v] # "none" /\ ~db'.invalidated[v] =>
                db'.members[v] = db.members[v]
          /\ db.evaluation[v] # "pending" /\ ~db'.invalidated[v] =>
                /\ db'.evaluation[v] = db.evaluation[v]
                /\ db'.policy[v] = db.policy[v]
                /\ db'.mentions[v] = db.mentions[v]]_vars

\* What was taken back stays so: a deleted decision stays deleted, and no
\* single step puts a withdrawn case back in use, whatever backup is restored.
NothingRevived ==
    [][/\ \A d \in Decisions :
             db.decision[d] = "deleted" => db'.decision[d] = "deleted"
       /\ \A c \in CaseIds :
             db.cases[c] = "withdrawn" => db'.cases[c] \in {"withdrawn", "none"}]_vars
=============================================================================
