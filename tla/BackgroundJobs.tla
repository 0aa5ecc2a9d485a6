--------------------------- MODULE BackgroundJobs ---------------------------
(***************************************************************************)
(* Evaluations and exports: start, evaluate and export in                  *)
(* crates/laya/src/evaluation.rs, the jobs table of store.rs, and what     *)
(* meets them in service.rs: deletions, backup and restore, inference,     *)
(* cancellation and crashes.                                               *)
(*                                                                         *)
(* An export is a file with the decisions the database has, which a person *)
(* may delete; a deletion stays in the database through every restore.     *)
(* Withdrawing a case goes the same way through locks and exports, but a   *)
(* restore may forget it (module WithdrawalHistory), so nothing is said    *)
(* here of cases.                                                          *)
(*                                                                         *)
(* The maintenance lock is where everyone is: a request shares it in       *)
(* "creating", its job from "marking" on, and a deletion has it alone in   *)
(* "locked" and "cleared".  The privacy lock is with an export that has an *)
(* open file, with a download or with a deletion in "cleared".  The store  *)
(* answers in the order of its calls, so what a dropped handler asked is   *)
(* done before what a later holder of its locks asks: such calls are done  *)
(* or not done at the drop.  X_Y is X with the mistake Y, as elsewhere.    *)
(***************************************************************************)
EXTENDS Naturals, FiniteSets

CONSTANTS
    Jobs,       \* the requests for jobs
    Decisions,  \* what people may delete
    Archives,   \* the backups, and the safety archives of restores
    Callers,    \* agents that ask for decisions, again and again
    Rounds,     \* the inferences of an evaluation
    Nobody      \* no job

ASSUME NobodyAssumption == Nobody \notin Jobs
ASSUME RoundsAssumption == Rounds \in Nat \ {0}

VARIABLES
    kind,       \* what each job is
    row,        \* its status in the jobs table
    requested,  \* the jobs that were ever requested: their ids are new
    cancel,     \* the jobs whose cancellation was requested
    guard,      \* the job that has App::job_guard
    pc,         \* where that job is
    round,      \* the inferences it has made
    files,      \* the directory of exports
    report,     \* the job that reported on the candidate version
    live,       \* the decisions in the database
    gone,       \* its tombstones
    del,        \* the deletion of each decision
    busy,       \* the callers whose decision is in the worker
    download,   \* whether a client reads an export
    backups     \* what each backup holds; one that is made again is a new one

task == <<guard, pc, round>>
tables == <<row, cancel, report, live, gone>>
vars == <<kind, requested, task, files, tables, del, busy, download, backups>>

Final == {"completed", "cancelled", "failed"}
Statuses == {"none", "queued", "running", "interrupted"} \cup Final

\* An export has a file open in "writing" and has renamed it in "published".
Exporting == {"writing", "published"}
Places == {"none", "creating", "waiting", "marking", "opening", "evaluating"}
             \cup Exporting \cup Final

Files == [job : Jobs, whole : BOOLEAN, decisions : SUBSET Decisions]
Tables == [row : [Jobs -> Statuses], cancel : SUBSET Jobs,
           report : Jobs \cup {Nobody}, live : SUBSET Decisions]

Now == [row |-> row, cancel |-> cancel, report |-> report, live |-> live]

Init ==
    /\ kind \in [Jobs -> {"evaluation", "export"}]
    /\ row = [j \in Jobs |-> "none"] /\ requested = {} /\ cancel = {}
    /\ guard = Nobody /\ pc = "none" /\ round = 0
    /\ files = {} /\ report = Nobody
    /\ live \in SUBSET Decisions /\ gone = {}
    /\ del = [d \in Decisions |-> "none"]
    /\ busy = {} /\ download = FALSE
    /\ backups = [a \in Archives |-> Now]

-----------------------------------------------------------------------------
(* The locks.                                                              *)

MayRead_ReadersFirst == \A d \in Decisions : del[d] \in {"none", "waiting"}

\* A deletion that waits keeps new readers out: tokio's lock is fair.
MayRead == \A d \in Decisions : del[d] = "none"

Readers == busy # {} \/ pc \notin {"none", "waiting"}

PrivacyFree == ~download /\ pc \notin Exporting

-----------------------------------------------------------------------------
(* A job.                                                                  *)

\* The request takes the guard, or is refused.
Start(j) ==
    /\ j \notin requested /\ guard = Nobody
    /\ MayRead
    /\ requested' = requested \cup {j}
    /\ guard' = j /\ pc' = "creating" /\ round' = 0
    /\ UNCHANGED <<kind, files, tables, del, busy, download, backups>>

Create(j) ==
    /\ guard = j /\ pc = "creating"
    /\ row' = [row EXCEPT ![j] = "queued"]
    /\ pc' = "waiting"
    /\ UNCHANGED <<kind, requested, guard, round, files, cancel, report, live, gone, del, busy, download, backups>>

\* The store refuses, or the client leaves before the task is spawned and the
\* row may stay without a task.
StartFails(j) ==
    /\ guard = j /\ pc = "creating"
    /\ row' \in {row, [row EXCEPT ![j] = "queued"]}
    /\ guard' = Nobody /\ pc' = "none"
    /\ UNCHANGED <<kind, requested, round, files, cancel, report, live, gone, del, busy, download, backups>>

\* The spawned task; it may be in the queue of the lock before a deletion that
\* waits.
Lock(j) ==
    /\ guard = j /\ pc = "waiting"
    /\ \A d \in Decisions : del[d] \in {"none", "waiting"}
    /\ pc' = "marking"
    /\ UNCHANGED <<kind, requested, guard, round, files, tables, del, busy, download, backups>>

\* The store knows no row after a restore; an error is ignored.
Update(j, status) ==
    row' \in {row} \cup IF row[j] = "none" THEN {} ELSE {[row EXCEPT ![j] = status]}

MarkRunning(j) ==
    /\ guard = j /\ pc = "marking"
    /\ Update(j, "running")
    /\ pc' = IF kind[j] = "export" THEN "opening" ELSE "evaluating"
    /\ UNCHANGED <<kind, requested, guard, round, files, cancel, report, live, gone, del, busy, download, backups>>

\* jobs/get finds the row without a request for cancellation.
GoesOn(j) == row[j] # "none" /\ j \notin cancel

\* checkpoint waits for an idle worker; then one inference and its progress.
Infer(j) ==
    /\ guard = j /\ pc = "evaluating" /\ round < Rounds
    /\ GoesOn(j) /\ busy = {}
    /\ round' = round + 1
    /\ UNCHANGED <<kind, requested, guard, pc, files, tables, del, busy, download, backups>>

\* versions/report refuses a second report on the version.
Report(j) ==
    /\ guard = j /\ pc = "evaluating" /\ round = Rounds
    /\ \/ report = Nobody /\ report' = j /\ pc' = "completed"
       \/ report # Nobody /\ report' = report /\ pc' = "failed"
    /\ UNCHANGED <<kind, requested, guard, round, files, row, cancel, live, gone, del, busy, download, backups>>

FileOf(j) == CHOOSE f \in files : f.job = j

Open(j) ==
    /\ guard = j /\ pc = "opening" /\ PrivacyFree /\ GoesOn(j)
    /\ files' = files \cup {[job |-> j, whole |-> FALSE, decisions |-> {}]}
    /\ pc' = "writing"
    /\ UNCHANGED <<kind, requested, guard, round, tables, del, busy, download, backups>>

\* One page of decisions/list is as good as another: the privacy lock is held.
WriteDecision(j) ==
    /\ guard = j /\ pc = "writing" /\ GoesOn(j)
    /\ \E d \in live \ FileOf(j).decisions :
          files' = (files \ {FileOf(j)})
                      \cup {[FileOf(j) EXCEPT !.decisions = @ \cup {d}]}
    /\ UNCHANGED <<kind, requested, task, tables, del, busy, download, backups>>

Publish(j) ==
    /\ guard = j /\ pc = "writing" /\ GoesOn(j)
    /\ FileOf(j).decisions = live
    /\ files' = (files \ {FileOf(j)}) \cup {[FileOf(j) EXCEPT !.whole = TRUE]}
    /\ pc' = "published"
    /\ UNCHANGED <<kind, requested, guard, round, tables, del, busy, download, backups>>

Complete(j) ==
    /\ guard = j /\ pc = "published" /\ GoesOn(j)
    /\ pc' = "completed"
    /\ UNCHANGED <<kind, requested, guard, round, files, tables, del, busy, download, backups>>

Working == {"evaluating", "opening"} \cup Exporting

Stop_PartialOnly(j, how) ==
    /\ guard = j /\ pc \in Working
    /\ files' = {f \in files : f.job # j \/ f.whole}
    /\ pc' = how
    /\ UNCHANGED <<kind, requested, guard, round, tables, del, busy, download, backups>>

\* The outcome is an error: an export removes its file, published or not.  That
\* a file cannot be removed is left out.
Stop(j, how) ==
    /\ guard = j /\ pc \in Working
    /\ files' = {f \in files : f.job # j}
    /\ pc' = how
    /\ UNCHANGED <<kind, requested, guard, round, tables, del, busy, download, backups>>

StopCancelled_Idle(j) ==
    /\ j \in cancel /\ row[j] # "none"
    /\ pc = "evaluating" => round < Rounds /\ busy = {}
    /\ Stop(j, "cancelled")

\* The request is seen, also while the job waits for the worker, but not after
\* the last inference.
StopCancelled(j) ==
    /\ j \in cancel /\ row[j] # "none"
    /\ pc = "evaluating" => round < Rounds
    /\ Stop(j, "cancelled")

StopMissing(j) == row[j] = "none" /\ Stop(j, "failed")

\* A call of the store or the worker fails, or a file cannot be written.
StopFailed(j) == Stop(j, "failed")

Finish_Completed(j) ==
    /\ guard = j /\ pc \in Final
    /\ Update(j, "completed")
    /\ guard' = Nobody /\ pc' = "none"
    /\ UNCHANGED <<kind, requested, round, files, cancel, report, live, gone, del, busy, download, backups>>

\* The last update may fail; the row then stays as it is.
Finish(j) ==
    /\ guard = j /\ pc \in Final
    /\ Update(j, pc)
    /\ guard' = Nobody /\ pc' = "none"
    /\ UNCHANGED <<kind, requested, round, files, cancel, report, live, gone, del, busy, download, backups>>

\* The update of a person's request for cancellation, whatever the status.
Cancel(j) ==
    /\ MayRead
    /\ row[j] # "none" /\ cancel' = cancel \cup {j}
    /\ UNCHANGED <<kind, requested, task, files, row, report, live, gone, del, busy, download, backups>>

-----------------------------------------------------------------------------
(* Those who meet it.                                                      *)

Ask(c) ==
    /\ c \notin busy /\ MayRead
    /\ busy' = busy \cup {c}
    /\ UNCHANGED <<kind, requested, task, files, tables, del, download, backups>>

\* The finish of a decision waits for the privacy lock.  The decision is new,
\* or was there already.
Answer(c) ==
    /\ c \in busy /\ PrivacyFree
    /\ busy' = busy \ {c}
    /\ \E d \in Decisions \ gone : live' = live \cup {d}
    /\ UNCHANGED <<kind, requested, task, files, row, cancel, report, gone, del, download, backups>>

\* The worker fails, recording is off, or the client leaves.
Unrecorded(c) ==
    /\ c \in busy
    /\ busy' = busy \ {c}
    /\ UNCHANGED <<kind, requested, task, files, tables, del, download, backups>>

AskDelete(d) ==
    /\ del[d] = "none"
    /\ del' = [del EXCEPT ![d] = "waiting"]
    /\ UNCHANGED <<kind, requested, task, files, tables, busy, download, backups>>

LockDelete_NoReaders(d) ==
    /\ del[d] = "waiting"
    /\ \A k \in Decisions : del[k] \in {"none", "waiting"}
    /\ del' = [del EXCEPT ![d] = "locked"]
    /\ UNCHANGED <<kind, requested, task, files, tables, busy, download, backups>>

LockDelete(d) ==
    /\ del[d] = "waiting"
    /\ \A k \in Decisions : del[k] \in {"none", "waiting"}
    /\ ~Readers
    /\ del' = [del EXCEPT ![d] = "locked"]
    /\ UNCHANGED <<kind, requested, task, files, tables, busy, download, backups>>

\* clear_exports looks for the names of whole files: a partial file's name
\* begins with a dot.
Cleared == {f \in files : ~f.whole}

ClearExports_Not(d) ==
    /\ del[d] = "locked" /\ PrivacyFree
    /\ del' = [del EXCEPT ![d] = "cleared"]
    /\ UNCHANGED <<kind, requested, task, files, tables, busy, download, backups>>

ClearExports(d) ==
    /\ del[d] = "locked" /\ PrivacyFree
    /\ files' = Cleared
    /\ del' = [del EXCEPT ![d] = "cleared"]
    /\ UNCHANGED <<kind, requested, task, tables, busy, download, backups>>

Delete(d) ==
    /\ del[d] = "cleared"
    /\ live' = live \ {d} /\ gone' = gone \cup {d}
    /\ del' = [del EXCEPT ![d] = "none"]
    /\ UNCHANGED <<kind, requested, task, files, row, cancel, report, busy, download, backups>>

\* An error, or the client leaves.
DropDelete(d) ==
    /\ del[d] # "none"
    /\ del' = [del EXCEPT ![d] = "none"]
    /\ UNCHANGED <<kind, requested, task, files, tables, busy, download, backups>>

\* The privacy lock stays with the response until the client has read the file
\* or leaves.
Download ==
    /\ PrivacyFree /\ \A d \in Decisions : del[d] \notin {"locked", "cleared"}
    /\ \E f \in files : f.whole
    /\ download' = TRUE
    /\ UNCHANGED <<kind, requested, task, files, tables, del, busy, backups>>

Downloaded ==
    /\ download /\ download' = FALSE
    /\ UNCHANGED <<kind, requested, task, files, tables, del, busy, backups>>

\* A backup of a person; or the safety archive, which a restore makes first.
BackUp(a) ==
    /\ MayRead
    /\ backups' = [backups EXCEPT ![a] = Now]
    /\ UNCHANGED <<kind, requested, task, files, tables, del, busy, download>>

Interrupted(r) ==
    [j \in Jobs |-> IF r[j] \in {"queued", "running"} THEN "interrupted" ELSE r[j]]

\* A restore asks for the lock once and is refused unless it is free; a job
\* that waits for it goes on afterwards.  When it fails after the store's
\* answer, the exports stay.
Restore(a) ==
    /\ MayRead /\ ~Readers /\ PrivacyFree
    /\ row' = Interrupted(backups[a].row)
    /\ cancel' = backups[a].cancel /\ report' = backups[a].report
    /\ live' = backups[a].live \ gone
    /\ files' \in {files, Cleared}
    /\ UNCHANGED <<kind, requested, task, gone, del, busy, download, backups>>

Crash ==
    /\ guard' = Nobody /\ pc' = "none" /\ busy' = {} /\ download' = FALSE
    /\ del' = [d \in Decisions |-> "none"]
    /\ row' = Interrupted(row)
    /\ UNCHANGED <<kind, requested, round, files, cancel, report, live, gone, backups>>

-----------------------------------------------------------------------------

\* What the task does when nothing fails.
Proceed(j) ==
    \/ Create(j) \/ MarkRunning(j)
    \/ Infer(j) \/ Report(j)
    \/ Open(j) \/ WriteDecision(j) \/ Publish(j) \/ Complete(j)
    \/ StopCancelled(j) \/ StopMissing(j)
    \/ Finish(j)

Leave(c) == Answer(c) \/ Unrecorded(c)

Deleting(d) == ClearExports(d) \/ Delete(d)

Next ==
    \/ \E j \in Jobs :
          Start(j) \/ Lock(j) \/ Proceed(j) \/ StartFails(j) \/ StopFailed(j) \/ Cancel(j)
    \/ \E c \in Callers : Ask(c) \/ Leave(c)
    \/ \E d \in Decisions : AskDelete(d) \/ LockDelete(d) \/ Deleting(d) \/ DropDelete(d)
    \/ Download
    \/ Downloaded
    \/ \E a \in Archives : BackUp(a) \/ Restore(a)
    \/ Crash

Spec == Init /\ [][Next]_vars

\* tokio polls what can go on and hands out locks first-in first-out; the
\* worker answers or fails.
Fairness ==
    /\ \A j \in Jobs : WF_vars(Proceed(j)) /\ SF_vars(Lock(j))
    /\ \A c \in Callers : WF_vars(Leave(c))
    /\ \A d \in Decisions : SF_vars(LockDelete(d)) /\ WF_vars(Deleting(d))

-----------------------------------------------------------------------------
(* Properties.                                                             *)

\* Types; the guard is held while a task runs; each job has one file, and the
\* task that writes one has it.
TypeOK ==
    /\ kind \in [Jobs -> {"evaluation", "export"}]
    /\ row \in [Jobs -> Statuses] /\ requested \subseteq Jobs /\ cancel \subseteq Jobs
    /\ guard \in Jobs \cup {Nobody} /\ pc \in Places
    /\ guard = Nobody <=> pc = "none"
    /\ round \in 0..Rounds
    /\ files \subseteq Files
    /\ \A f, g \in files : f.job = g.job => f = g
    /\ pc \in Exporting =>
          \E f \in files : f.job = guard /\ (f.whole <=> pc = "published")
    /\ report \in Jobs \cup {Nobody}
    /\ live \subseteq Decisions /\ gone \subseteq Decisions
    /\ del \in [Decisions -> {"none", "waiting", "locked", "cleared"}]
    /\ busy \subseteq Callers /\ download \in BOOLEAN
    /\ backups \in [Archives -> Tables]

\* A deleted decision is in no export that can be downloaded, whenever the
\* export was made and whichever backups were restored in between.
ExportsForget == \A f \in files : f.whole => f.decisions \cap gone = {}

\* A job that was cancelled or failed leaves neither a file nor a report.
StoppedLeavesNothing ==
    \A j \in Jobs : row[j] \in {"cancelled", "failed"} =>
        report # j /\ \A f \in files : f.job # j

\* What jobs leave behind is theirs to leave.
OnlyTrueLeft == ExportsForget /\ StoppedLeavesNothing

\* When a job says that it is completed, its export is there to be downloaded
\* with no deleted decision in it, or its report was stored.
CompletedIsThere ==
    [][\A j \in Jobs : guard = j /\ row[j] # "completed" /\ row'[j] = "completed" =>
          IF kind[j] = "export"
          THEN \E f \in files : f.job = j /\ f.whole /\ f.decisions \cap gone = {}
          ELSE report = j]_vars

\* Nobody waits for ever, unless a client reads an export for ever: a deletion
\* gets its turn, although an evaluation waits for an idle worker and agents
\* never stop asking; and a cancelled job ends, even if the worker is never
\* idle (checkpoint), unless a restore takes the request back.
WaitsEnd ==
    []<>~download =>
        /\ \A d \in Decisions : del[d] # "none" ~> del[d] = "none"
        /\ \A j \in Jobs : guard = j /\ j \in cancel ~> guard # j \/ j \notin cancel
=============================================================================
