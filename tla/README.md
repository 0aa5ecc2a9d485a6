# oh-my-laya in TLA+

oh-my-laya is a local advisor for coding agents. An agent asks `laya_tell_me`
through MCP; a Rust service (`src/crates/laya`) hands the question to one Python
process that holds the model (`src/src/laya_tell_me`), records the decision in a
SQLite database, collects feedback about it, and lets a person turn reviewed
decisions into a memory that later decisions use. Everything that is recorded
can be taken back: a case can be withdrawn, a decision deleted, a backup
restored.

These modules model the state the service keeps and the ways it changes. Each is
translated from the source; `PROJECT.json` names the lines behind every
definition. TLC checks small instances (`tlc -config X.cfg M`) and TLAPS proves
the safety properties for every value of the constants (`tlapm XProofs.tla`).

1. [The system](#the-system)
2. [The modules](#the-modules)
3. [What is checked](#what-is-checked)
4. [What is proved](#what-is-proved)
5. [Where code and documentation differ](#where-code-and-documentation-differ)
6. [What is not modelled](#what-is-not-modelled)
7. [Plan](#plan)

## The system

```
 agents ── MCP process ──┐ (mcp.rs)              person ── browser ── HTTP
   │           │         │                                              │
   │   outbox.sqlite3    └── Unix socket ──►  service (service.rs) ◄────┘
   │   (outbox.rs) ◄──────────────────────────┤     │        │
   │                                replay task     │        │
   │                                (every 10 s)    ▼        ▼
   │                                        store thread   worker task ── pipes ── Python
   │                                        (store.rs)     (worker.rs)            (worker.py)
   └─ writes the outbox itself               workbench.sqlite3, evidence/, backups/
```

Two locks of the service order most of this: `maintenance` (shared by ordinary
work, exclusive for a deletion, a restore and a stop) and `privacy` (held around
each access that reads or writes what a person may withdraw).

| component | state | operations | what makes it correct |
|---|---|---|---|
| **Learning memory** (`store.rs`, migrations) | decisions, reviews, cases, memory versions and their members and reports, the active version, backups | review, withdraw a case, delete a decision, create, report on and activate a version, backup, restore, retention | the active version can always be used; a valid version holds only current, live cases; what a person took back is nowhere and stays away, also through a restore (not so a withdrawal through two, see `WithdrawalHistory`) |
| **Decision recording** (`service.rs` predict, persist_snapshot; `outbox.rs` snapshots) | the row of a decision, queued snapshots, tombstones, the place of every request | begin and finish around an inference, replay, delete, withdraw, change of settings | a receipt is true; nothing undelivered disappears; nothing deleted returns; what was not to be recorded is not kept |
| **Inference worker** (`worker.rs`, `worker.py`) | queue of 32, the child process, the two pipes, the model lock | call, cancel, deadline, release, idle stop, crash | one model in memory; no request reads the answer of another; every call is answered |
| **Feedback** (`outbox.rs`, `mcp.rs`, `store.rs` feedback, `execution.rs`) | events in two databases, answers under way | enqueue, offer, acknowledge, fail, quarantine, retry, replay, delete | an event is stored once, after what it refers to; a first score is never replaced; an acknowledgement means it is stored |
| **Assessment reuse** (`service.rs` epoch, `assessment_cache.py`) | an epoch, a cache keyed by it in the child | predict, any change of settings, memory, preferences or feedback | a reused assessment was made with what is in force now |
| **Background jobs** (`evaluation.rs`) | the job guard, the jobs table, export files, the report | start, cancel, checkpoint, write, publish, finish | no export shows what was deleted; a stopped job leaves nothing; a completed one has its result; nobody waits for ever |
| **Evidence files** (`evidence.rs`) | files beside the database, a catalog of them, stages of a restore | create before the commit, unlink after it, sweep, archive, install | a row that names a file finds it; nothing that was taken back stays on the disk |
| **Event stream** (`store.rs` events, `service.rs` events, `App.vue`) | an event log, the cursor and batch of each stream, the last place a tab knows | append, read after a cursor, send, reconnect, reset | a tab shows every change up to the place it goes on from, and comes to know of all |
| **Service start and stop** (`service.rs`, `runtime.rs`, `main.rs`) | the lock file, the socket, the process | find or start, serve, stop, end, fail | one service per directory, which can be reached; a stop takes no work away |
| **Browser sessions** (`service.rs`) | pairing codes, sessions in memory and on disk | pair, renew, forget, expire, load | who was paired is trusted until the session lapses; who was forgotten is not, ever |
| **Run scenario summary** (`usage.rs`, `scenario.rs`, `store.rs` dashboard_summary) | none: made from the stored events at each call | select a report per attempt, a snapshot per run, exclude, add up | each token is counted once; a window agrees with the whole |
| **Pure parts** (`memory_budget.py`, `advisor.py`, `evaluation.rs` score) | none | packing, selection, scoring | the result keeps its bounds |
| **The rest** (queries, web pages, installers, importers, command line) | read-only, or run once | | |

The components meet in four places. `predict` takes the locks, reads settings
and memory from the store, calls the worker, and writes two snapshots through
the outbox. The agent's MCP process writes the outbox *without* the service, so
the outbox has two writers in two processes and only SQLite between them. A
deletion goes to the outbox first and the main database second, and may stop in
between. A restore replaces the main database and not the outbox.

What is hard here: the two databases are not one transaction; `tokio` drops a
handler, with its locks, wherever it awaits, while a `spawn_blocking` write goes
on; the replay task repeats what other tasks are doing at that moment; the
service may be killed between any two steps; and several rules about *old* data
(withdrawals, policies, receipts) meet data that a restore brought back. The
list is `hazards` in `PROJECT.json`, each with the properties that watch it.

## The modules

| module | models | extends |
|---|---|---|
| `LearningMemory` | the tables of reviews, cases and versions, with backups | |
| `WithdrawalHistory` | `LearningMemory` with a history of withdrawals | `LearningMemory` |
| `DecisionRecording` | a decision between the agent, the outbox and the store | |
| `InferenceWorker` | the queue, the task, the child and the model lock | |
| `FeedbackDelivery` | events between agents, outbox, replay task and store | |
| `AssessmentReuse` | predictions, the worker's cache, the epoch and the locks | |
| `BackgroundJobs` | evaluations and exports beside deletions, downloads, restores and agents | |
| `EvidenceTable` | what the store promises of evidence: a table whose rows carry their text | |
| `EvidenceFiles` | the files, transactions, cleanup, backups and restores behind that promise | instance of `EvidenceTable` |
| `UsageSummary` | which reports and runs the dashboard counts | |
| `ServiceLifetime` | processes that start, serve, stop and fail, and clients that look for one | |
| `Workbench` | the service with the sessions it trusts and the streams of its tabs | `ServiceLifetime` |
| `MC…` | the values of the constants for TLC | its module |
| `…Proofs` | the theorems and their proofs; `InferenceProofs` those of `AssessmentReuse` and `InferenceWorker` | its modules, `TLAPS` |

A definition named `X_Y` before a definition `X` is `X` with the mistake `Y`. No
specification uses it: it shows, by replacing `X`, that a property notices a
mistake of that kind (`mutants` in `PROJECT.json`).

### LearningMemory

The store runs one operation at a time on one thread, in one SQLite transaction,
so an operation is an action. The tables are one record `db`; `archive` is what
the backups hold; `policy` is the evaluation policy of the installed release.
Operations are functions from tables to tables (`PurgeDecisions`,
`WithdrawCases`, `Repair`, …) because `backup_restore` applies the same ones to
the tables it brings back: `Reapply`.

Abstractions. *confirmed* and *corrected* are `"completed"`, *insufficient* and
*excluded* `"rejected"`: the store treats each pair alike. A report on a version
mentions any of the cases that are live. Which of several passed versions
`repair_active_version` prefers (by time) is left open. The states *begun* and
*finished* of a decision are one. A restore is atomic: it is built beside the
database and swapped in. The files of the evidence are in `EvidenceFiles`.

### DecisionRecording

An attempt is one run of `predict`; its `pc` stands where the handler awaits.
`Enqueue` and `Deliver` are separate steps under one lock (`writer`);
`Disconnect` may drop the handler between them, and then the outbox write that
is under way lands later (`late`, `LateLands`). `ReplayStart` reads a batch and
serves it under both locks. A deletion or withdrawal is outbox first
(`DeleteOutbox`, `WithdrawOutbox`) and store second, and may fail or be dropped
in between. `Crash` loses everything but the two databases and the consent file.

Abstractions. Request, result and evidence are told apart, not spelled out. A
store call fails without effect, or after its effect (the evidence cleanup after
the commit reports an error). Which pending rows are the oldest is left open, up
to `Limit`. Reading the settings and calling the store are one step: the privacy
lock is held, and settings change only under it. When the consent file is
unreadable, what it says is the setting. Retention, restore and the epoch are
not part of this module.

### InferenceWorker

The task of `Worker::start` is a program counter over *receive, check, start,
write, read, stop, reply*; the child is `none`, `alive` or `exited`; the pipes
are the sets of requests written to it and answers it has written. `LockFree` is
the inherited `flock`: a killed service leaves an `orphan` that holds it until
it notices that its input is closed, and the terminal demo (`snake`) takes the
same lock. A deadline is a flag that may be raised at any time while a call
waits.

### FeedbackDelivery

`Send` is the MCP process writing the outbox; `Served` or `NotServed` the
service, `Settle` or `SettleFails` the answer on its way into the outbox. The
replay task is one more sender, with a batch it read earlier. `Verdicts(e)` are
the checks of `Database::feedback` in their order. `Direct` is an event that
comes without the outbox: from the workbench, or what a cancelled agent had
already sent. `DeleteOutbox`, `DeleteStore`, `Backup`, `Restore`, `Crash` as
above.

Abstractions. An event stands for a payload `validate_feedback` accepts. A group
of scores is an attempt: one reviewer role and one dimension show every rule.
`"review"` stands for tests, reviews and choices. The role of an execution is
part of its identity. When an event has several bad references, which the store
meets first is left open. The time of the next attempt and the limit of 100
events become a batch of any subset of what is queued. Recording or replay being
paused is an agent that is not served. `rolledBack` is a history variable: the
events a restore took away.

### AssessmentReuse

`Start` to `Finish` are the places where `predict` awaits: the epoch, the begin
under the privacy lock, the settings, the memory, the worker, the finish under
the lock again. A change passes the same locks and advances the epoch after it
is made (`Advance`, `Purge`) or, for preferences, on both sides of the worker's
answer (`Announce`, `Conclude`). The cache is a set of entries with their keys;
`Forget` is expiry, eviction and size together. Who holds the maintenance lock
follows from where everyone is; `privacy` is a variable.

Abstractions. All predictions ask the same question, so a key is the epoch and
the numbers of the last changes that were read. A change may change nothing that
predictions read (`Write`); that is what makes the epoch necessary. Of a
prediction that fails for any reason only that it ended remains, and a read of
settings or memory that fails is left out. A change of the workbench's
preferences takes a shared lock and a purge more than the agents' modelled here.
The preferences file is written by the worker only.

### BackgroundJobs

`Start` takes the guard of `start`; `Create` to `Finish` are the places where
the request and then its task stand: the row is inserted, the task waits for the
maintenance lock (`Lock`), marks the row, and is an evaluation (`Infer`,
`Report`) or an export (`Open`, `WriteItem`, `Publish`, `Complete`). Every step
that begins with `checkpoint` or `cancelled` has the guard `GoesOn`;
`StopCancelled`, `StopMissing` and `StopFailed` are the ways out of the outcome.
A deletion waits for the lock, clears the exports under the privacy lock, and
then deletes; `DropDelete` is its error or a client that leaves. The locks are
no variables: who has them follows from where everyone is, except that
`download` is a response that keeps the privacy lock.

`Restore` takes any of the backups. The tombstones of decisions are in the
database for good, and every restore reapplies them; that is what
`ExportsForget` rests on. It is not so for cases: a restore of a backup older
than the case forgets its withdrawal (`store.rs:848`, `WithdrawalHistory`), and
an export made after a later restore shows the case again. The module therefore
has no cases, although a withdrawal takes the same locks and clears the exports
too.

Abstractions. The place in `decisions/list` is the set of decisions already
written. The safety archive of a restore is a `BackUp` just before it. One inference
stands for a run and its progress. That a file cannot be removed, and the
retention of old jobs, are left out. A restore that fails after the store's
answer keeps the exports. Recording off, a worker that fails and a client that
leaves are one action, `Unrecorded`.

### EvidenceTable and EvidenceFiles

`EvidenceTable` is the promise: an operation changes all rows of a table or
none, a text is lost only when something outside harms it, and a restored table
has every text and nothing that the present table has taken back. The mark of a
withdrawal is in the row of the case (`CaseIn`): a deletion of the case's
decision takes it away, and a restore of a backup without the case forgets it
(`Reapplied`), as `store.rs:848` does; so nothing is promised of a withdrawal
over several restores. `EvidenceFiles` is how
`evidence.rs` and `store.rs` keep it, with texts in files that no transaction
covers: `Begin`, `Finish`, `Withdraw`, `Delete` and `Retention` open a
transaction (`draft`); `CreateFile` and `WriteFile` are `durable_create`;
`Commit` or `Fail` ends it; then `Scan`, `Remove` and `Forget` are the cleanup,
which may fail (`CleanupFails`) after the operation has succeeded.
`RestoreStart`, `Install` and `Swap` are `backup_restore`. `Crash` is possible
everywhere and loses the transaction; `Start` cleans up again. `Promise` is the
abstract specification with the table of the committed rows, their texts and the
damaged ones as the refinement mapping.

Abstractions. `backup_create` is one step: a crash inside it leaves a partial
archive that no list shows. A stage that could not be removed stays until the
next start; it is private to the restore until `Install`. Nobody changes a file
in the middle of a restore. The swap of the database file is atomic (SQLite's
backup API in one transaction). The check that a new name is not taken never
fails, for names are UUIDs. The decision of the case does not mention the case,
which is younger. The migration of inline texts of old databases, and
its backup, is not modelled.

### UsageSummary

`Arrive` and `Delete` change what is stored; everything else is what
`dashboard_summary` makes of it: `Selection` and `Recorded` are `usage.rs`,
`Included` and `Summarized` are `scenario.rs`, `Offered` is the window of
`store.rs`. The two files decide by their own rules which report of an attempt
counts; the properties say that they agree.

Abstractions. The fields of a report that the rules look at together are one
(`sound`, `whole`, `closed`), the rest is `note`. What is stored is a set: the
rules sort what they get, and of several equal reports which one speaks does not
matter. Of the exclusions it matters only whether there are any. A window is any
set of decisions. A manifest whose own segments share a stream is excluded
through `Reused`. Totals beyond 128 bits cannot be reached. Local inference and
the other figures of the dashboard are left out.

### ServiceLifetime and Workbench

A process is a program counter through `run_with_port`: *launched, locked,
cleared, bound, serving, stopping, closed, released, removed, unlocked*; the
lock belongs to the process and goes with it, the socket stays behind. A client
is `ensure_port`: it asks (`Told`, `Refused`), launches a process (`Spawn`),
polls (`Told`, `GiveUp`) and then calls (`Begin` … `Finish`), and may find that
the service has gone in between (`Missed`). `AskStop`, `Stop`, `StopRefused` are
`laya stop`.

`Workbench` adds the browser. A request stands at its check (`Check`) or at its
change of the sessions (`Remember`, `Forget`); between the two, anything may
happen, because the change waits for a lock. A stream (`Connect`, `Read`,
`Send`) has a batch it has read and the place where it is; the tab keeps the
place of the last event it handled (`last`) and connects again by itself.
`Restore` replaces the log by a copy and adds its own event. `Serves`, `Closes`
and `Fails` are the steps of the lifetime with what they do to memory, requests
and streams; all other steps of the lifetime leave these alone.

Abstractions. A request that waits for a process to accept it is one that was
not made yet. Ports and protocol versions are left out, and so is `job_guard` in
`Stop`: of the reasons to refuse a stop, the maintenance lock stands for all. A
killed process and one that ends with an error are one action, `Fail`. A session
that has expired leaves the file and the memory at once (`Lapse`). A page loads
everything when the answer arrives. An event's place in the log is its sequence
number. The deletion of backups is left out.

What the modules show beside the properties, and what is not a violation of any
documented promise: a stream opened before its session was forgotten goes on
until it breaks; a pairing code from a service that is stopping is useless; a
call that begins while the service stops may be cut, and one that is made while
the old process still has the lock may fail, for the process it launched could
not get it; and between the release of the lock and the end of the process an
old handler may overlap the new service.

## What is checked

Each line is a configuration `X.cfg`; the checked properties stand with comments
at the end of their modules.

| run | instance | states | question |
|---|---|---|---|
| `LearningMemory` | three scopes (below), 2 revisions | 530 k | is the active version usable, are valid versions and their reports fresh, evaluated versions unchanged, deletions complete; does a restore of any backup leave usable tables, and everything deleted away? |
| `InferenceWorker` | 3 requests, one a release, queue of 2, fair task | 46 k | one model, clean pipes; is every call answered, even by a child that hangs; does work stop when its caller leaves? |
| `DecisionRecording` | 2 attempts of one id, different requests, batch of 1 | 1.0 M | are receipts true, is nothing lost, does nothing deleted return? |
| `RecordingDelivery` | 2 attempts of one request, fair | 471 k | does a queued request arrive? |
| `FeedbackDelivery` | an agent and the workload that a behaviour begins with (below) | 760 k | is every acknowledgement covered by a stored event, does what is stored fit together, is nothing replaced, does a deletion take everything with it? |
| `AssessmentReuse` | 2 decisions on one question, 2 changes of any kinds, fair | 1.0 M | is a reused assessment current and of no deleted decision, and do the locks never block for good? |
| `BackgroundJobs` | four scopes (below), an agent that goes on asking, 1 round, fair | 257 k | is every file and row that is left a true one, has a completed job its result, and does neither a cancelled job nor a deletion wait for ever? |
| `EvidenceFiles` | 2 decisions, 3 texts, 3 names, 2 backups, 5 calls, 2 faults | 3.3 M | do rows find their texts, is nothing left on the disk, and do the files implement the table? |
| `UsageSummary` | any 7 of 26 events of 2 decisions, all windows | 72 k | is each token counted once, do the two selections and all windows agree, does *available* hide nothing? |
| `Workbench` | four scopes (below), fair | 177 k | is the one service reachable and found again, does a stop spare work and end, are sessions right, does no tab skip a change or wait for one for ever? |
| `FeedbackRecovery` | 1 event, 1 backup, fair | 12 k | does a ready event leave the queue, and do restores keep deletions? |

The scopes of `MCLearningMemory` are: two decisions and two versions under one
policy, without backups; one decision and two versions under two policies; and
one review of one decision and one version with two backups. The workloads of
`MCFeedbackWorkloads` are: a first score, its revision and a second first score;
an event that reuses the id of another; a dispatch and two reports of its
outcome; and a run manifest that counts the usage of two decisions.

The scopes of `MCBackgroundJobs` are: a job with two decisions that may be
deleted; two jobs, one after the other, with one decision; a job beside an agent
and one backup made at any time; and a job with two backups made at any time,
without agents and downloads. In the first two, the backups are of the first
state.

The scopes of `MCWorkbench` are: two agents, two stops and two kills (Launch);
two tabs that pair, renew and forget with a write that fails and a kill (Trust);
a tab that follows three changes, backups and restores with a connection that
breaks (Watch); and a stop with a stream that is open (End).

One more run checks a property that the code violates, `WithdrawalHistory`; see
[below](#where-code-and-documentation-differ).

### Bounds

`MaxRevision` bounds the reviews of a decision and `MaxPolicy` the releases. Two
revisions are needed for a case to be superseded, two versions for a fallback,
two policies for an incompatible report, two jobs for a second report on a
version, two backups for a restore that follows a restore (each restore keeps a
safety backup). `Limit` bounds a replay batch: 1 makes the batch leave an entry
out. Two attempts of one id are what two clients need to disagree; the worker's
queue of 2 is full before the task takes one of three requests. Three events
show every rule of the store, since each rule compares an event with at most two
others. Every process may crash, fail and be cancelled any number of times,
except where the table names a number. The fair runs use fewer actors, because
TLC explores the product with the formula. In `EvidenceFiles`, five calls after
the first decision are a backup, a deletion, a restore and a call on each side;
one backup may be made before the case is, at no cost, so that the run has
restores that forget a withdrawal and restores that scrub what a deleted case
left; of three names one stays free for a scrubbed text. In `UsageSummary`, seven
events are three snapshots of a run with the reports they name, or two runs that
collide; 120 as the largest total is passed by two reports of 110 and 20. In
`Workbench`, two services are the old one and the new one, two tokens a session
and its successor; `Batch` 2 of three events makes a stream leave one behind,
and three events are one, a backup, another, and a restore. `FeedbackDelivery` is checked without backups and
`FeedbackRecovery` with one event; that evidence stays sound when several events
meet a restore is in the proofs only. The proofs below do not depend on any of
these values.

### Fairness

* `InferenceWorker`: weak fairness of the task, because tokio polls a task that
  can go on. That time passes (`TimePasses`, weak fairness of each deadline) is the
  premise of `Answered` only. Nothing is assumed of the child, which may hang.
* `DecisionRecording`: weak fairness of a delivery and of the end of a deletion;
  strong fairness of `ReplayStart`, because tokio's locks are first-in first-out
  and the task asks every ten seconds, and of `ReplayServes`, because the queue of
  the store is not full at every attempt. Recording being left on is the premise
  of the property, not of the fairness.
* `AssessmentReuse`: weak fairness of each prediction and change that has begun:
  locks are first-in first-out, and the calls of worker and store end (the worker's
  by a deadline). Nobody has to begin, and nobody has to crash or leave.
* `Workbench`: weak fairness of every step of a client that looks for a service,
  of a process that starts or ends, of a request the service has, and of a
  stream with its browser, which connects again by itself
  (EventSource). Nobody has to call, stop, kill, load a page or change anything;
  an agent that goes on asking is the premise of `ServedAgain`, and a service again and again
  that of `ChangesArrive`.
* `FeedbackDelivery`: weak fairness of the end of a deletion and of the replay
  task's next step; strong fairness for each event of being read, offered, served
  and settled: the backoff is at most 300 seconds and the window of 100 moves on,
  and a store or outbox that refuses a call does not refuse all of them.

* `BackgroundJobs`: weak fairness of the task's next step, of the end of a
  decision and of a deletion that has the lock; strong fairness of getting the
  maintenance lock, because tokio's locks are first-in first-out. No start,
  cancellation, download or crash has to happen. That a client does not read an
  export for ever is the premise of the two properties: the response keeps the
  privacy lock as long as it lasts.

Deadlock is checked in every run but two. In `UsageSummary` nothing can arrive
once every decision is deleted, and in `Workbench` nothing happens when nobody
runs a command.

## What is proved

TLAPS checks these for every set of decisions, versions, backups, events,
attempts and requests and every bound. Every safety invariant and every action
property of a passing run is the subject of a theorem. Each is an inductive
invariant `Inv` with `Init => Inv` and `Inv /\ [Next]_vars => Inv'`, and the
properties follow.

**LearningMemory.** `Inv` says that `db` *and every backup* are typed, have a
usable active version and are `Sound`: valid versions with live members, live
cases the current judgment, nothing of deleted decisions, reports of live cases
only, and cases only for reviews that exist. The backups must be part of it, for
a restore makes one of them the database; and soundness alone is not enough
there, since the deletions made since must be applied to it: the lemmas on
`PurgeDecisions`, `WithdrawCases` and `Repair` say that each keeps the soundness
of *any* tables. `NothingEverRevived` is an action property from the same
invariant. `VersionsStayAsEvaluated` (`VersionsImmutable`) follows from a
relation between tables, `VersionsKept`: a withdrawal, a review and a deletion
take a member or a report only from a version that they invalidate, and nothing
but a restore clears that mark. That a withdrawal is *not* final over several
restores (`WithdrawalHistory`) is why `NothingRevived` speaks of one step.

**DecisionRecording.** `Inv` is `TypeOK` with: a decision without a row has no
request (`NoGhosts`); a decision being deleted has its tombstone; the tombstones
hold; receipts are honest; who holds the lock is writing, and its result is safe
when it writes the second snapshot (`HolderWrites`); and an acknowledgement that
is still to be made was earned (`AcksEarned`), which covers the late outbox
write of a handler that is gone. The relation `Keeping` between two states - a
row never loses what it has, a snapshot leaves the outbox only into the store or
by deletion - holds of every step, and both the action properties and the
preservation of the receipts come from it.

**FeedbackDelivery.** The tables of the main database *and of every backup* are
sound by themselves (`TableOK`): ids are unique, any two events of an attempt
agree, what an event refers to is there and fits, and no event is of a decision
that is not begun. The store accepts an event only if the tables stay so
(`AddSound`), which needs the order of arrival nowhere: a later event is
compared with all that are stored. `Purged` keeps them so for *any* deletions,
because in sound tables a run manifest names the decision of each event it
refers to; hence a restore may purge a backup with the deletions of the present.
For `ReceiptsHonest`, `Inv` says that the answer a sender holds is true as long
as it holds it (`SendersHonest`), through the deletions and restores between the
answer and the moment it is written down; that nothing of a deleted decision
waits in the outbox (`EntriesClean`); and that a deletion has its tombstone
before its second step (`DeletionMarked`), so that what that step takes from the
store counts as deleted.

**AssessmentReuse.** `Inv` orders reads and changes by the epoch: no epoch is
from the future, and what a prediction has read at the *current* epoch holds
every change that has been counted (`ReadsFresh`, `PreferencesFresh`). A change
that is counted advances the epoch, and then no prediction is at it; a
prediction that starts later reads after the change. `DeletedBehind` says the
same of the assessments of deleted decisions: they are in the cache, or in the
hands of a prediction, only with older epochs. Since a reuse is answered only at
the current epoch, both halves of `ReuseIsCurrent` follow. The locks are not
needed; they matter to `EverythingEnds`.

**InferenceWorker.** `Inv` adds to the two properties where the task is
(`TaskState`: it has a request except in *receive*, starts a child when there is
none, and talks to one that exists) and what the pipes hold (`PipeState`: a
request is not in both, and nothing is in them without a child).

**BackgroundJobs.** `Inv` says that a job with the lock and a deletion with the
lock exclude each other and that a deletion in its last step sees no whole file
(`Excluded`); that a file being written holds live items only (`Written`); and
what each row means (`RowsTrue`, `FreshJobs`, `TaskTrue`, `ResultThere`). The
rows of every backup are part of it, for a restore brings them back, and so is
that an id is never used twice: only then is an old row not about the file of a
later job.

**EvidenceFiles.** A name is made for one row and never again (`Made`), so a
file that a restore installs cannot hurt a row that has its name, and a file
that a transaction creates is nobody's. The cleanup looks only at committed
rows, after the transaction (`Cleaned`). For `ImplementsTable`, what a
transaction has written and still has to write is at each step one of the
changes of the table (`Goal`), and a stage is the table it was made of with
everything taken back that the present table has (`StagedRight`), except for the
mark of a withdrawal where the backup has no case; every other step maps to a repair, a harm
or a stutter.

**UsageSummary.** A snapshot has every identity, attempt and stream of those it
supersedes, so what collides with an old snapshot collides with the latest of
its run, and there is a latest one, because fewer and fewer supersede it
(`LatestAbove`, by well-founded induction). Hence what collides with a run that
is counted is superseded by it, and lies in the window if the run does
(`WindowsAlwaysAgree`); what one module selects the other does
(`EachCountedOnce`, `AvailableAlwaysAll`). `WindowsAgree` has the premise that
the snapshots of a run have one mode: `scenario.rs:156` does not compare it.
`Sound` says that what a run names is stored: each segment has its report, of
its own attempt (`NamesAlwaysStored`). That a run leaves the estimate only for
evidence against it (`OnlyEvidenceEverDrops`) needs it: a report that arrives
can concern a run only by what the run names, and a deletion takes the run with
what it names. The figures (`FiguresAlwaysRight`) are sums, defined by a
recursive function over sets. That there is exactly one such function and that
it does not depend on the order (`ChosenExists`, `SumUnique`) is proved by the
smallest set without it; then sums are joined and compared element by element
(`SumUnion`, `SumMonotonic`). The tokens of the counted runs are a sum over
segments, of which no two have the same report, and these reports are among
those the total adds up. The loop over the stages, a fold, yields the sums over
stages and over pairs of stages that the assumptions of a scenario speak of
(`FoldIsSums`), and the integer division rounds them to the nearest token
(`Rounded`).

**Workbench.** A process past the lock has it (`Locked`), so what it finds and
leaves at the socket is its own; who works when the service stops is late
(`Working`). A token is new when it is paired and no tab or cookie has it yet
(`Pairings`), so nobody can have forgotten it, and what is written to the file
is made of what the memory holds (`Known`). A stream is where its page is
(`Following`), and what it has read is what the log has next (`Current`), unless
a restore took such a place back: `NothingEverSkipped`. `ImplementsLifetime`
says that the composition is a lifetime of its service: every step is one of
`ServiceLifetime` or leaves it alone.

The types of every module are proved, and those of `FeedbackDelivery`
model-checked too. So are `TombstonesAlwaysHold`, `BackupsAlwaysComplete` and
`NamesAlwaysStored`, which no run checks.

The assumptions of the theorems are those the modules state of their constants
(distinct names, natural bounds); TLC evaluates them in every run.

Liveness (`Answered`, `CancelledWorkStops`, `RequestsDelivered`,
`QueuedSettles`, `EverythingEnds`, `WaitsEnd`, `ServedAgain`, `StopEnds`,
`ChangesArrive`) stays with TLC, for the prover has no rules for `ENABLED`. No
module declares recursive operators; the folds and sums are functions on finite
sets, and what is proved of them uses a smallest counterexample instead of an
induction theorem, which the provers cannot instantiate.

## Where code and documentation differ

One run expects a violation, with the quotation and the lines in `findings` of
`PROJECT.json`: `WithdrawalHistory`. Restoring a backup older than a case
forgets that the case was withdrawn; restoring a later backup brings it back
into use.

A contract disagrees with the code and with the README of the repository:
`contracts/workbench-api.md:10` says that sessions last eight hours and do not
persist across service restarts. The code keeps them in `browser-sessions.json`,
reads them when the service starts (`load_browser_sessions`, `service.rs:19`) and
lets them last 30 days (`BROWSER_SESSION_SECONDS`, `service.rs:11`), as
`README.md:131` says. `Workbench` follows the code, and the half of
`SessionsRight` that is `TrustSurvives` is what the README promises: it would be
wrong of a service that kept to the contract.

More weaknesses are visible in the modules and listed among the hazards:

* When recording is turned on during an inference, the client is told *not
  recorded* and the result stays in the outbox (`service.rs:167`).
* The outbox write of a client that left may land after a withdrawal and keep the
  text of the withdrawn case (`service.rs:160`; `contracts/workbench-api.md:132` says
  that a withdrawal clears it).
* An export that is killed leaves a partial file whose name `clear_exports` does
  not match (`service.rs:600`); deletions leave it where it is.
* The repair of the active version may activate one whose report is of an older
  policy.
* After a restore, the outbox goes on to answer *stored* for events the main
  database no longer has.
* A result whose first snapshot could not be queued, or that the store refuses, is
  replayed for ever, and 32 such rows keep all others waiting.
* An event that reaches the store before the record of its decision is
  quarantined for good.
* A tab whose place a restore has taken back is told to reset only if it asks
  before new events pass its place, or never if the backup is of a history that
  is as long (`store.rs:751`).

## What is not modelled

`PROJECT.json` lists every component with its status. Left out for good:
read-only queries (`activity.rs`, `efficiency.rs`), presentation, argument
parsing, release tools, and what the model computes. Inside the modelled parts:
the contents of texts, redaction (a text is either shown or scrubbed), sizes and
their limits except where a bound is a property, the retention of old snapshots
outside `LearningMemory`, and errors of SQLite that are neither "nothing
happened" nor "it happened and the answer was lost". The packing of the prompt
(`memory_budget.py`), the advisor's selection and the score of an evaluation are
loops over one list in one thread, where a unit test reaches every case. The
installer (`runtime_install.py` and its neighbours) runs other programs once for
a person who sees it fail.

## Plan

What could follow, the most useful first:

1. The starvation of a replay batch by rows the store refuses for ever, in
   `DecisionRecording`, and there the retention and restore of a recorded decision.
2. The steps inside `backup_create`, and a change of the files in the middle of a
   restore, in `EvidenceFiles`.
3. The launcher and skill replacement of the installer.
