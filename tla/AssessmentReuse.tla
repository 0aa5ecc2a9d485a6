-------------------------- MODULE AssessmentReuse ---------------------------
(***************************************************************************)
(* The reuse of assessments: predict in crates/laya/src/service.rs, the    *)
(* cache in src/laya_tell_me/assessment_cache.py, and the changes that     *)
(* must end a reuse.  The service counts an epoch.  A prediction reads it, *)
(* then its settings and its memory, and asks the worker, which answers    *)
(* from its cache if it has computed the same inputs at the same epoch     *)
(* before.  An answer from the cache is refused if the epoch has moved.    *)
(*                                                                         *)
(* All predictions ask the same question.  What the store holds and what   *)
(* the preferences say are the numbers of the last change to them.  Writes *)
(* that change no input (a new version, a job, a backup) only advance the  *)
(* epoch and are left out.  A restore is a change that excludes everything *)
(* else, like a deletion.  Preferences are changed as agents change them;  *)
(* the workbench also reads the maintenance lock and ends with a purge.    *)
(* X_Y is X with the mistake Y, as elsewhere.                              *)
(***************************************************************************)
EXTENDS Integers

CONSTANTS
    Predictions,   \* the decisions asked for, each once
    Changes,       \* what people and agents change, each once
    Nobody         \* no holder of a lock, no source, no target

ASSUME NobodyAssumption == Nobody \notin Predictions \cup Changes

VARIABLES
    epoch,      \* App::assessment_epoch
    privacy,    \* who holds App::privacy between two steps
    store,      \* the last change of settings or memory
    prefs,      \* the last change of the preferences file
    cache,      \* the worker's assessments: their key and the decision they are of
    pc,         \* where each prediction is
    seen,       \* what each prediction read
    source,     \* the decision whose assessment it reuses
    at,         \* where each change is
    kind,       \* what it changes
    version,    \* the number of the change it made, 0 for none
    target      \* the decision it deletes

predicting == <<pc, seen, source>>
changing == <<at, kind, version, target>>
vars == <<epoch, privacy, store, prefs, cache, predicting, changing>>

\* "memory" is a change of settings, a review or an activation; "exclusive" a
\* deletion or a restore.
Kinds == {"memory", "feedback", "preferences", "exclusive"}

Inputs == [epoch : Nat, settings : Nat, memory : Nat, prefs : Nat]
Nothing == [epoch |-> 0, settings |-> 0, memory |-> 0, prefs |-> 0]

Running == {"begun", "recorded", "configured", "ready", "inferred"}
Ended == {"answered", "failed"}
Busy == {"entered", "committed", "advanced", "announced", "applied"}

Init ==
    /\ epoch = 0 /\ privacy = Nobody /\ store = 0 /\ prefs = 0 /\ cache = {}
    /\ pc = [p \in Predictions |-> "idle"]
    /\ seen = [p \in Predictions |-> Nothing]
    /\ source = [p \in Predictions |-> Nobody]
    /\ at = [c \in Changes |-> "idle"]
    /\ kind \in [Changes -> Kinds]
    /\ version = [c \in Changes |-> 0]
    /\ target = [c \in Changes |-> Nobody]

-----------------------------------------------------------------------------
(* The maintenance lock, as who is where: tokio hands it out in the order  *)
(* of the requests, so a writer that waits keeps new readers out.          *)

Exclusive(where) == {c \in Changes : kind[c] = "exclusive" /\ at[c] \in where}

MayRead == Exclusive({"entered", "committed"}) = {}

Readers ==
    {p \in Predictions : pc[p] \in Running}
    \cup {c \in Changes : kind[c] \in {"memory", "feedback"} /\ at[c] \in Busy}

-----------------------------------------------------------------------------
(* Predictions.                                                            *)

Start(p) ==
    /\ pc[p] = "idle"
    /\ MayRead
    /\ pc' = [pc EXCEPT ![p] = "begun"]
    /\ seen' = [seen EXCEPT ![p].epoch = epoch]
    /\ UNCHANGED <<epoch, privacy, store, prefs, cache, source, changing>>

\* persist_snapshot of the beginning waits for the privacy lock.
Record(p) ==
    /\ pc[p] = "begun"
    /\ privacy = Nobody
    /\ pc' = [pc EXCEPT ![p] = "recorded"]
    /\ UNCHANGED <<epoch, privacy, store, prefs, cache, seen, source, changing>>

ReadSettings(p) ==
    /\ pc[p] = "recorded"
    /\ pc' = [pc EXCEPT ![p] = "configured"]
    /\ seen' = [seen EXCEPT ![p].settings = store]
    /\ UNCHANGED <<epoch, privacy, store, prefs, cache, source, changing>>

RetrieveMemory_EpochToo(p) ==
    /\ pc[p] = "configured"
    /\ pc' = [pc EXCEPT ![p] = "ready"]
    /\ seen' = [seen EXCEPT ![p].memory = store, ![p].epoch = epoch]
    /\ UNCHANGED <<epoch, privacy, store, prefs, cache, source, changing>>

RetrieveMemory(p) ==
    /\ pc[p] = "configured"
    /\ pc' = [pc EXCEPT ![p] = "ready"]
    /\ seen' = [seen EXCEPT ![p].memory = store]
    /\ UNCHANGED <<epoch, privacy, store, prefs, cache, source, changing>>

\* assessment_key: everything the assessment depends on, with the epoch.
Key(p) == [seen[p] EXCEPT !.prefs = prefs]

\* The worker has the assessment: _predict with a cached result.
InferHit(p) ==
    /\ pc[p] = "ready"
    /\ \E e \in cache :
          /\ e.key = Key(p)
          /\ source' = [source EXCEPT ![p] = e.of]
    /\ seen' = [seen EXCEPT ![p] = Key(p)]
    /\ pc' = [pc EXCEPT ![p] = "inferred"]
    /\ UNCHANGED <<epoch, privacy, store, prefs, cache, changing>>

\* The worker computes it and keeps it.
InferMiss(p) ==
    /\ pc[p] = "ready"
    /\ \A e \in cache : e.key # Key(p)
    /\ cache' = cache \cup {[key |-> Key(p), of |-> p]}
    /\ seen' = [seen EXCEPT ![p] = Key(p)]
    /\ pc' = [pc EXCEPT ![p] = "inferred"]
    /\ UNCHANGED <<epoch, privacy, store, prefs, source, changing>>

\* What a prediction read goes with it.
End(p, how) ==
    /\ pc' = [pc EXCEPT ![p] = how]
    /\ seen' = [seen EXCEPT ![p] = Nothing]
    /\ source' = [source EXCEPT ![p] = Nobody]

\* The worker's error is recorded as the end of the decision.
InferFails(p) ==
    /\ pc[p] = "ready"
    /\ End(p, "failed")
    /\ UNCHANGED <<epoch, privacy, store, prefs, cache, changing>>

Stale_Never(p) == FALSE

Stale(p) == source[p] # Nobody /\ seen[p].epoch # epoch

\* persist_snapshot under the privacy lock, and the answer.  A stale reuse is
\* an error, to the client and in the record.
Finish(p) ==
    /\ pc[p] = "inferred"
    /\ privacy = Nobody
    /\ End(p, IF Stale(p) THEN "failed" ELSE "answered")
    /\ UNCHANGED <<epoch, privacy, store, prefs, cache, changing>>

\* The client leaves and tokio drops the handler where it waits.
Leave(p) ==
    /\ pc[p] \in Running
    /\ End(p, "failed")
    /\ UNCHANGED <<epoch, privacy, store, prefs, cache, changing>>

\* An assessment expires, is evicted or was too large to keep.
Forget(e) ==
    /\ cache' = cache \ {e}
    /\ UNCHANGED <<epoch, privacy, store, prefs, predicting, changing>>

\* The child ends: idle, failed, or killed with the work of a client that left.
ChildStops ==
    /\ cache # {} /\ cache' = {}
    /\ UNCHANGED <<epoch, privacy, store, prefs, predicting, changing>>

-----------------------------------------------------------------------------
(* Changes.                                                                *)

Step(c, where) == at' = [at EXCEPT ![c] = where]

\* A request arrives and, where the code shares the maintenance lock, gets it:
\* in api_write, for feedback in App::feedback.  An exclusive one waits for the
\* lock from here on.
Enter(c) ==
    /\ at[c] = "idle"
    /\ kind[c] \in {"memory", "feedback"} => MayRead
    /\ Step(c, "entered")
    /\ UNCHANGED <<epoch, privacy, store, prefs, cache, predicting, kind, version, target>>

\* The store makes the change, perhaps to nothing that predictions read.
Write(c) ==
    /\ store' \in {store, store + 1}
    /\ version' = [version EXCEPT ![c] = store']

Allowed_SharedTwice(c) ==
    /\ privacy = Nobody
    /\ kind[c] = "feedback" => MayRead
    /\ kind[c] = "exclusive" => Readers \cup Exclusive({"committed"}) = {}

Allowed(c) ==
    /\ privacy = Nobody
    /\ kind[c] = "exclusive" => Readers \cup Exclusive({"committed"}) = {}

\* What may be deleted: a decision that began and is not being made.
Targets(c) ==
    IF kind[c] = "exclusive"
    THEN {p \in Predictions : pc[p] \in Ended} \cup {Nobody}
    ELSE {Nobody}

\* The store's answer arrives with the privacy lock still held.
Commit(c) ==
    /\ at[c] = "entered" /\ kind[c] # "preferences"
    /\ Allowed(c)
    /\ Step(c, "committed")
    /\ privacy' = c
    /\ Write(c)
    /\ target' \in {[target EXCEPT ![c] = p] : p \in Targets(c)}
    /\ UNCHANGED <<epoch, prefs, cache, predicting, kind>>

\* The store refuses; nothing has changed.
Refused(c) ==
    /\ at[c] = "entered" /\ kind[c] # "preferences"
    /\ Allowed(c)
    /\ Step(c, "lost")
    /\ UNCHANGED <<epoch, privacy, store, prefs, cache, predicting, kind, version, target>>

\* The handler is dropped while the store still has its call to make.
Orphaned(c) ==
    /\ at[c] = "entered" /\ kind[c] # "preferences"
    /\ Allowed(c)
    /\ Step(c, "orphan")
    /\ UNCHANGED <<epoch, privacy, store, prefs, cache, predicting, kind, version, target>>

OrphanCommit(c) ==
    /\ at[c] = "orphan"
    /\ Step(c, "lost")
    /\ Write(c)
    /\ UNCHANGED <<epoch, privacy, prefs, cache, predicting, kind, target>>

\* invalidate_assessments in the scope of the lock.  Feedback is done.
Advance(c) ==
    /\ at[c] = "committed" /\ kind[c] \in {"memory", "feedback"}
    /\ Step(c, IF kind[c] = "memory" THEN "advanced" ELSE "done")
    /\ epoch' = epoch + 1
    /\ privacy' = Nobody
    /\ UNCHANGED <<store, prefs, cache, predicting, kind, version, target>>

Purge_CacheOnly(c) ==
    /\ \/ at[c] = "advanced" /\ UNCHANGED privacy
       \/ at[c] = "committed" /\ kind[c] = "exclusive" /\ privacy' = Nobody
    /\ Step(c, "done")
    /\ cache' \in {cache, {}}
    /\ UNCHANGED <<epoch, store, prefs, predicting, kind, version, target>>

\* invalidate_assessments(true), after the lock of a memory change and inside
\* the locks of an exclusive one.  The worker may be unable to clear.
Purge(c) ==
    /\ \/ at[c] = "advanced" /\ UNCHANGED privacy
       \/ at[c] = "committed" /\ kind[c] = "exclusive" /\ privacy' = Nobody
    /\ Step(c, "done")
    /\ epoch' = epoch + 1
    /\ cache' \in {cache, {}}
    /\ UNCHANGED <<store, prefs, predicting, kind, version, target>>

\* A change of preferences advances the epoch before and after the worker has
\* made it, and holds no lock meanwhile.
Announce(c) ==
    /\ at[c] = "entered" /\ kind[c] = "preferences"
    /\ privacy = Nobody
    /\ Step(c, "announced")
    /\ epoch' = epoch + 1
    /\ UNCHANGED <<privacy, store, prefs, cache, predicting, kind, version, target>>

\* The worker writes the file and clears its cache, or fails.
Apply(c) ==
    /\ at[c] = "announced"
    /\ Step(c, "applied")
    /\ \/ /\ prefs' = prefs + 1
          /\ version' = [version EXCEPT ![c] = prefs + 1]
          /\ cache' = {}
       \/ UNCHANGED <<prefs, version, cache>>
    /\ UNCHANGED <<epoch, privacy, store, predicting, kind, target>>

Conclude_Unannounced(c) ==
    /\ at[c] = "applied"
    /\ privacy = Nobody
    /\ Step(c, "done")
    /\ UNCHANGED <<epoch, privacy, store, prefs, cache, predicting, kind, version, target>>

Conclude(c) ==
    /\ at[c] = "applied"
    /\ privacy = Nobody
    /\ Step(c, "done")
    /\ epoch' = epoch + 1
    /\ UNCHANGED <<privacy, store, prefs, cache, predicting, kind, version, target>>

\* An error after the change, or a client that left: no one is told that the
\* change was made, and what was to follow is not done.
Drop(c) ==
    /\ at[c] \in Busy
    /\ Step(c, "lost")
    /\ privacy' = IF privacy = c THEN Nobody ELSE privacy
    /\ UNCHANGED <<epoch, store, prefs, cache, predicting, kind, version, target>>

\* The service is killed; the next one counts from 0 with a new child.
Crash ==
    /\ epoch' = 0 /\ privacy' = Nobody /\ cache' = {}
    /\ pc' = [p \in Predictions |-> IF pc[p] \in Running THEN "failed" ELSE pc[p]]
    /\ seen' = [p \in Predictions |-> Nothing]
    /\ source' = [p \in Predictions |-> Nobody]
    /\ at' = [c \in Changes |->
                IF at[c] \in Busy \cup {"orphan"} THEN "lost" ELSE at[c]]
    /\ UNCHANGED <<store, prefs, kind, version, target>>

-----------------------------------------------------------------------------

Predict(p) ==
    \/ Start(p) \/ Record(p) \/ ReadSettings(p) \/ RetrieveMemory(p)
    \/ InferHit(p) \/ InferMiss(p) \/ InferFails(p) \/ Finish(p)

Change(c) ==
    \/ Commit(c) \/ Refused(c) \/ Advance(c) \/ Purge(c)
    \/ Announce(c) \/ Apply(c) \/ Conclude(c)

Next ==
    \/ \E p \in Predictions : Predict(p) \/ Leave(p)
    \/ \E c \in Changes :
          Enter(c) \/ Change(c) \/ Orphaned(c) \/ OrphanCommit(c) \/ Drop(c)
    \/ \E e \in cache : Forget(e)
    \/ ChildStops
    \/ Crash

Spec == Init /\ [][Next]_vars

\* tokio polls what can go on, a lock goes to who has waited longest, and a
\* call of the worker or the store ends.
Fairness ==
    /\ \A p \in Predictions : WF_vars(Predict(p))
    /\ \A c \in Changes : WF_vars(Change(c))

FairSpec == Spec /\ Fairness

-----------------------------------------------------------------------------
(* Properties.                                                             *)

\* Types, and the privacy lock is held by the change that is inside it.
TypeOK ==
    /\ epoch \in Nat /\ store \in Nat /\ prefs \in Nat
    /\ privacy \in Changes \cup {Nobody}
    /\ \A c \in Changes : privacy = c <=> at[c] = "committed"
    /\ cache \subseteq [key : Inputs, of : Predictions]
    /\ pc \in [Predictions -> {"idle"} \cup Running \cup Ended]
    /\ seen \in [Predictions -> Inputs]
    /\ source \in [Predictions -> Predictions \cup {Nobody}]
    /\ at \in [Changes -> {"idle", "orphan", "lost", "done"} \cup Busy]
    /\ kind \in [Changes -> Kinds]
    /\ version \in [Changes -> Nat]
    /\ target \in [Changes -> Predictions \cup {Nobody}]

Acknowledged == {c \in Changes : at[c] = "done"}

\* What p was answered with is no older than what the change c made.
Includes(p, c) ==
    IF kind[c] = "preferences"
    THEN seen[p].prefs >= version[c]
    ELSE seen[p].settings >= version[c] /\ seen[p].memory >= version[c]

Reuses(p) ==
    pc[p] = "inferred" /\ pc'[p] = "answered" /\ source[p] # Nobody

\* Once someone has been told that a change was made, no client is answered
\* with a reused assessment that was made without it, nor with that of a
\* deleted decision, however the prediction, the change, the clearing of the
\* cache and the failures interleave, and even if the worker kept it.
ReuseIsCurrent ==
    [][\A p \in Predictions, c \in Acknowledged :
          Reuses(p) => Includes(p, c) /\ source[p] # target[c]]_vars

\* The two locks are never waited for in a circle: whoever has begun ends.
EverythingEnds ==
    <>[](/\ \A p \in Predictions : pc[p] \notin Running
         /\ \A c \in Changes : at[c] \notin Busy)
=============================================================================
