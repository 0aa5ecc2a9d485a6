---------------------------- MODULE UsageSummary -----------------------------
(***************************************************************************)
(* The tokens on the dashboard: which usage reports are counted (usage.rs) *)
(* and which runs enter the estimate of what was saved (scenario.rs), both *)
(* asked for by dashboard_summary in store.rs for the decisions created in *)
(* a window of time.                                                       *)
(*                                                                         *)
(* Reports and run manifests are stored for ever, in any order, repeated,  *)
(* superseded and contradicted by later ones, and leave only with a        *)
(* deleted decision.  Nothing is kept of earlier answers: each summary is  *)
(* made from what is stored, and every restriction is decided anew.        *)
(*                                                                         *)
(* A definition named X_Y before a definition X is X with the mistake Y;   *)
(* no specification uses it.                                               *)
(***************************************************************************)
EXTENDS Integers, FiniteSets, SequencesExt

CONSTANTS
    Events,            \* usage reports and run manifests agents may send
    Decisions, Attempts, Ids, UsageStreams, Runs, Roots, Configs,
    LifecycleRuns,     \* run ids that begin with "codex-lifecycle:"
    LifecycleConfigs,  \* scenarios whose source names lifecycle-snapshot-v1
    MaxSafe,           \* the largest total, 2^53 - 1 in the code
    MaxEvents,         \* bound on what is stored
    Nothing            \* no value

Tokens == Nat \cup {Nothing}

\* A report: sound when its source is verified and overlaps no other, whole
\* when its scope is the attempt, closed when it names its checkpoint and its
\* parts add up; note is what a reader of the total does not look at.
Usage ==
    [kind : {"usage"}, id : Ids, decision : Decisions, attempt : Attempts,
     stream : UsageStreams \cup {Nothing}, sequence : Nat, tokens : Tokens,
     sound : BOOLEAN, whole : BOOLEAN, closed : BOOLEAN, note : BOOLEAN]

Stage == [growth : Nat, output : Nat, passes : Nat]
Scenario == [config : Configs, initial : Nat, stages : Seq(Stage)]
Segment == [decision : Decisions, attempt : Attempts, usage : Ids]

Owner(x) == <<x.decision, x.attempt>>

\* A run manifest, as validate_run_manifest_payload accepts it.
Manifest ==
    [kind : {"run_manifest"}, id : Ids, decision : Decisions, run : Runs, root : Roots,
     laya : BOOLEAN, metered : BOOLEAN, complete : BOOLEAN,
     scenario : Scenario \cup {Nothing}, segments : SUBSET Segment]

Anchored(m) ==
    /\ \E s \in m.segments : s.decision = m.decision
    /\ \A s, t \in m.segments :
          Owner(s) = Owner(t) \/ s.usage = t.usage => s = t

ASSUME EventsAssumption ==
    /\ Events \subseteq Usage \cup Manifest
    /\ \A e \in Events : e.kind = "run_manifest" => Anchored(e)
ASSUME BoundsAssumption == MaxSafe \in Nat /\ MaxEvents \in Nat
ASSUME NamesAssumption ==
    /\ Nothing \notin UsageStreams /\ Nothing \notin Scenario /\ Nothing \notin Nat

VARIABLES
    stored,   \* the usages and manifests of feedback_events
    deleted   \* decisions with deleted_at

vars == <<stored, deleted>>

Usages == {e \in stored : e.kind = "usage"}
Manifests == {e \in stored : e.kind = "run_manifest"}

TypeOK ==
    /\ stored \subseteq Events
    /\ deleted \subseteq Decisions
    /\ \A e, f \in stored : e.id = f.id => e = f

Init == stored = {} /\ deleted = {}

-----------------------------------------------------------------------------
(* The reports of an attempt (usage::select).                              *)

\* The same payload, and the same but for what a legacy report leaves open.
Repeats(u, v) == [u EXCEPT !.id = v.id] = v
SameSignature(u, v) == [u EXCEPT !.id = v.id, !.note = v.note] = v

Ordered(G) == {u \in G : u.stream # Nothing}
Legacy(G) == {u \in G : u.stream = Nothing /\ u.whole}
Newest(G) == {u \in Ordered(G) : \A v \in Ordered(G) : v.sequence <= u.sequence}
Conflicting(G) ==
    \E u, v \in Ordered(G) : u.sequence = v.sequence /\ ~Repeats(u, v)

\* exclusion_reason gives no reason.
Usable(u) == u.sound /\ u.whole /\ u.tokens # Nothing

\* The reports agree on which of them speaks for the attempt.
Settled(G, reused) ==
    IF Ordered(G) # {}
    THEN /\ Legacy(G) = {}
         /\ \A u, v \in Ordered(G) : u.stream = v.stream
         /\ \A u \in Ordered(G) : u.stream \notin reused
         /\ ~Conflicting(G)
    ELSE Legacy(G) # {} /\ \A u, v \in Legacy(G) : SameSignature(u, v)

Speakers(G) == IF Ordered(G) # {} THEN Newest(G) ELSE Legacy(G)

\* One of these is the report, and these are counted as excluded.
Selection(G, reused) == {u \in Speakers(G) : Settled(G, reused) /\ Usable(u)}

Exclusions_UsableOnly(G, reused) ==
    IF Settled(G, reused) THEN {u \in Speakers(G) : ~Usable(u)}
                          ELSE Ordered(G) \cup Legacy(G)

Exclusions(G, reused) ==
    (G \ (Ordered(G) \cup Legacy(G)))
        \cup IF Settled(G, reused) THEN {u \in Speakers(G) : ~Usable(u)}
                                   ELSE Ordered(G) \cup Legacy(G)

\* Streams that two attempts use, and the reports of an attempt.
Reused(U) == {u.stream : u \in {u \in U : \E v \in U : /\ u.stream = v.stream
                                                       /\ u.stream # Nothing
                                                       /\ Owner(u) # Owner(v)}}
Group(U, o) == {u \in U : Owner(u) = o}
OwnersIn(U, W) == {Owner(u) : u \in {u \in U : u.decision \in W}}

\* recorded_total and aggregation_status.
Recorded(U, W) ==
    LET Select(o) == Selection(Group(U, o), Reused(U))
        counted == {o \in OwnersIn(U, W) : Select(o) # {}}
        sum == MapThenSumSet(LAMBDA o : (CHOOSE u \in Select(o) : TRUE).tokens, counted)
        excluded == UNION {Exclusions(Group(U, o), Reused(U)) : o \in OwnersIn(U, W)}
    IN  [total |-> IF counted = {} \/ sum > MaxSafe THEN Nothing ELSE sum,
         counted |-> counted,
         status |-> IF sum > MaxSafe THEN "overflow"
                    ELSE IF counted = {} THEN "unavailable"
                    ELSE IF excluded # {} THEN "partial" ELSE "available"]

-----------------------------------------------------------------------------
(* The runs of the estimate (scenario::summarize).                         *)

Eligible(u) == Usable(u) /\ u.closed

\* The usage a segment names; manifest_streams looks for the event id alone.
Named(U, s) == {u \in U : u.id = s.usage /\ Owner(u) = Owner(s)}
StreamsOf(U, m) == {u.stream : u \in {u \in U : \E s \in m.segments : u.id = s.usage}}
                    \ {Nothing}
OwnersOf(m) == {Owner(s) : s \in m.segments}

\* sequences: one of the snapshots a lifecycle hook takes of a run.
Snapshot(U, m) ==
    /\ m.scenario # Nothing /\ m.scenario.config \in LifecycleConfigs
    /\ m.run \in LifecycleRuns
    /\ \A s \in m.segments : \E u \in Named(U, s) : Eligible(u) /\ u.stream # Nothing

Covers(U, n, m) ==
    \A s \in m.segments : \E t \in n.segments :
        /\ Owner(s) = Owner(t)
        /\ \E u \in Named(U, s), v \in Named(U, t) :
              u.stream = v.stream /\ u.sequence <= v.sequence

Grows_Everywhere(U, n, m) ==
    \A t \in n.segments : \A s \in m.segments : Owner(s) = Owner(t) =>
        \A u \in Named(U, s), v \in Named(U, t) : u.sequence < v.sequence

\* An attempt more, or a later report of one.
Grows(U, n, m) ==
    \E t \in n.segments : \A s \in m.segments : Owner(s) = Owner(t) =>
        \A u \in Named(U, s), v \in Named(U, t) : u.sequence < v.sequence

Supersedes(U, n, m) ==
    /\ Snapshot(U, n) /\ Snapshot(U, m)
    /\ n.run = m.run /\ n.root = m.root /\ n.scenario.config = m.scenario.config
    /\ Covers(U, n, m) /\ Grows(U, n, m)

\* latest_lifecycle_snapshots
Latest(U, M) == {m \in M : \A n \in M : ~Supersedes(U, n, m)}

Collides_SameRun(U, m, n) ==
    \/ m.run = n.run \/ m.root = n.root
    \/ StreamsOf(U, m) \cap StreamsOf(U, n) # {}

\* raw_manifest_collisions, raw_manifest_stream_collisions, manifest_collides
Collides(U, m, n) ==
    \/ m.run = n.run \/ m.root = n.root
    \/ OwnersOf(m) \cap OwnersOf(n) # {}
    \/ StreamsOf(U, m) \cap StreamsOf(U, n) # {}

Candidate(m) == m.laya /\ m.metered /\ m.scenario # Nothing

\* selected_report: of all the reports, also those outside the window.
SelectedReport_AnyNewest(u, G) ==
    IF Ordered(G) # {} THEN \E v \in Newest(G) : Repeats(u, v)
    ELSE \A v \in Legacy(G) : SameSignature(u, v)

SelectedReport(u, G) ==
    IF Ordered(G) # {}
    THEN /\ Legacy(G) = {}
         /\ \A v, w \in Ordered(G) : v.stream = w.stream
         /\ ~Conflicting(G)
         /\ \E v \in Newest(G) : u.sequence = v.sequence /\ Repeats(u, v)
    ELSE Legacy(G) # {} /\ \A v \in Legacy(G) : SameSignature(u, v)

\* Every segment names the report that speaks for its attempt, and a stream
\* that no other attempt uses.
Meets(U, m) ==
    \A s \in m.segments : \E u \in Named(U, s) :
        /\ Eligible(u)
        /\ SelectedReport(u, Group(U, Owner(s)))
        /\ u.stream \notin Reused(U)

\* The candidates that are not rejected.  Only runs in the mode laya collide.
Included(U, M) ==
    {m \in Latest(U, M) :
        /\ Candidate(m) /\ Meets(U, m)
        /\ \A n \in Latest(U, M) \ {m} : n.laya => ~Collides(U, m, n)}

\* What one model alone would have used: each pass of a stage reads the first
\* context, what the stage adds, and a part of what the stages before left.
Assumptions == << [unit |-> 20, kept |-> 5, written |-> 16],
                  [unit |-> 2, kept |-> 1, written |-> 2],
                  [unit |-> 5, kept |-> 5, written |-> 6] >>

Numerator_NothingKept(scenario, a) ==
    FoldLeft(LAMBDA sum, stage :
                sum + a.unit * stage.passes * (scenario.initial + stage.growth)
                    + a.written * stage.output, 0, scenario.stages)

Numerator(scenario, a) ==
    FoldLeft(LAMBDA acc, stage :
                [sum |-> acc.sum + a.unit * stage.passes * (scenario.initial + stage.growth)
                                 + a.kept * stage.passes * acc.prior
                                 + a.written * stage.output,
                 prior |-> acc.prior + stage.growth + stage.output],
             [sum |-> 0, prior |-> 0], scenario.stages).sum

Estimate(scenario) ==
    [i \in 1..3 |-> (Numerator(scenario, Assumptions[i]) + Assumptions[i].unit \div 2)
                        \div Assumptions[i].unit]

TokensOf(U, m) ==
    MapThenSumSet(LAMBDA s : (CHOOSE u \in Named(U, s) : TRUE).tokens, m.segments)

Summarized(U, M) ==
    LET runs == Included(U, M)
        actual == MapThenSumSet(LAMBDA m : TokensOf(U, m), runs)
        baseline == [i \in 1..3 |-> MapThenSumSet(LAMBDA m : Estimate(m.scenario)[i], runs)]
        known == /\ runs # {} /\ actual <= MaxSafe
                 /\ \A i \in 1..3 : baseline[i] <= MaxSafe
        whole == runs = Latest(U, M) /\ \A m \in runs : m.complete
    IN  [status |-> IF ~known THEN "unavailable"
                    ELSE IF whole THEN "available" ELSE "partial",
         runs |-> IF known THEN runs ELSE {},
         actual |-> IF known THEN actual ELSE Nothing,
         saved |-> IF known THEN [i \in 1..3 |-> baseline[i] - actual] ELSE Nothing]

-----------------------------------------------------------------------------
(* The window of the dashboard, as the set of decisions created in it.     *)

\* manifest_created_scope
InScope(M, W) == {m \in M : \A s \in m.segments : s.decision \in W}
Crosses(m, W) == \E s, t \in m.segments : s.decision \in W /\ t.decision \notin W

Stripped(m) == [m EXCEPT !.scenario = Nothing]

Offered_InScope(U, M, W) == InScope(M, W)

\* A run outside the window is no candidate, but it may collide with one.
Offered(U, M, W) ==
    InScope(M, W) \cup
        {Stripped(m) : m \in {m \in M \ InScope(M, W) :
            Crosses(m, W) \/ \E n \in InScope(M, W) : Collides(U, n, m)}}

RunsOf(W) == Included(Usages, Offered(Usages, Manifests, W))
ScenarioOf(W) == Summarized(Usages, Offered(Usages, Manifests, W))

-----------------------------------------------------------------------------

\* validate_run_manifest_references: what the segments name has arrived.
Referable(e) ==
    e.kind = "run_manifest" => \A s \in e.segments : Named(Usages, s) # {}

\* An event is stored once: another with its id is refused.
Arrive(e) ==
    /\ Cardinality(stored) < MaxEvents
    /\ \A f \in stored : f.id # e.id
    /\ e.decision \notin deleted
    /\ Referable(e)
    /\ stored' = stored \cup {e}
    /\ UNCHANGED deleted

\* purge_decision, with the runs of other decisions that name this one.
Purged(d) ==
    {e \in stored : /\ e.decision # d
                    /\ e.kind = "run_manifest" =>
                        \A s \in e.segments : s.decision # d}

Delete(d) ==
    /\ d \notin deleted
    /\ stored' = Purged(d)
    /\ deleted' = deleted \cup {d}

Next ==
    \/ \E e \in Events : Arrive(e)
    \/ \E d \in Decisions : Delete(d)

Spec == Init /\ [][Next]_vars

-----------------------------------------------------------------------------
(* Properties.                                                             *)

\* The dashboard adds up the same reports twice, by rules written twice.  Each
\* attempt of a run has the report that the recorded total of the same window
\* counts for it, and is an attempt of no other run.
CountedOnce ==
    \A W \in SUBSET Decisions : \A m \in RunsOf(W) :
        /\ OwnersOf(m) \subseteq Recorded(Usages, W).counted
        /\ \A s \in m.segments : \E u \in Named(Usages, s) :
              \A v \in Selection(Group(Usages, Owner(s)), Reused(Usages)) : u.tokens = v.tokens
        /\ \A n \in RunsOf(W) \ {m} : OwnersOf(m) \cap OwnersOf(n) = {}

\* No run spends a token that the recorded total leaves out.
SpentIsRecorded ==
    \A W \in SUBSET Decisions :
        LET total == Recorded(Usages, W).total
            spent == ScenarioOf(W).actual
        IN  total # Nothing /\ spent # Nothing => spent <= total

\* "available" hides nothing: every attempt of the window that has reports is
\* in the total, and every run that touches the window is in the estimate, or
\* a snapshot of it is that has all its attempts.
AvailableIsAll ==
    \A W \in SUBSET Decisions :
        /\ Recorded(Usages, W).status = "available" =>
              OwnersIn(Usages, W) \subseteq Recorded(Usages, W).counted
        /\ ScenarioOf(W).status = "available" =>
              \A m \in Manifests : (\E s \in m.segments : s.decision \in W) =>
                  \E n \in ScenarioOf(W).runs : n.run = m.run /\ OwnersOf(m) \subseteq OwnersOf(n)

\* A window shows what the whole time shows of the runs that lie in it: a run
\* outside it still contradicts one inside, and an older snapshot of a run that
\* goes on outside is not shown in place of the whole.  The snapshots of a run
\* are to be of one mode: latest_lifecycle_snapshots does not compare it, and a
\* run of the mode baseline collides with none.
OneMode ==
    \A m, n \in Manifests : Supersedes(Usages, n, m) => n.laya = m.laya

WindowsAgree ==
    OneMode => \A W \in SUBSET Decisions :
        RunsOf(W) = InScope(RunsOf(Decisions), W)

\* What the assumptions say, stage by stage and pair of stages by pair.
Exact(scenario, a) ==
    LET At == scenario.stages
        pairs == {p \in (DOMAIN At) \X (DOMAIN At) : p[1] < p[2]}
    IN  MapThenSumSet(LAMBDA k : a.unit * At[k].passes * (scenario.initial + At[k].growth)
                                    + a.written * At[k].output, DOMAIN At)
        + MapThenSumSet(LAMBDA p : a.kept * At[p[2]].passes
                                    * (At[p[1]].growth + At[p[1]].output), pairs)

\* An estimate is what its assumptions say, rounded to the nearest token, and
\* the three of a run are in order.
EstimatesRight ==
    \A m \in {m \in Manifests : m.scenario # Nothing} :
        LET E == Estimate(m.scenario)
        IN  /\ E[1] <= E[2] /\ E[2] <= E[3]
            /\ \A i \in 1..3 :
                  LET a == Assumptions[i]
                      error == 2 * (a.unit * E[i] - Exact(m.scenario, a))
                  IN  error <= a.unit /\ -a.unit <= error

\* The figures of the dashboard, those spent and those estimated, add up.
FiguresRight == SpentIsRecorded /\ EstimatesRight

\* A report that is not the newest of its stream, or says the same again.
Fits(e, u) ==
    \/ e.stream = Nothing /\ (~e.whole \/ SameSignature(e, u))
    \/ /\ e.stream = u.stream /\ e.stream # Nothing /\ e.sequence <= u.sequence
       /\ \A v \in Group(Usages, Owner(e)) :
             v.stream = e.stream /\ v.sequence = e.sequence => Repeats(v, e)

\* A snapshot taken of the same run before m was.
Earlier(e, m) ==
    /\ Snapshot(Usages, e) /\ Snapshot(Usages, m)
    /\ e.run = m.run /\ e.root = m.root /\ e.scenario.config = m.scenario.config
    /\ Covers(Usages, m, e)
    /\ \/ OwnersOf(e) # OwnersOf(m)
       \/ \E s \in e.segments, t \in m.segments : Owner(s) = Owner(t) /\
            \E u \in Named(Usages, s), v \in Named(Usages, t) : u.sequence < v.sequence

Contradicts(e, m) ==
    IF e.kind = "usage"
    THEN \/ \E s \in m.segments : Owner(s) = Owner(e) /\ \A u \in Named(Usages, s) : ~Fits(e, u)
         \/ Owner(e) \notin OwnersOf(m) /\ e.stream \in StreamsOf(Usages, m)
    ELSE \/ e.laya /\ Collides(Usages, e, m) /\ ~Earlier(e, m)
         \/ Earlier(m, e)

\* Only evidence against a run takes it out of the estimate: a newer report of
\* one of its attempts, a stream used twice, a later snapshot, another run with
\* its identity or its attempts.  An older one that comes late does not, nor
\* the deletion of a decision it does not name, if OneMode: else the deletion of
\* a snapshot of the mode baseline uncovers an older one that collides.
OnlyEvidenceDrops ==
    [][OneMode => \A m \in RunsOf(Decisions) :
          \/ m \in RunsOf(Decisions)' \/ m \notin stored'
          \/ \E e \in stored' \ stored : Contradicts(e, m)]_vars
=============================================================================
