------------------------- MODULE UsageSummaryProofs --------------------------
(***************************************************************************)
(* For every set of events and decisions: types, each token counted once,  *)
(* windows that agree with the whole time, nothing missing from a figure   *)
(* that is called available, no run dropped but for evidence against it,   *)
(* and figures that add up.                                                *)
(*                                                                         *)
(* The argument for the windows: a snapshot has every identity, attempt    *)
(* and stream of the ones it supersedes (CollisionsPass), so what collides *)
(* with an old snapshot collides with the latest of its run, and there is  *)
(* a latest one, because fewer and fewer supersede it (LatestAbove).       *)
(* Hence whatever collides with a run that is counted is superseded by it  *)
(* (Clear), and then lies in the window if the run does.                   *)
(*                                                                         *)
(* The argument for the sums: a fold takes the elements of a set in some   *)
(* order.  For numbers there is one function that does so (ChosenExists,   *)
(* SumUnique), and it adds the same whatever the order (ChosenIsSum), so   *)
(* sums are compared one element at a time (BySubsets).                    *)
(***************************************************************************)
EXTENDS UsageSummary, FiniteSetTheorems, WellFoundedInduction, TLAPS

Inv == TypeOK /\ IsFiniteSet(stored)

LEMMA InvInit == Init => Inv
  BY FS_EmptySet DEF Init, Inv, TypeOK

LEMMA InvNext == Inv /\ [Next]_vars => Inv'
<1> SUFFICES ASSUME Inv, [Next]_vars PROVE Inv'
  OBVIOUS
<1> USE DEF Inv, TypeOK
<1>1. ASSUME NEW e \in Events, Arrive(e) PROVE Inv'
  BY <1>1, FS_AddElement DEF Arrive
<1>2. ASSUME NEW d \in Decisions, Delete(d) PROVE Inv'
  <2>1. stored' \subseteq stored
    BY <1>2 DEF Delete, Purged
  <2> QED
    BY <1>2, <2>1, FS_Subset DEF Delete
<1>3. CASE UNCHANGED vars
  BY <1>3 DEF vars
<1> QED
  BY <1>1, <1>2, <1>3 DEF Next

\* Types, and one event of each id.
THEOREM TypeCorrect == Spec => []TypeOK
<1>1. Inv => TypeOK
  BY DEF Inv
<1> QED
  BY <1>1, InvInit, InvNext, PTL DEF Spec

-----------------------------------------------------------------------------
(* Finite orders.                                                          *)

LEMMA Least ==
    ASSUME NEW T, T \subseteq Nat, T # {}
    PROVE  \E x \in T : \A y \in T : x <= y
<1>1. \E x \in T : \A y \in T : <<y, x>> \notin OpToRel(<, Nat)
  BY WFMin, NatLessThanWellFounded
<1>2. \A x, y \in Nat : y < x => <<y, x>> \in OpToRel(<, Nat)
  BY DEF OpToRel
<1>3. PICK x \in T : \A y \in T : ~(y < x)
  BY <1>1, <1>2
<1> QED
  BY <1>3

StrictOrder(S, R) ==
    /\ \A a \in S : <<a, a>> \notin R
    /\ \A a, b, c \in S : <<a, b>> \in R /\ <<b, c>> \in R => <<a, c>> \in R

\* In a finite order something maximal is above each element.
LEMMA Maximal ==
    ASSUME NEW S, IsFiniteSet(S), NEW R, StrictOrder(S, R), NEW x \in S
    PROVE  \E y \in S : (y = x \/ <<y, x>> \in R) /\ \A z \in S : <<z, y>> \notin R
<1> USE DEF StrictOrder
<1> DEFINE Above(y) == {z \in S : <<z, y>> \in R}
           Sizes == {Cardinality(Above(y)) : y \in {x} \cup Above(x)}
<1>1. \A y \in S : IsFiniteSet(Above(y)) /\ Cardinality(Above(y)) \in Nat
  BY FS_Subset, FS_CardinalityType
<1> HIDE DEF Above
<1>2. Sizes \subseteq Nat /\ Sizes # {}
  <2>1. {x} \cup Above(x) \subseteq S
    BY DEF Above
  <2>2. Cardinality(Above(x)) \in Sizes
    OBVIOUS
  <2> QED
    BY <1>1, <2>1, <2>2
<1>3. PICK n \in Sizes : \A k \in Sizes : n <= k
  <2> HIDE DEF Sizes
  <2> QED
    BY <1>2, Least
<1>4. PICK y \in {x} \cup Above(x) : n = Cardinality(Above(y))
  OBVIOUS
<1>5. y \in S /\ (y = x \/ <<y, x>> \in R)
  BY <1>4 DEF Above
<1>6. ASSUME NEW z \in S, <<z, y>> \in R PROVE FALSE
  <2>1. z \in Above(x)
    BY <1>5, <1>6 DEF Above
  <2>2. Above(z) \subseteq Above(y)
    BY <1>5, <1>6 DEF Above
  <2>3. z \in Above(y) /\ z \notin Above(z)
    BY <1>6 DEF Above
  <2>4. Cardinality(Above(z)) <= Cardinality(Above(y)) /\ Cardinality(Above(z)) # Cardinality(Above(y))
    BY <1>1, <1>5, <2>2, <2>3, FS_Subset
  <2>5. Cardinality(Above(z)) \in Sizes
    BY <2>1
  <2> QED
    BY <1>1, <1>3, <1>4, <1>5, <2>4, <2>5
<1> QED
  BY <1>5, <1>6

-----------------------------------------------------------------------------
(* What is stored.                                                         *)

OneOfEachId(U) == U \subseteq Usage /\ \A u, v \in U : u.id = v.id => u = v

LEMMA Stored ==
    ASSUME Inv
    PROVE  /\ OneOfEachId(Usages)
           /\ Manifests \subseteq Manifest /\ IsFiniteSet(Manifests)
           /\ IsFiniteSet(Usages)
<1>1. \A x \in Usage : x.kind = "usage"
  BY DEF Usage
<1>2. \A x \in Manifest : x.kind = "run_manifest"
  BY DEF Manifest
<1>3. Usages \subseteq Usage /\ Manifests \subseteq Manifest
  BY <1>1, <1>2, EventsAssumption DEF Inv, TypeOK, Usages, Manifests
<1>4. \A u, v \in Usages : u.id = v.id => u = v
  BY DEF Inv, TypeOK, Usages
<1>5. IsFiniteSet(Manifests) /\ IsFiniteSet(Usages)
  BY FS_Subset DEF Inv, Usages, Manifests
<1> QED
  BY <1>3, <1>4, <1>5 DEF OneOfEachId

LEMMA ManifestFields ==
    ASSUME NEW m \in Manifest
    PROVE  /\ m.decision \in Decisions /\ m.laya \in BOOLEAN
           /\ m.segments \subseteq Segment /\ m.scenario \in Scenario \cup {Nothing}
           /\ \A s \in m.segments : s.decision \in Decisions
  BY DEF Manifest, Segment

\* A run that lost its scenario is the same run, and neither candidate nor
\* snapshot.
LEMMA StrippedFields ==
    ASSUME NEW m \in Manifest
    PROVE  /\ Stripped(m).scenario = Nothing
           /\ Stripped(m).run = m.run /\ Stripped(m).root = m.root
           /\ Stripped(m).laya = m.laya /\ Stripped(m).segments = m.segments
  BY DEF Stripped, Manifest

-----------------------------------------------------------------------------
(* Snapshots of a run.                                                     *)

LEMMA NamedOnce ==
    ASSUME NEW U, OneOfEachId(U), NEW s, NEW u \in Named(U, s), NEW v \in Named(U, s)
    PROVE  u = v /\ u.sequence \in Nat
  BY DEF OneOfEachId, Named, Usage

LEMMA SupersedesIrreflexive ==
    ASSUME NEW U, OneOfEachId(U), NEW m
    PROVE  ~Supersedes(U, m, m)
<1> SUFFICES ASSUME Snapshot(U, m), Grows(U, m, m) PROVE FALSE
  BY DEF Supersedes
<1>1. PICK t \in m.segments : \A u, v \in Named(U, t) : u.sequence < v.sequence
  BY DEF Grows
<1>2. PICK u \in Named(U, t) : TRUE
  BY DEF Snapshot
<1> QED
  BY <1>1, <1>2, NamedOnce

LEMMA SupersedesTransitive ==
    ASSUME NEW U, OneOfEachId(U), NEW a, NEW b, NEW c,
           Supersedes(U, a, b), Supersedes(U, b, c)
    PROVE  Supersedes(U, a, c)
<1>1. Covers(U, a, c)
  <2> SUFFICES ASSUME NEW s \in c.segments
               PROVE  \E r \in a.segments :
                         /\ Owner(s) = Owner(r)
                         /\ \E u \in Named(U, s), w \in Named(U, r) :
                               u.stream = w.stream /\ u.sequence <= w.sequence
    BY DEF Covers
  <2>1. PICK t \in b.segments : Owner(s) = Owner(t) /\
            \E u \in Named(U, s), v \in Named(U, t) : u.stream = v.stream /\ u.sequence <= v.sequence
    BY DEF Supersedes, Covers
  <2>2. PICK u \in Named(U, s), v \in Named(U, t) : u.stream = v.stream /\ u.sequence <= v.sequence
    BY <2>1
  <2>3. PICK r \in a.segments : Owner(t) = Owner(r) /\
            \E x \in Named(U, t), w \in Named(U, r) : x.stream = w.stream /\ x.sequence <= w.sequence
    BY DEF Supersedes, Covers
  <2>4. PICK x \in Named(U, t), w \in Named(U, r) : x.stream = w.stream /\ x.sequence <= w.sequence
    BY <2>3
  <2>5. x = v /\ u.sequence \in Nat /\ v.sequence \in Nat /\ w.sequence \in Nat
    BY NamedOnce
  <2>6. u.sequence <= w.sequence
    BY <2>2, <2>4, <2>5
  <2> QED
    BY <2>1, <2>2, <2>3, <2>4, <2>5, <2>6
<1>2. Grows(U, a, c)
  <2>1. PICK t \in b.segments : \A s \in c.segments : Owner(s) = Owner(t) =>
            \A u \in Named(U, s), v \in Named(U, t) : u.sequence < v.sequence
    BY DEF Supersedes, Grows
  <2>2. PICK r \in a.segments : Owner(t) = Owner(r) /\
            \E v \in Named(U, t), w \in Named(U, r) : v.stream = w.stream /\ v.sequence <= w.sequence
    BY DEF Supersedes, Covers
  <2>3. PICK v \in Named(U, t), w \in Named(U, r) : v.sequence <= w.sequence
    BY <2>2
  <2>4. ASSUME NEW s \in c.segments, Owner(s) = Owner(r),
               NEW u \in Named(U, s), NEW x \in Named(U, r)
        PROVE  u.sequence < x.sequence
    <3>1. x = w /\ u.sequence \in Nat /\ v.sequence \in Nat /\ w.sequence \in Nat
      BY NamedOnce
    <3>2. u.sequence < v.sequence
      BY <2>1, <2>2, <2>4
    <3> QED
      BY <2>3, <3>1, <3>2
  <2> QED
    BY <2>4 DEF Grows
<1> QED
  BY <1>1, <1>2 DEF Supersedes

\* A run is a latest snapshot, or a latest one supersedes it.
LEMMA LatestAbove ==
    ASSUME NEW U, OneOfEachId(U), NEW M, IsFiniteSet(M), NEW m \in M
    PROVE  \E n \in Latest(U, M) : n = m \/ Supersedes(U, n, m)
<1> DEFINE R == {p \in M \X M : Supersedes(U, p[1], p[2])}
<1>1. \A a, b \in M : <<a, b>> \in R <=> Supersedes(U, a, b)
  OBVIOUS
<1>2. StrictOrder(M, R)
  BY <1>1, SupersedesIrreflexive, SupersedesTransitive DEF StrictOrder
<1> HIDE DEF R
<1>3. PICK y \in M : (y = m \/ <<y, m>> \in R) /\ \A z \in M : <<z, y>> \notin R
  BY <1>2, Maximal
<1> QED
  BY <1>1, <1>3 DEF Latest

\* What collides with a snapshot collides with those that supersede it.
LEMMA CollisionsPass ==
    ASSUME NEW U, OneOfEachId(U), NEW n, NEW m, NEW x,
           Supersedes(U, n, m), Collides(U, x, m)
    PROVE  Collides(U, x, n)
<1>1. OwnersOf(m) \subseteq OwnersOf(n)
  BY DEF Supersedes, Covers, OwnersOf
<1>2. StreamsOf(U, m) \subseteq StreamsOf(U, n)
  <2> SUFFICES ASSUME NEW u \in U, NEW s \in m.segments, u.id = s.usage, u.stream # Nothing
               PROVE  u.stream \in StreamsOf(U, n)
    BY DEF StreamsOf
  <2>1. PICK t \in n.segments :
            \E x1 \in Named(U, s), v \in Named(U, t) : x1.stream = v.stream
    BY DEF Supersedes, Covers
  <2>2. PICK x1 \in Named(U, s), v \in Named(U, t) : x1.stream = v.stream
    BY <2>1
  <2>3. x1 = u
    BY DEF Named, OneOfEachId
  <2>4. v \in U /\ v.id = t.usage /\ v.stream = u.stream
    BY <2>2, <2>3 DEF Named
  <2> QED
    BY <2>4 DEF StreamsOf
<1> QED
  BY <1>1, <1>2 DEF Collides, Supersedes

-----------------------------------------------------------------------------
(* The windows.                                                            *)

LEMMA StrippedCollides ==
    ASSUME NEW U, NEW m, NEW k \in Manifest, Collides(U, m, k)
    PROVE  Collides(U, m, Stripped(k))
  BY StrippedFields DEF Collides, OwnersOf, StreamsOf

LEMMA StrippedLatest ==
    ASSUME NEW U, NEW M, NEW k \in Manifest, Stripped(k) \in M
    PROVE  Stripped(k) \in Latest(U, M) /\ ~Candidate(Stripped(k))
  BY StrippedFields DEF Latest, Supersedes, Snapshot, Candidate

\* Nothing that was stripped supersedes, so what is latest stays latest.
LEMMA OfferedLatest ==
    ASSUME NEW U, NEW M, M \subseteq Manifest, NEW W, NEW m \in InScope(M, W),
           m \in Latest(U, M)
    PROVE  m \in Latest(U, Offered(U, M, W))
<1>1. m \in Offered(U, M, W)
  BY DEF Offered
<1>2. ASSUME NEW n \in Offered(U, M, W), Supersedes(U, n, m) PROVE FALSE
  <2>1. n \in InScope(M, W) => n \in M
    BY DEF InScope
  <2>2. ASSUME NEW k \in M, n = Stripped(k) PROVE ~Snapshot(U, n)
    BY <2>2, StrippedFields DEF Snapshot
  <2> QED
    BY <1>2, <2>1, <2>2 DEF Offered, Latest, Supersedes
<1> QED
  BY <1>1, <1>2 DEF Latest

\* Whatever collides with a run that is counted is superseded by it.
LEMMA Clear ==
    ASSUME NEW U, OneOfEachId(U), NEW M, IsFiniteSet(M),
           \A a, b \in M : Supersedes(U, b, a) => b.laya = a.laya,
           NEW m \in Included(U, M), NEW n \in M, n # m, n.laya, Collides(U, m, n)
    PROVE  Supersedes(U, m, n)
<1>1. PICK k \in Latest(U, M) : k = n \/ Supersedes(U, k, n)
  BY LatestAbove
<1>2. k \in M /\ k.laya
  BY <1>1 DEF Latest
<1>3. Collides(U, m, k)
  BY <1>1, CollisionsPass
<1>4. k = m
  BY <1>2, <1>3 DEF Included
<1> QED
  BY <1>1, <1>4

LEMMA WholeTime ==
    ASSUME NEW U, NEW M, M \subseteq Manifest
    PROVE  Offered(U, M, Decisions) = M
  BY ManifestFields DEF Offered, InScope

LEMMA WindowShowsWhole ==
    ASSUME NEW U, OneOfEachId(U), NEW M, M \subseteq Manifest, IsFiniteSet(M),
           \A a, b \in M : Supersedes(U, b, a) => b.laya = a.laya,
           NEW W, NEW m \in Included(U, M), m \in InScope(M, W)
    PROVE  m \in Included(U, Offered(U, M, W))
<1> DEFINE O == Offered(U, M, W)
<1>1. m \in Latest(U, O) /\ Candidate(m) /\ Meets(U, m)
  BY OfferedLatest DEF Included
<1>2. ASSUME NEW n \in Latest(U, O), n # m, n.laya, Collides(U, m, n) PROVE FALSE
  <2>1. CASE n \in InScope(M, W)
    <3>1. Supersedes(U, m, n)
      BY <1>2, <2>1, Clear DEF InScope
    <3> QED
      BY <1>1, <1>2, <3>1 DEF Latest
  <2>2. CASE n \notin InScope(M, W)
    <3>1. PICK k \in M \ InScope(M, W) : n = Stripped(k)
      BY <1>2, <2>2 DEF Latest, Offered
    <3>2. k.laya /\ Collides(U, m, k)
      BY <1>2, <3>1, StrippedFields DEF Collides, OwnersOf, StreamsOf
    <3>3. k # m
      BY <3>1
    <3>4. Covers(U, m, k)
      BY <3>2, <3>3, Clear DEF Supersedes
    <3>5. \A s \in k.segments : s.decision \in W
      BY <3>4 DEF Covers, Owner, InScope
    <3> QED
      BY <3>1, <3>5 DEF InScope
  <2> QED
    BY <2>1, <2>2
<1> QED
  BY <1>1, <1>2 DEF Included

LEMMA WholeShowsWindow ==
    ASSUME NEW U, OneOfEachId(U), NEW M, M \subseteq Manifest,
           \A a, b \in M : Supersedes(U, b, a) => b.laya = a.laya,
           NEW W, NEW m \in Included(U, Offered(U, M, W))
    PROVE  m \in Included(U, M) /\ m \in InScope(M, W)
<1> DEFINE O == Offered(U, M, W)
<1>1. m \in Latest(U, O) /\ m \in O /\ Candidate(m) /\ Meets(U, m)
  BY DEF Included, Latest
<1>2. m \in InScope(M, W) /\ m \in M
  BY <1>1, StrippedLatest DEF Offered, InScope
\* A run outside the window that collides with m would have been offered.
<1>3. ASSUME NEW n \in M \ InScope(M, W), n.laya, Collides(U, m, n) PROVE FALSE
  <2>1. Stripped(n) \in O
    BY <1>2, <1>3 DEF Offered
  <2>2. Stripped(n) \in Latest(U, O) /\ ~Candidate(Stripped(n))
    BY <2>1, StrippedLatest
  <2>3. Collides(U, m, Stripped(n)) /\ Stripped(n).laya
    BY <1>3, StrippedCollides, StrippedFields
  <2> QED
    BY <1>1, <2>2, <2>3 DEF Included
<1>4. m \in Latest(U, M)
  <2> SUFFICES ASSUME NEW n \in M, Supersedes(U, n, m) PROVE FALSE
    BY <1>2 DEF Latest
  <2>1. n.laya /\ Collides(U, m, n)
    BY <1>1, <1>2 DEF Candidate, Supersedes, Collides
  <2>2. n \in O
    BY <1>3, <2>1 DEF Offered
  <2> QED
    BY <1>1, <2>2 DEF Latest
<1>5. ASSUME NEW n \in Latest(U, M), n # m, n.laya, Collides(U, m, n) PROVE FALSE
  <2>1. n \in M /\ n \in InScope(M, W)
    BY <1>3, <1>5 DEF Latest
  <2>2. n \in Latest(U, O)
    BY <1>5, <2>1, OfferedLatest
  <2> QED
    BY <1>5, <2>2 DEF Included
<1> QED
  BY <1>1, <1>2, <1>4, <1>5 DEF Included

LEMMA InvAgree == Inv => WindowsAgree
<1> SUFFICES ASSUME Inv, OneMode, NEW W \in SUBSET Decisions
             PROVE  RunsOf(W) = InScope(RunsOf(Decisions), W)
  BY DEF WindowsAgree
<1>1. /\ OneOfEachId(Usages) /\ Manifests \subseteq Manifest /\ IsFiniteSet(Manifests)
      /\ \A a, b \in Manifests : Supersedes(Usages, b, a) => b.laya = a.laya
  BY Stored DEF OneMode
<1>2. RunsOf(Decisions) = Included(Usages, Manifests)
  BY <1>1, WholeTime DEF RunsOf
<1>3. ASSUME NEW m \in RunsOf(W) PROVE m \in InScope(RunsOf(Decisions), W)
  BY <1>1, <1>2, <1>3, WholeShowsWindow DEF RunsOf, InScope
<1>4. ASSUME NEW m \in InScope(RunsOf(Decisions), W) PROVE m \in RunsOf(W)
  <2>1. m \in Included(Usages, Manifests) /\ m \in InScope(Manifests, W)
    BY <1>2, <1>4 DEF InScope, Included, Latest
  <2> QED
    BY <1>1, <2>1, WindowShowsWhole DEF RunsOf
<1> QED
  BY <1>3, <1>4

\* In every window of time the estimate shows of the runs that lie in it what
\* the estimate of the whole time shows (dashboard_summary and summarize).
THEOREM WindowsAlwaysAgree == Spec => []WindowsAgree
  BY InvAgree, InvInit, InvNext, PTL DEF Spec

-----------------------------------------------------------------------------
(* The reports that are counted.                                           *)

LEMMA SameFields ==
    ASSUME NEW u \in Usage, NEW v \in Usage
    PROVE  /\ SameSignature(u, v) <=>
                 /\ u.decision = v.decision /\ u.attempt = v.attempt
                 /\ u.stream = v.stream /\ u.sequence = v.sequence
                 /\ u.tokens = v.tokens /\ u.sound = v.sound
                 /\ u.whole = v.whole /\ u.closed = v.closed
           /\ Repeats(u, v) => SameSignature(u, v)
<1>1. Repeats(u, v) => u.note = v.note
  BY DEF Repeats, Usage
<1>2. SameSignature(u, v) <=>
                 /\ u.decision = v.decision /\ u.attempt = v.attempt
                 /\ u.stream = v.stream /\ u.sequence = v.sequence
                 /\ u.tokens = v.tokens /\ u.sound = v.sound
                 /\ u.whole = v.whole /\ u.closed = v.closed
  <2> DEFINE w == [u EXCEPT !.id = v.id, !.note = v.note]
  <2>1. /\ w \in Usage /\ w.kind = "usage" /\ v.kind = "usage"
        /\ w.id = v.id /\ w.note = v.note
        /\ w.decision = u.decision /\ w.attempt = u.attempt
        /\ w.stream = u.stream /\ w.sequence = u.sequence
        /\ w.tokens = u.tokens /\ w.sound = u.sound
        /\ w.whole = u.whole /\ w.closed = u.closed
    BY DEF Usage
  <2>2. SameSignature(u, v) <=> w = v
    BY DEF SameSignature
  <2> HIDE DEF w
  <2>3. (/\ u.decision = v.decision /\ u.attempt = v.attempt
         /\ u.stream = v.stream /\ u.sequence = v.sequence
         /\ u.tokens = v.tokens /\ u.sound = v.sound
         /\ u.whole = v.whole /\ u.closed = v.closed) => w = v
    BY <2>1 DEF Usage
  <2> QED
    BY <2>1, <2>2, <2>3
<1>3. Repeats(u, v) => SameSignature(u, v)
  BY <1>1 DEF Repeats, SameSignature, Usage
<1> QED
  BY <1>2, <1>3

\* The report that speaks for an attempt in the estimate is selected for the
\* total, unless two attempts use its stream.
LEMMA SelectedAlike ==
    ASSUME NEW G \in SUBSET Usage, NEW u \in Usage, Usable(u), NEW reused,
           SelectedReport(u, G), u.stream \notin reused
    PROVE  /\ Selection(G, reused) # {}
           /\ \A w \in Selection(G, reused) : u.tokens = w.tokens
<1>1. CASE Ordered(G) # {}
  <2>1. PICK v \in Newest(G) : Repeats(u, v)
    BY <1>1 DEF SelectedReport
  <2>2. v \in Ordered(G) /\ v \in Usage
    BY DEF Newest, Ordered
  <2>3. u.stream = v.stream /\ u.tokens = v.tokens /\ Usable(v)
    BY <2>1, <2>2, SameFields DEF Usable
  <2>4. Settled(G, reused)
    BY <1>1, <2>2, <2>3 DEF SelectedReport, Settled
  <2>5. v \in Selection(G, reused)
    BY <1>1, <2>3, <2>4 DEF Selection, Speakers
  <2>6. ASSUME NEW w \in Selection(G, reused) PROVE u.tokens = w.tokens
    <3>1. w \in Newest(G) /\ w \in Ordered(G) /\ w \in Usage
      BY <1>1, <2>6 DEF Selection, Speakers, Newest, Ordered
    <3>2. v.sequence = w.sequence
      <4>1. v.sequence \in Nat /\ w.sequence \in Nat
        BY <2>2, <3>1 DEF Usage
      <4>2. v.sequence <= w.sequence /\ w.sequence <= v.sequence
        BY <2>2, <3>1 DEF Newest
      <4> QED
        BY <4>1, <4>2
    <3>3. Repeats(v, w)
      BY <1>1, <2>2, <3>1, <3>2 DEF SelectedReport, Conflicting
    <3> QED
      BY <2>2, <2>3, <3>1, <3>3, SameFields
  <2> QED
    BY <2>5, <2>6
<1>2. CASE Ordered(G) = {}
  <2>1. Legacy(G) # {} /\ \A v \in Legacy(G) : v \in Usage /\ SameSignature(u, v)
    BY <1>2 DEF SelectedReport, Legacy
  <2>2. \A v \in Legacy(G) : u.tokens = v.tokens /\ Usable(v)
    BY <2>1, SameFields DEF Usable
  <2>3. Settled(G, reused)
    BY <1>2, <2>1, SameFields DEF Settled
  <2> QED
    BY <1>2, <2>1, <2>2, <2>3 DEF Selection, Speakers
<1> QED
  BY <1>1, <1>2

LEMMA InvOnce == Inv => CountedOnce
<1> SUFFICES ASSUME Inv, NEW W \in SUBSET Decisions, NEW m \in RunsOf(W)
             PROVE  /\ OwnersOf(m) \subseteq Recorded(Usages, W).counted
                    /\ \A s \in m.segments : \E u \in Named(Usages, s) :
                          \A v \in Selection(Group(Usages, Owner(s)), Reused(Usages)) :
                              u.tokens = v.tokens
                    /\ \A n \in RunsOf(W) \ {m} : OwnersOf(m) \cap OwnersOf(n) = {}
  BY DEF CountedOnce
<1> DEFINE O == Offered(Usages, Manifests, W)
           Select(o) == Selection(Group(Usages, o), Reused(Usages))
<1>1. OneOfEachId(Usages) /\ Manifests \subseteq Manifest
  BY Stored
<1>2. m \in O /\ Candidate(m) /\ Meets(Usages, m)
  BY DEF RunsOf, Included, Latest
<1>3. m \in InScope(Manifests, W)
  BY <1>1, <1>2, StrippedLatest DEF Offered, RunsOf, Included
<1>4. ASSUME NEW s \in m.segments
      PROVE  /\ Owner(s) \in OwnersIn(Usages, W)
             /\ Select(Owner(s)) # {}
             /\ \E u \in Named(Usages, s) : \A v \in Select(Owner(s)) : u.tokens = v.tokens
  <2>1. PICK u \in Named(Usages, s) :
            /\ Eligible(u)
            /\ SelectedReport(u, Group(Usages, Owner(s)))
            /\ u.stream \notin Reused(Usages)
    BY <1>2 DEF Meets
  <2>2. u \in Usages /\ u \in Usage /\ Owner(u) = Owner(s)
    BY <1>1 DEF Named, OneOfEachId
  <2>3. u.decision \in W
    BY <1>3, <2>2 DEF InScope, Owner
  <2>4. Group(Usages, Owner(s)) \in SUBSET Usage
    BY <1>1 DEF Group, OneOfEachId
  <2>5. Select(Owner(s)) # {} /\ \A v \in Select(Owner(s)) : u.tokens = v.tokens
    BY <2>1, <2>2, <2>4, SelectedAlike DEF Eligible
  <2>6. Owner(s) \in OwnersIn(Usages, W)
    BY <2>2, <2>3 DEF OwnersIn
  <2> QED
    BY <2>5, <2>6
<1>5. Recorded(Usages, W).counted = {o \in OwnersIn(Usages, W) : Select(o) # {}}
  BY DEF Recorded
<1>6. ASSUME NEW n \in RunsOf(W), n # m PROVE OwnersOf(m) \cap OwnersOf(n) = {}
  <2>1. n \in Latest(Usages, O) /\ n.laya
    BY <1>6 DEF RunsOf, Included, Candidate
  <2> QED
    BY <1>6, <2>1 DEF RunsOf, Included, Collides
<1> QED
  BY <1>4, <1>5, <1>6 DEF OwnersOf

\* Each attempt of a run in the estimate has the report that the recorded
\* total counts for it, and is in one run only (usage.rs and scenario.rs).
THEOREM EachCountedOnce == Spec => []CountedOnce
  BY InvOnce, InvInit, InvNext, PTL DEF Spec

-----------------------------------------------------------------------------
(* What "available" means.                                                 *)

LEMMA NewestExists ==
    ASSUME NEW G \in SUBSET Usage, IsFiniteSet(G), Ordered(G) # {}
    PROVE  Newest(G) # {}
<1> DEFINE R == {p \in Ordered(G) \X Ordered(G) : p[2].sequence < p[1].sequence}
<1>1. \A u \in Ordered(G) : u.sequence \in Nat
  BY DEF Ordered, Usage
<1>2. \A a, b \in Ordered(G) : <<a, b>> \in R <=> b.sequence < a.sequence
  OBVIOUS
<1> HIDE DEF R
<1>3. StrictOrder(Ordered(G), R)
  BY <1>1, <1>2 DEF StrictOrder
<1>4. IsFiniteSet(Ordered(G))
  BY FS_Subset DEF Ordered
<1>5. PICK y \in Ordered(G) : \A z \in Ordered(G) : <<z, y>> \notin R
  BY <1>3, <1>4, Maximal
<1>6. \A z \in Ordered(G) : z.sequence <= y.sequence
  <2> SUFFICES ASSUME NEW z \in Ordered(G) PROVE z.sequence <= y.sequence
    OBVIOUS
  <2>1. z.sequence \in Nat /\ y.sequence \in Nat
    BY <1>1
  <2>2. ~(y.sequence < z.sequence)
    BY <1>2, <1>5
  <2> QED
    BY <2>1, <2>2
<1> QED
  BY <1>6 DEF Newest

LEMMA NothingExcluded ==
    ASSUME NEW G \in SUBSET Usage, IsFiniteSet(G), G # {}, NEW reused,
           Exclusions(G, reused) = {}
    PROVE  Selection(G, reused) # {}
<1>1. G \subseteq Ordered(G) \cup Legacy(G)
  BY DEF Exclusions
<1>2. Settled(G, reused)
  BY <1>1 DEF Exclusions
<1>3. Speakers(G) # {}
  BY <1>2, NewestExists DEF Settled, Speakers
<1> QED
  BY <1>2, <1>3 DEF Exclusions, Selection

LEMMA InvAvailable == Inv => AvailableIsAll
<1> SUFFICES ASSUME Inv, NEW W \in SUBSET Decisions
             PROVE  /\ Recorded(Usages, W).status = "available" =>
                          OwnersIn(Usages, W) \subseteq Recorded(Usages, W).counted
                    /\ ScenarioOf(W).status = "available" =>
                          \A m \in Manifests : (\E s \in m.segments : s.decision \in W) =>
                              \E n \in ScenarioOf(W).runs :
                                  n.run = m.run /\ OwnersOf(m) \subseteq OwnersOf(n)
  BY DEF AvailableIsAll
<1> DEFINE O == Offered(Usages, Manifests, W)
           Excluded(o) == Exclusions(Group(Usages, o), Reused(Usages))
           Select(o) == Selection(Group(Usages, o), Reused(Usages))
<1>1. OneOfEachId(Usages) /\ IsFiniteSet(Usages) /\ Manifests \subseteq Manifest /\ IsFiniteSet(Manifests)
  BY Stored
<1>2. ASSUME Recorded(Usages, W).status = "available", NEW o \in OwnersIn(Usages, W)
      PROVE  o \in Recorded(Usages, W).counted
  <2>1. UNION {Excluded(p) : p \in OwnersIn(Usages, W)} = {}
    BY <1>2 DEF Recorded
  <2>2. Excluded(o) = {}
    BY <2>1
  <2>3. /\ Group(Usages, o) \in SUBSET Usage /\ IsFiniteSet(Group(Usages, o))
        /\ Group(Usages, o) # {}
    BY <1>1, FS_Subset DEF Group, OwnersIn, OneOfEachId
  <2>4. Select(o) # {}
    BY <2>2, <2>3, NothingExcluded
  <2> QED
    BY <2>4 DEF Recorded
<1>3. ASSUME ScenarioOf(W).status = "available", NEW m \in Manifests,
             NEW s \in m.segments, s.decision \in W
      PROVE  \E n \in ScenarioOf(W).runs : n.run = m.run /\ OwnersOf(m) \subseteq OwnersOf(n)
  <2>1. /\ Included(Usages, O) = Latest(Usages, O)
        /\ ScenarioOf(W).runs = Included(Usages, O)
    BY <1>3, Zenon DEF ScenarioOf, Summarized
\* A run that lost its scenario would be among the latest, and not in the estimate.
  <2>2. ASSUME NEW k \in Manifests, Stripped(k) \in O PROVE FALSE
    BY <1>1, <2>1, <2>2, StrippedLatest DEF Included
  <2>3. m \in InScope(Manifests, W)
    BY <1>3, <2>2 DEF InScope, Crosses, Offered
  <2>4. PICK n \in Latest(Usages, Manifests) : n = m \/ Supersedes(Usages, n, m)
    BY <1>1, LatestAbove
  <2>5. n \in Manifests /\ n.run = m.run /\ OwnersOf(m) \subseteq OwnersOf(n)
    BY <2>4 DEF Latest, Supersedes, Covers, OwnersOf
  <2>6. n \in InScope(Manifests, W)
    BY <2>2, <2>3, <2>5 DEF Offered, Collides
  <2>7. n \in Latest(Usages, O)
    BY <1>1, <2>4, <2>6, OfferedLatest
  <2> QED
    BY <2>1, <2>5, <2>7
<1> QED
  BY <1>2, <1>3

\* What is called available leaves out no attempt that has reports, and no run
\* that touches the window (recorded_total and summarize).
THEOREM AvailableAlwaysAll == Spec => []AvailableIsAll
  BY InvAvailable, InvInit, InvNext, PTL DEF Spec

-----------------------------------------------------------------------------
(* What takes a run out of the estimate.                                   *)

\* Every segment of a stored run names a stored report.
References == \A m \in Manifests : \A s \in m.segments : Named(Usages, s) # {}

Sound == Inv /\ References

\* The reports that the segments of n name are the same in U and in V.
SameReports(U, V, n) ==
    \A s \in n.segments : {u \in U : u.id = s.usage} = {u \in V : u.id = s.usage}

LEMMA SameNamed ==
    ASSUME NEW U, NEW V, NEW n, SameReports(U, V, n), NEW s \in n.segments
    PROVE  Named(U, s) = Named(V, s)
<1>1. {u \in U : u.id = s.usage} = {u \in V : u.id = s.usage}
  BY DEF SameReports
<1> QED
  BY <1>1 DEF Named

\* Runs that name the same reports stand to one another as before.
LEMMA SameRelations ==
    ASSUME NEW U, NEW V, NEW n, NEW m, SameReports(U, V, n), SameReports(U, V, m)
    PROVE  /\ Supersedes(U, n, m) <=> Supersedes(V, n, m)
           /\ Collides(U, n, m) <=> Collides(V, n, m)
<1>1. /\ \A s \in n.segments : Named(U, s) = Named(V, s)
      /\ \A s \in m.segments : Named(U, s) = Named(V, s)
  BY SameNamed
<1>2. (Snapshot(U, n) <=> Snapshot(V, n)) /\ (Snapshot(U, m) <=> Snapshot(V, m))
  BY <1>1 DEF Snapshot
<1>3. Covers(U, n, m) <=> Covers(V, n, m)
  BY <1>1 DEF Covers
<1>4. Grows(U, n, m) <=> Grows(V, n, m)
  BY <1>1 DEF Grows
<1>5. StreamsOf(U, n) = StreamsOf(V, n) /\ StreamsOf(U, m) = StreamsOf(V, m)
  BY DEF StreamsOf, SameReports
<1> QED
  BY <1>2, <1>3, <1>4, <1>5 DEF Supersedes, Collides

\* A report under a new id is named by no stored run.
LEMMA NewReportNames ==
    ASSUME References, NEW e, \A u \in Usages : u.id # e.id, NEW n \in Manifests
    PROVE  SameReports(Usages, Usages \cup {e}, n)
<1> SUFFICES ASSUME NEW s \in n.segments PROVE s.usage # e.id
  BY DEF SameReports
<1>1. PICK u \in Named(Usages, s) : TRUE
  BY DEF References
<1> QED
  BY <1>1 DEF Named

\* The reports of decision d are named by the runs that name d alone.
LEMMA OtherReportNames ==
    ASSUME Sound, NEW d, NEW n \in Manifests, \A s \in n.segments : s.decision # d
    PROVE  SameReports(Usages, {u \in Usages : u.decision # d}, n)
<1>1. OneOfEachId(Usages)
  BY Stored DEF Sound
<1> SUFFICES ASSUME NEW s \in n.segments, NEW u \in Usages, u.id = s.usage
             PROVE  u.decision # d
  BY DEF SameReports
<1>2. PICK w \in Named(Usages, s) : TRUE
  BY DEF Sound, References
<1>3. w = u
  BY <1>1, <1>2 DEF Named, OneOfEachId
<1> QED
  BY <1>2, <1>3 DEF Named, Owner

\* The stored tables after each operation.
LEMMA ArriveTables ==
    ASSUME Inv, NEW e \in Events, Arrive(e)
    PROVE  /\ \A f \in stored : f.id # e.id
           /\ e \notin stored /\ stored' = stored \cup {e}
           /\ e.kind = "usage" =>
                 e \in Usage /\ Usages' = Usages \cup {e} /\ Manifests' = Manifests
           /\ e.kind # "usage" =>
                 /\ e.kind = "run_manifest" /\ e \in Manifest /\ Anchored(e)
                 /\ Usages' = Usages /\ Manifests' = Manifests \cup {e}
                 /\ \A s \in e.segments : Named(Usages, s) # {}
<1>1. /\ \A f \in stored : f.id # e.id
      /\ stored' = stored \cup {e} /\ Referable(e)
  BY DEF Arrive
<1>2. \/ e \in Usage /\ e.kind = "usage"
      \/ e \in Manifest /\ e.kind = "run_manifest" /\ Anchored(e)
  BY EventsAssumption DEF Usage, Manifest
<1> QED
  BY <1>1, <1>2 DEF Usages, Manifests, Referable

LEMMA DeleteTables ==
    ASSUME Inv, NEW d \in Decisions, Delete(d)
    PROVE  /\ stored' \subseteq stored
           /\ Usages' = {u \in Usages : u.decision # d}
           /\ Manifests' = {m \in Manifests : /\ m.decision # d
                                             /\ \A s \in m.segments : s.decision # d}
  BY DEF Delete, Purged, Usages, Manifests

LEMMA SoundInit == Init => Sound
  BY InvInit DEF Init, Sound, References, Manifests

LEMMA SoundNext == Sound /\ [Next]_vars => Sound'
<1> SUFFICES ASSUME Sound, [Next]_vars PROVE References'
  BY InvNext DEF Sound
<1>0. Inv
  BY DEF Sound
<1>1. ASSUME NEW e \in Events, Arrive(e) PROVE References'
  <2>1. Usages \subseteq Usages'
    BY <1>0, <1>1, ArriveTables
  <2>2. ASSUME NEW m \in Manifests', NEW s \in m.segments
        PROVE  Named(Usages, s) # {}
    <3>1. CASE m \in Manifests
      BY <3>1 DEF Sound, References
    <3>2. CASE m \notin Manifests
      BY <1>0, <1>1, <2>2, <3>2, ArriveTables
    <3> QED
      BY <3>1, <3>2
  <2> QED
    BY <2>1, <2>2 DEF References, Named
<1>2. ASSUME NEW d \in Decisions, Delete(d) PROVE References'
  <2>1. ASSUME NEW m \in Manifests', NEW s \in m.segments
        PROVE  Named(Usages', s) # {}
    <3>1. m \in Manifests /\ \A t \in m.segments : t.decision # d
      BY <1>0, <1>2, <2>1, DeleteTables
    <3>2. PICK u \in Named(Usages, s) : TRUE
      BY <2>1, <3>1 DEF Sound, References
    <3>3. u \in Usages'
      BY <1>0, <1>2, <2>1, <3>1, <3>2, DeleteTables DEF Named, Owner
    <3> QED
      BY <3>2, <3>3 DEF Named
  <2> QED
    BY <2>1 DEF References
<1>3. CASE UNCHANGED vars
  BY <1>3 DEF vars, Sound, References, Usages, Manifests
<1> QED
  BY <1>1, <1>2, <1>3 DEF Next

\* In every reachable state each segment of a run names a stored report, of its
\* own attempt (validate_run_manifest_references and purge_decision).
THEOREM NamesAlwaysStored == Spec => []References
<1>1. Sound => References
  BY DEF Sound
<1> QED
  BY <1>1, SoundInit, SoundNext, PTL DEF Spec

LEMMA RepeatsBack ==
    ASSUME NEW u \in Usage, NEW v \in Usage, Repeats(u, v)
    PROVE  Repeats(v, u)
<1>1. SameSignature(u, v) /\ u.note = v.note
  BY SameFields DEF Repeats, Usage
<1>2. /\ u.decision = v.decision /\ u.attempt = v.attempt
      /\ u.stream = v.stream /\ u.sequence = v.sequence
      /\ u.tokens = v.tokens /\ u.sound = v.sound
      /\ u.whole = v.whole /\ u.closed = v.closed
  BY <1>1, SameFields
<1> DEFINE w == [v EXCEPT !.id = u.id]
<1>3. /\ w \in Usage /\ w.kind = "usage" /\ u.kind = "usage" /\ w.id = u.id
      /\ w.decision = v.decision /\ w.attempt = v.attempt
      /\ w.stream = v.stream /\ w.sequence = v.sequence
      /\ w.tokens = v.tokens /\ w.sound = v.sound
      /\ w.whole = v.whole /\ w.closed = v.closed /\ w.note = v.note
  BY DEF Usage
<1> HIDE DEF w
<1>4. w = u
  BY <1>1, <1>2, <1>3 DEF Usage
<1> QED
  BY <1>4 DEF w, Repeats

\* A report that fits the one that spoke for its attempt leaves it speaking.
LEMMA FittingReport ==
    ASSUME NEW G \in SUBSET Usage, NEW u \in G, NEW e \in Usage,
           Usable(u), SelectedReport(u, G),
           \/ e.stream = Nothing /\ (~e.whole \/ SameSignature(e, u))
           \/ /\ e.stream = u.stream /\ e.stream # Nothing /\ e.sequence <= u.sequence
              /\ \A v \in G : v.stream = e.stream /\ v.sequence = e.sequence => Repeats(v, e)
    PROVE  SelectedReport(u, G \cup {e})
<1> DEFINE H == G \cup {e}
<1>1. CASE e.stream = Nothing /\ ~e.whole
  <2>1. Ordered(H) = Ordered(G) /\ Legacy(H) = Legacy(G)
    BY <1>1 DEF Ordered, Legacy
  <2>2. Newest(H) = Newest(G) /\ (Conflicting(H) <=> Conflicting(G))
    BY <2>1 DEF Newest, Conflicting
  <2> QED
    BY <2>1, <2>2 DEF SelectedReport
<1>2. CASE e.stream = Nothing /\ e.whole /\ SameSignature(e, u)
  <2>1. u.stream = Nothing /\ u.whole /\ SameSignature(u, e)
    BY <1>2, SameFields DEF Usable
  <2>2. u \in Legacy(G)
    BY <2>1 DEF Legacy
  <2>3. Ordered(G) = {} /\ \A v \in Legacy(G) : SameSignature(u, v)
    BY <2>2 DEF SelectedReport
  <2>4. Ordered(H) = {} /\ Legacy(H) = Legacy(G) \cup {e}
    BY <1>2, <2>3 DEF Ordered, Legacy
  <2> QED
    BY <2>1, <2>3, <2>4 DEF SelectedReport
<1>3. CASE /\ e.stream = u.stream /\ e.stream # Nothing /\ e.sequence <= u.sequence
           /\ \A v \in G : v.stream = e.stream /\ v.sequence = e.sequence => Repeats(v, e)
  <2>1. u \in Ordered(G)
    BY <1>3 DEF Ordered
  <2>2. /\ Legacy(G) = {} /\ ~Conflicting(G)
        /\ \A v, w \in Ordered(G) : v.stream = w.stream
    BY <2>1 DEF SelectedReport
  <2>3. PICK x \in Newest(G) : u.sequence = x.sequence /\ Repeats(u, x)
    BY <2>1 DEF SelectedReport
  <2>4. Ordered(H) = Ordered(G) \cup {e} /\ Legacy(H) = {}
    BY <1>3, <2>2 DEF Ordered, Legacy
  <2>5. \A v, w \in Ordered(H) : v.stream = w.stream
    BY <1>3, <2>1, <2>2, <2>4
  <2>6. ~Conflicting(H)
    <3> SUFFICES ASSUME NEW v \in Ordered(H), NEW w \in Ordered(H), v.sequence = w.sequence
                 PROVE  Repeats(v, w)
      BY DEF Conflicting
    <3>1. Repeats(e, e)
      BY DEF Repeats, Usage
    <3>2. ASSUME NEW y \in Ordered(G), y.sequence = e.sequence
          PROVE  Repeats(y, e) /\ Repeats(e, y)
      <4>1. y \in G /\ y \in Usage /\ y.stream = e.stream
        BY <1>3, <2>1, <2>2, <3>2 DEF Ordered
      <4> QED
        BY <1>3, <3>2, <4>1, RepeatsBack
    <3>3. CASE v \in Ordered(G) /\ w \in Ordered(G)
      BY <2>2, <3>3 DEF Conflicting
    <3> QED
      BY <2>4, <3>1, <3>2, <3>3
  <2>7. x \in Newest(H)
    BY <1>3, <2>3, <2>4 DEF Newest
  <2> QED
    BY <2>1, <2>3, <2>4, <2>5, <2>6, <2>7 DEF SelectedReport
<1> QED
  BY <1>1, <1>2, <1>3

\* A report that does not contradict a run leaves its segments met.
LEMMA ReportMeets ==
    ASSUME Sound, NEW e \in Usage, \A u \in Usages : u.id # e.id,
           NEW m \in Manifests, Meets(Usages, m),
           \A s \in m.segments : Owner(s) = Owner(e) =>
               \E u \in Named(Usages, s) : Fits(e, u),
           Owner(e) \in OwnersOf(m) \/ e.stream \notin StreamsOf(Usages, m)
    PROVE  Meets(Usages \cup {e}, m)
<1> DEFINE V == Usages \cup {e}
<1>0. OneOfEachId(Usages) /\ Usages \subseteq Usage
  BY Stored DEF Sound, OneOfEachId
<1> SUFFICES ASSUME NEW s \in m.segments
             PROVE  \E u \in Named(V, s) : /\ Eligible(u)
                                           /\ SelectedReport(u, Group(V, Owner(s)))
                                           /\ u.stream \notin Reused(V)
  BY DEF Meets
<1>1. PICK u \in Named(Usages, s) : /\ Eligible(u)
                                    /\ SelectedReport(u, Group(Usages, Owner(s)))
                                    /\ u.stream \notin Reused(Usages)
  BY DEF Meets
<1>2. u \in Usages /\ u \in Usage /\ u.id = s.usage /\ Owner(u) = Owner(s) /\ u \in Named(V, s)
  BY <1>0 DEF Named
<1>3. SelectedReport(u, Group(V, Owner(s)))
  <2>1. CASE Owner(e) # Owner(s)
    <3>1. Group(V, Owner(s)) = Group(Usages, Owner(s))
      BY <2>1 DEF Group
    <3> QED
      BY <1>1, <3>1
  <2>2. CASE Owner(e) = Owner(s)
    <3>1. PICK w \in Named(Usages, s) : Fits(e, w)
      BY <2>2
    <3>2. w = u
      BY <1>0, <3>1, NamedOnce
    <3>3. /\ Group(Usages, Owner(s)) \in SUBSET Usage /\ u \in Group(Usages, Owner(s))
          /\ Group(V, Owner(s)) = Group(Usages, Owner(s)) \cup {e}
      BY <1>0, <1>2, <2>2 DEF Group
    <3>4. Group(Usages, Owner(e)) = Group(Usages, Owner(s))
      BY <2>2
    <3> QED
      BY <1>1, <3>1, <3>2, <3>3, <3>4, FittingReport DEF Fits, Eligible
  <2> QED
    BY <2>1, <2>2
<1>4. u.stream \notin Reused(V)
  <2> SUFFICES ASSUME u.stream \in Reused(V) PROVE FALSE
    OBVIOUS
  <2>1. PICK x \in V, y \in V : /\ x.stream = u.stream /\ y.stream = u.stream
                                /\ u.stream # Nothing /\ Owner(x) # Owner(y)
    BY DEF Reused
  <2>2. \A z \in Usages : z.stream = u.stream => Owner(z) = Owner(u)
    BY <1>1, <1>2, <2>1 DEF Reused
  <2>3. e.stream = u.stream /\ Owner(e) # Owner(u)
    BY <1>2, <2>1, <2>2
  <2>4. u.stream \in StreamsOf(Usages, m)
    BY <1>2, <2>1 DEF StreamsOf
  <2>5. PICK t \in m.segments : Owner(t) = Owner(e)
    BY <2>3, <2>4 DEF OwnersOf
  <2>6. PICK w \in Named(Usages, t) : Fits(e, w)
    BY <2>5
  <2>7. w \in Usages /\ Owner(w) = Owner(e) /\ w.stream = u.stream
    BY <2>1, <2>3, <2>5, <2>6 DEF Fits, Named
  <2> QED
    BY <2>2, <2>3, <2>7
<1> QED
  BY <1>1, <1>2, <1>3, <1>4

\* A run that supersedes m was taken of the same run later, and conversely.
LEMMA SupersedesLater ==
    ASSUME Inv, NEW e, NEW m
    PROVE  /\ Supersedes(Usages, e, m) => Earlier(m, e)
           /\ Anchored(e) /\ Earlier(e, m) => Supersedes(Usages, m, e)
<1>1. ASSUME Supersedes(Usages, e, m), OwnersOf(e) = OwnersOf(m)
      PROVE  \E s \in m.segments, t \in e.segments : Owner(s) = Owner(t) /\
                 \E u \in Named(Usages, s), v \in Named(Usages, t) : u.sequence < v.sequence
  <2>1. PICK t \in e.segments : \A s \in m.segments : Owner(s) = Owner(t) =>
            \A u \in Named(Usages, s), v \in Named(Usages, t) : u.sequence < v.sequence
    BY <1>1 DEF Supersedes, Grows
  <2>2. PICK s \in m.segments : Owner(s) = Owner(t)
    BY <1>1 DEF OwnersOf
  <2>3. PICK u \in Named(Usages, s), v \in Named(Usages, t) : TRUE
    BY <1>1 DEF Supersedes, Snapshot
  <2> QED
    BY <2>1, <2>2, <2>3
<1>2. Supersedes(Usages, e, m) => Earlier(m, e)
  BY <1>1 DEF Supersedes, Earlier
<1>3. ASSUME Anchored(e), Earlier(e, m) PROVE Grows(Usages, m, e)
  <2>1. CASE OwnersOf(e) # OwnersOf(m)
    <3>1. OwnersOf(e) \subseteq OwnersOf(m)
      BY <1>3 DEF Earlier, Covers, OwnersOf
    <3>2. PICK t \in m.segments : Owner(t) \notin OwnersOf(e)
      BY <2>1, <3>1 DEF OwnersOf
    <3> QED
      BY <3>2 DEF Grows, OwnersOf
  <2>2. CASE OwnersOf(e) = OwnersOf(m)
    <3>1. PICK s \in e.segments, t \in m.segments : Owner(s) = Owner(t) /\
              \E u \in Named(Usages, s), v \in Named(Usages, t) : u.sequence < v.sequence
      BY <1>3, <2>2 DEF Earlier
    <3>2. PICK u \in Named(Usages, s), v \in Named(Usages, t) : u.sequence < v.sequence
      BY <3>1
    <3>3. ASSUME NEW r \in e.segments, Owner(r) = Owner(t),
                 NEW x \in Named(Usages, r), NEW y \in Named(Usages, t)
          PROVE  x.sequence < y.sequence
      <4>1. r = s
        BY <1>3, <3>1, <3>3 DEF Anchored
      <4>2. x = u /\ y = v
        BY <3>2, <3>3, <4>1, NamedOnce, Stored
      <4> QED
        BY <3>2, <4>2
    <3> QED
      BY <3>3 DEF Grows
  <2> QED
    BY <2>1, <2>2
<1>4. Anchored(e) /\ Earlier(e, m) => Supersedes(Usages, m, e)
  BY <1>3 DEF Earlier, Supersedes
<1> QED
  BY <1>2, <1>4

\* A report that does not contradict a run in the estimate leaves it there.
LEMMA ReportKeepsRun ==
    ASSUME Sound, NEW e \in Usage, e.kind = "usage", \A u \in Usages : u.id # e.id,
           NEW m \in Included(Usages, Manifests), ~Contradicts(e, m)
    PROVE  m \in Included(Usages \cup {e}, Manifests)
<1> DEFINE V == Usages \cup {e}
<1>1. m \in Manifests /\ m \in Latest(Usages, Manifests) /\ Candidate(m) /\ Meets(Usages, m)
  BY DEF Included, Latest
<1>2. \A n \in Manifests : SameReports(Usages, V, n)
  BY NewReportNames DEF Sound
<1>3. \A n, k \in Manifests : /\ Supersedes(V, n, k) <=> Supersedes(Usages, n, k)
                              /\ Collides(V, n, k) <=> Collides(Usages, n, k)
  BY <1>2, SameRelations
<1>4. Latest(V, Manifests) = Latest(Usages, Manifests)
  BY <1>3 DEF Latest
<1>5. Meets(V, m)
  BY <1>1, ReportMeets DEF Contradicts
<1>6. \A n \in Latest(Usages, Manifests) : n \in Manifests
  BY DEF Latest
<1> HIDE DEF V
<1>7. m \in Included(V, Manifests)
  BY <1>1, <1>3, <1>4, <1>5, <1>6 DEF Included
<1> QED
  BY <1>7 DEF V

\* So does a run that does not contradict it.
LEMMA RunKeepsRun ==
    ASSUME Sound, NEW e \in Manifest, e.kind = "run_manifest", Anchored(e),
           NEW m \in Included(Usages, Manifests), ~Contradicts(e, m)
    PROVE  m \in Included(Usages, Manifests \cup {e})
<1> DEFINE N == Manifests \cup {e}
<1>0. Inv /\ e.kind # "usage"
  BY DEF Sound
<1>1. m \in Manifests /\ m \in Latest(Usages, Manifests) /\ Candidate(m) /\ Meets(Usages, m)
  BY DEF Included, Latest
<1>2. /\ e.laya /\ Collides(Usages, e, m) => Earlier(e, m)
      /\ ~Earlier(m, e)
  BY <1>0 DEF Contradicts
<1>3. m \in Latest(Usages, N)
  BY <1>0, <1>1, <1>2, SupersedesLater DEF Latest
<1>4. ASSUME NEW n \in Latest(Usages, N), n # m, n.laya, Collides(Usages, m, n) PROVE FALSE
  <2>1. CASE n \in Manifests
    <3>1. n \in Latest(Usages, Manifests)
      BY <1>4, <2>1 DEF Latest
    <3> QED
      BY <1>4, <3>1 DEF Included
  <2>2. CASE n = e
    <3>1. Collides(Usages, e, m)
      BY <1>4, <2>2 DEF Collides
    <3>2. Supersedes(Usages, m, e)
      BY <1>0, <1>2, <1>4, <2>2, <3>1, SupersedesLater
    <3> QED
      BY <1>1, <1>4, <2>2, <3>2 DEF Latest
  <2> QED
    BY <1>4, <2>1, <2>2 DEF Latest
<1> QED
  BY <1>1, <1>3, <1>4 DEF Included

\* And the deletion of a decision it does not name.
LEMMA DeletionKeepsRun ==
    ASSUME Sound, OneMode, NEW d \in Decisions, NEW N,
           N = {n \in Manifests : n.decision # d /\ \A s \in n.segments : s.decision # d},
           NEW m \in Included(Usages, Manifests), m \in N
    PROVE  m \in Included({u \in Usages : u.decision # d}, N)
<1> DEFINE V == {u \in Usages : u.decision # d}
<1>0. OneOfEachId(Usages) /\ IsFiniteSet(Manifests)
  BY Stored DEF Sound
<1>1. m \in Manifests /\ m \in Latest(Usages, Manifests) /\ Candidate(m) /\ Meets(Usages, m)
  BY DEF Included, Latest
<1>2. \A n \in N : SameReports(Usages, V, n)
  BY OtherReportNames
<1>3. \A n, k \in N : /\ Supersedes(V, n, k) <=> Supersedes(Usages, n, k)
                      /\ Collides(V, n, k) <=> Collides(Usages, n, k)
  BY <1>2, SameRelations
<1>4. Meets(V, m)
  <2> SUFFICES ASSUME NEW s \in m.segments
               PROVE  \E u \in Named(V, s) : /\ Eligible(u)
                                             /\ SelectedReport(u, Group(V, Owner(s)))
                                             /\ u.stream \notin Reused(V)
    BY DEF Meets
  <2>1. PICK u \in Named(Usages, s) : /\ Eligible(u)
                                      /\ SelectedReport(u, Group(Usages, Owner(s)))
                                      /\ u.stream \notin Reused(Usages)
    BY <1>1 DEF Meets
  <2>2. u \in Named(V, s)
    BY <1>2, SameNamed
  <2>3. Group(V, Owner(s)) = Group(Usages, Owner(s))
    BY DEF Group, Owner
  <2>4. u.stream \notin Reused(V)
    BY <2>1 DEF Reused
  <2> QED
    BY <2>1, <2>2, <2>3, <2>4
<1> HIDE DEF V
<1>5. m \in Latest(V, N)
  BY <1>1, <1>3 DEF Latest
<1>6. ASSUME NEW n \in Latest(V, N), n # m, n.laya, Collides(V, m, n) PROVE FALSE
  <2>1. n \in N /\ n \in Manifests /\ Collides(Usages, m, n)
    BY <1>3, <1>6 DEF Latest
  <2>2. Supersedes(Usages, m, n)
    BY <1>0, <1>6, <2>1, Clear DEF OneMode
  <2>3. Supersedes(V, m, n)
    BY <1>3, <2>1, <2>2
  <2> QED
    BY <1>6, <2>3 DEF Latest
<1>7. m \in Included(V, N)
  BY <1>1, <1>4, <1>5, <1>6 DEF Included
<1> QED
  BY <1>7 DEF V

LEMMA EvidenceStep ==
    ASSUME Sound, OneMode, [Next]_vars, NEW m \in RunsOf(Decisions), m \in stored'
    PROVE  \/ m \in RunsOf(Decisions)'
           \/ \E e \in stored' \ stored : Contradicts(e, m)
           \/ UNCHANGED vars
<1>0. Inv /\ Manifests \subseteq Manifest
  BY Stored DEF Sound
<1>1. m \in Included(Usages, Manifests) /\ m \in Manifests
  BY <1>0, WholeTime DEF RunsOf, Included, Latest
<1>2. RunsOf(Decisions)' = Included(Usages', Offered(Usages', Manifests', Decisions))
  BY DEF RunsOf
<1>3. ASSUME Manifests' \subseteq Manifest
      PROVE  RunsOf(Decisions)' = Included(Usages', Manifests')
  BY <1>2, <1>3, WholeTime
<1>4. ASSUME NEW e \in Events, Arrive(e), ~Contradicts(e, m)
      PROVE  m \in RunsOf(Decisions)'
  <2>1. CASE e.kind = "usage"
    <3>1. /\ e \in Usage /\ Usages' = Usages \cup {e} /\ Manifests' = Manifests
          /\ \A u \in Usages : u.id # e.id
      BY <1>0, <1>4, <2>1, ArriveTables DEF Usages
    <3>2. m \in Included(Usages \cup {e}, Manifests)
      BY <1>1, <1>4, <2>1, <3>1, ReportKeepsRun
    <3> QED
      BY <1>0, <1>3, <3>1, <3>2
  <2>2. CASE e.kind # "usage"
    <3>1. /\ e.kind = "run_manifest" /\ e \in Manifest /\ Anchored(e)
          /\ Usages' = Usages /\ Manifests' = Manifests \cup {e}
      BY <1>0, <1>4, <2>2, ArriveTables
    <3>2. m \in Included(Usages, Manifests \cup {e})
      BY <1>1, <1>4, <3>1, RunKeepsRun
    <3> QED
      BY <1>0, <1>3, <3>1, <3>2
  <2> QED
    BY <2>1, <2>2
<1>5. ASSUME NEW e \in Events, Arrive(e) PROVE e \in stored' \ stored
  BY <1>0, <1>5, ArriveTables
<1>6. ASSUME NEW d \in Decisions, Delete(d) PROVE m \in RunsOf(Decisions)'
  <2>1. /\ Usages' = {u \in Usages : u.decision # d}
        /\ Manifests' = {n \in Manifests : /\ n.decision # d
                                           /\ \A s \in n.segments : s.decision # d}
    BY <1>0, <1>6, DeleteTables
  <2>2. m \in Manifests'
    BY <1>1 DEF Manifests
  <2>3. m \in Included({u \in Usages : u.decision # d}, Manifests')
    BY <1>1, <2>1, <2>2, DeletionKeepsRun
  <2> QED
    BY <1>0, <1>3, <2>1, <2>3
<1> QED
  BY <1>4, <1>5, <1>6 DEF Next

\* A run leaves the estimate only with a decision it names, or for evidence
\* against it: a newer report, a stream used twice, a later snapshot, another
\* run with its identity or its attempts (usage.rs and scenario.rs).
THEOREM OnlyEvidenceEverDrops == Spec => OnlyEvidenceDrops
<1>1. Sound /\ [Next]_vars =>
        [OneMode => \A m \in RunsOf(Decisions) :
          \/ m \in RunsOf(Decisions)' \/ m \notin stored'
          \/ \E e \in stored' \ stored : Contradicts(e, m)]_vars
  BY EvidenceStep
<1> QED
  BY <1>1, SoundInit, SoundNext, PTL DEF Spec, OnlyEvidenceDrops

-----------------------------------------------------------------------------
(* Sums over finite sets.                                                 *)

\* A set of subsets of S that has each one whose smaller ones it has, has all.
LEMMA BySubsets ==
    ASSUME NEW S, IsFiniteSet(S), NEW P,
           \A T \in SUBSET S : (\A x \in T : T \ {x} \in P) => T \in P
    PROVE  \A T \in SUBSET S : T \in P
<1> SUFFICES ASSUME NEW T0 \in SUBSET S, T0 \notin P PROVE FALSE
  OBVIOUS
<1> DEFINE Sizes == {Cardinality(T) : T \in {T \in SUBSET S : T \notin P}}
<1>1. \A T \in SUBSET S : IsFiniteSet(T) /\ Cardinality(T) \in Nat
  BY FS_Subset, FS_CardinalityType
<1>2. Sizes \subseteq Nat /\ Sizes # {}
  BY <1>1
<1>3. PICK n \in Sizes : \A k \in Sizes : n <= k
  <2> HIDE DEF Sizes
  <2> QED
    BY <1>2, Least
<1>4. PICK T \in SUBSET S : T \notin P /\ n = Cardinality(T)
  BY <1>3
<1>5. ASSUME NEW x \in T PROVE T \ {x} \in P
  <2>1. T \ {x} \in SUBSET S /\ Cardinality(T \ {x}) = Cardinality(T) - 1
    BY <1>1, FS_RemoveElement
  <2>2. ~(n <= Cardinality(T \ {x})) /\ n \in Nat
    BY <1>1, <1>4, <2>1
  <2>3. Cardinality(T \ {x}) \notin Sizes
    BY <1>3, <2>2
  <2> QED
    BY <2>1, <2>3
<1> QED
  BY <1>4, <1>5

\* g adds f up, taking the elements of a set in the order of CHOOSE.
Chosen(g, f, S) ==
    g = [T \in SUBSET S |-> IF T = {} THEN 0
            ELSE f[CHOOSE x \in T : TRUE] + g[T \ {CHOOSE x \in T : TRUE}]]

\* g adds f up over every subset of S, in any order.
IsSum(g, f, S) ==
    /\ g \in [SUBSET S -> Nat]
    /\ g[{}] = 0
    /\ \A T \in SUBSET S : \A x \in T : g[T] = f[x] + g[T \ {x}]

LEMMA ChosenIsSum ==
    ASSUME NEW S, IsFiniteSet(S), NEW f \in [S -> Nat], NEW g, Chosen(g, f, S)
    PROVE  IsSum(g, f, S)
<1>1. g[{}] = 0 /\ DOMAIN g = SUBSET S
  BY DEF Chosen
<1>2. ASSUME NEW T \in SUBSET S, T # {}
      PROVE  \E x \in T : g[T] = f[x] + g[T \ {x}]
  <2>1. (CHOOSE x \in T : TRUE) \in T
    BY <1>2
  <2>2. g[T] = f[CHOOSE x \in T : TRUE] + g[T \ {CHOOSE x \in T : TRUE}]
    BY <1>2 DEF Chosen
  <2> QED
    BY <2>1, <2>2
<1>3. \A T \in SUBSET S : g[T] \in Nat
  <2> DEFINE P == {T \in SUBSET S : g[T] \in Nat}
  <2>1. ASSUME NEW T \in SUBSET S, \A x \in T : T \ {x} \in P PROVE T \in P
    <3>1. CASE T = {}
      BY <1>1, <3>1
    <3>2. CASE T # {}
      <4>1. PICK x \in T : g[T] = f[x] + g[T \ {x}]
        BY <1>2, <3>2
      <4>2. g[T \ {x}] \in Nat /\ f[x] \in Nat
        BY <2>1
      <4> QED
        BY <4>1, <4>2
    <3> QED
      BY <3>1, <3>2
  <2> HIDE DEF P
  <2>2. \A T \in SUBSET S : T \in P
    BY <2>1, BySubsets
  <2> QED
    BY <2>2 DEF P
<1>4. \A T \in SUBSET S : \A x \in T : g[T] = f[x] + g[T \ {x}]
  <2> DEFINE P == {T \in SUBSET S : \A x \in T : g[T] = f[x] + g[T \ {x}]}
  <2>1. ASSUME NEW T \in SUBSET S, \A x \in T : T \ {x} \in P PROVE T \in P
    <3> SUFFICES ASSUME NEW x \in T PROVE g[T] = f[x] + g[T \ {x}]
      OBVIOUS
    <3>1. PICK y \in T : g[T] = f[y] + g[T \ {y}]
      BY <1>2
    <3>2. CASE x = y
      BY <3>1, <3>2
    <3>3. CASE x # y
      <4>1. g[T \ {y}] = f[x] + g[(T \ {y}) \ {x}]
        BY <2>1, <3>3
      <4>2. g[T \ {x}] = f[y] + g[(T \ {x}) \ {y}]
        BY <2>1, <3>3
      <4>3. (T \ {x}) \ {y} = (T \ {y}) \ {x} /\ (T \ {x}) \ {y} \in SUBSET S
        OBVIOUS
      <4>4. f[x] \in Nat /\ f[y] \in Nat /\ g[(T \ {x}) \ {y}] \in Nat
        BY <1>3, <4>3
      <4> QED
        BY <3>1, <4>1, <4>2, <4>3, <4>4
    <3> QED
      BY <3>2, <3>3
  <2> HIDE DEF P
  <2>2. \A T \in SUBSET S : T \in P
    BY <2>1, BySubsets
  <2> QED
    BY <2>2 DEF P
<1>5. g \in [SUBSET S -> Nat]
  <2>1. g = [T \in SUBSET S |-> g[T]]
    BY DEF Chosen
  <2> QED
    BY <1>3, <2>1
<1> QED
  BY <1>1, <1>4, <1>5 DEF IsSum

\* Two ways to add the same numbers up agree.
LEMMA SumUnique ==
    ASSUME NEW S, IsFiniteSet(S), NEW f, NEW g, NEW h, IsSum(g, f, S), IsSum(h, f, S)
    PROVE  g = h
<1> DEFINE P == {T \in SUBSET S : g[T] = h[T]}
<1>1. ASSUME NEW T \in SUBSET S, \A x \in T : T \ {x} \in P PROVE T \in P
  <2>1. CASE T = {}
    BY <2>1 DEF IsSum
  <2>2. CASE T # {}
    <3>1. PICK x \in T : TRUE
      BY <2>2
    <3>2. g[T] = f[x] + g[T \ {x}] /\ h[T] = f[x] + h[T \ {x}]
      BY DEF IsSum
    <3> QED
      BY <1>1, <3>1, <3>2
  <2> QED
    BY <2>1, <2>2
<1> HIDE DEF P
<1>2. \A T \in SUBSET S : T \in P
  BY <1>1, BySubsets
<1> QED
  BY <1>2 DEF P, IsSum

\* A finite set of numbers has a sum: one number of elements more at a time.
LEMMA ChosenExists ==
    ASSUME NEW S, IsFiniteSet(S), NEW f \in [S -> Nat]
    PROVE  \E g : Chosen(g, f, S)
<1> DEFINE Step(g, T) == IF T = {} THEN 0
                ELSE f[CHOOSE x \in T : TRUE] + g[T \ {CHOOSE x \in T : TRUE}]
           Up(n, g) == /\ g \in [SUBSET S -> Nat]
                       /\ \A T \in SUBSET S : Cardinality(T) <= n => g[T] = Step(g, T)
           Bad == {n \in Nat : ~ \E g : Up(n, g)}
<1>0. \A T \in SUBSET S : IsFiniteSet(T) /\ Cardinality(T) \in Nat
                          /\ (Cardinality(T) = 0 <=> T = {})
  BY FS_Subset, FS_CardinalityType, FS_EmptySet
<1>1. Up(0, [T \in SUBSET S |-> 0])
  BY <1>0
<1>2. ASSUME NEW n \in Nat, NEW g, Up(n, g) PROVE \E h : Up(n + 1, h)
  <2> DEFINE h == [T \in SUBSET S |-> Step(g, T)]
  <2>1. h \in [SUBSET S -> Nat]
    <3> SUFFICES ASSUME NEW T \in SUBSET S PROVE Step(g, T) \in Nat
      OBVIOUS
    <3>1. CASE T # {}
      <4>1. (CHOOSE x \in T : TRUE) \in T
        BY <3>1
      <4>2. f[CHOOSE x \in T : TRUE] \in Nat /\ g[T \ {CHOOSE x \in T : TRUE}] \in Nat
        BY <1>2, <4>1
      <4> QED
        BY <4>2
    <3> QED
      BY <3>1
  <2>2. ASSUME NEW T \in SUBSET S, Cardinality(T) <= n + 1 PROVE h[T] = Step(h, T)
    <3>1. CASE T # {}
      <4>1. PICK x \in T : x = CHOOSE y \in T : TRUE
        BY <3>1
      <4>2. T \ {x} \in SUBSET S /\ Cardinality(T \ {x}) <= n
        BY <1>0, <2>2, FS_RemoveElement
      <4>3. g[T \ {x}] = h[T \ {x}]
        BY <1>2, <4>2
      <4> QED
        BY <3>1, <4>1, <4>3
    <3> QED
      BY <3>1
  <2> HIDE DEF h
  <2> QED
    BY <2>1, <2>2
<1>3. Bad = {}
  <2> SUFFICES ASSUME Bad # {} PROVE FALSE
    OBVIOUS
  <2> HIDE DEF Up
  <2>0. Bad \subseteq Nat
    OBVIOUS
  <2>1. PICK n \in Bad : \A k \in Bad : n <= k
    <3> HIDE DEF Bad
    <3> QED
      BY <2>0, Least
  <2>2. n # 0
    BY <1>1
  <2>3. n - 1 \in Nat /\ n - 1 \notin Bad
    BY <2>1, <2>2
  <2>4. PICK g : Up(n - 1, g)
    BY <2>3
  <2>5. \E h : Up((n - 1) + 1, h)
    BY <1>2, <2>3, <2>4
  <2>6. (n - 1) + 1 = n
    BY <2>1
  <2> QED
    BY <2>1, <2>5, <2>6
<1>4. PICK g : Up(Cardinality(S), g)
  <2> HIDE DEF Up
  <2> QED
    BY <1>0, <1>3
<1>5. \A T \in SUBSET S : Cardinality(T) <= Cardinality(S)
  BY <1>0, FS_Subset
<1>6. g = [T \in SUBSET S |-> Step(g, T)]
  BY <1>4, <1>5
<1> QED
  BY <1>6 DEF Chosen

\* Disjoint sets add up, and more is not less.
LEMMA SumUnion ==
    ASSUME NEW S, IsFiniteSet(S), NEW f \in [S -> Nat], NEW g, IsSum(g, f, S),
           NEW A \in SUBSET S, NEW B \in SUBSET S, A \cap B = {}
    PROVE  g[A \cup B] = g[A] + g[B]
<1> DEFINE P == {T \in SUBSET S : T \cap B = {} => g[T \cup B] = g[T] + g[B]}
<1>0. \A T \in SUBSET S : g[T] \in Nat
  BY DEF IsSum
<1>1. ASSUME NEW T \in SUBSET S, \A x \in T : T \ {x} \in P PROVE T \in P
  <2>1. CASE T = {}
    <3>1. g[T] = 0 /\ T \cup B = B
      BY <2>1 DEF IsSum
    <3>2. g[B] \in Nat
      BY <1>0
    <3>3. g[T \cup B] = g[T] + g[B]
      BY <3>1, <3>2
    <3> QED
      BY <3>3
  <2>2. CASE T # {}
    <3> SUFFICES ASSUME T \cap B = {} PROVE g[T \cup B] = g[T] + g[B]
      OBVIOUS
    <3>1. PICK x \in T : TRUE
      BY <2>2
    <3>2. g[(T \ {x}) \cup B] = g[T \ {x}] + g[B]
      BY <1>1, <3>1
    <3>3. (T \cup B) \ {x} = (T \ {x}) \cup B /\ T \cup B \in SUBSET S /\ x \in T \cup B
      BY <3>1
    <3>4. g[T] = f[x] + g[T \ {x}] /\ g[T \cup B] = f[x] + g[(T \ {x}) \cup B]
      BY <3>1, <3>3 DEF IsSum
    <3>5. f[x] \in Nat /\ g[T \ {x}] \in Nat /\ g[B] \in Nat
      BY <1>0, <3>1
    <3> QED
      BY <3>2, <3>4, <3>5
  <2> QED
    BY <2>1, <2>2
<1> HIDE DEF P
<1>2. \A T \in SUBSET S : T \in P
  BY <1>1, BySubsets
<1> QED
  BY <1>2 DEF P

LEMMA SumMonotonic ==
    ASSUME NEW S, IsFiniteSet(S), NEW f \in [S -> Nat], NEW g, IsSum(g, f, S),
           NEW A \in SUBSET S, NEW B \in SUBSET S, A \subseteq B
    PROVE  g[A] <= g[B]
<1>1. B \ A \in SUBSET S /\ A \cap (B \ A) = {} /\ A \cup (B \ A) = B
  OBVIOUS
<1>2. g[B] = g[A] + g[B \ A]
  BY <1>1, SumUnion
<1>3. g[A] \in Nat /\ g[B \ A] \in Nat /\ g[B] \in Nat
  BY <1>1 DEF IsSum
<1> QED
  BY <1>2, <1>3

-----------------------------------------------------------------------------
(* The sums of the dashboard.                                              *)

LEMMA OwnersFinite ==
    ASSUME NEW U, IsFiniteSet(U), NEW W
    PROVE  IsFiniteSet(OwnersIn(U, W))
<1> DEFINE V == {u \in U : u.decision \in W}
           f == [u \in V |-> Owner(u)]
<1>1. IsFiniteSet(V)
  BY FS_Subset
<1>2. f \in Surjection(V, OwnersIn(U, W))
  BY DEF Surjection, OwnersIn
<1> QED
  BY <1>1, <1>2, FS_Surjection

\* A run has no more segments than there are reports.
LEMMA SegmentsFinite ==
    ASSUME Sound, NEW m \in Manifests
    PROVE  IsFiniteSet(m.segments)
<1> DEFINE V == {u \in Usages : \E s \in m.segments : u.id = s.usage}
           f == [u \in V |-> CHOOSE s \in m.segments : u.id = s.usage]
<1>1. Anchored(m)
  BY EventsAssumption DEF Sound, Inv, TypeOK, Manifests
<1>2. IsFiniteSet(V)
  BY Stored, FS_Subset DEF Sound
<1>3. f \in [V -> m.segments]
  OBVIOUS
<1>4. ASSUME NEW s \in m.segments PROVE \E u \in V : f[u] = s
  <2>1. PICK u \in Named(Usages, s) : TRUE
    BY DEF Sound, References
  <2>2. u \in V /\ u.id = s.usage
    BY <2>1 DEF Named
  <2>3. \A t \in m.segments : u.id = t.usage => t = s
    BY <1>1, <2>2 DEF Anchored
  <2> QED
    BY <2>2, <2>3
<1>5. f \in Surjection(V, m.segments)
  BY <1>3, <1>4 DEF Surjection
<1> QED
  BY <1>2, <1>5, FS_Surjection

\* What the segments of a run spent, when each has one number of tokens.
LEMMA TokensSum ==
    ASSUME NEW U, NEW m, IsFiniteSet(m.segments), NEW f \in [m.segments -> Nat],
           \A s \in m.segments : f[s] = (CHOOSE u \in Named(U, s) : TRUE).tokens
    PROVE  \E g : IsSum(g, f, m.segments) /\ TokensOf(U, m) = g[m.segments]
<1> DEFINE tok(s) == (CHOOSE u \in Named(U, s) : TRUE).tokens
           body(g) == [T \in SUBSET m.segments |-> IF T = {} THEN 0
                ELSE tok(CHOOSE x \in T : TRUE) + g[T \ {CHOOSE x \in T : TRUE}]]
           G == CHOOSE g : g = body(g)
<1>1. TokensOf(U, m) = G[m.segments]
  BY Zenon DEF TokensOf, MapThenSumSet, MapThenFoldSet
<1>2. \A s \in m.segments : f[s] = tok(s)
  OBVIOUS
<1> HIDE DEF tok
<1>3. ASSUME NEW g PROVE Chosen(g, f, m.segments) <=> g = body(g)
  <2>1. ASSUME NEW T \in SUBSET m.segments, T # {}
        PROVE  f[CHOOSE x \in T : TRUE] = tok(CHOOSE x \in T : TRUE)
    <3>1. (CHOOSE x \in T : TRUE) \in m.segments
      BY <2>1
    <3> QED
      BY <1>2, <3>1
  <2>2. [T \in SUBSET m.segments |-> IF T = {} THEN 0
            ELSE f[CHOOSE x \in T : TRUE] + g[T \ {CHOOSE x \in T : TRUE}]] = body(g)
    BY <2>1
  <2> QED
    BY <2>2 DEF Chosen
<1> HIDE DEF body
<1>4. PICK h : h = body(h)
  BY <1>3, ChosenExists
<1>5. G = body(G)
  BY <1>4
<1>6. IsSum(G, f, m.segments)
  BY <1>3, <1>5, ChosenIsSum
<1> QED
  BY <1>1, <1>6

\* What the runs of a window spent.
LEMMA ActualSum ==
    ASSUME NEW U, NEW O, IsFiniteSet(Included(U, O)), NEW f \in [Included(U, O) -> Nat],
           \A m \in Included(U, O) : f[m] = TokensOf(U, m),
           Summarized(U, O).actual # Nothing
    PROVE  \E g : IsSum(g, f, Included(U, O)) /\ Summarized(U, O).actual = g[Included(U, O)]
<1> DEFINE R == Included(U, O)
           body(g) == [T \in SUBSET R |-> IF T = {} THEN 0
                ELSE TokensOf(U, CHOOSE x \in T : TRUE) + g[T \ {CHOOSE x \in T : TRUE}]]
           G == CHOOSE g : g = body(g)
<1>1. Summarized(U, O).actual = MapThenSumSet(LAMBDA m : TokensOf(U, m), R)
  BY Zenon DEF Summarized
<1>2. MapThenSumSet(LAMBDA m : TokensOf(U, m), R) = G[R]
  BY Zenon DEF MapThenSumSet, MapThenFoldSet
<1> HIDE DEF R
<1>3. ASSUME NEW g PROVE Chosen(g, f, R) <=> g = body(g)
  <2>1. ASSUME NEW T \in SUBSET R, T # {}
        PROVE  f[CHOOSE x \in T : TRUE] = TokensOf(U, CHOOSE x \in T : TRUE)
    <3>1. (CHOOSE x \in T : TRUE) \in R
      BY <2>1
    <3> QED
      BY <3>1 DEF R
  <2>2. [T \in SUBSET R |-> IF T = {} THEN 0
            ELSE f[CHOOSE x \in T : TRUE] + g[T \ {CHOOSE x \in T : TRUE}]] = body(g)
    BY <2>1
  <2> QED
    BY <2>2 DEF Chosen
<1> HIDE DEF body
<1>4. PICK h : h = body(h)
  BY <1>3, ChosenExists DEF R
<1>5. G = body(G)
  BY <1>4
<1>6. IsSum(G, f, R)
  BY <1>3, <1>5, ChosenIsSum DEF R
<1> QED
  BY <1>1, <1>2, <1>6 DEF R

\* What the reports that are counted say.
LEMMA TotalSum ==
    ASSUME NEW U, NEW W, NEW C, C = Recorded(U, W).counted, IsFiniteSet(C), NEW f \in [C -> Nat],
           \A o \in C : f[o] = (CHOOSE u \in Selection(Group(U, o), Reused(U)) : TRUE).tokens,
           Recorded(U, W).total # Nothing
    PROVE  \E g : IsSum(g, f, C) /\ Recorded(U, W).total = g[C]
<1> DEFINE tok(o) == (CHOOSE u \in Selection(Group(U, o), Reused(U)) : TRUE).tokens
           body(g) == [T \in SUBSET C |-> IF T = {} THEN 0
                ELSE tok(CHOOSE x \in T : TRUE) + g[T \ {CHOOSE x \in T : TRUE}]]
           G == CHOOSE g : g = body(g)
<1>0. C = {o \in OwnersIn(U, W) : Selection(Group(U, o), Reused(U)) # {}}
  BY DEF Recorded
<1>1. Recorded(U, W).total = MapThenSumSet(LAMBDA o : tok(o), C)
  BY <1>0, Zenon DEF Recorded
<1>2. MapThenSumSet(LAMBDA o : tok(o), C) = G[C]
  BY Zenon DEF MapThenSumSet, MapThenFoldSet
<1>3. \A o \in C : f[o] = tok(o)
  OBVIOUS
<1> HIDE DEF tok
<1>4. ASSUME NEW g PROVE Chosen(g, f, C) <=> g = body(g)
  <2>1. ASSUME NEW T \in SUBSET C, T # {}
        PROVE  f[CHOOSE x \in T : TRUE] = tok(CHOOSE x \in T : TRUE)
    <3>1. (CHOOSE x \in T : TRUE) \in C
      BY <2>1
    <3> QED
      BY <1>3, <3>1
  <2>2. [T \in SUBSET C |-> IF T = {} THEN 0
            ELSE f[CHOOSE x \in T : TRUE] + g[T \ {CHOOSE x \in T : TRUE}]] = body(g)
    BY <2>1
  <2> QED
    BY <2>2 DEF Chosen
<1> HIDE DEF body
<1>5. PICK h : h = body(h)
  BY <1>4, ChosenExists
<1>6. G = body(G)
  BY <1>5
<1>7. IsSum(G, f, C)
  BY <1>4, <1>6, ChosenIsSum
<1> QED
  BY <1>1, <1>2, <1>7

\* The sum of what the runs of a window spent is the part of the total that
\* their attempts are: each of them is counted, and in one run.
LEMMA InvSpent == Sound => SpentIsRecorded
<1> SUFFICES ASSUME Sound, NEW W \in SUBSET Decisions,
                    Recorded(Usages, W).total # Nothing, ScenarioOf(W).actual # Nothing
             PROVE  ScenarioOf(W).actual <= Recorded(Usages, W).total
  BY DEF SpentIsRecorded
<1> DEFINE O == Offered(Usages, Manifests, W)
           R == RunsOf(W)
           C == Recorded(Usages, W).counted
           Select(o) == Selection(Group(Usages, o), Reused(Usages))
           fc == [o \in C |-> (CHOOSE u \in Select(o) : TRUE).tokens]
           fr == [m \in R |-> TokensOf(Usages, m)]
           fs(m) == [s \in m.segments |-> (CHOOSE u \in Named(Usages, s) : TRUE).tokens]
           All(T) == UNION {OwnersOf(m) : m \in T}
<1>0. /\ Inv /\ OneOfEachId(Usages) /\ Usages \subseteq Usage
      /\ IsFiniteSet(Usages) /\ IsFiniteSet(Manifests) /\ Manifests \subseteq Manifest
  BY Stored DEF Sound, OneOfEachId
<1>1. /\ \A m \in R : OwnersOf(m) \subseteq C
      /\ \A m \in R : \A s \in m.segments : \E u \in Named(Usages, s) :
            \A v \in Select(Owner(s)) : u.tokens = v.tokens
      /\ \A m \in R : \A n \in R \ {m} : OwnersOf(m) \cap OwnersOf(n) = {}
  BY <1>0, InvOnce DEF CountedOnce
<1>2. ASSUME NEW m \in R PROVE m \in Manifests /\ Anchored(m) /\ IsFiniteSet(m.segments)
  <2>1. m \in O /\ Candidate(m)
    BY DEF RunsOf, Included, Latest
  <2>2. m \in Manifests
    BY <1>0, <2>1, StrippedLatest DEF Offered, InScope, RunsOf, Included
  <2> QED
    BY <1>0, <2>2, SegmentsFinite, EventsAssumption DEF Inv, TypeOK, Manifests
<1>3. C = {o \in OwnersIn(Usages, W) : Select(o) # {}}
  BY DEF Recorded
<1>4. IsFiniteSet(C) /\ IsFiniteSet(R)
  <2>1. R \subseteq Manifests
    BY <1>2
  <2> QED
    BY <1>0, <1>3, <2>1, OwnersFinite, FS_Subset
<1>5. ASSUME NEW o \in C PROVE fc[o] \in Nat
  <2>1. PICK v \in Select(o) : v = CHOOSE u \in Select(o) : TRUE
    BY <1>3
  <2>2. v.tokens # Nothing /\ v \in Usage
    BY <1>0, <2>1 DEF Selection, Usable, Speakers, Newest, Ordered, Legacy, Group
  <2> QED
    BY <2>1, <2>2 DEF Usage, Tokens
<1>6. ASSUME NEW m \in R, NEW s \in m.segments
      PROVE  Owner(s) \in C /\ fs(m)[s] = fc[Owner(s)]
  <2>1. Owner(s) \in C
    BY <1>1 DEF OwnersOf
  <2>2. PICK u \in Named(Usages, s) : \A v \in Select(Owner(s)) : u.tokens = v.tokens
    BY <1>1
  <2>3. u = CHOOSE w \in Named(Usages, s) : TRUE
    BY <1>0, NamedOnce
  <2>4. (CHOOSE v \in Select(Owner(s)) : TRUE) \in Select(Owner(s))
    BY <1>3, <2>1
  <2> QED
    BY <2>1, <2>2, <2>3, <2>4
<1>7. fc \in [C -> Nat]
  BY <1>5
<1>8. PICK gc : IsSum(gc, fc, C) /\ Recorded(Usages, W).total = gc[C]
  <2>1. PICK U, D, f : U = Usages /\ D = C /\ f = fc
    OBVIOUS
  <2>2. /\ D = Recorded(U, W).counted /\ IsFiniteSet(D) /\ f \in [D -> Nat]
        /\ Recorded(U, W).total # Nothing
    BY <1>4, <1>7, <2>1
  <2>3. \A o \in D : f[o] = (CHOOSE u \in Selection(Group(U, o), Reused(U)) : TRUE).tokens
    BY <2>1
  <2> HIDE DEF C, fc
  <2>4. \E g : IsSum(g, f, D) /\ Recorded(U, W).total = g[D]
    BY <2>2, <2>3, TotalSum
  <2> QED
    BY <2>1, <2>4
<1> HIDE DEF R, C, Select, fc, fs
<1>9. ASSUME NEW m \in R PROVE TokensOf(Usages, m) = gc[OwnersOf(m)]
  <2>1. fs(m) \in [m.segments -> Nat]
    BY <1>5, <1>6 DEF fs
  <2>2. PICK gm : IsSum(gm, fs(m), m.segments) /\ TokensOf(Usages, m) = gm[m.segments]
    BY <1>2, <2>1, TokensSum DEF fs
  <2> DEFINE Img(T) == {Owner(s) : s \in T}
             P == {T \in SUBSET m.segments : gm[T] = gc[Img(T)]}
  <2>3. ASSUME NEW T \in SUBSET m.segments, \A x \in T : T \ {x} \in P PROVE T \in P
    <3>1. CASE T = {}
      <4>1. Img(T) = {}
        BY <3>1
      <4> QED
        BY <1>8, <2>2, <3>1, <4>1 DEF IsSum
    <3>2. CASE T # {}
      <4>1. PICK x \in T : TRUE
        BY <3>2
      <4>2. Img(T \ {x}) = Img(T) \ {Owner(x)}
        BY <1>2 DEF Anchored
      <4>3. Img(T) \in SUBSET C /\ Owner(x) \in Img(T)
        BY <1>6
      <4>4. gm[T] = fs(m)[x] + gm[T \ {x}]
        BY <2>2 DEF IsSum
      <4>5. gc[Img(T)] = fc[Owner(x)] + gc[Img(T) \ {Owner(x)}]
        BY <1>8, <4>3 DEF IsSum
      <4>6. gm[T \ {x}] = gc[Img(T \ {x})] /\ fs(m)[x] = fc[Owner(x)]
        BY <1>6, <2>3
      <4> QED
        BY <4>2, <4>4, <4>5, <4>6
    <3> QED
      BY <3>1, <3>2
  <2> HIDE DEF P
  <2>4. \A T \in SUBSET m.segments : T \in P
    BY <1>2, <2>3, BySubsets
  <2>5. gm[m.segments] = gc[Img(m.segments)]
    BY <2>4 DEF P
  <2> QED
    BY <2>2, <2>5 DEF OwnersOf
<1>10. \A m \in R : OwnersOf(m) \in SUBSET C /\ gc[OwnersOf(m)] \in Nat
  BY <1>1, <1>8 DEF IsSum
<1>11. fr \in [R -> Nat]
  BY <1>9, <1>10
<1>12. PICK gr : IsSum(gr, fr, R) /\ ScenarioOf(W).actual = gr[R]
  BY <1>4, <1>11, ActualSum DEF R, RunsOf, ScenarioOf
<1>13. gr[R] = gc[All(R)]
  <2> DEFINE P == {T \in SUBSET R : gr[T] = gc[All(T)]}
  <2>1. ASSUME NEW T \in SUBSET R, \A x \in T : T \ {x} \in P PROVE T \in P
    <3>1. CASE T = {}
      <4>1. All(T) = {}
        BY <3>1
      <4> QED
        BY <1>8, <1>12, <3>1, <4>1 DEF IsSum
    <3>2. CASE T # {}
      <4>1. PICK x \in T : TRUE
        BY <3>2
      <4>2. All(T) = OwnersOf(x) \cup All(T \ {x})
        BY <4>1
      <4>3. OwnersOf(x) \cap All(T \ {x}) = {}
        BY <1>1, <4>1
      <4>4. OwnersOf(x) \in SUBSET C /\ All(T \ {x}) \in SUBSET C
        BY <1>10, <4>1
      <4>5. gc[All(T)] = gc[OwnersOf(x)] + gc[All(T \ {x})]
        <5>1. PICK A, B, D, f : A = OwnersOf(x) /\ B = All(T \ {x}) /\ D = C /\ f = fc
          OBVIOUS
        <5> HIDE DEF All
        <5>2. /\ A \in SUBSET D /\ B \in SUBSET D /\ A \cap B = {}
              /\ IsFiniteSet(D) /\ f \in [D -> Nat] /\ IsSum(gc, f, D)
          BY <1>4, <1>7, <1>8, <4>3, <4>4, <5>1
        <5>3. gc[A \cup B] = gc[A] + gc[B]
          BY <5>2, SumUnion
        <5> QED
          BY <4>2, <5>1, <5>3
      <4>6. gr[T] = fr[x] + gr[T \ {x}]
        BY <1>12, <4>1 DEF IsSum
      <4>7. fr[x] = gc[OwnersOf(x)] /\ gr[T \ {x}] = gc[All(T \ {x})]
        BY <1>9, <2>1, <4>1
      <4> QED
        BY <4>5, <4>6, <4>7
    <3> QED
      BY <3>1, <3>2
  <2> HIDE DEF P
  <2>2. \A T \in SUBSET R : T \in P
    BY <1>4, <2>1, BySubsets
  <2> QED
    BY <2>2 DEF P
<1>14. gc[All(R)] <= gc[C]
  <2>1. All(R) \in SUBSET C
    BY <1>10
  <2> HIDE DEF All
  <2> QED
    BY <1>4, <1>7, <1>8, <2>1, SumMonotonic
<1> QED
  BY <1>8, <1>12, <1>13, <1>14 DEF C
-----------------------------------------------------------------------------
(* The estimates.                                                          *)

LEMMA Arithmetic ==
    /\ \A x, y, z \in Nat : x * y \in Nat /\ (x * y) * z = x * (y * z)
    /\ \A x, y, z \in Nat : x * (y + z) = x * y + x * z
    /\ \A x \in Nat : x * 0 = 0
<1>1. ASSUME NEW x \in Nat, NEW y \in Nat PROVE x * y \in Nat
  OBVIOUS
<1>2. ASSUME NEW x \in Nat, NEW y \in Nat, NEW z \in Nat PROVE (x * y) * z = x * (y * z)
  OBVIOUS
<1>3. ASSUME NEW x \in Nat, NEW y \in Nat, NEW z \in Nat PROVE x * (y + z) = x * y + x * z
  OBVIOUS
<1>4. \A x \in Nat : x * 0 = 0
  OBVIOUS
<1> QED
  BY <1>1, <1>2, <1>3, <1>4

LEMMA Largest ==
    ASSUME NEW n \in Nat, NEW T \in SUBSET (1 .. n), T # {}
    PROVE  Max(T) \in T /\ \A y \in T : y <= Max(T)
<1> DEFINE Gaps == {n - y : y \in T}
<1>1. Gaps \subseteq Nat /\ Gaps # {}
  <2>1. \A y \in T : n - y \in Nat
    <3> SUFFICES ASSUME NEW y \in T PROVE n - y \in Nat
      OBVIOUS
    <3>1. y \in 1 .. n
      OBVIOUS
    <3> QED
      BY <3>1
  <2> QED
    BY <2>1
<1>2. PICK k \in Gaps : \A j \in Gaps : k <= j
  <2> HIDE DEF Gaps
  <2> QED
    BY <1>1, Least
<1>3. PICK x \in T : k = n - x
  OBVIOUS
<1>4. ASSUME NEW y \in T PROVE x >= y
  <2>1. x \in 1 .. n /\ y \in 1 .. n
    OBVIOUS
  <2>2. n - x <= n - y
    BY <1>2, <1>3
  <2> QED
    BY <2>1, <2>2
<1>5. Max(T) \in T /\ \A y \in T : Max(T) >= y
  BY <1>4 DEF Max
<1> QED
  BY <1>5

Assumption == [unit : Nat, kept : Nat, written : Nat]

\* The tokens that each stage reads once a pass, writes, and leaves behind,
\* and those of a stage that a later stage reads again.
Reads(scenario) ==
    [k \in DOMAIN scenario.stages |->
        scenario.stages[k].passes * (scenario.initial + scenario.stages[k].growth)]
Writes(scenario) == [k \in DOMAIN scenario.stages |-> scenario.stages[k].output]
Leaves(scenario) ==
    [k \in DOMAIN scenario.stages |->
        scenario.stages[k].growth + scenario.stages[k].output]
Pairs(T) == {p \in T \X T : p[1] < p[2]}
Rereads(scenario) ==
    [p \in Pairs(DOMAIN scenario.stages) |->
        scenario.stages[p[2]].passes * Leaves(scenario)[p[1]]]

LEMMA StageTypes ==
    ASSUME NEW scenario \in Scenario
    PROVE  LET D == DOMAIN scenario.stages IN
           /\ D = 1 .. Len(scenario.stages) /\ Len(scenario.stages) \in Nat
           /\ IsFiniteSet(D) /\ IsFiniteSet(Pairs(D))
           /\ scenario.initial \in Nat
           /\ \A k \in D : /\ scenario.stages[k].passes \in Nat
                           /\ scenario.stages[k].growth \in Nat
                           /\ scenario.stages[k].output \in Nat
           /\ Reads(scenario) \in [D -> Nat] /\ Writes(scenario) \in [D -> Nat]
           /\ Leaves(scenario) \in [D -> Nat] /\ Rereads(scenario) \in [Pairs(D) -> Nat]
<1> DEFINE At == scenario.stages
           D == DOMAIN At
<1>1. At \in Seq(Stage) /\ scenario.initial \in Nat
  BY DEF Scenario
<1>2. D = 1 .. Len(At) /\ Len(At) \in Nat
  BY <1>1
<1>3. IsFiniteSet(D)
  BY <1>2, FS_Interval
<1>4. IsFiniteSet(Pairs(D))
  <2>1. IsFiniteSet(D \X D)
    BY <1>3, FS_Product
  <2> QED
    BY <2>1, FS_Subset DEF Pairs
<1>5. \A k \in D : At[k].passes \in Nat /\ At[k].growth \in Nat /\ At[k].output \in Nat
  <2>1. \A k \in D : At[k] \in Stage
    BY <1>1
  <2> QED
    BY <2>1 DEF Stage
<1>6. /\ Reads(scenario) \in [D -> Nat] /\ Writes(scenario) \in [D -> Nat]
      /\ Leaves(scenario) \in [D -> Nat]
  <2>1. \A k \in D : /\ At[k].passes * (scenario.initial + At[k].growth) \in Nat
                     /\ At[k].growth + At[k].output \in Nat
    <3> SUFFICES ASSUME NEW k \in D
                 PROVE  /\ At[k].passes * (scenario.initial + At[k].growth) \in Nat
                        /\ At[k].growth + At[k].output \in Nat
      OBVIOUS
    <3>1. PICK x \in Nat, y \in Nat, z \in Nat :
              x = At[k].passes /\ y = scenario.initial /\ z = At[k].growth
      BY <1>1, <1>5
    <3>2. x * (y + z) \in Nat /\ At[k].growth + At[k].output \in Nat
      BY <1>5, Arithmetic
    <3> QED
      BY <3>1, <3>2
  <2> QED
    BY <1>5, <2>1 DEF Reads, Writes, Leaves
<1>7. Rereads(scenario) \in [Pairs(D) -> Nat]
  <2> SUFFICES ASSUME NEW p \in Pairs(D)
               PROVE  At[p[2]].passes * Leaves(scenario)[p[1]] \in Nat
    BY DEF Rereads
  <2>1. PICK x \in Nat, y \in Nat : x = At[p[2]].passes /\ y = Leaves(scenario)[p[1]]
    BY <1>5, <1>6 DEF Pairs
  <2>2. x * y \in Nat
    BY Arithmetic
  <2> QED
    BY <2>1, <2>2
<1> QED
  BY <1>1, <1>2, <1>3, <1>4, <1>5, <1>6, <1>7

\* Each stage of V before stage x is read again x's passes times.
LEMMA RereadsOfStage ==
    ASSUME NEW scenario \in Scenario, NEW D, D = DOMAIN scenario.stages,
           NEW gL, IsSum(gL, Leaves(scenario), D),
           NEW gP, IsSum(gP, Rereads(scenario), Pairs(D)),
           NEW x \in D, NEW V \in SUBSET D, \A i \in V : i < x
    PROVE  gP[{<<i, x>> : i \in V}] = scenario.stages[x].passes * gL[V]
<1> DEFINE With(T) == {<<i, x>> : i \in T}
           q == scenario.stages[x].passes
           P == {T \in SUBSET D : (\A i \in T : i < x) => gP[With(T)] = q * gL[T]}
<1>0. /\ IsFiniteSet(D) /\ q \in Nat
      /\ Leaves(scenario) \in [D -> Nat]
  BY StageTypes
<1>1. ASSUME NEW T \in SUBSET D, \A y \in T : T \ {y} \in P PROVE T \in P
  <2> SUFFICES ASSUME \A i \in T : i < x PROVE gP[With(T)] = q * gL[T]
    OBVIOUS
  <2>1. CASE T = {}
    <3>1. With(T) = {} /\ gP[{}] = 0 /\ gL[{}] = 0
      BY <2>1 DEF IsSum
    <3> QED
      BY <1>0, <2>1, <3>1, Arithmetic
  <2>2. CASE T # {}
    <3>1. PICK y \in T : TRUE
      BY <2>2
    <3>2. With(T) \in SUBSET Pairs(D) /\ <<y, x>> \in With(T)
      BY <3>1 DEF Pairs
    <3>3. With(T \ {y}) = With(T) \ {<<y, x>>}
      OBVIOUS
    <3>4. gP[With(T)] = Rereads(scenario)[<<y, x>>] + gP[With(T \ {y})]
      <4>1. PICK Q, Z, z : Q = Pairs(D) /\ Z = With(T) /\ z = <<y, x>>
        OBVIOUS
      <4>2. gP[Z] = Rereads(scenario)[z] + gP[Z \ {z}]
        BY <3>2, <4>1 DEF IsSum
      <4> QED
        BY <3>3, <4>1, <4>2
    <3>5. Rereads(scenario)[<<y, x>>] = q * Leaves(scenario)[y]
      BY <3>2 DEF Rereads
    <3>6. gP[With(T \ {y})] = q * gL[T \ {y}]
      BY <1>1, <3>1
    <3>7. gL[T] = Leaves(scenario)[y] + gL[T \ {y}]
      BY <3>1 DEF IsSum
    <3>8. Leaves(scenario)[y] \in Nat /\ gL[T \ {y}] \in Nat
      BY <1>0, <3>1 DEF IsSum
    <3>9. q * (Leaves(scenario)[y] + gL[T \ {y}]) = q * Leaves(scenario)[y] + q * gL[T \ {y}]
      BY <1>0, <3>8, Arithmetic
    <3> HIDE DEF With, q
    <3> QED
      BY <3>4, <3>5, <3>6, <3>7, <3>9
  <2> QED
    BY <2>1, <2>2
<1> HIDE DEF P
<1>2. \A T \in SUBSET D : T \in P
  BY <1>0, <1>1, BySubsets
<1> QED
  BY <1>2 DEF P

\* The last stage of T adds what it reads of the others.
LEMMA PairsStep ==
    ASSUME NEW scenario \in Scenario, NEW D, D = DOMAIN scenario.stages,
           NEW gL, IsSum(gL, Leaves(scenario), D),
           NEW gP, IsSum(gP, Rereads(scenario), Pairs(D)),
           NEW T \in SUBSET D, NEW x \in T, \A y \in T : y <= x
    PROVE  gP[Pairs(T)] = gP[Pairs(T \ {x})] + scenario.stages[x].passes * gL[T \ {x}]
<1> DEFINE A == Pairs(T \ {x})
           B == {<<i, x>> : i \in T \ {x}}
<1>0. \A y \in D : y \in Nat
  BY StageTypes
<1>1. \A y \in T \ {x} : y < x
  BY <1>0
<1>2. Pairs(T) = A \cup B
  <2>1. ASSUME NEW p \in Pairs(T) PROVE p \in A \cup B
    <3>1. PICK i \in T, k \in T : p = <<i, k>> /\ i < k
      BY <2>1 DEF Pairs
    <3>2. i \in Nat /\ k \in Nat /\ x \in Nat /\ i <= x /\ k <= x
      BY <1>0
    <3>3. i # x
      BY <3>1, <3>2
    <3> QED
      BY <3>1, <3>3 DEF Pairs
  <2>2. A \cup B \subseteq Pairs(T)
    BY <1>1 DEF Pairs
  <2> QED
    BY <2>1, <2>2
<1>3. A \in SUBSET Pairs(D) /\ B \in SUBSET Pairs(D) /\ A \cap B = {}
  BY <1>1 DEF Pairs
<1>4. gP[B] = scenario.stages[x].passes * gL[T \ {x}]
  <2>1. PICK V \in SUBSET D : V = T \ {x}
    OBVIOUS
  <2>2. x \in D /\ \A i \in V : i < x
    BY <1>1, <2>1
  <2> HIDE DEF A, B
  <2>3. gP[{<<i, x>> : i \in V}] = scenario.stages[x].passes * gL[V]
    BY <2>2, RereadsOfStage
  <2> QED
    BY <2>1, <2>3 DEF B
<1>5. gP[A \cup B] = gP[A] + gP[B]
  <2>1. IsFiniteSet(Pairs(D)) /\ Rereads(scenario) \in [Pairs(D) -> Nat]
    BY StageTypes
  <2>2. PICK Q, X, Y, f : Q = Pairs(D) /\ X = A /\ Y = B /\ f = Rereads(scenario)
    OBVIOUS
  <2> HIDE DEF A, B
  <2>3. /\ X \in SUBSET Q /\ Y \in SUBSET Q /\ X \cap Y = {}
        /\ IsFiniteSet(Q) /\ f \in [Q -> Nat] /\ IsSum(gP, f, Q)
    BY <1>3, <2>1, <2>2
  <2>4. gP[X \cup Y] = gP[X] + gP[Y]
    BY <2>3, SumUnion
  <2> QED
    BY <2>2, <2>4
<1> QED
  BY <1>2, <1>4, <1>5

\* The sums over the stages D, and over their pairs.
Sums(scenario, D, gR, gO, gL, gP) ==
    /\ D = DOMAIN scenario.stages
    /\ IsSum(gR, Reads(scenario), D) /\ IsSum(gO, Writes(scenario), D)
    /\ IsSum(gL, Leaves(scenario), D) /\ IsSum(gP, Rereads(scenario), Pairs(D))

\* The fold over the stages is the sums over stages and pairs of stages.
LEMMA FoldIsSums ==
    ASSUME NEW scenario \in Scenario, NEW a \in Assumption,
           NEW D, NEW gR, NEW gO, NEW gL, NEW gP, Sums(scenario, D, gR, gO, gL, gP)
    PROVE  Numerator(scenario, a) =
              a.unit * gR[D] + a.kept * gP[Pairs(D)] + a.written * gO[D]
<1> SUFFICES ASSUME D = DOMAIN scenario.stages,
                    IsSum(gR, Reads(scenario), D), IsSum(gO, Writes(scenario), D),
                    IsSum(gL, Leaves(scenario), D), IsSum(gP, Rereads(scenario), Pairs(D))
             PROVE  Numerator(scenario, a) =
                       a.unit * gR[D] + a.kept * gP[Pairs(D)] + a.written * gO[D]
  BY DEF Sums
<1> DEFINE At == scenario.stages
           next(acc, stage) ==
              [sum |-> acc.sum + a.unit * stage.passes * (scenario.initial + stage.growth)
                               + a.kept * stage.passes * acc.prior
                               + a.written * stage.output,
               prior |-> acc.prior + stage.growth + stage.output]
           body(g) == [T \in SUBSET D |-> IF T = {} THEN [sum |-> 0, prior |-> 0]
                                          ELSE next(g[T \ {Max(T)}], At[Max(T)])]
           G == CHOOSE g : g = body(g)
           J == [T \in SUBSET D |->
                   [sum |-> a.unit * gR[T] + a.kept * gP[Pairs(T)] + a.written * gO[T],
                    prior |-> gL[T]]]
<1>1. Numerator(scenario, a) = G[D].sum
  BY Zenon DEF Numerator, FoldLeft, MapThenFoldSet
<1>2. /\ D = 1 .. Len(At) /\ Len(At) \in Nat /\ IsFiniteSet(D)
      /\ scenario.initial \in Nat
      /\ \A k \in D : At[k].passes \in Nat /\ At[k].growth \in Nat /\ At[k].output \in Nat
      /\ a.unit \in Nat /\ a.kept \in Nat /\ a.written \in Nat
  BY StageTypes DEF Assumption
<1>3. \A T \in SUBSET D : /\ gR[T] \in Nat /\ gO[T] \in Nat /\ gL[T] \in Nat
                          /\ Pairs(T) \in SUBSET Pairs(D) /\ gP[Pairs(T)] \in Nat
  <2>1. \A T \in SUBSET D : Pairs(T) \in SUBSET Pairs(D)
    BY DEF Pairs
  <2> QED
    BY <2>1 DEF IsSum
<1>4. J[{}] = [sum |-> 0, prior |-> 0]
  <2>1. gR[{}] = 0 /\ gO[{}] = 0 /\ gL[{}] = 0 /\ gP[{}] = 0 /\ Pairs({}) = {}
    BY DEF IsSum, Pairs
  <2>2. a.unit * 0 = 0 /\ a.kept * 0 = 0 /\ a.written * 0 = 0
    BY <1>2
  <2> QED
    BY <2>1, <2>2
<1>5. ASSUME NEW T \in SUBSET D, NEW x \in T, \A y \in T : y <= x
      PROVE  J[T] = next(J[T \ {x}], At[x])
  <2> DEFINE V == T \ {x}
  <2>1. gP[Pairs(T)] = gP[Pairs(V)] + At[x].passes * gL[V]
    BY <1>5, PairsStep
  <2>2. /\ gR[T] = At[x].passes * (scenario.initial + At[x].growth) + gR[V]
        /\ gO[T] = At[x].output + gO[V]
        /\ gL[T] = (At[x].growth + At[x].output) + gL[V]
    <3>1. /\ gR[T] = Reads(scenario)[x] + gR[V]
          /\ gO[T] = Writes(scenario)[x] + gO[V]
          /\ gL[T] = Leaves(scenario)[x] + gL[V]
      BY DEF IsSum
    <3>2. /\ Reads(scenario)[x] = At[x].passes * (scenario.initial + At[x].growth)
          /\ Writes(scenario)[x] = At[x].output
          /\ Leaves(scenario)[x] = At[x].growth + At[x].output
      BY DEF Reads, Writes, Leaves
    <3> QED
      BY <3>1, <3>2
  <2>3. PICK u \in Nat, k \in Nat, w \in Nat, q \in Nat, i \in Nat, e \in Nat, o \in Nat,
             r \in Nat, p \in Nat, z \in Nat, l \in Nat :
           /\ u = a.unit /\ k = a.kept /\ w = a.written
           /\ q = At[x].passes /\ i = scenario.initial /\ e = At[x].growth /\ o = At[x].output
           /\ r = gR[V] /\ p = gP[Pairs(V)] /\ z = gO[V] /\ l = gL[V]
    <3>1. V \in SUBSET D /\ x \in D
      OBVIOUS
    <3> HIDE DEF V
    <3> QED
      BY <1>2, <1>3, <3>1
  <2>4. /\ u * (q * (i + e) + r) + k * (p + q * l) + w * (o + z)
             = (u * r + k * p + w * z) + u * q * (i + e) + k * q * l + w * o
        /\ (e + o) + l = l + e + o
    OBVIOUS
  <2>5. J[V] = [sum |-> u * r + k * p + w * z, prior |-> l] /\ V \in SUBSET D
    BY <2>3
  <2>6. J[T] = [sum |-> u * (q * (i + e) + r) + k * (p + q * l) + w * (o + z),
                prior |-> (e + o) + l]
    BY <2>1, <2>2, <2>3
  <2> HIDE DEF J, V
  <2>7. next(J[V], At[x]) =
           [sum |-> (u * r + k * p + w * z) + u * q * (i + e) + k * q * l + w * o,
            prior |-> l + e + o]
    BY <2>3, <2>5
  <2> QED
    BY <2>4, <2>6, <2>7 DEF V
<1>6. ASSUME NEW T \in SUBSET D, T # {}
      PROVE  Max(T) \in T /\ \A y \in T : y <= Max(T)
  BY <1>2, <1>6, Largest
<1> HIDE DEF next
<1>7. J = body(J)
  <2>1. ASSUME NEW T \in SUBSET D, T # {} PROVE J[T] = next(J[T \ {Max(T)}], At[Max(T)])
    BY <1>5, <1>6, <2>1
  <2>2. DOMAIN J = SUBSET D /\ J = [T \in SUBSET D |-> J[T]]
    OBVIOUS
  <2> HIDE DEF J
  <2> QED
    BY <1>4, <2>1, <2>2
<1>8. ASSUME NEW g, g = body(g) PROVE g[D] = J[D]
  <2> DEFINE P == {T \in SUBSET D : g[T] = J[T]}
  <2> HIDE DEF J
  <2>1. ASSUME NEW T \in SUBSET D, \A x \in T : T \ {x} \in P PROVE T \in P
    <3>1. CASE T = {}
      BY <1>4, <1>8, <3>1
    <3>2. CASE T # {}
      <4>1. g[T \ {Max(T)}] = J[T \ {Max(T)}]
        BY <1>6, <2>1, <3>2
      <4>2. g[T] = next(g[T \ {Max(T)}], At[Max(T)])
        BY <1>8, <3>2
      <4>3. J[T] = next(J[T \ {Max(T)}], At[Max(T)])
        BY <1>7, <3>2
      <4> QED
        BY <4>1, <4>2, <4>3
    <3> QED
      BY <3>1, <3>2
  <2> HIDE DEF P
  <2>2. \A T \in SUBSET D : T \in P
    BY <1>2, <2>1, BySubsets
  <2> QED
    BY <2>2 DEF P
<1> HIDE DEF body
<1>9. G = body(G)
  BY <1>7
<1>10. G[D] = J[D]
  BY <1>8, <1>9
<1> QED
  BY <1>1, <1>10

\* What the assumptions say is the same sums.
LEMMA ExactIsSums ==
    ASSUME NEW scenario \in Scenario, NEW a \in Assumption,
           NEW D, NEW gR, NEW gO, NEW gL, NEW gP, Sums(scenario, D, gR, gO, gL, gP)
    PROVE  Exact(scenario, a) =
              a.unit * gR[D] + a.kept * gP[Pairs(D)] + a.written * gO[D]
<1> SUFFICES ASSUME D = DOMAIN scenario.stages,
                    IsSum(gR, Reads(scenario), D), IsSum(gO, Writes(scenario), D),
                    IsSum(gP, Rereads(scenario), Pairs(D))
             PROVE  Exact(scenario, a) =
                       a.unit * gR[D] + a.kept * gP[Pairs(D)] + a.written * gO[D]
  BY DEF Sums
<1> DEFINE At == scenario.stages
           Q == Pairs(D)
           own(k) == a.unit * At[k].passes * (scenario.initial + At[k].growth)
                        + a.written * At[k].output
           again(p) == a.kept * At[p[2]].passes * (At[p[1]].growth + At[p[1]].output)
           body1(g) == [T \in SUBSET D |-> IF T = {} THEN 0
                ELSE own(CHOOSE x \in T : TRUE) + g[T \ {CHOOSE x \in T : TRUE}]]
           body2(g) == [T \in SUBSET Q |-> IF T = {} THEN 0
                ELSE again(CHOOSE x \in T : TRUE) + g[T \ {CHOOSE x \in T : TRUE}]]
           G1 == CHOOSE g : g = body1(g)
           G2 == CHOOSE g : g = body2(g)
           f1 == [k \in D |-> own(k)]
           f2 == [p \in Q |-> again(p)]
<1>1. Exact(scenario, a) = G1[D] + G2[Q]
  <2>1. Exact(scenario, a) = MapThenSumSet(own, D) + MapThenSumSet(again, Q)
    BY Zenon DEF Exact, Pairs
  <2>2. MapThenSumSet(own, D) = G1[D]
    BY Zenon DEF MapThenSumSet, MapThenFoldSet
  <2>3. MapThenSumSet(again, Q) = G2[Q]
    BY Zenon DEF MapThenSumSet, MapThenFoldSet
  <2> QED
    BY <2>1, <2>2, <2>3
<1>2. /\ IsFiniteSet(D) /\ IsFiniteSet(Q) /\ scenario.initial \in Nat
      /\ \A k \in D : At[k].passes \in Nat /\ At[k].growth \in Nat /\ At[k].output \in Nat
      /\ a.unit \in Nat /\ a.kept \in Nat /\ a.written \in Nat
      /\ Reads(scenario) \in [D -> Nat] /\ Writes(scenario) \in [D -> Nat]
      /\ Leaves(scenario) \in [D -> Nat] /\ Rereads(scenario) \in [Q -> Nat]
  BY StageTypes DEF Assumption
<1>3. ASSUME NEW k \in D
      PROVE  own(k) = a.unit * Reads(scenario)[k] + a.written * Writes(scenario)[k] /\ own(k) \in Nat
  <2>1. PICK u \in Nat, w \in Nat, q \in Nat, i \in Nat, e \in Nat, o \in Nat :
           /\ u = a.unit /\ w = a.written /\ q = At[k].passes
           /\ i = scenario.initial /\ e = At[k].growth /\ o = At[k].output
    BY <1>2
  <2>2. u * q * (i + e) + w * o = u * (q * (i + e)) + w * o /\ u * q * (i + e) + w * o \in Nat
    OBVIOUS
  <2>3. Reads(scenario)[k] = q * (i + e) /\ Writes(scenario)[k] = o
    BY <2>1 DEF Reads, Writes
  <2> QED
    BY <2>1, <2>2, <2>3
<1>4. ASSUME NEW p \in Q
      PROVE  again(p) = a.kept * Rereads(scenario)[p] /\ again(p) \in Nat
  <2>1. p[1] \in D /\ p[2] \in D
    BY DEF Pairs
  <2>2. PICK u \in Nat, q \in Nat, e \in Nat, o \in Nat :
           u = a.kept /\ q = At[p[2]].passes /\ e = At[p[1]].growth /\ o = At[p[1]].output
    BY <1>2, <2>1
  <2>3. u * q * (e + o) = u * (q * (e + o)) /\ u * q * (e + o) \in Nat
    OBVIOUS
  <2>4. Rereads(scenario)[p] = q * (e + o)
    BY <2>1, <2>2 DEF Rereads, Leaves
  <2> QED
    BY <2>2, <2>3, <2>4
<1>5. f1 \in [D -> Nat] /\ f2 \in [Q -> Nat]
  BY <1>3, <1>4
<1> HIDE DEF own, again
<1>6. IsSum(G1, f1, D)
  <2>1. ASSUME NEW g PROVE Chosen(g, f1, D) <=> g = body1(g)
    <3>1. ASSUME NEW T \in SUBSET D, T # {}
          PROVE  f1[CHOOSE x \in T : TRUE] = own(CHOOSE x \in T : TRUE)
      <4>1. (CHOOSE x \in T : TRUE) \in D
        BY <3>1
      <4> QED
        BY <4>1
    <3>2. [T \in SUBSET D |-> IF T = {} THEN 0
            ELSE f1[CHOOSE x \in T : TRUE] + g[T \ {CHOOSE x \in T : TRUE}]] = body1(g)
      BY <3>1
    <3> QED
      BY <3>2 DEF Chosen
  <2> HIDE DEF body1, f1
  <2>2. PICK h : h = body1(h)
    BY <1>2, <1>5, <2>1, ChosenExists
  <2>3. G1 = body1(G1)
    BY <2>2
  <2> QED
    BY <1>2, <1>5, <2>1, <2>3, ChosenIsSum
<1>7. IsSum(G2, f2, Q)
  <2>1. ASSUME NEW g PROVE Chosen(g, f2, Q) <=> g = body2(g)
    <3> HIDE DEF Q
    <3>1. ASSUME NEW T \in SUBSET Q, T # {}
          PROVE  f2[CHOOSE x \in T : TRUE] = again(CHOOSE x \in T : TRUE)
      <4>1. (CHOOSE x \in T : TRUE) \in Q
        BY <3>1
      <4> QED
        BY <4>1
    <3>2. [T \in SUBSET Q |-> IF T = {} THEN 0
            ELSE f2[CHOOSE x \in T : TRUE] + g[T \ {CHOOSE x \in T : TRUE}]] = body2(g)
      BY <3>1
    <3> QED
      BY <3>2 DEF Chosen
  <2> HIDE DEF body2, f2, Q
  <2>2. PICK h : h = body2(h)
    BY <1>2, <1>5, <2>1, ChosenExists
  <2>3. G2 = body2(G2)
    BY <2>2
  <2> QED
    BY <1>2, <1>5, <2>1, <2>3, ChosenIsSum
<1> HIDE DEF G1, G2, Q
<1>8. IsFiniteSet(D) /\ IsFiniteSet(Q)
  BY <1>2
<1>9. G1[D] = a.unit * gR[D] + a.written * gO[D]
  <2> DEFINE P == {T \in SUBSET D : G1[T] = a.unit * gR[T] + a.written * gO[T]}
  <2>1. ASSUME NEW T \in SUBSET D, \A x \in T : T \ {x} \in P PROVE T \in P
    <3>1. CASE T = {}
      <4>1. G1[T] = 0 /\ gR[T] = 0 /\ gO[T] = 0
        BY <1>6, <3>1 DEF IsSum
      <4> QED
        BY <1>2, <4>1
    <3>2. CASE T # {}
      <4>1. PICK x \in T : TRUE
        BY <3>2
      <4>2. /\ G1[T] = f1[x] + G1[T \ {x}]
            /\ gR[T] = Reads(scenario)[x] + gR[T \ {x}]
            /\ gO[T] = Writes(scenario)[x] + gO[T \ {x}]
        BY <1>6, <4>1 DEF IsSum
      <4>3. f1[x] = a.unit * Reads(scenario)[x] + a.written * Writes(scenario)[x]
        BY <1>3, <4>1
      <4>4. G1[T \ {x}] = a.unit * gR[T \ {x}] + a.written * gO[T \ {x}]
        BY <2>1, <4>1
      <4>5. PICK u \in Nat, w \in Nat, b \in Nat, c \in Nat, r \in Nat, o \in Nat :
               /\ u = a.unit /\ w = a.written
               /\ b = Reads(scenario)[x] /\ c = Writes(scenario)[x]
               /\ r = gR[T \ {x}] /\ o = gO[T \ {x}]
        BY <1>2, <4>1 DEF IsSum
      <4>6. (u * b + w * c) + (u * r + w * o) = u * (b + r) + w * (c + o)
        OBVIOUS
      <4>7. G1[T] = a.unit * gR[T] + a.written * gO[T]
        BY <4>2, <4>3, <4>4, <4>5, <4>6
      <4> QED
        BY <4>7
    <3> QED
      BY <3>1, <3>2
  <2> HIDE DEF P
  <2>2. \A T \in SUBSET D : T \in P
    BY <1>8, <2>1, BySubsets
  <2> QED
    BY <2>2 DEF P
<1>10. G2[Q] = a.kept * gP[Q]
  <2> DEFINE P == {T \in SUBSET Q : G2[T] = a.kept * gP[T]}
  <2>1. ASSUME NEW T \in SUBSET Q, \A x \in T : T \ {x} \in P PROVE T \in P
    <3>1. CASE T = {}
      <4>1. G2[T] = 0 /\ gP[T] = 0
        BY <1>7, <3>1 DEF IsSum
      <4> QED
        BY <1>2, <4>1
    <3>2. CASE T # {}
      <4>1. PICK x \in T : TRUE
        BY <3>2
      <4>2. G2[T] = f2[x] + G2[T \ {x}] /\ gP[T] = Rereads(scenario)[x] + gP[T \ {x}]
        BY <1>7, <4>1 DEF IsSum, Q
      <4>3. f2[x] = a.kept * Rereads(scenario)[x]
        BY <1>4, <4>1
      <4>4. G2[T \ {x}] = a.kept * gP[T \ {x}]
        BY <2>1, <4>1
      <4>5. Rereads(scenario)[x] \in Nat /\ gP[T \ {x}] \in Nat /\ a.kept \in Nat
        BY <1>2, <4>1 DEF IsSum, Q
      <4>6. a.kept * (Rereads(scenario)[x] + gP[T \ {x}])
               = a.kept * Rereads(scenario)[x] + a.kept * gP[T \ {x}]
        BY <4>5, Arithmetic
      <4>7. G2[T] = a.kept * gP[T]
        BY <4>2, <4>3, <4>4, <4>6
      <4> QED
        BY <4>7
    <3> QED
      BY <3>1, <3>2
  <2> HIDE DEF P
  <2>2. \A T \in SUBSET Q : T \in P
    BY <1>8, <2>1, BySubsets
  <2> QED
    BY <2>2 DEF P
<1>11. /\ a.unit * gR[D] \in Nat /\ a.kept * gP[Q] \in Nat /\ a.written * gO[D] \in Nat
  <2>1. gR[D] \in Nat /\ gP[Q] \in Nat /\ gO[D] \in Nat
    BY DEF IsSum, Q
  <2> QED
    BY <1>2, <2>1, Arithmetic
<1> QED
  BY <1>1, <1>9, <1>10, <1>11 DEF Q

\* The three assumptions, over the same three sums.
LEMMA ThreeEstimates ==
    ASSUME NEW A \in Nat, NEW B \in Nat, NEW C \in Nat
    PROVE  /\ (20 * A + 5 * B + 16 * C + 10) \div 20 <= (2 * A + 1 * B + 2 * C + 1) \div 2
           /\ (2 * A + 1 * B + 2 * C + 1) \div 2 <= (5 * A + 5 * B + 6 * C + 2) \div 5
  OBVIOUS

LEMMA Rounded ==
    ASSUME NEW n \in Nat, NEW c \in {2, 5, 20}
    PROVE  /\ 2 * (c * ((n + c \div 2) \div c) - n) <= c
           /\ -c <= 2 * (c * ((n + c \div 2) \div c) - n)
<1>1. CASE c = 2
  <2>1. c \div 2 = 1
    BY <1>1
  <2> QED
    BY <1>1, <2>1
<1>2. CASE c = 5
  <2>1. c \div 2 = 2
    BY <1>2
  <2> QED
    BY <1>2, <2>1
<1>3. CASE c = 20
  <2>1. c \div 2 = 10
    BY <1>3
  <2> QED
    BY <1>3, <2>1
<1> QED
  BY <1>1, <1>2, <1>3

LEMMA SumExists ==
    ASSUME NEW S, IsFiniteSet(S), NEW f \in [S -> Nat]
    PROVE  \E g : IsSum(g, f, S)
  BY ChosenExists, ChosenIsSum

LEMMA EstimateRight ==
    ASSUME NEW scenario \in Scenario
    PROVE  LET E == Estimate(scenario)
           IN  /\ E[1] <= E[2] /\ E[2] <= E[3]
               /\ \A i \in 1..3 :
                     LET a == Assumptions[i]
                         error == 2 * (a.unit * E[i] - Exact(scenario, a))
                     IN  error <= a.unit /\ -a.unit <= error
<1> DEFINE E == Estimate(scenario)
<1>0. PICK D : D = DOMAIN scenario.stages
  OBVIOUS
<1>1. /\ IsFiniteSet(D) /\ IsFiniteSet(Pairs(D))
      /\ Reads(scenario) \in [D -> Nat] /\ Writes(scenario) \in [D -> Nat]
      /\ Leaves(scenario) \in [D -> Nat] /\ Rereads(scenario) \in [Pairs(D) -> Nat]
  BY <1>0, StageTypes
<1>2. PICK gR : IsSum(gR, Reads(scenario), D)
  BY <1>1, SumExists
<1>3. PICK gO : IsSum(gO, Writes(scenario), D)
  BY <1>1, SumExists
<1>4. PICK gL : IsSum(gL, Leaves(scenario), D)
  BY <1>1, SumExists
<1>5. PICK gP : IsSum(gP, Rereads(scenario), Pairs(D))
  BY <1>1, SumExists
<1>6. PICK A \in Nat, B \in Nat, C \in Nat : A = gR[D] /\ B = gP[Pairs(D)] /\ C = gO[D]
  BY <1>2, <1>3, <1>5 DEF IsSum
<1>7. Sums(scenario, D, gR, gO, gL, gP)
  BY <1>0, <1>2, <1>3, <1>4, <1>5 DEF Sums
<1>8. ASSUME NEW a \in Assumption
      PROVE  /\ Numerator(scenario, a) = a.unit * A + a.kept * B + a.written * C
             /\ Exact(scenario, a) = a.unit * A + a.kept * B + a.written * C
  <2>1. Numerator(scenario, a) = a.unit * gR[D] + a.kept * gP[Pairs(D)] + a.written * gO[D]
    BY <1>7, FoldIsSums
  <2>2. Exact(scenario, a) = a.unit * gR[D] + a.kept * gP[Pairs(D)] + a.written * gO[D]
    BY <1>7, ExactIsSums
  <2> QED
    BY <1>6, <2>1, <2>2
<1>9. /\ Assumptions[1] = [unit |-> 20, kept |-> 5, written |-> 16]
      /\ Assumptions[2] = [unit |-> 2, kept |-> 1, written |-> 2]
      /\ Assumptions[3] = [unit |-> 5, kept |-> 5, written |-> 6]
  BY DEF Assumptions
<1>10. \A i \in 1..3 : Assumptions[i] \in Assumption
  <2>1. /\ Assumptions[1] \in Assumption /\ Assumptions[2] \in Assumption
        /\ Assumptions[3] \in Assumption
    BY <1>9 DEF Assumption
  <2>2. \A i \in 1..3 : i = 1 \/ i = 2 \/ i = 3
    OBVIOUS
  <2> QED
    BY <2>1, <2>2
<1>11. /\ Exact(scenario, Assumptions[1]) = 20 * A + 5 * B + 16 * C
       /\ Exact(scenario, Assumptions[2]) = 2 * A + 1 * B + 2 * C
       /\ Exact(scenario, Assumptions[3]) = 5 * A + 5 * B + 6 * C
  BY <1>8, <1>9, <1>10
<1>12. \A i \in 1..3 : /\ E[i] = (Exact(scenario, Assumptions[i]) + Assumptions[i].unit \div 2)
                                    \div Assumptions[i].unit
  BY <1>8, <1>10 DEF Estimate
<1>13. /\ E[1] = (20 * A + 5 * B + 16 * C + 10) \div 20
       /\ E[2] = (2 * A + 1 * B + 2 * C + 1) \div 2
       /\ E[3] = (5 * A + 5 * B + 6 * C + 2) \div 5
  <2>1. 20 \div 2 = 10 /\ 2 \div 2 = 1 /\ 5 \div 2 = 2
    OBVIOUS
  <2> HIDE DEF E
  <2> QED
    BY <1>9, <1>11, <1>12, <2>1
<1>14. E[1] <= E[2] /\ E[2] <= E[3]
  BY <1>13, ThreeEstimates
<1>15. ASSUME NEW i \in 1..3
       PROVE  LET a == Assumptions[i]
                  error == 2 * (a.unit * E[i] - Exact(scenario, a))
              IN  error <= a.unit /\ -a.unit <= error
  <2>1. Assumptions[i].unit \in {2, 5, 20} /\ Exact(scenario, Assumptions[i]) \in Nat
    <3>1. i = 1 \/ i = 2 \/ i = 3
      OBVIOUS
    <3>2. /\ 20 * A + 5 * B + 16 * C \in Nat /\ 2 * A + 1 * B + 2 * C \in Nat
          /\ 5 * A + 5 * B + 6 * C \in Nat
      OBVIOUS
    <3> QED
      BY <1>9, <1>11, <3>1, <3>2
  <2>2. PICK n \in Nat, c \in {2, 5, 20} : n = Exact(scenario, Assumptions[i]) /\ c = Assumptions[i].unit
    BY <2>1
  <2>3. E[i] = (n + c \div 2) \div c
    BY <1>12, <2>2
  <2> HIDE DEF E
  <2> QED
    BY <2>2, <2>3, Rounded
<1> QED
  BY <1>14, <1>15

LEMMA InvEstimates == Inv => EstimatesRight
<1> SUFFICES ASSUME Inv, NEW m \in Manifests, m.scenario # Nothing
             PROVE  m.scenario \in Scenario
  BY EstimateRight DEF EstimatesRight
<1> QED
  BY Stored, ManifestFields

\* No run spends a token that the recorded total leaves out, and every
\* estimate is what its assumptions say stage by stage, rounded to the nearest
\* token (recorded_total, summarize and estimate).
THEOREM FiguresAlwaysRight == Spec => []FiguresRight
<1>1. Sound => FiguresRight
  BY InvSpent, InvEstimates DEF Sound, FiguresRight
<1> QED
  BY <1>1, SoundInit, SoundNext, PTL DEF Spec
=============================================================================
