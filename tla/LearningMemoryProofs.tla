------------------------ MODULE LearningMemoryProofs ------------------------
(***************************************************************************)
(* Proofs about LearningMemory: its tables are well typed and sound in     *)
(* every reachable state, the tables of every backup included, for any     *)
(* decisions, versions, archives and bounds.                               *)
(***************************************************************************)
EXTENDS LearningMemory, TLAPS

(* How each function on tables changes each table it touches.              *)

\* Invalidation sets flags and statuses of the given versions, and nothing else.
LEMMA InvalidateFields ==
    ASSUME NEW m \in Memory, NEW V \in SUBSET Versions
    PROVE  LET n == Invalidate(m, V) IN
           /\ n \in Memory
           /\ n.decision = m.decision /\ n.revision = m.revision
           /\ n.reviews = m.reviews /\ n.cases = m.cases
           /\ n.evaluation = m.evaluation /\ n.policy = m.policy
           /\ n.mentions = m.mentions /\ n.members = m.members
           /\ n.active = m.active
           /\ \A v \in Versions :
                 /\ n.invalidated[v] <=> (v \in V \/ m.invalidated[v])
                 /\ n.status[v] = IF v \in V /\ m.status[v] = "active"
                                  THEN "invalidated" ELSE m.status[v]
  <1>. DEFINE n == Invalidate(m, V)
  <1>1. n \in Memory
    <2>1. [v \in Versions |-> v \in V \/ m.invalidated[v]] \in [Versions -> BOOLEAN]
      OBVIOUS
    <2>2. [v \in Versions |-> IF v \in V /\ m.status[v] = "active"
                              THEN "invalidated" ELSE m.status[v]]
             \in [Versions -> VersionStatus]
      BY DEF Memory, VersionStatus
    <2>. QED  BY <2>1, <2>2 DEF Invalidate, Memory
  <1>. QED  BY <1>1 DEF Invalidate, Memory

\* Scrubbing removes ids from reports and invalidates the reports that had one.
LEMMA ScrubReportsFields ==
    ASSUME NEW m \in Memory, NEW C \in SUBSET CaseIds
    PROVE  LET n == ScrubReports(m, C) IN
           /\ n \in Memory
           /\ n.decision = m.decision /\ n.revision = m.revision
           /\ n.reviews = m.reviews /\ n.cases = m.cases
           /\ n.evaluation = m.evaluation /\ n.policy = m.policy
           /\ n.members = m.members /\ n.active = m.active
           /\ \A v \in Versions :
                 /\ n.mentions[v] = m.mentions[v] \ C
                 /\ n.invalidated[v] <=> (m.mentions[v] \cap C # {} \/ m.invalidated[v])
                 /\ n.status[v] = IF m.mentions[v] \cap C # {} /\ m.status[v] = "active"
                                  THEN "invalidated" ELSE m.status[v]
  <1>. DEFINE V == {v \in Versions : m.mentions[v] \cap C # {}}
              k == Invalidate(m, V)
              f == [v \in Versions |-> m.mentions[v] \ C]
  <1>1. V \in SUBSET Versions
    OBVIOUS
  <1>2. /\ k \in Memory
        /\ k.decision = m.decision /\ k.revision = m.revision
        /\ k.reviews = m.reviews /\ k.cases = m.cases
        /\ k.evaluation = m.evaluation /\ k.policy = m.policy
        /\ k.members = m.members /\ k.active = m.active
        /\ \A v \in Versions :
              /\ k.invalidated[v] <=> (v \in V \/ m.invalidated[v])
              /\ k.status[v] = IF v \in V /\ m.status[v] = "active"
                               THEN "invalidated" ELSE m.status[v]
    BY <1>1, InvalidateFields
  <1>3. f \in [Versions -> SUBSET CaseIds]
    BY DEF Memory
  <1>4. ScrubReports(m, C) = [k EXCEPT !.mentions = f]
    BY DEF ScrubReports
  <1>. HIDE DEF k, f
  <1>5. /\ [k EXCEPT !.mentions = f] \in Memory
        /\ [k EXCEPT !.mentions = f].mentions = f
        /\ [k EXCEPT !.mentions = f].decision = k.decision
        /\ [k EXCEPT !.mentions = f].revision = k.revision
        /\ [k EXCEPT !.mentions = f].reviews = k.reviews
        /\ [k EXCEPT !.mentions = f].cases = k.cases
        /\ [k EXCEPT !.mentions = f].evaluation = k.evaluation
        /\ [k EXCEPT !.mentions = f].policy = k.policy
        /\ [k EXCEPT !.mentions = f].members = k.members
        /\ [k EXCEPT !.mentions = f].active = k.active
        /\ [k EXCEPT !.mentions = f].status = k.status
        /\ [k EXCEPT !.mentions = f].invalidated = k.invalidated
    BY <1>2, <1>3 DEF Memory
  <1>. QED  BY <1>2, <1>4, <1>5 DEF f

\* A withdrawal marks the cases and invalidates every version that froze or
\* reported one.
LEMMA WithdrawCasesFields ==
    ASSUME NEW m \in Memory, NEW C \in SUBSET CaseIds
    PROVE  LET n == WithdrawCases(m, C) IN
           /\ n \in Memory
           /\ n.decision = m.decision /\ n.revision = m.revision
           /\ n.reviews = m.reviews /\ n.evaluation = m.evaluation
           /\ n.policy = m.policy
           /\ n.members = m.members /\ n.active = m.active
           /\ \A c \in CaseIds :
                 n.cases[c] = IF c \in C /\ m.cases[c] # "none"
                              THEN "withdrawn" ELSE m.cases[c]
           /\ \A v \in Versions :
                 LET hit == m.members[v] \cap C # {} \/ m.mentions[v] \cap C # {}
                 IN  /\ n.mentions[v] = m.mentions[v] \ C
                     /\ n.invalidated[v] <=> (hit \/ m.invalidated[v])
                     /\ n.status[v] = IF hit /\ m.status[v] = "active"
                                      THEN "invalidated" ELSE m.status[v]
  <1>. DEFINE i == Invalidate(m, VersionsWith(m, C))
              k == ScrubReports(i, C)
              f == [c \in CaseIds |-> IF c \in C /\ m.cases[c] # "none"
                                     THEN "withdrawn" ELSE m.cases[c]]
  <1>1. VersionsWith(m, C) \in SUBSET Versions
    BY DEF VersionsWith
  <1>2. /\ i \in Memory
        /\ i.decision = m.decision /\ i.revision = m.revision
        /\ i.reviews = m.reviews /\ i.cases = m.cases
        /\ i.evaluation = m.evaluation /\ i.policy = m.policy
        /\ i.mentions = m.mentions /\ i.members = m.members
        /\ i.active = m.active
        /\ \A v \in Versions :
              /\ i.invalidated[v] <=> (v \in VersionsWith(m, C) \/ m.invalidated[v])
              /\ i.status[v] = IF v \in VersionsWith(m, C) /\ m.status[v] = "active"
                               THEN "invalidated" ELSE m.status[v]
    BY <1>1, InvalidateFields
  <1>3. WithdrawCases(m, C) = [k EXCEPT !.cases = f]
    BY DEF WithdrawCases
  <1>4. f \in [CaseIds -> CaseStatus]
    BY DEF Memory, CaseStatus
  <1>. HIDE DEF i
  <1>5. /\ k \in Memory
        /\ k.decision = i.decision /\ k.revision = i.revision
        /\ k.reviews = i.reviews /\ k.cases = i.cases
        /\ k.evaluation = i.evaluation /\ k.policy = i.policy
        /\ k.members = i.members /\ k.active = i.active
        /\ \A v \in Versions :
              /\ k.mentions[v] = i.mentions[v] \ C
              /\ k.invalidated[v] <=> (i.mentions[v] \cap C # {} \/ i.invalidated[v])
              /\ k.status[v] = IF i.mentions[v] \cap C # {} /\ i.status[v] = "active"
                               THEN "invalidated" ELSE i.status[v]
    BY <1>2, ScrubReportsFields
  <1>. HIDE DEF k, f
  <1>6. LET n == [k EXCEPT !.cases = f] IN
        /\ n \in Memory /\ n.cases = f
        /\ n.decision = k.decision /\ n.revision = k.revision
        /\ n.reviews = k.reviews /\ n.mentions = k.mentions
        /\ n.evaluation = k.evaluation /\ n.policy = k.policy
        /\ n.members = k.members /\ n.active = k.active
        /\ n.status = k.status /\ n.invalidated = k.invalidated
    BY <1>4, <1>5 DEF Memory
  <1>7. \A v \in Versions : v \in VersionsWith(m, C) <=> m.members[v] \cap C # {}
    BY DEF VersionsWith
  <1>8. \A c \in CaseIds : f[c] = IF c \in C /\ m.cases[c] # "none"
                                  THEN "withdrawn" ELSE m.cases[c]
    BY DEF f
  <1>. QED  BY <1>2, <1>3, <1>5, <1>6, <1>7, <1>8

\* The cases of a decision are the pairs of it and a revision.
LEMMA CasesOfType ==
    ASSUME NEW D \in SUBSET Decisions
    PROVE  /\ CasesOf(D) \in SUBSET CaseIds
           /\ \A d \in Decisions, r \in 1 .. MaxRevision :
                 /\ <<d, r>> \in CaseIds
                 /\ <<d, r>> \in CasesOf(D) <=> d \in D
  BY DEF CasesOf, CaseIds

\* A purge removes every row of the decisions but the tombstone.
LEMMA PurgeDecisionsFields ==
    ASSUME NEW m \in Memory, NEW D \in SUBSET Decisions
    PROVE  LET n == PurgeDecisions(m, D)
               C == CasesOf(D) IN
           /\ n \in Memory
           /\ n.evaluation = m.evaluation /\ n.policy = m.policy
           /\ n.active = m.active
           /\ \A d \in Decisions :
                 /\ n.decision[d] = IF d \in D THEN "deleted" ELSE m.decision[d]
                 /\ n.revision[d] = IF d \in D THEN 0 ELSE m.revision[d]
           /\ \A c \in CaseIds :
                 /\ n.cases[c] = IF c \in C THEN "none" ELSE m.cases[c]
                 /\ n.reviews[c] = IF c \in C THEN "none" ELSE m.reviews[c]
           /\ \A v \in Versions :
                 LET hit == m.members[v] \cap C # {} \/ m.mentions[v] \cap C # {}
                 IN  /\ n.mentions[v] = m.mentions[v] \ C
                     /\ n.members[v] = m.members[v] \ C
                     /\ n.invalidated[v] <=> (hit \/ m.invalidated[v])
                     /\ n.status[v] = IF hit /\ m.status[v] = "active"
                                      THEN "invalidated" ELSE m.status[v]
  <1>. DEFINE C == CasesOf(D)
              i == Invalidate(m, VersionsWith(m, C))
              k == ScrubReports(i, C)
              mem == [v \in Versions |-> m.members[v] \ C]
              cas == [c \in CaseIds |-> IF c \in C THEN "none" ELSE m.cases[c]]
              rvs == [c \in CaseIds |-> IF c \in C THEN "none" ELSE m.reviews[c]]
              rev == [d \in Decisions |-> IF d \in D THEN 0 ELSE m.revision[d]]
              dec == [d \in Decisions |-> IF d \in D THEN "deleted"
                                         ELSE m.decision[d]]
  <1>0. C \in SUBSET CaseIds
    BY CasesOfType
  <1>1. VersionsWith(m, C) \in SUBSET Versions
    BY DEF VersionsWith
  <1>2. /\ i \in Memory
        /\ i.evaluation = m.evaluation /\ i.policy = m.policy
        /\ i.mentions = m.mentions
        /\ i.active = m.active
        /\ \A v \in Versions :
              /\ i.invalidated[v] <=> (v \in VersionsWith(m, C) \/ m.invalidated[v])
              /\ i.status[v] = IF v \in VersionsWith(m, C) /\ m.status[v] = "active"
                               THEN "invalidated" ELSE m.status[v]
    BY <1>1, InvalidateFields
  <1>3. PurgeDecisions(m, D) =
          [k EXCEPT !.members = mem, !.cases = cas, !.reviews = rvs,
                    !.revision = rev, !.decision = dec]
    BY DEF PurgeDecisions
  <1>4. /\ mem \in [Versions -> SUBSET CaseIds]
        /\ cas \in [CaseIds -> CaseStatus]
        /\ rvs \in [CaseIds -> Verdict]
        /\ dec \in [Decisions -> DecisionStatus]
    BY DEF Memory, CaseStatus, Verdict, DecisionStatus
  <1>5. rev \in [Decisions -> 0 .. MaxRevision]
    BY MaxRevisionAssumption DEF Memory
  <1>. HIDE DEF i
  <1>6. /\ k \in Memory
        /\ k.evaluation = i.evaluation /\ k.policy = i.policy
        /\ k.active = i.active
        /\ \A v \in Versions :
              /\ k.mentions[v] = i.mentions[v] \ C
              /\ k.invalidated[v] <=> (i.mentions[v] \cap C # {} \/ i.invalidated[v])
              /\ k.status[v] = IF i.mentions[v] \cap C # {} /\ i.status[v] = "active"
                               THEN "invalidated" ELSE i.status[v]
    BY <1>0, <1>2, ScrubReportsFields
  <1>. HIDE DEF k, mem, cas, rvs, rev, dec
  <1>7. LET n == [k EXCEPT !.members = mem, !.cases = cas, !.reviews = rvs,
                           !.revision = rev, !.decision = dec] IN
        /\ n \in Memory
        /\ n.cases = cas /\ n.members = mem /\ n.reviews = rvs
        /\ n.revision = rev /\ n.decision = dec
        /\ n.mentions = k.mentions
        /\ n.evaluation = k.evaluation /\ n.policy = k.policy
        /\ n.active = k.active
        /\ n.status = k.status /\ n.invalidated = k.invalidated
    BY <1>4, <1>5, <1>6 DEF Memory
  <1>8. \A v \in Versions : v \in VersionsWith(m, C) <=> m.members[v] \cap C # {}
    BY DEF VersionsWith
  <1>9. /\ \A v \in Versions : mem[v] = m.members[v] \ C
        /\ \A c \in CaseIds : /\ cas[c] = IF c \in C THEN "none" ELSE m.cases[c]
                              /\ rvs[c] = IF c \in C THEN "none" ELSE m.reviews[c]
        /\ \A d \in Decisions :
              /\ rev[d] = IF d \in D THEN 0 ELSE m.revision[d]
              /\ dec[d] = IF d \in D THEN "deleted" ELSE m.decision[d]
    BY DEF mem, cas, rvs, rev, dec
  <1>. HIDE DEF C
  <1>10. \A v \in Versions :
           /\ k.mentions[v] = m.mentions[v] \ C
           /\ k.invalidated[v] <=> (m.members[v] \cap C # {}
                 \/ m.mentions[v] \cap C # {} \/ m.invalidated[v])
           /\ k.status[v] = IF (m.members[v] \cap C # {} \/ m.mentions[v] \cap C # {})
                               /\ m.status[v] = "active"
                            THEN "invalidated" ELSE m.status[v]
    BY <1>2, <1>6, <1>8
  <1>. QED  BY <1>2, <1>3, <1>6, <1>7, <1>9, <1>10 DEF C

-----------------------------------------------------------------------------
(* Withdrawals and deletions keep the tables sound, and leave the active   *)
(* pointer either usable or in need of the repair that follows them.       *)

Pointer(m) ==
    /\ m.active # NoVersion =>
          \/ m.invalidated[m.active]
          \/ m.status[m.active] = "active" /\ m.evaluation[m.active] = "passed"
    /\ \A v \in Versions :
          m.status[v] = "active" => v = m.active /\ ~m.invalidated[v]

\* A usable pointer meets the weaker condition that holds before a repair.
LEMMA ActiveUsablePointer ==
    ASSUME NEW m \in Memory, ActiveUsable(m)
    PROVE  Pointer(m)
  BY NoVersionAssumption DEF ActiveUsable, Pointer, Memory

\* A withdrawal keeps sound tables sound, but for the pointer to be repaired.
LEMMA WithdrawCasesSound ==
    ASSUME NEW m \in Memory, NEW C \in SUBSET CaseIds, Sound(m), Pointer(m)
    PROVE  Sound(WithdrawCases(m, C)) /\ Pointer(WithdrawCases(m, C))
  <1>. DEFINE n == WithdrawCases(m, C)
  <1>1. /\ n \in Memory
        /\ n.decision = m.decision /\ n.revision = m.revision
        /\ n.reviews = m.reviews /\ n.evaluation = m.evaluation
        /\ n.members = m.members /\ n.active = m.active
        /\ \A c \in CaseIds :
              n.cases[c] = IF c \in C /\ m.cases[c] # "none"
                           THEN "withdrawn" ELSE m.cases[c]
        /\ \A v \in Versions :
              LET hit == m.members[v] \cap C # {} \/ m.mentions[v] \cap C # {}
              IN  /\ n.mentions[v] = m.mentions[v] \ C
                  /\ n.invalidated[v] <=> (hit \/ m.invalidated[v])
                  /\ n.status[v] = IF hit /\ m.status[v] = "active"
                                   THEN "invalidated" ELSE m.status[v]
    BY WithdrawCasesFields
  <1>. HIDE DEF n
  <1>2. \A v \in Versions : m.members[v] \subseteq CaseIds /\ m.mentions[v] \subseteq CaseIds
    BY DEF Memory
  <1>3. FrozenMembersLive(n)
    BY <1>1, <1>2 DEF Sound, FrozenMembersLive, ActiveCases
  <1>4. CurrentJudgment(n)
    BY <1>1 DEF Sound, CurrentJudgment, CaseIds
  <1>5. NothingOfDeleted(n)
    <2>. SUFFICES ASSUME NEW d \in DeletedDecisions(n)
                  PROVE  /\ \A r \in 1 .. MaxRevision :
                               n.cases[<<d, r>>] = "none" /\ n.reviews[<<d, r>>] = "none"
                         /\ \A v \in Versions :
                               (n.members[v] \cup n.mentions[v]) \cap CasesOf({d}) = {}
      BY DEF NothingOfDeleted
    <2>1. d \in Decisions /\ d \in DeletedDecisions(m)
      BY <1>1 DEF DeletedDecisions
    <2>2. /\ \A r \in 1 .. MaxRevision :
               m.cases[<<d, r>>] = "none" /\ m.reviews[<<d, r>>] = "none"
          /\ \A v \in Versions :
               (m.members[v] \cup m.mentions[v]) \cap CasesOf({d}) = {}
      BY <2>1 DEF Sound, NothingOfDeleted
    <2>3. \A r \in 1 .. MaxRevision : <<d, r>> \in CaseIds
      BY <2>1 DEF CaseIds
    <2>4. \A r \in 1 .. MaxRevision :
               n.cases[<<d, r>>] = "none" /\ n.reviews[<<d, r>>] = "none"
      BY <1>1, <2>2, <2>3
    <2>5. \A v \in Versions :
               (n.members[v] \cup n.mentions[v]) \cap CasesOf({d}) = {}
      BY <1>1, <2>2
    <2>. QED  BY <2>4, <2>5
  <1>6. ReportsShowLiveCases(n)
    BY <1>1, <1>2 DEF Sound, ReportsShowLiveCases, LiveCases
  <1>7. OnlyReviewed(n)
    BY <1>1 DEF Sound, OnlyReviewed, CaseIds
  <1>8. Pointer(n)
    BY <1>1 DEF Pointer, Memory
  <1>. QED  BY <1>3, <1>4, <1>5, <1>6, <1>7, <1>8 DEF Sound, n

\* A purge keeps sound tables sound, but for the pointer to be repaired.
LEMMA PurgeDecisionsSound ==
    ASSUME NEW m \in Memory, NEW D \in SUBSET Decisions, Sound(m), Pointer(m)
    PROVE  Sound(PurgeDecisions(m, D)) /\ Pointer(PurgeDecisions(m, D))
  <1>. DEFINE n == PurgeDecisions(m, D)
              C == CasesOf(D)
  <1>1. /\ n \in Memory
        /\ n.evaluation = m.evaluation /\ n.active = m.active
        /\ \A d \in Decisions :
              /\ n.decision[d] = IF d \in D THEN "deleted" ELSE m.decision[d]
              /\ n.revision[d] = IF d \in D THEN 0 ELSE m.revision[d]
        /\ \A c \in CaseIds :
              /\ n.cases[c] = IF c \in C THEN "none" ELSE m.cases[c]
              /\ n.reviews[c] = IF c \in C THEN "none" ELSE m.reviews[c]
        /\ \A v \in Versions :
              LET hit == m.members[v] \cap C # {} \/ m.mentions[v] \cap C # {}
              IN  /\ n.mentions[v] = m.mentions[v] \ C
                  /\ n.members[v] = m.members[v] \ C
                  /\ n.invalidated[v] <=> (hit \/ m.invalidated[v])
                  /\ n.status[v] = IF hit /\ m.status[v] = "active"
                                   THEN "invalidated" ELSE m.status[v]
    BY PurgeDecisionsFields
  <1>2. \A v \in Versions : m.members[v] \subseteq CaseIds /\ m.mentions[v] \subseteq CaseIds
    BY DEF Memory
  <1>3. \A d \in Decisions, r \in 1 .. MaxRevision :
            <<d, r>> \in CaseIds /\ (<<d, r>> \in C <=> d \in D)
    BY CasesOfType
  <1>. HIDE DEF n, C
  <1>4. FrozenMembersLive(n)
    BY <1>1, <1>2 DEF Sound, FrozenMembersLive, ActiveCases
  <1>5. CurrentJudgment(n)
    BY <1>1, <1>3 DEF Sound, CurrentJudgment
  <1>6. NothingOfDeleted(n)
    <2>. SUFFICES ASSUME NEW d \in DeletedDecisions(n)
                  PROVE  /\ \A r \in 1 .. MaxRevision :
                               n.cases[<<d, r>>] = "none" /\ n.reviews[<<d, r>>] = "none"
                         /\ \A v \in Versions :
                               (n.members[v] \cup n.mentions[v]) \cap CasesOf({d}) = {}
      BY DEF NothingOfDeleted
    <2>1. d \in Decisions /\ (d \in D \/ d \in DeletedDecisions(m))
      BY <1>1 DEF DeletedDecisions
    <2>2. \A r \in 1 .. MaxRevision :
            n.cases[<<d, r>>] = "none" /\ n.reviews[<<d, r>>] = "none"
      <3>1. d \in DeletedDecisions(m) =>
               \A r \in 1 .. MaxRevision :
                  m.cases[<<d, r>>] = "none" /\ m.reviews[<<d, r>>] = "none"
        BY DEF Sound, NothingOfDeleted
      <3>. QED  BY <1>1, <1>3, <2>1, <3>1
    <2>3. CASE d \in D
      <3>1. CasesOf({d}) \subseteq C
        BY <2>3 DEF CasesOf, C
      <3>2. \A v \in Versions : n.members[v] \cap C = {} /\ n.mentions[v] \cap C = {}
        <4>. SUFFICES ASSUME NEW v \in Versions
                      PROVE  n.members[v] \cap C = {} /\ n.mentions[v] \cap C = {}
          OBVIOUS
        <4>1. n.members[v] = m.members[v] \ C /\ n.mentions[v] = m.mentions[v] \ C
          BY <1>1
        <4>. QED  BY <4>1
      <3>3. \A v \in Versions :
               (n.members[v] \cup n.mentions[v]) \cap CasesOf({d}) = {}
        BY <3>1, <3>2
      <3>. QED  BY <2>2, <3>3
    <2>4. CASE d \in DeletedDecisions(m)
      <3>1. \A v \in Versions :
               (m.members[v] \cup m.mentions[v]) \cap CasesOf({d}) = {}
        BY <2>4 DEF Sound, NothingOfDeleted
      <3>2. \A v \in Versions : /\ n.members[v] \subseteq m.members[v]
                                /\ n.mentions[v] \subseteq m.mentions[v]
        <4>. SUFFICES ASSUME NEW v \in Versions
                      PROVE  /\ n.members[v] \subseteq m.members[v]
                             /\ n.mentions[v] \subseteq m.mentions[v]
          OBVIOUS
        <4>1. n.members[v] = m.members[v] \ C /\ n.mentions[v] = m.mentions[v] \ C
          BY <1>1
        <4>. QED  BY <4>1
      <3>3. \A v \in Versions :
               (n.members[v] \cup n.mentions[v]) \cap CasesOf({d}) = {}
        BY <3>1, <3>2
      <3>. QED  BY <2>2, <3>3
    <2>. QED  BY <2>1, <2>3, <2>4
  <1>7. ReportsShowLiveCases(n)
    BY <1>1, <1>2 DEF Sound, ReportsShowLiveCases, LiveCases
  <1>8. OnlyReviewed(n)
    <2>. SUFFICES ASSUME NEW d \in Decisions, NEW r \in 1 .. MaxRevision,
                         r > n.revision[d]
                  PROVE  n.cases[<<d, r>>] = "none" /\ n.reviews[<<d, r>>] = "none"
      BY DEF OnlyReviewed
    <2>. QED  BY <1>1, <1>3 DEF Sound, OnlyReviewed
  <1>9. Pointer(n)
    BY <1>1 DEF Pointer, Memory
  <1>. QED  BY <1>4, <1>5, <1>6, <1>7, <1>8, <1>9 DEF Sound, n

\* After a repair the pointer is usable, and sound tables are still sound.
LEMMA RepairSound ==
    ASSUME NEW m \in Memory, NEW n, Sound(m), Pointer(m), Repair(m, n)
    PROVE  n \in Memory /\ Sound(n) /\ ActiveUsable(n)
  <1>1. CASE ~NeedsRepair(m) /\ n = m
    BY <1>1 DEF NeedsRepair, Pointer, ActiveUsable, Memory
  <1>2. CASE /\ NeedsRepair(m) /\ Fallbacks(m) = {}
             /\ n = [m EXCEPT !.active = NoVersion]
    <2>1. /\ n \in Memory
          /\ n.decision = m.decision /\ n.revision = m.revision
          /\ n.reviews = m.reviews /\ n.cases = m.cases
          /\ n.status = m.status /\ n.invalidated = m.invalidated
          /\ n.mentions = m.mentions /\ n.members = m.members
          /\ n.active = NoVersion
      BY <1>2 DEF Memory
    <2>2. Sound(n)
      BY <2>1 DEF Sound, FrozenMembersLive, ActiveCases, CurrentJudgment,
                  NothingOfDeleted, DeletedDecisions, ReportsShowLiveCases,
                  LiveCases, OnlyReviewed
    <2>3. ActiveUsable(n)
      BY <1>2, <2>1 DEF NeedsRepair, Pointer, ActiveUsable, Memory
    <2>. QED  BY <2>1, <2>2, <2>3
  <1>3. CASE /\ NeedsRepair(m)
             /\ \E v \in Fallbacks(m) :
                   n = [m EXCEPT !.active = v, !.status[v] = "active"]
    <2>1. PICK v \in Fallbacks(m) :
                 n = [m EXCEPT !.active = v, !.status[v] = "active"]
      BY <1>3
    <2>2. /\ v \in Versions /\ ~m.invalidated[v] /\ m.evaluation[v] = "passed"
          /\ v # m.active
      BY DEF Fallbacks
    <2>3. /\ n \in Memory
          /\ n.decision = m.decision /\ n.revision = m.revision
          /\ n.reviews = m.reviews /\ n.cases = m.cases
          /\ n.status = [m.status EXCEPT ![v] = "active"]
          /\ n.invalidated = m.invalidated /\ n.evaluation = m.evaluation
          /\ n.mentions = m.mentions /\ n.members = m.members
          /\ n.active = v
      BY <2>1, <2>2 DEF Memory, VersionStatus
    <2>4. Sound(n)
      BY <2>3 DEF Sound, FrozenMembersLive, ActiveCases, CurrentJudgment,
                  NothingOfDeleted, DeletedDecisions, ReportsShowLiveCases,
                  LiveCases, OnlyReviewed
    <2>5. ActiveUsable(n)
      BY <1>3, <2>2, <2>3 DEF NeedsRepair, Pointer, ActiveUsable, Memory
    <2>. QED  BY <2>3, <2>4, <2>5
  <1>. QED  BY <1>1, <1>2, <1>3 DEF Repair

-----------------------------------------------------------------------------
(* A review.                                                               *)

Replaced(m, d, verdict) ==
    {c \in CasesOf({d}) \cap ActiveCases(m) : Revokes(m, d, verdict)}

\* A review adds a revision and its case, and takes the earlier case with the
\* versions that froze it out of use when it replaces a judgment.
LEMMA RecordReviewFields ==
    ASSUME NEW m \in Memory, NEW d \in Decisions, NEW verdict \in Verdict,
           m.revision[d] < MaxRevision
    PROVE  LET n == RecordReview(m, d, verdict)
               new == <<d, m.revision[d] + 1>>
               C == Replaced(m, d, verdict) IN
           /\ n \in Memory /\ new \in CaseIds
           /\ n.decision = m.decision
           /\ n.evaluation = m.evaluation /\ n.policy = m.policy
           /\ n.mentions = m.mentions /\ n.members = m.members
           /\ n.active = m.active
           /\ n.revision = [m.revision EXCEPT ![d] = m.revision[d] + 1]
           /\ n.reviews = [m.reviews EXCEPT ![new] = verdict]
           /\ \A c \in CaseIds :
                 n.cases[c] = IF c = new /\ verdict = "completed" THEN "active"
                              ELSE IF c \in C THEN "inactive" ELSE m.cases[c]
           /\ \A v \in Versions :
                 /\ n.invalidated[v] <=> (m.members[v] \cap C # {} \/ m.invalidated[v])
                 /\ n.status[v] = IF m.members[v] \cap C # {} /\ m.status[v] = "active"
                                  THEN "invalidated" ELSE m.status[v]
  <1>. DEFINE new == <<d, m.revision[d] + 1>>
              C == Replaced(m, d, verdict)
              A == CasesOf({d}) \cap ActiveCases(m)
              i == Invalidate(m, VersionsWith(m, A))
              f == [c \in CaseIds |-> IF c \in A THEN "inactive" ELSE m.cases[c]]
              k == IF Revokes(m, d, verdict) THEN Revoke(m, d) ELSE m
  <1>1. m.revision[d] \in 0 .. MaxRevision /\ m.revision[d] + 1 \in 1 .. MaxRevision
    BY MaxRevisionAssumption DEF Memory
  <1>2. new \in CaseIds
    BY <1>1 DEF CaseIds
  <1>3. /\ k \in Memory
        /\ k.decision = m.decision /\ k.revision = m.revision
        /\ k.reviews = m.reviews /\ k.evaluation = m.evaluation
        /\ k.policy = m.policy /\ k.mentions = m.mentions
        /\ k.members = m.members /\ k.active = m.active
        /\ \A c \in CaseIds : k.cases[c] = IF c \in C THEN "inactive" ELSE m.cases[c]
        /\ \A v \in Versions :
              /\ k.invalidated[v] <=> (m.members[v] \cap C # {} \/ m.invalidated[v])
              /\ k.status[v] = IF m.members[v] \cap C # {} /\ m.status[v] = "active"
                               THEN "invalidated" ELSE m.status[v]
    <2>1. CASE ~Revokes(m, d, verdict)
      <3>1. k = m /\ C = {}
        BY <2>1 DEF Replaced
      <3>. QED  BY <3>1
    <2>2. CASE Revokes(m, d, verdict)
      <3>1. C = A
        BY <2>2 DEF Replaced
      <3>2. k = [i EXCEPT !.cases = f]
        BY <2>2 DEF Revoke
      <3>3. VersionsWith(m, A) \in SUBSET Versions
        BY DEF VersionsWith
      <3>. HIDE DEF A, C, k, f
      <3>4. /\ i \in Memory
            /\ i.decision = m.decision /\ i.revision = m.revision
            /\ i.reviews = m.reviews /\ i.evaluation = m.evaluation
            /\ i.policy = m.policy
            /\ i.mentions = m.mentions /\ i.members = m.members
            /\ i.active = m.active
            /\ \A v \in Versions :
                  /\ i.invalidated[v] <=> (v \in VersionsWith(m, A) \/ m.invalidated[v])
                  /\ i.status[v] = IF v \in VersionsWith(m, A) /\ m.status[v] = "active"
                                   THEN "invalidated" ELSE m.status[v]
        BY <3>3, InvalidateFields
      <3>5. f \in [CaseIds -> CaseStatus]
        BY DEF Memory, CaseStatus, f
      <3>6. \A v \in Versions : v \in VersionsWith(m, A) <=> m.members[v] \cap A # {}
        BY DEF VersionsWith
      <3>7. \A c \in CaseIds : f[c] = IF c \in A THEN "inactive" ELSE m.cases[c]
        BY DEF f
      <3>. HIDE DEF i
      <3>8. LET n == [i EXCEPT !.cases = f] IN
            /\ n \in Memory /\ n.cases = f
            /\ n.decision = i.decision /\ n.revision = i.revision
            /\ n.reviews = i.reviews /\ n.mentions = i.mentions
            /\ n.evaluation = i.evaluation /\ n.policy = i.policy
            /\ n.members = i.members /\ n.active = i.active
            /\ n.status = i.status /\ n.invalidated = i.invalidated
        BY <3>4, <3>5 DEF Memory
      <3>. QED  BY <3>1, <3>2, <3>4, <3>6, <3>7, <3>8
    <2>. QED  BY <2>1, <2>2
  <1>4. RecordReview(m, d, verdict) =
          [k EXCEPT !.revision[d] = m.revision[d] + 1,
                    !.reviews[new] = verdict,
                    !.cases[new] = IF verdict = "completed" THEN "active" ELSE @]
    BY DEF RecordReview
  <1>. HIDE DEF k, C, new
  <1>5. LET n == [k EXCEPT !.revision[d] = m.revision[d] + 1,
                           !.reviews[new] = verdict,
                           !.cases[new] = IF verdict = "completed"
                                          THEN "active" ELSE @] IN
        /\ n \in Memory
        /\ n.revision = [k.revision EXCEPT ![d] = m.revision[d] + 1]
        /\ n.reviews = [k.reviews EXCEPT ![new] = verdict]
        /\ \A c \in CaseIds : n.cases[c] = IF c = new /\ verdict = "completed"
                                          THEN "active" ELSE k.cases[c]
        /\ n.decision = k.decision /\ n.mentions = k.mentions
        /\ n.evaluation = k.evaluation /\ n.policy = k.policy
        /\ n.members = k.members /\ n.active = k.active
        /\ n.status = k.status /\ n.invalidated = k.invalidated
    <2>1. /\ [k.revision EXCEPT ![d] = m.revision[d] + 1]
                \in [Decisions -> 0 .. MaxRevision]
          /\ [k.reviews EXCEPT ![new] = verdict] \in [CaseIds -> Verdict]
          /\ [k.cases EXCEPT ![new] = IF verdict = "completed"
                                      THEN "active" ELSE k.cases[new]]
                \in [CaseIds -> CaseStatus]
      BY <1>1, <1>2, <1>3, MaxRevisionAssumption DEF Memory, CaseStatus
    <2>. QED  BY <1>2, <1>3, <2>1 DEF Memory
  <1>. QED  BY <1>2, <1>3, <1>4, <1>5 DEF new, C

\* A review keeps sound tables sound, but for the pointer to be repaired.
LEMMA RecordReviewSound ==
    ASSUME NEW m \in Memory, NEW d \in Decisions, NEW verdict \in Verdict,
           m.revision[d] < MaxRevision, m.decision[d] # "deleted",
           verdict # "none", Sound(m), ActiveUsable(m)
    PROVE  LET n == RecordReview(m, d, verdict) IN
           /\ n \in Memory /\ Sound(n) /\ Pointer(n)
           /\ ~Revokes(m, d, verdict) => ActiveUsable(n)
  <1>. DEFINE n == RecordReview(m, d, verdict)
              new == <<d, m.revision[d] + 1>>
              C == Replaced(m, d, verdict)
  <1>1. /\ n \in Memory /\ new \in CaseIds
        /\ n.decision = m.decision
        /\ n.evaluation = m.evaluation
        /\ n.mentions = m.mentions /\ n.members = m.members
        /\ n.active = m.active
        /\ n.revision = [m.revision EXCEPT ![d] = m.revision[d] + 1]
        /\ n.reviews = [m.reviews EXCEPT ![new] = verdict]
        /\ \A c \in CaseIds :
              n.cases[c] = IF c = new /\ verdict = "completed" THEN "active"
                           ELSE IF c \in C THEN "inactive" ELSE m.cases[c]
        /\ \A v \in Versions :
              /\ n.invalidated[v] <=> (m.members[v] \cap C # {} \/ m.invalidated[v])
              /\ n.status[v] = IF m.members[v] \cap C # {} /\ m.status[v] = "active"
                               THEN "invalidated" ELSE m.status[v]
    BY RecordReviewFields
  <1>2. \A v \in Versions : m.members[v] \subseteq CaseIds /\ m.mentions[v] \subseteq CaseIds
    BY DEF Memory
  <1>3. C \subseteq ActiveCases(m) /\ C \subseteq CasesOf({d})
    BY DEF Replaced
  <1>4. \A e \in Decisions, r \in 1 .. MaxRevision :
           /\ <<e, r>> \in CaseIds
           /\ <<e, r>> \in CasesOf({d}) <=> e = d
           /\ <<e, r>> = new <=> e = d /\ r = m.revision[d] + 1
    <2>1. {d} \in SUBSET Decisions
      OBVIOUS
    <2>2. \A e \in Decisions, r \in 1 .. MaxRevision :
             /\ <<e, r>> \in CaseIds
             /\ <<e, r>> \in CasesOf({d}) <=> e \in {d}
      BY <2>1, CasesOfType
    <2>. QED  BY <2>2
  <1>5. m.revision[d] \in Nat
    BY MaxRevisionAssumption DEF Memory
  <1>6. m.cases[new] = "none" /\ m.reviews[new] = "none"
    <2>1. m.revision[d] + 1 \in 1 .. MaxRevision
      BY <1>5, MaxRevisionAssumption
    <2>. QED  BY <1>5, <2>1 DEF Sound, OnlyReviewed
  <1>7. Revokes(m, d, verdict) => C = CasesOf({d}) \cap ActiveCases(m)
    BY DEF Replaced
  <1>. HIDE DEF n, C, new
  <1>8. FrozenMembersLive(n)
    BY <1>1, <1>2 DEF Sound, FrozenMembersLive, ActiveCases
  <1>9. CurrentJudgment(n)
    <2>. SUFFICES ASSUME NEW e \in Decisions, NEW r \in 1 .. MaxRevision,
                         n.cases[<<e, r>>] = "active"
                  PROVE  /\ n.reviews[<<e, r>>] = "completed"
                         /\ \A s \in (r + 1) .. MaxRevision :
                               n.reviews[<<e, s>>] \in {"none", "pending"}
      BY DEF CurrentJudgment
    <2>1. /\ m.cases[<<e, r>>] = "active" =>
               /\ m.reviews[<<e, r>>] = "completed"
               /\ \A s \in (r + 1) .. MaxRevision :
                     m.reviews[<<e, s>>] \in {"none", "pending"}
      BY DEF Sound, CurrentJudgment
    <2>2. \A s \in (r + 1) .. MaxRevision : s \in 1 .. MaxRevision
      BY MaxRevisionAssumption
    <2>3. CASE <<e, r>> = new
      <3>1. e = d /\ r = m.revision[d] + 1 /\ verdict = "completed"
        BY <1>1, <1>3, <1>4, <1>6, <2>3 DEF ActiveCases
      <3>2. \A s \in (r + 1) .. MaxRevision : m.reviews[<<e, s>>] = "none"
        BY <1>5, <2>2, <3>1, MaxRevisionAssumption DEF Sound, OnlyReviewed
      <3>3. \A s \in (r + 1) .. MaxRevision : <<e, s>> # new
        BY <1>4, <2>2, <3>1
      <3>4. n.reviews[<<e, r>>] = "completed"
        BY <1>1, <2>3, <3>1 DEF Memory
      <3>5. \A s \in (r + 1) .. MaxRevision : n.reviews[<<e, s>>] = "none"
        BY <1>1, <1>4, <2>2, <3>2, <3>3 DEF Memory
      <3>. QED  BY <3>4, <3>5
    <2>4. CASE <<e, r>> # new
      <3>1. m.cases[<<e, r>>] = "active" /\ <<e, r>> \notin C
        BY <1>1, <1>4, <2>4
      <3>2. e = d => ~Revokes(m, d, verdict)
        BY <1>4, <1>7, <3>1 DEF ActiveCases
      <3>3. e = d => verdict = "pending"
        <4>1. m.revision[d] = 0 => m.cases[<<d, r>>] = "none"
          BY <1>5 DEF Sound, OnlyReviewed
        <4>. QED  BY <1>5, <3>1, <3>2, <4>1 DEF Revokes
      <3>4. n.reviews[<<e, r>>] = "completed"
        BY <1>1, <1>4, <2>1, <2>4, <3>1 DEF Memory
      <3>5. \A s \in (r + 1) .. MaxRevision :
               n.reviews[<<e, s>>] \in {"none", "pending"}
        BY <1>1, <1>4, <2>1, <2>2, <3>1, <3>3 DEF Memory
      <3>. QED  BY <3>4, <3>5
    <2>. QED  BY <2>3, <2>4
  <1>10. NothingOfDeleted(n)
    <2>. SUFFICES ASSUME NEW e \in DeletedDecisions(n)
                  PROVE  /\ \A r \in 1 .. MaxRevision :
                               n.cases[<<e, r>>] = "none" /\ n.reviews[<<e, r>>] = "none"
                         /\ \A v \in Versions :
                               (n.members[v] \cup n.mentions[v]) \cap CasesOf({e}) = {}
      BY DEF NothingOfDeleted
    <2>1. e \in Decisions /\ e \in DeletedDecisions(m) /\ e # d
      BY <1>1 DEF DeletedDecisions
    <2>2. /\ \A r \in 1 .. MaxRevision :
               m.cases[<<e, r>>] = "none" /\ m.reviews[<<e, r>>] = "none"
          /\ \A v \in Versions :
               (m.members[v] \cup m.mentions[v]) \cap CasesOf({e}) = {}
      BY <2>1 DEF Sound, NothingOfDeleted
    <2>3. \A r \in 1 .. MaxRevision :
               n.cases[<<e, r>>] = "none" /\ n.reviews[<<e, r>>] = "none"
      BY <1>1, <1>3, <1>4, <2>1, <2>2 DEF Memory
    <2>4. \A v \in Versions :
               (n.members[v] \cup n.mentions[v]) \cap CasesOf({e}) = {}
      BY <1>1, <2>2
    <2>. QED  BY <2>3, <2>4
  <1>11. ReportsShowLiveCases(n)
    BY <1>1, <1>2, <1>3 DEF Sound, ReportsShowLiveCases, LiveCases, ActiveCases
  <1>12. OnlyReviewed(n)
    <2>. SUFFICES ASSUME NEW e \in Decisions, NEW r \in 1 .. MaxRevision,
                         r > n.revision[e]
                  PROVE  n.cases[<<e, r>>] = "none" /\ n.reviews[<<e, r>>] = "none"
      BY DEF OnlyReviewed
    <2>1. r > m.revision[e] /\ <<e, r>> # new
      BY <1>1, <1>4, <1>5 DEF Memory
    <2>2. m.cases[<<e, r>>] = "none" /\ m.reviews[<<e, r>>] = "none"
      BY <2>1 DEF Sound, OnlyReviewed
    <2>. QED  BY <1>1, <1>3, <1>4, <2>1, <2>2 DEF Memory, ActiveCases
  <1>13. Pointer(n)
    BY <1>1, ActiveUsablePointer DEF Pointer, Memory
  <1>14. ~Revokes(m, d, verdict) => ActiveUsable(n)
    <2>1. ~Revokes(m, d, verdict) => C = {}
      BY DEF Replaced, C
    <2>. QED  BY <1>1, <2>1 DEF ActiveUsable, Memory
  <1>. QED  BY <1>1, <1>8, <1>9, <1>10, <1>11, <1>12, <1>13, <1>14 DEF Sound, n

-----------------------------------------------------------------------------
(* The inductive invariant.                                                *)

\* The tables of a new database are sound.
LEMMA EmptyMemorySound ==
    EmptyMemory \in Memory /\ ActiveUsable(EmptyMemory) /\ Sound(EmptyMemory)
  <1>1. EmptyMemory \in Memory
    BY MaxRevisionAssumption, MaxPolicyAssumption
       DEF EmptyMemory, Memory, DecisionStatus, Verdict, CaseStatus,
           VersionStatus, Evaluation
  <1>2. ActiveUsable(EmptyMemory)
    BY DEF EmptyMemory, ActiveUsable
  <1>3. Sound(EmptyMemory)
    BY DEF EmptyMemory, Sound, FrozenMembersLive, CurrentJudgment,
           NothingOfDeleted, DeletedDecisions, ReportsShowLiveCases,
           OnlyReviewed, CaseIds
  <1>. QED  BY <1>1, <1>2, <1>3

\* The inductive invariant holds initially.
LEMMA InitInv == Init => Inv
  BY EmptyMemorySound, MaxPolicyAssumption DEF Init, Inv, TypeOK

\* A step on the tables alone need only keep them sound.
LEMMA TablesStep ==
    ASSUME Inv, db' \in Memory, ActiveUsable(db'), Sound(db'),
           UNCHANGED <<archive, policy>>
    PROVE  Inv'
  BY DEF Inv, TypeOK

\* Tables that differ in nothing the soundness conditions read.
LEMMA DecisionStatusSound ==
    ASSUME NEW m \in Memory, NEW d \in Decisions,
           NEW x \in DecisionStatus \ {"deleted"}, m.decision[d] # "deleted",
           Sound(m), ActiveUsable(m)
    PROVE  LET n == [m EXCEPT !.decision[d] = x] IN
           n \in Memory /\ Sound(n) /\ ActiveUsable(n)
  <1>. DEFINE n == [m EXCEPT !.decision[d] = x]
  <1>1. /\ n \in Memory
        /\ n.decision = [m.decision EXCEPT ![d] = x] /\ n.revision = m.revision
        /\ n.reviews = m.reviews /\ n.cases = m.cases
        /\ n.status = m.status /\ n.invalidated = m.invalidated
        /\ n.evaluation = m.evaluation /\ n.active = m.active
        /\ n.mentions = m.mentions /\ n.members = m.members
    BY DEF Memory
  <1>. HIDE DEF n
  <1>2. DeletedDecisions(n) = DeletedDecisions(m)
    BY <1>1 DEF DeletedDecisions, Memory
  <1>3. ActiveUsable(n)
    BY <1>1 DEF ActiveUsable
  <1>4. Sound(n)
    BY <1>1, <1>2 DEF Sound, FrozenMembersLive, ActiveCases, CurrentJudgment,
                      NothingOfDeleted, ReportsShowLiveCases, LiveCases,
                      OnlyReviewed
  <1>. QED  BY <1>1, <1>3, <1>4 DEF n

\* Freezing cases in use keeps the tables sound.
LEMMA CreateVersionSound ==
    ASSUME NEW m \in Memory, NEW v \in Versions, NEW C \in SUBSET ActiveCases(m),
           m.status[v] = "none",
           Sound(m), ActiveUsable(m), \A d \in DeletedDecisions(m) :
                                         C \cap CasesOf({d}) = {}
    PROVE  LET n == [m EXCEPT !.status[v] = "candidate", !.members[v] = C] IN
           n \in Memory /\ Sound(n) /\ ActiveUsable(n)
  <1>. DEFINE n == [m EXCEPT !.status[v] = "candidate", !.members[v] = C]
  <1>1. /\ n \in Memory
        /\ n.decision = m.decision /\ n.revision = m.revision
        /\ n.reviews = m.reviews /\ n.cases = m.cases
        /\ n.status = [m.status EXCEPT ![v] = "candidate"]
        /\ n.invalidated = m.invalidated
        /\ n.evaluation = m.evaluation /\ n.active = m.active
        /\ n.mentions = m.mentions
        /\ n.members = [m.members EXCEPT ![v] = C]
    BY DEF Memory, ActiveCases, VersionStatus
  <1>. HIDE DEF n
  <1>2. ActiveUsable(n)
    BY <1>1, NoVersionAssumption DEF ActiveUsable, Memory
  <1>3. FrozenMembersLive(n)
    BY <1>1 DEF Sound, FrozenMembersLive, ActiveCases, Memory
  <1>4. NothingOfDeleted(n)
    <2>. SUFFICES ASSUME NEW d \in DeletedDecisions(n)
                  PROVE  /\ \A r \in 1 .. MaxRevision :
                               n.cases[<<d, r>>] = "none" /\ n.reviews[<<d, r>>] = "none"
                         /\ \A w \in Versions :
                               (n.members[w] \cup n.mentions[w]) \cap CasesOf({d}) = {}
      BY DEF NothingOfDeleted
    <2>1. d \in DeletedDecisions(m)
      BY <1>1 DEF DeletedDecisions
    <2>2. /\ \A r \in 1 .. MaxRevision :
               m.cases[<<d, r>>] = "none" /\ m.reviews[<<d, r>>] = "none"
          /\ \A w \in Versions :
               (m.members[w] \cup m.mentions[w]) \cap CasesOf({d}) = {}
      BY <2>1 DEF Sound, NothingOfDeleted
    <2>3. C \cap CasesOf({d}) = {}
      BY <2>1
    <2>4. \A w \in Versions :
             /\ n.members[w] \in {C, m.members[w]}
             /\ n.mentions[w] \in {C, m.mentions[w]}
      BY <1>1 DEF Memory
    <2>. QED  BY <1>1, <2>2, <2>3, <2>4
  <1>5. CurrentJudgment(n) /\ ReportsShowLiveCases(n) /\ OnlyReviewed(n)
    BY <1>1 DEF Sound, CurrentJudgment, ReportsShowLiveCases, LiveCases,
                OnlyReviewed
  <1>. QED  BY <1>1, <1>2, <1>3, <1>4, <1>5 DEF Sound, n

\* A report on a candidate keeps the tables sound.
LEMMA ReportVersionSound ==
    ASSUME NEW m \in Memory, NEW v \in Versions, NEW C \in SUBSET LiveCases(m),
           NEW result \in Evaluation, NEW p \in 1 .. MaxPolicy,
           m.status[v] # "active",
           Sound(m), ActiveUsable(m), \A d \in DeletedDecisions(m) :
                                         C \cap CasesOf({d}) = {}
    PROVE  LET n == [m EXCEPT !.evaluation[v] = result, !.policy[v] = p,
                              !.mentions[v] = C] IN
           n \in Memory /\ Sound(n) /\ ActiveUsable(n)
  <1>. DEFINE n == [m EXCEPT !.evaluation[v] = result, !.policy[v] = p,
                             !.mentions[v] = C]
  <1>1. /\ n \in Memory
        /\ n.decision = m.decision /\ n.revision = m.revision
        /\ n.reviews = m.reviews /\ n.cases = m.cases
        /\ n.status = m.status /\ n.invalidated = m.invalidated
        /\ n.evaluation = [m.evaluation EXCEPT ![v] = result]
        /\ n.active = m.active
        /\ n.mentions = [m.mentions EXCEPT ![v] = C]
        /\ n.members = m.members
    <2>1. /\ [m.evaluation EXCEPT ![v] = result] \in [Versions -> Evaluation]
          /\ [m.mentions EXCEPT ![v] = C] \in [Versions -> SUBSET CaseIds]
      BY DEF Memory, LiveCases
    <2>2. [m.policy EXCEPT ![v] = p] \in [Versions -> 0 .. MaxPolicy]
      BY MaxPolicyAssumption DEF Memory
    <2>. QED  BY <2>1, <2>2 DEF Memory
  <1>. HIDE DEF n
  <1>2. ActiveUsable(n)
    BY <1>1 DEF ActiveUsable, Memory
  <1>3. NothingOfDeleted(n)
    <2>. SUFFICES ASSUME NEW d \in DeletedDecisions(n)
                  PROVE  /\ \A r \in 1 .. MaxRevision :
                               n.cases[<<d, r>>] = "none" /\ n.reviews[<<d, r>>] = "none"
                         /\ \A w \in Versions :
                               (n.members[w] \cup n.mentions[w]) \cap CasesOf({d}) = {}
      BY DEF NothingOfDeleted
    <2>1. d \in DeletedDecisions(m)
      BY <1>1 DEF DeletedDecisions
    <2>2. /\ \A r \in 1 .. MaxRevision :
               m.cases[<<d, r>>] = "none" /\ m.reviews[<<d, r>>] = "none"
          /\ \A w \in Versions :
               (m.members[w] \cup m.mentions[w]) \cap CasesOf({d}) = {}
      BY <2>1 DEF Sound, NothingOfDeleted
    <2>3. C \cap CasesOf({d}) = {}
      BY <2>1
    <2>4. \A w \in Versions :
             /\ n.members[w] \in {C, m.members[w]}
             /\ n.mentions[w] \in {C, m.mentions[w]}
      BY <1>1 DEF Memory
    <2>. QED  BY <1>1, <2>2, <2>3, <2>4
  <1>4. ReportsShowLiveCases(n)
    BY <1>1 DEF Sound, ReportsShowLiveCases, LiveCases, Memory
  <1>5. FrozenMembersLive(n) /\ CurrentJudgment(n) /\ OnlyReviewed(n)
    BY <1>1 DEF Sound, FrozenMembersLive, ActiveCases, CurrentJudgment,
                OnlyReviewed
  <1>. QED  BY <1>1, <1>2, <1>3, <1>4, <1>5 DEF Sound, n

\* An activation that passes its checks leaves a usable pointer.
LEMMA ActivateVersionSound ==
    ASSUME NEW m \in Memory, NEW v \in Versions, ~m.invalidated[v],
           m.evaluation[v] = "passed", Sound(m), ActiveUsable(m)
    PROVE  LET n == [m EXCEPT
                       !.status = [w \in Versions |->
                                     IF w = v THEN "active"
                                     ELSE IF m.status[w] = "active"
                                          THEN "superseded" ELSE m.status[w]],
                       !.active = v] IN
           n \in Memory /\ Sound(n) /\ ActiveUsable(n)
  <1>. DEFINE f == [w \in Versions |-> IF w = v THEN "active"
                                      ELSE IF m.status[w] = "active"
                                           THEN "superseded" ELSE m.status[w]]
              n == [m EXCEPT !.status = f, !.active = v]
  <1>1. f \in [Versions -> VersionStatus]
    BY DEF Memory, VersionStatus
  <1>2. /\ n \in Memory
        /\ n.decision = m.decision /\ n.revision = m.revision
        /\ n.reviews = m.reviews /\ n.cases = m.cases
        /\ n.status = f /\ n.active = v
        /\ n.invalidated = m.invalidated
        /\ n.evaluation = m.evaluation
        /\ n.mentions = m.mentions /\ n.members = m.members
    BY <1>1 DEF Memory
  <1>. HIDE DEF n
  <1>3. ActiveUsable(n)
    BY <1>2 DEF ActiveUsable
  <1>4. Sound(n)
    BY <1>2 DEF Sound, FrozenMembersLive, ActiveCases, CurrentJudgment,
                NothingOfDeleted, DeletedDecisions, ReportsShowLiveCases,
                LiveCases, OnlyReviewed
  <1>. QED  BY <1>2, <1>3, <1>4 DEF n

\* Cases of deleted decisions do not exist, so they are neither frozen nor
\* reported.
LEMMA NoLiveCaseOfDeleted ==
    ASSUME NEW m \in Memory, Sound(m), NEW d \in DeletedDecisions(m)
    PROVE  LiveCases(m) \cap CasesOf({d}) = {}
  <1>. SUFFICES ASSUME NEW c \in CaseIds, c[1] = d, m.cases[c] # "none"
                PROVE  FALSE
    BY DEF LiveCases, CasesOf
  <1>1. c[2] \in 1 .. MaxRevision /\ c = <<d, c[2]>>
    BY DEF CaseIds
  <1>. QED  BY <1>1 DEF Sound, NothingOfDeleted

\* A sound backup is sound after the deletions have been reapplied to it.
LEMMA ReapplySound ==
    ASSUME NEW m \in Memory, NEW b \in Memory, Sound(b), ActiveUsable(b)
    PROVE  LET n == Reapply(m, b) IN n \in Memory /\ Sound(n) /\ Pointer(n)
  <1>. DEFINE k == PurgeDecisions(b, DeletedDecisions(m))
  <1>1. DeletedDecisions(m) \in SUBSET Decisions
    BY DEF DeletedDecisions
  <1>2. Pointer(b)
    BY ActiveUsablePointer
  <1>3. k \in Memory
    BY <1>1, PurgeDecisionsFields
  <1>4. Sound(k) /\ Pointer(k)
    BY <1>1, <1>2, PurgeDecisionsSound
  <1>5. WithdrawnCases(m) \in SUBSET CaseIds
    BY DEF WithdrawnCases
  <1>6. Reapply(m, b) = WithdrawCases(k, WithdrawnCases(m))
    BY DEF Reapply
  <1>. HIDE DEF k
  <1>7. WithdrawCases(k, WithdrawnCases(m)) \in Memory
    BY <1>3, <1>5, WithdrawCasesFields
  <1>8. Sound(WithdrawCases(k, WithdrawnCases(m)))
           /\ Pointer(WithdrawCases(k, WithdrawnCases(m)))
    BY <1>3, <1>4, <1>5, WithdrawCasesSound
  <1>. QED  BY <1>6, <1>7, <1>8

\* Every step keeps the inductive invariant.
LEMMA NextInv == Inv /\ [Next]_vars => Inv'
  <1>. SUFFICES ASSUME Inv, [Next]_vars
                PROVE  Inv'
    OBVIOUS
  <1>0. /\ db \in Memory /\ ActiveUsable(db) /\ Sound(db) /\ Pointer(db)
        /\ policy \in 1 .. MaxPolicy
    BY ActiveUsablePointer DEF Inv, TypeOK
  <1>1. ASSUME NEW d \in Decisions, BeginDecision(d)
        PROVE  Inv'
    <2>1. db' = [db EXCEPT !.decision[d] = "stored"] /\ db.decision[d] = "absent"
      BY <1>1 DEF BeginDecision
    <2>2. db' \in Memory /\ Sound(db') /\ ActiveUsable(db')
      BY <1>0, <2>1, DecisionStatusSound DEF DecisionStatus
    <2>. QED  BY <1>1, <2>2, TablesStep DEF BeginDecision
  <1>2. ASSUME NEW d \in Decisions, Retention(d)
        PROVE  Inv'
    <2>1. /\ db' = [db EXCEPT !.decision[d] = "source_expired"]
          /\ db.decision[d] = "stored"
      BY <1>2 DEF Retention
    <2>2. db' \in Memory /\ Sound(db') /\ ActiveUsable(db')
      BY <1>0, <2>1, DecisionStatusSound DEF DecisionStatus
    <2>. QED  BY <1>2, <2>2, TablesStep DEF Retention
  <1>3. ASSUME NEW d \in Decisions, NEW verdict \in Verdict \ {"none"},
               ReviewDecision(d, verdict)
        PROVE  Inv'
    <2>. DEFINE n == RecordReview(db, d, verdict)
    <2>1. db.decision[d] # "deleted" /\ db.revision[d] < MaxRevision
      BY <1>3 DEF ReviewDecision
    <2>2. /\ n \in Memory /\ Sound(n) /\ Pointer(n)
          /\ ~Revokes(db, d, verdict) => ActiveUsable(n)
      BY <1>0, <2>1, RecordReviewSound
    <2>3. IF Revokes(db, d, verdict) THEN Repair(n, db') ELSE db' = n
      BY <1>3 DEF ReviewDecision
    <2>. HIDE DEF n
    <2>4. db' \in Memory /\ Sound(db') /\ ActiveUsable(db')
      BY <2>2, <2>3, RepairSound
    <2>. QED  BY <1>3, <2>4, TablesStep DEF ReviewDecision
  <1>4. ASSUME NEW c \in CaseIds, DeleteCase(c)
        PROVE  Inv'
    <2>. DEFINE n == WithdrawCases(db, {c})
    <2>1. n \in Memory
      BY <1>0, WithdrawCasesFields
    <2>2. Sound(n) /\ Pointer(n)
      BY <1>0, WithdrawCasesSound
    <2>3. Repair(n, db')
      BY <1>4 DEF DeleteCase
    <2>. HIDE DEF n
    <2>4. db' \in Memory /\ Sound(db') /\ ActiveUsable(db')
      BY <2>1, <2>2, <2>3, RepairSound
    <2>. QED  BY <1>4, <2>4, TablesStep DEF DeleteCase
  <1>5. ASSUME NEW d \in Decisions, DeleteDecision(d)
        PROVE  Inv'
    <2>. DEFINE n == PurgeDecisions(db, {d})
    <2>1. n \in Memory
      BY <1>0, PurgeDecisionsFields
    <2>2. Sound(n) /\ Pointer(n)
      BY <1>0, PurgeDecisionsSound
    <2>3. Repair(n, db')
      BY <1>5 DEF DeleteDecision
    <2>. HIDE DEF n
    <2>4. db' \in Memory /\ Sound(db') /\ ActiveUsable(db')
      BY <2>1, <2>2, <2>3, RepairSound
    <2>. QED  BY <1>5, <2>4, TablesStep DEF DeleteDecision
  <1>6. ASSUME NEW v \in Versions, NEW C \in SUBSET ActiveCases(db),
               CreateVersion(v, C)
        PROVE  Inv'
    <2>1. \A d \in DeletedDecisions(db) : C \cap CasesOf({d}) = {}
      BY <1>0, NoLiveCaseOfDeleted DEF ActiveCases, LiveCases
    <2>2. db' \in Memory /\ Sound(db') /\ ActiveUsable(db')
      BY <1>0, <1>6, <2>1, CreateVersionSound DEF CreateVersion
    <2>. QED  BY <1>6, <2>2, TablesStep DEF CreateVersion
  <1>7. ASSUME NEW v \in Versions, NEW result \in {"passed", "failed"},
               NEW C \in SUBSET LiveCases(db), ReportVersion(v, result, C)
        PROVE  Inv'
    <2>1. \A d \in DeletedDecisions(db) : C \cap CasesOf({d}) = {}
      BY <1>0, NoLiveCaseOfDeleted
    <2>2. result \in Evaluation /\ db.status[v] # "active"
      BY <1>7 DEF Evaluation, ReportVersion
    <2>3. db' \in Memory /\ Sound(db') /\ ActiveUsable(db')
      BY <1>0, <1>7, <2>1, <2>2, ReportVersionSound DEF ReportVersion
    <2>. QED  BY <1>7, <2>3, TablesStep DEF ReportVersion
  <1>8. ASSUME NEW v \in Versions, ActivateVersion(v)
        PROVE  Inv'
    <2>1. db' \in Memory /\ Sound(db') /\ ActiveUsable(db')
      BY <1>0, <1>8, ActivateVersionSound DEF ActivateVersion
    <2>. QED  BY <1>8, <2>1, TablesStep DEF ActivateVersion
  <1>9. ASSUME NEW a \in Archives, CreateBackup(a)
        PROVE  Inv'
    BY <1>9 DEF CreateBackup, Inv, TypeOK
  <1>10. ASSUME NEW a \in Archives, DeleteBackup(a)
         PROVE  Inv'
    BY <1>10 DEF DeleteBackup, Inv, TypeOK
  <1>11. ASSUME NEW a \in Archives, NEW s \in Archives, RestoreBackup(a, s)
         PROVE  Inv'
    <2>. DEFINE n == Reapply(db, archive[a])
    <2>1. /\ archive[a] \in Memory
          /\ ActiveUsable(archive[a]) /\ Sound(archive[a])
      BY <1>11 DEF RestoreBackup, Inv, TypeOK
    <2>2. n \in Memory /\ Sound(n) /\ Pointer(n)
      BY <1>0, <2>1, ReapplySound
    <2>3. Repair(n, db')
      BY <1>11 DEF RestoreBackup
    <2>. HIDE DEF n
    <2>4. db' \in Memory /\ Sound(db') /\ ActiveUsable(db')
      BY <2>2, <2>3, RepairSound
    <2>5. archive' = [archive EXCEPT ![s] = db] /\ policy' = policy
      BY <1>11 DEF RestoreBackup
    <2>. QED  BY <1>0, <2>4, <2>5 DEF Inv, TypeOK
  <1>12. CASE UpgradePolicy
    <2>1. policy' \in 1 .. MaxPolicy
      BY <1>0, <1>12, MaxPolicyAssumption DEF UpgradePolicy
    <2>. QED  BY <1>12, <2>1 DEF UpgradePolicy, Inv, TypeOK
  <1>13. CASE UNCHANGED vars
    BY <1>13 DEF vars, Inv, TypeOK
  <1>. QED  BY <1>1, <1>2, <1>3, <1>4, <1>5, <1>6, <1>7, <1>8, <1>9, <1>10,
               <1>11, <1>12, <1>13 DEF Next

\* In every reachable state the tables and every backup are well typed and
\* sound.
THEOREM Invariance == Spec => []Inv
  BY InitInv, NextInv, PTL DEF Spec

\* Every table holds rows of its type.
THEOREM TypeCorrect == Spec => []TypeOK
  BY Invariance, PTL DEF Inv

\* The active pointer is always null or usable, after every deletion, review
\* and restore: a prediction never meets an unusable active version.
THEOREM RetrievalAlwaysWorks == Spec => []RetrievalWorks
  <1>1. Inv => RetrievalWorks
    BY DEF Inv, RetrievalWorks
  <1>. QED  BY <1>1, Invariance, PTL

\* Valid versions froze only cases in use, each the current judgment of its
\* decision.
THEOREM VersionsAlwaysFresh == Spec => []VersionsFresh
  <1>1. Inv => VersionsFresh
    BY DEF Inv, Sound, VersionsFresh
  <1>. QED  BY <1>1, Invariance, PTL

\* Nothing learned from a deleted decision is left, and no report shows a
\* withdrawn case.
THEOREM DeletionsAlwaysComplete == Spec => []DeletionComplete
  <1>1. Inv => DeletionComplete
    BY DEF Inv, Sound, DeletionComplete
  <1>. QED  BY <1>1, Invariance, PTL

-----------------------------------------------------------------------------
(* What no step does.                                                      *)

\* A repair touches the active pointer and the status of one version.
LEMMA RepairKeeps ==
    ASSUME NEW m \in Memory, NEW n, Repair(m, n)
    PROVE  /\ n.decision = m.decision /\ n.cases = m.cases
           /\ n.invalidated = m.invalidated /\ n.members = m.members
           /\ n.evaluation = m.evaluation /\ n.policy = m.policy
           /\ n.mentions = m.mentions
  BY DEF Repair, Memory

\* What the reapplied deletions leave of a decision and of a case.
LEMMA ReapplyFields ==
    ASSUME NEW m \in Memory, NEW b \in Memory
    PROVE  LET n == Reapply(m, b) IN
           /\ n \in Memory
           /\ \A d \in Decisions : m.decision[d] = "deleted" => n.decision[d] = "deleted"
           /\ \A c \in CaseIds : m.cases[c] = "withdrawn" => n.cases[c] \in {"withdrawn", "none"}
  <1>. DEFINE D == DeletedDecisions(m)
              C == WithdrawnCases(m)
              k == PurgeDecisions(b, D)
  <1>1. D \in SUBSET Decisions /\ C \in SUBSET CaseIds
    BY DEF DeletedDecisions, WithdrawnCases
  <1>2. Reapply(m, b) = WithdrawCases(k, C)
    BY DEF Reapply
  <1>3. /\ \A d \in Decisions : m.decision[d] = "deleted" => d \in D
        /\ \A c \in CaseIds : m.cases[c] = "withdrawn" => c \in C
    BY DEF DeletedDecisions, WithdrawnCases
  <1>. HIDE DEF D, C
  <1>4. /\ k \in Memory
        /\ \A d \in Decisions : d \in D => k.decision[d] = "deleted"
    BY <1>1, PurgeDecisionsFields
  <1>. HIDE DEF k
  <1>5. /\ WithdrawCases(k, C) \in Memory
        /\ WithdrawCases(k, C).decision = k.decision
        /\ \A c \in CaseIds : WithdrawCases(k, C).cases[c] =
              IF c \in C /\ k.cases[c] # "none" THEN "withdrawn" ELSE k.cases[c]
    BY <1>1, <1>4, WithdrawCasesFields
  <1>. QED  BY <1>2, <1>3, <1>4, <1>5

\* A review leaves withdrawn cases alone: the case it makes is a new row.
LEMMA RecordReviewKeeps ==
    ASSUME NEW m \in Memory, NEW d \in Decisions, NEW verdict \in Verdict,
           m.revision[d] < MaxRevision, Sound(m)
    PROVE  LET n == RecordReview(m, d, verdict) IN
           /\ n \in Memory /\ n.decision = m.decision
           /\ \A c \in CaseIds : m.cases[c] = "withdrawn" => n.cases[c] = "withdrawn"
  <1>. DEFINE n == RecordReview(m, d, verdict)
              new == <<d, m.revision[d] + 1>>
              C == Replaced(m, d, verdict)
  <1>1. /\ n \in Memory /\ new \in CaseIds
        /\ n.decision = m.decision
        /\ n.evaluation = m.evaluation
        /\ n.mentions = m.mentions /\ n.members = m.members
        /\ n.active = m.active
        /\ n.revision = [m.revision EXCEPT ![d] = m.revision[d] + 1]
        /\ n.reviews = [m.reviews EXCEPT ![new] = verdict]
        /\ \A c \in CaseIds :
              n.cases[c] = IF c = new /\ verdict = "completed" THEN "active"
                           ELSE IF c \in C THEN "inactive" ELSE m.cases[c]
        /\ \A v \in Versions :
              /\ n.invalidated[v] <=> (m.members[v] \cap C # {} \/ m.invalidated[v])
              /\ n.status[v] = IF m.members[v] \cap C # {} /\ m.status[v] = "active"
                               THEN "invalidated" ELSE m.status[v]
    BY RecordReviewFields
  <1>2. \A c \in C : m.cases[c] = "active"
    BY DEF Replaced, ActiveCases
  <1>3. m.cases[new] = "none"
    <2>1. m.revision[d] \in Nat /\ m.revision[d] + 1 \in 1 .. MaxRevision
      BY MaxRevisionAssumption DEF Memory
    <2>. QED  BY <2>1 DEF Sound, OnlyReviewed
  <1>. HIDE DEF n, C, new
  <1>. QED  BY <1>1, <1>2, <1>3 DEF n

\* No step revives a deleted decision or puts a withdrawn case back in use.
LEMMA DeletionsKept ==
    ASSUME Inv, [Next]_vars
    PROVE  /\ \A d \in Decisions : db.decision[d] = "deleted" => db'.decision[d] = "deleted"
           /\ \A c \in CaseIds : db.cases[c] = "withdrawn" => db'.cases[c] \in {"withdrawn", "none"}
  <1>. DEFINE Kept ==
         /\ \A d \in Decisions : db.decision[d] = "deleted" => db'.decision[d] = "deleted"
         /\ \A c \in CaseIds : db.cases[c] = "withdrawn" => db'.cases[c] \in {"withdrawn", "none"}
  <1>0. db \in Memory /\ Sound(db)
    BY DEF Inv, TypeOK
  <1>1. ASSUME NEW d \in Decisions, BeginDecision(d) \/ Retention(d)
        PROVE  Kept
    BY <1>0, <1>1 DEF BeginDecision, Retention, Memory
  <1>2. ASSUME NEW d \in Decisions, NEW verdict \in Verdict \ {"none"},
               ReviewDecision(d, verdict)
        PROVE  Kept
    <2>. DEFINE n == RecordReview(db, d, verdict)
    <2>1. db.revision[d] < MaxRevision /\ verdict \in Verdict
      BY <1>2 DEF ReviewDecision
    <2>2. /\ n \in Memory /\ n.decision = db.decision
          /\ \A c \in CaseIds : db.cases[c] = "withdrawn" => n.cases[c] = "withdrawn"
      BY <1>0, <2>1, RecordReviewKeeps
    <2>3. IF Revokes(db, d, verdict) THEN Repair(n, db') ELSE db' = n
      BY <1>2 DEF ReviewDecision
    <2>. HIDE DEF n
    <2>4. db'.decision = n.decision /\ db'.cases = n.cases
      BY <2>2, <2>3, RepairKeeps
    <2>. QED  BY <2>2, <2>4
  <1>3. ASSUME NEW c \in CaseIds, DeleteCase(c)
        PROVE  Kept
    <2>. DEFINE n == WithdrawCases(db, {c})
    <2>1. /\ n \in Memory /\ n.decision = db.decision
          /\ \A e \in CaseIds :
                n.cases[e] = IF e \in {c} /\ db.cases[e] # "none"
                             THEN "withdrawn" ELSE db.cases[e]
      BY <1>0, WithdrawCasesFields
    <2>2. Repair(n, db')
      BY <1>3 DEF DeleteCase
    <2>. HIDE DEF n
    <2>. QED  BY <2>1, <2>2, RepairKeeps
  <1>4. ASSUME NEW d \in Decisions, DeleteDecision(d)
        PROVE  Kept
    <2>. DEFINE n == PurgeDecisions(db, {d})
                C == CasesOf({d})
    <2>1. /\ n \in Memory
          /\ \A e \in Decisions :
                n.decision[e] = IF e \in {d} THEN "deleted" ELSE db.decision[e]
          /\ \A c \in CaseIds : n.cases[c] = IF c \in C THEN "none" ELSE db.cases[c]
      BY <1>0, PurgeDecisionsFields
    <2>2. Repair(n, db')
      BY <1>4 DEF DeleteDecision
    <2>. HIDE DEF n, C
    <2>. QED  BY <2>1, <2>2, RepairKeeps
  <1>5. ASSUME NEW a \in Archives, NEW s \in Archives, RestoreBackup(a, s)
        PROVE  Kept
    <2>. DEFINE n == Reapply(db, archive[a])
    <2>1. archive[a] \in Memory
      BY <1>5 DEF RestoreBackup, Inv, TypeOK
    <2>2. /\ n \in Memory
          /\ \A d \in Decisions : db.decision[d] = "deleted" => n.decision[d] = "deleted"
          /\ \A c \in CaseIds : db.cases[c] = "withdrawn" => n.cases[c] \in {"withdrawn", "none"}
      BY <1>0, <2>1, ReapplyFields
    <2>3. Repair(n, db')
      BY <1>5 DEF RestoreBackup
    <2>. HIDE DEF n
    <2>. QED  BY <2>2, <2>3, RepairKeeps
  <1>6. ASSUME NEW v \in Versions, NEW C, CreateVersion(v, C)
        PROVE  Kept
    BY <1>0, <1>6 DEF CreateVersion, Memory
  <1>7. ASSUME NEW v \in Versions, NEW result, NEW C, ReportVersion(v, result, C)
        PROVE  Kept
    BY <1>0, <1>7 DEF ReportVersion, Memory
  <1>8. ASSUME NEW v \in Versions, ActivateVersion(v)
        PROVE  Kept
    BY <1>0, <1>8 DEF ActivateVersion, Memory
  <1>9. ASSUME UNCHANGED db
        PROVE  Kept
    BY <1>9
  <1>. QED  BY <1>1, <1>2, <1>3, <1>4, <1>5, <1>6, <1>7, <1>8, <1>9
            DEF Next, vars, CreateBackup, DeleteBackup, UpgradePolicy

\* A deleted decision stays deleted, and no single step puts a withdrawn case
\* back in use, whatever backup is restored.
THEOREM NothingEverRevived == Spec => NothingRevived
  <1>1. Inv /\ [Next]_vars =>
          [/\ \A d \in Decisions :
                 db.decision[d] = "deleted" => db'.decision[d] = "deleted"
           /\ \A c \in CaseIds :
                 db.cases[c] = "withdrawn" => db'.cases[c] \in {"withdrawn", "none"}]_vars
    BY DeletionsKept
  <1>. QED  BY <1>1, Invariance, PTL DEF Spec, NothingRevived

-----------------------------------------------------------------------------
(* What stays of a version that stays valid.                               *)

\* From the tables m to the tables n no version is revalidated, and one that
\* stays valid keeps its members and, once evaluated, its report.
VersionsKept(m, n) ==
    \A v \in Versions :
       /\ m.invalidated[v] => n.invalidated[v]
       /\ m.status[v] # "none" /\ ~n.invalidated[v] =>
             n.members[v] = m.members[v]
       /\ m.evaluation[v] # "pending" /\ ~n.invalidated[v] =>
             /\ n.evaluation[v] = m.evaluation[v]
             /\ n.policy[v] = m.policy[v]
             /\ n.mentions[v] = m.mentions[v]

\* A repair of the active pointer leaves every version what it was.
LEMMA RepairKeepsVersions ==
    ASSUME NEW m \in Memory, NEW k \in Memory, NEW n,
           VersionsKept(m, k), Repair(k, n)
    PROVE  VersionsKept(m, n)
  <1>1. /\ n.invalidated = k.invalidated /\ n.members = k.members
        /\ n.evaluation = k.evaluation /\ n.policy = k.policy
        /\ n.mentions = k.mentions
    BY RepairKeeps
  <1>. QED  BY <1>1 DEF VersionsKept

\* A review touches the flags and the statuses of versions, nothing they hold.
LEMMA RecordReviewKeepsVersions ==
    ASSUME NEW m \in Memory, NEW d \in Decisions, NEW verdict \in Verdict,
           m.revision[d] < MaxRevision
    PROVE  /\ RecordReview(m, d, verdict) \in Memory
           /\ VersionsKept(m, RecordReview(m, d, verdict))
  <1>. DEFINE n == RecordReview(m, d, verdict)
              new == <<d, m.revision[d] + 1>>
              C == Replaced(m, d, verdict)
  <1>1. /\ n \in Memory /\ new \in CaseIds
        /\ n.decision = m.decision
        /\ n.evaluation = m.evaluation /\ n.policy = m.policy
        /\ n.mentions = m.mentions /\ n.members = m.members
        /\ n.active = m.active
        /\ n.revision = [m.revision EXCEPT ![d] = m.revision[d] + 1]
        /\ n.reviews = [m.reviews EXCEPT ![new] = verdict]
        /\ \A c \in CaseIds :
              n.cases[c] = IF c = new /\ verdict = "completed" THEN "active"
                           ELSE IF c \in C THEN "inactive" ELSE m.cases[c]
        /\ \A v \in Versions :
              /\ n.invalidated[v] <=> (m.members[v] \cap C # {} \/ m.invalidated[v])
              /\ n.status[v] = IF m.members[v] \cap C # {} /\ m.status[v] = "active"
                               THEN "invalidated" ELSE m.status[v]
    BY RecordReviewFields
  <1>. HIDE DEF n, C, new
  <1>2. VersionsKept(m, n)
    BY <1>1 DEF VersionsKept
  <1>. QED  BY <1>1, <1>2 DEF n

\* A withdrawal invalidates every version whose report it shortens.
LEMMA WithdrawCasesKeepsVersions ==
    ASSUME NEW m \in Memory, NEW C \in SUBSET CaseIds
    PROVE  /\ WithdrawCases(m, C) \in Memory
           /\ VersionsKept(m, WithdrawCases(m, C))
  <1>. DEFINE n == WithdrawCases(m, C)
  <1>1. /\ n \in Memory
        /\ n.evaluation = m.evaluation /\ n.policy = m.policy
        /\ n.members = m.members
        /\ \A v \in Versions :
              LET hit == m.members[v] \cap C # {} \/ m.mentions[v] \cap C # {}
              IN  /\ n.mentions[v] = m.mentions[v] \ C
                  /\ n.invalidated[v] <=> (hit \/ m.invalidated[v])
    BY WithdrawCasesFields
  <1>. HIDE DEF n
  <1>2. \A v \in Versions : ~n.invalidated[v] => n.mentions[v] = m.mentions[v]
    BY <1>1
  <1>3. VersionsKept(m, n)
    BY <1>1, <1>2 DEF VersionsKept
  <1>. QED  BY <1>1, <1>3 DEF n

\* A deletion invalidates every version that loses a member or a mention.
LEMMA PurgeDecisionsKeepsVersions ==
    ASSUME NEW m \in Memory, NEW D \in SUBSET Decisions
    PROVE  /\ PurgeDecisions(m, D) \in Memory
           /\ VersionsKept(m, PurgeDecisions(m, D))
  <1>. DEFINE n == PurgeDecisions(m, D)
              C == CasesOf(D)
  <1>1. /\ n \in Memory
        /\ n.evaluation = m.evaluation /\ n.policy = m.policy
        /\ \A v \in Versions :
              LET hit == m.members[v] \cap C # {} \/ m.mentions[v] \cap C # {}
              IN  /\ n.mentions[v] = m.mentions[v] \ C
                  /\ n.members[v] = m.members[v] \ C
                  /\ n.invalidated[v] <=> (hit \/ m.invalidated[v])
    BY PurgeDecisionsFields
  <1>. HIDE DEF n, C
  <1>2. \A v \in Versions : ~n.invalidated[v] =>
           n.mentions[v] = m.mentions[v] /\ n.members[v] = m.members[v]
    BY <1>1
  <1>3. VersionsKept(m, n)
    BY <1>1, <1>2 DEF VersionsKept
  <1>. QED  BY <1>1, <1>3 DEF n

\* Every step but a restore keeps the versions.
LEMMA VersionsStep ==
    ASSUME Inv, [Next]_vars
    PROVE  Restores \/ VersionsKept(db, db')
  <1>0. db \in Memory
    BY DEF Inv, TypeOK
  <1>1. ASSUME NEW d \in Decisions, BeginDecision(d) \/ Retention(d)
        PROVE  VersionsKept(db, db')
    BY <1>0, <1>1 DEF BeginDecision, Retention, Memory, VersionsKept
  <1>2. ASSUME NEW d \in Decisions, NEW verdict \in Verdict \ {"none"},
               ReviewDecision(d, verdict)
        PROVE  VersionsKept(db, db')
    <2>. DEFINE n == RecordReview(db, d, verdict)
    <2>1. db.revision[d] < MaxRevision /\ verdict \in Verdict
      BY <1>2 DEF ReviewDecision
    <2>2. n \in Memory /\ VersionsKept(db, n)
      BY <1>0, <2>1, RecordReviewKeepsVersions
    <2>3. IF Revokes(db, d, verdict) THEN Repair(n, db') ELSE db' = n
      BY <1>2 DEF ReviewDecision
    <2>. HIDE DEF n
    <2>4. CASE Repair(n, db')
      BY <1>0, <2>2, <2>4, RepairKeepsVersions
    <2>5. CASE db' = n
      BY <2>2, <2>5
    <2>. QED  BY <2>3, <2>4, <2>5
  <1>3. ASSUME NEW c \in CaseIds, DeleteCase(c)
        PROVE  VersionsKept(db, db')
    <2>. DEFINE n == WithdrawCases(db, {c})
    <2>1. n \in Memory /\ VersionsKept(db, n)
      BY <1>0, WithdrawCasesKeepsVersions
    <2>2. Repair(n, db')
      BY <1>3 DEF DeleteCase
    <2>. HIDE DEF n
    <2>. QED  BY <1>0, <2>1, <2>2, RepairKeepsVersions
  <1>4. ASSUME NEW d \in Decisions, DeleteDecision(d)
        PROVE  VersionsKept(db, db')
    <2>. DEFINE n == PurgeDecisions(db, {d})
    <2>1. n \in Memory /\ VersionsKept(db, n)
      BY <1>0, PurgeDecisionsKeepsVersions
    <2>2. Repair(n, db')
      BY <1>4 DEF DeleteDecision
    <2>. HIDE DEF n
    <2>. QED  BY <1>0, <2>1, <2>2, RepairKeepsVersions
  <1>5. ASSUME NEW v \in Versions, NEW C, CreateVersion(v, C)
        PROVE  VersionsKept(db, db')
    BY <1>0, <1>5 DEF CreateVersion, Memory, VersionsKept
  <1>6. ASSUME NEW v \in Versions, NEW result, NEW C, ReportVersion(v, result, C)
        PROVE  VersionsKept(db, db')
    BY <1>0, <1>6 DEF ReportVersion, Memory, VersionsKept
  <1>7. ASSUME NEW v \in Versions, ActivateVersion(v)
        PROVE  VersionsKept(db, db')
    BY <1>0, <1>7 DEF ActivateVersion, Memory, VersionsKept
  <1>8. ASSUME UNCHANGED db
        PROVE  VersionsKept(db, db')
    BY <1>8 DEF VersionsKept
  <1>9. ASSUME NEW a \in Archives, NEW s \in Archives, RestoreBackup(a, s)
        PROVE  Restores
    BY <1>9 DEF Restores
  <1>. QED  BY <1>1, <1>2, <1>3, <1>4, <1>5, <1>6, <1>7, <1>8, <1>9
            DEF Next, vars, CreateBackup, DeleteBackup, UpgradePolicy

\* Except by a restore, a version that stays valid keeps what was frozen in it
\* and the report it was activated on: a deletion cannot quietly shrink what
\* was evaluated.
THEOREM VersionsStayAsEvaluated == Spec => VersionsImmutable
  <1>1. Inv /\ [Next]_vars => [Restores \/ VersionsKept(db, db')]_vars
    BY VersionsStep
  <1>2. Spec => [][Restores \/ VersionsKept(db, db')]_vars
    BY <1>1, Invariance, PTL DEF Spec
  <1>. QED  BY <1>2 DEF VersionsImmutable, VersionsKept
=============================================================================
