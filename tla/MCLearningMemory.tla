-------------------------- MODULE MCLearningMemory --------------------------
(* TLC instances of LearningMemory.  Each behaviour has one scope: two     *)
(* decisions and two versions; two versions and two policies; or two       *)
(* backups, of what one review of one decision leads to.                   *)
EXTENDS LearningMemory, FiniteSets, TLC

Symmetry == Permutations(Decisions) \cup Permutations(Versions)
                \cup Permutations(Archives)

VARIABLE scope

OneDecision == Cardinality({d \in Decisions : db.decision[d] # "absent"}) <= 1
OneReview == \A d \in Decisions : db.revision[d] <= 1
OneVersion == Cardinality({v \in Versions : db.status[v] # "none"}) <= 1
NoBackup == \A a \in Archives : archive[a] = NoArchive

Within ==
    /\ scope = "versions" => NoBackup /\ policy = 1
    /\ scope = "policies" => NoBackup /\ OneDecision
    /\ scope = "backups" => OneDecision /\ OneReview /\ OneVersion /\ policy = 1

ScopedInit == scope \in {"versions", "policies", "backups"} /\ Init

ScopedSpec ==
    /\ ScopedInit
    /\ [][Next /\ UNCHANGED scope /\ Within']_<<vars, scope>>
=============================================================================
