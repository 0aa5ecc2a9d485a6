------------------------- MODULE MCAssessmentReuse --------------------------
(* AssessmentReuse with two decisions and two changes, named apart.        *)
EXTENDS AssessmentReuse

CONSTANTS p1, p2, c1, c2

TwoPredictions == {p1, p2}
TwoChanges == {c1, c2}

\* Predictions, and changes, differ by name only: p2 starts after p1, and of
\* two changes the first in this order is c1.
Order == [k \in Kinds |-> CASE k = "memory" -> 1 [] k = "feedback" -> 2
                            [] k = "preferences" -> 3 [] OTHER -> 4]
Within == pc[p2] # "idle" => pc[p1] # "idle"

SmallSpec ==
    /\ Init /\ Order[kind[c1]] <= Order[kind[c2]]
    /\ [][Next /\ Within']_vars
    /\ Fairness
=============================================================================
