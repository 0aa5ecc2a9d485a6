--------------------------- MODULE MCEvidenceFiles ---------------------------
(* EvidenceFiles from the decision of the case on, with a bounded number of  *)
(* calls and of faults from outside.  A backup may be made before the case    *)
(* is, so that a restore may bring that time back.                           *)
EXTENDS EvidenceFiles, TLC

CONSTANTS d1, d2, short, about, without, MaxCalls, MaxFaults

VARIABLES calls, faults

\* about mentions the case; what is left of it still needs a file.
ScrubbedText == about :> without

Symmetry == Permutations(Ids) \cup Permutations(Archives)

\* A crash, a cleanup that fails, or a file that was changed from outside.
\* Failing transactions and restores, and calls that are refused, are free.
Fault ==
    \/ phase' = "down"
    \/ phase # "idle" /\ phase' = "idle" /\ cleanupError'
    \/ \E i \in Ids : files[i] # Damaged /\ files'[i] = Damaged

Call == phase = "idle" /\ (phase' \notin {"idle", "scan"} \/ archives' # archives)

CaseMade == CaseIn(db) \/ calls > 0

MakeCase ==
    /\ \/ Begin(Owner, short) \/ Finish(Owner, <<>>) \/ Commit \/ Forget
       \/ /\ \A a \in Archives : archives[a] = Nothing
          /\ \E b \in Archives : BackUp(b)
    /\ UNCHANGED <<calls, faults>>

Counted ==
    /\ Next
    /\ faults' = faults + (IF Fault THEN 1 ELSE 0) /\ faults' <= MaxFaults
    /\ calls' = calls + (IF Call /\ ~Fault THEN 1 ELSE 0) /\ calls' <= MaxCalls

ScopedInit == Init /\ calls = 0 /\ faults = 0
ScopedNext == IF CaseMade THEN Counted ELSE MakeCase
ScopedSpec == ScopedInit /\ [][ScopedNext]_<<vars, calls, faults>>
=============================================================================
