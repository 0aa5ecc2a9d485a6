------------------------- MODULE WithdrawalHistory --------------------------
(***************************************************************************)
(* LearningMemory with a history variable: the cases the user has          *)
(* withdrawn and that no review has made again.  The tables alone cannot   *)
(* say this, because a restore replaces them.                              *)
(***************************************************************************)
EXTENDS LearningMemory

VARIABLE withdrawn

MadeAgain == {c \in CaseIds : db.cases[c] = "none" /\ db'.cases[c] = "active"}

\* A restore is neither a withdrawal nor a review.  It is the one step that
\* changes both the tables and the archives.
Remember ==
    withdrawn' = IF Restores THEN withdrawn
                 ELSE (withdrawn \cup WithdrawnCases(db')) \ MadeAgain

InitH == Init /\ withdrawn = {}

NextH == Next /\ Remember

SpecH == InitH /\ [][NextH]_<<vars, withdrawn>>

\* A case the user withdrew is not in use again until a review makes it anew,
\* whatever sequence of backups is restored: backups/restore is documented to
\* preserve the privacy tombstones.
WithdrawalIsFinal == withdrawn \cap ActiveCases(db) = {}
=============================================================================
