------------------------ MODULE MCWithdrawalHistory -------------------------
(* TLC instances of WithdrawalHistory.                                     *)
EXTENDS WithdrawalHistory, TLC

Symmetry == Permutations(Archives)
=============================================================================
