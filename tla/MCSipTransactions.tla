-------------------------- MODULE MCSipTransactions -------------------------
(* Small instances of SipTransactions for TLC. *)
EXTENDS SipTransactions, TLC

CONSTANTS b1, b2, s1, n1, n2

MCBranches == {b1, b2}
MCSentBy == {s1}
MCNumbers == {n1, n2}

(* Branches and numbers are only compared. *)
Symmetry == Permutations(MCBranches) \union Permutations(MCNumbers)
=============================================================================
