--------------------------- MODULE MCPracticePage ---------------------------
(* Small instances of PracticePage for TLC. *)
EXTENDS PracticePage, TLC

CONSTANTS d1, d2, q1, q2, q3

MCDay == {d1, d2}
MCSlot == {q1, q2, q3}

(* Requests are interchangeable. *)
MCSymmetry == Permutations(MCSlot)
=============================================================================
