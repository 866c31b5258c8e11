---------------------------- MODULE MCTestRunner ----------------------------
(* Small instances of TestRunner for TLC. *)
EXTENDS TestRunner

CONSTANTS r1, r2

(* A check, whose commands write more than is kept, and a run of the       *)
(* example.                                                                *)
MCRequest == {r1, r2}
MCChecks == {r1}
MCWrites == [r \in MCRequest |-> IF r = r1 THEN 2 ELSE 1]
MCChatty == {r1}
=============================================================================
