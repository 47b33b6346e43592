----------------------------- MODULE MCHandoff -----------------------------
(* Small instances of Handoff for TLC: an old sessiond with one session and *)
(* perhaps a second, and two newer ones, which may adopt in turn.          *)
EXTENDS Handoff

CONSTANTS s1, s2

Three == 1..3
OldHoldsOne == [p \in Three |-> IF p = 1 THEN {s1} ELSE {}]
=============================================================================
