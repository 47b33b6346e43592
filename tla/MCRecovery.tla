----------------------------- MODULE MCRecovery -----------------------------
(* Small instances of Recovery for TLC: a terminal session that prints a   *)
(* few records of one byte, taken on by two vornds or three.               *)
EXTENDS Recovery

OneByte == {1}
=============================================================================
