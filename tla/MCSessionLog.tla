---------------------------- MODULE MCSessionLog ----------------------------
(* A small instance of SessionLog for TLC: one session, a terminal or a    *)
(* piped agent, with a record of one byte and one that fills the ring by   *)
(* itself, a spool that holds a few, and a pool the other sessions may use *)
(* up.                                                                     *)
EXTENDS SessionLog
=============================================================================
