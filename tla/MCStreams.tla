----------------------------- MODULE MCStreams -----------------------------
(* Small instances of Streams for TLC: a tail of one record, connections   *)
(* that are full at two, and clients that attach a few times.              *)
EXTENDS Streams
=============================================================================
