----------------------------- MODULE MCSession -----------------------------
(* A small instance of Session for TLC: a piped agent whose log blocks, or *)
(* a terminal whose log drops, through a handoff, called off or adopted.   *)
EXTENDS Session, TLC

CONSTANTS out, err, pty

StreamsOfEach == ("Block" :> {out, err}) @@ ("Drop" :> {pty})

ChunksOfEach == (out :> 3) @@ (err :> 1) @@ (pty :> 2)
=============================================================================
