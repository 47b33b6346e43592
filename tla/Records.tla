------------------------------ MODULE Records ------------------------------
(***************************************************************************)
(* What every part that handles a session's records shares: the records,   *)
(* the cursors between them, and contiguous runs of them.  All cursors are *)
(* of one epoch; a record's bytes are stood for by their number.           *)
(* (sessiond-wire's Record and RecordHeader, term-proto's Cursor.)         *)
(***************************************************************************)
EXTENDS Integers, Sequences

Cursor == [rseq : Nat, off : Nat]

Start == [rseq |-> 0, off |-> 0]

Entry == [rseq : Nat, off : Nat, kind : {"data", "gap", "resize", "exit"}, len : Nat]

(* The cursor of a state that ends just before, or just after, a record.   *)
Before(e) == [rseq |-> e.rseq, off |-> e.off]

After(e) == [rseq |-> e.rseq + 1, off |-> e.off + e.len]

IncludesNext(c, e) == e.rseq <= c.rseq  (* fault: off by one *)

Includes(c, e) == e.rseq < c.rseq

(* One contiguous run of records from cursor c to cursor d.                *)
IsRun(c, s, d) ==
  /\ \A i \in 1..Len(s) :
       /\ s[i].rseq = c.rseq + (i - 1)
       /\ s[i].off = IF i = 1 THEN c.off ELSE s[i - 1].off + s[i - 1].len
  /\ d = IF s = <<>> THEN c ELSE After(s[Len(s)])

(* The first k records of s are those a state at c includes: where the     *)
(* front stops being dropped, or a reader stops skipping.                  *)
Leads(s, c, k) ==
  /\ \A i \in 1..k : Includes(c, s[i])
  /\ k < Len(s) => ~Includes(c, s[k + 1])

DropFirst(s, k) == SubSeq(s, k + 1, Len(s))

Suffix(s, c) == DropFirst(s, CHOOSE k \in 0..Len(s) : Leads(s, c, k))

(* The cursors that name a record boundary of a run s up to h.             *)
BoundariesOf(s, h) == {Before(s[i]) : i \in 1..Len(s)} \cup {h}
=============================================================================
