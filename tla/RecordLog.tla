----------------------------- MODULE RecordLog -----------------------------
(***************************************************************************)
(* What a session's log promises to the parts around it, with nothing of   *)
(* where the records are kept: a run of records that ends at head, from    *)
(* which only a prefix behind retain_from ever goes.  SessionLog, with its  *)
(* ring, its spool and its failing disk, implements this; the modules that  *)
(* put a session's streams or its recovery on top of a log start from here. *)
(* (The public operations of sessiond/src/log.rs.)                         *)
(***************************************************************************)
EXTENDS Records

CONSTANTS
  Policies, (* what a session may be: Overflow "Drop" or "Block"           *)
  Lens,     (* bytes one read of the session's output may return           *)
  Blobs,    (* what a checkpoint may hold                                  *)
  None      (* no checkpoint stored                                        *)

VARIABLES
  overflow, (* "Drop" (a terminal) or "Block" (a piped agent)              *)
  head, retain_from, newest, fallback, run, lost, exited

recordLogVars == <<overflow, head, retain_from, newest, fallback, run, lost, exited>>

(* The runs a trim at c may leave: it drops nothing c does not include, and *)
(* a failing disk may make it drop less.                                   *)
Kept(c) ==
  {DropFirst(run, k) : k \in {n \in 0..Len(run) : \A i \in 1..n : Includes(c, run[i])}}

Gap == [rseq |-> head.rseq, off |-> head.off, kind |-> "gap", len |-> lost]

Settled(r) == IF lost > 0 THEN Append(r, Gap) ELSE r

SettledHead == IF lost > 0 THEN After(Gap) ELSE head

Push(r, kind, len) ==
  LET e == [rseq |-> SettledHead.rseq, off |-> SettledHead.off,
            kind |-> kind, len |-> len]
  IN  /\ run' = Append(Settled(r), e)
      /\ head' = After(e)
      /\ lost' = 0

(* Making room keeps the run, or gives the fallback up and trims; r is the *)
(* run it leaves.                                                          *)
MakeRoom(r) ==
  \/ r = run /\ UNCHANGED <<retain_from, fallback>>
  \/ /\ overflow = "Drop"
     /\ newest # None
     /\ newest.resume.rseq > retain_from.rseq
     /\ r \in Kept(newest.resume)
     /\ retain_from' = newest.resume
     /\ fallback' = None

(* How an append of output went: kept, dropped and counted, or handed back. *)
AppendKept(kind, n) ==
  /\ ~exited
  /\ \E r \in {run} \cup (IF newest = None THEN {} ELSE Kept(newest.resume)) :
       MakeRoom(r) /\ Push(r, kind, n)
  /\ exited' = (kind = "exit")
  /\ UNCHANGED <<overflow, newest>>

AppendDropped(n) ==
  /\ ~exited /\ overflow = "Drop"
  /\ \E r \in {run} \cup (IF newest = None THEN {} ELSE Kept(newest.resume)) :
       MakeRoom(r) /\ run' = r
  /\ lost' = lost + n
  /\ UNCHANGED <<overflow, head, newest, exited>>

(* Output is handed back only while something not yet covered by the older *)
(* checkpoint is held.  Nothing changes, so a refinement cannot see this    *)
(* step: SessionLog's CheckpointsReleaseBlock is what justifies its guard.  *)
AppendFull ==
  /\ ~exited /\ overflow = "Block"
  /\ retain_from # head
  /\ UNCHANGED recordLogVars

SettleGap ==
  /\ run' = Settled(run)
  /\ head' = SettledHead
  /\ lost' = 0
  /\ UNCHANGED <<overflow, retain_from, newest, fallback, exited>>

Boundaries == BoundariesOf(run, head)

Acceptable(cp) ==
  /\ newest # None => cp.resume.rseq >= newest.resume.rseq
  /\ cp.resume \in Boundaries

PutCheckpointRetaining(cp) ==  (* fault: what the old one needed is kept *)
  /\ Acceptable(cp)
  /\ newest' = cp /\ fallback' = newest
  /\ UNCHANGED <<overflow, retain_from, run, head, lost, exited>>

PutCheckpoint(cp) ==
  /\ Acceptable(cp)
  /\ newest' = cp
  /\ fallback' = IF newest = None THEN fallback ELSE newest
  /\ retain_from' = IF newest = None THEN retain_from ELSE newest.resume
  /\ run' \in Kept(IF newest = None THEN retain_from ELSE newest.resume)
  /\ UNCHANGED <<overflow, head, lost, exited>>

(* The records from c to head: every boundary of the run may be read from,  *)
(* and no other cursor.                                                    *)
RecordsFrom(c) == [ok |-> c \in Boundaries, records |-> Suffix(run, c)]

LogInit ==
  /\ overflow \in Policies
  /\ head = Start /\ retain_from = Start
  /\ newest = None /\ fallback = None
  /\ run = <<>> /\ lost = 0 /\ exited = FALSE

LogNext ==
  \/ \E n \in Lens : AppendKept("data", n) \/ AppendDropped(n)
  \/ \E kind \in {"resize", "exit"} : AppendKept(kind, 0)
  \/ AppendFull
  \/ SettleGap
  \/ \E c \in Boundaries, b \in Blobs : PutCheckpoint([resume |-> c, blob |-> b])

LogSpec == LogInit /\ [][LogNext]_recordLogVars
=============================================================================
