----------------------------- MODULE SessionLog -----------------------------
(***************************************************************************)
(* The record log sessiond keeps for one session: a memory ring with a     *)
(* disk spool behind it, and the two checkpoints vornd stored.  Every      *)
(* record read or performed is numbered; recovery starts at a checkpoint   *)
(* and needs every record after it, so what may be trimmed, what may be    *)
(* dropped when both halves are full, and what a failing disk leaves       *)
(* behind is all decided here (sessiond/src/log.rs, spool.rs).             *)
(*                                                                         *)
(* Sizes are abstract units: an entry costs one unit plus its output, in   *)
(* the ring and in the spool alike, and the spool file's header costs one. *)
(* Every cursor is of this log's epoch, a record's bytes are their number, *)
(* and a checkpoint's terminal state is an opaque blob.  The sent and      *)
(* delivered cursors belong to the connection and are modelled with it.    *)
(***************************************************************************)
EXTENDS Records, SequencesExt

CONSTANTS
  RingBudget,   (* units of memory: Budget.ring_bytes                       *)
  SpoolBudget,  (* units of disk for this session: Budget.spool_bytes       *)
  PoolCap,      (* units of disk for every session: SpoolPool.cap           *)
  Policies,     (* what a session may be: Overflow "Drop" or "Block"        *)
  IoFails,      (* whether a spool call may fail                            *)
  Lens,         (* bytes one read of the session's output may return        *)
  Blobs,        (* what a checkpoint may hold                               *)
  None,         (* no checkpoint stored                                     *)
  OthersHold,   (* what the other sessions may hold of the pool             *)
  MaxRecords,   (* bound: records a log may number                          *)
  MaxProduced   (* bound: bytes a session may print                         *)

ASSUME BudgetAssumption ==
  /\ RingBudget \in Nat /\ SpoolBudget \in Nat /\ PoolCap \in Nat
  /\ Policies \subseteq {"Drop", "Block"}
  /\ IoFails \in BOOLEAN
  /\ MaxRecords \in Nat /\ MaxProduced \in Nat

ASSUME LensAssumption == Lens \subseteq Nat \ {0} /\ OthersHold \subseteq Nat

Checkpoint == [resume : Cursor, blob : Blobs]

ASSUME NoneAssumption == None \notin Checkpoint

VARIABLES
  overflow,    (* "Drop" (a terminal) or "Block" (a piped agent)            *)
  head,        (* after the last record appended                            *)
  retain_from, (* the fallback's cursor: nothing at or after it is trimmed  *)
  newest,      (* the newest checkpoint, or None                            *)
  fallback,    (* the one before it, or None                                *)
  ring,        (* the newest records                                        *)
  spool,       (* the records on disk, older than the ring's                *)
  torn,        (* the spool may end in a torn frame: it takes no appends    *)
  pool_used,   (* units taken from the pool all sessions share              *)
  lost,        (* output dropped that no Gap stands for yet                 *)
  exited,      (* an Exit record was appended                               *)
  others,      (* history: what the other sessions hold of the pool         *)
  produced     (* history: bytes the session printed that the log consumed  *)

store == <<ring, spool, torn, pool_used>>

logVars == <<overflow, head, retain_from, newest, fallback, ring, spool, torn,
             pool_used, lost, exited, others, produced>>

-----------------------------------------------------------------------------
(* Sizes.                                                                  *)

Cost(e) == 1 + (IF e.kind = "data" THEN e.len ELSE 0)

Total(f) ==
  LET upTo[k \in 0..Len(f)] == IF k = 0 THEN 0 ELSE upTo[k - 1] + f[k]
  IN  upTo[Len(f)]

TotalCost(s) == Total([i \in 1..Len(s) |-> Cost(s[i])])

TotalLen(s) == Total([i \in 1..Len(s) |-> s[i].len])

(* A spool without records has no file, and so no header.                  *)
SpoolBytes(s) == IF s = <<>> THEN 0 ELSE 1 + TotalCost(s)

(* Everything held, oldest first: the spool is the older part of the run.  *)
Held == spool \o ring

Oldest == IF Held = <<>> THEN head ELSE Before(Held[1])

-----------------------------------------------------------------------------
(* Making room.  A "store" below is a record of the four store variables   *)
(* and how the step that led to it went.                                   *)

Store(r, s, t, u, w) == [ring |-> r, spool |-> s, torn |-> t, used |-> u, went |-> w]

(* What st's spool may become, within the session's and the shared cap.    *)
Fits(st, s) ==
  /\ SpoolBytes(s) <= SpoolBudget
  /\ st.used + SpoolBytes(s) - SpoolBytes(st.spool) <= PoolCap

OverBudget(r, cost) == r # <<>> /\ TotalCost(r) + cost > RingBudget

MovedThenLost(st, k, t, w) ==  (* fault: popped before the append can fail *)
  LET s == st.spool \o SubSeq(st.ring, 1, k)
  IN  Store(DropFirst(st.ring, IF w = "failed" THEN k + 1 ELSE k), s, t,
            st.used + SpoolBytes(s) - SpoolBytes(st.spool), w)

(* k records moved from the front of the ring to the end of the spool.     *)
Moved(st, k, t, w) ==
  LET s == st.spool \o SubSeq(st.ring, 1, k)
  IN  Store(DropFirst(st.ring, k), s, t,
            st.used + SpoolBytes(s) - SpoolBytes(st.spool), w)

(* make_room's loop may move k records: the ring is over budget before     *)
(* each, the spool takes each, and a torn spool takes none.                *)
CanMove(st, k, cost) ==
  k > 0 => /\ OverBudget(DropFirst(st.ring, k - 1), cost)
           /\ Fits(st, st.spool \o SubSeq(st.ring, 1, k))
           /\ ~st.torn

(* It stops after k: there is room (or the ring is empty), the spool is    *)
(* full, or the next append failed, leaving the spool as it was and, if it *)
(* holds anything, perhaps torn.  The loop's other way to drop a record, a front already   *)
(* behind retain_from, is never taken: see RingIsRetained.                 *)
SpillsAt(st, k, cost) ==
  IF ~OverBudget(DropFirst(st.ring, k), cost) THEN {Moved(st, k, st.torn, "room")}
  ELSE IF ~Fits(st, st.spool \o SubSeq(st.ring, 1, k + 1))
    THEN {Moved(st, k, st.torn, "full")}
  ELSE {Moved(st, k, t, "failed") :
          t \in {v \in BOOLEAN : IF st.torn THEN v
                                ELSE IoFails /\ (v => st.spool # <<>> \/ k > 0)}}

Spills(st, cost) ==
  UNION {SpillsAt(st, k, cost) : k \in {n \in 0..Len(st.ring) : CanMove(st, n, cost)}}

TrimmedHoldsPool(st, k, j, w) ==  (* fault: the pool gets nothing back *)
  Store(DropFirst(st.ring, k), DropFirst(st.spool, j), IF j = 0 THEN st.torn ELSE FALSE,
        st.used, w)

TrimmedSpoolOnly(st, k, j, w) ==  (* fault: the ring is not trimmed *)
  Store(st.ring, DropFirst(st.spool, j), IF j = 0 THEN st.torn ELSE FALSE,
        st.used + SpoolBytes(DropFirst(st.spool, j)) - SpoolBytes(st.spool), w)

(* trim: the ring pops what c includes; the spool drops its part by a      *)
(* rewrite, which may fail and leave it whole (and torn, when the old file *)
(* does not open again), or by removing the file when c includes all of    *)
(* it, which clears it whatever the removal says.  A rewrite is taken to   *)
(* read every record it keeps.                                             *)
Trimmed(st, k, j, w) ==
  Store(DropFirst(st.ring, k), DropFirst(st.spool, j), IF j = 0 THEN st.torn ELSE FALSE,
        st.used + SpoolBytes(DropFirst(st.spool, j)) - SpoolBytes(st.spool), w)

Untrimmed(st, k, t) == Store(DropFirst(st.ring, k), st.spool, t, st.used, "failed")

TrimsAt(st, k, j) ==
  {Trimmed(st, k, j, "room")}
  \cup IF ~IoFails \/ j = 0 THEN {}
       ELSE IF j = Len(st.spool) THEN {Trimmed(st, k, j, "failed")}
       ELSE {Untrimmed(st, k, t) : t \in {v \in BOOLEAN : st.torn => v}}

Trims(st, c) ==
  UNION {TrimsAt(st, k, j) : k \in {n \in 0..Len(st.ring) : Leads(st.ring, c, n)},
                             j \in {n \in 0..Len(st.spool) : Leads(st.spool, c, n)}}

(* Whether an interactive session still has a fallback (or its own start)  *)
(* to give up: the newest checkpoint is past what it retains.              *)
CanGiveUp ==
  /\ overflow = "Drop"
  /\ newest # None
  /\ newest.resume.rseq > retain_from.rseq

Now == Store(ring, spool, torn, pool_used, "room")

(* Every way make_room(cost) may end without the fallback, and after       *)
(* giving it up: that happens once at most, since afterwards nothing is    *)
(* left to give up, and a trim that fails ends it.                         *)
RoomsKeeping(cost) == {o \in Spills(Now, cost) : o.went = "full" => ~CanGiveUp}

RoomsGivingUp(cost) ==
  UNION {IF o.went = "room" THEN Spills(o, cost) ELSE {o} :
         o \in UNION {Trims(f, newest.resume) :
                      f \in {o \in Spills(Now, cost) : o.went = "full" /\ CanGiveUp}}}

(* What make_room(cost) changes itself; m is how it ended, with the ring   *)
(* it leaves to its caller.                                                *)
MakeRoom(cost, m) ==
  /\ spool' = m.spool
  /\ torn' = m.torn
  /\ pool_used' = m.used
  /\ \/ m \in RoomsKeeping(cost) /\ UNCHANGED <<retain_from, fallback>>
     \/ m \in RoomsGivingUp(cost) /\ retain_from' = newest.resume /\ fallback' = None

-----------------------------------------------------------------------------
(* Appending.                                                              *)

GapOfRecords ==  (* fault: the Gap's own cost is taken off what it stands for *)
  [rseq |-> head.rseq, off |-> head.off, kind |-> "gap", len |-> lost - 2]

GapWithoutLength ==  (* fault: the Gap moves no offset *)
  [rseq |-> head.rseq, off |-> head.off, kind |-> "gap", len |-> 0]

Gap == [rseq |-> head.rseq, off |-> head.off, kind |-> "gap", len |-> lost]

(* settle_gap on ring r: the Gap for what was dropped goes first.          *)
Settled(r) == IF lost > 0 THEN Append(r, Gap) ELSE r

SettledHead == IF lost > 0 THEN After(Gap) ELSE head

PushUnsettled(r, kind, len) ==  (* fault: the pending Gap is not written first *)
  LET e == [rseq |-> head.rseq, off |-> head.off, kind |-> kind, len |-> len]
  IN  ring' = Append(r, e) /\ head' = After(e) /\ UNCHANGED lost

(* push, after the pending Gap: the record takes the next number.          *)
Push(r, kind, len) ==
  LET e == [rseq |-> SettledHead.rseq, off |-> SettledHead.off,
            kind |-> kind, len |-> len]
  IN  /\ ring' = Append(Settled(r), e)
      /\ head' = After(e)
      /\ lost' = 0

(* A record of output.  Without room it is dropped and counted, or handed  *)
(* back to the reader, which holds it and asks again.                      *)
AppendData(n) ==
  LET cost == 1 + n + IF lost > 0 THEN 1 ELSE 0
  IN  /\ ~exited
      /\ \E m \in RoomsKeeping(cost) \cup RoomsGivingUp(cost) :
           /\ MakeRoom(cost, m)
           /\ \/ /\ m.went = "room"
                 /\ Push(m.ring, "data", n)
                 /\ produced' = produced + n
              \/ /\ m.went # "room" /\ overflow = "Drop"
                 /\ ring' = m.ring
                 /\ lost' = lost + n
                 /\ produced' = produced + n
                 /\ UNCHANGED head
              \/ /\ m.went # "room" /\ overflow = "Block"
                 /\ ring' = m.ring
                 /\ UNCHANGED <<head, lost, produced>>
      /\ UNCHANGED <<overflow, newest, exited, others>>

(* A Resize or the Exit: kept whether room was made or not.                *)
AppendControl(kind) ==
  /\ ~exited
  /\ \E m \in RoomsKeeping(1) \cup RoomsGivingUp(1) :
       /\ MakeRoom(1, m)
       /\ Push(m.ring, kind, 0)
  /\ exited' = (kind = "exit")
  /\ UNCHANGED <<overflow, newest, others, produced>>

(* settle_gap on its own, at the head of attach, read_batch and describe.  *)
SettleGap ==
  /\ ring' = Settled(ring)
  /\ head' = SettledHead
  /\ lost' = 0
  /\ UNCHANGED <<overflow, retain_from, newest, fallback, spool, torn,
                 pool_used, exited, others, produced>>

-----------------------------------------------------------------------------
(* Checkpoints.                                                            *)

Boundaries == BoundariesOf(Held, head)

AcceptableAnyAge(cp) ==  (* fault: older than the newest is accepted *)
  cp.resume \in Boundaries

(* put_checkpoint accepts it.  A damaged one, one of another epoch, one    *)
(* older than the newest and one that names no boundary held (or none the  *)
(* spool can be read at) are refused and change nothing.                   *)
Acceptable(cp) ==
  /\ newest # None => cp.resume.rseq >= newest.resume.rseq
  /\ cp.resume \in Boundaries

(* The new one becomes the newest, the one it replaces the fallback, and   *)
(* only then is anything trimmed; a trim that fails is not reported.       *)
PutCheckpoint(cp) ==
  /\ Acceptable(cp)
  /\ newest' = cp
  /\ fallback' = IF newest = None THEN fallback ELSE newest
  /\ retain_from' = IF newest = None THEN retain_from ELSE newest.resume
  /\ \E t \in Trims(Now, IF newest = None THEN retain_from ELSE newest.resume) :
       /\ ring' = t.ring
       /\ spool' = t.spool
       /\ torn' = t.torn
       /\ pool_used' = t.used
  /\ UNCHANGED <<overflow, head, lost, exited, others, produced>>

-----------------------------------------------------------------------------
(* Reading.  Both start by settling the Gap (SettleGap); what they return  *)
(* is a function of the log and of how the disk answered: records, which   *)
(* count only when not refused.                                            *)

Read(ok, records) == [ok |-> ok, records |-> records]

Short(due, k) == Read(TRUE, SubSeq(due, 1, k))

(* How a read of the spool due these records may go: all of them, an error *)
(* (the file does not open, or is not this session's), or only the first k *)
(* of them, up to a frame that does not come back whole.  With none due    *)
(* the file is not opened.                                                 *)
SpoolReads(due) ==
  {Read(TRUE, due)}
  \cup IF IoFails /\ due # <<>>
         THEN {Read(FALSE, <<>>)} \cup {Short(due, k) : k \in 0..(Len(due) - 1)}
         ELSE {}

(* What entries_from(c) asks of the spool.                                 *)
EntriesDue(c) ==
  IF ring = <<>> \/ c.rseq < ring[1].rseq THEN Suffix(spool, c) ELSE <<>>

EntriesUnchecked(c, read) ==  (* fault: what was read is not checked to be a run *)
  [ok |-> read.ok /\ Oldest.rseq <= c.rseq /\ c.rseq <= head.rseq,
   records |-> read.records \o Suffix(ring, c)]

(* entries_from: every record from c to head, or a refusal: read is how    *)
(* the spool's part went.                                                  *)
EntriesFrom(c, read) ==
  LET out == read.records \o Suffix(ring, c)
  IN  [ok |-> /\ Oldest.rseq <= c.rseq /\ c.rseq <= head.rseq
              /\ read.ok
              /\ IsRun(c, out, head),
       records |-> out]

BudgetedStrictly(s, taken, first, max) ==  (* fault: the first record counts too *)
  LET fits == {k \in 0..Len(s) : k = 0 \/ taken + TotalLen(SubSeq(s, 1, k)) <= max}
  IN  SubSeq(s, 1, CHOOSE k \in fits : \A j \in fits : j <= k)

(* The longest prefix of s that stays within max bytes of output after     *)
(* what was taken; the first record overall is taken whatever its size.    *)
Budgeted(s, taken, first, max) ==
  LET fits == {k \in 0..Len(s) : \/ k = 0 \/ (first /\ k = 1)
                                 \/ taken + TotalLen(SubSeq(s, 1, k)) <= max}
  IN  SubSeq(s, 1, CHOOSE k \in fits : \A j \in fits : j <= k)

RingFirst == IF ring = <<>> THEN head.rseq ELSE ring[1].rseq

(* What read_batch asks of the spool.                                      *)
BatchDue(from, max) ==
  IF from.rseq < RingFirst THEN Budgeted(Suffix(spool, from), 0, TRUE, max) ELSE <<>>

(* read_batch: the spool's part, and the ring's only if the spool's part   *)
(* ran up to it; a part cut short is still sent, an error refuses.         *)
ReadBatch(from, max, read) ==
  LET disk == read.records
      reached == IF disk = <<>> THEN from.rseq >= RingFirst
                 ELSE disk[Len(disk)].rseq + 1 = RingFirst
      memory == IF reached
                  THEN Budgeted(Suffix(ring, from), TotalLen(disk),
                                disk = <<>>, max)
                  ELSE <<>>
      out == disk \o memory
  IN  IF from = head THEN [ok |-> TRUE, records |-> <<>>]
      ELSE [ok |-> /\ Oldest.rseq <= from.rseq /\ from.rseq <= head.rseq
                   /\ read.ok /\ out # <<>>
                   /\ IsRun(from, out, After(out[Len(out)])),
            records |-> out]

-----------------------------------------------------------------------------

(* The other sessions' spools grow and shrink, within the cap they share.  *)
OthersSpool(n) ==
  /\ pool_used + (n - others) <= PoolCap
  /\ others' = n
  /\ pool_used' = pool_used + (n - others)
  /\ UNCHANGED <<overflow, head, retain_from, newest, fallback, ring,
                 spool, torn, lost, exited, produced>>

LogInit ==
  /\ overflow \in Policies
  /\ head = Start /\ retain_from = Start
  /\ newest = None /\ fallback = None
  /\ ring = <<>> /\ spool = <<>> /\ torn = FALSE
  /\ pool_used = 0 /\ others = 0
  /\ lost = 0 /\ exited = FALSE /\ produced = 0

LogNext ==
  \/ \E n \in Lens : /\ head.rseq + 1 < MaxRecords /\ produced + n <= MaxProduced
                     /\ AppendData(n)
  \/ \E kind \in {"resize", "exit"} : head.rseq + 1 < MaxRecords /\ AppendControl(kind)
  \/ head.rseq < MaxRecords /\ lost > 0 /\ SettleGap
  \/ \E c \in Boundaries, b \in Blobs : PutCheckpoint([resume |-> c, blob |-> b])
  \/ \E n \in OthersHold : OthersSpool(n)

LogSpec == LogInit /\ [][LogNext]_logVars

-----------------------------------------------------------------------------
(* Properties.                                                             *)

(* Type invariant of the log's state; PoolExact says what pool_used is.    *)
TypeOK ==
  /\ overflow \in {"Drop", "Block"}
  /\ head \in Cursor /\ retain_from \in Cursor
  /\ newest \in Checkpoint \cup {None} /\ fallback \in Checkpoint \cup {None}
  /\ ring \in Seq(Entry) /\ spool \in Seq(Entry)
  /\ torn \in BOOLEAN /\ exited \in BOOLEAN
  /\ others \in Nat
  /\ lost \in Nat /\ produced \in Nat

(* The spool and the ring are one contiguous run of records that ends at   *)
(* head, after any mix of spills, failed writes, failed trims and a        *)
(* fallback given up: no record is missing between the two halves, which   *)
(* is what every reader and a handoff's adopter check before they use it.  *)
RunIsContiguous == IsRun(Oldest, Held, head)

(* The ring never holds a record trimming was entitled to drop.            *)
RingIsRetained == \A i \in 1..Len(ring) : ~Includes(retain_from, ring[i])

(* Where an attach may start recovery: the two checkpoints kept and, until *)
(* something may have been trimmed, the session's start.                   *)
Bases == {cp.resume : cp \in {newest, fallback} \ {None}}
         \cup {c \in {Start} : retain_from = Start}

(* A checkpoint the log stores can be recovered from.  An attach at it is  *)
(* refused only when the disk does not give back all of what the spool     *)
(* holds from there; and one that is served gets every record up to head,  *)
(* whatever the disk gave back: a part lost in the middle, or before the   *)
(* ring takes over, is never passed off as a recovery.                     *)
RecoveryBaseHeld ==
  \A c \in Bases : \A read \in SpoolReads(EntriesDue(c)) :
    LET all == EntriesFrom(c, read)
    IN  /\ all.ok <=> read = Read(TRUE, EntriesDue(c))
        /\ all.ok => all.records = Suffix(Held, c)

(* Every byte the session printed is in the log, or in a Gap, or counted   *)
(* for the next Gap: output is never lost silently.                        *)
LossAccounted == produced = head.off + lost

TakesAnyRecord(st) == \A n \in Lens : \A m \in Spills(st, 1 + n) : m.went = "room"

(* Backpressure can always be released: once the older checkpoint covers   *)
(* everything printed, no outcome of make_room refuses another record; and *)
(* with only the newest there, storing one more at head gets the log to    *)
(* that point, however its trim goes, with a torn spool and a failing disk *)
(* as well.  One checkpoint alone releases nothing: what it covers is kept *)
(* for its fallback.                                                       *)
CheckpointsReleaseBlock ==
  /\ retain_from = head => TakesAnyRecord(Now)
  /\ newest # None /\ newest.resume = head =>
       \A t \in Trims(Now, newest.resume) : TakesAnyRecord(t)

(* The pool's counter is exactly what the sessions' spools hold, on every  *)
(* error path, and neither cap is ever passed.                             *)
PoolExact ==
  /\ pool_used = others + SpoolBytes(spool)
  /\ pool_used <= PoolCap
  /\ SpoolBytes(spool) <= SpoolBudget

(* Output in memory stays within the ring's budget, but for one record     *)
(* larger than all of it.                                                  *)
RingBounded ==
  \/ Total([i \in 1..Len(ring) |->
             IF ring[i].kind = "data" THEN Cost(ring[i]) ELSE 0]) <= RingBudget
  \/ \A i, j \in 1..Len(ring) :
       ring[i].kind = "data" /\ ring[j].kind = "data" => i = j

(* The limits together: the shared pool is charged what the spool holds,   *)
(* the ring keeps to its budget and starts at retain_from.                 *)
LimitsKept == PoolExact /\ RingBounded /\ RingIsRetained

(* What a live connection is sent next is the start of what is held after  *)
(* its cursor, never empty short of head, and within the batch's size but  *)
(* for a single record, also when the spool's part came back short: a      *)
(* reader that fell behind into the spool crosses into the ring without    *)
(* skipping a record.  While the disk gives back what it holds no reader   *)
(* at a boundary is refused.                                               *)
BatchIsPrefix ==
  \A c \in Boundaries, max \in {0, 2, 4} : \A read \in SpoolReads(BatchDue(c, max)) :
    LET batch == ReadBatch(c, max, read)
    IN  /\ read = Read(TRUE, BatchDue(c, max)) => batch.ok
        /\ batch.ok => /\ IsPrefix(batch.records, Suffix(Held, c))
                       /\ c # head => batch.records # <<>>
                       /\ Len(batch.records) <= 1 \/ TotalLen(batch.records) <= max

(* No record is ever numbered while dropped output has no Gap: a reader    *)
(* meets the Gap before anything printed after the loss.                   *)
GapComesFirst == [][head'.rseq > head.rseq => lost' = 0]_logVars

(* After the Exit nothing is appended, not even a Gap.                     *)
ExitIsLast == [][exited => head' = head /\ lost' = 0]_logVars

(* What append promises of order: the Gap before the records it precedes,   *)
(* the Exit before nothing.                                                *)
AppendsInOrder == GapComesFirst /\ ExitIsLast

(* Recovery never has to start earlier than it once could have: the        *)
(* newest checkpoint is never lost or replaced by an older one, and the    *)
(* point behind which records are dropped never moves back or past it.     *)
RecoveryNeverRegresses ==
  [][/\ newest # None => newest' # None /\ newest'.resume.rseq >= newest.resume.rseq
     /\ retain_from'.rseq >= retain_from.rseq
     /\ newest' # None => retain_from'.rseq <= newest'.resume.rseq
     /\ newest' = None => retain_from' = Start]_logVars

Contract == INSTANCE RecordLog WITH run <- Held

(* The log with its ring, its spool and its failing disk does nothing its   *)
(* callers could tell from an append-only run that only ever loses a prefix *)
(* behind its older checkpoint.                                            *)
KeepsContract == Contract!LogSpec
=============================================================================
