--------------------------- MODULE SessionProofs ---------------------------
(***************************************************************************)
(* Proofs about Session, for any streams up to the 255 a u8 counts, any    *)
(* amount of output and any number of handoffs.                            *)
(*                                                                         *)
(* The argument: what the log took of a stream, what is held of it and     *)
(* what its pipe has left, put together, only ever grows at its end or,    *)
(* where losing output is allowed, loses a chunk (SeenFine, by GoodAppend  *)
(* and GoodCut); a stream sessiond let go had nothing left (LetGoEmpty);   *)
(* open_streams counts those it has (Counted), so a zero means everything  *)
(* was read; and the drain cuts off only when no stream was kept waiting   *)
(* since it was last looked at (KeptWaitingKnown), so every pipe was read  *)
(* past what the program left in it.                                       *)
(***************************************************************************)
EXTENDS Session, FiniteSetTheorems, SequenceTheorems, TLAPS

LogTypes ==
  /\ overflow \in Policies /\ lost \in Nat /\ exited \in BOOLEAN
  /\ head \in Cursor /\ retain_from \in Cursor /\ run \in Seq(Entry)
  /\ newest # None => newest.resume \in Cursor

(* A stream's chunks in order, up to the last one written, none twice; and *)
(* where none may be lost, all of them.                                    *)
Good(seen, last, all) ==
  /\ seen \in Seq(Nat \ {0})
  /\ \A i \in 1..Len(seen) : seen[i] <= last
  /\ \A i, j \in 1..Len(seen) : i < j => seen[i] < seen[j]
  /\ all => Len(seen) = last /\ \A i \in 1..last : seen[i] = i

Seen(s) == taken[s] \o Chunk(s) \o pipe[s]

Whole == overflow = "Block" /\ ~exited

SeenFine == \A s \in Streams : Good(Seen(s), written[s], Whole)

(* What is held is of a stream sessiond has, and leaves its mark.          *)
HeldFine == \A s \in Streams : held[s] # 0 => s \in outs /\ was_held

LetGoEmpty == ~exited => \A s \in Streams \ outs : pipe[s] = <<>>

ReapedDead ==
  /\ reaped => ~alive
  /\ exited => ~alive
  /\ draining => reaped

KeptWaitingKnown == mode = "Live" /\ ~thawed /\ kept_waiting # {} => was_held

ManifestReaped ==
  mode = "Frozen" => manifest.reaped \in BOOLEAN /\ (manifest.reaped => reaped)

SessionInv ==
  /\ Typed /\ LogTypes
  /\ SeenFine /\ HeldFine /\ LetGoEmpty /\ Counted
  /\ ReapedDead /\ KeptWaitingKnown
  /\ ManifestStaysTrue /\ ManifestReaped
  /\ PipedLosesNothingUnthawed
-----------------------------------------------------------------------------
(* A stream's chunks, as sequences.                                        *)

(* A new chunk joins at the end.                                           *)
LEMMA GoodAppend ==
  ASSUME NEW w \in Nat, NEW all \in BOOLEAN, NEW seen, Good(seen, w, all)
  PROVE  Good(Append(seen, w + 1), w + 1, all)
<1>1. seen \in Seq(Nat \ {0})
  BY DEF Good
<1> DEFINE t == Append(seen, w + 1)
<1>2. /\ t \in Seq(Nat \ {0}) /\ Len(t) = Len(seen) + 1
      /\ \A i \in 1..Len(seen) : t[i] = seen[i]
      /\ t[Len(seen) + 1] = w + 1
  BY <1>1
<1>3. \A i \in 1..Len(seen) : seen[i] \in Nat /\ seen[i] <= w
  BY <1>1 DEF Good
<1> HIDE DEF t
<1>4. \A i \in 1..Len(t) : t[i] <= w + 1
  <2>1. Len(seen) \in Nat
    BY <1>1
  <2>2. \A i \in 1..Len(t) : i \in 1..Len(seen) \/ i = Len(seen) + 1
    BY <1>2, <2>1
  <2>3. \A i \in 1..Len(seen) : t[i] <= w + 1
    BY <1>2, <1>3
  <2> QED BY <1>2, <2>2, <2>3
<1>5. ASSUME NEW i \in 1..Len(t), NEW j \in 1..Len(t), i < j
      PROVE  t[i] < t[j]
  <2>0. Len(seen) \in Nat /\ i \in 1..Len(seen) + 1 /\ j \in 1..Len(seen) + 1
    BY <1>1, <1>2
  <2>1. i \in 1..Len(seen) /\ (j \in 1..Len(seen) \/ j = Len(seen) + 1)
    BY <2>0, <1>5
  <2>2. CASE j \in 1..Len(seen)
    BY <1>2, <2>1, <2>2, <1>5 DEF Good
  <2>3. CASE j = Len(seen) + 1
    BY <1>2, <1>3, <2>1, <2>3
  <2> QED BY <2>1, <2>2, <2>3
<1>6. ASSUME all PROVE Len(t) = w + 1 /\ \A i \in 1..w + 1 : t[i] = i
  <2>1. Len(seen) = w /\ \A i \in 1..w : seen[i] = i
    BY <1>6 DEF Good
  <2> QED BY <1>1, <1>2, <2>1
<1> QED BY <1>2, <1>4, <1>5, <1>6 DEF Good, t

(* One chunk lost keeps the rest in order.                                 *)
LEMMA GoodCut ==
  ASSUME NEW w \in Nat, NEW all \in BOOLEAN,
         NEW t \in Seq(Nat), NEW p \in Seq(Nat), p # <<>>, Good(t \o <<>> \o p, w, all)
  PROVE  Good(t \o <<>> \o Tail(p), w, FALSE)
<1> DEFINE old == t \o <<>> \o p
           new == t \o <<>> \o Tail(p)
           At(i) == IF i <= Len(t) THEN i ELSE i + 1
<1>1. /\ Len(old) = Len(t) + Len(p) /\ old \in Seq(Nat \ {0})
      /\ \A i \in 1..Len(old) : old[i] = IF i <= Len(t) THEN t[i] ELSE p[i - Len(t)]
  <2>1. old = t \o p
    OBVIOUS
  <2> QED BY <2>1 DEF Good
<1>2. /\ Len(Tail(p)) = Len(p) - 1 /\ \A i \in 1..Len(p) - 1 : Tail(p)[i] = p[i + 1]
      /\ Tail(p) \in Seq(Nat)
  OBVIOUS
<1>3. /\ Len(new) = Len(t) + Len(p) - 1 /\ new \in Seq(Nat)
      /\ \A i \in 1..Len(new) : new[i] = IF i <= Len(t) THEN t[i] ELSE Tail(p)[i - Len(t)]
  <2>1. new = t \o Tail(p)
    BY <1>2
  <2> QED BY <1>2, <2>1
<1> HIDE DEF old, new
<1>0. Len(t) \in Nat /\ Len(p) \in Nat \ {0}
  OBVIOUS
<1>b. \A i \in 1..Len(old) : ~(i <= Len(t)) => old[i] = p[i - Len(t)]
  BY <1>1, Zenon
<1>4. \A i \in 1..Len(new) : At(i) \in 1..Len(old) /\ new[i] = old[At(i)]
  <2> TAKE i \in 1..Len(new)
  <2>1. CASE i <= Len(t)
    <3>1. i \in 1..Len(old)
      BY <1>0, <1>1, <2>1
    <3>2. new[i] = t[i] /\ old[i] = t[i]
      BY <1>1, <1>3, <2>1, <3>1
    <3> QED BY <2>1, <3>1, <3>2
  <2>2. CASE ~(i <= Len(t))
    <3>1. i - Len(t) \in 1..Len(p) - 1 /\ i + 1 - Len(t) = i - Len(t) + 1
      BY <1>0, <1>3, <2>2
    <3>2. new[i] = p[i + 1 - Len(t)]
      BY <1>2, <1>3, <2>2, <3>1
    <3>3. i + 1 \in 1..Len(old) /\ ~(i + 1 <= Len(t))
      BY <1>0, <1>1, <1>3, <2>2
    <3>4. old[i + 1] = p[i + 1 - Len(t)]
      BY <1>b, <3>3
    <3> QED BY <2>2, <3>2, <3>3, <3>4
  <2> QED BY <2>1, <2>2
<1>5. \A i, j \in 1..Len(new) : i < j => At(i) < At(j)
  <2>1. Len(new) \in Nat
    BY <1>0, <1>3
  <2> QED BY <1>0, <2>1
<1>6. new \in Seq(Nat \ {0})
  <2>1. \A i \in 1..Len(old) : old[i] \in Nat \ {0}
    BY <1>1
  <2>2. \A i \in 1..Len(new) : new[i] \in Nat \ {0}
    BY <1>4, <2>1
  <2>3. new = [i \in 1..Len(new) |-> new[i]] /\ Len(new) \in Nat
    BY <1>3
  <2>4. [i \in 1..Len(new) |-> new[i]] \in [1..Len(new) -> Nat \ {0}]
    BY <2>2
  <2> QED BY <2>3, <2>4, SeqDef
<1> HIDE DEF At
<1>7. \A i \in 1..Len(new) : new[i] <= w
  BY <1>4 DEF Good, old
<1>8. \A i, j \in 1..Len(new) : i < j => new[i] < new[j]
  BY <1>4, <1>5 DEF Good, old
<1> QED BY <1>6, <1>7, <1>8 DEF Good, new

LEMMA GoodWeaker ==
  ASSUME NEW w, NEW all, NEW seen, Good(seen, w, all), NEW less, less => all
  PROVE  Good(seen, w, less)
BY DEF Good

(* A chunk held, then taken; and one read, held or taken at once.          *)
LEMMA SameSeen ==
  ASSUME NEW t \in Seq(Nat), NEW p \in Seq(Nat)
  PROVE  /\ \A h \in Nat : Append(t, h) \o <<>> \o p = t \o <<h>> \o p
         /\ p # <<>> => /\ t \o <<Head(p)>> \o Tail(p) = t \o <<>> \o p
                        /\ Append(t, Head(p)) \o <<>> \o Tail(p) = t \o <<>> \o p
<1>1. ASSUME NEW h \in Nat, NEW q \in Seq(Nat)
      PROVE  Append(t, h) \o <<>> \o q = t \o <<h>> \o q
  <2>1. Append(t, h) \o <<>> = t \o <<h>>
    OBVIOUS
  <2> QED BY <2>1
<1>2. ASSUME p # <<>> PROVE t \o <<Head(p)>> \o Tail(p) = t \o <<>> \o p
  <2>1. <<Head(p)>> \o Tail(p) = p /\ Tail(p) \in Seq(Nat) /\ <<Head(p)>> \in Seq(Nat)
    BY <1>2
  <2>2. t \o <<Head(p)>> \o Tail(p) = t \o (<<Head(p)>> \o Tail(p))
    BY <2>1
  <2> QED BY <2>1, <2>2
<1>3. ASSUME p # <<>> PROVE Append(t, Head(p)) \o <<>> \o Tail(p) = t \o <<>> \o p
  <2>1. Tail(p) \in Seq(Nat) /\ Head(p) \in Nat
    BY <1>3
  <2>2. Append(t, Head(p)) \o <<>> \o Tail(p) = t \o <<Head(p)>> \o Tail(p)
    BY <1>1, <2>1, Zenon
  <2> QED BY <1>2, <1>3, <2>2
<1> QED BY <1>1, <1>2, <1>3

LEMMA SeenLonger ==
  \A t, c, p \in Seq(Nat) : \A x \in Nat : t \o c \o Append(p, x) = Append(t \o c \o p, x)
OBVIOUS
-----------------------------------------------------------------------------
(* The log keeps its types, whatever is done to it.                        *)

LogStep == LogTypes' /\ overflow' = overflow

LEMMA SettledTypes ==
  ASSUME LogTypes, NEW r \in Seq(Entry)
  PROVE  Settled(r) \in Seq(Entry) /\ SettledHead \in Cursor
<1>1. head.rseq \in Nat /\ head.off \in Nat /\ lost \in Nat
  BY DEF LogTypes, Cursor
<1>2. Gap \in Entry /\ After(Gap) \in Cursor
  BY <1>1 DEF Gap, Entry, Cursor, After
<1> QED BY <1>2 DEF Settled, SettledHead, LogTypes

LEMMA KeptTypes ==
  ASSUME LogTypes, NEW c, NEW r \in Kept(c)
  PROVE  r \in Seq(Entry)
<1>1. PICK k \in 0..Len(run) : r = DropFirst(run, k)
  BY DEF Kept
<1> QED BY <1>1 DEF DropFirst, LogTypes

LEMMA MakeRoomTypes ==
  ASSUME LogTypes, NEW r \in {run} \cup (IF newest = None THEN {} ELSE Kept(newest.resume)),
         MakeRoom(r)
  PROVE  r \in Seq(Entry) /\ retain_from' \in Cursor
<1>1. r \in Seq(Entry)
  BY KeptTypes DEF LogTypes
<1> QED BY <1>1 DEF MakeRoom, LogTypes

LEMMA AppendKeptLog ==
  ASSUME LogTypes, NEW kind \in {"data", "resize", "exit"}, NEW n \in Nat, AppendKept(kind, n)
  PROVE  LogStep /\ ~exited /\ exited' = (kind = "exit")
<1>1. PICK r \in {run} \cup (IF newest = None THEN {} ELSE Kept(newest.resume)) :
        MakeRoom(r) /\ Push(r, kind, n)
  BY DEF AppendKept
<1>2. r \in Seq(Entry) /\ retain_from' \in Cursor
  BY <1>1, MakeRoomTypes
<1>3. Settled(r) \in Seq(Entry) /\ SettledHead \in Cursor
  BY <1>2, SettledTypes
<1> DEFINE e == [rseq |-> SettledHead.rseq, off |-> SettledHead.off, kind |-> kind, len |-> n]
<1>4. e \in Entry /\ After(e) \in Cursor
  BY <1>3 DEF Cursor, Entry, After
<1>5. run' = Append(Settled(r), e) /\ head' = After(e) /\ lost' = 0
  BY <1>1 DEF Push
<1>6. run' \in Seq(Entry) /\ head' \in Cursor /\ lost' \in Nat
  BY <1>3, <1>4, <1>5
<1> QED BY <1>2, <1>6 DEF AppendKept, LogStep, LogTypes

LEMMA AppendDroppedLog ==
  ASSUME LogTypes, NEW n \in Nat, AppendDropped(n)
  PROVE  LogStep /\ ~exited /\ exited' = exited /\ overflow = "Drop"
<1>1. PICK r \in {run} \cup (IF newest = None THEN {} ELSE Kept(newest.resume)) :
        MakeRoom(r) /\ run' = r
  BY DEF AppendDropped
<1>2. r \in Seq(Entry) /\ retain_from' \in Cursor
  BY <1>1, MakeRoomTypes
<1> QED BY <1>1, <1>2 DEF AppendDropped, LogStep, LogTypes

LEMMA AppendsKeptLog ==
  ASSUME LogTypes, NEW n \in Nat, AppendsKept(n)
  PROVE  LogStep /\ ~exited /\ exited' = exited
<1>1. head.rseq \in Nat /\ head.off \in Nat
  BY DEF LogTypes, Cursor
<1>2. [i \in 1..n |-> [rseq |-> head.rseq + (i - 1), off |-> head.off + (i - 1),
                       kind |-> "data", len |-> 1]] \in Seq(Entry)
  BY <1>1 DEF Entry
<1>3. run' \in Seq(Entry) /\ head' \in Cursor
  BY <1>1, <1>2 DEF AppendsKept, LogTypes, Cursor
<1> QED BY <1>3 DEF AppendsKept, LogStep, LogTypes

LEMMA SettleGapLog ==
  ASSUME LogTypes, SettleGap
  PROVE  /\ LogStep
         /\ exited' = exited /\ lost' = 0 /\ head' = SettledHead /\ retain_from' = retain_from
<1>1. Settled(run) \in Seq(Entry) /\ SettledHead \in Cursor
  BY SettledTypes DEF LogTypes
<1> QED BY <1>1 DEF SettleGap, LogStep, LogTypes

LEMMA FinishLog ==
  ASSUME LogTypes, NEW open, NEW info \in BOOLEAN, Finish(open, info)
  PROVE  /\ LogStep
         /\ exited' = (exited \/ (open = 0 /\ info))
<1>1. CASE open = 0 /\ info /\ ~exited
  BY <1>1, AppendKeptLog DEF Finish
<1>2. CASE ~(open = 0 /\ info /\ ~exited)
  <2>1. UNCHANGED recordLogVars
    BY <1>2 DEF Finish
  <2> QED BY <1>2, <2>1 DEF recordLogVars, LogStep, LogTypes
<1> QED BY <1>1, <1>2

LEMMA BoundaryTypes ==
  ASSUME LogTypes, NEW c \in Boundaries
  PROVE  c \in Cursor
<1>1. CASE c = head
  BY <1>1 DEF LogTypes
<1>2. ASSUME NEW i \in 1..Len(run), c = Before(run[i]) PROVE c \in Cursor
  <2>1. run[i] \in Entry
    BY DEF LogTypes
  <2> QED BY <1>2, <2>1 DEF Before, Entry, Cursor
<1> QED BY <1>1, <1>2 DEF Boundaries, BoundariesOf

LEMMA CheckpointLog ==
  ASSUME LogTypes, NEW c \in Boundaries, NEW b, CheckpointIfLive([resume |-> c, blob |-> b])
  PROVE  /\ LogStep /\ exited' = exited
         /\ mode # "Live" => UNCHANGED recordLogVars
<1> DEFINE cp == [resume |-> c, blob |-> b]
<1>1. CASE UNCHANGED recordLogVars
  BY <1>1 DEF recordLogVars, LogStep, LogTypes
<1>2. CASE mode = "Live" /\ PutCheckpoint(cp)
  <2>1. cp.resume \in Cursor
    BY BoundaryTypes
  <2>2. run' \in Seq(Entry)
    <3>1. \E x : run' \in Kept(x)
      BY <1>2 DEF PutCheckpoint
    <3>2. PICK k \in 0..Len(run) : run' = DropFirst(run, k)
      BY <3>1 DEF Kept
    <3> QED BY <3>2 DEF DropFirst, LogTypes
  <2>3. newest' = cp /\ retain_from' \in Cursor
    BY <1>2 DEF PutCheckpoint, LogTypes
  <2> QED BY <1>2, <2>1, <2>2, <2>3 DEF PutCheckpoint, LogStep, LogTypes
<1> QED BY <1>1, <1>2 DEF CheckpointIfLive, CheckpointTaken
-----------------------------------------------------------------------------
(* Streams and their chunks.                                               *)

LEMMA StreamsFacts ==
  ASSUME SessionInv
  PROVE  /\ IsFiniteSet(Streams) /\ Cardinality(Streams) \in 0..255
         /\ IsFiniteSet(outs) /\ Cardinality(outs) \in 0..255
         /\ \A s \in Streams : /\ MaxChunks[s] \in Nat /\ 1..MaxChunks[s] \subseteq Chunks
                               /\ written[s] \in Nat /\ written[s] <= MaxChunks[s]
                               /\ owed[s] \in Nat /\ owed[s] <= written[s]
         /\ Chunks \subseteq Nat \ {0}
<1>1. overflow \in Policies
  BY DEF SessionInv, LogTypes
<1>2. IsFiniteSet(Streams) /\ Cardinality(Streams) <= 255 /\ \A s \in Streams : MaxChunks[s] \in Nat
  BY <1>1, StreamsAssumption DEF Streams
<1>3. outs \subseteq Streams
  BY DEF SessionInv, Typed
<1>4. IsFiniteSet(outs) /\ Cardinality(outs) <= Cardinality(Streams)
  BY <1>2, <1>3, FS_Subset
<1>5. Cardinality(outs) \in Nat /\ Cardinality(Streams) \in Nat
  BY <1>2, <1>4, FS_CardinalityType
<1>6. \A s \in Streams : /\ written[s] \in Nat /\ written[s] <= MaxChunks[s]
                         /\ owed[s] \in Nat /\ owed[s] <= written[s]
  BY <1>2 DEF SessionInv, Typed
<1>7. Chunks \subseteq Nat \ {0} /\ \A s \in Streams : 1..MaxChunks[s] \subseteq Chunks
  BY <1>2 DEF Chunks
<1> QED BY <1>2, <1>4, <1>5, <1>6, <1>7

LEMMA SeenParts ==
  ASSUME SessionInv, NEW s \in Streams
  PROVE  /\ taken[s] \in Seq(Nat) /\ pipe[s] \in Seq(Nat) /\ held[s] \in Nat
         /\ taken[s] \in Seq(Chunks) /\ pipe[s] \in Seq(Chunks) /\ held[s] \in Chunks \cup {0}
         /\ written[s] \in Nat /\ Whole \in BOOLEAN
         /\ Good(Seen(s), written[s], Whole)
         /\ pipe[s] # <<>> =>
              /\ Head(pipe[s]) \in Chunks /\ Head(pipe[s]) \in Nat /\ Head(pipe[s]) # 0
              /\ Tail(pipe[s]) \in Seq(Chunks)
<1>1. taken[s] \in Seq(Chunks) /\ pipe[s] \in Seq(Chunks) /\ held[s] \in Chunks \cup {0}
  BY DEF SessionInv, Typed
<1>2. Chunks \subseteq Nat \ {0} /\ written[s] \in Nat
  BY StreamsFacts
<1>3. taken[s] \in Seq(Nat) /\ pipe[s] \in Seq(Nat)
  <2> DEFINE t == taken[s]
             p == pipe[s]
  <2>1. \A x \in Seq(Chunks) : x \in Seq(Nat)
    <3> SUFFICES ASSUME NEW x \in Seq(Chunks) PROVE x \in Seq(Nat)
      OBVIOUS
    <3>1. x \in [1..Len(x) -> Chunks] /\ Len(x) \in Nat
      OBVIOUS
    <3>2. x \in [1..Len(x) -> Nat]
      BY <3>1, <1>2
    <3> QED BY <3>1, <3>2, SeqDef
  <2>2. t \in Seq(Chunks) /\ p \in Seq(Chunks)
    BY <1>1
  <2> HIDE DEF t, p
  <2>3. t \in Seq(Nat) /\ p \in Seq(Nat)
    BY <2>1, <2>2
  <2> QED BY <2>3 DEF t, p
<1>4. Good(Seen(s), written[s], Whole)
  BY DEF SessionInv, SeenFine
<1>5. Whole \in BOOLEAN
  BY DEF Whole, SessionInv, LogTypes
<1>6. pipe[s] # <<>> => Head(pipe[s]) \in Chunks /\ Tail(pipe[s]) \in Seq(Chunks)
  BY <1>1
<1>7. \A x \in Chunks : x \in Nat /\ x # 0
  BY <1>2
<1>8. held[s] \in Nat
  BY <1>1, <1>7
<1> QED BY <1>1, <1>2, <1>3, <1>4, <1>5, <1>6, <1>7, <1>8, Zenon

(* When everything of a stream was taken, so was what it is owed.          *)
LEMMA TakenAll ==
  ASSUME SessionInv, Whole, NEW s \in Streams, held[s] = 0,
         \A i \in DOMAIN pipe[s] : pipe[s][i] > owed[s]
  PROVE  \A n \in 1..owed[s] : \E i \in DOMAIN taken[s] : taken[s][i] = n
<1>1. SUFFICES ASSUME NEW n \in 1..owed[s]
               PROVE  \E i \in DOMAIN taken[s] : taken[s][i] = n
  OBVIOUS
<1>2. owed[s] \in Nat /\ written[s] \in Nat /\ owed[s] <= written[s]
  BY StreamsFacts
<1>3. taken[s] \in Seq(Nat) /\ pipe[s] \in Seq(Nat)
  BY SeenParts
<1>4. Seen(s) = taken[s] \o pipe[s]
  <2>1. taken[s] \o <<>> = taken[s]
    BY <1>3
  <2> QED BY <2>1 DEF Seen, Chunk
<1> DEFINE t == taken[s]
           p == pipe[s]
<1>5. Len(t \o p) = written[s] /\ (t \o p)[n] = n
  <2>1. Good(t \o p, written[s], TRUE)
    BY <1>4, SeenParts, Zenon
  <2>2. n \in 1..written[s]
    BY <1>2
  <2> HIDE DEF t, p
  <2> QED BY <2>1, <2>2 DEF Good
<1>8. t \in Seq(Nat) /\ p \in Seq(Nat)
  BY <1>3, Zenon
<1>9. \A i \in DOMAIN p : p[i] > owed[s]
  OBVIOUS
<1> HIDE DEF t, p
<1>6. CASE n <= Len(t)
  <2>1. n \in DOMAIN t /\ t[n] = n
    BY <1>2, <1>5, <1>6, <1>8
  <2> QED BY <2>1 DEF t
<1>7. CASE ~(n <= Len(t))
  <2>1. n \in Nat /\ Len(t \o p) = Len(t) + Len(p) /\ n <= Len(t \o p)
    BY <1>2, <1>5, <1>8
  <2>2. n - Len(t) \in DOMAIN p
    BY <2>1, <1>7, <1>8
  <2>3. p[n - Len(t)] = n
    BY <2>1, <2>2, <1>5, <1>7, <1>8
  <2> QED BY <1>2, <1>9, <2>2, <2>3
<1> QED BY <1>6, <1>7

(* All was read of every stream, so nothing owed is lost with the exit.    *)
LEMMA AllRead ==
  ASSUME SessionInv, ~exited,
         \A s \in Streams : held[s] = 0 /\ \A i \in DOMAIN pipe[s] : pipe[s][i] > owed[s],
         overflow = "Block"
  PROVE  \A s \in Streams : \A n \in 1..owed[s] : \E i \in DOMAIN taken[s] : taken[s][i] = n
BY TakenAll DEF Whole

(* With no stream left, all was read.                                      *)
LEMMA NoneLeft ==
  ASSUME SessionInv, ~exited, outs = {}
  PROVE  \A s \in Streams : held[s] = 0 /\ pipe[s] = <<>>
BY DEF SessionInv, HeldFine, LetGoEmpty

LEMMA ExitWithNoneLeft ==
  ASSUME SessionInv, ~exited, outs = {}, overflow = "Block"
  PROVE  \A s \in Streams : \A n \in 1..owed[s] : \E i \in DOMAIN taken[s] : taken[s][i] = n
<1>1. \A s \in Streams : held[s] = 0 /\ pipe[s] = <<>>
  BY NoneLeft
<1> QED BY <1>1, AllRead
-----------------------------------------------------------------------------
(* Each step keeps the invariant.                                          *)

LEMMA KeepsSeen ==
  ASSUME SessionInv, LogStep, exited => exited', NEW s \in Streams,
         Seen(s)' = Seen(s), written'[s] = written[s]
  PROVE  Good(Seen(s)', written'[s], Whole')
<1>1. Whole' => Whole
  BY DEF Whole, LogStep
<1>2. Good(Seen(s), written[s], Whole)
  BY SeenParts
<1>3. Good(Seen(s), written[s], Whole')
  BY <1>1, <1>2 DEF Good
<1> QED BY <1>3

LEMMA SameStreams ==
  ASSUME SessionInv, LogStep
  PROVE  Streams' = Streams /\ Chunks' = Chunks
BY DEF Streams, Chunks, LogStep

LEMMA WritesStep ==
  ASSUME SessionInv, NEW s \in Streams, Writes(s)
  PROVE  SessionInv'
<1> USE DEF SessionInv
<1>1. LogStep /\ UNCHANGED recordLogVars
  BY DEF Writes, recordLogVars, LogStep, LogTypes
<1>2. Streams' = Streams /\ Chunks' = Chunks
  BY <1>1, SameStreams
<1>a. UNCHANGED <<overflow, head, retain_from, lost, exited>>
  BY <1>1 DEF recordLogVars
<1>3. s \in outs /\ written[s] \in Nat /\ MaxChunks[s] \in Nat /\ written[s] + 1 \in Chunks
      /\ written[s] + 1 <= MaxChunks[s]
  <2>1. written[s] < MaxChunks[s] /\ s \in outs
    BY DEF Writes
  <2>2. written[s] \in Nat /\ MaxChunks[s] \in Nat /\ 1..MaxChunks[s] \subseteq Chunks
    BY StreamsFacts
  <2> QED BY <2>1, <2>2
<1>4. /\ written' = [written EXCEPT ![s] = written[s] + 1]
      /\ pipe' = [pipe EXCEPT ![s] = Append(pipe[s], written[s] + 1)]
      /\ DOMAIN pipe = Streams
      /\ Append(pipe[s], written[s] + 1) \in Seq(Chunks)
  BY <1>3 DEF Writes, Typed
<1>5. Typed'
  <2>1. pipe' \in [Streams -> Seq(Chunks)]
    BY <1>4 DEF Typed
  <2>2. /\ written' \in [Streams -> Nat]
        /\ \A x \in Streams : owed[x] <= written'[x] /\ written'[x] <= MaxChunks[x]
    <3>1. written \in [Streams -> Nat] /\ owed \in [Streams -> Nat]
      BY DEF Typed
    <3>2. \A x \in Streams : owed[x] <= written[x] /\ written[x] <= MaxChunks[x]
      BY DEF Typed
    <3>3. \A x \in Streams : written'[x] = IF x = s THEN written[s] + 1 ELSE written[x]
      BY <1>4, <3>1
    <3>4. owed[s] <= written[s] + 1 /\ written[s] + 1 <= MaxChunks[s]
      BY <1>3, <3>1, <3>2
    <3>5. written' \in [Streams -> Nat]
      BY <1>3, <1>4, <3>1
    <3> QED BY <3>2, <3>3, <3>4, <3>5
  <2>3. UNCHANGED <<alive, writers, owed, outs, armed, held, was_held, open_streams, reaped,
                    taken, kept_waiting, mode, manifest, handoffs, retrying, draining, rooms,
                    floor>>
    BY DEF Writes, handoffVars, timerVars
  <2> QED BY <1>2, <2>1, <2>2, <2>3 DEF Typed
<1>6. SeenFine'
  <2>1. SUFFICES ASSUME NEW x \in Streams PROVE Good(Seen(x)', written'[x], Whole')
    BY <1>2 DEF SeenFine
  <2>2. CASE x # s
    <3>1. written'[x] = written[x] /\ pipe'[x] = pipe[x]
      BY <1>4, <2>2 DEF Typed
    <3>2. Seen(x)' = Seen(x)
      BY <3>1 DEF Seen, Chunk, Writes
    <3> QED BY <1>1, <1>a, <3>1, <3>2, KeepsSeen
  <2>3. CASE x = s
    <3>1. taken[s] \in Seq(Nat) /\ Chunk(s) \in Seq(Nat) /\ pipe[s] \in Seq(Nat)
      BY SeenParts DEF Chunk
    <3>2. Seen(s)' = taken[s] \o Chunk(s) \o Append(pipe[s], written[s] + 1)
      BY <1>4 DEF Seen, Chunk, Writes
    <3>3. Seen(s)' = Append(Seen(s), written[s] + 1)
      <4>1. written[s] + 1 \in Nat
        BY <1>3
      <4>2. taken[s] \o Chunk(s) \o Append(pipe[s], written[s] + 1)
              = Append(taken[s] \o Chunk(s) \o pipe[s], written[s] + 1)
        BY <4>1, <3>1, SeenLonger, Zenon
      <4>3. Seen(s) = taken[s] \o Chunk(s) \o pipe[s]
        BY DEF Seen
      <4> QED BY <4>2, <4>3, <3>2
    <3>4. written'[s] = written[s] + 1
      BY <1>4 DEF Typed
    <3>5. Whole' = Whole
      BY <1>a DEF Whole
    <3>6. Good(Seen(s), written[s], Whole) /\ Whole \in BOOLEAN
      BY SeenParts
    <3> QED BY <1>3, <2>3, <3>3, <3>4, <3>5, <3>6, GoodAppend
  <2> QED BY <2>2, <2>3
<1>7. LetGoEmpty'
  BY <1>2, <1>3, <1>4, <1>a DEF LetGoEmpty, Writes
<1>8. HeldFine' /\ Counted' /\ ReapedDead' /\ KeptWaitingKnown' /\ ManifestStaysTrue'
      /\ ManifestReaped' /\ PipedLosesNothingUnthawed'
  BY <1>2, <1>a DEF Writes, handoffVars, timerVars, HeldFine, Counted, ReapedDead, KeptWaitingKnown,
     ManifestStaysTrue, Holding, ManifestReaped, PipedLosesNothingUnthawed, PipedLosesNothing
<1> QED BY <1>1, <1>5, <1>6, <1>7, <1>8 DEF LogStep
(* A step that may end the session, and leaves what was read alone.        *)
LEMMA SeenKept ==
  ASSUME SessionInv, LogStep, exited => exited', UNCHANGED <<written, pipe, held, taken>>
  PROVE  SeenFine'
<1>1. SUFFICES ASSUME NEW s \in Streams PROVE Good(Seen(s)', written'[s], Whole')
  BY SameStreams DEF SeenFine
<1>2. Seen(s)' = Seen(s)
  BY DEF Seen, Chunk
<1> QED BY <1>2, KeepsSeen

(* A step that leaves the log and the streams alone.                       *)
LEMMA Quiet ==
  ASSUME SessionInv,
         UNCHANGED <<recordLogVars, written, pipe, outs, held, taken, open_streams>>
  PROVE  /\ LogStep /\ LogTypes' /\ Streams' = Streams /\ Chunks' = Chunks
         /\ SeenFine' /\ LetGoEmpty' /\ Counted' /\ Holding' = Holding
         /\ UNCHANGED <<overflow, exited, head, retain_from, lost, newest>>
<1>1. UNCHANGED <<overflow, exited, head, retain_from, lost, newest, run>>
  BY DEF recordLogVars
<1>2. LogStep
  BY <1>1 DEF LogStep, LogTypes, SessionInv
<1>3. Streams' = Streams /\ Chunks' = Chunks
  BY <1>2, SameStreams
<1>4. SeenFine'
  BY <1>1, <1>2, SeenKept
<1>5. LetGoEmpty' /\ Counted' /\ Holding' = Holding
  BY <1>1, <1>3 DEF SessionInv, LetGoEmpty, Counted, Holding
<1> QED BY <1>1, <1>2, <1>3, <1>4, <1>5 DEF LogStep

LEMMA ClosesStep ==
  ASSUME SessionInv, NEW s \in Streams, NEW who \in {"program", "job"}, Closes(s, who)
  PROVE  SessionInv'
<1> USE DEF SessionInv
<1>1. UNCHANGED <<recordLogVars, written, pipe, outs, held, taken, open_streams>>
  BY DEF Closes
<1>2. Typed'
  <2>1. writers' \in [Streams -> SUBSET {"program", "job"}]
    BY DEF Closes, Typed
  <2> QED BY <1>1, <2>1, Quiet DEF Closes, Typed, handoffVars, timerVars
<1>3. HeldFine' /\ ReapedDead' /\ KeptWaitingKnown' /\ ManifestStaysTrue' /\ ManifestReaped'
      /\ PipedLosesNothingUnthawed'
  BY <1>1, Quiet DEF Closes, handoffVars, timerVars, HeldFine, ReapedDead, KeptWaitingKnown,
     ManifestStaysTrue, ManifestReaped, PipedLosesNothingUnthawed, PipedLosesNothing
<1> QED BY <1>1, <1>2, <1>3, Quiet

LEMMA DiesStep ==
  ASSUME SessionInv, Dies
  PROVE  SessionInv'
<1> USE DEF SessionInv
<1>1. UNCHANGED <<recordLogVars, written, pipe, outs, held, taken, open_streams>>
  BY DEF Dies
<1>2. Typed'
  <2>1. writers' \in [Streams -> SUBSET {"program", "job"}]
    BY DEF Dies, Typed
  <2>2. /\ written' \in [Streams -> Nat] /\ owed' \in [Streams -> Nat]
        /\ \A s \in Streams : owed'[s] <= written'[s] /\ written'[s] <= MaxChunks[s]
    BY StreamsFacts DEF Dies, Typed
  <2>3. alive' \in BOOLEAN /\ Streams' = Streams /\ Chunks' = Chunks
    BY <1>1, Quiet DEF Dies
  <2>4. UNCHANGED <<reaped, was_held, pipe, taken, held, armed, outs, kept_waiting, open_streams,
                    mode, handoffs, retrying, draining, rooms, floor, manifest>>
    BY DEF Dies, handoffVars, timerVars
  <2> QED BY <2>1, <2>2, <2>3, <2>4 DEF Typed
<1>3. HeldFine' /\ ReapedDead' /\ KeptWaitingKnown' /\ ManifestStaysTrue' /\ ManifestReaped'
  BY <1>1, Quiet DEF Dies, handoffVars, timerVars, HeldFine, ReapedDead, KeptWaitingKnown,
     ManifestStaysTrue, ManifestReaped
<1>4. PipedLosesNothingUnthawed'
  <2>1. ~exited'
    BY <1>1, Quiet DEF Dies, ReapedDead
  <2> QED BY <2>1 DEF PipedLosesNothingUnthawed, PipedLosesNothing
<1> QED BY <1>1, <1>2, <1>3, <1>4, Quiet

LEMMA IgnoresEventStep ==
  ASSUME SessionInv, NEW s \in Streams, IgnoresEvent(s)
  PROVE  SessionInv'
<1> USE DEF SessionInv
<1>1. UNCHANGED <<recordLogVars, written, pipe, outs, held, taken, open_streams>>
  BY DEF IgnoresEvent, programVars
<1>2. Typed'
  BY <1>1, Quiet DEF IgnoresEvent, Typed, programVars, handoffVars, timerVars
<1>3. HeldFine' /\ ReapedDead' /\ KeptWaitingKnown' /\ ManifestStaysTrue' /\ ManifestReaped'
      /\ PipedLosesNothingUnthawed'
  BY <1>1, Quiet DEF IgnoresEvent, programVars, handoffVars, timerVars, HeldFine, ReapedDead,
     KeptWaitingKnown, ManifestStaysTrue, ManifestReaped, PipedLosesNothingUnthawed,
     PipedLosesNothing
<1> QED BY <1>1, <1>2, <1>3, Quiet

LEMMA RetryTimerStep ==
  ASSUME SessionInv, RetryTimer
  PROVE  SessionInv'
<1> USE DEF SessionInv
<1>1. UNCHANGED <<recordLogVars, written, pipe, outs, held, taken, open_streams>>
  BY DEF RetryTimer, programVars
<1>2. Typed'
  <2>1. retrying' \in BOOLEAN /\ rooms' \subseteq {"checkpoint", "timer"}
    BY DEF RetryTimer, Typed
  <2>2. UNCHANGED <<alive, writers, owed, armed, was_held, reaped, kept_waiting, mode, manifest,
                    handoffs, draining, floor>>
    BY DEF RetryTimer, programVars, handoffVars
  <2> QED BY <1>1, <2>1, <2>2, Quiet DEF Typed
<1>3. HeldFine' /\ ReapedDead' /\ KeptWaitingKnown' /\ ManifestStaysTrue' /\ ManifestReaped'
      /\ PipedLosesNothingUnthawed'
  BY <1>1, Quiet DEF RetryTimer, programVars, handoffVars, HeldFine, ReapedDead,
     KeptWaitingKnown, ManifestStaysTrue, ManifestReaped, PipedLosesNothingUnthawed,
     PipedLosesNothing
<1> QED BY <1>1, <1>2, <1>3, Quiet

LEMMA HoldingLeavesMark ==
  ASSUME SessionInv, Holding # {}
  PROVE  was_held
BY DEF SessionInv, HeldFine, Holding, Typed

LEMMA DrainLooksStep ==
  ASSUME SessionInv, DrainNoLonger \/ DrainAgain
  PROVE  SessionInv'
<1> USE DEF SessionInv
<1>1. UNCHANGED <<recordLogVars, written, pipe, outs, held, taken, open_streams>>
  BY DEF DrainNoLonger, DrainAgain, programVars
<1>4. Holding \subseteq Streams
  BY DEF Holding, Typed
<1>2. Typed'
  <2>1. was_held' \in BOOLEAN /\ kept_waiting' \subseteq Streams /\ draining' \in BOOLEAN
    BY <1>4 DEF DrainNoLonger, DrainAgain, Typed, timerVars
  <2>2. Streams' = Streams /\ Chunks' = Chunks
    BY <1>1, Quiet
  <2>3. UNCHANGED <<programVars, handoffVars, retrying, rooms, floor, armed, reaped>>
    BY DEF DrainNoLonger, DrainAgain, timerVars
  <2> QED BY <1>1, <2>1, <2>2, <2>3 DEF Typed, programVars, handoffVars
<1>3. ReapedDead' /\ ManifestStaysTrue' /\ ManifestReaped' /\ PipedLosesNothingUnthawed'
  BY <1>1, Quiet DEF DrainNoLonger, DrainAgain, programVars, handoffVars, timerVars, ReapedDead,
     ManifestStaysTrue, ManifestReaped, PipedLosesNothingUnthawed, PipedLosesNothing
<1>5. HeldFine'
  <2>1. SUFFICES ASSUME NEW s \in Streams, held[s] # 0 PROVE s \in outs /\ was_held'
    BY <1>1, Quiet DEF HeldFine
  <2>2. s \in outs /\ was_held
    BY <2>1 DEF HeldFine
  <2>3. Holding # {}
    BY <2>1, <2>2 DEF Holding
  <2> QED BY <2>2, <2>3 DEF DrainNoLonger, DrainAgain
<1>6. KeptWaitingKnown'
  BY HoldingLeavesMark DEF DrainNoLonger, DrainAgain, KeptWaitingKnown, handoffVars
<1> QED BY <1>1, <1>2, <1>3, <1>5, <1>6, Quiet
LEMMA HoldingType ==
  ASSUME SessionInv
  PROVE  Holding \subseteq Streams /\ outs \subseteq Streams /\ armed \subseteq outs
BY DEF SessionInv, Typed, Holding

LEMMA ReapedStep ==
  ASSUME SessionInv, Reaped
  PROVE  SessionInv'
<1> USE DEF SessionInv
<1>1. UNCHANGED <<programVars, handoffVars, retrying, rooms, floor, pipe, outs, armed, held,
                  was_held, open_streams, taken>>
  BY DEF Reaped
<1>2. /\ ~alive /\ reaped' = TRUE /\ draining' = TRUE
      /\ kept_waiting' = IF mode = "Live" THEN Holding ELSE outs
  BY DEF Reaped
<1>3. /\ LogStep
      /\ exited' = (exited \/ (mode = "Live" /\ open_streams = 0))
      /\ mode # "Live" => UNCHANGED recordLogVars
  <2>1. CASE mode = "Live"
    BY <2>1, FinishLog DEF Reaped
  <2>2. CASE mode # "Live"
    BY <2>2 DEF Reaped, recordLogVars, LogStep, LogTypes
  <2> QED BY <2>1, <2>2
<1>4. Streams' = Streams /\ Chunks' = Chunks
  BY <1>3, SameStreams
<1>5. Typed'
  BY <1>1, <1>2, <1>4, HoldingType DEF Typed, programVars, handoffVars
<1>6. SeenFine'
  BY <1>1, <1>3, SeenKept DEF programVars
<1>7. HeldFine' /\ LetGoEmpty' /\ Counted' /\ ReapedDead' /\ ManifestReaped'
  BY <1>1, <1>2, <1>3, <1>4 DEF HeldFine, LetGoEmpty, Counted, ReapedDead, ManifestReaped,
     programVars, handoffVars
<1>8. KeptWaitingKnown'
  BY <1>1, <1>2, HoldingLeavesMark DEF KeptWaitingKnown, handoffVars
<1>9. ManifestStaysTrue'
  BY <1>1, <1>3 DEF ManifestStaysTrue, Holding, recordLogVars, handoffVars
<1>10. PipedLosesNothingUnthawed'
  <2>1. SUFFICES ASSUME ~thawed', overflow' = "Block", exited'
                 PROVE  \A s \in Streams : \A n \in 1..owed[s] : \E i \in DOMAIN taken[s] : taken[s][i] = n
    BY <1>1, <1>4 DEF PipedLosesNothingUnthawed, PipedLosesNothing, programVars
  <2>2. ~thawed /\ overflow = "Block"
    BY <1>1, <1>3, <2>1 DEF handoffVars, LogStep
  <2>3. CASE exited
    BY <2>2, <2>3 DEF PipedLosesNothingUnthawed, PipedLosesNothing
  <2>4. CASE ~exited
    <3>1. Cardinality(outs) = 0
      BY <1>3, <2>1, <2>4 DEF Counted
    <3>2. outs = {}
      BY <3>1, StreamsFacts, FS_EmptySet
    <3> QED BY <2>2, <2>4, <3>2, ExitWithNoneLeft
  <2> QED BY <2>3, <2>4
<1> QED BY <1>3, <1>5, <1>6, <1>7, <1>8, <1>9, <1>10 DEF LogStep

(* A stream fewer is held, so there is one fewer to count.                 *)
LEMMA OneStreamFewer ==
  ASSUME SessionInv, ~exited, NEW s \in outs
  PROVE  /\ OneFewer(open_streams) = Cardinality(outs \ {s})
         /\ OneFewer(open_streams) = 0 => outs \ {s} = {}
<1>1. IsFiniteSet(outs) /\ Cardinality(outs) \in 0..255 /\ open_streams = Cardinality(outs)
  BY StreamsFacts DEF SessionInv, Counted
<1>2. IsFiniteSet(outs \ {s}) /\ Cardinality(outs \ {s}) = Cardinality(outs) - 1
  BY <1>1, FS_RemoveElement
<1>3. Cardinality(outs \ {s}) \in Nat
  BY <1>2, FS_CardinalityType
<1>4. Cardinality(outs) - 1 \in 0..254
  BY <1>1, <1>2, <1>3
<1>5. OneFewer(open_streams) = Cardinality(outs) - 1
  BY <1>1, <1>4 DEF OneFewer
<1>6. Cardinality(outs \ {s}) = 0 => outs \ {s} = {}
  BY <1>2, FS_EmptySet
<1> QED BY <1>2, <1>5, <1>6

LEMMA OneFewerType ==
  ASSUME NEW n \in 0..255
  PROVE  OneFewer(n) \in 0..255
BY DEF OneFewer

LEMMA StreamEndsStep ==
  ASSUME SessionInv, NEW s \in Streams, StreamEnds(s)
  PROVE  SessionInv'
<1> USE DEF SessionInv
<1>1. UNCHANGED <<programVars, handoffVars, timerVars, pipe, held, was_held, reaped, taken,
                  kept_waiting>>
  BY DEF StreamEnds
<1>2. /\ s \in outs /\ mode = "Live" /\ held[s] = 0 /\ pipe[s] = <<>>
      /\ outs' = outs \ {s} /\ armed' = armed \ {s} /\ open_streams' = OneFewer(open_streams)
  BY HoldingType DEF StreamEnds, Event
<1>3. LogStep /\ exited' = (exited \/ (OneFewer(open_streams) = 0 /\ reaped))
  BY FinishLog DEF StreamEnds, Typed
<1>4. Streams' = Streams /\ Chunks' = Chunks
  BY <1>3, SameStreams
<1>5. Typed'
  <2>1. open_streams' \in 0..255
    BY <1>2, OneFewerType DEF Typed
  <2>2. outs' \subseteq Streams /\ armed' \subseteq outs'
    BY <1>2, HoldingType
  <2> QED BY <1>1, <1>4, <2>1, <2>2 DEF Typed, programVars, handoffVars, timerVars
<1>6. SeenFine'
  BY <1>1, <1>3, SeenKept DEF programVars
<1>7. HeldFine' /\ LetGoEmpty'
  BY <1>1, <1>2, <1>3, <1>4 DEF HeldFine, LetGoEmpty
<1>8. Counted'
  BY <1>2, <1>3, OneStreamFewer DEF Counted
<1>9. ReapedDead' /\ ManifestReaped' /\ KeptWaitingKnown' /\ ManifestStaysTrue'
  BY <1>1, <1>2, <1>3 DEF ReapedDead, ManifestReaped, KeptWaitingKnown, ManifestStaysTrue,
     programVars, handoffVars, timerVars
<1>10. PipedLosesNothingUnthawed'
  <2>1. SUFFICES ASSUME ~thawed', overflow' = "Block", exited'
                 PROVE  \A x \in Streams : \A n \in 1..owed[x] : \E i \in DOMAIN taken[x] : taken[x][i] = n
    BY <1>1, <1>4 DEF PipedLosesNothingUnthawed, PipedLosesNothing, programVars
  <2>2. ~thawed /\ overflow = "Block"
    BY <1>1, <1>3, <2>1 DEF handoffVars, LogStep
  <2>3. CASE exited
    BY <2>2, <2>3 DEF PipedLosesNothingUnthawed, PipedLosesNothing
  <2>4. CASE ~exited
    <3>1. outs \ {s} = {}
      BY <1>2, <1>3, <2>1, <2>4, OneStreamFewer
    <3>2. \A x \in Streams : held[x] = 0 /\ pipe[x] = <<>>
      BY <1>2, <2>4, <3>1 DEF HeldFine, LetGoEmpty
    <3> QED BY <2>2, <2>4, <3>2, AllRead
  <2> QED BY <2>3, <2>4
<1> QED BY <1>3, <1>5, <1>6, <1>7, <1>8, <1>9, <1>10 DEF LogStep

LEMMA DrainCutsOffStep ==
  ASSUME SessionInv, DrainCutsOff
  PROVE  SessionInv'
<1> USE DEF SessionInv
<1>1. UNCHANGED <<programVars, handoffVars, retrying, rooms, floor, pipe, outs, armed, held,
                  was_held, reaped, taken>>
  BY DEF DrainCutsOff
<1>2. /\ draining /\ Waited /\ ~exited /\ mode = "Live" /\ Holding = {} /\ ~was_held
      /\ open_streams' = 0 /\ draining' = FALSE /\ kept_waiting' = {}
  BY DEF DrainCutsOff, DrainTimer, MustLookAgain
<1>3. LogStep /\ exited'
  BY <1>2, FinishLog DEF DrainCutsOff, ReapedDead, Typed
<1>4. Streams' = Streams /\ Chunks' = Chunks
  BY <1>3, SameStreams
<1>5. Typed'
  <2>1. open_streams' = 0 /\ kept_waiting' = {} /\ draining' = FALSE
    BY <1>2
  <2>2. open_streams' \in 0..255
    BY <2>1, SMT
  <2>3. kept_waiting' \subseteq Streams
    BY <2>1
  <2>4. draining' \in BOOLEAN
    BY <2>1
  <2> QED BY <1>1, <1>4, <2>2, <2>3, <2>4 DEF Typed, programVars, handoffVars
<1>6. SeenFine'
  BY <1>1, <1>3, SeenKept DEF programVars
<1>7. HeldFine' /\ LetGoEmpty' /\ Counted' /\ ReapedDead' /\ ManifestReaped' /\ KeptWaitingKnown'
      /\ ManifestStaysTrue'
  BY <1>1, <1>2, <1>3, <1>4 DEF HeldFine, LetGoEmpty, Counted, ReapedDead, ManifestReaped,
     KeptWaitingKnown, ManifestStaysTrue, programVars, handoffVars
<1>8. PipedLosesNothingUnthawed'
  <2>1. SUFFICES ASSUME ~thawed, overflow = "Block"
                 PROVE  \A s \in Streams : \A n \in 1..owed[s] : \E i \in DOMAIN taken[s] : taken[s][i] = n
    BY <1>1, <1>3, <1>4 DEF PipedLosesNothingUnthawed, PipedLosesNothing, programVars, handoffVars,
       LogStep
  <2>2. kept_waiting = {}
    BY <1>2, <2>1 DEF KeptWaitingKnown
  <2>3. \A s \in Streams : held[s] = 0
    BY <1>2 DEF HeldFine
  <2>4. ASSUME NEW s \in Streams PROVE \A i \in DOMAIN pipe[s] : pipe[s][i] > owed[s]
    <3>1. CASE s \in outs
      BY <1>2, <2>2, <3>1 DEF Waited
    <3>2. CASE s \notin outs
      <4>1. pipe[s] = <<>>
        BY <1>2, <3>2 DEF LetGoEmpty
      <4>2. DOMAIN pipe[s] = {}
        BY <4>1
      <4> QED BY <4>2
    <3> QED BY <3>1, <3>2
  <2> QED BY <1>2, <2>1, <2>3, <2>4, AllRead
<1> QED BY <1>3, <1>5, <1>6, <1>7, <1>8 DEF LogStep
(* What every read has in common.                                          *)
LEMMA ReadFacts ==
  ASSUME SessionInv, NEW s \in Streams, Reads(s)
  PROVE  /\ s \in outs /\ mode = "Live" /\ held[s] = 0 /\ pipe[s] # <<>>
         /\ pipe' = [pipe EXCEPT ![s] = Tail(pipe[s])]
         /\ pipe' \in [Streams -> Seq(Chunks)]
         /\ pipe'[s] = Tail(pipe[s]) /\ \A x \in Streams : x # s => pipe'[x] = pipe[x]
         /\ Chunk(s) = <<>> /\ Seen(s) = taken[s] \o <<>> \o pipe[s]
         /\ UNCHANGED <<programVars, handoffVars, draining, rooms, floor, open_streams, reaped>>
<1>1. pipe \in [Streams -> Seq(Chunks)] /\ Tail(pipe[s]) \in Seq(Chunks)
  BY SeenParts DEF SessionInv, Typed, Reads
<1>2. pipe' = [pipe EXCEPT ![s] = Tail(pipe[s])]
  BY DEF Reads
<1>3. /\ pipe' \in [Streams -> Seq(Chunks)]
      /\ pipe'[s] = Tail(pipe[s]) /\ \A x \in Streams : x # s => pipe'[x] = pipe[x]
  BY <1>1, <1>2
<1>4. s \in outs
  BY HoldingType DEF Reads, Event
<1>5. Chunk(s) = <<>> /\ Seen(s) = taken[s] \o <<>> \o pipe[s]
  BY DEF Reads, Chunk, Seen
<1> QED BY <1>2, <1>3, <1>4, <1>5 DEF Reads

(* The rest of the invariant after a read.                                 *)
LEMMA ReadKeepsRest ==
  ASSUME SessionInv, NEW s \in Streams, Reads(s), LogStep, exited' = exited
  PROVE  /\ Streams' = Streams /\ Chunks' = Chunks /\ LogTypes'
         /\ ReapedDead' /\ ManifestReaped' /\ ManifestStaysTrue'
         /\ outs' = outs => LetGoEmpty' /\ Counted'
<1> USE DEF SessionInv
<1>1. Streams' = Streams /\ Chunks' = Chunks
  BY SameStreams
<1>2. /\ s \in outs /\ mode = "Live" /\ \A x \in Streams : x # s => pipe'[x] = pipe[x]
      /\ UNCHANGED <<programVars, handoffVars, draining, rooms, floor, open_streams, reaped>>
  BY ReadFacts
<1>3. ReapedDead' /\ ManifestReaped' /\ ManifestStaysTrue'
  BY <1>2 DEF ReapedDead, ManifestReaped, ManifestStaysTrue, programVars, handoffVars
<1>4. outs' = outs => LetGoEmpty' /\ Counted'
  BY <1>1, <1>2 DEF LetGoEmpty, Counted
<1> QED BY <1>1, <1>3, <1>4 DEF LogStep

LEMMA ReadTypes ==
  ASSUME SessionInv, NEW s \in Streams, Reads(s), LogStep, exited' = exited,
         held' \in [Streams -> Chunks \cup {0}], taken' \in [Streams -> Seq(Chunks)],
         armed' \subseteq outs', outs' \subseteq Streams, kept_waiting' \subseteq Streams,
         was_held' \in BOOLEAN, retrying' \in BOOLEAN
  PROVE  Typed'
<1>1. Streams' = Streams /\ Chunks' = Chunks
  BY ReadKeepsRest
<1>2. /\ pipe' \in [Streams -> Seq(Chunks)]
      /\ UNCHANGED <<programVars, handoffVars, draining, rooms, floor, open_streams, reaped>>
  BY ReadFacts
<1>3. UNCHANGED <<alive, writers, written, owed, mode, manifest, handoffs>>
  BY <1>2 DEF programVars, handoffVars
<1>4. Typed
  BY DEF SessionInv
<1> QED BY <1>1, <1>2, <1>3, <1>4 DEF Typed

(* A read loses nothing, or only what may be lost.                         *)
LEMMA ReadSeen ==
  ASSUME SessionInv, NEW s \in Streams, Reads(s), LogStep, exited' = exited,
         Seen(s)' = Seen(s) \/ (Seen(s)' = taken[s] \o <<>> \o Tail(pipe[s]) /\ ~Whole),
         \A x \in Streams \ {s} : taken'[x] = taken[x] /\ held'[x] = held[x]
  PROVE  SeenFine'
<1>1. Streams' = Streams /\ Chunks' = Chunks
  BY SameStreams
<1>2. /\ pipe[s] # <<>> /\ Seen(s) = taken[s] \o <<>> \o pipe[s]
      /\ \A x \in Streams : x # s => pipe'[x] = pipe[x]
      /\ UNCHANGED programVars
  BY ReadFacts
<1>3. SUFFICES ASSUME NEW x \in Streams PROVE Good(Seen(x)', written'[x], Whole')
  BY <1>1 DEF SeenFine
<1>4. written' = written
  BY <1>2 DEF programVars
<1>5. CASE x # s
  <2>1. Seen(x)' = Seen(x)
    BY <1>2, <1>5 DEF Seen, Chunk
  <2> QED BY <1>4, <2>1, KeepsSeen
<1>6. CASE x = s /\ Seen(s)' = Seen(s)
  BY <1>4, <1>6, KeepsSeen
<1>7. CASE x = s /\ Seen(s)' = taken[s] \o <<>> \o Tail(pipe[s]) /\ ~Whole
  <2>1. /\ taken[s] \in Seq(Nat) /\ pipe[s] \in Seq(Nat) /\ written[s] \in Nat /\ Whole \in BOOLEAN
        /\ Good(taken[s] \o <<>> \o pipe[s], written[s], Whole)
    BY <1>2, SeenParts
  <2>2. Good(taken[s] \o <<>> \o Tail(pipe[s]), written[s], FALSE)
    BY <1>2, <2>1, GoodCut
  <2>3. ~Whole'
    BY <1>7 DEF Whole, LogStep
  <2>4. Good(Seen(s)', written[s], FALSE)
    BY <1>7, <2>2
  <2> QED BY <1>4, <1>7, <2>3, <2>4 DEF Good
<1> QED BY <1>5, <1>6, <1>7

LEMMA ReadsKeptStep ==
  ASSUME SessionInv, NEW s \in Streams, ReadsKept(s)
  PROVE  SessionInv'
<1> USE DEF SessionInv
<1>1. Reads(s) /\ taken' = [taken EXCEPT ![s] = Append(taken[s], Head(pipe[s]))]
      /\ UNCHANGED <<outs, armed, held, was_held, retrying, kept_waiting>>
  BY DEF ReadsKept
<1>2. LogStep /\ exited' = exited /\ ~exited
  BY AppendKeptLog DEF ReadsKept, LogTypes
<1>3. /\ taken' \in [Streams -> Seq(Chunks)] /\ taken'[s] = Append(taken[s], Head(pipe[s]))
      /\ \A x \in Streams \ {s} : taken'[x] = taken[x]
  <2>1. Head(pipe[s]) \in Chunks /\ taken[s] \in Seq(Chunks) /\ taken \in [Streams -> Seq(Chunks)]
    BY <1>1, ReadFacts, SeenParts DEF Typed
  <2>2. Append(taken[s], Head(pipe[s])) \in Seq(Chunks)
    BY <2>1
  <2> QED BY <1>1, <2>1, <2>2
<1>4. Streams' = Streams /\ Chunks' = Chunks
  BY <1>1, <1>2, ReadKeepsRest
<1>5. Typed'
  BY <1>1, <1>2, <1>3, ReadTypes DEF Typed
<1>6. SeenFine'
  <2>1. pipe'[s] = Tail(pipe[s]) /\ Chunk(s) = <<>> /\ Chunk(s)' = <<>> /\ pipe[s] # <<>>
    BY <1>1, ReadFacts DEF Chunk
  <2>2. Seen(s)' = Append(taken[s], Head(pipe[s])) \o <<>> \o Tail(pipe[s])
    BY <1>3, <2>1 DEF Seen
  <2>3. taken[s] \in Seq(Nat) /\ pipe[s] \in Seq(Nat)
    BY SeenParts
  <2>4. Append(taken[s], Head(pipe[s])) \o <<>> \o Tail(pipe[s]) = taken[s] \o <<>> \o pipe[s]
    BY <2>1, <2>3, SameSeen, Zenon
  <2>5. Seen(s)' = Seen(s)
    BY <1>1, <2>2, <2>4, ReadFacts
  <2> QED BY <1>1, <1>2, <1>3, <2>5, ReadSeen
<1>7. HeldFine' /\ KeptWaitingKnown'
  BY <1>1, <1>4, ReadFacts DEF HeldFine, KeptWaitingKnown, handoffVars
<1>8. PipedLosesNothingUnthawed'
  BY <1>2 DEF PipedLosesNothingUnthawed, PipedLosesNothing
<1> QED BY <1>1, <1>2, <1>5, <1>6, <1>7, <1>8, ReadKeepsRest

LEMMA ReadsDroppedStep ==
  ASSUME SessionInv, NEW s \in Streams, ReadsDropped(s)
  PROVE  SessionInv'
<1> USE DEF SessionInv
<1>1. Reads(s) /\ UNCHANGED <<outs, armed, held, was_held, retrying, taken, kept_waiting>>
  BY DEF ReadsDropped
<1>2. LogStep /\ exited' = exited /\ ~exited /\ overflow = "Drop"
  BY AppendDroppedLog DEF ReadsDropped
<1>4. Streams' = Streams /\ Chunks' = Chunks
  BY <1>1, <1>2, ReadKeepsRest
<1>5. Typed'
  BY <1>1, <1>2, ReadTypes DEF Typed
<1>6. SeenFine'
  <2>1. Seen(s)' = taken[s] \o <<>> \o Tail(pipe[s])
    BY <1>1, ReadFacts DEF Seen, Chunk
  <2>2. ~Whole
    BY <1>2 DEF Whole
  <2> QED BY <1>1, <1>2, <2>1, <2>2, ReadSeen
<1>7. HeldFine' /\ KeptWaitingKnown'
  BY <1>1, <1>4, ReadFacts DEF HeldFine, KeptWaitingKnown, handoffVars
<1>8. PipedLosesNothingUnthawed'
  BY <1>2 DEF PipedLosesNothingUnthawed, PipedLosesNothing
<1> QED BY <1>1, <1>2, <1>5, <1>6, <1>7, <1>8, ReadKeepsRest

LEMMA ReadsHeldStep ==
  ASSUME SessionInv, NEW s \in Streams, ReadsHeld(s)
  PROVE  SessionInv'
<1> USE DEF SessionInv
<1>1. /\ Reads(s) /\ held' = [held EXCEPT ![s] = Head(pipe[s])] /\ armed' = armed \ {s}
      /\ was_held' = TRUE /\ retrying' = TRUE /\ kept_waiting' = KeptFrom({s})
      /\ UNCHANGED <<outs, taken>>
  BY DEF ReadsHeld
<1>2. LogStep /\ exited' = exited /\ ~exited
  BY DEF ReadsHeld, Full, AppendFull, recordLogVars, LogStep, LogTypes
<1>3. /\ held' \in [Streams -> Chunks \cup {0}] /\ held'[s] = Head(pipe[s]) /\ Head(pipe[s]) # 0
      /\ \A x \in Streams \ {s} : held'[x] = held[x]
  <2>1. Head(pipe[s]) \in Chunks /\ Head(pipe[s]) # 0 /\ held \in [Streams -> Chunks \cup {0}]
    BY <1>1, ReadFacts, SeenParts DEF Typed
  <2> QED BY <1>1, <2>1
<1>4. Streams' = Streams /\ Chunks' = Chunks
  BY <1>1, <1>2, ReadKeepsRest
<1>5. Typed'
  <2>1. kept_waiting' \subseteq Streams
    BY <1>1 DEF KeptFrom, Typed
  <2>2. armed' \subseteq outs' /\ outs' \subseteq Streams
    BY <1>1, HoldingType
  <2>3. taken' \in [Streams -> Seq(Chunks)] /\ was_held' \in BOOLEAN /\ retrying' \in BOOLEAN
    BY <1>1 DEF Typed
  <2> QED BY <1>1, <1>2, <1>3, <2>1, <2>2, <2>3, ReadTypes
<1>6. SeenFine'
  <2>1. pipe'[s] = Tail(pipe[s]) /\ Chunk(s)' = <<Head(pipe[s])>> /\ pipe[s] # <<>>
    BY <1>1, <1>3, ReadFacts DEF Chunk
  <2>2. Seen(s)' = taken[s] \o <<Head(pipe[s])>> \o Tail(pipe[s])
    BY <1>1, <2>1 DEF Seen
  <2>3. taken[s] \in Seq(Nat) /\ pipe[s] \in Seq(Nat)
    BY SeenParts
  <2>4. taken[s] \o <<Head(pipe[s])>> \o Tail(pipe[s]) = taken[s] \o <<>> \o pipe[s]
    BY <2>1, <2>3, SameSeen, Zenon
  <2>5. Seen(s)' = Seen(s)
    BY <1>1, <2>2, <2>4, ReadFacts
  <2> QED BY <1>1, <1>2, <1>3, <2>5, ReadSeen
<1>7. HeldFine' /\ KeptWaitingKnown'
  BY <1>1, <1>3, <1>4, ReadFacts DEF HeldFine, KeptWaitingKnown, handoffVars
<1>8. PipedLosesNothingUnthawed'
  BY <1>2 DEF PipedLosesNothingUnthawed, PipedLosesNothing
<1> QED BY <1>1, <1>2, <1>5, <1>6, <1>7, <1>8, ReadKeepsRest

LEMMA ReadsAfterExitStep ==
  ASSUME SessionInv, NEW s \in Streams, ReadsAfterExit(s)
  PROVE  SessionInv'
<1> USE DEF SessionInv
<1>1. /\ Reads(s) /\ exited /\ outs' = outs \ {s} /\ armed' = armed \ {s}
      /\ UNCHANGED <<recordLogVars, held, was_held, retrying, taken, kept_waiting>>
  BY DEF ReadsAfterExit
<1>2. LogStep /\ exited' = exited
  BY <1>1 DEF recordLogVars, LogStep, LogTypes
<1>4. Streams' = Streams /\ Chunks' = Chunks
  BY <1>1, <1>2, ReadKeepsRest
<1>5. Typed'
  <2>1. armed' \subseteq outs' /\ outs' \subseteq Streams
    BY <1>1, HoldingType
  <2>2. /\ taken' \in [Streams -> Seq(Chunks)] /\ held' \in [Streams -> Chunks \cup {0}]
        /\ was_held' \in BOOLEAN /\ retrying' \in BOOLEAN /\ kept_waiting' \subseteq Streams
    BY <1>1 DEF Typed
  <2> QED BY <1>1, <1>2, <2>1, <2>2, ReadTypes
<1>6. SeenFine'
  <2>1. Seen(s)' = taken[s] \o <<>> \o Tail(pipe[s])
    BY <1>1, ReadFacts DEF Seen, Chunk
  <2>2. ~Whole
    BY <1>1 DEF Whole
  <2> QED BY <1>1, <1>2, <2>1, <2>2, ReadSeen
<1>7. HeldFine' /\ KeptWaitingKnown' /\ LetGoEmpty' /\ Counted'
  BY <1>1, <1>2, <1>4, ReadFacts DEF HeldFine, KeptWaitingKnown, LetGoEmpty, Counted, handoffVars
<1>8. PipedLosesNothingUnthawed'
  <2>1. UNCHANGED <<thawed, owed, taken, exited>> /\ overflow' = overflow
    BY <1>1, <1>2, ReadFacts DEF programVars, handoffVars, LogStep
  <2>2. PipedLosesNothingUnthawed
    OBVIOUS
  <2> QED BY <1>4, <2>1, <2>2 DEF PipedLosesNothingUnthawed, PipedLosesNothing
<1> QED BY <1>1, <1>2, <1>5, <1>6, <1>7, <1>8, ReadKeepsRest
LEMMA RetryHeldStep ==
  ASSUME SessionInv, NEW who, RetryHeld(who)
  PROVE  SessionInv'
<1> USE DEF SessionInv
<1>1. /\ rooms' = rooms \ {who}
      /\ UNCHANGED <<programVars, handoffVars, draining, floor, pipe, outs, was_held,
                     open_streams, reaped, kept_waiting>>
  BY DEF RetryHeld
<1>2. CASE UNCHANGED <<recordLogVars, taken, held, armed, retrying>>
  <2>1. UNCHANGED <<recordLogVars, written, pipe, outs, held, taken, open_streams>>
    BY <1>1, <1>2 DEF programVars
  <2>2. Typed'
    <3>1. rooms' \subseteq {"checkpoint", "timer"}
      BY <1>1 DEF Typed
    <3> QED BY <1>1, <1>2, <2>1, <3>1, Quiet DEF Typed, programVars, handoffVars
  <2>3. HeldFine' /\ ReapedDead' /\ KeptWaitingKnown' /\ ManifestStaysTrue' /\ ManifestReaped'
        /\ PipedLosesNothingUnthawed'
    BY <1>1, <2>1, Quiet DEF programVars, handoffVars, HeldFine, ReapedDead, KeptWaitingKnown,
       ManifestStaysTrue, ManifestReaped, PipedLosesNothingUnthawed, PipedLosesNothing
  <2> QED BY <2>1, <2>2, <2>3, Quiet
<1>3. ASSUME mode = "Live", NEW S \in SUBSET Holding, AppendsKept(Cardinality(S)),
             taken' = [s \in Streams |-> IF s \in S THEN Append(taken[s], held[s]) ELSE taken[s]],
             held' = [s \in Streams |-> IF s \in S THEN 0 ELSE held[s]],
             armed' = armed \cup S, retrying' = RetriesStill(S)
      PROVE  SessionInv'
  <2>1. S \subseteq outs /\ IsFiniteSet(S) /\ Cardinality(S) \in Nat
    BY <1>3, StreamsFacts, FS_Subset, FS_CardinalityType DEF Holding
  <2>2. LogStep /\ exited' = exited /\ ~exited
    BY <1>3, <2>1, AppendsKeptLog
  <2>3. Streams' = Streams /\ Chunks' = Chunks
    BY <2>2, SameStreams
  <2>4. taken' \in [Streams -> Seq(Chunks)] /\ held' \in [Streams -> Chunks \cup {0}]
    <3>1. \A s \in S : s \in Streams /\ held[s] \in Chunks /\ taken[s] \in Seq(Chunks)
      BY HoldingType, SeenParts DEF Holding
    <3>2. \A s \in S : Append(taken[s], held[s]) \in Seq(Chunks)
      BY <3>1
    <3>3. \A s \in Streams : taken[s] \in Seq(Chunks) /\ held[s] \in Chunks \cup {0}
      BY SeenParts
    <3> QED BY <1>3, <3>2, <3>3
  <2>5. Typed'
    <3>1. armed' \subseteq outs' /\ outs' \subseteq Streams
      BY <1>1, <1>3, <2>1, HoldingType
    <3>2. retrying' \in BOOLEAN
      BY <1>3 DEF RetriesStill, Typed
    <3>3. rooms' \subseteq {"checkpoint", "timer"}
      BY <1>1 DEF Typed
    <3>4. UNCHANGED <<alive, reaped, was_held, writers, written, owed, pipe, kept_waiting,
                      open_streams, mode, handoffs, draining, floor, manifest>>
      BY <1>1 DEF programVars, handoffVars
    <3> QED BY <2>3, <2>4, <3>1, <3>2, <3>3, <3>4 DEF Typed
  <2>6. SeenFine'
    <3>1. SUFFICES ASSUME NEW s \in Streams PROVE Good(Seen(s)', written'[s], Whole')
      BY <2>3 DEF SeenFine
    <3>2. CASE s \in S
      <4>1. held[s] # 0 /\ Chunk(s) = <<held[s]>> /\ Chunk(s)' = <<>>
        BY <1>3, <3>2 DEF Holding, Chunk
      <4>2. Seen(s)' = Append(taken[s], held[s]) \o <<>> \o pipe[s]
        BY <1>1, <1>3, <3>2, <4>1 DEF Seen
      <4>3. Seen(s) = taken[s] \o <<held[s]>> \o pipe[s]
        BY <4>1 DEF Seen
      <4>4. taken[s] \in Seq(Nat) /\ pipe[s] \in Seq(Nat) /\ held[s] \in Nat
        BY SeenParts
      <4>5. Append(taken[s], held[s]) \o <<>> \o pipe[s] = taken[s] \o <<held[s]>> \o pipe[s]
        BY <4>4, SameSeen, Zenon
      <4>6. Seen(s)' = Seen(s)
        BY <4>2, <4>3, <4>5
      <4> QED BY <1>1, <2>2, <4>6, KeepsSeen DEF programVars
    <3>3. CASE s \notin S
      <4>1. Seen(s)' = Seen(s)
        BY <1>1, <1>3, <3>3 DEF Seen, Chunk
      <4> QED BY <1>1, <2>2, <4>1, KeepsSeen DEF programVars
    <3> QED BY <3>2, <3>3
  <2>7. HeldFine' /\ LetGoEmpty' /\ Counted'
    BY <1>1, <1>3, <2>2, <2>3 DEF HeldFine, LetGoEmpty, Counted
  <2>8. ReapedDead' /\ KeptWaitingKnown' /\ ManifestStaysTrue' /\ ManifestReaped'
        /\ PipedLosesNothingUnthawed'
    BY <1>1, <1>3, <2>2 DEF ReapedDead, KeptWaitingKnown, ManifestStaysTrue, ManifestReaped,
       PipedLosesNothingUnthawed, PipedLosesNothing, programVars, handoffVars
  <2> QED BY <2>2, <2>5, <2>6, <2>7, <2>8 DEF LogStep
<1> QED BY <1>2, <1>3 DEF RetryHeld

LEMMA CheckpointsStep ==
  ASSUME SessionInv, NEW c \in Boundaries, NEW b, Checkpoints([resume |-> c, blob |-> b])
  PROVE  SessionInv'
<1> USE DEF SessionInv
<1>1. /\ floor' = c /\ rooms' = rooms \cup {"checkpoint"}
      /\ UNCHANGED <<programVars, mode, manifest, handoffs, thawed, retrying, draining, pipe, outs,
                     armed, held, was_held, open_streams, reaped, taken, kept_waiting>>
  BY DEF Checkpoints
<1>2. LogStep /\ exited' = exited /\ (mode # "Live" => UNCHANGED recordLogVars)
  BY CheckpointLog DEF Checkpoints
<1>3. Streams' = Streams /\ Chunks' = Chunks
  BY <1>2, SameStreams
<1>4. Typed'
  <2>1. floor' \in Cursor
    BY <1>1, BoundaryTypes
  <2>2. rooms' \subseteq {"checkpoint", "timer"}
    BY <1>1 DEF Typed
  <2> QED BY <1>1, <1>3, <2>1, <2>2 DEF Typed, programVars
<1>5. SeenFine'
  BY <1>1, <1>2, SeenKept DEF programVars
<1>6. HeldFine' /\ LetGoEmpty' /\ Counted' /\ ReapedDead' /\ KeptWaitingKnown' /\ ManifestReaped'
  BY <1>1, <1>2, <1>3 DEF HeldFine, LetGoEmpty, Counted, ReapedDead, KeptWaitingKnown,
     ManifestReaped, programVars
<1>7. ManifestStaysTrue'
  BY <1>1, <1>2 DEF ManifestStaysTrue, Holding, recordLogVars
<1>8. PipedLosesNothingUnthawed'
  BY <1>1, <1>2, <1>3 DEF PipedLosesNothingUnthawed, PipedLosesNothing, LogStep, programVars
<1> QED BY <1>2, <1>4, <1>5, <1>6, <1>7, <1>8 DEF LogStep

LEMMA ResizeStep ==
  ASSUME SessionInv, Resize
  PROVE  SessionInv'
<1> USE DEF SessionInv
<1>1. /\ mode = "Live"
      /\ UNCHANGED <<programVars, handoffVars, timerVars, pipe, outs, armed, held, was_held,
                     open_streams, reaped, taken, kept_waiting>>
  BY DEF Resize
<1>2. LogStep /\ exited' = exited /\ ~exited
  BY AppendKeptLog DEF Resize, LogTypes
<1>3. Streams' = Streams /\ Chunks' = Chunks
  BY <1>2, SameStreams
<1>4. Typed'
  BY <1>1, <1>3 DEF Typed, programVars, handoffVars, timerVars
<1>5. SeenFine'
  BY <1>1, <1>2, SeenKept DEF programVars
<1>6. HeldFine' /\ LetGoEmpty' /\ Counted' /\ ReapedDead' /\ KeptWaitingKnown' /\ ManifestReaped'
      /\ ManifestStaysTrue' /\ PipedLosesNothingUnthawed'
  BY <1>1, <1>2, <1>3 DEF HeldFine, LetGoEmpty, Counted, ReapedDead, KeptWaitingKnown,
     ManifestReaped, ManifestStaysTrue, PipedLosesNothingUnthawed, PipedLosesNothing,
     programVars, handoffVars, timerVars
<1> QED BY <1>2, <1>4, <1>5, <1>6 DEF LogStep

LEMMA FreezeStep ==
  ASSUME SessionInv, Freeze
  PROVE  SessionInv'
<1> USE DEF SessionInv
<1>1. /\ mode = "Live" /\ Holding = {} /\ handoffs < MaxHandoffs
      /\ mode' = "Frozen" /\ handoffs' = handoffs + 1
      /\ manifest' = [open_streams |-> open_streams, outs |-> outs, reaped |-> reaped,
                      head |-> SettledHead, retain_from |-> retain_from, exited |-> exited]
      /\ kept_waiting' = KeptFrom(outs)
      /\ UNCHANGED <<programVars, timerVars, pipe, outs, armed, held, was_held, open_streams,
                     reaped, taken, thawed, ignored>>
  BY DEF Freeze, MayFreeze
<1>2. LogStep /\ exited' = exited /\ lost' = 0 /\ head' = SettledHead /\ retain_from' = retain_from
  BY SettleGapLog DEF Freeze
<1>3. Streams' = Streams /\ Chunks' = Chunks
  BY <1>2, SameStreams
<1>4. Typed'
  <2>1. kept_waiting' \subseteq Streams
    BY <1>1, HoldingType DEF KeptFrom, Typed
  <2>2. handoffs' \in 0..MaxHandoffs /\ mode' \in {"Live", "Frozen"}
    BY <1>1, StreamsAssumption DEF Typed
  <2>3. manifest'.open_streams \in 0..255 /\ manifest'.outs \subseteq Streams
    BY <1>1, HoldingType DEF Typed
  <2> QED BY <1>1, <1>3, <2>1, <2>2, <2>3 DEF Typed, programVars, timerVars
<1>5. SeenFine'
  BY <1>1, <1>2, SeenKept DEF programVars
<1>6. HeldFine' /\ LetGoEmpty' /\ Counted' /\ ReapedDead' /\ KeptWaitingKnown'
  BY <1>1, <1>2, <1>3 DEF HeldFine, LetGoEmpty, Counted, ReapedDead, KeptWaitingKnown,
     programVars, timerVars
<1>9. ManifestReaped'
  <2>1. manifest'.reaped = reaped /\ reaped' = reaped /\ reaped \in BOOLEAN
    BY <1>1 DEF Typed
  <2> QED BY <2>1 DEF ManifestReaped
<1>7. ManifestStaysTrue'
  BY <1>1, <1>2 DEF ManifestStaysTrue, Holding
<1>8. PipedLosesNothingUnthawed'
  BY <1>1, <1>2, <1>3 DEF PipedLosesNothingUnthawed, PipedLosesNothing, LogStep, programVars
<1> QED BY <1>2, <1>4, <1>5, <1>6, <1>7, <1>8, <1>9 DEF LogStep

LEMMA ThawStep ==
  ASSUME SessionInv, Thaw
  PROVE  SessionInv'
<1> USE DEF SessionInv
<1>1. /\ mode = "Frozen" /\ mode' = "Live" /\ thawed' = TRUE
      /\ armed' = armed \cup Rearmed /\ manifest' = NoManifest
      /\ UNCHANGED <<handoffs, ignored, programVars, timerVars, pipe, outs, held, was_held,
                     open_streams, reaped, taken, kept_waiting>>
  BY DEF Thaw
<1>2. LogStep /\ exited' = (exited \/ (open_streams = 0 /\ reaped))
  BY FinishLog DEF Thaw, Typed
<1>3. Streams' = Streams /\ Chunks' = Chunks
  BY <1>2, SameStreams
<1>4. Typed'
  <2>1. armed' \subseteq outs' /\ outs' \subseteq Streams
    BY <1>1, HoldingType DEF Rearmed
  <2>2. mode' \in {"Live", "Frozen"}
    BY <1>1
  <2>3. manifest'.open_streams \in 0..255 /\ manifest'.outs \subseteq Streams
    BY <1>1 DEF NoManifest
  <2> QED BY <1>1, <1>3, <2>1, <2>2, <2>3 DEF Typed, programVars, timerVars
<1>5. SeenFine'
  BY <1>1, <1>2, SeenKept DEF programVars
<1>6. HeldFine' /\ LetGoEmpty' /\ Counted' /\ ReapedDead' /\ KeptWaitingKnown' /\ ManifestReaped'
      /\ ManifestStaysTrue' /\ PipedLosesNothingUnthawed'
  BY <1>1, <1>2, <1>3 DEF HeldFine, LetGoEmpty, Counted, ReapedDead, KeptWaitingKnown,
     ManifestReaped, ManifestStaysTrue, PipedLosesNothingUnthawed, programVars, timerVars
<1> QED BY <1>2, <1>4, <1>5, <1>6 DEF LogStep
LEMMA AdoptsStep ==
  ASSUME SessionInv, Adopts
  PROVE  SessionInv'
<1> USE DEF SessionInv
<1>1. /\ mode = "Frozen" /\ mode' = "Live"
      /\ outs' = (IF manifest.open_streams = 0 THEN {} ELSE manifest.outs)
      /\ armed' = outs' /\ open_streams' = manifest.open_streams
      /\ held' = [s \in Streams |-> 0] /\ was_held' = FALSE
      /\ reaped' = manifest.reaped /\ draining' = (manifest.reaped /\ ~exited)
      /\ retrying' = FALSE /\ rooms' = {} /\ kept_waiting' = {}
      /\ floor' = (IF newest = None THEN Start ELSE newest.resume)
      /\ manifest' = NoManifest
      /\ UNCHANGED <<handoffs, thawed, programVars, pipe, taken>>
  BY DEF Adopts
<1>2. /\ Holding = {} /\ manifest.open_streams = open_streams /\ manifest.outs = outs
      /\ manifest.reaped => reaped
  BY <1>1 DEF ManifestStaysTrue, ManifestReaped
<1>a. manifest.reaped \in BOOLEAN
  BY <1>1 DEF ManifestReaped
<1>3. LogStep /\ exited' = (exited \/ (open_streams = 0 /\ manifest.reaped))
  BY <1>2, <1>a, FinishLog DEF Adopts
<1>4. Streams' = Streams /\ Chunks' = Chunks
  BY <1>3, SameStreams
<1>5. \A s \in Streams : held[s] = 0
  BY <1>2 DEF HeldFine, Holding
<1>6. open_streams = 0 /\ ~exited => outs = {}
  <2>1. ~exited => open_streams = Cardinality(outs)
    BY DEF Counted
  <2>2. Cardinality(outs) = 0 => outs = {}
    BY StreamsFacts, FS_EmptySet
  <2> QED BY <2>1, <2>2
<1>7. outs' \subseteq outs /\ (~exited => outs' = outs)
  BY <1>1, <1>2, <1>6
<1>8. Typed'
  <2>1. outs' \subseteq Streams /\ armed' \subseteq outs' /\ open_streams' \in 0..255
    BY <1>1, <1>2, <1>7, HoldingType DEF Typed
  <2>2. held' \in [Streams -> Chunks \cup {0}]
    BY <1>1
  <2>3. floor' \in Cursor
    BY <1>1 DEF LogTypes, Start, Cursor
  <2>4. manifest'.open_streams \in 0..255 /\ manifest'.outs \subseteq Streams
    BY <1>1 DEF NoManifest
  <2>5. was_held' \in BOOLEAN /\ reaped' \in BOOLEAN /\ draining' \in BOOLEAN /\ retrying' \in BOOLEAN
    BY <1>1, <1>a
  <2>6. rooms' \subseteq {"checkpoint", "timer"} /\ kept_waiting' \subseteq Streams
        /\ mode' \in {"Live", "Frozen"}
    BY <1>1
  <2>7. UNCHANGED <<alive, writers, written, owed, pipe, taken, handoffs>>
    BY <1>1 DEF programVars
  <2> QED BY <1>4, <2>1, <2>2, <2>3, <2>4, <2>5, <2>6, <2>7 DEF Typed
<1>9. SeenFine'
  <2>1. SUFFICES ASSUME NEW s \in Streams PROVE Good(Seen(s)', written'[s], Whole')
    BY <1>4 DEF SeenFine
  <2>2. Seen(s)' = Seen(s)
    BY <1>1, <1>5 DEF Seen, Chunk
  <2> QED BY <1>1, <1>3, <2>2, KeepsSeen DEF programVars
<1>10. HeldFine' /\ LetGoEmpty' /\ Counted'
  BY <1>1, <1>2, <1>3, <1>4, <1>7 DEF HeldFine, LetGoEmpty, Counted
<1>11. ReapedDead' /\ KeptWaitingKnown' /\ ManifestStaysTrue' /\ ManifestReaped'
  BY <1>1, <1>2, <1>3 DEF ReapedDead, KeptWaitingKnown, ManifestStaysTrue, ManifestReaped,
     programVars
<1>12. PipedLosesNothingUnthawed'
  <2>1. SUFFICES ASSUME ~thawed', overflow' = "Block", exited'
                 PROVE  \A s \in Streams : \A n \in 1..owed[s] : \E i \in DOMAIN taken[s] : taken[s][i] = n
    BY <1>1, <1>4 DEF PipedLosesNothingUnthawed, PipedLosesNothing, programVars
  <2>2. ~thawed /\ overflow = "Block"
    BY <1>1, <1>3, <2>1 DEF LogStep
  <2>3. CASE exited
    BY <2>2, <2>3 DEF PipedLosesNothingUnthawed, PipedLosesNothing
  <2>4. CASE ~exited
    BY <1>3, <1>6, <2>1, <2>2, <2>4, ExitWithNoneLeft
  <2> QED BY <2>3, <2>4
<1> QED BY <1>3, <1>8, <1>9, <1>10, <1>11, <1>12 DEF LogStep

-----------------------------------------------------------------------------
LEMMA InitInv == SessionInit => SessionInv
<1> SUFFICES ASSUME SessionInit PROVE SessionInv
  OBVIOUS
<1>1. LogTypes /\ ~exited /\ overflow \in Policies
  <2>1. /\ overflow \in Policies /\ head = Start /\ retain_from = Start /\ newest = None
        /\ run = <<>> /\ lost = 0 /\ exited = FALSE
    BY DEF SessionInit, LogInit
  <2>2. Start \in Cursor /\ run \in Seq(Entry)
    BY <2>1 DEF Start, Cursor
  <2> QED BY <2>1, <2>2 DEF LogTypes
<1>2. /\ IsFiniteSet(Streams) /\ Cardinality(Streams) \in 0..255
      /\ \A s \in Streams : MaxChunks[s] \in Nat
  <2>1. /\ IsFiniteSet(Streams) /\ Cardinality(Streams) <= 255
        /\ \A s \in Streams : MaxChunks[s] \in Nat
    BY <1>1, StreamsAssumption DEF Streams
  <2>2. Cardinality(Streams) \in Nat
    BY <2>1, FS_CardinalityType
  <2> QED BY <2>1, <2>2
<1>3. /\ written = [s \in Streams |-> 0] /\ owed = written /\ held = written
      /\ pipe = [s \in Streams |-> <<>>] /\ taken = pipe
      /\ outs = Streams /\ armed = Streams /\ open_streams = Cardinality(Streams)
      /\ mode = "Live" /\ handoffs = 0 /\ manifest = NoManifest /\ rooms = {} /\ floor = Start
      /\ kept_waiting = {} /\ alive = TRUE /\ was_held = FALSE /\ reaped = FALSE
      /\ retrying = FALSE /\ draining = FALSE /\ thawed = FALSE
      /\ writers \in [Streams -> SUBSET {"program", "job"}]
  BY DEF SessionInit
<1>4. Typed
  <2>1. /\ written \in [Streams -> Nat] /\ owed \in [Streams -> Nat]
        /\ \A s \in Streams : owed[s] <= written[s] /\ written[s] <= MaxChunks[s]
    BY <1>2, <1>3
  <2>2. pipe \in [Streams -> Seq(Chunks)] /\ taken \in [Streams -> Seq(Chunks)]
        /\ held \in [Streams -> Chunks \cup {0}]
    BY <1>3
  <2>3. floor \in Cursor /\ manifest.open_streams \in 0..255 /\ manifest.outs \subseteq Streams
    BY <1>3 DEF Start, Cursor, NoManifest
  <2>4. handoffs \in 0..MaxHandoffs
    BY <1>3, StreamsAssumption
  <2> QED BY <1>2, <1>3, <2>1, <2>2, <2>3, <2>4 DEF Typed
<1>5. SeenFine
  <2>1. SUFFICES ASSUME NEW s \in Streams PROVE Good(Seen(s), written[s], Whole)
    BY DEF SeenFine
  <2>2. Seen(s) = <<>> /\ written[s] = 0
    BY <1>3 DEF Seen, Chunk
  <2> QED BY <2>2 DEF Good
<1>6. HeldFine /\ LetGoEmpty /\ Counted /\ ReapedDead /\ KeptWaitingKnown /\ ManifestStaysTrue
      /\ ManifestReaped /\ PipedLosesNothingUnthawed
  BY <1>1, <1>3 DEF HeldFine, LetGoEmpty, Counted, ReapedDead, KeptWaitingKnown,
     ManifestStaysTrue, ManifestReaped, PipedLosesNothingUnthawed, PipedLosesNothing
<1> QED BY <1>1, <1>4, <1>5, <1>6 DEF SessionInv

LEMMA NextInv == SessionInv /\ [SessionNext]_sessionVars => SessionInv'
<1> SUFFICES ASSUME SessionInv, [SessionNext]_sessionVars PROVE SessionInv'
  OBVIOUS
<1>1. CASE Outside
  BY <1>1, DiesStep, WritesStep, ClosesStep DEF Outside
<1>2. CASE Hub
  BY <1>2, IgnoresEventStep, StreamEndsStep, ReadsKeptStep, ReadsDroppedStep, ReadsHeldStep,
     ReadsAfterExitStep, RetryTimerStep, ReapedStep, DrainLooksStep, DrainCutsOffStep,
     RetryHeldStep DEF Hub
<1>3. CASE Handoff
  BY <1>3, FreezeStep, ThawStep, AdoptsStep DEF Handoff
<1>4. CASE Resize
  BY <1>4, ResizeStep
<1>5. CASE \E c \in Boundaries, b \in Blobs : Checkpoints([resume |-> c, blob |-> b])
  BY <1>5, CheckpointsStep
<1>6. CASE UNCHANGED sessionVars
  <2>1. UNCHANGED <<recordLogVars, written, pipe, outs, held, taken, open_streams>>
    BY <1>6 DEF sessionVars, programVars
  <2>2. Typed'
    BY <1>6, <2>1, Quiet DEF SessionInv, Typed, sessionVars, programVars, handoffVars, timerVars
  <2>3. HeldFine' /\ ReapedDead' /\ KeptWaitingKnown' /\ ManifestStaysTrue' /\ ManifestReaped'
        /\ PipedLosesNothingUnthawed'
    BY <1>6, <2>1, Quiet DEF SessionInv, sessionVars, programVars, handoffVars, timerVars, HeldFine,
       ReapedDead, KeptWaitingKnown, ManifestStaysTrue, ManifestReaped,
       PipedLosesNothingUnthawed, PipedLosesNothing
  <2> QED BY <2>1, <2>2, <2>3, Quiet DEF SessionInv
<1> QED BY <1>1, <1>2, <1>3, <1>4, <1>5, <1>6 DEF SessionNext

(* What the argument above rests on holds in every state.                  *)
THEOREM SessionInvariant == SessionSpec => []SessionInv
BY InitInv, NextInv, PTL DEF SessionSpec

(* Every variable stays in its type, and until the exit is recorded the u8 *)
(* that counts the streams is their number: it never wraps, and is zero    *)
(* exactly when the session has none left.                                 *)
THEOREM SessionTypes == SessionSpec => []TypeOK
<1>1. SessionInv => TypeOK
  BY DEF SessionInv, TypeOK
<1> QED BY <1>1, SessionInvariant, PTL

(* For any amount of output on any streams: what the log took, what is     *)
(* held and what the pipe has left stay in order through retries, freezes, *)
(* thaws and adoptions, and of a piped agent none of it goes missing.      *)
THEOREM NothingIsMislaid == SessionSpec => []NothingMislaid
<1>1. ASSUME SessionInv PROVE NothingMislaid
  <2>1. SUFFICES ASSUME NEW s \in Streams
                 PROVE  /\ \A i, j \in 1..Len(Seen(s)) : i < j => Seen(s)[i] < Seen(s)[j]
                        /\ overflow = "Block" /\ ~exited => Len(Seen(s)) = written[s]
    BY DEF NothingMislaid, Seen
  <2>2. Good(Seen(s), written[s], Whole)
    BY <1>1, SeenParts
  <2> QED BY <2>2 DEF Good, Whole
<1> QED BY <1>1, SessionInvariant, PTL

(* However long a full log held its output back, a piped agent's exit is   *)
(* recorded after all it wrote, where no handoff was called off.           *)
THEOREM PipedOutputIsKept == SessionSpec => []PipedLosesNothingUnthawed
<1>1. SessionInv => PipedLosesNothingUnthawed
  BY DEF SessionInv
<1> QED BY <1>1, SessionInvariant, PTL

(* A frozen session stays as its manifest says, for any streams.           *)
THEOREM ManifestHolds == SessionSpec => []ManifestStaysTrue
<1>1. SessionInv => ManifestStaysTrue
  BY DEF SessionInv
<1> QED BY <1>1, SessionInvariant, PTL
=============================================================================
