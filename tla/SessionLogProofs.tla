-------------------------- MODULE SessionLogProofs --------------------------
(***************************************************************************)
(* Proofs about SessionLog, for every budget, every overflow policy and    *)
(* every pattern of disk failures: the run of records held stays           *)
(* contiguous up to head, the records behind a stored checkpoint are never *)
(* gone, the limits on memory and disk are kept, a batch is the start of   *)
(* what an attach would return, and the log implements RecordLog, under    *)
(* the mapping of the run to the spool followed by the ring.               *)
(*                                                                         *)
(* The argument: making room only moves records from the ring's front to   *)
(* the spool's end, which leaves the run as it was (SpillsKeepHeld), or    *)
(* trims, which drops a prefix of the run that the new retain_from         *)
(* includes, whatever the disk does (TrimsDropPrefix); appending adds one  *)
(* record at head.  The limits rest on sums over the records held, which   *)
(* are defined by recursion: that they exist and add up is shown by        *)
(* induction, from the least number they could fail at (LeastExists).      *)
(***************************************************************************)
EXTENDS SessionLog, SequenceTheorems, WellFoundedInduction, TLAPS

(* The run a store holds.                                                  *)
HeldOf(st) == st.spool \o st.ring

IsStore(st) ==
  /\ st.ring \in Seq(Entry) /\ st.spool \in Seq(Entry) /\ st.torn \in BOOLEAN

-----------------------------------------------------------------------------
(* Dropping the front of a sequence.                                       *)

LEMMA DropFirstProperties ==
  ASSUME NEW S, NEW s \in Seq(S), NEW k \in 0..Len(s)
  PROVE  /\ DropFirst(s, k) \in Seq(S)
         /\ Len(DropFirst(s, k)) = Len(s) - k
         /\ \A i \in 1..(Len(s) - k) : DropFirst(s, k)[i] = s[i + k]
BY DEF DropFirst

LEMMA TakeProperties ==
  ASSUME NEW S, NEW r \in Seq(S), NEW k \in 0..Len(r)
  PROVE  /\ SubSeq(r, 1, k) \in Seq(S)
         /\ Len(SubSeq(r, 1, k)) = k
         /\ \A i \in 1..k : SubSeq(r, 1, k)[i] = r[i]
OBVIOUS

LEMMA SplitAndJoin ==
  ASSUME NEW S, NEW s \in Seq(S), NEW r \in Seq(S), NEW k \in 0..Len(r)
  PROVE  (s \o SubSeq(r, 1, k)) \o DropFirst(r, k) = s \o r
<1>1. SubSeq(r, 1, k) \in Seq(S) /\ DropFirst(r, k) \in Seq(S)
  BY TakeProperties, DropFirstProperties
<1>2. SubSeq(r, 1, k) \o DropFirst(r, k) = r
  <2>1. 1 \in 1..(Len(r) + 1) /\ k \in 1 - 1..Len(r) /\ Len(r) \in k..Len(r)
    OBVIOUS
  <2>2. SubSeq(r, 1, k) \o SubSeq(r, k + 1, Len(r)) = SubSeq(r, 1, Len(r))
    BY <2>1, ConcatAdjacentSubSeq, Zenon
  <2> QED  BY <2>2, SubSeqFull DEF DropFirst
<1>3. (s \o SubSeq(r, 1, k)) \o DropFirst(r, k) = s \o (SubSeq(r, 1, k) \o DropFirst(r, k))
  <2> DEFINE a == SubSeq(r, 1, k)
             b == DropFirst(r, k)
  <2>1. a \in Seq(S) /\ b \in Seq(S)
    BY <1>1
  <2> HIDE DEF a, b
  <2>2. (s \o a) \o b = s \o (a \o b)
    BY <2>1, ConcatAssociative, SMT
  <2> QED  BY <2>2 DEF a, b
<1> QED  BY <1>2, <1>3

LEMMA DropOfConcat ==
  ASSUME NEW S, NEW s \in Seq(S), NEW r \in Seq(S), NEW k \in 0..Len(s)
  PROVE  DropFirst(s, k) \o r = DropFirst(s \o r, k)
<1> DEFINE a == DropFirst(s, k)
           w == s \o r
           b == DropFirst(w, k)
<1>1. a \in Seq(S) /\ Len(a) = Len(s) - k /\ \A i \in 1..(Len(s) - k) : a[i] = s[i + k]
  BY DropFirstProperties
<1>2. /\ w \in Seq(S) /\ Len(w) = Len(s) + Len(r)
      /\ \A i \in 1..Len(s) + Len(r) : w[i] = IF i <= Len(s) THEN s[i] ELSE r[i - Len(s)]
  BY SMT
<1>3. k \in 0..Len(w)
  <2> HIDE DEF w
  <2> QED  BY <1>2, SMT
<1>4. b \in Seq(S) /\ Len(b) = Len(w) - k /\ \A i \in 1..(Len(w) - k) : b[i] = w[i + k]
  BY <1>2, <1>3, DropFirstProperties
<1>a. a \in Seq(S)
  BY <1>1
<1> HIDE DEF a, b, w
<1>5. a \o r \in Seq(S) /\ Len(a \o r) = Len(b)
  <2>1. a \o r \in Seq(S) /\ Len(a \o r) = Len(a) + Len(r)
    BY <1>a, SMT
  <2>2. Len(b) = Len(s) + Len(r) - k /\ Len(a) = Len(s) - k
    <3>1. Len(b) = Len(w) - k /\ Len(w) = Len(s) + Len(r) /\ Len(a) = Len(s) - k
      BY <1>1, <1>2, <1>4, Zenon
    <3> QED  BY <3>1, SMT
  <2>3. Len(a) + Len(r) = Len(b)
    BY <2>2, Len(s) \in Nat, Len(r) \in Nat, SMT
  <2> QED  BY <2>1, <2>3
<1>6. ASSUME NEW i \in 1..Len(a \o r) PROVE (a \o r)[i] = b[i]
  <2>1. (a \o r)[i] = IF i <= Len(s) - k THEN a[i] ELSE r[i - (Len(s) - k)]
    BY <1>1, <1>5, SMT
  <2>2. b[i] = w[i + k] /\ i + k \in 1..Len(s) + Len(r)
    BY <1>2, <1>4, <1>5, SMT
  <2>3. CASE i <= Len(s) - k
    BY <2>1, <2>2, <2>3, <1>1, <1>2, SMT
  <2>4. CASE ~(i <= Len(s) - k)
    BY <2>1, <2>2, <2>4, <1>1, <1>2, SMT
  <2> QED  BY <2>3, <2>4
<1>7. a \o r = b
  <2> DEFINE v == a \o r
  <2> HIDE DEF v
  <2>1. v \in Seq(S) /\ Len(v) = Len(b) /\ \A i \in 1..Len(v) : v[i] = b[i]
    BY <1>5, <1>6 DEF v
  <2>2. v = b
    BY <1>4, <2>1, SeqEqual, Zenon
  <2> QED  BY <2>2 DEF v
<1> QED  BY <1>7 DEF a, b, w

LEMMA DropPastConcat ==
  ASSUME NEW S, NEW s \in Seq(S), NEW r \in Seq(S), NEW k \in 0..Len(r)
  PROVE  /\ Len(s) + k \in 0..Len(s \o r)
         /\ DropFirst(r, k) = DropFirst(s \o r, Len(s) + k)
<1> DEFINE a == DropFirst(r, k)
           w == s \o r
           b == DropFirst(w, Len(s) + k)
<1>1. a \in Seq(S) /\ Len(a) = Len(r) - k /\ \A i \in 1..(Len(r) - k) : a[i] = r[i + k]
  BY DropFirstProperties
<1>2. /\ w \in Seq(S) /\ Len(w) = Len(s) + Len(r)
      /\ \A i \in 1..Len(s) + Len(r) : w[i] = IF i <= Len(s) THEN s[i] ELSE r[i - Len(s)]
  BY SMT
<1>3. Len(s) + k \in 0..Len(w)
  <2> HIDE DEF w
  <2> QED  BY <1>2, SMT
<1>4. b \in Seq(S) /\ Len(b) = Len(r) - k
      /\ \A i \in 1..(Len(r) - k) : b[i] = w[i + (Len(s) + k)]
  <2> DEFINE n == Len(s) + k
  <2> HIDE DEF n, w
  <2>1. /\ DropFirst(w, n) \in Seq(S) /\ Len(DropFirst(w, n)) = Len(w) - n
        /\ \A i \in 1..(Len(w) - n) : DropFirst(w, n)[i] = w[i + n]
    BY <1>2, <1>3, DropFirstProperties, Zenon DEF n
  <2>2. Len(w) - n = Len(r) - k
    BY <1>2, SMT DEF n
  <2> QED  BY <2>1, <2>2 DEF n
<1> HIDE DEF a, b, w
<1>5. ASSUME NEW i \in 1..Len(a) PROVE a[i] = b[i]
  <2>1. a[i] = r[i + k] /\ i \in 1..(Len(r) - k)
    <3>1. i \in 1..(Len(r) - k)
      BY <1>1
    <3> QED  BY <1>1, <3>1
  <2>2. b[i] = w[i + (Len(s) + k)]
    BY <1>4, <2>1, Zenon
  <2>3. /\ i + (Len(s) + k) \in 1..Len(s) + Len(r)
        /\ ~(i + (Len(s) + k) <= Len(s))
        /\ i + (Len(s) + k) - Len(s) = i + k
    BY <2>1, Len(s) \in Nat, Len(r) \in Nat, SMT
  <2>4. w[i + (Len(s) + k)] = r[i + k]
    <3> DEFINE j == i + (Len(s) + k)
    <3>1. j \in 1..Len(s) + Len(r) /\ ~(j <= Len(s)) /\ j - Len(s) = i + k
      BY <2>3
    <3> HIDE DEF j
    <3>2. w[j] = IF j <= Len(s) THEN s[j] ELSE r[j - Len(s)]
      BY <1>2, <3>1, Zenon
    <3>3. w[j] = r[j - Len(s)]
      BY <3>1, <3>2, Zenon
    <3>4. w[j] = r[i + k]
      BY <3>1, <3>3, Zenon
    <3> QED  BY <3>4 DEF j
  <2> QED  BY <2>1, <2>2, <2>4
<1>6. a = b
  BY <1>1, <1>4, <1>5, SeqEqual, SMT
<1> QED  BY <1>3, <1>6 DEF a, b, w

LEMMA ConcatAppend ==
  ASSUME NEW S, NEW s \in Seq(S), NEW r \in Seq(S), NEW e \in S
  PROVE  s \o Append(r, e) = Append(s \o r, e)
BY SMT

-----------------------------------------------------------------------------
(* Making room keeps the run, or drops a prefix that is behind the cursor. *)

Ordered(s) == \A i, j \in 1..Len(s) : i < j => s[i].rseq < s[j].rseq

(* s is old without a prefix of records that c includes.                   *)
DropsTo(old, s, c) ==
  \E d \in 0..Len(old) : /\ s = DropFirst(old, d)
                         /\ \A i \in 1..d : Includes(c, old[i])

LEMMA MovedKeepsHeld ==
  ASSUME NEW st, IsStore(st), NEW k \in 0..Len(st.ring), NEW t \in BOOLEAN, NEW w
  PROVE  IsStore(Moved(st, k, t, w)) /\ HeldOf(Moved(st, k, t, w)) = HeldOf(st)
<1>1. SubSeq(st.ring, 1, k) \in Seq(Entry) /\ DropFirst(st.ring, k) \in Seq(Entry)
  BY TakeProperties, DropFirstProperties DEF IsStore
<1>2. st.spool \o SubSeq(st.ring, 1, k) \in Seq(Entry)
  BY <1>1, ConcatProperties DEF IsStore
<1>3. (st.spool \o SubSeq(st.ring, 1, k)) \o DropFirst(st.ring, k) = st.spool \o st.ring
  BY SplitAndJoin DEF IsStore
<1>4. /\ Moved(st, k, t, w).ring = DropFirst(st.ring, k)
      /\ Moved(st, k, t, w).spool = st.spool \o SubSeq(st.ring, 1, k)
      /\ Moved(st, k, t, w).torn = t
  <2> DEFINE a == st.spool \o SubSeq(st.ring, 1, k)
             d == DropFirst(st.ring, k)
             u == st.used + SpoolBytes(a) - SpoolBytes(st.spool)
  <2>1. Moved(st, k, t, w) = Store(d, a, t, u, w)
    BY Zenon DEF Moved
  <2> HIDE DEF a, d, u
  <2>2. /\ Moved(st, k, t, w).ring = d
        /\ Moved(st, k, t, w).spool = a
        /\ Moved(st, k, t, w).torn = t
    BY <2>1, SMT DEF Store
  <2> QED  BY <2>2 DEF a, d
<1> QED  BY <1>1, <1>2, <1>3, <1>4 DEF IsStore, HeldOf

LEMMA SpillsKeepHeld ==
  ASSUME NEW st, IsStore(st), NEW cost, NEW o \in Spills(st, cost)
  PROVE  IsStore(o) /\ HeldOf(o) = HeldOf(st)
<1>1. PICK k \in 0..Len(st.ring) : o \in SpillsAt(st, k, cost)
  BY DEF Spills
<1>2. \E t \in BOOLEAN : \E w : o = Moved(st, k, t, w)
  <2>1. CASE ~OverBudget(DropFirst(st.ring, k), cost)
    <3>1. o = Moved(st, k, st.torn, "room")
      BY <1>1, <2>1 DEF SpillsAt
    <3> QED  BY <3>1 DEF IsStore
  <2>2. CASE /\ OverBudget(DropFirst(st.ring, k), cost)
             /\ ~Fits(st, st.spool \o SubSeq(st.ring, 1, k + 1))
    <3>1. o = Moved(st, k, st.torn, "full")
      BY <1>1, <2>2 DEF SpillsAt
    <3> QED  BY <3>1 DEF IsStore
  <2>3. CASE /\ OverBudget(DropFirst(st.ring, k), cost)
             /\ Fits(st, st.spool \o SubSeq(st.ring, 1, k + 1))
    <3>1. PICK t \in BOOLEAN : o = Moved(st, k, t, "failed")
      BY <1>1, <2>3 DEF SpillsAt
    <3> QED  BY <3>1
  <2> QED  BY <2>1, <2>2, <2>3
<1> QED  BY <1>2, MovedKeepsHeld

LEMMA DropFirstNone ==
  ASSUME NEW S, NEW s \in Seq(S)
  PROVE  DropFirst(s, 0) = s
BY SubSeqFull, SMT DEF DropFirst

LEMMA ConcatPointwise ==
  ASSUME NEW S, NEW s \in Seq(S), NEW r \in Seq(S)
  PROVE  /\ s \o r \in Seq(S) /\ Len(s \o r) = Len(s) + Len(r)
         /\ \A i \in 1..Len(s) : (s \o r)[i] = s[i]
         /\ \A i \in 1..Len(r) : (s \o r)[Len(s) + i] = r[i]
BY SMT

LEMMA RingDropsOnlyAfterSpool ==
  ASSUME NEW s \in Seq(Entry), NEW r \in Seq(Entry), Ordered(s \o r),
         NEW c \in Cursor, NEW j \in 0..Len(s), NEW k \in 0..Len(r),
         Leads(s, c, j), Leads(r, c, k), k > 0
  PROVE  j = Len(s)
<1> SUFFICES ASSUME j < Len(s) PROVE FALSE
  BY SMT
<1>1. ~(s[j + 1].rseq < c.rseq) /\ r[1].rseq < c.rseq
  BY SMT DEF Leads, Includes
<1>2. (s \o r)[j + 1] = s[j + 1] /\ (s \o r)[Len(s) + 1] = r[1]
  BY SMT
<1>3. j + 1 \in 1..Len(s \o r) /\ Len(s) + 1 \in 1..Len(s \o r) /\ j + 1 < Len(s) + 1
  BY SMT
<1>4. (s \o r)[j + 1].rseq < (s \o r)[Len(s) + 1].rseq
  BY <1>3, Zenon DEF Ordered
<1>5. s[j + 1] \in Entry /\ r[1] \in Entry
  BY SMT
<1>6. s[j + 1].rseq < r[1].rseq
  BY <1>2, <1>4
<1>7. s[j + 1].rseq \in Nat /\ r[1].rseq \in Nat /\ c.rseq \in Nat
  BY <1>5 DEF Entry, Cursor
<1> HIDE DEF Ordered
<1> QED  BY <1>1, <1>6, <1>7, SMT

LEMMA DropBehindOfConcat ==
  ASSUME NEW s \in Seq(Entry), NEW r \in Seq(Entry), Ordered(s \o r),
         NEW c \in Cursor, NEW j \in 0..Len(s), NEW k \in 0..Len(r),
         Leads(s, c, j), Leads(r, c, k)
  PROVE  DropsTo(s \o r, DropFirst(s, j) \o DropFirst(r, k), c)
<1>0. s \o r \in Seq(Entry) /\ Len(s \o r) = Len(s) + Len(r)
  BY ConcatPointwise
<1>1. CASE k = 0
  <2>1. DropFirst(r, k) = r
    BY <1>1, DropFirstNone
  <2>2. DropFirst(s, j) \o r = DropFirst(s \o r, j)
    BY DropOfConcat
  <2>3. j \in 0..Len(s \o r)
    BY <1>0, SMT
  <2>4. \A i \in 1..j : Includes(c, (s \o r)[i])
    <3>1. \A i \in 1..j : (s \o r)[i] = s[i]
      BY SMT
    <3> QED  BY <3>1 DEF Leads
  <2> QED  BY <2>1, <2>2, <2>3, <2>4 DEF DropsTo
<1>2. CASE k > 0
  <2>1. j = Len(s)
    BY <1>2, RingDropsOnlyAfterSpool
  <2>2. DropFirst(s, j) = <<>>
    BY <2>1, SMT DEF DropFirst
  <2>3. DropFirst(r, k) \in Seq(Entry)
    BY DropFirstProperties
  <2>4. DropFirst(s, j) \o DropFirst(r, k) = DropFirst(r, k)
    BY <2>2, <2>3, ConcatEmptySeq
  <2>5. /\ Len(s) + k \in 0..Len(s \o r)
        /\ DropFirst(r, k) = DropFirst(s \o r, Len(s) + k)
    BY DropPastConcat
  <2>6. ASSUME NEW i \in 1..(Len(s) + k) PROVE Includes(c, (s \o r)[i])
    <3>1. CASE i <= Len(s)
      <4>1. i \in 1..j /\ (s \o r)[i] = s[i]
        BY <2>1, <3>1, SMT
      <4> QED  BY <4>1 DEF Leads
    <3>2. CASE i > Len(s)
      <4>1. i - Len(s) \in 1..k /\ (s \o r)[i] = r[i - Len(s)]
        BY <3>2, SMT
      <4> QED  BY <4>1 DEF Leads
    <3> QED  BY <3>1, <3>2, SMT
  <2> QED  BY <2>4, <2>5, <2>6 DEF DropsTo
<1> QED  BY <1>1, <1>2, SMT

LEMMA TrimsAtShapes ==
  ASSUME NEW st, IsStore(st), NEW k, NEW j, NEW o \in TrimsAt(st, k, j)
  PROVE  \/ \E w : o = Trimmed(st, k, j, w)
         \/ \E t \in BOOLEAN : o = Untrimmed(st, k, t) /\ j # Len(st.spool)
<1>1. CASE ~IoFails \/ j = 0
  <2>1. o = Trimmed(st, k, j, "room")
    BY <1>1 DEF TrimsAt
  <2> QED  BY <2>1
<1>2. CASE IoFails /\ j # 0 /\ j = Len(st.spool)
  <2>1. o = Trimmed(st, k, j, "room") \/ o = Trimmed(st, k, j, "failed")
    BY <1>2 DEF TrimsAt
  <2> QED  BY <2>1
<1>3. CASE IoFails /\ j # 0 /\ j # Len(st.spool)
  <2>1. \/ o = Trimmed(st, k, j, "room")
        \/ \E t \in BOOLEAN : o = Untrimmed(st, k, t)
    BY <1>3 DEF TrimsAt
  <2> QED  BY <2>1, <1>3
<1> QED  BY <1>1, <1>2, <1>3, BudgetAssumption

LEMMA TrimsDropPrefix ==
  ASSUME NEW st, IsStore(st), Ordered(HeldOf(st)), NEW c \in Cursor,
         NEW o \in Trims(st, c)
  PROVE  IsStore(o) /\ DropsTo(HeldOf(st), HeldOf(o), c)
<1>1. PICK k \in 0..Len(st.ring), j \in 0..Len(st.spool) :
        Leads(st.ring, c, k) /\ Leads(st.spool, c, j) /\ o \in TrimsAt(st, k, j)
  BY DEF Trims
<1>2. /\ st.ring \in Seq(Entry) /\ st.spool \in Seq(Entry) /\ st.torn \in BOOLEAN
      /\ DropFirst(st.ring, k) \in Seq(Entry) /\ DropFirst(st.spool, j) \in Seq(Entry)
  BY DropFirstProperties DEF IsStore
<1>3. ASSUME NEW w, o = Trimmed(st, k, j, w)
      PROVE  IsStore(o) /\ DropsTo(HeldOf(st), HeldOf(o), c)
  <2>1. /\ o.ring = DropFirst(st.ring, k) /\ o.spool = DropFirst(st.spool, j)
        /\ o.torn = IF j = 0 THEN st.torn ELSE FALSE
    <3> DEFINE u == st.used + SpoolBytes(DropFirst(st.spool, j)) - SpoolBytes(st.spool)
               v == IF j = 0 THEN st.torn ELSE FALSE
    <3>1. o = Store(DropFirst(st.ring, k), DropFirst(st.spool, j), v, u, w)
      BY <1>3, Zenon DEF Trimmed
    <3> HIDE DEF u, v
    <3>2. o.ring = DropFirst(st.ring, k) /\ o.spool = DropFirst(st.spool, j) /\ o.torn = v
      BY <3>1, SMT DEF Store
    <3> QED  BY <3>2 DEF v
  <2>2. DropsTo(HeldOf(st), DropFirst(st.spool, j) \o DropFirst(st.ring, k), c)
    BY <1>1, <1>2, DropBehindOfConcat DEF HeldOf
  <2> QED  BY <1>2, <2>1, <2>2 DEF IsStore, HeldOf
<1>4. ASSUME NEW t \in BOOLEAN, o = Untrimmed(st, k, t), j # Len(st.spool)
      PROVE  IsStore(o) /\ DropsTo(HeldOf(st), HeldOf(o), c)
  <2>1. o.ring = DropFirst(st.ring, k) /\ o.spool = st.spool /\ o.torn = t
    BY <1>4, SMT DEF Untrimmed, Store
  <2>2. k = 0
    BY <1>1, <1>2, <1>4, RingDropsOnlyAfterSpool, SMT DEF HeldOf
  <2>3. DropFirst(st.ring, k) = st.ring
    BY <1>2, <2>2, DropFirstNone
  <2>4. HeldOf(o) = HeldOf(st) /\ HeldOf(st) \in Seq(Entry)
    BY <1>2, <2>1, <2>3, ConcatProperties DEF HeldOf
  <2>5. DropFirst(HeldOf(st), 0) = HeldOf(st) /\ 0 \in 0..Len(HeldOf(st))
    BY <2>4, DropFirstNone, LenProperties, SMT
  <2>6. DropsTo(HeldOf(st), HeldOf(o), c)
    BY <2>4, <2>5, SMT DEF DropsTo
  <2> QED  BY <1>2, <2>1, <2>3, <2>6 DEF IsStore
<1> QED  BY <1>1, <1>3, <1>4, TrimsAtShapes

-----------------------------------------------------------------------------
(* The inductive invariant.  IsRun says of each record where it starts from *)
(* the record before it; counting back from head instead gives every record *)
(* its number outright, so that no step needs an induction.                 *)

Anchored(s, h) ==
  \A i \in 1..Len(s) :
    /\ s[i].rseq = h.rseq - Len(s) + (i - 1)
    /\ After(s[i]) = IF i = Len(s) THEN h ELSE Before(s[i + 1])

IsBoundary(c, s, h) == c = h \/ \E i \in 1..Len(s) : c = Before(s[i])

(* A run s up to h with the bases recovery may start from: each is a record *)
(* boundary still held, and the fallback's is what is retained.             *)
Good(s, h, retain, new, fall) ==
  /\ Anchored(s, h)
  /\ IsBoundary(retain, s, h)
  /\ new = None => retain = Start
  /\ new # None => IsBoundary(new.resume, s, h) /\ retain.rseq <= new.resume.rseq
  /\ fall # None => fall.resume = retain

LogInv == TypeOK /\ Good(Held, head, retain_from, newest, fallback)

LEMMA BeforeAfterType ==
  ASSUME NEW e \in Entry
  PROVE  /\ Before(e) \in Cursor /\ After(e) \in Cursor
         /\ e.rseq \in Nat /\ e.off \in Nat /\ e.len \in Nat
         /\ Before(e).rseq = e.rseq /\ Before(e).off = e.off
         /\ After(e).rseq = e.rseq + 1 /\ After(e).off = e.off + e.len
BY DEF Entry, Cursor, Before, After

LEMMA AnchoredOrdered ==
  ASSUME NEW s \in Seq(Entry), NEW h \in Cursor, Anchored(s, h)
  PROVE  Ordered(s)
<1> SUFFICES ASSUME NEW i \in 1..Len(s), NEW j \in 1..Len(s), i < j
             PROVE  s[i].rseq < s[j].rseq
  BY DEF Ordered
<1>1. s[i].rseq = h.rseq - Len(s) + (i - 1) /\ s[j].rseq = h.rseq - Len(s) + (j - 1)
  BY DEF Anchored
<1>2. h.rseq \in Nat /\ Len(s) \in Nat
  BY DEF Cursor
<1> QED  BY <1>1, <1>2, SMT

LEMMA AnchoredRun ==
  ASSUME NEW s \in Seq(Entry), NEW h \in Cursor, Anchored(s, h)
  PROVE  IsRun(IF s = <<>> THEN h ELSE Before(s[1]), s, h)
<1> DEFINE c == IF s = <<>> THEN h ELSE Before(s[1])
<1>1. h.rseq \in Nat /\ Len(s) \in Nat
  BY DEF Cursor
<1>2. CASE s = <<>>
  BY <1>2 DEF IsRun
<1>3. CASE s # <<>>
  <2>1. c = Before(s[1]) /\ 1 \in 1..Len(s) /\ Len(s) \in 1..Len(s) /\ s[1] \in Entry
    BY <1>3, SMT
  <2> HIDE DEF c
  <2>2. c.rseq = s[1].rseq /\ c.off = s[1].off
    BY <2>1, BeforeAfterType
  <2>3. s[1].rseq = h.rseq - Len(s)
    BY <2>1, <1>1, SMT DEF Anchored
  <2>4. ASSUME NEW i \in 1..Len(s)
        PROVE  /\ s[i].rseq = c.rseq + (i - 1)
               /\ s[i].off = IF i = 1 THEN c.off ELSE s[i - 1].off + s[i - 1].len
    <3>1. s[i].rseq = c.rseq + (i - 1)
      BY <2>2, <2>3, <1>1, SMT DEF Anchored
    <3>2. CASE i = 1
      BY <3>1, <3>2, <2>2
    <3>3. CASE i # 1
      <4>1. i - 1 \in 1..Len(s) /\ i - 1 # Len(s) /\ (i - 1) + 1 = i
        BY <3>3, <1>1, SMT
      <4>2. After(s[i - 1]) = Before(s[i])
        <5>1. After(s[i - 1]) = Before(s[(i - 1) + 1])
          BY <4>1, Zenon DEF Anchored
        <5> QED  BY <5>1, <4>1
      <4>3. s[i] \in Entry /\ s[i - 1] \in Entry
        BY <4>1
      <4>4. s[i].off = s[i - 1].off + s[i - 1].len
        BY <4>2, <4>3, BeforeAfterType
      <4> QED  BY <3>1, <3>3, <4>4
    <3> QED  BY <3>2, <3>3
  <2>5. h = After(s[Len(s)])
    BY <2>1, Zenon DEF Anchored
  <2>6. IsRun(c, s, h)
    BY <2>4, <2>5, <1>3 DEF IsRun
  <2> QED  BY <2>6 DEF c
<1> QED  BY <1>2, <1>3

LEMMA AnchoredDrop ==
  ASSUME NEW s \in Seq(Entry), NEW h \in Cursor, Anchored(s, h), NEW d \in 0..Len(s)
  PROVE  Anchored(DropFirst(s, d), h)
<1> DEFINE t == DropFirst(s, d)
<1>1. t \in Seq(Entry) /\ Len(t) = Len(s) - d /\ \A i \in 1..(Len(s) - d) : t[i] = s[i + d]
  BY DropFirstProperties
<1>2. h.rseq \in Nat /\ Len(s) \in Nat
  BY DEF Cursor
<1> HIDE DEF t
<1> SUFFICES ASSUME NEW i \in 1..Len(t)
             PROVE  /\ t[i].rseq = h.rseq - Len(t) + (i - 1)
                    /\ After(t[i]) = IF i = Len(t) THEN h ELSE Before(t[i + 1])
  BY Zenon DEF Anchored, t
<1>3. i + d \in 1..Len(s) /\ t[i] = s[i + d]
  BY <1>1, <1>2, SMT
<1>4. /\ s[i + d].rseq = h.rseq - Len(s) + ((i + d) - 1)
      /\ After(s[i + d]) = IF i + d = Len(s) THEN h ELSE Before(s[(i + d) + 1])
  BY <1>3, Zenon DEF Anchored
<1>5. t[i].rseq = h.rseq - Len(t) + (i - 1)
  BY <1>1, <1>2, <1>3, <1>4, SMT
<1>6. CASE i = Len(t)
  <2>1. i + d = Len(s)
    BY <1>6, <1>1, <1>2, SMT
  <2> QED  BY <1>3, <1>4, <1>5, <1>6, <2>1, Zenon
<1>7. CASE i # Len(t)
  <2> DEFINE n == Len(s)
  <2>n. Len(t) = n - d /\ n \in Nat
    BY <1>1, <1>2
  <2> HIDE DEF n
  <2>a. i \in 1..(n - d) /\ i # n - d
    BY <1>7, <2>n
  <2>b. d \in 0..n
    BY DEF n
  <2>c. i + d # n /\ i + 1 \in 1..(n - d) /\ (i + 1) + d = (i + d) + 1
    BY <2>a, <2>b, <2>n, SMT
  <2>1. i + d # Len(s) /\ i + 1 \in 1..(Len(s) - d) /\ (i + 1) + d = (i + d) + 1
    BY <2>c DEF n
  <2>2. t[i + 1] = s[(i + d) + 1]
    <3>1. t[i + 1] = s[(i + 1) + d]
      BY <1>1, <2>1, Zenon
    <3> QED  BY <3>1, <2>1, Zenon
  <2> QED  BY <1>3, <1>4, <1>5, <1>7, <2>1, <2>2, Zenon
<1> QED  BY <1>6, <1>7

LEMMA AnchoredPush ==
  ASSUME NEW s \in Seq(Entry), NEW h \in Cursor, Anchored(s, h),
         NEW e \in Entry, Before(e) = h
  PROVE  Anchored(Append(s, e), After(e))
<1> DEFINE t == Append(s, e)
<1>1. /\ t \in Seq(Entry) /\ Len(t) = Len(s) + 1 /\ t[Len(s) + 1] = e
      /\ \A i \in 1..Len(s) : t[i] = s[i]
  BY AppendProperties
<1>2. h.rseq \in Nat /\ Len(s) \in Nat
  BY DEF Cursor
<1>3. After(e).rseq = h.rseq + 1 /\ e.rseq = h.rseq
  BY BeforeAfterType
<1> HIDE DEF t
<1> SUFFICES ASSUME NEW i \in 1..Len(t)
             PROVE  /\ t[i].rseq = After(e).rseq - Len(t) + (i - 1)
                    /\ After(t[i]) = IF i = Len(t) THEN After(e) ELSE Before(t[i + 1])
  BY Zenon DEF Anchored, t
<1>4. CASE i = Len(t)
  <2>1. t[i] = e
    BY <1>1, <1>4
  <2>2. t[i].rseq = After(e).rseq - Len(t) + (i - 1)
    BY <2>1, <1>1, <1>2, <1>3, <1>4, SMT
  <2> QED  BY <2>1, <2>2, <1>4, Zenon
<1>5. CASE i # Len(t)
  <2>1. i \in 1..Len(s) /\ t[i] = s[i]
    BY <1>1, <1>2, <1>5, SMT
  <2>2. s[i].rseq = h.rseq - Len(s) + (i - 1)
    BY <2>1, Zenon DEF Anchored
  <2>3. t[i].rseq = After(e).rseq - Len(t) + (i - 1)
    BY <2>1, <2>2, <1>1, <1>2, <1>3, SMT
  <2>4. After(s[i]) = Before(t[i + 1])
    <3>1. CASE i = Len(s)
      <4>1. After(s[i]) = h
        BY <2>1, <3>1, Zenon DEF Anchored
      <4> QED  BY <4>1, <3>1, <1>1, Zenon
    <3>2. CASE i # Len(s)
      <4>1. After(s[i]) = Before(s[i + 1])
        BY <2>1, <3>2, Zenon DEF Anchored
      <4>2. i + 1 \in 1..Len(s)
        BY <2>1, <3>2, <1>2, SMT
      <4> QED  BY <4>1, <4>2, <1>1, Zenon
    <3> QED  BY <3>1, <3>2
  <2> QED  BY <2>1, <2>3, <2>4, <1>5, Zenon
<1> QED  BY <1>4, <1>5

LEMMA BoundaryDrop ==
  ASSUME NEW s \in Seq(Entry), NEW h \in Cursor, NEW b \in Cursor, IsBoundary(b, s, h),
         NEW c \in Cursor, c.rseq <= b.rseq, NEW t, DropsTo(s, t, c)
  PROVE  IsBoundary(b, t, h)
<1>1. PICK d \in 0..Len(s) : t = DropFirst(s, d) /\ \A i \in 1..d : Includes(c, s[i])
  BY DEF DropsTo
<1>2. t \in Seq(Entry) /\ Len(t) = Len(s) - d /\ \A i \in 1..(Len(s) - d) : t[i] = s[i + d]
  BY <1>1, DropFirstProperties
<1>3. CASE b = h
  BY <1>3 DEF IsBoundary
<1>4. CASE b # h
  <2>1. PICK i \in 1..Len(s) : b = Before(s[i])
    BY <1>4 DEF IsBoundary
  <2>2. s[i] \in Entry
    OBVIOUS
  <2>3. b.rseq = s[i].rseq
    BY <2>1, <2>2, BeforeAfterType
  <2>4. ~(i \in 1..d)
    <3> SUFFICES ASSUME i \in 1..d PROVE FALSE
      OBVIOUS
    <3>1. s[i].rseq < c.rseq
      BY <1>1 DEF Includes
    <3>2. c.rseq \in Nat /\ b.rseq \in Nat
      BY DEF Cursor
    <3> QED  BY <3>1, <3>2, <2>3, SMT
  <2>5. i - d \in 1..(Len(s) - d) /\ (i - d) + d = i
    BY <2>4, Len(s) \in Nat, SMT
  <2>6. t[i - d] = s[i]
    BY <1>2, <2>5, Zenon
  <2>7. i - d \in 1..Len(t) /\ b = Before(t[i - d])
    BY <1>2, <2>1, <2>5, <2>6, Zenon
  <2> QED  BY <2>7, Zenon DEF IsBoundary
<1> QED  BY <1>3, <1>4

LEMMA BoundaryPush ==
  ASSUME NEW s \in Seq(Entry), NEW h \in Cursor, NEW b, IsBoundary(b, s, h),
         NEW e \in Entry, Before(e) = h
  PROVE  IsBoundary(b, Append(s, e), After(e))
<1> DEFINE t == Append(s, e)
<1>1. /\ t \in Seq(Entry) /\ Len(t) = Len(s) + 1 /\ t[Len(s) + 1] = e
      /\ \A i \in 1..Len(s) : t[i] = s[i]
  BY AppendProperties
<1>2. Len(s) \in Nat
  OBVIOUS
<1> HIDE DEF t
<1>3. CASE b = h
  <2>1. Len(s) + 1 \in 1..Len(t) /\ b = Before(t[Len(s) + 1])
    BY <1>1, <1>2, <1>3
  <2> QED  BY <2>1, Zenon DEF IsBoundary, t
<1>4. CASE b # h
  <2>1. PICK i \in 1..Len(s) : b = Before(s[i])
    BY <1>4 DEF IsBoundary
  <2>2. i \in 1..Len(t) /\ t[i] = s[i]
    BY <1>1, <1>2, <2>1, SMT
  <2>3. i \in 1..Len(t) /\ b = Before(t[i])
    BY <2>1, <2>2, Zenon
  <2> QED  BY <2>3, Zenon DEF IsBoundary, t
<1> QED  BY <1>3, <1>4

(* One record appended at head keeps the run and everything recovery needs. *)
LEMMA GoodPush ==
  ASSUME NEW s \in Seq(Entry), NEW h \in Cursor, NEW rf, NEW nw, NEW fb,
         Good(s, h, rf, nw, fb), NEW e \in Entry, Before(e) = h
  PROVE  Good(Append(s, e), After(e), rf, nw, fb)
<1>1. Anchored(Append(s, e), After(e))
  BY AnchoredPush DEF Good
<1>2. IsBoundary(rf, Append(s, e), After(e))
  BY BoundaryPush DEF Good
<1>3. ASSUME nw # None PROVE IsBoundary(nw.resume, Append(s, e), After(e))
  BY <1>3, BoundaryPush DEF Good
<1> QED  BY <1>1, <1>2, <1>3 DEF Good

(* Dropping what the new retain_from includes does too.                     *)
LEMMA GoodDrop ==
  ASSUME NEW s \in Seq(Entry), NEW h \in Cursor,
         NEW rf \in Cursor, NEW nw \in Checkpoint \cup {None}, NEW fb,
         Good(s, h, rf, nw, fb), NEW t, DropsTo(s, t, rf)
  PROVE  t \in Seq(Entry) /\ Good(t, h, rf, nw, fb)
<1>1. PICK d \in 0..Len(s) : t = DropFirst(s, d)
  BY DEF DropsTo
<1>2. t \in Seq(Entry) /\ Anchored(t, h)
  BY <1>1, AnchoredDrop, DropFirstProperties DEF Good
<1>3. rf.rseq <= rf.rseq
  BY DEF Cursor
<1>4. IsBoundary(rf, t, h)
  BY <1>3, BoundaryDrop DEF Good
<1>5. ASSUME nw # None PROVE IsBoundary(nw.resume, t, h)
  <2>1. nw.resume \in Cursor
    BY <1>5 DEF Checkpoint
  <2> QED  BY <1>5, <2>1, BoundaryDrop DEF Good
<1> QED  BY <1>2, <1>4, <1>5 DEF Good

-----------------------------------------------------------------------------
(* make_room, in every way it may end.                                      *)

LEMMA NowIsStore ==
  ASSUME TypeOK
  PROVE  IsStore(Now) /\ HeldOf(Now) = Held
<1>1. Now.ring = ring /\ Now.spool = spool /\ Now.torn = torn
  BY SMT DEF Now, Store
<1> QED  BY <1>1 DEF IsStore, HeldOf, Held, TypeOK

LEMMA HeldType ==
  ASSUME TypeOK
  PROVE  Held \in Seq(Entry)
BY ConcatProperties DEF TypeOK, Held

LEMMA RoomsKeepingKeep ==
  ASSUME TypeOK, NEW cost, NEW m \in RoomsKeeping(cost)
  PROVE  IsStore(m) /\ HeldOf(m) = Held
<1>1. m \in Spills(Now, cost)
  BY DEF RoomsKeeping
<1> QED  BY <1>1, NowIsStore, SpillsKeepHeld

LEMMA RoomsGivingUpDrop ==
  ASSUME TypeOK, Ordered(Held), NEW cost, NEW m \in RoomsGivingUp(cost)
  PROVE  /\ CanGiveUp
         /\ IsStore(m) /\ DropsTo(Held, HeldOf(m), newest.resume)
<1>0. PICK f \in Spills(Now, cost) :
        /\ f.went = "full" /\ CanGiveUp
        /\ \E o \in Trims(f, newest.resume) :
             m \in (IF o.went = "room" THEN Spills(o, cost) ELSE {o})
  BY Zenon DEF RoomsGivingUp
<1>1. PICK o \in Trims(f, newest.resume) :
        m \in (IF o.went = "room" THEN Spills(o, cost) ELSE {o})
  BY <1>0
<1>2. newest.resume \in Cursor
  BY <1>0 DEF CanGiveUp, TypeOK, Checkpoint
<1>3. IsStore(f) /\ HeldOf(f) = Held
  BY NowIsStore, SpillsKeepHeld
<1>4. IsStore(o) /\ DropsTo(Held, HeldOf(o), newest.resume)
  <2>1. Ordered(HeldOf(f))
    BY <1>3
  <2> QED  BY <2>1, <1>1, <1>2, <1>3, TrimsDropPrefix
<1>5. CASE o.went = "room"
  <2>1. m \in Spills(o, cost)
    BY <1>1, <1>5
  <2>2. IsStore(m) /\ HeldOf(m) = HeldOf(o)
    BY <2>1, <1>4, SpillsKeepHeld
  <2> QED  BY <1>0, <1>4, <2>2
<1>6. CASE o.went # "room"
  <2>1. m = o
    BY <1>1, <1>6
  <2> QED  BY <1>0, <1>4, <2>1
<1> QED  BY <1>5, <1>6

(* What make_room leaves still supports every recovery base that is left.   *)
LEMMA MakeRoomKeepsGood ==
  ASSUME LogInv, NEW cost, NEW m, MakeRoom(cost, m)
  PROVE  /\ IsStore(m)
         /\ Good(HeldOf(m), head, retain_from', newest, fallback')
         /\ retain_from' \in Cursor /\ fallback' \in Checkpoint \cup {None}
         /\ retain_from'.rseq >= retain_from.rseq
<1>1. TypeOK /\ Good(Held, head, retain_from, newest, fallback) /\ Held \in Seq(Entry)
  BY HeldType DEF LogInv
<1>2. head \in Cursor /\ retain_from \in Cursor /\ retain_from.rseq \in Nat
  BY <1>1 DEF TypeOK, Cursor
<1>3. Ordered(Held)
  BY <1>1, <1>2, AnchoredOrdered DEF Good
<1>4. CASE m \in RoomsKeeping(cost) /\ UNCHANGED <<retain_from, fallback>>
  <2>1. IsStore(m) /\ HeldOf(m) = Held
    BY <1>1, <1>4, RoomsKeepingKeep
  <2>2. retain_from' = retain_from /\ fallback' = fallback
    BY <1>4
  <2>3. retain_from.rseq >= retain_from.rseq
    BY <1>2
  <2>4. fallback \in Checkpoint \cup {None}
    BY <1>1 DEF TypeOK
  <2> QED  BY <2>1, <2>2, <2>3, <2>4, <1>1, <1>2
<1>5. CASE m \in RoomsGivingUp(cost) /\ retain_from' = newest.resume /\ fallback' = None
  <2>1. CanGiveUp /\ IsStore(m) /\ DropsTo(Held, HeldOf(m), newest.resume)
    BY <1>1, <1>3, <1>5, RoomsGivingUpDrop
  <2>2. newest \in Checkpoint /\ newest # None /\ newest.resume \in Cursor
    BY <2>1, <1>1 DEF CanGiveUp, TypeOK, Checkpoint
  <2>3. newest.resume.rseq \in Nat /\ newest.resume.rseq > retain_from.rseq
    BY <2>1, <2>2 DEF CanGiveUp, Cursor
  <2>4. newest.resume.rseq <= newest.resume.rseq /\ newest.resume.rseq >= retain_from.rseq
    BY <2>3, <1>2, SMT
  <2>5. Good(Held, head, newest.resume, newest, None)
    BY <1>1, <2>2, <2>4 DEF Good
  <2>6. Good(HeldOf(m), head, newest.resume, newest, None)
    BY <1>1, <1>2, <2>1, <2>2, <2>5, GoodDrop
  <2> QED  BY <1>5, <2>1, <2>2, <2>4, <2>6
<1> QED  BY <1>4, <1>5 DEF MakeRoom

-----------------------------------------------------------------------------
(* Appending, and what a step keeps of the invariant.                       *)

LEMMA GapType ==
  ASSUME TypeOK
  PROVE  /\ Gap \in Entry /\ Before(Gap) = head
         /\ After(Gap).off = head.off + lost /\ After(Gap).rseq = head.rseq + 1
<1>1. head \in [rseq : Nat, off : Nat] /\ lost \in Nat
  BY DEF TypeOK, Cursor
<1>2. head.rseq \in Nat /\ head.off \in Nat /\ head = [rseq |-> head.rseq, off |-> head.off]
  BY <1>1
<1>3. Gap \in Entry
  BY <1>1, <1>2 DEF Gap, Entry
<1> QED  BY <1>1, <1>2, <1>3 DEF Gap, Before, After

LEMMA SettledKeepsGood ==
  ASSUME TypeOK, NEW s \in Seq(Entry), NEW r \in Seq(Entry), NEW rf, NEW nw, NEW fb,
         Good(s \o r, head, rf, nw, fb)
  PROVE  /\ Settled(r) \in Seq(Entry) /\ SettledHead \in Cursor
         /\ Good(s \o Settled(r), SettledHead, rf, nw, fb)
         /\ SettledHead.off = head.off + lost /\ SettledHead.rseq >= head.rseq
<1>1. /\ head \in Cursor /\ head.rseq \in Nat /\ head.off \in Nat /\ lost \in Nat
      /\ s \o r \in Seq(Entry)
  BY ConcatProperties DEF TypeOK, Cursor
<1>2. CASE lost > 0
  <2>1. Settled(r) = Append(r, Gap) /\ SettledHead = After(Gap)
    BY <1>2 DEF Settled, SettledHead
  <2>2. /\ Gap \in Entry /\ Before(Gap) = head
        /\ After(Gap).off = head.off + lost /\ After(Gap).rseq = head.rseq + 1
    BY GapType
  <2>3. After(Gap) \in Cursor
    BY <2>2, BeforeAfterType
  <2>4. Append(r, Gap) \in Seq(Entry) /\ s \o Append(r, Gap) = Append(s \o r, Gap)
    BY <2>2, ConcatAppend, AppendProperties
  <2>5. Good(Append(s \o r, Gap), After(Gap), rf, nw, fb)
    BY <1>1, <2>2, GoodPush
  <2>6. After(Gap).rseq >= head.rseq
    BY <2>2, <1>1
  <2> QED  BY <2>1, <2>2, <2>3, <2>4, <2>5, <2>6
<1>3. CASE ~(lost > 0)
  <2>1. Settled(r) = r /\ SettledHead = head /\ lost = 0
    BY <1>1, <1>3 DEF Settled, SettledHead
  <2>2. head.off = head.off + lost /\ head.rseq >= head.rseq
    BY <2>1, <1>1
  <2> QED  BY <2>1, <2>2, <1>1
<1> QED  BY <1>2, <1>3

LEMMA PushKeepsGood ==
  ASSUME TypeOK, NEW s \in Seq(Entry), NEW r \in Seq(Entry), NEW rf, NEW nw, NEW fb,
         Good(s \o r, head, rf, nw, fb), NEW len \in Nat,
         NEW kind \in {"data", "gap", "resize", "exit"}, Push(r, kind, len)
  PROVE  /\ ring' \in Seq(Entry) /\ head' \in Cursor
         /\ Good(s \o ring', head', rf, nw, fb)
         /\ head'.off = head.off + lost + len /\ lost' = 0
         /\ head'.rseq > head.rseq
<1> DEFINE e == [rseq |-> SettledHead.rseq, off |-> SettledHead.off,
                 kind |-> kind, len |-> len]
<1>1. ring' = Append(Settled(r), e) /\ head' = After(e) /\ lost' = 0
  BY DEF Push
<1>2. /\ Settled(r) \in Seq(Entry) /\ SettledHead \in Cursor
      /\ Good(s \o Settled(r), SettledHead, rf, nw, fb)
      /\ SettledHead.off = head.off + lost /\ SettledHead.rseq >= head.rseq
  BY SettledKeepsGood
<1>3. /\ SettledHead.rseq \in Nat /\ SettledHead.off \in Nat
      /\ SettledHead = [rseq |-> SettledHead.rseq, off |-> SettledHead.off]
  BY <1>2 DEF Cursor
<1>4. e \in Entry /\ Before(e) = SettledHead
  BY <1>3 DEF Entry, Before
<1>5. After(e).rseq = SettledHead.rseq + 1 /\ After(e).off = SettledHead.off + len
  BY DEF After
<1> HIDE DEF e
<1>6. After(e) \in Cursor
  BY <1>4, BeforeAfterType
<1>7. s \o Settled(r) \in Seq(Entry)
  BY <1>2, ConcatProperties
<1>8. Good(Append(s \o Settled(r), e), After(e), rf, nw, fb)
  BY <1>2, <1>4, <1>7, GoodPush
<1>9. ring' \in Seq(Entry) /\ s \o ring' = Append(s \o Settled(r), e)
  BY <1>1, <1>2, <1>4, ConcatAppend, AppendProperties
<1>10. head'.off = head.off + lost + len /\ head'.rseq > head.rseq
  <2>1. head.rseq \in Nat /\ head.off \in Nat /\ lost \in Nat
    BY DEF TypeOK, Cursor
  <2> QED  BY <1>1, <1>2, <1>3, <1>5, <2>1, SMT
<1> QED  BY <1>1, <1>6, <1>8, <1>9, <1>10

(* What every step does, whichever it is: the invariant again, and the facts *)
(* the action properties and the accounting rest on.                         *)
LogStep ==
  /\ LogInv'
  /\ produced' - produced = (head'.off + lost') - (head.off + lost)
  /\ head'.rseq > head.rseq => lost' = 0
  /\ exited /\ lost = 0 => head' = head /\ lost' = 0
  /\ exited' /\ ~exited => lost' = 0
  /\ retain_from'.rseq >= retain_from.rseq
  /\ newest # None => newest' # None /\ newest'.resume.rseq >= newest.resume.rseq

LEMMA AppendDataStep ==
  ASSUME LogInv, NEW n \in Nat, AppendData(n)
  PROVE  LogStep
<1> DEFINE cost == 1 + n + IF lost > 0 THEN 1 ELSE 0
<1>1. PICK m : /\ MakeRoom(cost, m)
               /\ \/ /\ m.went = "room"
                     /\ Push(m.ring, "data", n)
                     /\ produced' = produced + n
                  \/ /\ m.went # "room" /\ overflow = "Drop"
                     /\ ring' = m.ring
                     /\ lost' = lost + n
                     /\ produced' = produced + n
                     /\ UNCHANGED head
                  \/ /\ m.went # "room" /\ overflow = "Block"
                     /\ ring' = m.ring
                     /\ UNCHANGED <<head, lost, produced>>
  BY DEF AppendData
<1> HIDE DEF cost
<1>2. /\ IsStore(m) /\ Good(HeldOf(m), head, retain_from', newest, fallback')
      /\ retain_from' \in Cursor /\ fallback' \in Checkpoint \cup {None}
      /\ retain_from'.rseq >= retain_from.rseq
  BY <1>1, MakeRoomKeepsGood
<1>3. /\ spool' = m.spool /\ torn' = m.torn /\ ~exited
      /\ newest' = newest /\ exited' = exited /\ others' = others /\ overflow' = overflow
  BY <1>1 DEF MakeRoom, AppendData
<1>4. /\ TypeOK /\ m.spool \in Seq(Entry) /\ m.ring \in Seq(Entry) /\ m.torn \in BOOLEAN
      /\ Good(m.spool \o m.ring, head, retain_from', newest, fallback')
  BY <1>2 DEF LogInv, IsStore, HeldOf
<1>5. /\ lost \in Nat /\ produced \in Nat /\ head.off \in Nat /\ head.rseq \in Nat
      /\ head \in Cursor /\ newest \in Checkpoint \cup {None} /\ exited \in BOOLEAN
      /\ others \in Nat
  BY <1>4 DEF TypeOK, Cursor
<1>6. newest # None => newest' # None /\ newest'.resume.rseq >= newest.resume.rseq
  <2>1. newest # None => newest.resume.rseq \in Nat
    BY <1>5 DEF Checkpoint, Cursor
  <2> QED  BY <2>1, <1>3
<1>7. CASE Push(m.ring, "data", n) /\ produced' = produced + n
  <2>1. /\ ring' \in Seq(Entry) /\ head' \in Cursor
        /\ Good(m.spool \o ring', head', retain_from', newest, fallback')
        /\ head'.off = head.off + lost + n /\ lost' = 0
        /\ head'.rseq > head.rseq
    BY <1>4, <1>7, PushKeepsGood
  <2>2. produced' \in Nat /\ produced' - produced = (head'.off + lost') - (head.off + lost)
    BY <2>1, <1>5, <1>7, SMT
  <2>3. LogInv'
    BY <2>1, <2>2, <1>2, <1>3, <1>4, <1>5 DEF LogInv, TypeOK, Held
  <2> QED  BY <2>1, <2>2, <2>3, <1>2, <1>3, <1>6 DEF LogStep
<1>8. CASE /\ ring' = m.ring /\ lost' = lost + n
           /\ produced' = produced + n /\ UNCHANGED head
  <2>1. /\ produced' \in Nat /\ lost' \in Nat
        /\ produced' - produced = (head'.off + lost') - (head.off + lost)
        /\ ~(head'.rseq > head.rseq)
    BY <1>5, <1>8, SMT
  <2>2. LogInv'
    BY <2>1, <1>8, <1>2, <1>3, <1>4, <1>5 DEF LogInv, TypeOK, Held
  <2> QED  BY <2>1, <2>2, <1>2, <1>3, <1>6 DEF LogStep
<1>9. CASE ring' = m.ring /\ UNCHANGED <<head, lost, produced>>
  <2>1. /\ produced' - produced = (head'.off + lost') - (head.off + lost)
        /\ ~(head'.rseq > head.rseq)
    BY <1>5, <1>9, SMT
  <2>2. LogInv'
    BY <1>9, <1>2, <1>3, <1>4, <1>5 DEF LogInv, TypeOK, Held
  <2> QED  BY <2>1, <2>2, <1>2, <1>3, <1>6 DEF LogStep
<1> QED  BY <1>1, <1>7, <1>8, <1>9

LEMMA AppendControlStep ==
  ASSUME LogInv, NEW kind \in {"resize", "exit"}, AppendControl(kind)
  PROVE  LogStep
<1>1. PICK m : MakeRoom(1, m) /\ Push(m.ring, kind, 0)
  BY DEF AppendControl
<1>2. /\ IsStore(m) /\ Good(HeldOf(m), head, retain_from', newest, fallback')
      /\ retain_from' \in Cursor /\ fallback' \in Checkpoint \cup {None}
      /\ retain_from'.rseq >= retain_from.rseq
  BY <1>1, MakeRoomKeepsGood
<1>3. /\ spool' = m.spool /\ torn' = m.torn /\ ~exited /\ exited' \in BOOLEAN
      /\ newest' = newest /\ others' = others /\ overflow' = overflow /\ produced' = produced
  BY <1>1 DEF MakeRoom, AppendControl
<1>4. /\ TypeOK /\ m.spool \in Seq(Entry) /\ m.ring \in Seq(Entry) /\ m.torn \in BOOLEAN
      /\ Good(m.spool \o m.ring, head, retain_from', newest, fallback')
  BY <1>2 DEF LogInv, IsStore, HeldOf
<1>5. /\ lost \in Nat /\ produced \in Nat /\ head.off \in Nat
      /\ newest \in Checkpoint \cup {None} /\ others \in Nat
  BY <1>4 DEF TypeOK, Cursor
<1>6. newest # None => newest' # None /\ newest'.resume.rseq >= newest.resume.rseq
  <2>1. newest # None => newest.resume.rseq \in Nat
    BY <1>5 DEF Checkpoint, Cursor
  <2> QED  BY <2>1, <1>3
<1>7. /\ ring' \in Seq(Entry) /\ head' \in Cursor
      /\ Good(m.spool \o ring', head', retain_from', newest, fallback')
      /\ head'.off = head.off + lost + 0 /\ lost' = 0
  BY <1>1, <1>4, PushKeepsGood
<1>8. produced' - produced = (head'.off + lost') - (head.off + lost)
  BY <1>3, <1>5, <1>7, SMT
<1>9. LogInv'
  BY <1>2, <1>3, <1>4, <1>5, <1>7 DEF LogInv, TypeOK, Held
<1> QED  BY <1>2, <1>3, <1>6, <1>7, <1>8, <1>9 DEF LogStep

LEMMA SettleGapStep ==
  ASSUME LogInv, SettleGap, lost > 0
  PROVE  LogStep
<1>1. /\ ring' = Settled(ring) /\ head' = SettledHead /\ lost' = 0
      /\ retain_from' = retain_from /\ newest' = newest /\ fallback' = fallback
      /\ spool' = spool /\ torn' = torn /\ exited' = exited /\ others' = others /\ overflow' = overflow
      /\ produced' = produced
  BY DEF SettleGap
<1>2. /\ TypeOK /\ spool \in Seq(Entry) /\ ring \in Seq(Entry)
      /\ Good(spool \o ring, head, retain_from, newest, fallback)
  BY DEF LogInv, TypeOK, Held
<1>3. /\ Settled(ring) \in Seq(Entry) /\ SettledHead \in Cursor
      /\ Good(spool \o Settled(ring), SettledHead, retain_from, newest, fallback)
      /\ SettledHead.off = head.off + lost
  BY <1>2, SettledKeepsGood
<1>4. /\ lost \in Nat /\ produced \in Nat /\ head.off \in Nat
      /\ newest # None => newest.resume.rseq \in Nat
      /\ retain_from.rseq \in Nat
  BY <1>2 DEF TypeOK, Cursor, Checkpoint
<1>5. produced' - produced = (head'.off + lost') - (head.off + lost)
  BY <1>1, <1>3, <1>4, SMT
<1>6. LogInv'
  BY <1>1, <1>2, <1>3 DEF LogInv, TypeOK, Held
<1> QED  BY <1>1, <1>4, <1>5, <1>6 DEF LogStep

(* A stored checkpoint's cursor is a boundary of the run; the one it        *)
(* replaces, or nothing yet, is what is retained from then on.              *)
LEMMA PutCheckpointStep ==
  ASSUME LogInv, NEW cp \in Checkpoint, PutCheckpoint(cp)
  PROVE  LogStep
<1> DEFINE keep == IF newest = None THEN retain_from ELSE newest.resume
           fall == IF newest = None THEN fallback ELSE newest
<1>1. PICK t \in Trims(Now, keep) : ring' = t.ring /\ spool' = t.spool /\ torn' = t.torn
  BY DEF PutCheckpoint
<1>2. /\ newest' = cp /\ fallback' = fall /\ retain_from' = keep
      /\ head' = head /\ lost' = lost /\ exited' = exited /\ others' = others /\ overflow' = overflow
      /\ produced' = produced
  BY DEF PutCheckpoint
<1>3. newest # None => cp.resume.rseq >= newest.resume.rseq
  BY DEF PutCheckpoint, Acceptable
<1>4. /\ TypeOK /\ Held \in Seq(Entry) /\ Good(Held, head, retain_from, newest, fallback)
      /\ head \in Cursor /\ retain_from \in Cursor
      /\ newest \in Checkpoint \cup {None} /\ fallback \in Checkpoint \cup {None}
      /\ cp.resume \in Cursor /\ cp # None
  BY HeldType, NoneAssumption DEF LogInv, TypeOK, Checkpoint
<1>5. IsBoundary(cp.resume, Held, head)
  <2>1. cp.resume \in Boundaries
    BY DEF PutCheckpoint, Acceptable
  <2> QED  BY <2>1 DEF Boundaries, BoundariesOf, IsBoundary
<1>6. /\ newest # None => newest.resume \in Cursor /\ newest.resume.rseq \in Nat
      /\ retain_from.rseq \in Nat /\ cp.resume.rseq \in Nat
  BY <1>4 DEF Checkpoint, Cursor
<1>7. keep \in Cursor /\ keep.rseq >= retain_from.rseq /\ fall \in Checkpoint \cup {None}
  BY <1>4, <1>6 DEF Good
<1>8. Good(Held, head, keep, cp, fall)
  <2>1. CASE newest = None
    <3>1. keep = retain_from /\ fall = fallback /\ keep = Start
      BY <2>1, <1>4 DEF Good
    <3>2. keep.rseq <= cp.resume.rseq
      BY <3>1, <1>6 DEF Start
    <3> QED  BY <3>1, <3>2, <1>4, <1>5 DEF Good
  <2>2. CASE newest # None
    <3>1. keep = newest.resume /\ fall = newest
      BY <2>2
    <3>2. keep.rseq <= cp.resume.rseq
      BY <3>1, <2>2, <1>3, <1>6
    <3>3. IsBoundary(keep, Held, head) /\ Anchored(Held, head)
      BY <3>1, <2>2, <1>4 DEF Good
    <3> QED  BY <3>1, <3>2, <3>3, <1>4, <1>5 DEF Good
  <2> QED  BY <2>1, <2>2
<1> HIDE DEF keep, fall
<1>9. IsStore(t) /\ DropsTo(Held, HeldOf(t), keep)
  <2>1. IsStore(Now) /\ HeldOf(Now) = Held
    BY <1>4, NowIsStore
  <2>2. Ordered(HeldOf(Now))
    BY <2>1, <1>4, AnchoredOrdered DEF Good
  <2> QED  BY <1>1, <1>7, <2>1, <2>2, TrimsDropPrefix
<1>10. Good(HeldOf(t), head, keep, cp, fall)
  BY <1>4, <1>7, <1>8, <1>9, GoodDrop
<1>11. ring' \in Seq(Entry) /\ spool' \in Seq(Entry) /\ torn' \in BOOLEAN
       /\ Held' = HeldOf(t)
  BY <1>1, <1>9 DEF IsStore, HeldOf, Held
<1>12. LogInv'
  <2>1. TypeOK'
    BY <1>2, <1>4, <1>7, <1>11 DEF TypeOK
  <2>2. Good(Held', head', retain_from', newest', fallback')
    BY <1>2, <1>10, <1>11
  <2> QED  BY <2>1, <2>2 DEF LogInv
<1>13. /\ produced' - produced = (head'.off + lost') - (head.off + lost)
       /\ ~(head'.rseq > head.rseq)
  <2>1. lost \in Nat /\ produced \in Nat /\ head.off \in Nat /\ head.rseq \in Nat
    BY <1>4 DEF TypeOK, Cursor
  <2> QED  BY <1>2, <2>1, SMT
<1> QED  BY <1>2, <1>3, <1>4, <1>7, <1>12, <1>13 DEF LogStep

LEMMA OthersSpoolStep ==
  ASSUME LogInv, NEW n \in Nat, OthersSpool(n)
  PROVE  LogStep
<1>1. /\ overflow' = overflow /\ others' = n /\ head' = head /\ retain_from' = retain_from
      /\ newest' = newest /\ fallback' = fallback /\ ring' = ring /\ spool' = spool
      /\ torn' = torn /\ lost' = lost /\ exited' = exited /\ produced' = produced
  BY DEF OthersSpool
<1>2. /\ lost \in Nat /\ produced \in Nat /\ head.off \in Nat /\ head.rseq \in Nat
      /\ newest # None => newest.resume.rseq \in Nat
      /\ retain_from.rseq \in Nat
  BY DEF LogInv, TypeOK, Cursor, Checkpoint
<1>3. LogInv'
  BY <1>1 DEF LogInv, TypeOK, Held
<1> QED  BY <1>1, <1>2, <1>3, SMT DEF LogStep

LEMMA StutterStep ==
  ASSUME LogInv, UNCHANGED logVars
  PROVE  LogStep
<1>1. /\ others' = others /\ overflow' = overflow /\ head' = head /\ retain_from' = retain_from
      /\ newest' = newest /\ fallback' = fallback /\ ring' = ring /\ spool' = spool
      /\ torn' = torn /\ lost' = lost /\ exited' = exited /\ produced' = produced
  BY DEF logVars
<1>2. /\ lost \in Nat /\ produced \in Nat /\ head.off \in Nat /\ head.rseq \in Nat
      /\ newest # None => newest.resume.rseq \in Nat
      /\ retain_from.rseq \in Nat
  BY DEF LogInv, TypeOK, Cursor, Checkpoint
<1>3. LogInv'
  BY <1>1 DEF LogInv, TypeOK, Held
<1> QED  BY <1>1, <1>2, <1>3, SMT DEF LogStep

LEMMA NextStep ==
  ASSUME LogInv, [LogNext]_logVars
  PROVE  LogStep
<1>1. ASSUME NEW n \in Lens, AppendData(n) PROVE LogStep
  BY <1>1, AppendDataStep, LensAssumption
<1>2. ASSUME NEW kind \in {"resize", "exit"}, AppendControl(kind) PROVE LogStep
  BY <1>2, AppendControlStep
<1>3. ASSUME lost > 0, SettleGap PROVE LogStep
  BY <1>3, SettleGapStep
<1>4. ASSUME NEW c \in Boundaries, NEW b \in Blobs, PutCheckpoint([resume |-> c, blob |-> b])
      PROVE  LogStep
  <2>1. TypeOK /\ Held \in Seq(Entry) /\ head \in Cursor
    BY HeldType DEF LogInv, TypeOK
  <2>2. ASSUME NEW i \in 1..Len(Held) PROVE Before(Held[i]) \in Cursor
    BY <2>1, BeforeAfterType
  <2>3. c \in Cursor
    BY <2>1, <2>2 DEF Boundaries, BoundariesOf
  <2>4. [resume |-> c, blob |-> b] \in Checkpoint
    BY <2>3 DEF Checkpoint
  <2> QED  BY <1>4, <2>4, PutCheckpointStep
<1>5. ASSUME NEW n \in OthersHold, OthersSpool(n) PROVE LogStep
  BY <1>5, OthersSpoolStep, LensAssumption
<1>6. ASSUME UNCHANGED logVars PROVE LogStep
  BY <1>6, StutterStep
<1> QED  BY <1>1, <1>2, <1>3, <1>4, <1>5, <1>6 DEF LogNext

-----------------------------------------------------------------------------
(* What is stored can be recovered from.                                    *)

LEMMA SuffixDrops ==
  ASSUME NEW s, NEW c, NEW k \in 0..Len(s), Len(s) \in Nat, Leads(s, c, k)
  PROVE  Suffix(s, c) = DropFirst(s, k)
<1>1. ASSUME NEW j \in 0..Len(s), Leads(s, c, j) PROVE j = k
  <2>1. CASE j < k
    <3>1. j + 1 \in 1..k /\ j < Len(s)
      BY <2>1, SMT
    <3> QED  BY <3>1, <1>1 DEF Leads
  <2>2. CASE k < j
    <3>1. k + 1 \in 1..j /\ k < Len(s)
      BY <2>2, SMT
    <3> QED  BY <3>1, <1>1 DEF Leads
  <2> QED  BY <2>1, <2>2, SMT
<1>2. (CHOOSE j \in 0..Len(s) : Leads(s, c, j)) = k
  BY <1>1, Zenon
<1> QED  BY <1>2 DEF Suffix

(* A boundary of a run splits both of its halves where it splits the run.   *)
LEMMA BoundarySplits ==
  ASSUME NEW s \in Seq(Entry), NEW r \in Seq(Entry), NEW h \in Cursor, NEW c \in Cursor,
         Anchored(s \o r, h), IsBoundary(c, s \o r, h)
  PROVE  \E n \in 0..Len(s \o r) :
           /\ c.rseq = h.rseq - Len(s \o r) + n
           /\ c = IF n = Len(s \o r) THEN h ELSE Before((s \o r)[n + 1])
           /\ n <= Len(s) => Leads(s, c, n) /\ Leads(r, c, 0)
           /\ n >= Len(s) => Leads(s, c, Len(s)) /\ Leads(r, c, n - Len(s))
<1> DEFINE w == s \o r
<1>1. /\ w \in Seq(Entry) /\ Len(w) = Len(s) + Len(r)
      /\ \A i \in 1..Len(s) : w[i] = s[i]
      /\ \A i \in 1..Len(r) : w[Len(s) + i] = r[i]
  BY ConcatPointwise
<1>2. h.rseq \in Nat /\ c.rseq \in Nat /\ Len(s) \in Nat /\ Len(r) \in Nat /\ Len(w) \in Nat
  BY <1>1 DEF Cursor
<1>3. Anchored(w, h) /\ IsBoundary(c, w, h)
  OBVIOUS
<1> HIDE DEF w
<1>4. \E n \in 0..Len(w) : /\ c.rseq = h.rseq - Len(w) + n
                           /\ c = IF n = Len(w) THEN h ELSE Before(w[n + 1])
  <2>1. CASE c = h
    BY <2>1, <1>2, SMT
  <2>2. CASE c # h
    <3>1. PICK i \in 1..Len(w) : c = Before(w[i])
      BY <1>3, <2>2 DEF IsBoundary
    <3>2. i - 1 \in 0..Len(w) /\ i - 1 # Len(w) /\ (i - 1) + 1 = i
      BY <1>2, SMT
    <3>3. w[i].rseq = h.rseq - Len(w) + (i - 1)
      BY <1>3, Zenon DEF Anchored
    <3>4. c.rseq = h.rseq - Len(w) + (i - 1)
      <4>1. w[i] \in Entry
        BY <1>1
      <4> QED  BY <4>1, <3>1, <3>3, BeforeAfterType
    <3> QED  BY <3>1, <3>2, <3>4
  <2> QED  BY <2>1, <2>2
<1>5. PICK n \in 0..Len(w) : /\ c.rseq = h.rseq - Len(w) + n
                             /\ c = IF n = Len(w) THEN h ELSE Before(w[n + 1])
  BY <1>4
<1>6. ASSUME NEW i \in 1..Len(w) PROVE Includes(c, w[i]) <=> i <= n
  <2>1. w[i].rseq = h.rseq - Len(w) + (i - 1)
    BY <1>3, Zenon DEF Anchored
  <2> QED  BY <2>1, <1>2, <1>5, SMT DEF Includes
<1>7. ASSUME NEW i \in 1..Len(s) PROVE Includes(c, s[i]) <=> i <= n
  <2>1. i \in 1..Len(w) /\ w[i] = s[i]
    BY <1>1, <1>2, SMT
  <2> QED  BY <2>1, <1>6
<1>8. ASSUME NEW i \in 1..Len(r) PROVE Includes(c, r[i]) <=> Len(s) + i <= n
  <2> DEFINE j == Len(s) + i
  <2>1. j \in 1..Len(w) /\ w[j] = r[i]
    BY <1>1, <1>2, SMT
  <2> HIDE DEF j
  <2>2. Includes(c, w[j]) <=> j <= n
    BY <2>1, <1>6
  <2> QED  BY <2>1, <2>2 DEF j
<1>9. ASSUME n <= Len(s) PROVE Leads(s, c, n) /\ Leads(r, c, 0)
  <2>1. Leads(s, c, n)
    <3>1. \A i \in 1..n : i \in 1..Len(s) /\ i <= n
      BY <1>9, <1>2, SMT
    <3>2. n < Len(s) => n + 1 \in 1..Len(s) /\ ~(n + 1 <= n)
      BY <1>2, SMT
    <3> QED  BY <3>1, <3>2, <1>7, Zenon DEF Leads
  <2>2. Leads(r, c, 0)
    <3>1. 0 < Len(r) => 0 + 1 \in 1..Len(r) /\ ~(Len(s) + (0 + 1) <= n)
      BY <1>9, <1>2, SMT
    <3>2. \A i \in 1..0 : FALSE
      OBVIOUS
    <3> QED  BY <3>1, <3>2, <1>8, Zenon DEF Leads
  <2> QED  BY <2>1, <2>2
<1>10. ASSUME n >= Len(s) PROVE Leads(s, c, Len(s)) /\ Leads(r, c, n - Len(s))
  <2>1. Leads(s, c, Len(s))
    <3>1. \A i \in 1..Len(s) : i <= n
      BY <1>10, <1>2, SMT
    <3>2. ~(Len(s) < Len(s))
      BY <1>2
    <3> QED  BY <3>1, <3>2, <1>7, Zenon DEF Leads
  <2>2. Leads(r, c, n - Len(s))
    <3>1. \A i \in 1..(n - Len(s)) : i \in 1..Len(r) /\ Len(s) + i <= n
      BY <1>10, <1>1, <1>2, SMT
    <3>2. n - Len(s) < Len(r) =>
            /\ (n - Len(s)) + 1 \in 1..Len(r) /\ ~(Len(s) + ((n - Len(s)) + 1) <= n)
      BY <1>10, <1>2, SMT
    <3> QED  BY <3>1, <3>2, <1>8, Zenon DEF Leads
  <2> QED  BY <2>1, <2>2
<1> QED  BY <1>5, <1>9, <1>10, Zenon DEF w

(* Where boundary c splits the run: n records of it lie before c.           *)
SplitAt(c, n) ==
  /\ n \in 0..Len(Held)
  /\ c.rseq = head.rseq - Len(Held) + n
  /\ c = IF n = Len(Held) THEN head ELSE Before(Held[n + 1])
  /\ n <= Len(spool) => Leads(spool, c, n) /\ Leads(ring, c, 0)
  /\ n >= Len(spool) => Leads(spool, c, Len(spool)) /\ Leads(ring, c, n - Len(spool))

LEMMA HeldParts ==
  ASSUME TypeOK
  PROVE  /\ Held \in Seq(Entry) /\ head \in Cursor /\ spool \in Seq(Entry) /\ ring \in Seq(Entry)
         /\ Held = spool \o ring /\ head.rseq \in Nat
         /\ Len(spool) \in Nat /\ Len(ring) \in Nat
         /\ Len(Held) = Len(spool) + Len(ring) /\ Len(Held) \in Nat
         /\ \A i \in 1..Len(ring) : Held[Len(spool) + i] = ring[i]
<1>1. /\ Held \in Seq(Entry) /\ head \in Cursor /\ spool \in Seq(Entry) /\ ring \in Seq(Entry)
      /\ Held = spool \o ring
      /\ head.rseq \in Nat /\ Len(spool) \in Nat /\ Len(ring) \in Nat
  BY HeldType DEF TypeOK, Cursor, Held
<1> QED  BY <1>1, ConcatPointwise

LEMMA BoundaryIsSplit ==
  ASSUME TypeOK, Anchored(Held, head), NEW c \in Cursor, IsBoundary(c, Held, head)
  PROVE  \E n : SplitAt(c, n)
<1>1. /\ head \in Cursor /\ spool \in Seq(Entry) /\ ring \in Seq(Entry)
      /\ Held = spool \o ring
  BY HeldParts
<1>2. Anchored(spool \o ring, head) /\ IsBoundary(c, spool \o ring, head)
  BY <1>1
<1> QED  BY <1>1, <1>2, BoundarySplits DEF SplitAt

LEMMA ReadFields ==
  ASSUME NEW ok, NEW records
  PROVE  Read(ok, records).ok = ok /\ Read(ok, records).records = records
BY DEF Read

(* What follows a boundary of the run.                                      *)
LEMMA HeldSuffix ==
  ASSUME TypeOK, Anchored(Held, head), NEW c \in Cursor, NEW n, SplitAt(c, n)
  PROVE  Suffix(Held, c) = DropFirst(Held, n)
<1>1. /\ Held \in Seq(Entry) /\ head.rseq \in Nat /\ c.rseq \in Nat /\ Len(Held) \in Nat
      /\ n \in 0..Len(Held) /\ c.rseq = head.rseq - Len(Held) + n
  BY HeldParts DEF Cursor, SplitAt
<1>2. ASSUME NEW i \in 1..Len(Held) PROVE Includes(c, Held[i]) <=> i <= n
  <2>1. Held[i].rseq = head.rseq - Len(Held) + (i - 1)
    BY Zenon DEF Anchored
  <2> QED  BY <1>1, <2>1 DEF Includes
<1>3. Leads(Held, c, n)
  <2>1. \A i \in 1..n : i \in 1..Len(Held) /\ i <= n
    BY <1>1, SMT
  <2>2. n < Len(Held) => n + 1 \in 1..Len(Held) /\ ~(n + 1 <= n)
    BY <1>1, SMT
  <2> QED  BY <1>2, <2>1, <2>2, Zenon DEF Leads
<1> QED  BY <1>1, <1>3, SuffixDrops

(* What an attach at c returns: the spool's part, and the ring's, joined.   *)
LEMMA EntriesAre ==
  ASSUME TypeOK, Anchored(Held, head), NEW c \in Cursor, NEW n, SplitAt(c, n)
  PROVE  /\ EntriesDue(c) \o Suffix(ring, c) = DropFirst(Held, n)
         /\ EntriesDue(c) \in Seq(Entry) /\ Suffix(ring, c) \in Seq(Entry)
<1>1. /\ Held \in Seq(Entry) /\ head \in Cursor /\ spool \in Seq(Entry) /\ ring \in Seq(Entry)
      /\ Held = spool \o ring
      /\ head.rseq \in Nat /\ c.rseq \in Nat /\ Len(spool) \in Nat /\ Len(ring) \in Nat
  BY HeldParts DEF Cursor
<1>2. /\ n \in 0..Len(Held)
      /\ c.rseq = head.rseq - Len(Held) + n
      /\ c = IF n = Len(Held) THEN head ELSE Before(Held[n + 1])
      /\ n <= Len(spool) => Leads(spool, c, n) /\ Leads(ring, c, 0)
      /\ n >= Len(spool) => Leads(spool, c, Len(spool)) /\ Leads(ring, c, n - Len(spool))
  BY DEF SplitAt
<1>3. /\ Len(Held) = Len(spool) + Len(ring) /\ Len(Held) \in Nat
      /\ \A i \in 1..Len(ring) : Held[Len(spool) + i] = ring[i]
  BY HeldParts
<1> DEFINE from == IF ring = <<>> \/ c.rseq < ring[1].rseq THEN Suffix(spool, c) ELSE <<>>
           out == from \o Suffix(ring, c)
<1>4. out = DropFirst(Held, n)
  <2>1. CASE n < Len(spool)
    <3>1. Suffix(spool, c) = DropFirst(spool, n)
      BY <1>1, <1>2, <2>1, SuffixDrops
    <3>2. Suffix(ring, c) = ring
      <4>1. Suffix(ring, c) = DropFirst(ring, 0)
        BY <1>1, <1>2, <2>1, SuffixDrops
      <4> QED  BY <4>1, <1>1, DropFirstNone
    <3>3. ring = <<>> \/ c.rseq < ring[1].rseq
      <4> SUFFICES ASSUME ring # <<>> PROVE c.rseq < ring[1].rseq
        OBVIOUS
      <4>1. 1 \in 1..Len(ring) /\ Len(spool) + 1 \in 1..Len(Held)
        BY <1>1, <1>3
      <4>2. ring[1].rseq = head.rseq - Len(Held) + ((Len(spool) + 1) - 1)
        <5>1. Held[Len(spool) + 1].rseq = head.rseq - Len(Held) + ((Len(spool) + 1) - 1)
          BY <4>1, Zenon DEF Anchored
        <5> QED  BY <5>1, <4>1, <1>3, Zenon
      <4> QED  BY <4>2, <1>1, <1>2, <1>3, <2>1, SMT
    <3>4. out = DropFirst(spool, n) \o ring
      BY <3>1, <3>2, <3>3, Zenon
    <3>5. DropFirst(spool, n) \o ring = DropFirst(spool \o ring, n)
      BY <1>1, <1>2, <2>1, DropOfConcat
    <3> QED  BY <3>4, <3>5, <1>1
  <2>2. CASE n >= Len(spool)
    <3>1. n - Len(spool) \in 0..Len(ring)
      <4>1. n \in 0..(Len(spool) + Len(ring)) /\ Len(spool) \in Nat /\ Len(ring) \in Nat
        BY <1>1, <1>2, <1>3
      <4> QED  BY <2>2, <4>1
    <3>2. Suffix(ring, c) = DropFirst(ring, n - Len(spool))
      BY <1>1, <1>2, <2>2, <3>1, SuffixDrops
    <3>3. from = <<>>
      <4>1. Suffix(spool, c) = DropFirst(spool, Len(spool))
        <5>1. Leads(spool, c, Len(spool))
          BY <1>2, <2>2, Zenon
        <5>2. Len(spool) \in 0..Len(spool) /\ Len(spool) \in Nat
          BY <1>1, SMT
        <5> QED  BY <5>1, <5>2, SuffixDrops, Zenon
      <4>2. DropFirst(spool, Len(spool)) = <<>>
        BY <1>1, SMT DEF DropFirst
      <4> QED  BY <4>1, <4>2
    <3>4. DropFirst(ring, n - Len(spool)) \in Seq(Entry)
      BY <1>1, <3>1, DropFirstProperties
    <3>5. out = DropFirst(ring, n - Len(spool))
      <4>1. out = <<>> \o DropFirst(ring, n - Len(spool))
        BY <3>2, <3>3
      <4> QED  BY <4>1, <3>4, ConcatEmptySeq
    <3>6. DropFirst(ring, n - Len(spool)) = DropFirst(spool \o ring, Len(spool) + (n - Len(spool)))
      BY <1>1, <3>1, DropPastConcat
    <3>7. Len(spool) + (n - Len(spool)) = n
      <4>1. n \in Int /\ Len(spool) \in Int
        BY <1>1, <1>2
      <4> QED  BY <4>1
    <3> QED  BY <3>5, <3>6, <3>7, <1>1
  <2>3. n < Len(spool) \/ n >= Len(spool)
    <3>1. n \in Int /\ Len(spool) \in Int
      BY <1>1, <1>2
    <3> QED  BY <3>1
  <2> QED  BY <2>1, <2>2, <2>3, Zenon
<1>5. from \in Seq(Entry) /\ Suffix(ring, c) \in Seq(Entry)
  <2>1. CASE n < Len(spool)
    <3>1. Suffix(spool, c) = DropFirst(spool, n)
      BY <1>1, <1>2, <2>1, SuffixDrops
    <3>2. Suffix(ring, c) = DropFirst(ring, 0)
      BY <1>1, <1>2, <2>1, SuffixDrops
    <3>3. DropFirst(spool, n) \in Seq(Entry) /\ DropFirst(ring, 0) \in Seq(Entry)
      BY <1>1, <1>2, <2>1, DropFirstProperties
    <3>4. <<>> \in Seq(Entry)
      OBVIOUS
    <3> QED  BY <3>1, <3>2, <3>3, <3>4, Zenon
  <2>2. CASE n >= Len(spool)
    <3>1. n - Len(spool) \in 0..Len(ring)
      <4>1. n \in 0..(Len(spool) + Len(ring)) /\ Len(spool) \in Nat /\ Len(ring) \in Nat
        BY <1>1, <1>2, <1>3
      <4> QED  BY <2>2, <4>1
    <3>2. Len(spool) \in 0..Len(spool)
      BY <1>1, SMT
    <3>3. Suffix(spool, c) = DropFirst(spool, Len(spool))
      BY <1>1, <1>2, <2>2, <3>2, SuffixDrops
    <3>4. Suffix(ring, c) = DropFirst(ring, n - Len(spool))
      BY <1>1, <1>2, <2>2, <3>1, SuffixDrops
    <3>5. DropFirst(spool, Len(spool)) \in Seq(Entry)
      BY <1>1, <3>2, DropFirstProperties
    <3>6. DropFirst(ring, n - Len(spool)) \in Seq(Entry)
      BY <1>1, <3>1, DropFirstProperties
    <3>7. <<>> \in Seq(Entry)
      OBVIOUS
    <3> QED  BY <3>3, <3>4, <3>5, <3>6, <3>7, Zenon
  <2>3. n < Len(spool) \/ n >= Len(spool)
    <3>1. n \in Int /\ Len(spool) \in Int
      BY <1>1, <1>2
    <3> QED  BY <3>1
  <2> QED  BY <2>1, <2>2, <2>3, Zenon
<1> QED  BY <1>4, <1>5 DEF EntriesDue

(* The records after a boundary are a run up to head, within what is held.  *)
LEMMA BoundaryRun ==
  ASSUME TypeOK, Anchored(Held, head), NEW c \in Cursor, NEW n, SplitAt(c, n)
  PROVE  /\ IsRun(c, DropFirst(Held, n), head)
         /\ Oldest.rseq <= c.rseq /\ c.rseq <= head.rseq
<1>1. /\ Held \in Seq(Entry) /\ head \in Cursor
      /\ head.rseq \in Nat /\ c.rseq \in Nat /\ Len(Held) \in Nat
  BY HeldParts DEF Cursor
<1>3. /\ n \in 0..Len(Held)
      /\ c.rseq = head.rseq - Len(Held) + n
      /\ c = IF n = Len(Held) THEN head ELSE Before(Held[n + 1])
  BY DEF SplitAt
<1> DEFINE out == DropFirst(Held, n)
<1>4. out = DropFirst(Held, n)
  OBVIOUS
<1> HIDE DEF out
<1>6. /\ out \in Seq(Entry) /\ Len(out) = Len(Held) - n /\ Anchored(out, head)
      /\ \A i \in 1..(Len(Held) - n) : out[i] = Held[i + n]
  BY <1>1, <1>3, <1>4, AnchoredDrop, DropFirstProperties
<1>7. IsRun(c, out, head)
  <2>1. c = IF out = <<>> THEN head ELSE Before(out[1])
    <3>1. CASE n = Len(Held)
      <4>1. out = <<>>
        BY <1>6, <1>3, <3>1, SMT
      <4> QED  BY <4>1, <1>3, <3>1
    <3>2. CASE n # Len(Held)
      <4>1. 1 \in 1..(Len(Held) - n) /\ 1 + n = n + 1
        BY <1>3, <3>2, SMT
      <4>2. out[1] = Held[n + 1]
        BY <4>1, <1>6, Zenon
      <4>3. out # <<>>
        BY <4>1, <1>6, SMT
      <4> QED  BY <4>2, <4>3, <1>3, <3>2
    <3> QED  BY <3>1, <3>2
  <2> QED  BY <2>1, <1>1, <1>6, AnchoredRun
<1>8. Oldest.rseq <= c.rseq /\ c.rseq <= head.rseq
  <2>1. Oldest.rseq = head.rseq - Len(Held)
    <3>1. CASE Held = <<>>
      BY <3>1, <1>1, <1>3 DEF Oldest
    <3>2. CASE Held # <<>>
      <4>1. 1 \in 1..Len(Held) /\ Held[1] \in Entry
        BY <3>2, <1>1, SMT
      <4>2. Held[1].rseq = head.rseq - Len(Held) + (1 - 1)
        BY <4>1, Zenon DEF Anchored
      <4>3. Oldest.rseq = Held[1].rseq
        BY <3>2, <4>1, BeforeAfterType DEF Oldest
      <4> QED  BY <4>2, <4>3, <1>1, <1>3, SMT
    <3> QED  BY <3>1, <3>2
  <2> QED  BY <2>1, <1>1, <1>3, SMT
<1> QED  BY <1>4, <1>7, <1>8

(* A run from c to h has as many records as lie between their numbers.      *)
LEMMA RunLength ==
  ASSUME NEW c \in Cursor, NEW h \in Cursor, NEW s \in Seq(Entry), IsRun(c, s, h)
  PROVE  Len(s) = h.rseq - c.rseq
<1>1. c.rseq \in Nat /\ h.rseq \in Nat /\ Len(s) \in Nat
  BY DEF Cursor
<1>2. CASE s = <<>>
  <2>1. h = c
    BY <1>2 DEF IsRun
  <2> QED  BY <1>1, <1>2, <2>1
<1>3. CASE s # <<>>
  <2>1. Len(s) \in 1..Len(s) /\ s[Len(s)] \in Entry
    BY <1>1, <1>3
  <2>2. s[Len(s)].rseq = c.rseq + (Len(s) - 1) /\ h = After(s[Len(s)])
    BY <1>3, <2>1, Zenon DEF IsRun
  <2>3. h.rseq = s[Len(s)].rseq + 1
    BY <2>2 DEF After
  <2> QED  BY <1>1, <2>2, <2>3
<1> QED  BY <1>2, <1>3

(* A read of what is due is all of it, or failed, or has fewer records.     *)
LEMMA ReadIs ==
  ASSUME NEW due \in Seq(Entry), NEW read \in SpoolReads(due)
  PROVE  \/ read = Read(TRUE, due)
         \/ ~read.ok
         \/ \E k \in 0..(Len(due) - 1) :
              /\ read = Short(due, k) /\ read.ok
              /\ read.records = SubSeq(due, 1, k)
              /\ read.records \in Seq(Entry) /\ Len(read.records) = k
              /\ read # Read(TRUE, due)
<1> SUFFICES ASSUME NEW k \in 0..(Len(due) - 1), read = Short(due, k)
             PROVE  /\ read.ok /\ read.records = SubSeq(due, 1, k)
                    /\ read.records \in Seq(Entry) /\ Len(read.records) = k
                    /\ read # Read(TRUE, due)
  <2>1. ~Read(FALSE, <<>>).ok
    BY ReadFields
  <2> QED  BY <2>1, Zenon DEF SpoolReads
<1>1. read.ok /\ read.records = SubSeq(due, 1, k)
  <2>1. read = Read(TRUE, SubSeq(due, 1, k))
    BY DEF Short
  <2>2. /\ Read(TRUE, SubSeq(due, 1, k)).ok = TRUE
        /\ Read(TRUE, SubSeq(due, 1, k)).records = SubSeq(due, 1, k)
    BY ReadFields, Zenon
  <2>3. read.ok  BY <2>1, <2>2, Zenon
  <2>4. read.records = SubSeq(due, 1, k)  BY <2>1, <2>2, Zenon
  <2> QED  BY <2>3, <2>4
<1>2. k \in 0..Len(due) /\ k # Len(due)
  OBVIOUS
<1>3. SubSeq(due, 1, k) \in Seq(Entry) /\ Len(SubSeq(due, 1, k)) = k
  BY <1>2, TakeProperties
<1>4. Read(TRUE, due).records = due
  BY ReadFields
<1>5. read # Read(TRUE, due)
  BY <1>1, <1>2, <1>3, <1>4, Zenon
<1> QED  BY <1>1, <1>3, <1>5, Zenon

(* An attach at a boundary of the run is answered with exactly the records  *)
(* after it when the spool gives back what it holds, and refused otherwise. *)
LEMMA BoundaryServed ==
  ASSUME TypeOK, Anchored(Held, head), NEW c \in Cursor, IsBoundary(c, Held, head),
         NEW read \in SpoolReads(EntriesDue(c))
  PROVE  /\ EntriesFrom(c, read).ok <=> read = Read(TRUE, EntriesDue(c))
         /\ EntriesFrom(c, read).ok => EntriesFrom(c, read).records = Suffix(Held, c)
<1>1. PICK n : SplitAt(c, n)
  BY BoundaryIsSplit
<1> DEFINE due == EntriesDue(c)
           mem == Suffix(ring, c)
           w == DropFirst(Held, n)
           all == EntriesFrom(c, read)
<1>2. due \o mem = w /\ due \in Seq(Entry) /\ mem \in Seq(Entry)
  BY <1>1, EntriesAre
<1>3. Suffix(Held, c) = w
  BY <1>1, HeldSuffix
<1>4. IsRun(c, w, head) /\ Oldest.rseq <= c.rseq /\ c.rseq <= head.rseq
  BY <1>1, BoundaryRun
<1>5. /\ all.ok <=> (/\ Oldest.rseq <= c.rseq /\ c.rseq <= head.rseq
                     /\ read.ok /\ IsRun(c, read.records \o mem, head))
      /\ all.records = read.records \o mem
  BY DEF EntriesFrom
<1>6. head \in Cursor
  BY HeldParts
<1>7. read \in SpoolReads(due)
  OBVIOUS
<1> HIDE DEF due, mem, w, all
<1>8. CASE read = Read(TRUE, due)
  <2>1. read.ok /\ read.records = due
    BY <1>8, ReadFields
  <2> QED  BY <1>2, <1>3, <1>4, <1>5, <1>8, <2>1, Zenon DEF due, all
<1>9. CASE ~read.ok
  <2>1. read # Read(TRUE, due)
    BY <1>9, ReadFields
  <2> QED  BY <1>5, <1>9, <2>1, Zenon DEF due, all
<1>10. ASSUME NEW k \in 0..(Len(due) - 1),
              read.records \in Seq(Entry), Len(read.records) = k,
              read # Read(TRUE, due)
       PROVE  ~all.ok
  <2> SUFFICES ASSUME all.ok PROVE FALSE
    OBVIOUS
  <2> DEFINE out == read.records \o mem
  <2>1. IsRun(c, out, head)
    BY <1>5
  <2>2. out \in Seq(Entry) /\ Len(out) = k + Len(mem)
    <3>1. mem \in Seq(Entry) /\ read.records \in Seq(Entry) /\ Len(read.records) = k
      BY <1>2, <1>10, Zenon
    <3>2. out \in Seq(Entry) /\ Len(out) = Len(read.records) + Len(mem)
      BY <3>1, ConcatPointwise, Zenon
    <3> QED  BY <3>1, <3>2, Zenon
  <2>3. w \in Seq(Entry) /\ Len(w) = Len(due) + Len(mem)
    BY <1>2, ConcatPointwise
  <2> HIDE DEF out
  <2>4. Len(out) = head.rseq - c.rseq /\ Len(w) = head.rseq - c.rseq
    BY <1>4, <1>6, <2>1, <2>2, <2>3, RunLength
  <2>5. Len(due) \in Nat /\ Len(mem) \in Nat
    BY <1>2
  <2>6. k + Len(mem) = Len(due) + Len(mem)
    BY <2>2, <2>3, <2>4, Zenon
  <2> QED  BY <1>10, <2>5, <2>6, SMT
<1> QED  BY <1>2, <1>7, <1>8, <1>9, <1>10, ReadIs, Zenon DEF due, all

-----------------------------------------------------------------------------
(* The theorems.                                                            *)

LEMMA LogInitInv ==
  ASSUME LogInit
  PROVE  LogInv /\ LossAccounted /\ exited = FALSE
<1>1. /\ head = Start /\ retain_from = Start /\ newest = None /\ fallback = None
      /\ ring = <<>> /\ spool = <<>> /\ torn = FALSE /\ others = 0
      /\ lost = 0 /\ exited = FALSE /\ produced = 0
  BY DEF LogInit
<1>2. Start \in Cursor /\ Start.off = 0
  BY DEF Start, Cursor
<1>3. TypeOK
  <2>1. /\ head \in Cursor /\ retain_from \in Cursor
        /\ newest \in Checkpoint \cup {None} /\ fallback \in Checkpoint \cup {None}
    BY <1>1, <1>2
  <2>2. ring \in Seq(Entry) /\ spool \in Seq(Entry)
    BY <1>1, SMT
  <2>3. torn \in BOOLEAN /\ exited \in BOOLEAN
    BY <1>1
  <2>4. others \in Nat /\ lost \in Nat /\ produced \in Nat
    BY <1>1
  <2>5. overflow \in {"Drop", "Block"}
    BY BudgetAssumption DEF LogInit
  <2> QED  BY <2>1, <2>2, <2>3, <2>4, <2>5 DEF TypeOK
<1>4. Held = <<>> /\ Len(Held) = 0
  BY <1>1, SMT DEF Held
<1>5. Anchored(Held, head)
  BY <1>4, SMT DEF Anchored
<1>6. Good(Held, head, retain_from, newest, fallback)
  BY <1>1, <1>5 DEF Good, IsBoundary
<1>7. LossAccounted
  BY <1>1, <1>2 DEF LossAccounted
<1> QED  BY <1>1, <1>3, <1>6, <1>7 DEF LogInv

(* LogInv is inductive, for every budget, policy and disk.                  *)
THEOREM LogInvariant == LogSpec => []LogInv
<1>1. LogInit => LogInv
  BY LogInitInv
<1>2. LogInv /\ [LogNext]_logVars => LogInv'
  BY NextStep DEF LogStep
<1> QED  BY <1>1, <1>2, PTL DEF LogSpec

(* The log's state keeps its type.                                          *)
THEOREM TypeCorrect == LogSpec => []TypeOK
<1>1. LogInv => TypeOK
  BY DEF LogInv
<1> QED  BY <1>1, LogInvariant, PTL

(* No sequence of spills, failed writes, failed trims and give-ups ever     *)
(* leaves a hole between the spool and the ring, or before head.            *)
THEOREM RunNeverBroken == LogSpec => []RunIsContiguous
<1>1. LogInv => RunIsContiguous
  <2> SUFFICES ASSUME LogInv PROVE RunIsContiguous
    OBVIOUS
  <2>1. TypeOK /\ Held \in Seq(Entry) /\ head \in Cursor /\ Anchored(Held, head)
    BY HeldType DEF LogInv, Good, TypeOK
  <2> QED  BY <2>1, AnchoredRun DEF RunIsContiguous, Oldest
<1> QED  BY <1>1, LogInvariant, PTL

(* Whatever spills, trims and give-ups did, an attach at a stored checkpoint *)
(* is refused only when the disk does not give back what the spool holds,   *)
(* and so is one at the session's start while nothing was retained past it; *)
(* one that is served gets every record up to head, whatever the disk does. *)
THEOREM RecoveryAlwaysHasABase == LogSpec => []RecoveryBaseHeld
<1>1. LogInv => RecoveryBaseHeld
  <2> SUFFICES ASSUME LogInv PROVE RecoveryBaseHeld
    OBVIOUS
  <2>1. /\ TypeOK /\ Anchored(Held, head) /\ retain_from \in Cursor
        /\ newest \in Checkpoint \cup {None} /\ fallback \in Checkpoint \cup {None}
    BY DEF LogInv, Good, TypeOK
  <2>2. ASSUME NEW c \in Bases PROVE c \in Cursor /\ IsBoundary(c, Held, head)
    <3>1. IsBoundary(retain_from, Held, head)
      BY DEF LogInv, Good
    <3>2. CASE newest # None /\ c = newest.resume
      BY <2>1, <3>2 DEF LogInv, Good, Checkpoint
    <3>3. CASE fallback # None /\ c = fallback.resume
      <4>1. fallback.resume = retain_from
        BY <3>3 DEF LogInv, Good
      <4> QED  BY <2>1, <3>1, <3>3, <4>1, Zenon
    <3>4. CASE c = Start /\ retain_from = Start
      BY <2>1, <3>1, <3>4, Zenon
    <3> QED  BY <3>2, <3>3, <3>4 DEF Bases
  <2> QED  BY <2>1, <2>2, BoundaryServed, Zenon DEF RecoveryBaseHeld
<1> QED  BY <1>1, LogInvariant, PTL

(* Output is in the log, in a Gap, or counted for the next one.             *)
THEOREM NoSilentLoss == LogSpec => []LossAccounted
<1>1. LogInit => LossAccounted
  BY LogInitInv
<1>2. LogInv /\ LossAccounted /\ [LogNext]_logVars => LossAccounted'
  <2> SUFFICES ASSUME LogInv, LossAccounted, [LogNext]_logVars PROVE LossAccounted'
    OBVIOUS
  <2>1. LogInv' /\ produced' - produced = (head'.off + lost') - (head.off + lost)
    BY NextStep DEF LogStep
  <2>2. /\ produced \in Nat /\ head.off \in Nat /\ lost \in Nat
        /\ produced' \in Nat /\ head'.off \in Nat /\ lost' \in Nat
    BY <2>1 DEF LogInv, TypeOK, Cursor
  <2>3. produced = head.off + lost
    BY DEF LossAccounted
  <2>4. produced' = head'.off + lost'
    BY <2>1, <2>2, <2>3, SMT
  <2> QED  BY <2>4 DEF LossAccounted
<1> QED  BY <1>1, <1>2, LogInvariant, PTL DEF LogSpec

(* A record is only numbered once the Gap for what was dropped is.          *)
THEOREM GapBeforeRecords == LogSpec => GapComesFirst
<1>1. LogInv /\ [LogNext]_logVars => [head'.rseq > head.rseq => lost' = 0]_logVars
  BY NextStep DEF LogStep
<1> QED  BY <1>1, LogInvariant, PTL DEF LogSpec, GapComesFirst

(* After the Exit the log takes no record and owes no Gap.                  *)
THEOREM NothingAfterExit == LogSpec => ExitIsLast
<1> DEFINE Quiet == exited => lost = 0
<1>1. LogInit => Quiet
  BY LogInitInv
<1>2. LogInv /\ Quiet /\ [LogNext]_logVars => Quiet'
  <2> SUFFICES ASSUME LogInv, Quiet, [LogNext]_logVars PROVE Quiet'
    OBVIOUS
  <2>1. /\ exited /\ lost = 0 => head' = head /\ lost' = 0
        /\ exited' /\ ~exited => lost' = 0
    BY NextStep DEF LogStep
  <2> QED  BY <2>1
<1>3. LogInv /\ Quiet /\ [LogNext]_logVars => [exited => head' = head /\ lost' = 0]_logVars
  BY NextStep DEF LogStep
<1> HIDE DEF Quiet
<1> QED  BY <1>1, <1>2, <1>3, LogInvariant, PTL DEF LogSpec, ExitIsLast

(* What append promises of order, Gaps and the Exit together.              *)
THEOREM AppendOrder == LogSpec => AppendsInOrder
BY GapBeforeRecords, NothingAfterExit DEF AppendsInOrder

(* The newest checkpoint only moves forward, and what is dropped never      *)
(* passes it.                                                               *)
THEOREM RecoveryBaseOnlyAdvances == LogSpec => RecoveryNeverRegresses
<1> DEFINE A == /\ newest # None =>
                     newest' # None /\ newest'.resume.rseq >= newest.resume.rseq
                /\ retain_from'.rseq >= retain_from.rseq
                /\ newest' # None => retain_from'.rseq <= newest'.resume.rseq
                /\ newest' = None => retain_from' = Start
<1>1. LogInv /\ [LogNext]_logVars => A
  <2> SUFFICES ASSUME LogInv, [LogNext]_logVars PROVE A
    OBVIOUS
  <2>1. LogStep
    BY NextStep
  <2>2. Good(Held', head', retain_from', newest', fallback')
    BY <2>1 DEF LogStep, LogInv
  <2> QED  BY <2>1, <2>2 DEF LogStep, Good
<1>2. LogInv /\ [LogNext]_logVars => [A]_logVars
  BY <1>1
<1> QED  BY <1>2, LogInvariant, PTL DEF LogSpec, RecoveryNeverRegresses

-----------------------------------------------------------------------------
(* Sums of sizes.  A sum is defined by recursion, so that it exists takes   *)
(* an induction: the set of the numbers it fails at would have a least      *)
(* member.                                                                  *)

LEMMA LeastExists ==
  ASSUME NEW T \in SUBSET Nat, T # {}
  PROVE  \E m \in T : \A k \in T : m <= k
<1>1. PICK m \in T : \A k \in T : <<k, m>> \notin OpToRel(<, Nat)
  BY NatLessThanWellFounded, WFMin
<1>2. ASSUME NEW k \in T PROVE m <= k
  <2>1. k \in Nat /\ m \in Nat
    OBVIOUS
  <2>2. k < m => <<k, m>> \in OpToRel(<, Nat)
    BY <2>1 DEF OpToRel
  <2>3. ~(k < m)
    BY <1>1, <2>2
  <2> QED  BY <2>1, <2>3
<1> QED  BY <1>2

LEMMA GreatestExists ==
  ASSUME NEW n \in Nat, NEW T \in SUBSET (0..n), T # {}
  PROVE  \E m \in T : \A k \in T : k <= m
<1> DEFINE U == {k \in Nat : n - k \in T}
<1>1. U \in SUBSET Nat /\ U # {}
  <2>1. PICK t \in T : TRUE
    OBVIOUS
  <2>2. n - t \in U
    BY <2>1
  <2> QED  BY <2>2
<1>2. PICK u \in U : \A k \in U : u <= k
  BY <1>1, LeastExists
<1>3. n - u \in T
  OBVIOUS
<1>4. ASSUME NEW k \in T PROVE k <= n - u
  <2>1. n - k \in U
    OBVIOUS
  <2> QED  BY <1>2, <2>1
<1> QED  BY <1>3, <1>4

(* g lists the sums of f's first members, 0 first, for as far as n.         *)
SumsTo(f, g, n) ==
  /\ g \in [0..n -> Nat]
  /\ g[0] = 0
  /\ \A k \in 1..n : g[k] = g[k - 1] + f[k]

LEMMA SumsExist ==
  ASSUME NEW f \in Seq(Nat)
  PROVE  \E g : SumsTo(f, g, Len(f))
<1> DEFINE Bad == {n \in 0..Len(f) : ~\E g : SumsTo(f, g, n)}
<1> SUFFICES ASSUME Bad # {} PROVE FALSE
  <2>1. Len(f) \in 0..Len(f)
    OBVIOUS
  <2> QED  BY <2>1
<1>1. PICK n \in Bad : \A k \in Bad : n <= k
  <2>1. Bad \in SUBSET Nat
    OBVIOUS
  <2> HIDE DEF Bad
  <2> QED  BY <2>1, LeastExists
<1>2. n \in 0..Len(f) /\ ~\E g : SumsTo(f, g, n)
  OBVIOUS
<1>3. n # 0
  <2>1. SumsTo(f, [k \in 0..0 |-> 0], 0)
    BY DEF SumsTo
  <2> QED  BY <1>2, <2>1
<1>4. n - 1 \in 0..Len(f) /\ n - 1 \notin Bad
  BY <1>1, <1>2, <1>3
<1>5. PICK g : SumsTo(f, g, n - 1)
  BY <1>4
<1> DEFINE h == [k \in 0..n |-> IF k = n THEN g[n - 1] + f[n] ELSE g[k]]
<1>6. f[n] \in Nat
  BY <1>2, <1>3
<1>7. SumsTo(f, h, n)
  <2> HIDE DEF Bad
  <2>1. h \in [0..n -> Nat] /\ h[0] = 0
    BY <1>2, <1>3, <1>5, <1>6 DEF SumsTo
  <2>2. ASSUME NEW k \in 1..n PROVE h[k] = h[k - 1] + f[k]
    BY <1>2, <1>3, <1>5, <1>6 DEF SumsTo
  <2> QED  BY <2>1, <2>2 DEF SumsTo
<1> QED  BY <1>2, <1>7

(* Total is the last of them, whichever list of sums is at hand.            *)
LEMMA TotalSums ==
  ASSUME NEW f \in Seq(Nat), NEW g, SumsTo(f, g, Len(f))
  PROVE  Total(f) = g[Len(f)] /\ Total(f) \in Nat
<1> DEFINE upTo[k \in 0..Len(f)] == IF k = 0 THEN 0 ELSE upTo[k - 1] + f[k]
<1>1. Total(f) = upTo[Len(f)]
  BY DEF Total
<1>2. upTo = [k \in 0..Len(f) |-> IF k = 0 THEN 0 ELSE upTo[k - 1] + f[k]]
  <2>1. g = [k \in 0..Len(f) |-> IF k = 0 THEN 0 ELSE g[k - 1] + f[k]]
    BY DEF SumsTo
  <2> QED  BY <2>1
<1> HIDE DEF upTo
<1> DEFINE Bad == {k \in 0..Len(f) : upTo[k] # g[k]}
<1>3. Bad = {}
  <2> SUFFICES ASSUME Bad # {} PROVE FALSE
    OBVIOUS
  <2>1. PICK n \in Bad : \A k \in Bad : n <= k
    <3>1. Bad \in SUBSET Nat
      OBVIOUS
    <3> HIDE DEF Bad
    <3> QED  BY <3>1, LeastExists
  <2>2. n \in 0..Len(f) /\ upTo[n] # g[n]
    OBVIOUS
  <2>3. n # 0
    BY <2>2, <1>2 DEF SumsTo
  <2>4. n - 1 \in 0..Len(f) /\ upTo[n - 1] = g[n - 1]
    BY <2>1, <2>2, <2>3
  <2>5. upTo[n] = upTo[n - 1] + f[n] /\ g[n] = g[n - 1] + f[n]
    <3>1. n \in 1..Len(f)
      BY <2>2, <2>3
    <3>2. upTo[n] = IF n = 0 THEN 0 ELSE upTo[n - 1] + f[n]
      BY <1>2, <2>2, Zenon
    <3> QED  BY <2>3, <3>1, <3>2, Zenon DEF SumsTo
  <2> HIDE DEF Bad
  <2> QED  BY <2>2, <2>4, <2>5, Zenon
<1>4. Len(f) \in 0..Len(f)
  OBVIOUS
<1>5. upTo[Len(f)] = g[Len(f)] /\ g[Len(f)] \in Nat
  BY <1>3, <1>4 DEF SumsTo
<1> QED  BY <1>1, <1>5

LEMMA TotalType ==
  ASSUME NEW f \in Seq(Nat)
  PROVE  Total(f) \in Nat
BY SumsExist, TotalSums

LEMMA TotalNone ==
  ASSUME NEW f \in Seq(Nat), \A i \in 1..Len(f) : f[i] = 0
  PROVE  Total(f) = 0
<1> DEFINE g == [k \in 0..Len(f) |-> 0]
<1>1. SumsTo(f, g, Len(f))
  BY DEF SumsTo
<1> QED  BY <1>1, TotalSums

LEMMA TotalJoin ==
  ASSUME NEW f \in Seq(Nat), NEW e \in Seq(Nat)
  PROVE  Total(f \o e) = Total(f) + Total(e)
<1>1. PICK g : SumsTo(f, g, Len(f))
  BY SumsExist
<1>2. PICK h : SumsTo(e, h, Len(e))
  BY SumsExist
<1> DEFINE m == Len(f)
           n == Len(e)
           w == f \o e
           u == [k \in 0..(m + n) |-> IF k <= m THEN g[k] ELSE g[m] + h[k - m]]
<1>3. /\ w \in Seq(Nat) /\ Len(w) = m + n
      /\ \A i \in 1..m : w[i] = f[i]
      /\ \A i \in 1..n : w[m + i] = e[i]
  BY ConcatPointwise
<1>4. m \in Nat /\ n \in Nat
  OBVIOUS
<1>5. g \in [0..m -> Nat] /\ g[0] = 0 /\ \A k \in 1..m : g[k] = g[k - 1] + f[k]
  BY <1>1 DEF SumsTo
<1>6. h \in [0..n -> Nat] /\ h[0] = 0 /\ \A k \in 1..n : h[k] = h[k - 1] + e[k]
  BY <1>2 DEF SumsTo
<1>7. Total(f) = g[m] /\ Total(e) = h[n]
  BY <1>1, <1>2, TotalSums
<1> HIDE DEF m, n, w
<1>8. SumsTo(w, u, Len(w))
  <2>1. u \in [0..(m + n) -> Nat]
    BY <1>4, <1>5, <1>6
  <2>2. u[0] = 0
    BY <1>4, <1>5
  <2>3. ASSUME NEW k \in 1..(m + n) PROVE u[k] = u[k - 1] + w[k]
    <3>1. CASE k <= m
      BY <3>1, <1>3, <1>4, <1>5
    <3>2. CASE k > m
      <4> DEFINE i == k - m
      <4>1. i \in 1..n /\ k = m + i
        BY <3>2, <1>4
      <4>2. w[k] = e[i]
        BY <4>1, <1>3
      <4>3. u[k] = g[m] + h[i]
        BY <3>2, <1>4
      <4>4. u[k - 1] = g[m] + h[i - 1]
        <5>1. k - 1 \in 0..(m + n) /\ (k - 1) - m = i - 1 /\ g[m] \in Nat
          BY <3>2, <1>4, <1>5
        <5>2. CASE k - 1 <= m
          <6>1. k - 1 = m /\ i = 1
            BY <5>2, <3>2, <1>4
          <6> QED  BY <6>1, <5>1, <1>6
        <5>3. CASE ~(k - 1 <= m)
          BY <5>1, <5>3
        <5> QED  BY <5>2, <5>3
      <4>5. h[i] = h[i - 1] + e[i] /\ h[i] \in Nat /\ h[i - 1] \in Nat /\ g[m] \in Nat
        BY <4>1, <1>4, <1>5, <1>6
      <4> HIDE DEF i, u
      <4>6. e[i] \in Nat
        BY <4>1 DEF n
      <4> QED  BY <4>2, <4>3, <4>4, <4>5, <4>6
    <3> QED  BY <3>1, <3>2, <1>4
  <2> HIDE DEF u
  <2> QED  BY <2>1, <2>2, <2>3, <1>3 DEF SumsTo
<1>9. Total(w) = u[m + n]
  BY <1>3, <1>8, TotalSums
<1>10. u[m + n] = g[m] + h[n]
  BY <1>4, <1>5, <1>6
<1> QED  BY <1>7, <1>9, <1>10 DEF w

(* The sum over s of a size f gives each record.                            *)
Sized(s, f) == Total([i \in 1..Len(s) |-> f[s[i]]])

LEMMA SizesType ==
  ASSUME NEW f \in [Entry -> Nat], NEW s \in Seq(Entry)
  PROVE  /\ [i \in 1..Len(s) |-> f[s[i]]] \in Seq(Nat)
         /\ Len([i \in 1..Len(s) |-> f[s[i]]]) = Len(s)
<1>1. \A i \in 1..Len(s) : f[s[i]] \in Nat
  OBVIOUS
<1> QED  BY <1>1

LEMMA SizedType ==
  ASSUME NEW f \in [Entry -> Nat], NEW s \in Seq(Entry)
  PROVE  Sized(s, f) \in Nat
BY SizesType, TotalType DEF Sized

LEMMA SizedJoin ==
  ASSUME NEW f \in [Entry -> Nat], NEW s \in Seq(Entry), NEW r \in Seq(Entry)
  PROVE  Sized(s \o r, f) = Sized(s, f) + Sized(r, f)
<1> DEFINE w == s \o r
           a == [i \in 1..Len(s) |-> f[s[i]]]
           b == [i \in 1..Len(r) |-> f[r[i]]]
           c == [i \in 1..Len(w) |-> f[w[i]]]
<1>1. /\ w \in Seq(Entry) /\ Len(w) = Len(s) + Len(r)
      /\ \A i \in 1..Len(s) : w[i] = s[i]
      /\ \A i \in 1..Len(r) : w[Len(s) + i] = r[i]
  BY ConcatPointwise
<1>2. /\ a \in Seq(Nat) /\ b \in Seq(Nat)
      /\ Len(a) = Len(s) /\ Len(b) = Len(r)
      /\ \A i \in 1..Len(s) : a[i] = f[s[i]]
      /\ \A i \in 1..Len(r) : b[i] = f[r[i]]
  BY SizesType
<1> HIDE DEF w
<1>3. c \in Seq(Nat) /\ Len(c) = Len(w) /\ \A i \in 1..Len(w) : c[i] = f[w[i]]
  BY <1>1, SizesType
<1> HIDE DEF a, b, c
<1>4. /\ a \o b \in Seq(Nat) /\ Len(a \o b) = Len(a) + Len(b)
      /\ \A i \in 1..Len(a) : (a \o b)[i] = a[i]
      /\ \A i \in 1..Len(b) : (a \o b)[Len(a) + i] = b[i]
  <2>1. a \in Seq(Nat) /\ b \in Seq(Nat)
    BY <1>2
  <2> QED  BY <2>1, ConcatPointwise
<1>5. ASSUME NEW i \in 1..Len(c) PROVE (a \o b)[i] = c[i]
  <2>1. CASE i <= Len(s)
    BY <2>1, <1>1, <1>2, <1>3, <1>4
  <2>2. CASE i > Len(s)
    <3>1. i - Len(s) \in 1..Len(r) /\ Len(s) + (i - Len(s)) = i
      BY <2>2, <1>1, <1>3
    <3>2. w[i] = r[i - Len(s)]
      BY <3>1, <1>1, Zenon
    <3>3. (a \o b)[i] = b[i - Len(s)]
      <4>1. (a \o b)[Len(a) + (i - Len(s))] = b[i - Len(s)]
        BY <3>1, <1>2, <1>4, Zenon
      <4> QED  BY <4>1, <3>1, <1>2, Zenon
    <3>4. b[i - Len(s)] = f[r[i - Len(s)]]
      BY <3>1, <1>2, Zenon
    <3>5. c[i] = f[w[i]]
      BY <1>3, Zenon
    <3> QED  BY <3>2, <3>3, <3>4, <3>5, Zenon
  <2>3. i <= Len(s) \/ i > Len(s)
    OBVIOUS
  <2> QED  BY <2>1, <2>2, <2>3, Zenon
<1>6. a \o b = c
  <2>1. Len(a \o b) = Len(c)
    BY <1>1, <1>2, <1>3, <1>4
  <2> QED  BY <2>1, <1>3, <1>4, <1>5, SeqEqual, Zenon
<1>7. Total(a \o b) = Total(a) + Total(b)
  BY <1>2, TotalJoin
<1> QED  BY <1>6, <1>7 DEF Sized, a, b, c, w

LEMMA SizedAppend ==
  ASSUME NEW f \in [Entry -> Nat], NEW s \in Seq(Entry), NEW e \in Entry
  PROVE  Sized(Append(s, e), f) = Sized(s, f) + f[e]
<1>1. <<e>> \in Seq(Entry) /\ Append(s, e) = s \o <<e>>
  OBVIOUS
<1>2. Sized(<<e>>, f) = f[e]
  <2> DEFINE a == [i \in 1..Len(<<e>>) |-> f[<<e>>[i]]]
  <2>1. a \in Seq(Nat) /\ Len(a) = 1 /\ a[1] = f[e]
    BY <1>1, SizesType
  <2> DEFINE h == [k \in 0..1 |-> IF k = 0 THEN 0 ELSE f[e]]
  <2> HIDE DEF a
  <2>2. SumsTo(a, h, Len(a))
    BY <2>1 DEF SumsTo
  <2>3. h[Len(a)] = f[e]
    BY <2>1
  <2> HIDE DEF h
  <2>4. Total(a) = f[e]
    BY <2>1, <2>2, <2>3, TotalSums
  <2> QED  BY <2>4 DEF Sized, a
<1> QED  BY <1>1, <1>2, SizedJoin

LEMMA SizedNone ==
  ASSUME NEW f \in [Entry -> Nat]
  PROVE  Sized(<<>>, f) = 0
<1> DEFINE a == [i \in 1..Len(<<>>) |-> f[<<>>[i]]]
<1>1. <<>> \in Seq(Entry) /\ Len(<<>>) = 0
  OBVIOUS
<1>2. a \in Seq(Nat) /\ Len(a) = 0
  BY <1>1, SizesType
<1> HIDE DEF a
<1>3. \A i \in 1..Len(a) : a[i] = 0
  BY <1>2
<1> QED  BY <1>2, <1>3, TotalNone DEF Sized, a

(* A part of a sequence is not larger than all of it.                       *)
LEMMA SizedParts ==
  ASSUME NEW f \in [Entry -> Nat], NEW s \in Seq(Entry), NEW k \in 0..Len(s)
  PROVE  /\ Sized(s, f) = Sized(SubSeq(s, 1, k), f) + Sized(DropFirst(s, k), f)
         /\ Sized(DropFirst(s, k), f) <= Sized(s, f)
         /\ Sized(SubSeq(s, 1, k), f) <= Sized(s, f)
<1>1. SubSeq(s, 1, k) \in Seq(Entry) /\ DropFirst(s, k) \in Seq(Entry)
  BY TakeProperties, DropFirstProperties
<1>2. SubSeq(s, 1, k) \o DropFirst(s, k) = s
  <2>1. <<>> \in Seq(Entry)
    OBVIOUS
  <2>2. (<<>> \o SubSeq(s, 1, k)) \o DropFirst(s, k) = <<>> \o s
    BY <2>1, SplitAndJoin
  <2> QED  BY <2>2, <1>1, ConcatEmptySeq
<1>3. Sized(s, f) = Sized(SubSeq(s, 1, k), f) + Sized(DropFirst(s, k), f)
  BY <1>1, <1>2, SizedJoin
<1>4. Sized(SubSeq(s, 1, k), f) \in Nat /\ Sized(DropFirst(s, k), f) \in Nat
  BY <1>1, SizedType
<1> QED  BY <1>3, <1>4

(* The three sizes the log goes by.                                         *)
Costs == [e \in Entry |-> Cost(e)]

DataCosts == [e \in Entry |-> IF e.kind = "data" THEN Cost(e) ELSE 0]

Bytes == [e \in Entry |-> e.len]

LEMMA CostType ==
  ASSUME NEW e \in Entry
  PROVE  Cost(e) \in Nat /\ Cost(e) >= 1 /\ e.len \in Nat
BY DEF Cost, Entry

LEMMA SizeTypes ==
  Costs \in [Entry -> Nat] /\ DataCosts \in [Entry -> Nat] /\ Bytes \in [Entry -> Nat]
BY CostType DEF Costs, DataCosts, Bytes

LEMMA SizesAre ==
  ASSUME NEW s \in Seq(Entry)
  PROVE  /\ TotalCost(s) = Sized(s, Costs)
         /\ TotalLen(s) = Sized(s, Bytes)
         /\ Total([i \in 1..Len(s) |-> IF s[i].kind = "data" THEN Cost(s[i]) ELSE 0])
              = Sized(s, DataCosts)
<1>1. \A i \in 1..Len(s) : s[i] \in Entry
  OBVIOUS
<1>2. /\ [i \in 1..Len(s) |-> Cost(s[i])] = [i \in 1..Len(s) |-> Costs[s[i]]]
      /\ [i \in 1..Len(s) |-> s[i].len] = [i \in 1..Len(s) |-> Bytes[s[i]]]
      /\ [i \in 1..Len(s) |-> IF s[i].kind = "data" THEN Cost(s[i]) ELSE 0]
           = [i \in 1..Len(s) |-> DataCosts[s[i]]]
  BY <1>1 DEF Costs, Bytes, DataCosts
<1> QED  BY <1>2 DEF TotalCost, TotalLen, Sized

(* What a record counts as output is at most what it costs.                 *)
LEMMA DataWithinCost ==
  ASSUME NEW s \in Seq(Entry)
  PROVE  Sized(s, DataCosts) <= TotalCost(s)
<1> DEFINE a == [i \in 1..Len(s) |-> DataCosts[s[i]]]
           b == [i \in 1..Len(s) |-> Costs[s[i]]]
<1>1. a \in Seq(Nat) /\ b \in Seq(Nat) /\ Len(a) = Len(s) /\ Len(b) = Len(s)
  BY SizesType, SizeTypes
<1>2. \A i \in 1..Len(s) : a[i] <= b[i]
  BY CostType DEF Costs, DataCosts
<1> HIDE DEF a, b
<1>3. PICK g : SumsTo(a, g, Len(a))
  BY <1>1, SumsExist
<1>4. PICK h : SumsTo(b, h, Len(b))
  BY <1>1, SumsExist
<1> DEFINE n == Len(s)
           Bad == {k \in 0..n : ~(g[k] <= h[k])}
<1>5. n \in Nat /\ Len(a) = n /\ Len(b) = n
  BY <1>1
<1> HIDE DEF n
<1>6. /\ g \in [0..n -> Nat] /\ g[0] = 0 /\ \A k \in 1..n : g[k] = g[k - 1] + a[k]
      /\ h \in [0..n -> Nat] /\ h[0] = 0 /\ \A k \in 1..n : h[k] = h[k - 1] + b[k]
  BY <1>3, <1>4, <1>5 DEF SumsTo
<1>7. \A k \in 1..n : a[k] \in Nat /\ b[k] \in Nat /\ a[k] <= b[k]
  BY <1>1, <1>2, <1>5 DEF n
<1>8. Bad = {}
  <2> SUFFICES ASSUME Bad # {} PROVE FALSE
    OBVIOUS
  <2>1. PICK k \in Bad : \A j \in Bad : k <= j
    <3>1. Bad \in SUBSET Nat
      BY <1>5
    <3> HIDE DEF Bad
    <3> QED  BY <3>1, LeastExists
  <2>2. k \in 0..n /\ ~(g[k] <= h[k])
    OBVIOUS
  <2>3. k # 0
    BY <2>2, <1>6
  <2>4. k - 1 \in 0..n /\ k \in 1..n /\ g[k - 1] <= h[k - 1]
    BY <2>1, <2>2, <2>3, <1>5
  <2>5. g[k] = g[k - 1] + a[k] /\ h[k] = h[k - 1] + b[k]
    BY <2>4, <1>6
  <2>6. /\ g[k - 1] \in Nat /\ h[k - 1] \in Nat
        /\ a[k] \in Nat /\ b[k] \in Nat /\ a[k] <= b[k]
    BY <2>4, <1>6, <1>7
  <2> HIDE DEF Bad
  <2> QED  BY <2>2, <2>4, <2>5, <2>6
<1>9. g[n] <= h[n]
  BY <1>5, <1>8
<1>10. Total(a) = g[n] /\ Total(b) = h[n]
  BY <1>1, <1>3, <1>4, <1>5, TotalSums
<1>11. TotalCost(s) = Total(b) /\ Sized(s, DataCosts) = Total(a)
  BY SizesAre DEF Sized, a, b
<1> QED  BY <1>9, <1>10, <1>11

-----------------------------------------------------------------------------
(* The limits.  Each part of LimitsKept is a fact about a store, and every  *)
(* way of making room keeps it.                                             *)

ExactlyUsed(st) ==
  /\ st.used = others + SpoolBytes(st.spool)
  /\ st.used <= PoolCap
  /\ SpoolBytes(st.spool) <= SpoolBudget

WithinBudget(r) ==
  \/ Sized(r, DataCosts) <= RingBudget
  \/ \A i, j \in 1..Len(r) : r[i].kind = "data" /\ r[j].kind = "data" => i = j

NoneBehind(r, c) == \A i \in 1..Len(r) : ~Includes(c, r[i])

Limited(st, c) ==
  ExactlyUsed(st) /\ WithinBudget(st.ring) /\ NoneBehind(st.ring, c)

LEMMA SpoolBytesBounds ==
  ASSUME NEW s \in Seq(Entry), NEW k \in 0..Len(s)
  PROVE  /\ SpoolBytes(s) \in Nat /\ SpoolBytes(DropFirst(s, k)) \in Nat
         /\ SpoolBytes(DropFirst(s, k)) <= SpoolBytes(s)
<1>1. DropFirst(s, k) \in Seq(Entry) /\ Len(DropFirst(s, k)) = Len(s) - k
  BY DropFirstProperties
<1>2. TotalCost(s) \in Nat /\ TotalCost(DropFirst(s, k)) \in Nat
  BY <1>1, SizesAre, SizeTypes, SizedType
<1>3. TotalCost(DropFirst(s, k)) <= TotalCost(s)
  BY <1>1, SizesAre, SizeTypes, SizedParts
<1>4. s = <<>> => DropFirst(s, k) = <<>>
  BY <1>1
<1> QED  BY <1>2, <1>3, <1>4 DEF SpoolBytes

LEMMA WithinBudgetDrop ==
  ASSUME NEW r \in Seq(Entry), WithinBudget(r), NEW k \in 0..Len(r)
  PROVE  WithinBudget(DropFirst(r, k))
<1> DEFINE t == DropFirst(r, k)
<1>1. t \in Seq(Entry) /\ Len(t) = Len(r) - k /\ \A i \in 1..(Len(r) - k) : t[i] = r[i + k]
  BY DropFirstProperties
<1>2. /\ Sized(t, DataCosts) <= Sized(r, DataCosts)
      /\ Sized(t, DataCosts) \in Nat /\ Sized(r, DataCosts) \in Nat
  BY <1>1, SizeTypes, SizedType, SizedParts
<1> HIDE DEF t
<1>3. CASE Sized(r, DataCosts) <= RingBudget
  BY <1>2, <1>3, BudgetAssumption DEF WithinBudget, t
<1>4. CASE \A i, j \in 1..Len(r) : r[i].kind = "data" /\ r[j].kind = "data" => i = j
  <2>1. ASSUME NEW i \in 1..Len(t), NEW j \in 1..Len(t), t[i].kind = "data", t[j].kind = "data"
        PROVE  i = j
    <3>1. i + k \in 1..Len(r) /\ j + k \in 1..Len(r) /\ t[i] = r[i + k] /\ t[j] = r[j + k]
      BY <1>1
    <3>2. i + k = j + k
      BY <2>1, <3>1, <1>4
    <3> QED  BY <3>2
  <2> QED  BY <2>1 DEF WithinBudget, t
<1> QED  BY <1>3, <1>4 DEF WithinBudget

LEMMA NoneBehindDrop ==
  ASSUME NEW r \in Seq(Entry), NEW c, NoneBehind(r, c), NEW k \in 0..Len(r)
  PROVE  NoneBehind(DropFirst(r, k), c)
<1> DEFINE t == DropFirst(r, k)
<1>1. t \in Seq(Entry) /\ Len(t) = Len(r) - k /\ \A i \in 1..(Len(r) - k) : t[i] = r[i + k]
  BY DropFirstProperties
<1> HIDE DEF t
<1>2. ASSUME NEW i \in 1..Len(t) PROVE ~Includes(c, t[i])
  <2>1. i + k \in 1..Len(r) /\ t[i] = r[i + k]
    BY <1>1
  <2> QED  BY <2>1 DEF NoneBehind
<1> QED  BY <1>2 DEF NoneBehind, t

(* What a trim at c leaves of a run, c does not include.                    *)
LEMMA LeadsLeaveNoneBehind ==
  ASSUME NEW r \in Seq(Entry), Ordered(r), NEW c \in Cursor, NEW k \in 0..Len(r),
         Leads(r, c, k)
  PROVE  NoneBehind(DropFirst(r, k), c)
<1> DEFINE t == DropFirst(r, k)
<1>1. t \in Seq(Entry) /\ Len(t) = Len(r) - k /\ \A i \in 1..(Len(r) - k) : t[i] = r[i + k]
  BY DropFirstProperties
<1> HIDE DEF t
<1>2. ASSUME NEW i \in 1..Len(t) PROVE ~Includes(c, t[i])
  <2>1. i + k \in 1..Len(r) /\ t[i] = r[i + k] /\ k + 1 \in 1..Len(r) /\ k < Len(r)
    BY <1>1
  <2>2. ~(r[k + 1].rseq < c.rseq)
    BY <2>1 DEF Leads, Includes
  <2>3. i = 1 \/ r[k + 1].rseq < r[i + k].rseq
    <3>1. i = 1 \/ k + 1 < i + k
      OBVIOUS
    <3> QED  BY <3>1, <2>1, Zenon DEF Ordered
  <2>4. r[k + 1] \in Entry /\ r[i + k] \in Entry
    BY <2>1
  <2>5. r[k + 1].rseq \in Nat /\ r[i + k].rseq \in Nat /\ c.rseq \in Nat
    BY <2>4 DEF Entry, Cursor
  <2>6. i = 1 => i + k = k + 1
    OBVIOUS
  <2>7. ~(r[i + k].rseq < c.rseq)
    <3> HIDE DEF Ordered
    <3> QED  BY <2>2, <2>3, <2>5, <2>6
  <2> QED  BY <2>1, <2>7 DEF Includes
<1> QED  BY <1>2 DEF NoneBehind, t

LEMMA OrderedPart ==
  ASSUME NEW s \in Seq(Entry), NEW r \in Seq(Entry), Ordered(s \o r)
  PROVE  Ordered(r)
<1> DEFINE w == s \o r
<1>1. /\ w \in Seq(Entry) /\ Len(w) = Len(s) + Len(r)
      /\ \A i \in 1..Len(r) : w[Len(s) + i] = r[i]
  BY ConcatPointwise
<1>2. Ordered(w)
  OBVIOUS
<1> HIDE DEF w
<1>3. ASSUME NEW i \in 1..Len(r), NEW j \in 1..Len(r), i < j PROVE r[i].rseq < r[j].rseq
  <2>1. Len(s) + i \in 1..Len(w) /\ Len(s) + j \in 1..Len(w) /\ Len(s) + i < Len(s) + j
    BY <1>1, <1>3
  <2>2. w[Len(s) + i].rseq < w[Len(s) + j].rseq
    BY <2>1, <1>2, Zenon DEF Ordered
  <2> QED  BY <2>2, <1>1
<1> QED  BY <1>3 DEF Ordered

LEMMA StoreFields ==
  ASSUME NEW r, NEW s, NEW t, NEW u, NEW w
  PROVE  /\ Store(r, s, t, u, w).ring = r /\ Store(r, s, t, u, w).spool = s
         /\ Store(r, s, t, u, w).torn = t /\ Store(r, s, t, u, w).used = u
         /\ Store(r, s, t, u, w).went = w
BY DEF Store

(* Moving records to the spool keeps every limit.                           *)
LEMMA MovedLimited ==
  ASSUME NEW st, IsStore(st), others \in Nat, NEW c, Limited(st, c),
         NEW k \in 0..Len(st.ring), NEW t, NEW w,
         k > 0 => Fits(st, st.spool \o SubSeq(st.ring, 1, k))
  PROVE  Limited(Moved(st, k, t, w), c)
<1> DEFINE s == st.spool \o SubSeq(st.ring, 1, k)
           d == DropFirst(st.ring, k)
           u == st.used + SpoolBytes(s) - SpoolBytes(st.spool)
           o == Moved(st, k, t, w)
<1>1. o.ring = d /\ o.spool = s /\ o.used = u
  <2>1. o = Store(d, s, t, u, w)
    BY Zenon DEF Moved
  <2> HIDE DEF o, d, s, u
  <2> QED  BY <2>1, StoreFields
<1>2. /\ SubSeq(st.ring, 1, k) \in Seq(Entry) /\ s \in Seq(Entry)
      /\ k = 0 => s = st.spool
  <2>1. SubSeq(st.ring, 1, k) \in Seq(Entry) /\ (k = 0 => SubSeq(st.ring, 1, k) = <<>>)
    BY TakeProperties DEF IsStore
  <2> QED  BY <2>1, ConcatProperties, ConcatEmptySeq DEF IsStore
<1>3. SpoolBytes(s) \in Nat /\ SpoolBytes(st.spool) \in Nat
  <2>1. \A x \in Seq(Entry) : SpoolBytes(x) \in Nat
    <3> TAKE x \in Seq(Entry)
    <3>1. 0 \in 0..Len(x)
      OBVIOUS
    <3> QED  BY <3>1, SpoolBytesBounds
  <2> QED  BY <2>1, <1>2 DEF IsStore
<1>4. k > 0 => SpoolBytes(s) <= SpoolBudget /\ u <= PoolCap
  BY DEF Fits
<1> HIDE DEF o, s
<1>5. ExactlyUsed(o)
  <2>1. CASE k = 0
    BY <2>1, <1>1, <1>2, <1>3 DEF Limited, ExactlyUsed
  <2>2. CASE k > 0
    BY <2>2, <1>1, <1>3, <1>4 DEF Limited, ExactlyUsed
  <2> QED  BY <2>1, <2>2
<1>6. WithinBudget(d) /\ NoneBehind(d, c)
  BY WithinBudgetDrop, NoneBehindDrop DEF Limited, IsStore
<1> QED  BY <1>1, <1>5, <1>6 DEF Limited, o

LEMMA SpillsLimited ==
  ASSUME NEW st, IsStore(st), others \in Nat, NEW c, Limited(st, c),
         NEW cost, NEW o \in Spills(st, cost)
  PROVE  /\ Limited(o, c)
         /\ o.went = "room" => ~OverBudget(o.ring, cost)
<1>1. PICK k \in 0..Len(st.ring) : CanMove(st, k, cost) /\ o \in SpillsAt(st, k, cost)
  BY DEF Spills
<1>2. \E t, w : /\ o = Moved(st, k, t, w)
                /\ w = "room" => ~OverBudget(DropFirst(st.ring, k), cost)
  <2>1. CASE ~OverBudget(DropFirst(st.ring, k), cost)
    <3>1. o = Moved(st, k, st.torn, "room")
      BY <1>1, <2>1 DEF SpillsAt
    <3> QED  BY <2>1, <3>1
  <2>2. CASE /\ OverBudget(DropFirst(st.ring, k), cost)
             /\ ~Fits(st, st.spool \o SubSeq(st.ring, 1, k + 1))
    <3>1. o = Moved(st, k, st.torn, "full")
      BY <1>1, <2>2 DEF SpillsAt
    <3> QED  BY <3>1
  <2>3. CASE /\ OverBudget(DropFirst(st.ring, k), cost)
             /\ Fits(st, st.spool \o SubSeq(st.ring, 1, k + 1))
    <3>1. PICK t \in BOOLEAN : o = Moved(st, k, t, "failed")
      BY <1>1, <2>3 DEF SpillsAt
    <3> QED  BY <3>1
  <2> QED  BY <2>1, <2>2, <2>3
<1>3. PICK t, w : /\ o = Moved(st, k, t, w)
                  /\ w = "room" => ~OverBudget(DropFirst(st.ring, k), cost)
  BY <1>2
<1>4. k > 0 => Fits(st, st.spool \o SubSeq(st.ring, 1, k))
  BY <1>1 DEF CanMove
<1>5. o.ring = DropFirst(st.ring, k) /\ o.went = w
  <2> DEFINE s == st.spool \o SubSeq(st.ring, 1, k)
             d == DropFirst(st.ring, k)
             u == st.used + SpoolBytes(s) - SpoolBytes(st.spool)
  <2>1. o = Store(d, s, t, u, w)
    BY <1>3, Zenon DEF Moved
  <2> HIDE DEF d, s, u
  <2>2. o.ring = d /\ o.went = w
    BY <2>1, StoreFields
  <2> QED  BY <2>2 DEF d
<1> QED  BY <1>3, <1>4, <1>5, MovedLimited

(* A trim leaves nothing behind its cursor, and gives the pool back what it *)
(* takes out of the spool.                                                  *)
LEMMA TrimsLimited ==
  ASSUME NEW st, IsStore(st), others \in Nat, Ordered(HeldOf(st)),
         ExactlyUsed(st), WithinBudget(st.ring), NEW c \in Cursor,
         NEW o \in Trims(st, c)
  PROVE  Limited(o, c)
<1>1. PICK k \in 0..Len(st.ring), j \in 0..Len(st.spool) :
        Leads(st.ring, c, k) /\ Leads(st.spool, c, j) /\ o \in TrimsAt(st, k, j)
  BY DEF Trims
<1>2. st.ring \in Seq(Entry) /\ st.spool \in Seq(Entry) /\ Ordered(st.ring)
  BY OrderedPart DEF IsStore, HeldOf
<1>3. /\ WithinBudget(DropFirst(st.ring, k)) /\ NoneBehind(DropFirst(st.ring, k), c)
  BY <1>1, <1>2, WithinBudgetDrop, LeadsLeaveNoneBehind
<1>4. ASSUME NEW w, o = Trimmed(st, k, j, w) PROVE Limited(o, c)
  <2> DEFINE s == DropFirst(st.spool, j)
             d == DropFirst(st.ring, k)
             v == IF j = 0 THEN st.torn ELSE FALSE
             u == st.used + SpoolBytes(s) - SpoolBytes(st.spool)
  <2>1. o = Store(d, s, v, u, w)
    BY <1>4, Zenon DEF Trimmed
  <2>2. /\ SpoolBytes(st.spool) \in Nat /\ SpoolBytes(s) \in Nat
        /\ SpoolBytes(s) <= SpoolBytes(st.spool)
    BY <1>2, SpoolBytesBounds
  <2> HIDE DEF d, s, v
  <2>3. o.ring = d /\ o.spool = s /\ o.used = u
    BY <2>1, StoreFields
  <2>4. ExactlyUsed(o)
    BY <2>2, <2>3, BudgetAssumption DEF ExactlyUsed
  <2> QED  BY <2>3, <2>4, <1>3 DEF Limited, d
<1>5. ASSUME NEW t \in BOOLEAN, o = Untrimmed(st, k, t) PROVE Limited(o, c)
  <2>1. o.ring = DropFirst(st.ring, k) /\ o.spool = st.spool /\ o.used = st.used
    BY <1>5, StoreFields DEF Untrimmed
  <2> QED  BY <2>1, <1>3 DEF Limited, ExactlyUsed
<1> QED  BY <1>1, <1>4, <1>5, TrimsAtShapes

-----------------------------------------------------------------------------
(* LimitsKept, step by step.                                                *)

LEMMA LimitsAre ==
  ASSUME TypeOK
  PROVE  LimitsKept <=> Limited(Now, retain_from)
<1>1. Now.ring = ring /\ Now.spool = spool /\ Now.used = pool_used
  BY StoreFields DEF Now
<1>2. RingBounded <=> WithinBudget(ring)
  BY SizesAre DEF TypeOK, RingBounded, WithinBudget
<1> QED
  BY <1>1, <1>2 DEF LimitsKept, PoolExact, RingIsRetained, Limited, ExactlyUsed, NoneBehind

LEMMA MakeRoomLimited ==
  ASSUME LogInv, LimitsKept, NEW cost, NEW m, MakeRoom(cost, m)
  PROVE  /\ Limited(m, retain_from')
         /\ m.went = "room" => ~OverBudget(m.ring, cost)
<1>1. /\ TypeOK /\ others \in Nat /\ IsStore(Now) /\ HeldOf(Now) = Held
      /\ Limited(Now, retain_from) /\ Ordered(Held)
  <2>1. TypeOK /\ others \in Nat /\ head \in Cursor /\ Held \in Seq(Entry)
    BY HeldType DEF LogInv, TypeOK
  <2>2. Ordered(Held)
    BY <2>1, AnchoredOrdered DEF LogInv, Good
  <2> QED  BY <2>1, <2>2, NowIsStore, LimitsAre
<1>2. CASE m \in RoomsKeeping(cost) /\ UNCHANGED <<retain_from, fallback>>
  <2>1. m \in Spills(Now, cost) /\ retain_from' = retain_from
    BY <1>2 DEF RoomsKeeping
  <2> QED  BY <1>1, <2>1, SpillsLimited
<1>3. CASE m \in RoomsGivingUp(cost) /\ retain_from' = newest.resume /\ fallback' = None
  <2>1. PICK f \in Spills(Now, cost) :
          /\ f.went = "full" /\ CanGiveUp
          /\ \E o \in Trims(f, newest.resume) :
               m \in (IF o.went = "room" THEN Spills(o, cost) ELSE {o})
    BY <1>3, Zenon DEF RoomsGivingUp
  <2>2. PICK o \in Trims(f, newest.resume) :
          m \in (IF o.went = "room" THEN Spills(o, cost) ELSE {o})
    BY <2>1
  <2>3. newest.resume \in Cursor
    BY <1>1, <2>1 DEF CanGiveUp, TypeOK, Checkpoint
  <2>4. IsStore(f) /\ HeldOf(f) = Held /\ Limited(f, retain_from)
    BY <1>1, SpillsKeepHeld, SpillsLimited
  <2>5. Ordered(HeldOf(f))
    BY <1>1, <2>4
  <2>6. IsStore(o) /\ Limited(o, newest.resume)
    BY <1>1, <2>3, <2>4, <2>5, TrimsDropPrefix, TrimsLimited DEF Limited
  <2>7. CASE o.went = "room"
    <3>1. m \in Spills(o, cost)
      BY <2>2, <2>7
    <3> QED  BY <1>1, <1>3, <2>6, <3>1, SpillsLimited
  <2>8. CASE o.went # "room"
    <3>1. m = o
      BY <2>2, <2>8
    <3> QED  BY <1>3, <2>6, <2>8, <3>1
  <2> QED  BY <2>7, <2>8
<1> QED  BY <1>2, <1>3 DEF MakeRoom

(* Records appended past retain_from, when they fit the budget or are no    *)
(* output.                                                                  *)
LEMMA NoneBehindPush ==
  ASSUME NEW r \in Seq(Entry), NEW c \in Cursor, NoneBehind(r, c),
         NEW e \in Entry, c.rseq <= e.rseq
  PROVE  NoneBehind(Append(r, e), c)
<1> DEFINE t == Append(r, e)
<1>1. /\ Len(t) = Len(r) + 1 /\ t[Len(r) + 1] = e /\ \A i \in 1..Len(r) : t[i] = r[i]
  BY AppendProperties
<1>2. ~Includes(c, e)
  BY DEF Includes, Cursor, Entry
<1> HIDE DEF t
<1>3. ASSUME NEW i \in 1..Len(t) PROVE ~Includes(c, t[i])
  <2>1. i \in 1..Len(r) \/ i = Len(r) + 1
    BY <1>1
  <2> QED  BY <2>1, <1>1, <1>2 DEF NoneBehind
<1> QED  BY <1>3 DEF NoneBehind, t

LEMMA WithinBudgetPush ==
  ASSUME NEW r \in Seq(Entry), WithinBudget(r), NEW e \in Entry, e.kind # "data"
  PROVE  WithinBudget(Append(r, e))
<1> DEFINE t == Append(r, e)
<1>1. /\ t \in Seq(Entry) /\ Len(t) = Len(r) + 1 /\ t[Len(r) + 1] = e
      /\ \A i \in 1..Len(r) : t[i] = r[i]
  BY AppendProperties
<1>2. /\ Sized(t, DataCosts) = Sized(r, DataCosts) + DataCosts[e]
      /\ DataCosts[e] = 0 /\ Sized(r, DataCosts) \in Nat
  BY SizedAppend, SizedType, SizeTypes DEF DataCosts
<1> HIDE DEF t
<1>3. CASE Sized(r, DataCosts) <= RingBudget
  BY <1>2, <1>3 DEF WithinBudget, t
<1>4. CASE \A i, j \in 1..Len(r) : r[i].kind = "data" /\ r[j].kind = "data" => i = j
  <2>1. ASSUME NEW i \in 1..Len(t), NEW j \in 1..Len(t), t[i].kind = "data", t[j].kind = "data"
        PROVE  i = j
    <3>1. \A n \in 1..Len(t) : t[n].kind = "data" => n \in 1..Len(r) /\ t[n] = r[n]
      <4> TAKE n \in 1..Len(t)
      <4>1. n \in 1..Len(r) \/ n = Len(r) + 1
        BY <1>1
      <4> QED  BY <4>1, <1>1
    <3> QED  BY <2>1, <3>1, <1>4
  <2> QED  BY <2>1 DEF WithinBudget, t
<1> QED  BY <1>3, <1>4 DEF WithinBudget

(* All that a ring within its budget costs counts for its output too.       *)
LEMMA WithinBudgetWhole ==
  ASSUME NEW r \in Seq(Entry), TotalCost(r) <= RingBudget
  PROVE  WithinBudget(r)
<1>1. /\ Sized(r, DataCosts) <= TotalCost(r)
      /\ Sized(r, DataCosts) \in Nat /\ TotalCost(r) \in Nat
  BY DataWithinCost, SizesAre, SizedType, SizeTypes
<1> QED  BY <1>1, BudgetAssumption DEF WithinBudget

LEMMA CostAppend ==
  ASSUME NEW r \in Seq(Entry), NEW e \in Entry
  PROVE  TotalCost(Append(r, e)) = TotalCost(r) + Cost(e) /\ TotalCost(r) \in Nat
<1>1. Append(r, e) \in Seq(Entry)
  OBVIOUS
<1>2. Costs[e] = Cost(e)
  BY DEF Costs
<1> QED  BY <1>1, <1>2, SizesAre, SizedAppend, SizedType, SizeTypes

(* A Gap keeps the limits, whatever room there is: it is no output.         *)
LEMMA SettledLimited ==
  ASSUME TypeOK, NEW r \in Seq(Entry), WithinBudget(r),
         NEW c \in Cursor, NoneBehind(r, c), c.rseq <= head.rseq
  PROVE  /\ Settled(r) \in Seq(Entry)
         /\ WithinBudget(Settled(r)) /\ NoneBehind(Settled(r), c)
         /\ c.rseq <= SettledHead.rseq
<1>1. /\ Gap \in Entry /\ Before(Gap) = head /\ After(Gap).rseq = head.rseq + 1
      /\ Gap.kind = "gap" /\ Gap.rseq = head.rseq
  BY GapType DEF Gap
<1>2. c.rseq \in Nat /\ head.rseq \in Nat
  BY DEF TypeOK, Cursor
<1>3. CASE lost > 0
  <2>1. Settled(r) = Append(r, Gap) /\ SettledHead = After(Gap)
    BY <1>3 DEF Settled, SettledHead
  <2>2. WithinBudget(Append(r, Gap)) /\ NoneBehind(Append(r, Gap), c)
    BY <1>1, WithinBudgetPush, NoneBehindPush
  <2>3. c.rseq <= After(Gap).rseq
    BY <1>1, <1>2
  <2> QED  BY <1>1, <2>1, <2>2, <2>3, AppendProperties
<1>4. CASE ~(lost > 0)
  BY <1>4 DEF Settled, SettledHead
<1> QED  BY <1>3, <1>4

LEMMA BoundaryUpToHead ==
  ASSUME NEW s \in Seq(Entry), NEW h \in Cursor, Anchored(s, h), NEW c \in Cursor,
         IsBoundary(c, s, h)
  PROVE  c.rseq <= h.rseq
<1>1. h.rseq \in Nat /\ Len(s) \in Nat
  BY DEF Cursor
<1>2. CASE c = h
  BY <1>1, <1>2
<1>3. CASE c # h
  <2>1. PICK i \in 1..Len(s) : c = Before(s[i])
    BY <1>3 DEF IsBoundary
  <2>2. s[i] \in Entry /\ s[i].rseq = h.rseq - Len(s) + (i - 1)
    BY Zenon, ElementOfSeq DEF Anchored
  <2>3. c.rseq = s[i].rseq
    BY <2>1, <2>2, BeforeAfterType
  <2> QED  BY <2>2, <2>3, <1>1, SMT
<1> QED  BY <1>2, <1>3

(* A record of output only follows when make_room found it room, its Gap    *)
(* included.                                                                *)
LEMMA PushLimited ==
  ASSUME TypeOK, NEW r \in Seq(Entry), WithinBudget(r),
         NEW c \in Cursor, NoneBehind(r, c), c.rseq <= head.rseq,
         NEW len \in Nat, NEW kind \in {"data", "gap", "resize", "exit"}, Push(r, kind, len),
         kind = "data" => ~OverBudget(r, 1 + len + IF lost > 0 THEN 1 ELSE 0)
  PROVE  WithinBudget(ring') /\ NoneBehind(ring', c)
<1> DEFINE e == [rseq |-> SettledHead.rseq, off |-> SettledHead.off,
                 kind |-> kind, len |-> len]
<1>1. ring' = Append(Settled(r), e)
  BY DEF Push
<1>2. /\ Settled(r) \in Seq(Entry) /\ WithinBudget(Settled(r)) /\ NoneBehind(Settled(r), c)
      /\ c.rseq <= SettledHead.rseq
  BY SettledLimited
<1>3. SettledHead \in Cursor
  <2>1. Gap \in Entry /\ After(Gap) \in Cursor
    BY GapType, BeforeAfterType
  <2> QED  BY <2>1 DEF SettledHead, TypeOK
<1>4. e \in Entry /\ e.rseq = SettledHead.rseq /\ e.kind = kind /\ e.len = len
  BY <1>3 DEF Entry, Cursor
<1> HIDE DEF e
<1>5. NoneBehind(ring', c)
  BY <1>1, <1>2, <1>4, NoneBehindPush
<1>6. CASE kind # "data"
  BY <1>1, <1>2, <1>4, <1>5, <1>6, WithinBudgetPush
<1>7. CASE kind = "data"
  <2> DEFINE owed == IF lost > 0 THEN 1 ELSE 0
  <2>1. Cost(e) = 1 + len /\ DataCosts[e] = 1 + len
    BY <1>4, <1>7 DEF Cost, DataCosts
  <2>2. r = <<>> \/ TotalCost(r) + (1 + len + owed) <= RingBudget
    <3>1. TotalCost(r) \in Nat
      BY SizesAre, SizedType, SizeTypes
    <3>2. ~OverBudget(r, 1 + len + owed)
      BY <1>7
    <3> HIDE DEF owed
    <3>3. owed \in Nat
      BY DEF owed
    <3> QED  BY <3>1, <3>2, <3>3, BudgetAssumption DEF OverBudget
  <2>3. CASE r = <<>>
    <3>1. \A i \in 1..Len(Settled(r)) : Settled(r)[i].kind # "data"
      BY <2>3 DEF Settled, Gap
    <3>2. /\ Len(ring') = Len(Settled(r)) + 1
          /\ \A i \in 1..Len(Settled(r)) : ring'[i] = Settled(r)[i]
      BY <1>1, <1>2, <1>4, AppendProperties
    <3>3. ASSUME NEW i \in 1..Len(ring'), ring'[i].kind = "data"
          PROVE  i = Len(Settled(r)) + 1
      <4>1. i \in 1..Len(Settled(r)) \/ i = Len(Settled(r)) + 1
        BY <1>2, <3>2
      <4> QED  BY <3>1, <3>2, <3>3, <4>1
    <3> QED  BY <3>3, <1>5 DEF WithinBudget
  <2>4. CASE TotalCost(r) + (1 + len + owed) <= RingBudget
    <3>1. TotalCost(Settled(r)) = TotalCost(r) + owed /\ TotalCost(r) \in Nat
      <4>0. TotalCost(r) \in Nat
        BY SizesAre, SizedType, SizeTypes
      <4>1. CASE lost > 0
        <5>1. Gap \in Entry /\ Cost(Gap) = 1
          BY GapType DEF Gap, Cost
        <5> QED  BY <4>1, <5>1, CostAppend DEF Settled
      <4>2. CASE ~(lost > 0)
        BY <4>0, <4>2 DEF Settled
      <4> QED  BY <4>1, <4>2
    <3>2. TotalCost(ring') = TotalCost(Settled(r)) + Cost(e)
      BY <1>1, <1>2, <1>4, CostAppend
    <3>3. TotalCost(ring') <= RingBudget
      <4>1. owed \in Nat
        OBVIOUS
      <4> HIDE DEF owed
      <4> QED  BY <2>1, <2>4, <3>1, <3>2, <4>1, BudgetAssumption
    <3>4. ring' \in Seq(Entry)
      BY <1>1, <1>2, <1>4, AppendProperties
    <3> QED  BY <1>5, <3>3, <3>4, WithinBudgetWhole
  <2> QED  BY <2>2, <2>3, <2>4
<1> QED  BY <1>6, <1>7

(* What each append keeps, given what make_room left.                       *)
LEMMA LimitsNext ==
  ASSUME LogInv', NEW u, NEW s, NEW r, NEW c,
         others' \in Nat, spool' = s, pool_used' = u, ring' = r, retain_from' = c,
         u = others' + SpoolBytes(s), u <= PoolCap, SpoolBytes(s) <= SpoolBudget,
         WithinBudget(r), NoneBehind(r, c)
  PROVE  LimitsKept'
<1>1. ring' \in Seq(Entry) /\ spool' \in Seq(Entry)
  BY DEF LogInv, TypeOK
<1>2. RingBounded'
  <2>1. WithinBudget(ring')
    OBVIOUS
  <2> QED  BY <1>1, <2>1, SizesAre DEF RingBounded, WithinBudget
<1>3. PoolExact' /\ RingIsRetained'
  BY DEF PoolExact, RingIsRetained, NoneBehind, SpoolBytes
<1> QED  BY <1>2, <1>3 DEF LimitsKept

LEMMA AppendDataLimited ==
  ASSUME LogInv, LimitsKept, NEW n \in Nat, AppendData(n)
  PROVE  LimitsKept'
<1> DEFINE cost == 1 + n + IF lost > 0 THEN 1 ELSE 0
<1>1. PICK m : /\ MakeRoom(cost, m)
               /\ \/ m.went = "room" /\ Push(m.ring, "data", n)
                  \/ ring' = m.ring
  BY DEF AppendData
<1>2. /\ Limited(m, retain_from')
      /\ m.went = "room" => ~OverBudget(m.ring, cost)
  BY <1>1, MakeRoomLimited
<1>3. /\ IsStore(m) /\ retain_from' \in Cursor
      /\ Good(HeldOf(m), head, retain_from', newest, fallback')
  BY <1>1, MakeRoomKeepsGood
<1>4. /\ TypeOK /\ head \in Cursor /\ others \in Nat /\ others' = others
      /\ spool' = m.spool /\ pool_used' = m.used /\ LogInv'
      /\ m.ring \in Seq(Entry) /\ HeldOf(m) \in Seq(Entry)
  <2>1. spool' = m.spool /\ pool_used' = m.used
    BY <1>1 DEF MakeRoom
  <2>2. LogInv' /\ others' = others
    BY AppendDataStep DEF LogStep, AppendData
  <2>3. m.ring \in Seq(Entry) /\ HeldOf(m) \in Seq(Entry)
    BY <1>3, ConcatProperties DEF IsStore, HeldOf
  <2> QED  BY <2>1, <2>2, <2>3 DEF LogInv, TypeOK
<1>5. retain_from'.rseq <= head.rseq
  BY <1>3, <1>4, BoundaryUpToHead DEF Good
<1>6. WithinBudget(ring') /\ NoneBehind(ring', retain_from')
  <2>1. CASE m.went = "room" /\ Push(m.ring, "data", n)
    BY <2>1, <1>2, <1>3, <1>4, <1>5, PushLimited DEF Limited
  <2>2. CASE ring' = m.ring
    BY <2>2, <1>2 DEF Limited
  <2> QED  BY <2>1, <2>2, <1>1
<1> HIDE DEF cost
<1> QED  BY <1>2, <1>4, <1>6, LimitsNext DEF Limited, ExactlyUsed

LEMMA AppendControlLimited ==
  ASSUME LogInv, LimitsKept, NEW kind \in {"resize", "exit"}, AppendControl(kind)
  PROVE  LimitsKept'
<1>1. PICK m : MakeRoom(1, m) /\ Push(m.ring, kind, 0)
  BY DEF AppendControl
<1>2. Limited(m, retain_from')
  BY <1>1, MakeRoomLimited
<1>3. /\ IsStore(m) /\ retain_from' \in Cursor
      /\ Good(HeldOf(m), head, retain_from', newest, fallback')
  BY <1>1, MakeRoomKeepsGood
<1>4. /\ TypeOK /\ head \in Cursor /\ others \in Nat /\ others' = others
      /\ spool' = m.spool /\ pool_used' = m.used /\ LogInv'
      /\ m.ring \in Seq(Entry) /\ HeldOf(m) \in Seq(Entry)
  <2>1. spool' = m.spool /\ pool_used' = m.used
    BY <1>1 DEF MakeRoom
  <2>2. LogInv' /\ others' = others
    BY AppendControlStep DEF LogStep, AppendControl
  <2>3. m.ring \in Seq(Entry) /\ HeldOf(m) \in Seq(Entry)
    BY <1>3, ConcatProperties DEF IsStore, HeldOf
  <2> QED  BY <2>1, <2>2, <2>3 DEF LogInv, TypeOK
<1>5. retain_from'.rseq <= head.rseq
  BY <1>3, <1>4, BoundaryUpToHead DEF Good
<1>6. WithinBudget(ring') /\ NoneBehind(ring', retain_from')
  BY <1>1, <1>2, <1>3, <1>4, <1>5, PushLimited DEF Limited
<1> QED  BY <1>2, <1>4, <1>6, LimitsNext DEF Limited, ExactlyUsed

LEMMA SettleGapLimited ==
  ASSUME LogInv, LimitsKept, SettleGap, lost > 0
  PROVE  LimitsKept'
<1>1. /\ ring' = Settled(ring) /\ retain_from' = retain_from /\ others' = others
      /\ spool' = spool /\ pool_used' = pool_used /\ LogInv'
  BY SettleGapStep DEF SettleGap, LogStep
<1>2. /\ TypeOK /\ retain_from \in Cursor /\ head \in Cursor /\ others \in Nat
      /\ ring \in Seq(Entry) /\ Held \in Seq(Entry) /\ Limited(Now, retain_from)
  BY HeldType, LimitsAre DEF LogInv, TypeOK
<1>3. Now.ring = ring /\ Now.spool = spool /\ Now.used = pool_used
  BY StoreFields DEF Now
<1>4. retain_from.rseq <= head.rseq
  BY <1>2, BoundaryUpToHead DEF LogInv, Good
<1>5. WithinBudget(Settled(ring)) /\ NoneBehind(Settled(ring), retain_from)
  BY <1>2, <1>3, <1>4, SettledLimited DEF Limited
<1> QED  BY <1>1, <1>2, <1>3, <1>5, LimitsNext DEF Limited, ExactlyUsed

LEMMA PutCheckpointLimited ==
  ASSUME LogInv, LimitsKept, NEW cp \in Checkpoint, PutCheckpoint(cp)
  PROVE  LimitsKept'
<1> DEFINE keep == IF newest = None THEN retain_from ELSE newest.resume
<1>1. PICK t \in Trims(Now, keep) : ring' = t.ring /\ spool' = t.spool /\ pool_used' = t.used
  BY DEF PutCheckpoint
<1>2. retain_from' = keep /\ others' = others /\ LogInv'
  BY PutCheckpointStep DEF PutCheckpoint, LogStep
<1>3. keep \in Cursor
  BY DEF LogInv, TypeOK, Checkpoint
<1> HIDE DEF keep
<1>4. /\ TypeOK /\ others \in Nat /\ IsStore(Now) /\ Limited(Now, retain_from)
      /\ Ordered(HeldOf(Now))
  <2>1. TypeOK /\ others \in Nat /\ head \in Cursor /\ Held \in Seq(Entry)
    BY HeldType DEF LogInv, TypeOK
  <2>2. Ordered(Held)
    BY <2>1, AnchoredOrdered DEF LogInv, Good
  <2> QED  BY <2>1, <2>2, NowIsStore, LimitsAre
<1>5. Limited(t, keep)
  BY <1>1, <1>3, <1>4, TrimsLimited DEF Limited
<1> QED  BY <1>1, <1>2, <1>4, <1>5, LimitsNext DEF Limited, ExactlyUsed

LEMMA OthersSpoolLimited ==
  ASSUME LogInv, LimitsKept, NEW n \in Nat, OthersSpool(n)
  PROVE  LimitsKept'
<1>1. /\ ring' = ring /\ retain_from' = retain_from /\ others' = n
      /\ spool' = spool /\ pool_used' = pool_used + (n - others) /\ LogInv'
      /\ pool_used + (n - others) <= PoolCap
  BY OthersSpoolStep DEF OthersSpool, LogStep
<1>2. /\ TypeOK /\ others \in Nat /\ spool \in Seq(Entry) /\ Limited(Now, retain_from)
  BY LimitsAre DEF LogInv, TypeOK
<1>3. Now.ring = ring /\ Now.spool = spool /\ Now.used = pool_used
  BY StoreFields DEF Now
<1>4. SpoolBytes(spool) \in Nat
  <2>1. 0 \in 0..Len(spool)
    BY <1>2
  <2> QED  BY <1>2, <2>1, SpoolBytesBounds
<1>5. pool_used + (n - others) = n + SpoolBytes(spool) /\ SpoolBytes(spool) <= SpoolBudget
  BY <1>2, <1>3, <1>4 DEF Limited, ExactlyUsed
<1> QED  BY <1>1, <1>2, <1>3, <1>5, LimitsNext DEF Limited

LEMMA StutterLimited ==
  ASSUME LogInv, LimitsKept, UNCHANGED logVars
  PROVE  LimitsKept'
BY DEF logVars, LimitsKept, PoolExact, RingBounded, RingIsRetained, SpoolBytes

LEMMA BoundaryCheckpoint ==
  ASSUME LogInv, NEW c \in Boundaries, NEW b \in Blobs
  PROVE  [resume |-> c, blob |-> b] \in Checkpoint
<1>1. TypeOK /\ Held \in Seq(Entry) /\ head \in Cursor
  BY HeldType DEF LogInv, TypeOK
<1>2. ASSUME NEW i \in 1..Len(Held) PROVE Before(Held[i]) \in Cursor
  BY <1>1, BeforeAfterType
<1>3. c \in Cursor
  BY <1>1, <1>2 DEF Boundaries, BoundariesOf
<1> QED  BY <1>3 DEF Checkpoint

LEMMA NextLimited ==
  ASSUME LogInv, LimitsKept, [LogNext]_logVars
  PROVE  LimitsKept'
<1>1. ASSUME NEW n \in Lens, AppendData(n) PROVE LimitsKept'
  BY <1>1, AppendDataLimited, LensAssumption
<1>2. ASSUME NEW kind \in {"resize", "exit"}, AppendControl(kind) PROVE LimitsKept'
  BY <1>2, AppendControlLimited
<1>3. ASSUME lost > 0, SettleGap PROVE LimitsKept'
  BY <1>3, SettleGapLimited
<1>4. ASSUME NEW c \in Boundaries, NEW b \in Blobs, PutCheckpoint([resume |-> c, blob |-> b])
      PROVE  LimitsKept'
  BY <1>4, BoundaryCheckpoint, PutCheckpointLimited
<1>5. ASSUME NEW n \in OthersHold, OthersSpool(n) PROVE LimitsKept'
  BY <1>5, OthersSpoolLimited, LensAssumption
<1>6. ASSUME UNCHANGED logVars PROVE LimitsKept'
  BY <1>6, StutterLimited
<1> QED  BY <1>1, <1>2, <1>3, <1>4, <1>5, <1>6 DEF LogNext

(* The pool is charged exactly what the spool holds, on every path a        *)
(* failing disk can take, no cap is passed, and the ring holds neither more *)
(* output than its budget nor a record it was entitled to drop.             *)
THEOREM LimitsAlwaysKept == LogSpec => []LimitsKept
<1>1. LogInit => LimitsKept
  <2> SUFFICES ASSUME LogInit PROVE LimitsKept
    OBVIOUS
  <2>1. ring = <<>> /\ spool = <<>> /\ pool_used = 0 /\ others = 0
    BY DEF LogInit
  <2>2. PoolExact /\ RingIsRetained
    BY <2>1, BudgetAssumption DEF PoolExact, RingIsRetained, SpoolBytes
  <2>3. RingBounded
    BY <2>1 DEF RingBounded
  <2> QED  BY <2>2, <2>3 DEF LimitsKept
<1>2. LogInv /\ LimitsKept /\ [LogNext]_logVars => LimitsKept'
  BY NextLimited
<1> QED  BY <1>1, <1>2, LogInvariant, PTL DEF LogSpec

-----------------------------------------------------------------------------
(* Backpressure.  Once the older checkpoint is at head the ring is empty,   *)
(* and an empty ring is over no budget.                                     *)

LEMMA AnchoredBehindHead ==
  ASSUME NEW s \in Seq(Entry), NEW h \in Cursor, Anchored(s, h), s # <<>>
  PROVE  Includes(h, s[Len(s)])
<1>1. Len(s) \in 1..Len(s) /\ Len(s) \in Nat /\ h.rseq \in Nat
  BY DEF Cursor
<1>2. s[Len(s)].rseq = h.rseq - Len(s) + (Len(s) - 1)
  BY <1>1, Zenon DEF Anchored
<1> QED  BY <1>1, <1>2 DEF Includes

LEMMA AnchoredRing ==
  ASSUME TypeOK, Anchored(Held, head)
  PROVE  Anchored(ring, head)
<1>1. /\ Held \in Seq(Entry) /\ head \in Cursor /\ spool \in Seq(Entry) /\ ring \in Seq(Entry)
      /\ Held = spool \o ring /\ Len(spool) \in Nat /\ Len(ring) \in Nat
  BY HeldParts
<1>2. 0 \in 0..Len(ring) /\ DropFirst(ring, 0) = ring
  BY <1>1, DropFirstNone
<1>3. Len(spool) + 0 \in 0..Len(Held) /\ ring = DropFirst(Held, Len(spool) + 0)
  BY <1>1, <1>2, DropPastConcat
<1> QED  BY <1>1, <1>3, AnchoredDrop

(* An empty ring is over no budget, whatever the spool is like.             *)
LEMMA EmptyRingTakes ==
  ASSUME NEW st, st.ring = <<>>
  PROVE  TakesAnyRecord(st)
<1>1. ASSUME NEW cost, NEW m \in Spills(st, cost) PROVE m.went = "room"
  <2>1. Len(st.ring) = 0
    OBVIOUS
  <2>2. PICK k \in 0..Len(st.ring) : m \in SpillsAt(st, k, cost)
    BY DEF Spills
  <2>3. DropFirst(st.ring, k) = <<>>
    BY <2>1, <2>2 DEF DropFirst
  <2>4. m = Moved(st, k, st.torn, "room")
    BY <2>2, <2>3 DEF SpillsAt, OverBudget
  <2> DEFINE s == st.spool \o SubSeq(st.ring, 1, k)
             d == DropFirst(st.ring, k)
             u == st.used + SpoolBytes(s) - SpoolBytes(st.spool)
  <2>5. m = Store(d, s, st.torn, u, "room")
    BY <2>4, Zenon DEF Moved
  <2> HIDE DEF d, s, u
  <2> QED  BY <2>5, StoreFields
<1> QED  BY <1>1 DEF TakesAnyRecord

(* A state at head includes every record of the ring.                       *)
LEMMA HeadIncludesRing ==
  ASSUME LogInv
  PROVE  ring \in Seq(Entry) /\ \A i \in 1..Len(ring) : Includes(head, ring[i])
<1>1. Anchored(ring, head) /\ ring \in Seq(Entry) /\ head \in Cursor
  BY AnchoredRing DEF LogInv, Good, TypeOK
<1>2. ASSUME NEW i \in 1..Len(ring) PROVE Includes(head, ring[i])
  <2>1. ring[i].rseq = head.rseq - Len(ring) + (i - 1)
    BY <1>1, Zenon DEF Anchored
  <2>2. head.rseq \in Nat /\ Len(ring) \in Nat
    BY <1>1 DEF Cursor
  <2> QED  BY <2>1, <2>2 DEF Includes
<1> QED  BY <1>1, <1>2

LEMMA NothingToRelease ==
  ASSUME LogInv, LimitsKept, retain_from = head
  PROVE  TakesAnyRecord(Now)
<1>1. ring = <<>>
  <2>1. ring \in Seq(Entry) /\ \A i \in 1..Len(ring) : Includes(head, ring[i])
    BY HeadIncludesRing
  <2>2. \A i \in 1..Len(ring) : ~Includes(head, ring[i])
    BY DEF LimitsKept, RingIsRetained
  <2>3. ring # <<>> => Len(ring) \in 1..Len(ring)
    BY <2>1
  <2> QED  BY <2>1, <2>2, <2>3, Zenon
<1>2. Now.ring = <<>>
  BY <1>1, StoreFields DEF Now
<1> QED  BY <1>2, EmptyRingTakes

(* Trimmed behind head the ring is empty, also when the spool's part of the *)
(* trim fails.                                                              *)
LEMMA TrimAtHeadReleases ==
  ASSUME LogInv, NEW t \in Trims(Now, head)
  PROVE  TakesAnyRecord(t)
<1>1. ring \in Seq(Entry) /\ \A i \in 1..Len(ring) : Includes(head, ring[i])
  BY HeadIncludesRing
<1>2. Now.ring = ring
  BY StoreFields DEF Now
<1>3. PICK k \in 0..Len(Now.ring), j \in 0..Len(Now.spool) :
        t \in TrimsAt(Now, k, j) /\ Leads(Now.ring, head, k)
  BY DEF Trims
<1>4. k = Len(ring)
  <2>1. k \in 0..Len(ring) /\ Leads(ring, head, k)
    BY <1>2, <1>3, Zenon
  <2>2. k < Len(ring) => k + 1 \in 1..Len(ring)
    BY <1>1, <2>1
  <2>3. ~(k < Len(ring))
    BY <1>1, <2>1, <2>2, Zenon DEF Leads
  <2> QED  BY <1>1, <2>1, <2>3
<1>5. DropFirst(ring, k) = <<>>
  BY <1>1, <1>4 DEF DropFirst
<1>6. IsStore(Now)
  BY NowIsStore DEF LogInv
<1>7. t.ring = DropFirst(Now.ring, k)
  <2>1. ASSUME NEW w, t = Trimmed(Now, k, j, w) PROVE t.ring = DropFirst(Now.ring, k)
    <3> DEFINE u == Now.used + SpoolBytes(DropFirst(Now.spool, j)) - SpoolBytes(Now.spool)
               v == IF j = 0 THEN Now.torn ELSE FALSE
    <3>1. t = Store(DropFirst(Now.ring, k), DropFirst(Now.spool, j), v, u, w)
      BY <2>1, Zenon DEF Trimmed
    <3> HIDE DEF u, v
    <3> QED  BY <3>1, StoreFields
  <2>2. ASSUME NEW v, t = Untrimmed(Now, k, v) PROVE t.ring = DropFirst(Now.ring, k)
    <3>1. t = Store(DropFirst(Now.ring, k), Now.spool, v, Now.used, "failed")
      BY <2>2, Zenon DEF Untrimmed
    <3> QED  BY <3>1, StoreFields
  <2> QED  BY <1>3, <1>6, <2>1, <2>2, TrimsAtShapes
<1>8. t.ring = <<>>
  BY <1>2, <1>5, <1>7, Zenon
<1> QED  BY <1>8, EmptyRingTakes

(* A session held back by a full log can print again once both of the       *)
(* checkpoints kept are at head: with the older one there nothing is        *)
(* refused, and with only the newest there the next one stored there leads  *)
(* to that, whatever the disk does.                                         *)
THEOREM CheckpointsAlwaysRelease == LogSpec => []CheckpointsReleaseBlock
<1>1. LogInv /\ LimitsKept => CheckpointsReleaseBlock
  <2> SUFFICES ASSUME LogInv, LimitsKept PROVE CheckpointsReleaseBlock
    OBVIOUS
  <2>1. retain_from = head => TakesAnyRecord(Now)
    BY NothingToRelease
  <2>2. newest # None /\ newest.resume = head =>
          \A t \in Trims(Now, newest.resume) : TakesAnyRecord(t)
    BY TrimAtHeadReleases
  <2> QED  BY <2>1, <2>2 DEF CheckpointsReleaseBlock
<1> QED  BY <1>1, LogInvariant, LimitsAlwaysKept, PTL

-----------------------------------------------------------------------------
(* A batch.  read_batch takes the longest prefix that fits of the spool's   *)
(* part, and of the ring's when the spool's was taken whole.                *)

LEMMA BudgetedIs ==
  ASSUME NEW s \in Seq(Entry), NEW taken \in Nat, NEW max \in Nat, NEW first \in BOOLEAN
  PROVE  \E k \in 0..Len(s) :
           /\ Budgeted(s, taken, first, max) = SubSeq(s, 1, k)
           /\ \/ k = 0 \/ (first /\ k = 1)
              \/ taken + TotalLen(SubSeq(s, 1, k)) <= max
           /\ first /\ s # <<>> => k # 0
<1> DEFINE fits == {k \in 0..Len(s) : \/ k = 0 \/ (first /\ k = 1)
                                     \/ taken + TotalLen(SubSeq(s, 1, k)) <= max}
           k == CHOOSE k \in fits : \A j \in fits : j <= k
<1>1. fits \in SUBSET (0..Len(s)) /\ 0 \in fits /\ Len(s) \in Nat
  OBVIOUS
<1>2. first /\ s # <<>> => 1 \in fits
  OBVIOUS
<1>3. \A j \in fits : \/ j = 0 \/ (first /\ j = 1)
                      \/ taken + TotalLen(SubSeq(s, 1, j)) <= max
  OBVIOUS
<1>4. Budgeted(s, taken, first, max) = SubSeq(s, 1, k)
  BY DEF Budgeted
<1> HIDE DEF fits
<1>5. \E m \in fits : \A j \in fits : j <= m
  BY <1>1, GreatestExists
<1>6. k \in fits /\ \A j \in fits : j <= k
  BY <1>5
<1> HIDE DEF k
<1>7. first /\ s # <<>> => k # 0
  <2>1. 1 \in fits => 1 <= k
    BY <1>6
  <2> QED  BY <1>2, <2>1
<1> QED  BY <1>1, <1>3, <1>4, <1>6, <1>7

LEMMA TakeOfConcat ==
  ASSUME NEW s \in Seq(Entry), NEW r \in Seq(Entry)
  PROVE  /\ \A k \in 0..Len(s) : SubSeq(s \o r, 1, k) = SubSeq(s, 1, k)
         /\ \A j \in 0..Len(r) : SubSeq(s \o r, 1, Len(s) + j) = s \o SubSeq(r, 1, j)
<1> DEFINE w == s \o r
<1>1. /\ w \in Seq(Entry) /\ Len(w) = Len(s) + Len(r)
      /\ \A i \in 1..Len(s) : w[i] = s[i]
      /\ \A i \in 1..Len(r) : w[Len(s) + i] = r[i]
  BY ConcatPointwise
<1> HIDE DEF w
<1>2. ASSUME NEW k \in 0..Len(s) PROVE SubSeq(w, 1, k) = SubSeq(s, 1, k)
  <2>1. k \in 0..Len(w)
    BY <1>1
  <2>2. /\ SubSeq(w, 1, k) \in Seq(Entry) /\ Len(SubSeq(w, 1, k)) = k
        /\ \A i \in 1..k : SubSeq(w, 1, k)[i] = w[i]
    BY <1>1, <2>1, TakeProperties
  <2>3. /\ SubSeq(s, 1, k) \in Seq(Entry) /\ Len(SubSeq(s, 1, k)) = k
        /\ \A i \in 1..k : SubSeq(s, 1, k)[i] = s[i]
    BY TakeProperties
  <2>4. \A i \in 1..k : SubSeq(w, 1, k)[i] = SubSeq(s, 1, k)[i]
    <3>1. \A i \in 1..k : i \in 1..Len(s)
      OBVIOUS
    <3> QED  BY <2>2, <2>3, <3>1, <1>1, Zenon
  <2> QED  BY <2>2, <2>3, <2>4, SeqEqual, Zenon
<1>3. ASSUME NEW j \in 0..Len(r) PROVE SubSeq(w, 1, Len(s) + j) = s \o SubSeq(r, 1, j)
  <2> DEFINE b == SubSeq(r, 1, j)
             v == s \o b
             n == Len(s) + j
  <2>1. b \in Seq(Entry) /\ Len(b) = j /\ \A i \in 1..j : b[i] = r[i]
    BY TakeProperties
  <2>2. n \in 0..Len(w)
    BY <1>1
  <2> HIDE DEF b, n
  <2>3. /\ v \in Seq(Entry) /\ Len(v) = Len(s) + Len(b)
        /\ \A i \in 1..Len(s) : v[i] = s[i]
        /\ \A i \in 1..Len(b) : v[Len(s) + i] = b[i]
    <3>1. b \in Seq(Entry)
      BY <2>1
    <3> QED  BY <3>1, ConcatPointwise
  <2> HIDE DEF v
  <2>4. /\ SubSeq(w, 1, n) \in Seq(Entry) /\ Len(SubSeq(w, 1, n)) = n
        /\ \A i \in 1..n : SubSeq(w, 1, n)[i] = w[i]
    BY <1>1, <2>2, TakeProperties
  <2>5. n = Len(v)
    BY <2>1, <2>3 DEF n
  <2>6. ASSUME NEW i \in 1..n PROVE w[i] = v[i]
    <3>1. CASE i <= Len(s)
      <4>1. i \in 1..Len(s)
        BY <3>1, <2>2
      <4> QED  BY <4>1, <1>1, <2>3
    <3>2. CASE i > Len(s)
      <4> DEFINE x == i - Len(s)
      <4>1. x \in 1..j /\ x \in 1..Len(r) /\ i = Len(s) + x
        BY <3>2 DEF n
      <4> HIDE DEF x
      <4>2. w[i] = r[x] /\ v[i] = b[x] /\ b[x] = r[x]
        BY <4>1, <1>1, <2>1, <2>3
      <4> QED  BY <4>2
    <3>3. i <= Len(s) \/ i > Len(s)
      BY <2>2
    <3> QED  BY <3>1, <3>2, <3>3, Zenon
  <2>7. SubSeq(w, 1, n) = v
    BY <2>3, <2>4, <2>5, <2>6, SeqEqual, Zenon
  <2> QED  BY <2>7 DEF n, v, b
<1> QED  BY <1>2, <1>3 DEF w

LEMMA RunPrefix ==
  ASSUME NEW c, NEW d, NEW w \in Seq(Entry), IsRun(c, w, d), NEW p \in 1..Len(w)
  PROVE  IsRun(c, SubSeq(w, 1, p), After(SubSeq(w, 1, p)[Len(SubSeq(w, 1, p))]))
<1> DEFINE v == SubSeq(w, 1, p)
<1>1. v \in Seq(Entry) /\ Len(v) = p /\ \A i \in 1..p : v[i] = w[i]
  <2>1. p \in 0..Len(w)
    OBVIOUS
  <2> QED  BY <2>1, TakeProperties
<1> HIDE DEF v
<1>2. v # <<>>
  BY <1>1
<1>3. ASSUME NEW i \in 1..Len(v)
      PROVE  /\ v[i].rseq = c.rseq + (i - 1)
             /\ v[i].off = IF i = 1 THEN c.off ELSE v[i - 1].off + v[i - 1].len
  <2>1. i \in 1..Len(w) /\ v[i] = w[i] /\ (i # 1 => v[i - 1] = w[i - 1])
    <3>1. i \in 1..p /\ i \in 1..Len(w) /\ (i # 1 => i - 1 \in 1..p)
      BY <1>1
    <3> QED  BY <1>1, <3>1, Zenon
  <2>2. /\ w[i].rseq = c.rseq + (i - 1)
        /\ w[i].off = IF i = 1 THEN c.off ELSE w[i - 1].off + w[i - 1].len
    BY <2>1, Zenon DEF IsRun
  <2> QED  BY <2>1, <2>2, Zenon
<1> QED  BY <1>2, <1>3, Zenon DEF IsRun, v

LEMMA LenTotal ==
  ASSUME NEW s \in Seq(Entry)
  PROVE  TotalLen(s) \in Nat /\ 0 + TotalLen(s) = TotalLen(s)
<1>1. TotalLen(s) \in Nat
  BY SizesAre, SizedType, SizeTypes
<1> QED  BY <1>1

LEMMA LenJoin ==
  ASSUME NEW s \in Seq(Entry), NEW r \in Seq(Entry)
  PROVE  TotalLen(s \o r) = TotalLen(s) + TotalLen(r)
<1>1. s \o r \in Seq(Entry)
  BY ConcatPointwise
<1> QED  BY <1>1, SizesAre, SizedJoin, SizeTypes

(* The ring begins where the spool ends.                                    *)
LEMMA RingFirstIs ==
  ASSUME TypeOK, Anchored(Held, head)
  PROVE  RingFirst = head.rseq - Len(ring)
<1>1. ring \in Seq(Entry) /\ head.rseq \in Nat /\ Len(ring) \in Nat
  BY HeldParts
<1>2. CASE ring = <<>>
  BY <1>1, <1>2 DEF RingFirst
<1>3. CASE ring # <<>>
  <2>1. Anchored(ring, head) /\ 1 \in 1..Len(ring)
    BY <1>3, <1>1, AnchoredRing
  <2>2. ring[1].rseq = head.rseq - Len(ring) + (1 - 1)
    BY <2>1, Zenon DEF Anchored
  <2> QED  BY <1>3, <2>2, <1>1 DEF RingFirst
<1> QED  BY <1>2, <1>3

(* What a batch asks of the spool: the first k of its records after c, when *)
(* it holds any.                                                            *)
LEMMA BatchAsks ==
  ASSUME TypeOK, Anchored(Held, head), NEW c \in Cursor, NEW n, SplitAt(c, n),
         c # head, NEW max \in Nat
  PROVE  /\ n >= Len(spool) => BatchDue(c, max) = <<>> /\ c.rseq >= RingFirst
         /\ n < Len(spool) =>
              /\ c.rseq < RingFirst
              /\ \E k \in 1..Len(DropFirst(spool, n)) :
                   /\ BatchDue(c, max) = SubSeq(DropFirst(spool, n), 1, k)
                   /\ k = 1 \/ TotalLen(SubSeq(DropFirst(spool, n), 1, k)) <= max
<1>1. /\ spool \in Seq(Entry) /\ head.rseq \in Nat /\ c.rseq \in Nat
      /\ Len(spool) \in Nat /\ Len(ring) \in Nat /\ Len(Held) = Len(spool) + Len(ring)
  BY HeldParts DEF Cursor
<1>2. /\ n \in 0..Len(Held) /\ c.rseq = head.rseq - Len(Held) + n
      /\ n <= Len(spool) => Leads(spool, c, n) /\ Leads(ring, c, 0)
  BY DEF SplitAt
<1>3. RingFirst = head.rseq - Len(ring)
  BY RingFirstIs
<1>4. c.rseq < RingFirst <=> n < Len(spool)
  BY <1>1, <1>2, <1>3
<1>5. ASSUME n >= Len(spool) PROVE BatchDue(c, max) = <<>> /\ c.rseq >= RingFirst
  <2>1. ~(c.rseq < RingFirst)
    BY <1>1, <1>2, <1>4, <1>5
  <2>2. c.rseq >= RingFirst
    BY <2>1, <1>1, <1>3
  <2> QED  BY <2>1, <2>2, Zenon DEF BatchDue
<1>6. ASSUME n < Len(spool)
      PROVE  /\ c.rseq < RingFirst
             /\ \E k \in 1..Len(DropFirst(spool, n)) :
                  /\ BatchDue(c, max) = SubSeq(DropFirst(spool, n), 1, k)
                  /\ k = 1 \/ TotalLen(SubSeq(DropFirst(spool, n), 1, k)) <= max
  <2> DEFINE a == DropFirst(spool, n)
  <2>1. a \in Seq(Entry) /\ Len(a) = Len(spool) - n
    BY <1>1, <1>2, <1>6, DropFirstProperties
  <2>2. Suffix(spool, c) = a
    BY <1>1, <1>2, <1>6, SuffixDrops
  <2> HIDE DEF a
  <2>3. c.rseq < RingFirst
    BY <1>4, <1>6
  <2>4. BatchDue(c, max) = Budgeted(a, 0, TRUE, max)
    BY <2>2, <2>3, Zenon DEF BatchDue
  <2>5. a # <<>>
    <3>1. Len(a) # 0
      BY <2>1, <1>1, <1>2, <1>6
    <3> QED  BY <3>1
  <2>6. PICK k \in 0..Len(a) :
           /\ Budgeted(a, 0, TRUE, max) = SubSeq(a, 1, k)
           /\ \/ k = 0 \/ (TRUE /\ k = 1)
              \/ 0 + TotalLen(SubSeq(a, 1, k)) <= max
           /\ TRUE /\ a # <<>> => k # 0
    <3>1. a \in Seq(Entry) /\ 0 \in Nat /\ TRUE \in BOOLEAN
      BY <2>1
    <3> QED  BY <3>1, BudgetedIs, Zenon
  <2>7. 0 + TotalLen(SubSeq(a, 1, k)) = TotalLen(SubSeq(a, 1, k))
    <3>1. SubSeq(a, 1, k) \in Seq(Entry)
      BY <2>1, TakeProperties
    <3> QED  BY <3>1, LenTotal, Zenon
  <2>8. k \in 1..Len(a) /\ (k = 1 \/ TotalLen(SubSeq(a, 1, k)) <= max)
    BY <2>1, <2>5, <2>6, <2>7
  <2> QED  BY <2>3, <2>4, <2>6, <2>8, Zenon DEF a
<1> QED  BY <1>5, <1>6, Zenon

(* The j-th record read of the spool from c on is the last before the ring  *)
(* exactly when it is the spool's last.                                     *)
LEMMA ReachedIs ==
  ASSUME TypeOK, Anchored(Held, head), NEW n \in Nat, n < Len(spool),
         NEW j \in 1..Len(DropFirst(spool, n))
  PROVE  DropFirst(spool, n)[j].rseq + 1 = RingFirst <=> j = Len(DropFirst(spool, n))
<1>1. /\ spool \in Seq(Entry) /\ ring \in Seq(Entry) /\ Held = spool \o ring
      /\ head.rseq \in Nat /\ Len(spool) \in Nat /\ Len(ring) \in Nat
      /\ Len(Held) = Len(spool) + Len(ring)
  BY HeldParts
<1> DEFINE a == DropFirst(spool, n)
<1>2. /\ a \in Seq(Entry) /\ Len(a) = Len(spool) - n
      /\ \A i \in 1..(Len(spool) - n) : a[i] = spool[i + n]
  <2>1. n \in 0..Len(spool)
    BY <1>1
  <2> QED  BY <1>1, <2>1, DropFirstProperties
<1>3. j \in 1..Len(a)
  OBVIOUS
<1> HIDE DEF a
<1>4. a[j] = spool[j + n] /\ j + n \in 1..Len(spool)
  BY <1>1, <1>2, <1>3
<1>5. Held[j + n] = spool[j + n] /\ j + n \in 1..Len(Held)
  BY <1>1, <1>4, ConcatPointwise
<1>6. Held[j + n].rseq = head.rseq - Len(Held) + ((j + n) - 1)
  BY <1>5, Zenon DEF Anchored
<1>7. a[j].rseq = head.rseq - Len(Held) + ((j + n) - 1)
  BY <1>4, <1>5, <1>6, Zenon
<1> DEFINE x == a[j].rseq
           h == head.rseq
           lr == Len(ring)
           ls == Len(spool)
           la == Len(a)
           lh == Len(Held)
           y == RingFirst
<1>8. x = h - lh + ((j + n) - 1) /\ y = h - lr /\ la = ls - n /\ lh = ls + lr
  BY <1>1, <1>2, <1>7, RingFirstIs
<1>9. h \in Int /\ lr \in Int /\ ls \in Int /\ j \in Int /\ n \in Int
  BY <1>1, <1>3
<1> HIDE DEF x, h, lr, ls, la, lh, y
<1>10. x + 1 = y <=> j = la
  BY <1>8, <1>9
<1> QED  BY <1>10 DEF x, y, la, a

(* What a batch takes of the records held after c when the spool gives back *)
(* what it was asked for: the first p of them.                              *)
LEMMA BatchTakes ==
  ASSUME TypeOK, Anchored(Held, head), NEW c \in Cursor, NEW n, SplitAt(c, n),
         c # head, NEW max \in Nat
  PROVE  \E p \in 1..Len(DropFirst(Held, n)) :
           /\ ReadBatch(c, max, Read(TRUE, BatchDue(c, max))).records
                = SubSeq(DropFirst(Held, n), 1, p)
           /\ p = 1 \/ TotalLen(SubSeq(DropFirst(Held, n), 1, p)) <= max
<1> DEFINE disk == Read(TRUE, BatchDue(c, max)).records
           reached == IF disk = <<>> THEN c.rseq >= RingFirst
                      ELSE disk[Len(disk)].rseq + 1 = RingFirst
           memory == IF reached
                       THEN Budgeted(Suffix(ring, c), TotalLen(disk), disk = <<>>, max)
                       ELSE <<>>
           out == disk \o memory
<1>0. ReadBatch(c, max, Read(TRUE, BatchDue(c, max))).records = out
  BY Zenon DEF ReadBatch
<1>1. /\ Held \in Seq(Entry) /\ head \in Cursor /\ spool \in Seq(Entry) /\ ring \in Seq(Entry)
      /\ Held = spool \o ring
      /\ head.rseq \in Nat /\ c.rseq \in Nat /\ Len(spool) \in Nat /\ Len(ring) \in Nat
      /\ Len(Held) = Len(spool) + Len(ring)
  BY HeldParts DEF Cursor
<1>2. /\ n \in 0..Len(Held) /\ n # Len(Held)
      /\ c.rseq = head.rseq - Len(Held) + n
      /\ n <= Len(spool) => Leads(spool, c, n) /\ Leads(ring, c, 0)
      /\ n >= Len(spool) => Leads(spool, c, Len(spool)) /\ Leads(ring, c, n - Len(spool))
  BY DEF SplitAt
<1>3. disk = BatchDue(c, max)
  BY ReadFields
<1>5. CASE n < Len(spool)
  <2> DEFINE a == DropFirst(spool, n)
  <2>1. /\ a \in Seq(Entry) /\ Len(a) = Len(spool) - n
        /\ \A i \in 1..(Len(spool) - n) : a[i] = spool[i + n]
    <3>1. spool \in Seq(Entry) /\ n \in 0..Len(spool)
      BY <1>1, <1>2, <1>5
    <3> QED  BY <3>1, DropFirstProperties, Zenon
  <2>2. Suffix(spool, c) = a
    BY <1>1, <1>2, <1>5, SuffixDrops
  <2>3. Suffix(ring, c) = ring
    <3>1. Suffix(ring, c) = DropFirst(ring, 0)
      BY <1>1, <1>2, <1>5, SuffixDrops
    <3> QED  BY <3>1, <1>1, DropFirstNone
  <2>4. a \o ring = DropFirst(Held, n)
    BY <1>1, <1>2, <1>5, DropOfConcat
  <2> HIDE DEF a
  <2>6. PICK k \in 1..Len(a) :
          /\ disk = SubSeq(a, 1, k)
          /\ k = 1 \/ TotalLen(SubSeq(a, 1, k)) <= max
    <3>1. \E k \in 1..Len(a) : /\ BatchDue(c, max) = SubSeq(a, 1, k)
                               /\ k = 1 \/ TotalLen(SubSeq(a, 1, k)) <= max
      BY <1>5, BatchAsks, Zenon DEF a
    <3> HIDE DEF disk
    <3> QED  BY <1>3, <3>1, Zenon
  <2>7. disk \in Seq(Entry) /\ Len(disk) = k /\ disk # <<>> /\ disk[Len(disk)] = a[k]
    <3>1. k \in 1..k /\ k \in 0..Len(a) /\ k # 0
      BY <2>1
    <3>2. /\ SubSeq(a, 1, k) \in Seq(Entry) /\ Len(SubSeq(a, 1, k)) = k
          /\ SubSeq(a, 1, k)[k] = a[k]
      BY <2>1, <3>1, TakeProperties
    <3> HIDE DEF disk
    <3>3. disk \in Seq(Entry) /\ Len(disk) = k /\ disk[Len(disk)] = a[k]
      BY <2>6, <3>2
    <3> QED  BY <3>1, <3>3
  <2>8. disk[Len(disk)].rseq + 1 = RingFirst <=> k = Len(a)
    <3>1. n \in Nat
      BY <1>2
    <3>2. a[k].rseq + 1 = RingFirst <=> k = Len(a)
      BY <1>5, <3>1, ReachedIs DEF a
    <3> QED  BY <2>7, <3>2, Zenon
  <2> HIDE DEF disk
  <2>9. reached <=> k = Len(a)
    BY <2>7, <2>8
  <2> HIDE DEF reached
  <2>10. CASE k # Len(a)
    <3>1. out = SubSeq(a, 1, k)
      <4>1. memory = <<>>
        BY <2>9, <2>10
      <4> QED  BY <4>1, <2>6, <2>7, ConcatEmptySeq
    <3>2. SubSeq(a \o ring, 1, k) = SubSeq(a, 1, k)
      BY <1>1, <2>1, <2>6, TakeOfConcat
    <3>3. k \in 1..Len(a \o ring)
      BY <1>1, <2>1, <2>6, ConcatPointwise
    <3> HIDE DEF out
    <3> QED  BY <1>0, <2>4, <2>6, <3>1, <3>2, <3>3, Zenon
  <2>11. CASE k = Len(a)
    <3>1. disk = a
      BY <2>1, <2>6, <2>11, SubSeqFull
    <3>2. memory = Budgeted(ring, TotalLen(a), FALSE, max)
      BY <2>3, <2>7, <2>9, <2>11, <3>1
    <3>3. PICK j \in 0..Len(ring) :
             /\ memory = SubSeq(ring, 1, j)
             /\ j = 0 \/ TotalLen(a) + TotalLen(SubSeq(ring, 1, j)) <= max
      <4>1. TotalLen(a) \in Nat
        BY <2>1, LenTotal
      <4> QED  BY <1>1, <3>2, <4>1, BudgetedIs
    <3>4. out = SubSeq(a \o ring, 1, Len(a) + j)
      <4>1. SubSeq(a \o ring, 1, Len(a) + j) = a \o SubSeq(ring, 1, j)
        BY <1>1, <2>1, <3>3, TakeOfConcat
      <4> QED  BY <3>1, <3>3, <4>1, Zenon
    <3>5. Len(a) + j \in 1..Len(a \o ring)
      BY <1>1, <2>1, <2>6, <2>11, <3>3, ConcatPointwise
    <3>6. Len(a) + j = 1 \/ TotalLen(out) <= max
      <4>1. CASE j = 0
        <5>1. out = a
          <6> HIDE DEF memory
          <6>1. memory = <<>>
            BY <4>1, <3>3
          <6>2. out = a \o <<>>
            BY <6>1, <3>1
          <6> QED  BY <6>2, <2>1, ConcatEmptySeq
        <5>2. SubSeq(a, 1, k) = a
          BY <2>6, <3>1
        <5>3. Len(a) + j = k
          BY <4>1, <2>6, <2>11
        <5> HIDE DEF out
        <5> QED  BY <5>1, <5>2, <5>3, <2>6, Zenon
      <4>2. CASE j # 0
        <5>1. SubSeq(ring, 1, j) \in Seq(Entry) /\ out = a \o SubSeq(ring, 1, j)
          BY <1>1, <3>1, <3>3, TakeProperties
        <5>2. TotalLen(out) = TotalLen(a) + TotalLen(SubSeq(ring, 1, j))
          BY <5>1, <2>1, LenJoin
        <5> QED  BY <4>2, <5>2, <3>3
      <4> QED  BY <4>1, <4>2
    <3> HIDE DEF out
    <3> QED  BY <1>0, <2>4, <3>4, <3>5, <3>6, Zenon
  <2> QED  BY <2>10, <2>11
<1>6. CASE n >= Len(spool)
  <2> DEFINE j == n - Len(spool)
             a == DropFirst(ring, j)
  <2>1. j \in 0..Len(ring) /\ j # Len(ring) /\ Len(spool) + j = n
    BY <1>1, <1>2, <1>6
  <2>2. Suffix(ring, c) = a
    BY <1>1, <1>2, <1>6, <2>1, SuffixDrops
  <2> HIDE DEF j
  <2>3. a = DropFirst(Held, n)
    <3>1. a = DropFirst(spool \o ring, Len(spool) + j)
      BY <1>1, <2>1, DropPastConcat
    <3> QED  BY <3>1, <1>1, <2>1
  <2>4. a \in Seq(Entry) /\ a # <<>> /\ Len(a) \in Nat
    BY <1>1, <2>1, DropFirstProperties
  <2> HIDE DEF a
  <2>5. disk = <<>> /\ reached
    <3>1. disk = <<>> /\ c.rseq >= RingFirst
      BY <1>3, <1>6, BatchAsks, Zenon
    <3> HIDE DEF disk
    <3> QED  BY <3>1
  <2>6. TotalLen(<<>>) = 0
    <3>1. <<>> \in Seq(Entry)
      OBVIOUS
    <3> QED  BY <3>1, SizesAre, SizedNone, SizeTypes
  <2>7. memory = Budgeted(a, 0, TRUE, max)
    BY <2>2, <2>5, <2>6
  <2>8. PICK k \in 0..Len(a) :
             /\ memory = SubSeq(a, 1, k) /\ k # 0
             /\ k = 1 \/ TotalLen(SubSeq(a, 1, k)) <= max
    <3>2. PICK k \in 0..Len(a) :
             /\ Budgeted(a, 0, TRUE, max) = SubSeq(a, 1, k)
             /\ \/ k = 0 \/ (TRUE /\ k = 1)
                \/ 0 + TotalLen(SubSeq(a, 1, k)) <= max
             /\ TRUE /\ a # <<>> => k # 0
      <4>1. a \in Seq(Entry) /\ 0 \in Nat /\ TRUE \in BOOLEAN
        BY <2>4
      <4> QED  BY <4>1, BudgetedIs, Zenon
    <3>3. 0 + TotalLen(SubSeq(a, 1, k)) = TotalLen(SubSeq(a, 1, k))
      <4>1. SubSeq(a, 1, k) \in Seq(Entry)
        BY <2>4, TakeProperties
      <4> QED  BY <4>1, LenTotal, Zenon
    <3> QED  BY <3>2, <3>3, <2>4, <2>7
  <2>9. out = SubSeq(a, 1, k)
    <3>1. SubSeq(a, 1, k) \in Seq(Entry)
      BY <2>4, TakeProperties
    <3> HIDE DEF memory
    <3> QED  BY <2>5, <2>8, <3>1, ConcatEmptySeq
  <2> HIDE DEF out, memory
  <2>10. k \in 1..Len(a)
    BY <2>4, <2>8
  <2> QED  BY <1>0, <2>3, <2>8, <2>9, <2>10, Zenon
<1>7. n < Len(spool) \/ n >= Len(spool)
  BY <1>1, <1>2
<1> QED  BY <1>5, <1>6, <1>7, Zenon

(* What a batch takes when the spool gives back less than it was asked for: *)
(* the first of those records, and none of the ring.                        *)
LEMMA ShortBatchTakes ==
  ASSUME TypeOK, Anchored(Held, head), NEW c \in Cursor, NEW n, SplitAt(c, n),
         c # head, NEW max \in Nat, NEW j \in 0..(Len(BatchDue(c, max)) - 1),
         NEW read, read.records = SubSeq(BatchDue(c, max), 1, j),
         ReadBatch(c, max, read).ok
  PROVE  \E p \in 1..Len(DropFirst(Held, n)) :
           /\ ReadBatch(c, max, read).records = SubSeq(DropFirst(Held, n), 1, p)
           /\ p = 1 \/ TotalLen(SubSeq(DropFirst(Held, n), 1, p)) <= max
<1> DEFINE due == BatchDue(c, max)
           disk == read.records
           reached == IF disk = <<>> THEN c.rseq >= RingFirst
                      ELSE disk[Len(disk)].rseq + 1 = RingFirst
           memory == IF reached
                       THEN Budgeted(Suffix(ring, c), TotalLen(disk), disk = <<>>, max)
                       ELSE <<>>
           out == disk \o memory
           a == DropFirst(spool, n)
<1>1. ReadBatch(c, max, read).records = out /\ out # <<>>
  <2>1. ReadBatch(c, max, read).records = out
    BY Zenon DEF ReadBatch
  <2>2. ReadBatch(c, max, read).ok => out # <<>>
    BY Zenon DEF ReadBatch
  <2> QED  BY <2>1, <2>2, Zenon
<1>2. /\ Held \in Seq(Entry) /\ spool \in Seq(Entry) /\ ring \in Seq(Entry)
      /\ Held = spool \o ring /\ Len(spool) \in Nat /\ c.rseq \in Nat
      /\ RingFirst \in Int /\ n \in Nat
  <2>1. RingFirst = head.rseq - Len(ring) /\ head.rseq \in Nat /\ Len(ring) \in Nat
    BY HeldParts, RingFirstIs
  <2>2. RingFirst \in Int
    BY <2>1
  <2>3. n \in Nat
    BY HeldParts DEF SplitAt
  <2> QED  BY <2>2, <2>3, HeldParts DEF Cursor
<1>3. n < Len(spool)
  <2> SUFFICES ASSUME n >= Len(spool) PROVE FALSE
    BY <1>2
  <2>1. due = <<>>
    BY BatchAsks
  <2>2. j \in 0..(Len(due) - 1)
    OBVIOUS
  <2> HIDE DEF due
  <2> QED  BY <2>1, <2>2
<1>4. /\ a \in Seq(Entry) /\ Len(a) = Len(spool) - n /\ Len(a) \in Nat
      /\ a \o ring = DropFirst(Held, n)
  <2>1. n \in 0..Len(spool)
    BY <1>2, <1>3
  <2>2. a \in Seq(Entry) /\ Len(a) = Len(spool) - n
    BY <1>2, <2>1, DropFirstProperties
  <2>3. a \o ring = DropFirst(Held, n)
    BY <1>2, <2>1, DropOfConcat
  <2> HIDE DEF a
  <2> QED  BY <2>2, <2>3
<1>5. c.rseq < RingFirst /\ ~(c.rseq >= RingFirst)
  <2>1. c.rseq < RingFirst
    BY <1>3, BatchAsks, Zenon
  <2>2. c.rseq \in Int /\ RingFirst \in Int
    BY <1>2
  <2> QED  BY <2>1, <2>2
<1>6. PICK k \in 1..Len(a) :
        /\ due = SubSeq(a, 1, k)
        /\ k = 1 \/ TotalLen(SubSeq(a, 1, k)) <= max
  BY <1>3, BatchAsks, Zenon DEF a
<1>7. j \in 0..(Len(due) - 1) /\ disk = SubSeq(due, 1, j)
  OBVIOUS
<1> HIDE DEF due, a
<1>8. Len(due) = k /\ j \in 0..Len(a) /\ j < k /\ j # Len(a) /\ k \in 0..Len(a)
  <2>1. k \in 0..Len(a)
    BY <1>4
  <2>2. Len(due) = k
    BY <1>4, <1>6, <2>1, TakeProperties
  <2> QED  BY <1>4, <1>7, <2>1, <2>2
<1>9. disk = SubSeq(a, 1, j)
  <2>1. SubSeq(SubSeq(a, 1, k), 1, j) = SubSeq(a, 1, j)
    BY <1>4, <1>8, SMT
  <2> QED  BY <1>6, <1>7, <2>1, Zenon
<1>10. SubSeq(a, 1, j) \in Seq(Entry) /\ Len(SubSeq(a, 1, j)) = j
  BY <1>4, <1>8, TakeProperties
<1> DEFINE v == SubSeq(a, 1, j)
<1>11. j # 0 => v[Len(v)] = a[j] /\ j \in 1..Len(a)
  <2> SUFFICES ASSUME j # 0 PROVE v[Len(v)] = a[j] /\ j \in 1..Len(a)
    OBVIOUS
  <2>1. j \in 1..j /\ j \in 1..Len(a)
    BY <1>8
  <2>2. SubSeq(a, 1, j)[j] = a[j]
    BY <1>4, <1>8, <2>1, TakeProperties
  <2> QED  BY <1>10, <2>1, <2>2, Zenon
<1>12. disk = v /\ v \in Seq(Entry) /\ Len(v) = j
  BY <1>9, <1>10
<1> HIDE DEF v
<1>13. disk # <<>> => disk[Len(disk)].rseq + 1 # RingFirst
  <2> SUFFICES ASSUME disk # <<>> PROVE v[Len(v)].rseq + 1 # RingFirst
    BY <1>12, Zenon
  <2>1. j # 0
    BY <1>12
  <2>2. a[j].rseq + 1 = RingFirst <=> j = Len(a)
    BY <1>2, <1>3, <1>11, <2>1, ReachedIs DEF a
  <2> QED  BY <1>8, <1>11, <2>1, <2>2, Zenon
<1>14. ~reached
  BY <1>5, <1>13, Zenon
<1> HIDE DEF disk, reached
<1>15. out = v
  <2>1. memory = <<>>
    BY <1>14, Zenon
  <2> HIDE DEF memory
  <2> QED  BY <2>1, <1>12, ConcatEmptySeq
<1>16. j # 0
  BY <1>1, <1>12, <1>15
<1>17. v = SubSeq(DropFirst(Held, n), 1, j)
  <2>1. SubSeq(a \o ring, 1, j) = SubSeq(a, 1, j)
    BY <1>2, <1>4, <1>8, TakeOfConcat
  <2> QED  BY <2>1, <1>4, Zenon DEF v
<1>18. j \in 1..Len(DropFirst(Held, n))
  <2>1. Len(a \o ring) = Len(a) + Len(ring) /\ Len(ring) \in Nat
    <3>1. a \in Seq(Entry) /\ ring \in Seq(Entry)
      BY <1>2, <1>4
    <3> QED  BY <3>1, ConcatPointwise
  <2>2. Len(DropFirst(Held, n)) = Len(a) + Len(ring)
    BY <1>4, <2>1, Zenon
  <2> QED  BY <1>4, <1>8, <1>16, <2>1, <2>2
<1>19. TotalLen(v) <= max
  <2>1. k # 1
    BY <1>8, <1>16
  <2>2. TotalLen(SubSeq(a, 1, k)) <= max
    BY <1>6, <2>1
  <2> DEFINE u == SubSeq(a, 1, k)
             z == DropFirst(u, j)
  <2>3. u \in Seq(Entry) /\ Len(u) = k
    BY <1>4, <1>8, TakeProperties
  <2>4. v = SubSeq(u, 1, j)
    BY <1>6, <1>7, <1>12, Zenon
  <2> HIDE DEF u
  <2>5. j \in 0..Len(u)
    BY <1>8, <2>3
  <2>6. z \in Seq(Entry)
    BY <2>3, <2>5, DropFirstProperties
  <2>7. u = SubSeq(u, 1, j) \o z
    BY <2>3, <2>5, SMT DEF DropFirst
  <2> HIDE DEF z
  <2>8. TotalLen(u) = TotalLen(v) + TotalLen(z)
    BY <1>12, <2>4, <2>6, <2>7, LenJoin
  <2>9. TotalLen(v) \in Nat /\ TotalLen(z) \in Nat
    BY <1>12, <2>6, LenTotal
  <2>10. TotalLen(u) <= max
    BY <2>2 DEF u
  <2> QED  BY <2>8, <2>9, <2>10, SMT
<1> HIDE DEF out
<1> QED  BY <1>1, <1>15, <1>17, <1>18, <1>19, Zenon

LEMMA BatchDueType ==
  ASSUME TypeOK, Anchored(Held, head), NEW c \in Cursor, NEW n, SplitAt(c, n),
         c # head, NEW max \in Nat
  PROVE  BatchDue(c, max) \in Seq(Entry)
<1>1. spool \in Seq(Entry) /\ Len(spool) \in Nat /\ n \in Nat
  BY HeldParts DEF SplitAt
<1>2. CASE n >= Len(spool)
  <2>1. BatchDue(c, max) = <<>>
    BY <1>2, BatchAsks
  <2> QED  BY <2>1
<1>3. CASE n < Len(spool)
  <2>1. DropFirst(spool, n) \in Seq(Entry)
    <3>1. n \in 0..Len(spool)
      BY <1>1, <1>3
    <3> QED  BY <1>1, <3>1, DropFirstProperties
  <2>2. PICK k \in 1..Len(DropFirst(spool, n)) :
           BatchDue(c, max) = SubSeq(DropFirst(spool, n), 1, k)
    BY <1>3, BatchAsks, Zenon
  <2>3. k \in 0..Len(DropFirst(spool, n))
    BY <2>1
  <2> QED  BY <2>1, <2>2, <2>3, TakeProperties, Zenon
<1> QED  BY <1>1, <1>2, <1>3

LEMMA BatchServed ==
  ASSUME TypeOK, Anchored(Held, head), NEW c \in Cursor, IsBoundary(c, Held, head),
         NEW max \in Nat, NEW read \in SpoolReads(BatchDue(c, max))
  PROVE  /\ read = Read(TRUE, BatchDue(c, max)) => ReadBatch(c, max, read).ok
         /\ ReadBatch(c, max, read).ok =>
              /\ IsPrefix(ReadBatch(c, max, read).records, Suffix(Held, c))
              /\ c # head => ReadBatch(c, max, read).records # <<>>
              /\ \/ Len(ReadBatch(c, max, read).records) <= 1
                 \/ TotalLen(ReadBatch(c, max, read).records) <= max
<1> DEFINE batch == ReadBatch(c, max, read)
           due == BatchDue(c, max)
<1>1. PICK n : SplitAt(c, n)
  BY BoundaryIsSplit
<1> DEFINE w == DropFirst(Held, n)
<1>2. /\ Suffix(Held, c) = w /\ IsRun(c, w, head)
      /\ Oldest.rseq <= c.rseq /\ c.rseq <= head.rseq
  BY <1>1, HeldSuffix, BoundaryRun
<1>3. w \in Seq(Entry) /\ Len(w) \in Nat
  <2>1. Held \in Seq(Entry) /\ n \in 0..Len(Held)
    BY <1>1, HeldParts DEF SplitAt
  <2> QED  BY <2>1, DropFirstProperties
<1> HIDE DEF w
<1>4. CASE c = head
  <2>1. batch = [ok |-> TRUE, records |-> <<>>]
    BY <1>4 DEF ReadBatch
  <2>2. batch.ok /\ batch.records = <<>>
    BY <2>1
  <2> HIDE DEF batch
  <2>3. IsPrefix(<<>>, w)
    BY <1>3 DEF IsPrefix
  <2>4. Len(<<>>) <= 1
    OBVIOUS
  <2>5. /\ batch.ok /\ IsPrefix(batch.records, w)
        /\ c # head => batch.records # <<>>
        /\ Len(batch.records) <= 1 \/ TotalLen(batch.records) <= max
    BY <1>4, <2>2, <2>3, <2>4
  <2> QED  BY <1>2, <2>5, Zenon DEF batch
<1>5. CASE c # head
  <2>1. batch.ok <=> (/\ Oldest.rseq <= c.rseq /\ c.rseq <= head.rseq
                      /\ read.ok /\ batch.records # <<>>
                      /\ IsRun(c, batch.records, After(batch.records[Len(batch.records)])))
    BY <1>5 DEF ReadBatch
  <2>2. ASSUME NEW p \in 1..Len(w),
               batch.records = SubSeq(w, 1, p),
               p = 1 \/ TotalLen(SubSeq(w, 1, p)) <= max
        PROVE  /\ read.ok => batch.ok
               /\ IsPrefix(batch.records, w)
               /\ c # head => batch.records # <<>>
               /\ Len(batch.records) <= 1 \/ TotalLen(batch.records) <= max
    <3> DEFINE v == SubSeq(w, 1, p)
    <3>1. v \in Seq(Entry) /\ Len(v) = p /\ v # <<>>
      <4>1. p \in 0..Len(w) /\ p # 0
        BY <1>3
      <4>2. SubSeq(w, 1, p) \in Seq(Entry) /\ Len(SubSeq(w, 1, p)) = p
        BY <1>3, <4>1, TakeProperties
      <4> QED  BY <4>1, <4>2
    <3>2. IsPrefix(v, w)
      BY <1>3, <3>1 DEF IsPrefix
    <3>3. IsRun(c, v, After(v[Len(v)]))
      BY <1>2, <1>3, RunPrefix
    <3> HIDE DEF batch
    <3>4. batch.records = v /\ (p = 1 \/ TotalLen(v) <= max)
      BY <2>2
    <3> HIDE DEF v
    <3>5. Len(v) <= 1 \/ TotalLen(v) <= max
      BY <3>1, <3>4
    <3>6. read.ok => batch.ok
      BY <1>2, <2>1, <3>1, <3>3, <3>4, Zenon
    <3> QED  BY <3>1, <3>2, <3>4, <3>5, <3>6, Zenon
  <2>3. CASE read = Read(TRUE, due)
    <3>1. read.ok
      BY <2>3, ReadFields
    <3>2. \E p \in 1..Len(w) : /\ batch.records = SubSeq(w, 1, p)
                               /\ p = 1 \/ TotalLen(SubSeq(w, 1, p)) <= max
      BY <1>1, <1>5, <2>3, BatchTakes, Zenon DEF w
    <3> HIDE DEF batch
    <3> QED  BY <1>2, <2>2, <3>1, <3>2, Zenon DEF batch
  <2>4. CASE ~read.ok
    <3>1. ~batch.ok
      BY <2>1, <2>4
    <3>2. read # Read(TRUE, due)
      BY <2>4, ReadFields
    <3> QED  BY <3>1, <3>2, Zenon
  <2>5. ASSUME NEW k \in 0..(Len(due) - 1),
               read.records = SubSeq(due, 1, k), read # Read(TRUE, due), batch.ok
        PROVE  /\ IsPrefix(batch.records, w)
               /\ c # head => batch.records # <<>>
               /\ Len(batch.records) <= 1 \/ TotalLen(batch.records) <= max
    <3>1. \E p \in 1..Len(w) : /\ batch.records = SubSeq(w, 1, p)
                               /\ p = 1 \/ TotalLen(SubSeq(w, 1, p)) <= max
      BY <1>1, <1>5, <2>5, ShortBatchTakes, Zenon DEF w
    <3> HIDE DEF batch
    <3> QED  BY <2>2, <3>1, Zenon
  <2>6. due \in Seq(Entry)
    BY <1>1, <1>5, BatchDueType
  <2>7. read \in SpoolReads(due)
    OBVIOUS
  <2> HIDE DEF batch, due
  <2> QED  BY <1>2, <2>3, <2>4, <2>5, <2>6, <2>7, ReadIs, Zenon DEF batch, due
<1> QED  BY <1>4, <1>5

(* A reader that fell behind into the spool is sent, batch by batch, what   *)
(* is held after its cursor: nothing skipped, never nothing, never more     *)
(* than asked but for a single record, also when a read of the spool ends   *)
(* early; and it is refused only when a read fails or gives back nothing.   *)
THEOREM BatchesArePrefixes == LogSpec => []BatchIsPrefix
<1>1. LogInv => BatchIsPrefix
  <2> SUFFICES ASSUME LogInv, NEW c \in Boundaries, NEW max \in {0, 2, 4},
                      NEW read \in SpoolReads(BatchDue(c, max))
               PROVE  /\ read = Read(TRUE, BatchDue(c, max)) => ReadBatch(c, max, read).ok
                      /\ ReadBatch(c, max, read).ok =>
                           /\ IsPrefix(ReadBatch(c, max, read).records, Suffix(Held, c))
                           /\ c # head => ReadBatch(c, max, read).records # <<>>
                           /\ \/ Len(ReadBatch(c, max, read).records) <= 1
                              \/ TotalLen(ReadBatch(c, max, read).records) <= max
    BY Zenon DEF BatchIsPrefix
  <2>1. TypeOK /\ Anchored(Held, head)
    BY DEF LogInv, Good
  <2>2. c \in Cursor /\ IsBoundary(c, Held, head)
    <3>1. Held \in Seq(Entry) /\ head \in Cursor
      BY <2>1, HeldParts
    <3>2. \A i \in 1..Len(Held) : Before(Held[i]) \in Cursor
      BY <3>1, BeforeAfterType
    <3> QED  BY <3>1, <3>2 DEF Boundaries, BoundariesOf, IsBoundary
  <2>3. max \in Nat
    OBVIOUS
  <2> QED  BY <2>1, <2>2, <2>3, BatchServed
<1> QED  BY <1>1, LogInvariant, PTL

-----------------------------------------------------------------------------
(* SessionLog implements RecordLog: however make_room ends, the run it     *)
(* leaves is one the contract allows (RoomAllowed); what is then pushed on *)
(* the ring is pushed on the run (PushAllowed); and only then does each    *)
(* action have its abstract one.                                           *)

(* The runs the contract lets make_room leave.                             *)
Allowed == {Held} \cup IF newest = None THEN {} ELSE Contract!Kept(newest.resume)

LEMMA DropsToKept ==
  ASSUME NEW s, NEW c, DropsTo(Held, s, c)
  PROVE  s \in Contract!Kept(c)
BY DEF DropsTo, Contract!Kept, Contract!Includes, Includes, Contract!DropFirst, DropFirst

LEMMA AppendToRun ==
  \A s, r \in Seq(Entry) : \A x \in Entry : s \o Append(r, x) = Append(s \o r, x)
BY ConcatAppend

LEMMA SameGap ==
  /\ Contract!Gap = Gap /\ Contract!SettledHead = SettledHead
  /\ \A e : Contract!After(e) = After(e)
<1>1. Contract!Gap = Gap
  BY DEF Contract!Gap, Gap
<1>2. \A e : Contract!After(e) = After(e)
  BY DEF Contract!After, After
<1> QED  BY <1>1, <1>2 DEF Contract!SettledHead, SettledHead

LEMMA RoomAllowed ==
  ASSUME LogInv, NEW cost, NEW m, MakeRoom(cost, m)
  PROVE  /\ HeldOf(m) \in Allowed /\ Contract!MakeRoom(HeldOf(m))
         /\ overflow = "Block" =>
              HeldOf(m) = Held /\ UNCHANGED <<retain_from, fallback>>
<1>1. TypeOK /\ Good(Held, head, retain_from, newest, fallback) /\ Held \in Seq(Entry)
  BY HeldType DEF LogInv
<1>2. Ordered(Held)
  <2>1. head \in Cursor
    BY <1>1 DEF TypeOK
  <2> QED  BY <1>1, <2>1, AnchoredOrdered DEF Good
<1>3. CASE m \in RoomsKeeping(cost) /\ UNCHANGED <<retain_from, fallback>>
  <2>1. HeldOf(m) = Held
    BY <1>1, <1>3, RoomsKeepingKeep
  <2> QED  BY <1>3, <2>1 DEF Allowed, Contract!MakeRoom
<1>4. CASE m \in RoomsGivingUp(cost) /\ retain_from' = newest.resume /\ fallback' = None
  <2>1. CanGiveUp /\ DropsTo(Held, HeldOf(m), newest.resume)
    BY <1>1, <1>2, <1>4, RoomsGivingUpDrop
  <2>2. HeldOf(m) \in Contract!Kept(newest.resume)
    BY <2>1, DropsToKept
  <2>3. overflow = "Drop" /\ newest # None /\ newest.resume.rseq > retain_from.rseq
    BY <2>1 DEF CanGiveUp
  <2> QED  BY <1>4, <2>2, <2>3 DEF Allowed, Contract!MakeRoom
<1> QED  BY <1>3, <1>4 DEF MakeRoom

(* A record pushed on the ring is pushed on the run, after the same Gap.   *)
LEMMA PushAllowed ==
  ASSUME TypeOK, NEW m, IsStore(m), spool' = m.spool, NEW len \in Nat,
         NEW kind \in {"data", "gap", "resize", "exit"}, Push(m.ring, kind, len)
  PROVE  Contract!Push(HeldOf(m), kind, len)
<1> DEFINE e == [rseq |-> SettledHead.rseq, off |-> SettledHead.off,
                 kind |-> kind, len |-> len]
<1>1. ring' = Append(Settled(m.ring), e) /\ head' = After(e) /\ lost' = 0
  BY DEF Push
<1>2. m.spool \in Seq(Entry) /\ m.ring \in Seq(Entry)
  BY DEF IsStore
<1>3. /\ Settled(m.ring) \in Seq(Entry)
      /\ m.spool \o Settled(m.ring) = Contract!Settled(HeldOf(m))
  <2>1. Gap \in Entry
    BY GapType
  <2>2. CASE lost > 0
    <3>1. Settled(m.ring) = Append(m.ring, Gap)
          /\ Contract!Settled(HeldOf(m)) = Append(HeldOf(m), Gap)
      BY <2>2, SameGap DEF Settled, Contract!Settled
    <3>2. Append(m.ring, Gap) \in Seq(Entry)
      BY <1>2, <2>1, AppendProperties
    <3>3. m.spool \o Append(m.ring, Gap) = Append(m.spool \o m.ring, Gap)
      BY <1>2, <2>1, AppendToRun
    <3> QED  BY <3>1, <3>2, <3>3 DEF HeldOf
  <2>3. CASE ~(lost > 0)
    BY <1>2, <2>3 DEF Settled, Contract!Settled, HeldOf
  <2> QED  BY <2>2, <2>3
<1>4. e \in Entry
  <2>1. head \in Cursor /\ After(Gap) \in Cursor
    BY GapType, BeforeAfterType DEF TypeOK
  <2>2. SettledHead \in Cursor
    BY <2>1 DEF SettledHead
  <2>3. SettledHead.rseq \in Nat /\ SettledHead.off \in Nat
    BY <2>2 DEF Cursor
  <2> QED  BY <2>3 DEF Entry
<1> HIDE DEF e
<1>5. Held' = Append(Contract!Settled(HeldOf(m)), e)
  <2>1. Held' = m.spool \o Append(Settled(m.ring), e)
    BY <1>1 DEF Held
  <2>2. m.spool \o Append(Settled(m.ring), e) = Append(m.spool \o Settled(m.ring), e)
    BY <1>2, <1>3, <1>4, AppendToRun
  <2> QED  BY <2>1, <2>2, <1>3
<1> QED  BY <1>1, <1>5, SameGap DEF Contract!Push, e

-----------------------------------------------------------------------------
(* Each action has its abstract one.                                       *)

LEMMA AppendDataRefines ==
  ASSUME LogInv, NEW n \in Lens, AppendData(n)
  PROVE  \/ Contract!AppendKept("data", n) \/ Contract!AppendDropped(n)
         \/ UNCHANGED Contract!recordLogVars
<1> DEFINE cost == 1 + n + IF lost > 0 THEN 1 ELSE 0
<1>1. PICK m : /\ MakeRoom(cost, m)
               /\ \/ /\ m.went = "room"
                     /\ Push(m.ring, "data", n)
                  \/ /\ m.went # "room" /\ overflow = "Drop"
                     /\ ring' = m.ring
                     /\ lost' = lost + n
                     /\ UNCHANGED head
                  \/ /\ m.went # "room" /\ overflow = "Block"
                     /\ ring' = m.ring
                     /\ UNCHANGED <<head, lost>>
  BY DEF AppendData
<1> HIDE DEF cost
<1>2. /\ HeldOf(m) \in Allowed /\ Contract!MakeRoom(HeldOf(m))
      /\ overflow = "Block" => HeldOf(m) = Held /\ UNCHANGED <<retain_from, fallback>>
  BY <1>1, RoomAllowed
<1>3. spool' = m.spool /\ ~exited /\ newest' = newest /\ overflow' = overflow /\ exited' = exited
  BY <1>1 DEF MakeRoom, AppendData
<1>4. TypeOK /\ IsStore(m) /\ n \in Nat /\ exited \in BOOLEAN
  BY <1>1, MakeRoomKeepsGood, LensAssumption DEF LogInv, TypeOK
<1>5. CASE Push(m.ring, "data", n)
  <2>1. Contract!Push(HeldOf(m), "data", n)
    BY <1>3, <1>4, <1>5, PushAllowed
  <2> QED  BY <2>1, <1>2, <1>3, <1>4 DEF Contract!AppendKept, Allowed
<1>6. CASE overflow = "Drop" /\ ring' = m.ring /\ lost' = lost + n /\ UNCHANGED head
  <2>1. Held' = HeldOf(m)
    BY <1>3, <1>6 DEF Held, HeldOf
  <2> QED  BY <2>1, <1>2, <1>3, <1>6 DEF Contract!AppendDropped, Allowed
<1>7. CASE overflow = "Block" /\ ring' = m.ring /\ UNCHANGED <<head, lost>>
  <2>1. Held' = HeldOf(m)
    BY <1>3, <1>7 DEF Held, HeldOf
  <2> QED  BY <2>1, <1>2, <1>3, <1>7 DEF Contract!recordLogVars
<1> QED  BY <1>1, <1>5, <1>6, <1>7

LEMMA AppendControlRefines ==
  ASSUME LogInv, NEW kind \in {"resize", "exit"}, AppendControl(kind)
  PROVE  Contract!AppendKept(kind, 0)
<1>1. PICK m : MakeRoom(1, m) /\ Push(m.ring, kind, 0)
  BY DEF AppendControl
<1>2. HeldOf(m) \in Allowed /\ Contract!MakeRoom(HeldOf(m))
  BY <1>1, RoomAllowed
<1>3. spool' = m.spool /\ ~exited /\ newest' = newest /\ overflow' = overflow /\ exited' = (kind = "exit")
  BY <1>1 DEF MakeRoom, AppendControl
<1>4. TypeOK /\ IsStore(m)
  BY <1>1, MakeRoomKeepsGood DEF LogInv
<1>5. Contract!Push(HeldOf(m), kind, 0)
  BY <1>1, <1>3, <1>4, PushAllowed
<1> QED  BY <1>2, <1>3, <1>5 DEF Contract!AppendKept, Allowed

LEMMA SettleGapRefines ==
  ASSUME LogInv, SettleGap
  PROVE  Contract!SettleGap
<1>1. /\ ring' = Settled(ring) /\ head' = SettledHead /\ lost' = 0 /\ spool' = spool
      /\ UNCHANGED <<overflow, retain_from, newest, fallback, exited>>
  BY DEF SettleGap
<1>2. TypeOK /\ spool \in Seq(Entry) /\ ring \in Seq(Entry) /\ Gap \in Entry
  BY GapType DEF LogInv, TypeOK
<1>3. Held' = Contract!Settled(Held)
  <2>1. Held' = spool \o Settled(ring)
    BY <1>1 DEF Held
  <2>2. CASE lost > 0
    <3>1. spool \o Append(ring, Gap) = Append(spool \o ring, Gap)
      BY <1>2, AppendToRun
    <3> QED  BY <2>1, <2>2, <3>1, SameGap DEF Settled, Contract!Settled, Held
  <2>3. CASE ~(lost > 0)
    BY <2>1, <2>3 DEF Settled, Contract!Settled, Held
  <2> QED  BY <2>2, <2>3
<1> QED  BY <1>1, <1>3, SameGap DEF Contract!SettleGap

LEMMA PutCheckpointRefines ==
  ASSUME LogInv, NEW c \in Boundaries, NEW b \in Blobs,
         PutCheckpoint([resume |-> c, blob |-> b])
  PROVE  c \in Contract!Boundaries /\ Contract!PutCheckpoint([resume |-> c, blob |-> b])
<1> DEFINE keep == IF newest = None THEN retain_from ELSE newest.resume
           cp == [resume |-> c, blob |-> b]
<1>1. PICK t \in Trims(Now, keep) : ring' = t.ring /\ spool' = t.spool
  BY DEF PutCheckpoint
<1>2. /\ TypeOK /\ IsStore(Now) /\ HeldOf(Now) = Held /\ keep \in Cursor
      /\ Ordered(HeldOf(Now))
  <2>1. TypeOK /\ Held \in Seq(Entry) /\ head \in Cursor /\ Anchored(Held, head)
    BY HeldType DEF LogInv, TypeOK, Good
  <2>2. keep \in Cursor
    BY <2>1 DEF TypeOK, Checkpoint
  <2> QED  BY <2>1, <2>2, NowIsStore, AnchoredOrdered
<1>3. DropsTo(Held, HeldOf(t), keep) /\ Held' = HeldOf(t)
  <2> HIDE DEF keep
  <2>1. DropsTo(HeldOf(Now), HeldOf(t), keep)
    BY <1>1, <1>2, TrimsDropPrefix
  <2> QED  BY <2>1, <1>1, <1>2 DEF Held, HeldOf
<1>4. Held' \in Contract!Kept(keep)
  BY <1>3, DropsToKept
<1>5. Contract!Boundaries = Boundaries
  BY DEF Contract!Boundaries, Boundaries, Contract!BoundariesOf, BoundariesOf,
         Contract!Before, Before
<1>6. Contract!Acceptable(cp)
  BY <1>5 DEF PutCheckpoint, Acceptable, Contract!Acceptable
<1>7. /\ newest' = cp /\ fallback' = (IF newest = None THEN fallback ELSE newest)
      /\ retain_from' = keep /\ UNCHANGED <<overflow, head, lost, exited>>
  BY DEF PutCheckpoint
<1> QED  BY <1>4, <1>5, <1>6, <1>7 DEF Contract!PutCheckpoint

LEMMA InitRefines == LogInit => Contract!LogInit
BY DEF LogInit, Contract!LogInit, Held, Start, Contract!Start

LEMMA NextRefines ==
  ASSUME LogInv, [LogNext]_logVars
  PROVE  [Contract!LogNext]_(Contract!recordLogVars)
<1>1. ASSUME NEW n \in Lens, AppendData(n)
      PROVE  [Contract!LogNext]_(Contract!recordLogVars)
  BY <1>1, AppendDataRefines DEF Contract!LogNext
<1>2. ASSUME NEW kind \in {"resize", "exit"}, AppendControl(kind)
      PROVE  Contract!LogNext
  BY <1>2, AppendControlRefines DEF Contract!LogNext
<1>3. ASSUME SettleGap PROVE Contract!LogNext
  BY <1>3, SettleGapRefines DEF Contract!LogNext
<1>4. ASSUME NEW c \in Boundaries, NEW b \in Blobs, PutCheckpoint([resume |-> c, blob |-> b])
      PROVE  Contract!LogNext
  BY <1>4, PutCheckpointRefines DEF Contract!LogNext
<1>5. ASSUME NEW n \in OthersHold, OthersSpool(n)
      PROVE  UNCHANGED Contract!recordLogVars
  BY <1>5 DEF OthersSpool, Contract!recordLogVars, Held
<1>6. ASSUME UNCHANGED logVars PROVE UNCHANGED Contract!recordLogVars
  BY <1>6 DEF logVars, Contract!recordLogVars, Held
<1> QED  BY <1>1, <1>2, <1>3, <1>4, <1>5, <1>6 DEF LogNext

(* SessionLog implements RecordLog: nothing its callers could see tells the *)
(* ring, the spool and a failing disk from one run of records that only     *)
(* ever loses a prefix behind its older checkpoint.                         *)
THEOREM ImplementsContract == LogSpec => KeepsContract
<1>1. LogInit => Contract!LogInit
  BY InitRefines
<1>2. LogInv /\ [LogNext]_logVars => [Contract!LogNext]_(Contract!recordLogVars)
  BY NextRefines
<1> QED  BY <1>1, <1>2, LogInvariant, PTL DEF LogSpec, KeepsContract, Contract!LogSpec
=============================================================================
