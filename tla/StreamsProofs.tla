--------------------------- MODULE StreamsProofs ---------------------------
(***************************************************************************)
(* Theorems about a session's streams, for every number of connections,    *)
(* records, attaches and breaks, and every cap: who attaches misses no     *)
(* byte and reads none twice, and once nothing is under way every attach   *)
(* was answered and who is attached has all that was printed.  Every       *)
(* operation of the hub is proved to keep what StreamsInvariants says as a *)
(* turn before the actions that take it are.                               *)
(***************************************************************************)
EXTENDS StreamsInvariants, FiniteSetTheorems, SequenceTheorems, WellFoundedInduction, TLAPS

--------------------
\* Sequences.

LEMMA TailIs ==
  ASSUME NEW S, NEW s \in Seq(S), s # <<>>
  PROVE  /\ Head(s) \in S /\ Head(s) = s[1] /\ Tail(s) \in Seq(S)
         /\ Len(Tail(s)) = Len(s) - 1 /\ Len(s) \in Nat /\ Len(s) > 0
         /\ \A i \in 1..Len(s) - 1 : Tail(s)[i] = s[i + 1]
OBVIOUS

LEMMA AppendIs ==
  ASSUME NEW S, NEW s \in Seq(S), NEW m \in S
  PROVE  /\ Append(s, m) \in Seq(S) /\ Len(s) \in Nat /\ Len(Append(s, m)) = Len(s) + 1
         /\ Append(s, m)[Len(s) + 1] = m
         /\ \A i \in 1..Len(s) : Append(s, m)[i] = s[i]
OBVIOUS

LEMMA ConcatIs ==
  ASSUME NEW S, NEW s \in Seq(S), NEW u \in Seq(S)
  PROVE  /\ s \o u \in Seq(S) /\ Len(s) \in Nat /\ Len(u) \in Nat /\ Len(s \o u) = Len(s) + Len(u)
         /\ \A i \in 1..Len(s) : (s \o u)[i] = s[i]
         /\ \A i \in 1..Len(u) : (s \o u)[Len(s) + i] = u[i]
OBVIOUS

--------------------
\* What a client stands at.

LEMMA StandsSame ==
  ASSUME NEW out, NEW u, NEW a, NEW i \in Nat, NEW n, StandsAt(out, a, i, n),
         \A j \in 1..i - 1 : u[j] = out[j]
  PROVE  StandsAt(u, a, i, n)
<1>1. CASE (\A l \in 1..i - 1 : ~Moves(out[l])) /\ a = n
  BY <1>1 DEF StandsAt, Moves
<1>2. CASE \E j \in 1..i - 1 :
             Moves(out[j]) /\ Leaves(out[j]) = n /\ \A l \in j + 1..i - 1 : ~Moves(out[l])
  <2>1. PICK j \in 1..i - 1 :
          Moves(out[j]) /\ Leaves(out[j]) = n /\ \A l \in j + 1..i - 1 : ~Moves(out[l])
    BY <1>2
  <2>2. Moves(u[j]) /\ Leaves(u[j]) = n
    BY <2>1 DEF Moves, Leaves
  <2>3. ASSUME NEW l \in j + 1..i - 1 PROVE ~Moves(u[l])
    <3>1. l \in 1..i - 1
      OBVIOUS
    <3> QED BY <2>1, <3>1 DEF Moves
  <2> QED BY <2>2, <2>3 DEF StandsAt
<1> QED BY <1>1, <1>2 DEF StandsAt

LEMMA StandsNext ==
  ASSUME NEW out, NEW a, NEW i \in Nat, i > 0
  PROVE  /\ Moves(out[i]) => StandsAt(out, a, i + 1, Leaves(out[i]))
         /\ \A n : ~Moves(out[i]) /\ StandsAt(out, a, i, n) => StandsAt(out, a, i + 1, n)
<1>1. ASSUME Moves(out[i]) PROVE StandsAt(out, a, i + 1, Leaves(out[i]))
  <2>1. i \in 1..i + 1 - 1 /\ \A l \in i + 1..i + 1 - 1 : FALSE
    OBVIOUS
  <2> QED BY <1>1, <2>1 DEF StandsAt
<1>2. ASSUME NEW n, ~Moves(out[i]), StandsAt(out, a, i, n) PROVE StandsAt(out, a, i + 1, n)
  <2>1. CASE (\A l \in 1..i - 1 : ~Moves(out[l])) /\ a = n
    <3>1. \A l \in 1..i + 1 - 1 : l \in 1..i - 1 \/ l = i
      OBVIOUS
    <3> QED BY <1>2, <2>1, <3>1 DEF StandsAt
  <2>2. CASE \E j \in 1..i - 1 :
               Moves(out[j]) /\ Leaves(out[j]) = n /\ \A l \in j + 1..i - 1 : ~Moves(out[l])
    <3>1. PICK j \in 1..i - 1 :
            Moves(out[j]) /\ Leaves(out[j]) = n /\ \A l \in j + 1..i - 1 : ~Moves(out[l])
      BY <2>2
    <3>2. j \in 1..i + 1 - 1 /\ \A l \in j + 1..i + 1 - 1 : l \in j + 1..i - 1 \/ l = i
      OBVIOUS
    <3> QED BY <1>2, <3>1, <3>2 DEF StandsAt
  <2> QED BY <1>2, <2>1, <2>2 DEF StandsAt
<1> QED BY <1>1, <1>2

\* The first message is read.
LEMMA StandsTail ==
  ASSUME NEW out \in Seq(Msg), out # <<>>, NEW a, NEW i \in 1..Len(out), NEW n,
         StandsAt(out, a, i + 1, n)
  PROVE  StandsAt(Tail(out), IF Moves(Head(out)) THEN Leaves(Head(out)) ELSE a, i, n)
<1> DEFINE b == IF Moves(Head(out)) THEN Leaves(Head(out)) ELSE a
<1>1. Head(out) = out[1] /\ Len(out) \in Nat /\ \A j \in 1..Len(out) - 1 : Tail(out)[j] = out[j + 1]
  BY TailIs
<1>2. \A j \in 1..i - 1 : Tail(out)[j] = out[j + 1]
  BY <1>1
<1>3. CASE (\A l \in 1..i : ~Moves(out[l])) /\ a = n
  <2>1. ~Moves(Head(out)) /\ b = n
    BY <1>1, <1>3
  <2>2. \A l \in 1..i - 1 : ~Moves(Tail(out)[l])
    BY <1>2, <1>3
  <2> QED BY <2>1, <2>2 DEF StandsAt
<1>4. CASE \E j \in 1..i : Moves(out[j]) /\ Leaves(out[j]) = n /\ \A l \in j + 1..i : ~Moves(out[l])
  <2>1. PICK j \in 1..i :
          Moves(out[j]) /\ Leaves(out[j]) = n /\ \A l \in j + 1..i : ~Moves(out[l])
    BY <1>4
  <2>2. \A l \in j..i - 1 : l # 0 => ~Moves(Tail(out)[l])
    <3> SUFFICES ASSUME NEW l \in j..i - 1, l # 0 PROVE ~Moves(Tail(out)[l])
      OBVIOUS
    <3>1. l \in 1..i - 1 /\ l + 1 \in j + 1..i
      BY <1>1
    <3> QED BY <1>2, <2>1, <3>1
  <2>3. CASE j = 1
    <3>1. Moves(Head(out)) /\ b = n
      BY <1>1, <2>1, <2>3
    <3>2. \A l \in 1..i - 1 : ~Moves(Tail(out)[l])
      BY <2>2, <2>3
    <3> QED BY <3>1, <3>2 DEF StandsAt
  <2>4. CASE j # 1
    <3>1. j - 1 \in 1..i - 1 /\ Tail(out)[j - 1] = out[j]
      <4>1. j - 1 \in 1..i - 1 /\ (j - 1) + 1 = j
        BY <2>4, <1>1
      <4> QED BY <4>1, <1>2
    <3>2. \A l \in (j - 1) + 1..i - 1 : ~Moves(Tail(out)[l])
      BY <2>2
    <3> QED BY <2>1, <3>1, <3>2 DEF StandsAt
  <2> QED BY <2>3, <2>4
<1>5. i + 1 - 1 = i
  BY <1>1
<1> QED BY <1>3, <1>4, <1>5 DEF StandsAt

LEMMA MsgIs ==
  ASSUME NEW m \in Msg
  PROVE  /\ m.is \in MessageKinds /\ m.rpc \in Rpcs \cup {None} /\ m.at \in Spot \cup {None}
         /\ m.is = "bytes" => m.at \in Nat /\ m.at < Len(log) /\ Leaves(m) = m.at + 1
         /\ m.is \in {"continued", "snapshot"} => m.at \in Spot
         /\ m.is = "resync" => m.at = None
         /\ m.is # "bytes" => Leaves(m) = m.at
BY DEF Msg, Leaves

LEMMA SteadyTail ==
  ASSUME NEW out \in Seq(Msg), out # <<>>, NEW a, Steady(out, a)
  PROVE  Steady(Tail(out), IF Moves(Head(out)) THEN Leaves(Head(out)) ELSE a)
<1> DEFINE b == IF Moves(Head(out)) THEN Leaves(Head(out)) ELSE a
<1> SUFFICES ASSUME NEW i \in 1..Len(Tail(out)), Tail(out)[i].is = "bytes"
             PROVE  StandsAt(Tail(out), b, i, Tail(out)[i].at)
  BY DEF Steady
<1>1. i \in 1..Len(out) - 1 /\ i + 1 \in 1..Len(out) /\ i \in 1..Len(out) /\ Tail(out)[i] = out[i + 1]
  BY TailIs
<1>2. StandsAt(out, a, i + 1, out[i + 1].at)
  BY <1>1 DEF Steady
<1> QED BY <1>1, <1>2, StandsTail

LEMMA EndsTail ==
  ASSUME NEW out \in Seq(Msg), out # <<>>, NEW a, NEW n
  PROVE  Ends(out, a, n) => Ends(Tail(out), IF Moves(Head(out)) THEN Leaves(Head(out)) ELSE a, n)
<1> SUFFICES ASSUME Ends(out, a, n)
             PROVE  Ends(Tail(out), IF Moves(Head(out)) THEN Leaves(Head(out)) ELSE a, n)
  OBVIOUS
<1>1. Len(out) \in 1..Len(out) /\ Len(Tail(out)) + 1 = Len(out)
  BY TailIs
<1>2. StandsAt(out, a, Len(out) + 1, n)
  BY DEF Ends
<1> QED BY <1>1, <1>2, StandsTail DEF Ends

\* Messages that follow: none is bytes, or all are, in order.
LEMMA SteadyMore ==
  ASSUME NEW out \in Seq(Msg), NEW u \in Seq(Msg), NEW a, Steady(out, a),
         \A i \in 1..Len(u) : u[i].is # "bytes"
  PROVE  Steady(out \o u, a)
<1> SUFFICES ASSUME NEW i \in 1..Len(out \o u), (out \o u)[i].is = "bytes"
             PROVE  StandsAt(out \o u, a, i, (out \o u)[i].at)
  BY DEF Steady
<1>1. Len(out) \in Nat /\ Len(u) \in Nat /\ Len(out \o u) = Len(out) + Len(u)
  BY ConcatIs
<1>2. i \in 1..Len(out)
  <2>1. SUFFICES ASSUME i \notin 1..Len(out) PROVE FALSE
    OBVIOUS
  <2>2. i - Len(out) \in 1..Len(u) /\ i = Len(out) + (i - Len(out))
    BY <1>1, <2>1
  <2>3. (out \o u)[i] = u[i - Len(out)]
    BY <2>2, ConcatIs
  <2> QED BY <2>2, <2>3
<1>3. \A j \in 1..i : (out \o u)[j] = out[j]
  BY <1>1, <1>2, ConcatIs
<1>4. i \in Nat /\ StandsAt(out, a, i, out[i].at) /\ (out \o u)[i] = out[i]
  BY <1>2, <1>3 DEF Steady
<1>5. \A j \in 1..i - 1 : (out \o u)[j] = out[j]
  BY <1>3, <1>4
<1> QED BY <1>4, <1>5, StandsSame

LEMMA EndsMore ==
  ASSUME NEW out \in Seq(Msg), NEW m \in Msg, NEW a
  PROVE  /\ Moves(m) => Ends(Append(out, m), a, Leaves(m))
         /\ \A n : ~Moves(m) /\ Ends(out, a, n) => Ends(Append(out, m), a, n)
<1> DEFINE v == Append(out, m)
<1>1. Len(out) \in Nat /\ Len(v) = Len(out) + 1 /\ v[Len(out) + 1] = m
      /\ \A i \in 1..Len(out) : v[i] = out[i]
  BY AppendIs
<1> HIDE DEF v
<1>2. \A n : Ends(out, a, n) => StandsAt(v, a, Len(out) + 1, n)
  <2> SUFFICES ASSUME NEW n, StandsAt(out, a, Len(out) + 1, n)
               PROVE  StandsAt(v, a, Len(out) + 1, n)
    BY DEF Ends
  <2>1. Len(out) + 1 \in Nat /\ \A j \in 1..Len(out) + 1 - 1 : v[j] = out[j]
    BY <1>1
  <2> QED BY <2>1, StandsSame
<1>3. Len(out) + 1 \in Nat /\ Len(out) + 1 > 0
  BY <1>1
<1>4. Moves(m) => StandsAt(v, a, Len(out) + 1 + 1, Leaves(m))
  BY <1>1, <1>3, StandsNext
<1>5. \A n : ~Moves(m) /\ StandsAt(v, a, Len(out) + 1, n) => StandsAt(v, a, Len(out) + 1 + 1, n)
  BY <1>1, <1>3, StandsNext
<1> QED BY <1>1, <1>2, <1>4, <1>5 DEF Ends, v

LEMMA BytesFollow ==
  ASSUME NEW out \in Seq(Msg), NEW u \in Seq(Msg), NEW a, NEW n \in Nat,
         Steady(out, a), Ends(out, a, n),
         \A i \in 1..Len(u) : u[i].is = "bytes" /\ u[i].at = n + i - 1
  PROVE  Steady(out \o u, a) /\ Ends(out \o u, a, n + Len(u))
<1> DEFINE v == out \o u
<1>1. Len(out) \in Nat /\ Len(u) \in Nat /\ Len(v) = Len(out) + Len(u)
      /\ (\A i \in 1..Len(out) : v[i] = out[i]) /\ \A i \in 1..Len(u) : v[Len(out) + i] = u[i]
  BY ConcatIs
<1> HIDE DEF v
<1>2. \A i \in 0..Len(u) : StandsAt(v, a, Len(out) + i + 1, n + i)
  <2> SUFFICES ASSUME NEW i \in 0..Len(u) PROVE StandsAt(v, a, Len(out) + i + 1, n + i)
    OBVIOUS
  <2>1. CASE i = 0
    <3>1. Len(out) + 1 \in Nat /\ \A j \in 1..Len(out) + 1 - 1 : v[j] = out[j]
      BY <1>1
    <3>2. StandsAt(v, a, Len(out) + 1, n)
      BY <3>1, StandsSame DEF Ends
    <3>3. Len(out) + i + 1 = Len(out) + 1 /\ n + i = n
      BY <1>1, <2>1
    <3> QED BY <3>2, <3>3
  <2>2. CASE i # 0
    <3>1. i \in 1..Len(u) /\ Len(out) + i \in Nat /\ Len(out) + i > 0 /\ v[Len(out) + i] = u[i]
      BY <1>1, <2>2
    <3>2. Moves(u[i]) /\ Leaves(u[i]) = n + i
      <4>1. u[i].is = "bytes" /\ u[i].at = n + i - 1
        BY <3>1
      <4>2. n + i - 1 + 1 = n + i
        BY <3>1
      <4> QED BY <4>1, <4>2 DEF Moves, Leaves
    <3> QED BY <3>1, <3>2, StandsNext
  <2> QED BY <2>1, <2>2
<1>3. ASSUME NEW i \in 1..Len(v), v[i].is = "bytes" PROVE StandsAt(v, a, i, v[i].at)
  <2>1. CASE i \in 1..Len(out)
    <3>1. i \in Nat /\ v[i] = out[i] /\ \A j \in 1..i - 1 : v[j] = out[j]
      BY <1>1, <2>1
    <3>2. StandsAt(out, a, i, out[i].at)
      BY <1>3, <2>1, <3>1 DEF Steady
    <3> QED BY <3>1, <3>2, StandsSame
  <2>2. CASE i \notin 1..Len(out)
    <3> DEFINE j == i - Len(out)
    <3>1. j \in 1..Len(u) /\ j - 1 \in 0..Len(u) /\ i = Len(out) + j /\ Len(out) + (j - 1) + 1 = i
          /\ n + (j - 1) = n + j - 1
      BY <1>1, <2>2
    <3>2. v[i] = u[j] /\ u[j].at = n + j - 1
      BY <1>1, <3>1
    <3>3. StandsAt(v, a, Len(out) + (j - 1) + 1, n + (j - 1))
      BY <1>2, <3>1
    <3> QED BY <3>1, <3>2, <3>3
  <2> QED BY <2>1, <2>2
<1>4. Ends(v, a, n + Len(u))
  <2>1. Len(u) \in 0..Len(u) /\ Len(out) + Len(u) + 1 = Len(v) + 1
    BY <1>1
  <2> QED BY <1>2, <2>1 DEF Ends
<1> QED BY <1>3, <1>4 DEF Steady, v

--------------------
\* What is queued.

LEMMA ConnFields ==
  ASSUME NEW k \in Conn
  PROVE  /\ k.att \in Att \cup {None} /\ k.out \in Seq(Msg) /\ Len(k.out) \in Nat
         /\ {k.catching, k.storing, k.wake, k.missed} \subseteq BOOLEAN
         /\ \A out \in Seq(Msg) : [k EXCEPT !.out = out] \in Conn
         /\ \A modes : Attached(k, modes) => k.att \in Att /\ k.att.mode \in Modes
<1>1. k.att \in Att \cup {None} /\ k.out \in Seq(Msg)
      /\ {k.catching, k.storing, k.wake, k.missed} \subseteq BOOLEAN
  BY DEF Conn
<1>2. \A out \in Seq(Msg) : [k EXCEPT !.out = out] \in Conn
  BY DEF Conn
<1>3. ASSUME NEW modes, Attached(k, modes) PROVE k.att \in Att /\ k.att.mode \in Modes
  BY <1>1, <1>3 DEF Attached, Att
<1> QED BY <1>1, <1>2, <1>3

LEMMA QueueIs ==
  ASSUME NEW out \in Seq(Msg)
  PROVE  /\ IsFiniteSet(Queue(out)) /\ Cardinality(Queue(out)) \in Nat
         /\ Queue(out) = {i \in 1..Len(out) : Weighs(out[i])}
<1>1. Len(out) \in Nat /\ DOMAIN out = 1..Len(out)
  OBVIOUS
<1>2. Queue(out) \in SUBSET (1..Len(out)) /\ Queue(out) = {i \in 1..Len(out) : Weighs(out[i])}
  BY <1>1 DEF Queue, Weighs
<1>3. IsFiniteSet(1..Len(out))
  BY <1>1, FS_Interval
<1>4. IsFiniteSet(Queue(out))
  BY <1>2, <1>3, FS_Subset
<1> QED BY <1>2, <1>4, FS_CardinalityType

LEMMA QueuedIs ==
  ASSUME NEW k \in Conn
  PROVE  Queued(k) = Cardinality(Queue(k.out)) /\ Queued(k) \in Nat
<1>1. k.out \in Seq(Msg) /\ Queued(k) = Cardinality(Queue(k.out))
  BY ConnFields DEF Queued, Queue
<1> QED BY <1>1, QueueIs

\* A queue that begins as another did holds no less.
LEMMA QueueGrows ==
  ASSUME NEW out \in Seq(Msg), NEW u \in Seq(Msg), Len(out) <= Len(u),
         \A i \in 1..Len(out) : Weighs(out[i]) => Weighs(u[i])
  PROVE  Cardinality(Queue(out)) <= Cardinality(Queue(u))
<1>1. Queue(out) \in SUBSET Queue(u)
  BY QueueIs
<1> QED BY <1>1, QueueIs, FS_Subset

LEMMA QueueBytes ==
  ASSUME NEW out \in Seq(Msg), NEW u \in Seq(Msg), \A i \in 1..Len(u) : Weighs(u[i])
  PROVE  Cardinality(Queue(out \o u)) = Cardinality(Queue(out)) + Len(u)
<1> DEFINE v == out \o u
           new == Len(out) + 1..Len(out) + Len(u)
<1>1. Len(out) \in Nat /\ Len(u) \in Nat /\ Len(v) = Len(out) + Len(u) /\ v \in Seq(Msg)
      /\ (\A i \in 1..Len(out) : v[i] = out[i]) /\ \A i \in 1..Len(u) : v[Len(out) + i] = u[i]
  BY ConcatIs
<1> HIDE DEF v
<1>2. ASSUME NEW i \in new PROVE i \in 1..Len(v) /\ Weighs(v[i])
  <2>1. i - Len(out) \in 1..Len(u) /\ i = Len(out) + (i - Len(out)) /\ i \in 1..Len(v)
    BY <1>1
  <2> QED BY <1>1, <2>1
<1>3. Queue(v) = Queue(out) \cup new /\ Queue(out) \cap new = {}
  <2>1. \A i \in 1..Len(v) : i \in 1..Len(out) \/ i \in new
    BY <1>1
  <2>2. \A i \in 1..Len(out) : i \in 1..Len(v) /\ i \notin new
    BY <1>1
  <2> QED BY <1>1, <1>2, <2>1, <2>2, QueueIs
<1>4. IsFiniteSet(new) /\ Cardinality(new) = Len(u)
  <2>1. \A p \in Nat, n \in Nat :
          IsFiniteSet(p + 1..p + n) /\ Cardinality(p + 1..p + n) = n
    <3> SUFFICES ASSUME NEW p \in Nat, NEW n \in Nat
                 PROVE  IsFiniteSet(p + 1..p + n) /\ Cardinality(p + 1..p + n) = n
      OBVIOUS
    <3> DEFINE lo == p + 1
               hi == p + n
    <3>1. lo \in Int /\ hi \in Int /\ (lo > hi => n = 0) /\ (lo <= hi => hi - lo + 1 = n)
      OBVIOUS
    <3> HIDE DEF lo, hi
    <3>2. IsFiniteSet(lo..hi) /\ Cardinality(lo..hi) = IF lo > hi THEN 0 ELSE hi - lo + 1
      BY <3>1, FS_Interval
    <3>3. Cardinality(lo..hi) = n
      BY <3>1, <3>2
    <3> QED BY <3>2, <3>3 DEF lo, hi
  <2> QED BY <1>1, <2>1
<1>5. Cardinality(Queue(v)) = Cardinality(Queue(out)) + Cardinality(new) - Cardinality({})
  <2> HIDE DEF new
  <2> QED BY <1>3, <1>4, QueueIs, FS_Union
<1> QED BY <1>1, <1>4, <1>5, QueueIs, FS_EmptySet DEF v

LEMMA NoneIsNot == None \notin Int /\ None \notin Rpcs /\ Rpcs \subseteq Nat /\ MaxAttaches \in Nat
                   /\ QueueCap \in Nat
BY ClientsAssumption DEF Rpcs

LEMMA NoteIs ==
  ASSUME NEW is \in {"resync", "exit"}
  PROVE  Note(is) \in Msg /\ Note(is).is = is /\ Note(is).rpc = None /\ Note(is).at = None
BY DEF Note, Message, Msg, MessageKinds

\* Messages that answer nothing.
LEMMA CarriedMore ==
  ASSUME NEW k \in Conn, NEW u \in Seq(Msg), \A j \in 1..Len(u) : u[j].rpc = None, NEW i \in Rpcs
  PROVE  Carried([k EXCEPT !.out = @ \o u], i) = Carried(k, i)
<1>1. k.out \in Seq(Msg) /\ [k EXCEPT !.out = @ \o u].out = k.out \o u
  BY ConnFields DEF Conn
<1> DEFINE out == k.out
           v == out \o u
<1>2. Len(out) \in Nat /\ Len(u) \in Nat /\ Len(v) = Len(out) + Len(u) /\ v \in Seq(Msg)
      /\ (\A j \in 1..Len(out) : v[j] = out[j]) /\ \A j \in 1..Len(u) : v[Len(out) + j] = u[j]
  BY <1>1, ConcatIs
<1>3. DOMAIN out = 1..Len(out) /\ DOMAIN v = 1..Len(v)
  BY <1>1, <1>2
<1> HIDE DEF v, out
<1>4. ASSUME NEW j \in 1..Len(v), v[j].rpc = i PROVE j \in 1..Len(out)
  <2>1. SUFFICES ASSUME j \notin 1..Len(out) PROVE FALSE
    OBVIOUS
  <2>2. j - Len(out) \in 1..Len(u) /\ j = Len(out) + (j - Len(out))
    BY <1>2, <2>1
  <2>3. v[j] = u[j - Len(out)]
    BY <1>2, <2>2, Zenon
  <2>4. v[j].rpc = None
    BY <2>2, <2>3
  <2> QED BY <1>4, <2>4, NoneIsNot
<1>5. {j \in 1..Len(v) : v[j].rpc = i} = {j \in 1..Len(out) : out[j].rpc = i}
  <2>1. \A j \in 1..Len(out) : j \in 1..Len(v)
    BY <1>2
  <2>2. \A j \in 1..Len(v) : v[j].rpc = i => j \in 1..Len(out) /\ out[j].rpc = i
    BY <1>2, <1>4
  <2>3. \A j \in 1..Len(out) : out[j].rpc = i => j \in 1..Len(v) /\ v[j].rpc = i
    BY <1>2, <2>1
  <2> QED BY <2>2, <2>3
<1> QED BY <1>1, <1>3, <1>5 DEF Carried, v, out

LEMMA CarriedPush ==
  ASSUME NEW k \in Conn, NEW m \in Msg, NEW i \in Rpcs
  PROVE  Carried(Push(k, m), i) = Carried(k, i) \cup (IF m.rpc = i THEN {Len(k.out) + 1} ELSE {})
<1>1. k.out \in Seq(Msg) /\ Push(k, m).out = Append(k.out, m)
  BY ConnFields DEF Conn, Push
<1> DEFINE out == k.out
           v == Append(out, m)
<1>2. v \in Seq(Msg) /\ Len(out) \in Nat /\ Len(v) = Len(out) + 1 /\ v[Len(out) + 1] = m
      /\ \A j \in 1..Len(out) : v[j] = out[j]
  BY <1>1, AppendIs
<1>3. DOMAIN out = 1..Len(out) /\ DOMAIN v = 1..Len(v) /\ 1..Len(v) = (1..Len(out)) \cup {Len(out) + 1}
  BY <1>1, <1>2
<1> HIDE DEF v, out
<1>4. {j \in 1..Len(v) : v[j].rpc = i}
        = {j \in 1..Len(out) : out[j].rpc = i} \cup (IF m.rpc = i THEN {Len(out) + 1} ELSE {})
  BY <1>2, <1>3
<1> QED BY <1>1, <1>3, <1>4 DEF Carried, v, out

--------------------
\* Least elements.

LEMMA LeastIs ==
  ASSUME NEW T \in SUBSET Nat, T # {}
  PROVE  Min(T) \in T /\ \A k \in T : Min(T) <= k
<1>1. PICK m \in T : \A k \in T : <<k, m>> \notin OpToRel(<, Nat)
  BY NatLessThanWellFounded, WFMin
<1>2. ASSUME NEW k \in T PROVE m <= k
  <2>1. k \in Nat /\ m \in Nat
    OBVIOUS
  <2>2. k < m => <<k, m>> \in OpToRel(<, Nat)
    BY <2>1 DEF OpToRel
  <2>3. ~(k < m)
    BY <1>1, <2>2
  <2> QED BY <2>1, <2>3
<1>3. \E x \in T : \A k \in T : x <= k
  BY <1>2
<1> QED BY <1>3, Zenon DEF Min

--------------------
\* Feed: bytes from where the attachment stands, without a break.

LEMMA LogIs ==
  ASSUME LogFine
  PROVE  /\ Len(log) \in Nat /\ Spot = 0..Len(log) /\ Spot \subseteq Nat
         /\ \A r \in 0..Len(log) - 1 : Kind(r) = "exit" => r = Len(log) - 1 /\ Ended
<1>1. Len(log) \in Nat /\ log \in Seq({"data", "gap", "exit"})
  BY DEF LogFine
<1>2. ASSUME NEW r \in 0..Len(log) - 1, Kind(r) = "exit" PROVE r = Len(log) - 1 /\ Ended
  <2>1. r + 1 \in 1..Len(log) /\ log[r + 1] = "exit"
    BY <1>1, <1>2 DEF Kind
  <2>2. r + 1 = Len(log)
    BY <1>1, <2>1 DEF LogFine
  <2> QED BY <1>1, <2>1, <2>2 DEF Ended, Last
<1> QED BY <1>1, <1>2 DEF Spot

\* How many bytes a stretch of the log is.
LEMMA StretchIs ==
  ASSUME LogFine, NEW from \in Spot, NEW end \in Spot
  PROVE  LET exits == {r \in from..end - 1 : Kind(r) = "exit"}
             wanted == Cardinality((from..end - 1) \ exits)
         IN  /\ wanted \in Nat
             /\ from >= end => wanted = 0 /\ exits = {}
             /\ from < end /\ exits = {} => wanted = end - from
             /\ from < end /\ exits # {} => wanted = end - from - 1 /\ end = Len(log) /\ Ended
<1> DEFINE exits == {r \in from..end - 1 : Kind(r) = "exit"}
           wanted == Cardinality((from..end - 1) \ exits)
<1>1. from \in Nat /\ end \in Nat /\ end <= Len(log) /\ Len(log) \in Nat
  BY LogIs
<1>2. IsFiniteSet(from..end - 1) /\ Cardinality(from..end - 1) = IF from > end - 1 THEN 0 ELSE end - from
  <2>1. from \in Int /\ end - 1 \in Int
    BY <1>1
  <2>2. IsFiniteSet(from..end - 1) /\ Cardinality(from..end - 1)
          = IF from > end - 1 THEN 0 ELSE (end - 1) - from + 1
    BY <2>1, FS_Interval
  <2>3. (end - 1) - from + 1 = end - from
    BY <1>1
  <2> QED BY <2>2, <2>3
<1>3. ASSUME NEW r \in exits PROVE r = Len(log) - 1 /\ r = end - 1 /\ end = Len(log) /\ Ended
  <2>1. r \in 0..Len(log) - 1 /\ r <= end - 1 /\ r \in Nat
    BY <1>1
  <2> QED BY <1>1, <2>1, LogIs
<1>4. CASE exits = {}
  <2>1. (from..end - 1) \ exits = from..end - 1
    BY <1>4
  <2>2. wanted = IF from > end - 1 THEN 0 ELSE end - from
    BY <1>2, <2>1
  <2> QED BY <1>1, <1>4, <2>2
<1>5. CASE exits # {}
  <2>1. PICK r \in exits : TRUE
    BY <1>5
  <2>2. exits = {end - 1} /\ end - 1 \in from..end - 1 /\ end = Len(log) /\ Ended
    BY <1>3, <2>1
  <2>3. (from..end - 1) \ exits = (from..end - 1) \ {end - 1}
    BY <2>2
  <2>4. wanted = Cardinality(from..end - 1) - 1
    <3> HIDE DEF exits
    <3> QED BY <1>2, <2>2, <2>3, FS_RemoveElement
  <2>5. ~(from > end - 1) /\ from < end
    BY <1>1, <2>2
  <2> QED BY <1>1, <1>2, <1>5, <2>2, <2>4, <2>5
<1> QED BY <1>4, <1>5

LEMMA RunIs ==
  ASSUME LogFine, NEW from \in Spot, NEW n \in Nat, from + n <= Len(log)
  PROVE  LET u == [i \in 1..n |-> Message("bytes", None, from + i - 1)]
         IN  u \in Seq(Msg) /\ Len(u) = n /\ Run(u, from)
<1> DEFINE u == [i \in 1..n |-> Message("bytes", None, from + i - 1)]
<1>1. ASSUME NEW i \in 1..n PROVE Message("bytes", None, from + i - 1) \in Msg
  <2>1. from + i - 1 \in Nat /\ from + i - 1 < Len(log) /\ from + i - 1 \in Spot
    BY LogIs
  <2> QED BY <2>1 DEF Message, Msg, MessageKinds
<1>2. u \in Seq(Msg) /\ Len(u) = n
  BY <1>1
<1> QED BY <1>2 DEF Run

LEMMA FeedIs ==
  ASSUME LogFine, NEW k \in Conn, NEW from \in Spot, NEW lo \in Spot, NEW hi \in Spot
  PROVE  LET f == Feed(k, from, lo, hi)
         IN  /\ f.full \in BOOLEAN /\ f.lost \in BOOLEAN /\ f.next \in Spot
             /\ \E u \in Seq(Msg), e \in {<<>>, <<Note("exit")>>} :
                  /\ f.conn = [k EXCEPT !.out = @ \o u \o e] /\ Run(u, from)
                  /\ \/ f.next = from + Len(u)
                     \/ f.next = from + Len(u) + 1 /\ f.next = Len(log) /\ Ended /\ ~f.full
                  /\ f.full => e = <<>> /\ Queued(k) + Len(u) > QueueCap
<1> DEFINE first == IF lo > from THEN lo ELSE from
           hole == first < hi /\ first # from
           gaps == {r \in first..hi - 1 : Kind(r) = "gap"}
           end == IF hole THEN from ELSE IF gaps = {} THEN hi ELSE Min(gaps)
           exits == {r \in from..end - 1 : Kind(r) = "exit"}
           wanted == Cardinality((from..end - 1) \ exits)
           room == IF Queued(k) > QueueCap THEN 0 ELSE QueueCap + 1 - Queued(k)
           sent == IF wanted > room THEN room ELSE wanted
           bytes == [i \in 1..sent |-> Message("bytes", None, from + i - 1)]
           full == sent < wanted
           e == IF full \/ exits = {} THEN <<>> ELSE <<Note("exit")>>
           next == IF full THEN from + sent ELSE IF end > from THEN end ELSE from
           f == Feed(k, from, lo, hi)
<1>1. f = [conn |-> [k EXCEPT !.out = @ \o bytes \o e], full |-> full,
           lost |-> ~full /\ (hole \/ gaps # {}), next |-> next]
  BY DEF Feed
<1>2. from \in Nat /\ lo \in Nat /\ hi \in Nat /\ hi <= Len(log) /\ from <= Len(log) /\ Len(log) \in Nat
      /\ Queued(k) \in Nat /\ QueueCap \in Nat
  BY LogIs, QueuedIs, NoneIsNot
<1>3. end \in Spot
  <2>1. gaps # {} => Min(gaps) \in gaps
    <3>1. gaps \in SUBSET Nat
      BY <1>2
    <3> HIDE DEF gaps
    <3> QED BY <3>1, LeastIs
  <2>2. gaps # {} => Min(gaps) \in Nat /\ Min(gaps) <= hi - 1
    BY <1>2, <2>1
  <2> HIDE DEF gaps
  <2> QED BY <1>2, <2>2, LogIs
<1> HIDE DEF end
<1>4. /\ wanted \in Nat
      /\ from >= end => wanted = 0 /\ exits = {}
      /\ from < end /\ exits = {} => wanted = end - from
      /\ from < end /\ exits # {} => wanted = end - from - 1 /\ end = Len(log) /\ Ended
  BY <1>3, StretchIs
<1> HIDE DEF wanted, exits
<1>5. room \in Nat /\ sent \in Nat /\ sent <= wanted /\ (full => sent = room) /\ (~full => sent = wanted)
      /\ (Queued(k) + room > QueueCap)
  BY <1>2, <1>4
<1>16. full \in BOOLEAN
  OBVIOUS
<1> HIDE DEF room, sent
<1>6. end \in Nat /\ end <= Len(log) /\ from + sent <= Len(log)
  BY <1>2, <1>3, <1>4, <1>5, LogIs
<1>7. bytes \in Seq(Msg) /\ Len(bytes) = sent /\ Run(bytes, from)
  BY <1>5, <1>6, RunIs
<1> HIDE DEF bytes
<1>13. (full => next = from + sent) /\ (~full => next = IF end > from THEN end ELSE from)
  OBVIOUS
<1>14. from + sent \in Spot
  BY <1>2, <1>5, <1>6, LogIs
<1>15. e \in {<<>>, <<Note("exit")>>} /\ (full => e = <<>>)
  OBVIOUS
<1> HIDE DEF next, full
<1>8. next \in Spot /\ (next = from + sent \/ (next = from + sent + 1 /\ next = Len(log) /\ Ended /\ ~full))
  <2>1. CASE full
    BY <1>13, <1>14, <2>1
  <2>2. CASE ~full /\ from >= end
    <3>1. next = from /\ sent = 0 /\ from + 0 = from
      BY <1>2, <1>4, <1>5, <1>6, <1>13, <2>2
    <3> QED BY <3>1
  <2>3. CASE ~full /\ from < end
    <3>1. next = end /\ sent = wanted
      BY <1>2, <1>5, <1>6, <1>13, <2>3
    <3>2. CASE exits = {}
      <4>1. from + sent = end
        BY <1>2, <1>4, <1>6, <2>3, <3>1, <3>2
      <4> QED BY <1>3, <3>1, <4>1
    <3>3. CASE exits # {}
      <4>1. from + sent + 1 = end /\ end = Len(log) /\ Ended
        BY <1>2, <1>4, <1>6, <2>3, <3>1, <3>3
      <4> QED BY <1>3, <2>3, <3>1, <4>1
    <3> QED BY <3>2, <3>3
  <2> QED BY <1>2, <1>6, <2>1, <2>2, <2>3
<1>10. full => Queued(k) + Len(bytes) > QueueCap
  BY <1>5, <1>7
<1> HIDE DEF e
<1>11. f.full = full /\ f.next = next /\ f.conn = [k EXCEPT !.out = @ \o bytes \o e] /\ f.full \in BOOLEAN
       /\ f.lost \in BOOLEAN
  BY <1>1, <1>16
<1> HIDE DEF f
<1>12. /\ f.conn = [k EXCEPT !.out = @ \o bytes \o e] /\ Run(bytes, from)
       /\ \/ f.next = from + Len(bytes)
          \/ f.next = from + Len(bytes) + 1 /\ f.next = Len(log) /\ Ended /\ ~f.full
       /\ f.full => e = <<>> /\ Queued(k) + Len(bytes) > QueueCap
  BY <1>7, <1>8, <1>15, <1>10, <1>11
<1> QED BY <1>7, <1>8, <1>15, <1>11, <1>12 DEF f

--------------------
\* What the hub does to a connection.

LEMMA KeptTwice ==
  ASSUME NEW k \in Conn, NEW f, NEW g, Kept(k, f), Kept(f, g)
  PROVE  Kept(k, g)
<1>1. Queued(k) \in Nat /\ Queued(f) \in Nat /\ Queued(g) \in Nat
  BY QueuedIs DEF Kept
<1> QED BY <1>1 DEF Kept

\* Only the attachment and the flags differ.
LEMMA KeptSame ==
  ASSUME NEW k \in Conn, NEW f \in Conn, f.out = k.out
  PROVE  Kept(k, f)
<1>1. Queued(f) = Queued(k) /\ Queued(k) \in Nat
  BY QueuedIs
<1> QED BY <1>1 DEF Kept, Carried

LEMMA OneIs ==
  ASSUME NEW S, NEW m \in S
  PROVE  /\ <<m>> \in Seq(S) /\ Len(<<m>>) = 1 /\ \A j \in 1..1 : <<m>>[j] = m
         /\ \A s \in Seq(S) : s \o <<m>> = Append(s, m)
OBVIOUS

LEMMA RunFields ==
  ASSUME NEW u, NEW from, Run(u, from), NEW i \in 1..Len(u)
  PROVE  /\ u[i].is = "bytes" /\ u[i].rpc = None /\ u[i].at = from + i - 1
         /\ Weighs(u[i])
<1>1. u[i] = Message("bytes", None, from + i - 1)
  BY DEF Run
<1>2. u[i] = [is |-> "bytes", rpc |-> None, at |-> from + i - 1]
  BY <1>1 DEF Message
<1> QED BY <1>2 DEF Weighs

LEMMA RunEmpty ==
  ASSUME LogFine, NEW u \in Seq(Msg), Run(u, Len(log))
  PROVE  Len(u) = 0
<1>1. SUFFICES ASSUME Len(u) # 0 PROVE FALSE
  OBVIOUS
<1>2. 1 \in 1..Len(u) /\ u[1] \in Msg
  BY <1>1
<1>3. u[1] = Message("bytes", None, Len(log) + 1 - 1)
  BY <1>2 DEF Run
<1>4. u[1].is = "bytes" /\ u[1].at = Len(log)
  BY <1>3, LogIs DEF Message
<1> QED BY <1>2, <1>4, MsgIs, LogIs

LEMMA FeedFine ==
  ASSUME LogFine, NEW k \in Conn, NEW from \in Spot, NEW lo \in Spot, NEW hi \in Spot, NEW a,
         Steady(k.out, a), Reaches(k.out, a, from)
  PROVE  LET f == Feed(k, from, lo, hi)
         IN  /\ f.full \in BOOLEAN /\ f.lost \in BOOLEAN /\ f.next \in Spot
             /\ Kept(k, f.conn) /\ f.conn = [k EXCEPT !.out = f.conn.out]
             /\ Steady(f.conn.out, a) /\ Reaches(f.conn.out, a, f.next)
             /\ f.full => Queued(f.conn) > QueueCap
<1> DEFINE f == Feed(k, from, lo, hi)
           out == k.out
<1>1. f.full \in BOOLEAN /\ f.lost \in BOOLEAN /\ f.next \in Spot
  BY FeedIs
<1>2. PICK u \in Seq(Msg), e \in {<<>>, <<Note("exit")>>} :
         /\ f.conn = [k EXCEPT !.out = @ \o u \o e] /\ Run(u, from)
         /\ \/ f.next = from + Len(u)
            \/ f.next = from + Len(u) + 1 /\ f.next = Len(log) /\ Ended /\ ~f.full
         /\ f.full => e = <<>> /\ Queued(k) + Len(u) > QueueCap
  BY FeedIs
<1> HIDE DEF f
<1>3. out \in Seq(Msg) /\ Len(out) \in Nat /\ Len(u) \in Nat /\ from \in Nat /\ Len(log) \in Nat
      /\ from <= Len(log) /\ Note("exit") \in Msg
  BY ConnFields, LogIs, NoteIs DEF Spot
<1>4. e \in Seq(Msg) /\ (\A j \in 1..Len(e) : e[j] = Note("exit")) /\ (e # <<>> => e = <<Note("exit")>>)
  <2>1. CASE e = <<>>
    BY <2>1
  <2>2. CASE e = <<Note("exit")>>
    <3> DEFINE m == Note("exit")
    <3>1. m \in Msg /\ e = <<m>>
      BY <1>3, <2>2
    <3> HIDE DEF m
    <3>2. e \in Seq(Msg) /\ Len(e) = 1 /\ \A j \in 1..1 : e[j] = m
      BY <3>1, OneIs
    <3> QED BY <2>2, <3>2 DEF m
  <2> QED BY <2>1, <2>2
<1> DEFINE w == out \o u
           v == w \o e
<1>5. w \in Seq(Msg) /\ v \in Seq(Msg) /\ f.conn = [k EXCEPT !.out = v]
  BY <1>2, <1>3, <1>4, ConcatIs
<1>6. f.conn \in Conn /\ f.conn.out = v
  BY <1>5, ConnFields DEF Conn
<1>7. Steady(w, a) /\ Reaches(w, a, f.next)
  <2>1. CASE Ends(out, a, from)
    <3>1. \A i \in 1..Len(u) : u[i].is = "bytes" /\ u[i].at = from + i - 1
      BY <1>2, RunFields
    <3>2. Steady(w, a) /\ Ends(w, a, from + Len(u))
      BY <1>3, <2>1, <3>1, BytesFollow
    <3> QED BY <1>2, <3>2 DEF Reaches
  <2>2. CASE from = Len(log) /\ Ended
    <3>1. Len(u) = 0
      BY <1>2, <2>2, RunEmpty
    <3>2. w = out
      BY <1>3, <3>1
    <3>3. f.next = Len(log)
      BY <1>2, <1>3, <2>2, <3>1
    <3> QED BY <2>2, <3>2, <3>3 DEF Reaches
  <2> QED BY <2>1, <2>2 DEF Reaches
<1> HIDE DEF w
<1>8. Steady(v, a)
  BY <1>4, <1>5, <1>7, SteadyMore, NoteIs
<1>9. Reaches(v, a, f.next)
  <2>1. CASE e = <<>>
    <3>1. v = w
      BY <1>5, <2>1
    <3> QED BY <1>7, <3>1
  <2>2. CASE e # <<>>
    <3>1. v = Append(w, Note("exit"))
      BY <1>3, <1>4, <1>5, <2>2, OneIs
    <3>2. ~Moves(Note("exit"))
      BY NoteIs DEF Moves
    <3>3. Ends(w, a, f.next) => Ends(Append(w, Note("exit")), a, f.next)
      BY <1>3, <1>5, <3>2, EndsMore
    <3> QED BY <1>7, <3>1, <3>3 DEF Reaches
  <2> QED BY <2>1, <2>2
<1>10. Cardinality(Queue(w)) = Cardinality(Queue(out)) + Len(u)
  <2>1. \A i \in 1..Len(u) : Weighs(u[i])
    BY <1>2, RunFields
  <2> QED BY <1>3, <2>1, QueueBytes DEF w
<1>11. Cardinality(Queue(w)) <= Cardinality(Queue(v))
  <2>1. Len(w) <= Len(v) /\ \A i \in 1..Len(w) : v[i] = w[i]
    BY <1>4, <1>5, ConcatIs
  <2> QED BY <1>5, <2>1, QueueGrows
<1>12. Queued(k) <= Queued(f.conn) /\ (f.full => Queued(f.conn) > QueueCap)
  <2>1. Queued(k) = Cardinality(Queue(out)) /\ Queued(f.conn) = Cardinality(Queue(v))
        /\ Queued(k) \in Nat /\ Queued(f.conn) \in Nat /\ Cardinality(Queue(w)) \in Nat /\ QueueCap \in Nat
    BY <1>5, <1>6, QueuedIs, QueueIs, NoneIsNot
  <2> QED BY <1>2, <1>3, <1>10, <1>11, <2>1
<1>13. ASSUME NEW i \in Rpcs PROVE Carried(f.conn, i) = Carried(k, i)
  <2> DEFINE g == [k EXCEPT !.out = @ \o u]
  <2>1. g \in Conn /\ g.out = w
    BY <1>5, ConnFields DEF Conn, w
  <2>2. f.conn = [g EXCEPT !.out = @ \o e]
    BY <1>2
  <2>3. \A j \in 1..Len(u) : u[j].rpc = None
    BY <1>2, RunFields
  <2>4. Carried(g, i) = Carried(k, i)
    BY <2>3, CarriedMore
  <2>5. \A j \in 1..Len(e) : e[j].rpc = None
    BY <1>4, NoteIs
  <2> HIDE DEF g
  <2>6. Carried([g EXCEPT !.out = @ \o e], i) = Carried(g, i)
    BY <1>4, <2>1, <2>5, CarriedMore
  <2> QED BY <2>2, <2>4, <2>6
<1>14. f.conn = [k EXCEPT !.out = f.conn.out]
  BY <1>5, <1>6
<1> HIDE DEF v
<1> QED BY <1>1, <1>6, <1>8, <1>9, <1>12, <1>13, <1>14 DEF Kept, f

\* A message that is not bytes.
LEMMA PushFine ==
  ASSUME NEW k \in Conn, NEW m \in Msg, m.is # "bytes", NEW a, Steady(k.out, a)
  PROVE  /\ Push(k, m) \in Conn /\ Push(k, m) = [k EXCEPT !.out = Append(k.out, m)]
         /\ Steady(Push(k, m).out, a) /\ Queued(k) <= Queued(Push(k, m))
         /\ Moves(m) => Ends(Push(k, m).out, a, m.at)
         /\ ~Moves(m) => \A n : Reaches(k.out, a, n) => Reaches(Push(k, m).out, a, n)
<1> DEFINE out == k.out
           v == Append(out, m)
<1>1. out \in Seq(Msg) /\ v \in Seq(Msg) /\ Len(out) \in Nat /\ Len(v) = Len(out) + 1
      /\ (\A i \in 1..Len(out) : v[i] = out[i]) /\ v[Len(out) + 1] = m
  BY ConnFields, AppendIs
<1>2. Push(k, m) = [k EXCEPT !.out = v] /\ Push(k, m) \in Conn /\ Push(k, m).out = v
  BY <1>1, ConnFields DEF Push, Conn
<1>3. v = out \o <<m>> /\ <<m>> \in Seq(Msg) /\ \A i \in 1..Len(<<m>>) : <<m>>[i].is # "bytes"
  BY <1>1
<1>4. Steady(v, a)
  BY <1>1, <1>3, SteadyMore
<1>5. (Moves(m) => Ends(v, a, Leaves(m))) /\ \A n : ~Moves(m) /\ Ends(out, a, n) => Ends(v, a, n)
  BY <1>1, EndsMore
<1>6. Leaves(m) = m.at
  BY DEF Leaves
<1>7. Cardinality(Queue(out)) <= Cardinality(Queue(v))
  <2>1. Len(out) <= Len(v) /\ \A i \in 1..Len(out) : Weighs(out[i]) => Weighs(v[i])
    BY <1>1
  <2> HIDE DEF v, out
  <2> QED BY <1>1, <2>1, QueueGrows
<1>8. Queued(k) <= Queued(Push(k, m))
  BY <1>2, <1>7, QueuedIs
<1> QED BY <1>2, <1>4, <1>5, <1>6, <1>8 DEF Reaches

LEMMA DroppedFine ==
  ASSUME NEW k \in Conn, NEW a, Steady(k.out, a)
  PROVE  /\ Kept(k, Dropped(k)) /\ Dropped(k).att = None
         /\ Dropped(k) = [k EXCEPT !.att = None, !.out = Dropped(k).out]
         /\ Steady(Dropped(k).out, a) /\ Len(Dropped(k).out) = Len(k.out)
         /\ \A i \in 1..Len(k.out) : k.out[i].is # "bytes" => Dropped(k).out[i] = k.out[i]
<1> DEFINE out == k.out
           v == [i \in DOMAIN out |-> IF i \in Current(k) THEN [out[i] EXCEPT !.is = "stale"] ELSE out[i]]
<1>1. out \in Seq(Msg) /\ Len(out) \in Nat /\ DOMAIN out = 1..Len(out)
  BY ConnFields
<1>2. ASSUME NEW i \in 1..Len(out), i \in Current(k)
      PROVE  /\ out[i].is = "bytes" /\ [out[i] EXCEPT !.is = "stale"] \in Msg
             /\ [out[i] EXCEPT !.is = "stale"].is = "stale" /\ [out[i] EXCEPT !.is = "stale"].rpc = out[i].rpc
  <2>1. out[i].is = "bytes" /\ out[i] \in Msg
    BY <1>1, <1>2 DEF Current
  <2> QED BY <2>1 DEF Msg, MessageKinds
<1>3. v \in Seq(Msg) /\ Len(v) = Len(out) /\ DOMAIN v = 1..Len(out)
  <2>1. \A i \in 1..Len(out) : out[i] \in Msg
    BY <1>1
  <2>2. v \in [1..Len(out) -> Msg]
    BY <1>1, <1>2, <2>1
  <2> QED BY <1>1, <2>2
<1>4. Dropped(k) = [k EXCEPT !.att = None, !.out = v] /\ Dropped(k) \in Conn /\ Dropped(k).out = v
      /\ Dropped(k).att = None
  <2>1. Dropped(k) = [k EXCEPT !.att = None, !.out = v]
    BY DEF Dropped, Conn
  <2> HIDE DEF v
  <2> QED BY <1>3, <2>1 DEF Conn
<1>5. ASSUME NEW i \in 1..Len(out)
      PROVE  /\ v[i].rpc = out[i].rpc /\ (Weighs(v[i]) <=> Weighs(out[i]))
             /\ out[i].is # "bytes" => v[i] = out[i]
             /\ i \in Current(k) => v[i].is = "stale"
             /\ i \notin Current(k) => v[i] = out[i]
  <2>1. CASE i \in Current(k)
    BY <1>1, <1>2, <2>1 DEF Weighs
  <2>2. CASE i \notin Current(k)
    BY <1>1, <2>2
  <2> QED BY <2>1, <2>2
<1>6. ASSUME NEW i \in 1..Len(out), v[i].is = "bytes" PROVE StandsAt(v, a, i, v[i].at)
  <2>1. i \notin Current(k) /\ v[i] = out[i]
    BY <1>5, <1>6
  <2>2. PICK r \in i..Len(out) : out[r].is = "resync"
    BY <1>1, <1>6, <2>1 DEF Current
  <2>3. ASSUME NEW j \in 1..i - 1 PROVE v[j] = out[j]
    <3>1. j \in 1..Len(out) /\ r \in j..Len(out)
      BY <1>1, <2>2
    <3>2. j \notin Current(k)
      BY <2>2, <3>1 DEF Current
    <3> QED BY <1>5, <3>1, <3>2
  <2>4. StandsAt(out, a, i, out[i].at)
    BY <1>1, <1>6, <2>1 DEF Steady
  <2> HIDE DEF v
  <2> QED BY <2>1, <2>3, <2>4, StandsSame
<1> HIDE DEF v
<1>7. Steady(v, a)
  BY <1>3, <1>6 DEF Steady
<1>8. Queued(k) <= Queued(Dropped(k))
  <2>1. Len(out) <= Len(v) /\ \A i \in 1..Len(out) : Weighs(out[i]) => Weighs(v[i])
    BY <1>1, <1>3, <1>5
  <2>2. Cardinality(Queue(out)) <= Cardinality(Queue(v))
    <3> HIDE DEF out
    <3> QED BY <1>1, <1>3, <2>1, QueueGrows
  <2> QED BY <1>4, <2>2, QueuedIs
<1>9. ASSUME NEW i \in Rpcs PROVE Carried(Dropped(k), i) = Carried(k, i)
  BY <1>1, <1>3, <1>4, <1>5 DEF Carried
<1>10. \A i \in 1..Len(out) : out[i].is # "bytes" => v[i] = out[i]
  BY <1>5
<1> QED BY <1>3, <1>4, <1>7, <1>8, <1>9, <1>10 DEF Kept

\* Whatever its attachment, a connection without one is fine.
LEMMA UnattachedFine ==
  ASSUME NEW k \in Conn, NEW a, Steady(k.out, a), k.att = None
  PROVE  ConnFine(k, a) /\ ~Attached(k, Modes)
BY DEF ConnFine, Attached, Woken

LEMMA QueueHalf == QueueCap \div 2 \in Nat /\ QueueCap \div 2 <= QueueCap
BY NoneIsNot

LEMMA FallsBehindFine ==
  ASSUME LogFine, NEW k \in Conn, k.att \in Att, NEW a, NEW next \in Spot, Steady(k.out, a),
         Reaches(k.out, a, next), Queued(k) > QueueCap
  PROVE  /\ ConnFine(FallsBehind(k, next), a) /\ Kept(k, FallsBehind(k, next))
         /\ ~Attached(FallsBehind(k, next), {"fetching"})
         /\ Queued(FallsBehind(k, next)) > QueueCap \div 2
<1> DEFINE f == FallsBehind(k, next)
<1>1. f \in Conn /\ f.out = k.out /\ f.att.next = next /\ f.storing /\ f.att.mode = "behind" /\ f.att \in Att
  <2>1. [k.att EXCEPT !.next = next, !.mode = "behind"] \in Att
        /\ [k.att EXCEPT !.next = next, !.mode = "behind"].next = next
        /\ [k.att EXCEPT !.next = next, !.mode = "behind"].mode = "behind"
    BY DEF Att, Modes
  <2> DEFINE b == [k.att EXCEPT !.next = next, !.mode = "behind"]
  <2>2. f = [k EXCEPT !.att = b, !.storing = TRUE, !.missed = FALSE]
    BY DEF FallsBehind, Conn
  <2> HIDE DEF b, f
  <2> QED BY <2>1, <2>2 DEF Conn, b
<1>2. Kept(k, f)
  BY <1>1, KeptSame
<1>3. Queued(f) > QueueCap \div 2
  BY <1>1, <1>2, QueueHalf, QueuedIs, NoneIsNot DEF Kept
<1>4. Woken(f)
  BY <1>1, <1>3 DEF Woken
<1>5. ~Attached(f, {"fetching"})
  BY <1>1 DEF Attached
<1> HIDE DEF f
<1> QED BY <1>1, <1>2, <1>3, <1>4, <1>5 DEF ConnFine, f

\* The attachment is lost, and its client told.
LEMMA LostFine ==
  ASSUME NEW k \in Conn, NEW a, Steady(k.out, a)
  PROVE  LET f == Push([k EXCEPT !.att = None], Note("resync"))
         IN  /\ ConnFine(f, a) /\ Kept(k, f) /\ ~Attached(f, Modes)
<1> DEFINE g == [k EXCEPT !.att = None]
           f == Push(g, Note("resync"))
<1>1. g \in Conn /\ g.out = k.out /\ g.att = None
  BY DEF Conn
<1> HIDE DEF g
<1>2. Note("resync") \in Msg /\ Note("resync").is = "resync" /\ Note("resync").rpc = None
  BY NoteIs
<1>3. f \in Conn /\ f = [g EXCEPT !.out = Append(g.out, Note("resync"))] /\ Steady(f.out, a)
      /\ Queued(g) <= Queued(f)
  BY <1>1, <1>2, PushFine
<1>4. f.att = None
  <2> HIDE DEF f
  <2> QED BY <1>1, <1>3 DEF Conn
<1>5. ASSUME NEW i \in Rpcs PROVE Carried(f, i) = Carried(g, i)
  <2> DEFINE m == Note("resync")
  <2>1. m \in Msg /\ m.rpc # i
    BY <1>2, NoneIsNot
  <2> HIDE DEF m
  <2>2. Carried(Push(g, m), i) = Carried(g, i) \cup (IF m.rpc = i THEN {Len(g.out) + 1} ELSE {})
    BY <1>1, <2>1, CarriedPush
  <2> QED BY <2>1, <2>2 DEF m
<1>6. Kept(g, f) /\ Kept(k, g)
  BY <1>1, <1>3, <1>5, KeptSame DEF Kept
<1> HIDE DEF f
<1> QED BY <1>3, <1>4, <1>6, KeptTwice, UnattachedFine DEF f, g

\* It follows, at a place its client will reach.
LEMMA FollowsFine ==
  ASSUME NEW k \in Conn, NEW b \in Att, b.mode = "following", NEW a, Steady(k.out, a),
         Reaches(k.out, a, b.next)
  PROVE  LET f == [k EXCEPT !.att = b]
         IN  ConnFine(f, a) /\ Kept(k, f) /\ ~Attached(f, {"fetching"}) /\ ~Attached(f, {"behind"})
<1> DEFINE f == [k EXCEPT !.att = b]
<1>1. f \in Conn /\ f.out = k.out /\ f.att = b
  BY DEF Conn
<1>2. Kept(k, f)
  BY <1>1, KeptSame
<1>3. ~Attached(f, {"fetching"}) /\ ~Attached(f, {"behind"})
  BY <1>1 DEF Attached
<1> HIDE DEF f
<1> QED BY <1>1, <1>2, <1>3 DEF ConnFine, Woken, f

LEMMA CatchUpFine ==
  ASSUME LogFine, NEW k \in Conn, k.att \in Att, NEW a, Steady(k.out, a),
         Reaches(k.out, a, k.att.next), NEW h, h.head \in Spot, h.tail \in Spot
  PROVE  LET f == CatchUp(k, h)
         IN  /\ ConnFine(f, a) /\ Kept(k, f) /\ ~Attached(f, {"fetching"})
             /\ Attached(f, {"behind"}) => Queued(f) > QueueCap \div 2
<1> DEFINE f == CatchUp(k, h)
           fed == Feed(k, k.att.next, h.tail, h.head)
           follows(n) == [k.att EXCEPT !.next = n, !.mode = "following"]
           goal(g) == /\ ConnFine(g, a) /\ Kept(k, g) /\ ~Attached(g, {"fetching"})
                      /\ Attached(g, {"behind"}) => Queued(g) > QueueCap \div 2
<1>1. k.att.next \in Spot /\ k.out \in Seq(Msg)
  BY ConnFields DEF Att
<1>2. /\ fed.full \in BOOLEAN /\ fed.lost \in BOOLEAN /\ fed.next \in Spot
      /\ Kept(k, fed.conn) /\ fed.conn = [k EXCEPT !.out = fed.conn.out]
      /\ Steady(fed.conn.out, a) /\ Reaches(fed.conn.out, a, fed.next)
      /\ fed.full => Queued(fed.conn) > QueueCap
  BY <1>1, FeedFine
<1>3. fed.conn \in Conn /\ fed.conn.att = k.att
  BY <1>2 DEF Kept, Conn
<1>4. \A n \in Spot : follows(n) \in Att /\ follows(n).mode = "following" /\ follows(n).next = n
  BY DEF Att, Modes
<1>5. CASE k.att.next >= h.head \/ h.tail = h.head
  <2>1. f = [k EXCEPT !.att = follows(k.att.next)]
    BY <1>5 DEF CatchUp, Conn, Att
  <2> HIDE DEF follows, f
  <2>2. goal(f)
    BY <1>1, <1>4, <2>1, FollowsFine
  <2> QED BY <2>2 DEF f
<1>6. CASE ~(k.att.next >= h.head \/ h.tail = h.head) /\ Queued(k) > QueueCap
  <2>1. f = FallsBehind(k, k.att.next)
    BY <1>6 DEF CatchUp
  <2> QED BY <1>1, <1>6, <2>1, FallsBehindFine
<1> DEFINE steps == ~(k.att.next >= h.head \/ h.tail = h.head) /\ ~(Queued(k) > QueueCap)
<1>7. CASE steps /\ fed.full
  <2>1. f = FallsBehind(fed.conn, fed.next)
    BY <1>7 DEF CatchUp
  <2> HIDE DEF fed, f
  <2>2. /\ ConnFine(f, a) /\ Kept(fed.conn, f) /\ ~Attached(f, {"fetching"})
        /\ Queued(f) > QueueCap \div 2
    BY <1>2, <1>3, <1>7, <2>1, FallsBehindFine
  <2> QED BY <1>2, <2>2, KeptTwice DEF f
<1>8. CASE steps /\ ~fed.full /\ fed.lost
  <2>1. f = Push([fed.conn EXCEPT !.att = None], Note("resync"))
    BY <1>8 DEF CatchUp
  <2> HIDE DEF fed, f
  <2>2. ConnFine(f, a) /\ Kept(fed.conn, f) /\ ~Attached(f, Modes)
    BY <1>2, <1>3, <2>1, LostFine
  <2>3. ~Attached(f, {"fetching"}) /\ ~Attached(f, {"behind"})
    BY <2>2 DEF Attached, Modes
  <2> QED BY <1>2, <2>2, <2>3, KeptTwice DEF f
<1>9. CASE steps /\ ~fed.full /\ ~fed.lost
  <2>1. f = [fed.conn EXCEPT !.att.next = fed.next, !.att.mode = "following"]
    BY <1>9 DEF CatchUp
  <2>2. f = [fed.conn EXCEPT !.att = follows(fed.next)]
    <3> HIDE DEF fed, f
    <3> QED BY <1>3, <2>1 DEF Conn, Att
  <2> HIDE DEF fed, f, follows
  <2>3. ConnFine(f, a) /\ Kept(fed.conn, f) /\ ~Attached(f, {"fetching"}) /\ ~Attached(f, {"behind"})
    BY <1>2, <1>3, <1>4, <2>2, FollowsFine
  <2> QED BY <1>2, <2>3, KeptTwice DEF f
<1> QED BY <1>2, <1>5, <1>6, <1>7, <1>8, <1>9

LEMMA AnsweredKept ==
  ASSUME NEW k \in Conn, NEW f, NEW g, NEW r, Answered(k, f, r), Kept(f, g)
  PROVE  Answered(k, g, r)
BY DEF Answered, Kept

LEMMA PushAnswers ==
  ASSUME NEW k \in Conn, NEW m \in Msg, m.is # "bytes", NEW a, Steady(k.out, a)
  PROVE  Answered(k, Push(k, m), m.rpc)
<1>1. Push(k, m) \in Conn
  BY PushFine
<1>2. ASSUME NEW i \in Rpcs
      PROVE  Carried(Push(k, m), i) = Carried(k, i) \cup (IF i = m.rpc THEN {Len(k.out) + 1} ELSE {})
  <2>1. Carried(Push(k, m), i) = Carried(k, i) \cup (IF m.rpc = i THEN {Len(k.out) + 1} ELSE {})
    BY CarriedPush
  <2> QED BY <2>1
<1> QED BY <1>1, <1>2 DEF Answered

LEMMA MessageIs ==
  ASSUME NEW is \in {"continued", "snapshot", "refused", "ended"}, NEW rpc \in Rpcs \cup {None},
         NEW n \in Spot \cup {None}, is \in {"continued", "snapshot"} => n \in Spot
  PROVE  /\ Message(is, rpc, n) \in Msg /\ Message(is, rpc, n).is = is
         /\ Message(is, rpc, n).rpc = rpc /\ Message(is, rpc, n).at = n
         /\ (Moves(Message(is, rpc, n)) <=> is \in {"continued", "snapshot"})
BY DEF Message, Msg, MessageKinds, Moves

LEMMA DeliversInOrderFine ==
  ASSUME LogFine, NEW k, NEW a, ConnFine(k, a), Attached(k, {"following"}),
         NEW lo \in Spot, NEW hi \in Spot
  PROVE  LET f == DeliversInOrder(k, lo, hi)
         IN  ConnFine(f, a) /\ Kept(k, f) /\ ~Attached(f, {"fetching"})
<1> DEFINE f == DeliversInOrder(k, lo, hi)
           fed == Feed(k, k.att.next, lo, hi)
<1>1. k \in Conn /\ k.att \in Att /\ k.att.next \in Spot /\ Steady(k.out, a) /\ k.att.mode = "following"
      /\ Reaches(k.out, a, k.att.next)
  BY ConnFields DEF ConnFine, Attached, Att
<1>2. /\ fed.full \in BOOLEAN /\ fed.lost \in BOOLEAN /\ fed.next \in Spot
      /\ Kept(k, fed.conn) /\ fed.conn = [k EXCEPT !.out = fed.conn.out]
      /\ Steady(fed.conn.out, a) /\ Reaches(fed.conn.out, a, fed.next)
      /\ fed.full => Queued(fed.conn) > QueueCap
  BY <1>1, FeedFine
<1>3. fed.conn \in Conn /\ fed.conn.att = k.att
  BY <1>1, <1>2 DEF Kept, Conn
<1>4. f = IF fed.full THEN FallsBehind(fed.conn, fed.next)
          ELSE IF fed.lost THEN Push([fed.conn EXCEPT !.att = None], Note("resync"))
          ELSE [fed.conn EXCEPT !.att.next = fed.next]
  BY DEF DeliversInOrder
<1> HIDE DEF f, fed
<1>5. ConnFine(f, a) /\ Kept(fed.conn, f) /\ ~Attached(f, {"fetching"})
  <2>1. CASE fed.full
    BY <1>1, <1>2, <1>3, <1>4, <2>1, FallsBehindFine
  <2>2. CASE ~fed.full /\ fed.lost
    <3>1. f = Push([fed.conn EXCEPT !.att = None], Note("resync"))
      BY <1>4, <2>2
    <3>2. ConnFine(f, a) /\ Kept(fed.conn, f) /\ ~Attached(f, Modes)
      BY <1>2, <1>3, <3>1, LostFine
    <3> QED BY <3>2 DEF Attached, Modes
  <2>3. CASE ~fed.full /\ ~fed.lost
    <3> DEFINE b == [k.att EXCEPT !.next = fed.next]
    <3>1. b \in Att /\ b.mode = "following" /\ b.next = fed.next
      BY <1>1, <1>2 DEF Att
    <3>2. f = [fed.conn EXCEPT !.att = b]
      BY <1>3, <1>4, <2>3 DEF Conn
    <3> HIDE DEF b
    <3> QED BY <1>2, <1>3, <3>1, <3>2, FollowsFine
  <2> QED BY <1>2, <2>1, <2>2, <2>3
<1> QED BY <1>1, <1>2, <1>5, KeptTwice DEF f

LEMMA DeliversFetchedFine ==
  ASSUME LogFine, NEW k, NEW a, ConnFine(k, a), Attached(k, {"fetching"}), k.att.rpc \in Rpcs,
         NEW lo \in Spot, NEW hi \in Spot
  PROVE  LET f == DeliversFetched(k, lo, hi)
         IN  ConnFine(f, a) /\ Answered(k, f, k.att.rpc) /\ ~Attached(f, {"fetching"})
<1> DEFINE f == DeliversFetched(k, lo, hi)
           m == Message("continued", k.att.rpc, k.att.next)
           said == Push(k, m)
           fed == Feed(said, k.att.next, k.att.next, hi)
<1>1. k \in Conn /\ k.att \in Att /\ k.att.next \in Spot /\ Steady(k.out, a)
  BY ConnFields DEF ConnFine, Attached, Att
<1>2. m \in Msg /\ m.is # "bytes" /\ Moves(m) /\ m.at = k.att.next /\ m.rpc = k.att.rpc
  BY <1>1, MessageIs
<1>3. f = IF fed.full THEN Push(Dropped(fed.conn), Note("resync"))
          ELSE IF fed.lost THEN Push([fed.conn EXCEPT !.att = None], Note("resync"))
          ELSE [fed.conn EXCEPT !.att = Attachment(fed.next, "following", None)]
  BY DEF DeliversFetched
<1> HIDE DEF f, m
<1>4. said \in Conn /\ Steady(said.out, a) /\ Ends(said.out, a, k.att.next)
  BY <1>1, <1>2, PushFine
<1>5. Answered(k, said, k.att.rpc)
  BY <1>1, <1>2, PushAnswers
<1> HIDE DEF said
<1>6. /\ fed.full \in BOOLEAN /\ fed.lost \in BOOLEAN /\ fed.next \in Spot
      /\ Kept(said, fed.conn)
      /\ Steady(fed.conn.out, a) /\ Reaches(fed.conn.out, a, fed.next)
  <2>1. Reaches(said.out, a, k.att.next)
    BY <1>4 DEF Reaches
  <2> QED BY <1>1, <1>4, <2>1, FeedFine
<1> HIDE DEF fed
<1>7. Answered(k, fed.conn, k.att.rpc) /\ fed.conn \in Conn
  BY <1>1, <1>5, <1>6, AnsweredKept DEF Kept
<1>8. ConnFine(f, a) /\ Kept(fed.conn, f) /\ ~Attached(f, {"fetching"})
  <2>1. CASE fed.full
    <3> DEFINE d == Dropped(fed.conn)
    <3>1. Kept(fed.conn, d) /\ d.att = None /\ Steady(d.out, a) /\ d \in Conn
      BY <1>6, <1>7, DroppedFine DEF Kept
    <3> HIDE DEF d
    <3>2. f = Push([d EXCEPT !.att = None], Note("resync"))
      <4>1. d = [d EXCEPT !.att = None]
        BY <3>1 DEF Conn
      <4> QED BY <1>3, <2>1, <4>1 DEF d
    <3>3. ConnFine(f, a) /\ Kept(d, f) /\ ~Attached(f, Modes)
      BY <3>1, <3>2, LostFine
    <3> QED BY <1>7, <3>1, <3>3, KeptTwice DEF Attached, Modes
  <2>2. CASE ~fed.full /\ fed.lost
    <3>1. f = Push([fed.conn EXCEPT !.att = None], Note("resync"))
      BY <1>3, <2>2
    <3>2. ConnFine(f, a) /\ Kept(fed.conn, f) /\ ~Attached(f, Modes)
      BY <1>6, <1>7, <3>1, LostFine
    <3> QED BY <3>2 DEF Attached, Modes
  <2>3. CASE ~fed.full /\ ~fed.lost
    <3> DEFINE b == Attachment(fed.next, "following", None)
    <3>1. b \in Att /\ b.mode = "following" /\ b.next = fed.next
      BY <1>6 DEF Attachment, Att, Modes
    <3>2. f = [fed.conn EXCEPT !.att = b]
      BY <1>3, <2>3
    <3> HIDE DEF b
    <3> QED BY <1>6, <1>7, <3>1, <3>2, FollowsFine
  <2> QED BY <1>6, <2>1, <2>2, <2>3
<1> QED BY <1>1, <1>7, <1>8, AnsweredKept DEF f

\* A connection's part in a batch.
LEMMA DeliversFine ==
  ASSUME LogFine, NEW k, NEW a, ConnFine(k, a),
         Attached(k, {"fetching"}) => k.att.rpc \in Rpcs, NEW lo \in Spot, NEW hi \in Spot
  PROVE  LET f == Delivers(k, lo, hi)
         IN  /\ ConnFine(f, a)
             /\ \/ Kept(k, f) /\ (Attached(f, {"fetching"}) => f = k)
                \/ Attached(k, {"fetching"}) /\ ~Attached(f, {"fetching"}) /\ Answered(k, f, k.att.rpc)
<1> DEFINE f == Delivers(k, lo, hi)
<1>1. CASE Attached(k, {"following"})
  <2>1. f = DeliversInOrder(k, lo, hi)
    BY <1>1 DEF Delivers, Attached
  <2> HIDE DEF f
  <2> QED BY <1>1, <2>1, DeliversInOrderFine DEF f
<1>2. CASE ~Attached(k, {"following"}) /\ Attached(k, {"fetching"}) /\ k.att.next \in lo..hi - 1
  <2>1. f = DeliversFetched(k, lo, hi)
    BY <1>2 DEF Delivers, Attached
  <2> HIDE DEF f
  <2> QED BY <1>2, <2>1, DeliversFetchedFine DEF f
<1>3. CASE ~Attached(k, {"following"}) /\ ~(Attached(k, {"fetching"}) /\ k.att.next \in lo..hi - 1)
  <2>1. f = k
    BY <1>3 DEF Delivers
  <2>2. k \in Conn /\ Kept(k, k)
    BY KeptSame DEF ConnFine
  <2> QED BY <2>1, <2>2
<1> QED BY <1>1, <1>2, <1>3

--------------------
\* The hub and its connections, as they are and as a turn leaves them: own
\* is who asked each attach, a what each client has, and ans the answers
\* taken.

LEMMA KeptQuiet ==
  ASSUME NEW k, NEW f, Kept(k, f), ~Attached(f, {"fetching"})
  PROVE  Quiet(k, f)
BY DEF Kept, Quiet

\* An attach nothing happened to, or that lost a place.
LEMMA OnceStays ==
  ASSUME NEW h, NEW ks, NEW g, NEW fs, NEW ans, NEW i \in Rpcs, Once(h, ks, ans, i),
         \A x \in g.early : x.rpc = i => x \in h.early,
         IsAwaited(g, i) => IsAwaited(h, i), IsFetched(fs, i) => IsFetched(ks, i),
         \A c \in Conns : Carried(fs[c], i) = Carried(ks[c], i)
  PROVE  Once(g, fs, ans, i)
<1>1. IsEarly(g, i) => IsEarly(h, i)
  BY DEF IsEarly
<1>2. Owed(g, fs, i) => Owed(h, ks, i)
  BY <1>1 DEF Owed
<1>3. IsQueued(fs, i) <=> IsQueued(ks, i)
  BY DEF IsQueued
<1> QED BY <1>1, <1>2, <1>3 DEF Once

\* One that is answered.
LEMMA OnceAnswered ==
  ASSUME NEW g, NEW fs, NEW ans, NEW i \in Rpcs, ~Owed(g, fs, i), ans[i] = 0, NEW d \in Conns,
         \A c \in Conns \ {d} : Carried(fs[c], i) = {},
         \A j, l \in Carried(fs[d], i) : j = l
  PROVE  Once(g, fs, ans, i)
<1>1. \A c \in Conns : \A j, l \in Carried(fs[c], i) : j = l
  OBVIOUS
<1> QED BY <1>1 DEF Once, Owed, IsEarly

\* One that is now waited for somewhere.
LEMMA OnceOwed ==
  ASSUME NEW g, NEW fs, NEW ans, NEW i \in Rpcs, ans[i] = 0, ~IsQueued(fs, i),
         \/ ~IsEarly(g, i) /\ ~IsAwaited(g, i)
         \/ ~IsEarly(g, i) /\ ~IsFetched(fs, i)
         \/ ~IsAwaited(g, i) /\ ~IsFetched(fs, i) /\ \A x, y \in g.early : x.rpc = i /\ y.rpc = i => x = y
  PROVE  Once(g, fs, ans, i)
<1>1. \A c \in Conns : \A j, l \in Carried(fs[c], i) : j = l
  BY DEF IsQueued
<1>2. \A x, y \in g.early : x.rpc = i /\ y.rpc = i => x = y
  BY DEF IsEarly
<1> QED BY <1>1, <1>2 DEF Once, Owed

\* Nothing is answered, and places may be lost.
LEMMA QuietTurn ==
  ASSUME NEW h, NEW ks, NEW own, NEW a, NEW ans, TurnFine(h, ks, own, a, ans),
         NEW g, NEW fs, HubFine(g), ConnsFine(fs, a),
         g.ended => \A c \in Conns : ~Attached(fs[c], Modes),
         g.early \subseteq h.early, g.waiting \subseteq h.waiting,
         \A c \in Conns : Quiet(ks[c], fs[c])
  PROVE  TurnFine(g, fs, own, a, ans)
<1>1. Owners(g, fs, own)
  BY DEF TurnFine, Owners, Quiet
<1>2. ASSUME NEW i \in Rpcs PROVE Once(g, fs, ans, i)
  <2>1. (IsAwaited(g, i) => IsAwaited(h, i)) /\ (IsFetched(fs, i) => IsFetched(ks, i))
    BY DEF IsAwaited, IsFetched, Quiet
  <2>2. \A c \in Conns : Carried(fs[c], i) = Carried(ks[c], i)
    BY DEF Quiet
  <2>3. Once(h, ks, ans, i)
    BY DEF TurnFine
  <2>4. \A x \in g.early : x.rpc = i => x \in h.early
    OBVIOUS
  <2> QED BY <2>1, <2>2, <2>3, <2>4, OnceStays
<1> QED BY <1>1, <1>2 DEF TurnFine

LEMMA AnsweringTurn ==
  ASSUME NEW h, NEW ks, NEW own, NEW a, NEW ans, NEW g, NEW fs, NEW R,
         Answering(h, ks, own, a, ans, g, fs, R)
  PROVE  TurnFine(g, fs, own, a, ans)
<1>1. Owners(g, fs, own)
  <2>1. \A x \in g.early \cup g.waiting : own[x.rpc] = x.conn
    BY DEF Answering, TurnFine, Owners
  <2>2. ASSUME NEW c \in Conns, Attached(fs[c], {"fetching"})
        PROVE  fs[c].att.rpc \in Rpcs /\ own[fs[c].att.rpc] = c
    BY <2>2 DEF Answering, TurnFine, Owners
  <2>3. ASSUME NEW c \in Conns, NEW i \in Rpcs, Carried(fs[c], i) # {} PROVE own[i] = c
    BY <2>3 DEF Answering, TurnFine, Owners
  <2> QED BY <2>1, <2>2, <2>3 DEF Owners
<1>2. ASSUME NEW i \in Rpcs PROVE Once(g, fs, ans, i)
  <2>1. CASE i \in R
    <3>1. own[i] \in Conns /\ ~Owed(g, fs, i) /\ ans[i] = 0 /\ ~IsQueued(ks, i)
      BY <2>1 DEF Answering
    <3>2. \A c \in Conns \ {own[i]} : Carried(fs[c], i) = {}
      BY <3>1 DEF Answering, IsQueued
    <3>3. \A j, l \in Carried(fs[own[i]], i) : j = l
      BY <2>1, <3>1 DEF Answering
    <3> QED BY <3>1, <3>2, <3>3, OnceAnswered
  <2>2. CASE i \notin R
    <3>1. (IsAwaited(g, i) => IsAwaited(h, i)) /\ (IsFetched(fs, i) => IsFetched(ks, i))
      BY DEF Answering, IsAwaited, IsFetched
    <3>2. \A c \in Conns : Carried(fs[c], i) = Carried(ks[c], i)
      BY <2>2 DEF Answering
    <3>3. Once(h, ks, ans, i) /\ \A x \in g.early : x.rpc = i => x \in h.early
      BY DEF Answering, TurnFine
    <3> QED BY <3>1, <3>2, <3>3, OnceStays
  <2> QED BY <2>1, <2>2
<1> QED BY <1>1, <1>2 DEF Answering, TurnFine

\* What is owed is not queued nor answered.
LEMMA OwedIs ==
  ASSUME NEW h, NEW ks, NEW own, NEW a, NEW ans, TurnFine(h, ks, own, a, ans), NEW i \in Rpcs
  PROVE  /\ Owed(h, ks, i) => ans[i] = 0 /\ ~IsQueued(ks, i)
         /\ \A x \in h.early : x.rpc = i => x.conn = own[i] /\ own[i] \in Conns
         /\ \A w \in h.waiting : w.rpc = i => w.conn = own[i] /\ own[i] \in Conns
         /\ \A c \in Conns : Attached(ks[c], {"fetching"}) /\ ks[c].att.rpc = i => own[i] = c
<1>1. h.early \subseteq Pending /\ h.waiting \subseteq Awaited
  BY DEF TurnFine, HubFine, Hub
<1> QED BY <1>1 DEF TurnFine, Owners, Once, Pending, Awaited

--------------------
\* Turns.

LEMMA TurnPut ==
  ASSUME NEW t \in Turns, NEW c \in Conns, NEW k \in Conn
  PROVE  LET s == [t EXCEPT !.conn[c] = k]
         IN  /\ s \in Turns /\ s.hub = t.hub /\ s.asks = t.asks /\ s.fetches = t.fetches
             /\ s.conn = [t.conn EXCEPT ![c] = k] /\ s.conn[c] = k
             /\ \A d \in Conns : d # c => s.conn[d] = t.conn[d]
BY DEF Turns

LEMMA ConnPut ==
  ASSUME NEW ks, NEW a, ConnsFine(ks, a), NEW c \in Conns, NEW k, ConnFine(k, a[c])
  PROVE  /\ ConnsFine([ks EXCEPT ![c] = k], a) /\ k \in Conn
         /\ [ks EXCEPT ![c] = k][c] = k
         /\ \A d \in Conns : d # c => [ks EXCEPT ![c] = k][d] = ks[d]
BY DEF ConnsFine, ConnFine

LEMMA Modal ==
  ASSUME NEW k, ~Attached(k, Modes)
  PROVE  ~Attached(k, {"fetching"}) /\ ~Attached(k, {"behind"}) /\ ~Attached(k, {"following"})
BY DEF Attached, Modes

LEMMA AnswerOne ==
  ASSUME NEW h, NEW ks, NEW own, NEW a, NEW ans, NEW g, NEW c, NEW f, NEW r,
         AnsweringOne(h, ks, own, a, ans, g, c, f, r)
  PROVE  /\ TurnFine(g, [ks EXCEPT ![c] = f], own, a, ans)
         /\ \A i \in Rpcs \ {r} : Nowhere(h, ks, i) => Nowhere(g, [ks EXCEPT ![c] = f], i)
<1> USE DEF AnsweringOne
<1> DEFINE fs == [ks EXCEPT ![c] = f]
<1>1. ConnsFine(fs, a) /\ f \in Conn /\ fs[c] = f /\ \A d \in Conns : d # c => fs[d] = ks[d]
  BY ConnPut DEF TurnFine
<1> HIDE DEF fs
<1>2. g.ended => \A d \in Conns : ~Attached(fs[d], Modes)
  BY <1>1 DEF TurnFine
<1>3. \A d \in Conns : Attached(fs[d], {"fetching"})
        => Attached(ks[d], {"fetching"}) /\ fs[d].att.rpc = ks[d].att.rpc
  BY <1>1
<1>4. ~IsFetched(fs, r)
  <2> SUFFICES ASSUME NEW d \in Conns, Attached(fs[d], {"fetching"}), fs[d].att.rpc = r PROVE FALSE
    BY DEF IsFetched
  <2>1. CASE d = c
    BY <1>1, <2>1
  <2>2. CASE d # c
    BY <1>1, <2>2, OwedIs
  <2> QED BY <2>1, <2>2
<1>5. ~Owed(g, fs, r)
  BY <1>4 DEF Owed
<1>6. \A i \in Rpcs : Carried(f, i) = Carried(ks[c], i) \cup (IF i = r THEN {Len(ks[c].out) + 1} ELSE {})
  BY DEF Answered
<1>7. Carried(ks[c], r) = {}
  BY DEF IsQueued
<1>8. \A d \in Conns, i \in Rpcs : i \in {r} /\ own[i] = d => \A j, l \in Carried(fs[d], i) : j = l
  BY <1>1, <1>6, <1>7
<1>9. \A d \in Conns, i \in Rpcs : ~(i \in {r} /\ own[i] = d) => Carried(fs[d], i) = Carried(ks[d], i)
  BY <1>1, <1>6
<1>10. TurnFine(g, fs, own, a, ans)
  <2> DEFINE R == {r}
  <2>1. R \in SUBSET Rpcs
        /\ \A i \in R : own[i] \in Conns /\ ~Owed(g, fs, i) /\ ans[i] = 0 /\ ~IsQueued(ks, i)
    BY <1>5
  <2>2. /\ \A d \in Conns, i \in Rpcs : i \in R /\ own[i] = d => \A j, l \in Carried(fs[d], i) : j = l
        /\ \A d \in Conns, i \in Rpcs : ~(i \in R /\ own[i] = d) => Carried(fs[d], i) = Carried(ks[d], i)
    BY <1>8, <1>9
  <2> HIDE DEF R
  <2>3. Answering(h, ks, own, a, ans, g, fs, R)
    BY <1>1, <1>2, <1>3, <2>1, <2>2 DEF Answering
  <2> QED BY <2>3, AnsweringTurn
<1>11. ASSUME NEW i \in Rpcs \ {r}, Nowhere(h, ks, i) PROVE Nowhere(g, fs, i)
  <2>1. ~IsQueued(fs, i)
    BY <1>9, <1>11 DEF Nowhere, IsQueued
  <2>2. ~Owed(g, fs, i)
    BY <1>3, <1>11 DEF Nowhere, Owed, IsEarly, IsAwaited, IsFetched
  <2> QED BY <2>1, <2>2 DEF Nowhere
<1> QED BY <1>10, <1>11 DEF fs

\* A connection changes without an answer.
LEMMA QuietOne ==
  ASSUME NEW h, NEW ks, NEW own, NEW a, NEW ans, TurnFine(h, ks, own, a, ans),
         NEW c \in Conns, NEW f, ConnFine(f, a[c]), h.ended => ~Attached(f, Modes), Quiet(ks[c], f)
  PROVE  /\ TurnFine(h, [ks EXCEPT ![c] = f], own, a, ans)
         /\ \A i \in Rpcs : Nowhere(h, ks, i) => Nowhere(h, [ks EXCEPT ![c] = f], i)
<1> DEFINE fs == [ks EXCEPT ![c] = f]
<1>1. ConnsFine(fs, a) /\ f \in Conn /\ fs[c] = f /\ \A d \in Conns : d # c => fs[d] = ks[d]
  BY ConnPut DEF TurnFine
<1> HIDE DEF fs
<1>2. h.ended => \A d \in Conns : ~Attached(fs[d], Modes)
  BY <1>1 DEF TurnFine
<1>3. \A d \in Conns : Quiet(ks[d], fs[d])
  BY <1>1 DEF Quiet
<1>4. HubFine(h)
  BY DEF TurnFine
<1>5. TurnFine(h, fs, own, a, ans)
  BY <1>1, <1>2, <1>3, <1>4, QuietTurn
<1>6. ASSUME NEW i \in Rpcs, Nowhere(h, ks, i) PROVE Nowhere(h, fs, i)
  BY <1>3, <1>6 DEF Nowhere, Owed, IsEarly, IsAwaited, IsFetched, IsQueued, Quiet
<1> QED BY <1>5, <1>6 DEF fs

LEMMA PutAnswers ==
  ASSUME NEW t, NEW own, NEW a, NEW ans, TurnOk(t, own, a, ans), NEW c, NEW f, NEW r,
         AnsweringOne(t.hub, t.conn, own, a, ans, t.hub, c, f, r)
  PROVE  Proceeds(t, Put(t, c, f), own, a, ans, r) /\ Put(t, c, f).conn[c] = f
<1> DEFINE s == Put(t, c, f)
<1>1. t \in Turns /\ c \in Conns /\ f \in Conn
  BY DEF TurnOk, AnsweringOne, ConnFine
<1>2. /\ s \in Turns /\ s.hub = t.hub /\ s.asks = t.asks /\ s.conn = [t.conn EXCEPT ![c] = f] /\ s.conn[c] = f
  BY <1>1, TurnPut DEF Put
<1> HIDE DEF s
<1>4. /\ TurnFine(t.hub, [t.conn EXCEPT ![c] = f], own, a, ans)
      /\ \A i \in Rpcs \ {r} : Nowhere(t.hub, t.conn, i) => Nowhere(t.hub, [t.conn EXCEPT ![c] = f], i)
  BY AnswerOne
<1>5. TurnOk(s, own, a, ans)
  BY <1>2, <1>4 DEF TurnOk
<1>6. \A i \in Rpcs : i # r /\ NowhereIn(t, i) => NowhereIn(s, i)
  BY <1>2, <1>4 DEF NowhereIn
<1> QED BY <1>2, <1>5, <1>6 DEF Proceeds, s

LEMMA PutQuiet ==
  ASSUME NEW t, NEW own, NEW a, NEW ans, TurnOk(t, own, a, ans), NEW c \in Conns, NEW f,
         ConnFine(f, a[c]), t.hub.ended => ~Attached(f, Modes), Quiet(t.conn[c], f)
  PROVE  Proceeds(t, Put(t, c, f), own, a, ans, None) /\ Put(t, c, f).conn[c] = f
<1> DEFINE s == Put(t, c, f)
<1>1. t \in Turns /\ f \in Conn /\ TurnFine(t.hub, t.conn, own, a, ans)
  BY DEF TurnOk, ConnFine
<1>2. /\ s \in Turns /\ s.hub = t.hub /\ s.asks = t.asks /\ s.conn = [t.conn EXCEPT ![c] = f] /\ s.conn[c] = f
  BY <1>1, TurnPut DEF Put
<1> HIDE DEF s
<1>4. /\ TurnFine(t.hub, [t.conn EXCEPT ![c] = f], own, a, ans)
      /\ \A i \in Rpcs : Nowhere(t.hub, t.conn, i) => Nowhere(t.hub, [t.conn EXCEPT ![c] = f], i)
  BY <1>1, QuietOne
<1>5. TurnOk(s, own, a, ans)
  BY <1>2, <1>4 DEF TurnOk
<1>6. \A i \in Rpcs : NowhereIn(t, i) => NowhereIn(s, i)
  BY <1>2, <1>4 DEF NowhereIn
<1> QED BY <1>2, <1>5, <1>6 DEF Proceeds, s

\* A message that moves nobody changes nothing else.
LEMMA PushStill ==
  ASSUME NEW k, NEW a, ConnFine(k, a), NEW m \in Msg, m.is # "bytes", ~Moves(m)
  PROVE  /\ ConnFine(Push(k, m), a) /\ Push(k, m).att = k.att /\ Push(k, m) \in Conn
         /\ Answered(k, Push(k, m), m.rpc)
<1> DEFINE f == Push(k, m)
<1>1. k \in Conn /\ Steady(k.out, a)
  BY DEF ConnFine
<1>2. f \in Conn /\ f = [k EXCEPT !.out = Append(k.out, m)] /\ Steady(f.out, a)
      /\ Queued(k) <= Queued(f) /\ \A n : Reaches(k.out, a, n) => Reaches(f.out, a, n)
  BY <1>1, PushFine
<1>3. Answered(k, f, m.rpc)
  BY <1>1, PushAnswers
<1> HIDE DEF f
<1>4. f.att = k.att /\ f.wake = k.wake /\ f.missed = k.missed /\ f.storing = k.storing
      /\ f.catching = k.catching
  BY <1>1, <1>2 DEF Conn
<1>5. Queued(k) \in Nat /\ Queued(f) \in Nat /\ QueueCap \div 2 \in Nat
  BY <1>1, <1>2, QueuedIs, QueueHalf
<1>6. Woken(f)
  BY <1>2, <1>4, <1>5 DEF ConnFine, Woken, Attached
<1>7. Attached(f, {"following", "behind"}) => Reaches(f.out, a, f.att.next)
  BY <1>2, <1>4 DEF ConnFine, Attached
<1> QED BY <1>2, <1>3, <1>4, <1>6, <1>7 DEF ConnFine, f

\* An answer that nobody owes any more, to a connection that keeps what it
\* has.
LEMMA SaysOne ==
  ASSUME NEW h, NEW ks, NEW own, NEW a, NEW ans, TurnFine(h, ks, own, a, ans), NEW r \in Rpcs,
         NEW c \in Conns, own[r] = c, ans[r] = 0, Nowhere(h, ks, r), NEW is \in {"refused", "ended"}
  PROVE  AnsweringOne(h, ks, own, a, ans, h, c, Push(ks[c], Message(is, r, None)), r)
<1> DEFINE m == Message(is, r, None)
           k == ks[c]
           f == Push(k, m)
<1>1. m \in Msg /\ m.is # "bytes" /\ m.rpc = r /\ ~Moves(m)
  BY MessageIs
<1> HIDE DEF m
<1>2. ConnFine(k, a[c]) /\ HubFine(h) /\ (h.ended => ~Attached(k, Modes))
  BY DEF TurnFine, ConnsFine
<1> HIDE DEF k
<1>3. ConnFine(f, a[c]) /\ f.att = k.att /\ Answered(k, f, r)
  BY <1>1, <1>2, PushStill
<1> HIDE DEF f
<1>4. ~IsEarly(h, r) /\ ~IsAwaited(h, r) /\ ~IsFetched(ks, r) /\ ~IsQueued(ks, r)
  BY DEF Nowhere, Owed
<1>5. /\ Attached(f, {"fetching"}) => Attached(k, {"fetching"}) /\ f.att.rpc = k.att.rpc /\ k.att.rpc # r
      /\ h.ended => ~Attached(f, Modes)
  BY <1>2, <1>3, <1>4 DEF Attached, IsFetched, k
<1> QED BY <1>2, <1>3, <1>4, <1>5 DEF AnsweringOne, k, f, m

LEMMA TellsFine ==
  ASSUME NEW t, NEW own, NEW a, NEW ans, TurnOk(t, own, a, ans), NEW r \in Rpcs,
         NEW c \in Conns, own[r] = c, ans[r] = 0, NowhereIn(t, r), NEW is \in {"refused", "ended"}
  PROVE  Proceeds(t, Tells(t, c, Message(is, r, None)), own, a, ans, r)
<1> DEFINE f == Push(t.conn[c], Message(is, r, None))
           s == Tells(t, c, Message(is, r, None))
<1>1. AnsweringOne(t.hub, t.conn, own, a, ans, t.hub, c, f, r)
  BY SaysOne DEF TurnOk, NowhereIn
<1>2. s = Put(t, c, f)
  BY DEF Tells, TurnOk, Turns, Put
<1> HIDE DEF f, s
<1>3. Proceeds(t, s, own, a, ans, r)
  BY <1>1, <1>2, PutAnswers
<1> QED BY <1>3 DEF s

LEMMA OwingTurn ==
  ASSUME NEW h, NEW ks, NEW own, NEW a, NEW ans, NEW g, NEW fs, NEW R,
         Owing(h, ks, own, a, ans, g, fs, R)
  PROVE  /\ TurnFine(g, fs, own, a, ans)
         /\ \A i \in Rpcs \ R : Nowhere(h, ks, i) => Nowhere(g, fs, i)
<1>1. Owners(g, fs, own)
  <2>1. \A x \in g.early \cup g.waiting : own[x.rpc] = x.conn
    BY DEF Owing, TurnFine, Owners
  <2>2. ASSUME NEW c \in Conns, Attached(fs[c], {"fetching"})
        PROVE  fs[c].att.rpc \in Rpcs /\ own[fs[c].att.rpc] = c
    BY <2>2 DEF Owing, TurnFine, Owners
  <2>3. \A c \in Conns, i \in Rpcs : Carried(fs[c], i) # {} => own[i] = c
    BY DEF Owing, TurnFine, Owners
  <2> QED BY <2>1, <2>2, <2>3 DEF Owners
<1>2. ASSUME NEW i \in Rpcs \ R
      PROVE  /\ \A x \in g.early : x.rpc = i => x \in h.early
             /\ IsEarly(g, i) => IsEarly(h, i)
             /\ IsAwaited(g, i) => IsAwaited(h, i)
             /\ IsFetched(fs, i) => IsFetched(ks, i)
  BY DEF Owing, IsEarly, IsAwaited, IsFetched
<1>3. \A c \in Conns, i \in Rpcs : Carried(fs[c], i) = Carried(ks[c], i)
  BY DEF Owing
<1>4. ASSUME NEW i \in Rpcs PROVE Once(g, fs, ans, i)
  <2>1. CASE i \in R
    <3>1. ~IsQueued(fs, i)
      BY <1>3, <2>1 DEF Owing, IsQueued
    <3> QED BY <2>1, <3>1, OnceOwed DEF Owing
  <2>2. CASE i \notin R
    <3>1. Once(h, ks, ans, i)
      BY DEF Owing, TurnFine
    <3> QED BY <1>2, <1>3, <2>2, <3>1, OnceStays
  <2> QED BY <2>1, <2>2
<1>5. ASSUME NEW i \in Rpcs \ R, Nowhere(h, ks, i) PROVE Nowhere(g, fs, i)
  BY <1>2, <1>3, <1>5 DEF Nowhere, Owed, IsQueued
<1> QED BY <1>1, <1>4, <1>5 DEF Owing, TurnFine

--------------------
\* An attach is served.

LEMMA ReplacesFine ==
  ASSUME NEW t, NEW own, NEW a, NEW ans, TurnOk(t, own, a, ans), NEW x, x.conn \in Conns
  PROVE  Proceeds(t, Replaces(t, x), own, a, ans, None) /\ Replaces(t, x).conn[x.conn].att = None
<1> DEFINE c == x.conn
           k == t.conn[c]
           gone == Dropped(k)
           s == Replaces(t, x)
<1>1. TurnFine(t.hub, t.conn, own, a, ans) /\ t \in Turns /\ ConnFine(k, a[c]) /\ k \in Conn
      /\ Steady(k.out, a[c]) /\ HubFine(t.hub) /\ t.conn \in [Conns -> Conn]
  BY DEF TurnOk, TurnFine, ConnsFine, ConnFine
<1>2. Kept(k, gone) /\ gone.att = None /\ Steady(gone.out, a[c]) /\ gone \in Conn
  <2> HIDE DEF k
  <2> QED BY <1>1, DroppedFine DEF Kept
<1> HIDE DEF gone
<1>3. ConnFine(gone, a[c]) /\ ~Attached(gone, Modes)
  BY <1>2, UnattachedFine
<1>4. CASE ~Attached(k, {"fetching"})
  <2>1. s = Put(t, c, gone)
    BY <1>4 DEF Replaces, gone, Put
  <2>2. Quiet(k, gone)
    BY <1>2, <1>3, KeptQuiet, Modal
  <2>3. c \in Conns /\ Quiet(t.conn[c], gone)
    BY <2>2
  <2> HIDE DEF s, c, k
  <2>4. Proceeds(t, s, own, a, ans, None) /\ s.conn[c] = gone
    BY <1>3, <2>1, <2>3, PutQuiet
  <2> QED BY <1>2, <2>4 DEF s, c
<1>5. CASE Attached(k, {"fetching"})
  <2> DEFINE r == k.att.rpc
             m == Message("refused", r, None)
             f == Push(gone, m)
  <2>1. r \in Rpcs /\ own[r] = c /\ IsFetched(t.conn, r) /\ Owed(t.hub, t.conn, r)
        /\ Once(t.hub, t.conn, ans, r)
    BY <1>1, <1>5 DEF TurnFine, Owners, IsFetched, Owed
  <2>2. s = Put(t, c, f)
    BY <1>5 DEF Replaces, gone, Put
  <2>3. ans[r] = 0 /\ ~IsQueued(t.conn, r) /\ ~IsEarly(t.hub, r) /\ ~IsAwaited(t.hub, r)
    BY <2>1 DEF Once
  <2>4. m \in Msg /\ m.is # "bytes" /\ ~Moves(m) /\ m.rpc = r
    BY <2>1, MessageIs
  <2> HIDE DEF m, r
  <2>5. ConnFine(f, a[c]) /\ f.att = None /\ Answered(gone, f, r)
    BY <1>2, <1>3, <2>4, PushStill
  <2>6. ~Attached(f, Modes) /\ ~Attached(f, {"fetching"})
    BY <2>5 DEF Attached
  <2>7. Answered(k, f, r)
    <3>1. Len(gone.out) = Len(k.out)
      BY <1>1, DroppedFine DEF gone
    <3> QED BY <1>2, <2>5, <3>1 DEF Answered, Kept
  <2> HIDE DEF f, s, k, c
  <2>8. AnsweringOne(t.hub, t.conn, own, a, ans, t.hub, c, f, r)
    BY <1>1, <2>1, <2>3, <2>5, <2>6, <2>7 DEF AnsweringOne, k, c
  <2>9. Proceeds(t, s, own, a, ans, r) /\ s.conn[c] = f
    BY <2>2, <2>8, PutAnswers
  <2>10. ~NowhereIn(t, r)
    BY <2>1 DEF NowhereIn, Nowhere
  <2>11. Proceeds(t, s, own, a, ans, None)
    BY <2>9, <2>10 DEF Proceeds
  <2> QED BY <2>5, <2>9, <2>11 DEF s, c
<1> QED BY <1>4, <1>5

LEMMA AskingIs ==
  ASSUME NEW t, NEW own, NEW a, NEW ans, NEW x, Asking(t, own, a, ans, x)
  PROVE  /\ x.rpc \in Rpcs /\ x.conn \in Conns /\ x.cursor \in Spot \cup {None}
         /\ t \in Turns /\ TurnFine(t.hub, t.conn, own, a, ans) /\ HubFine(t.hub) /\ t.hub \in Hub
         /\ ConnsFine(t.conn, a) /\ t.conn \in [Conns -> Conn]
         /\ ~IsEarly(t.hub, x.rpc) /\ ~IsAwaited(t.hub, x.rpc) /\ ~IsFetched(t.conn, x.rpc)
         /\ ~IsQueued(t.conn, x.rpc)
BY DEF Asking, Pending, TurnOk, TurnFine, HubFine, ConnsFine, NowhereIn, Nowhere, Owed

LEMMA SnapshotForFine ==
  ASSUME NEW t, NEW own, NEW a, NEW ans, NEW x, Asking(t, own, a, ans, x)
  PROVE  Serves(t, SnapshotFor(t, x), own, a, ans, x.rpc)
<1> DEFINE s == SnapshotFor(t, x)
           h == t.hub
           ks == t.conn
           w == [rpc |-> x.rpc, conn |-> x.conn]
           g == [h EXCEPT !.waiting = @ \cup {w}]
<1>1. /\ x.rpc \in Rpcs /\ x.conn \in Conns /\ t \in Turns /\ TurnFine(h, ks, own, a, ans)
      /\ HubFine(h) /\ h \in Hub /\ ConnsFine(ks, a)
      /\ ~IsEarly(h, x.rpc) /\ ~IsAwaited(h, x.rpc) /\ ~IsFetched(ks, x.rpc) /\ ~IsQueued(ks, x.rpc)
  BY AskingIs
<1>2. w \in Awaited
  BY <1>1 DEF Awaited
<1>3. g \in Hub /\ g.waiting = h.waiting \cup {w} /\ g.early = h.early /\ g.ended = h.ended
      /\ g.tail = h.tail /\ g.head = h.head /\ g.holds = h.holds
  BY <1>1, <1>2 DEF Hub
<1>4. s.hub = g /\ s.conn = ks /\ s \in Turns
  <2>1. Append(t.asks, x.rpc) \in Seq(Rpcs)
    BY <1>1 DEF Turns
  <2>2. s = [t EXCEPT !.hub = g, !.asks = Append(t.asks, x.rpc)]
    BY <1>1 DEF SnapshotFor, Turns
  <2> HIDE DEF g
  <2> QED BY <1>1, <1>3, <2>1, <2>2 DEF Turns
<1> HIDE DEF g, s
<1>5. HubFine(g)
  BY <1>1, <1>3 DEF HubFine
<1> DEFINE R == {x.rpc}
<1>6. Owing(h, ks, own, a, ans, g, ks, R)
  <2>1. ~IsEarly(g, x.rpc)
    BY <1>1, <1>3 DEF IsEarly
  <2>2. \A y \in g.waiting : y \in h.waiting \/ (y.rpc \in R /\ own[y.rpc] = y.conn)
    BY <1>3 DEF Asking
  <2>3. \A y \in g.early : y \in h.early
    BY <1>3
  <2>4. R \subseteq Rpcs /\ \A i \in R : ans[i] = 0 /\ ~IsQueued(ks, i) /\ ~IsEarly(g, i) /\ ~IsFetched(ks, i)
    BY <1>1, <2>1 DEF Asking
  <2>5. g.ended => \A c \in Conns : ~Attached(ks[c], Modes)
    BY <1>1, <1>3 DEF TurnFine
  <2> HIDE DEF R, w, h, ks
  <2> QED BY <1>1, <1>5, <2>2, <2>3, <2>4, <2>5 DEF Owing
<1> HIDE DEF R
<1>7. TurnFine(g, ks, own, a, ans) /\ \A i \in Rpcs \ R : Nowhere(h, ks, i) => Nowhere(g, ks, i)
  BY <1>6, OwingTurn
<1>8. Serves(t, s, own, a, ans, x.rpc)
  BY <1>4, <1>7 DEF Serves, TurnOk, NowhereIn, R
<1> QED BY <1>8 DEF s

LEMMA EarlyFine ==
  ASSUME NEW t, NEW own, NEW a, NEW ans, NEW x, Asking(t, own, a, ans, x)
  PROVE  Serves(t, [t EXCEPT !.hub.early = @ \cup {x}], own, a, ans, x.rpc)
<1> DEFINE s == [t EXCEPT !.hub.early = @ \cup {x}]
           h == t.hub
           ks == t.conn
           g == [h EXCEPT !.early = @ \cup {x}]
<1>1. /\ x.rpc \in Rpcs /\ x.conn \in Conns /\ t \in Turns /\ TurnFine(h, ks, own, a, ans)
      /\ HubFine(h) /\ h \in Hub /\ ConnsFine(ks, a)
      /\ ~IsEarly(h, x.rpc) /\ ~IsAwaited(h, x.rpc) /\ ~IsFetched(ks, x.rpc) /\ ~IsQueued(ks, x.rpc)
  BY AskingIs
<1>2. x \in Pending
  BY DEF Asking
<1>3. g \in Hub /\ g.early = h.early \cup {x} /\ g.waiting = h.waiting /\ g.ended = h.ended
      /\ g.tail = h.tail /\ g.head = h.head /\ g.holds = h.holds
  BY <1>1, <1>2 DEF Hub
<1>4. s.hub = g /\ s.conn = ks /\ s \in Turns
  <2>1. s = [t EXCEPT !.hub = g]
    BY <1>1 DEF Turns
  <2> HIDE DEF g
  <2> QED BY <1>1, <1>3, <2>1 DEF Turns
<1> HIDE DEF g, s
<1>5. HubFine(g)
  BY <1>1, <1>3 DEF HubFine
<1> DEFINE R == {x.rpc}
<1>6. Owing(h, ks, own, a, ans, g, ks, R)
  <2>1. ~IsAwaited(g, x.rpc)
    BY <1>1, <1>3 DEF IsAwaited
  <2>2. \A y \in g.early : y \in h.early \/ (y.rpc \in R /\ own[y.rpc] = y.conn)
    BY <1>3 DEF Asking
  <2>3. \A y \in g.waiting : y \in h.waiting
    BY <1>3
  <2>4. \A y, z \in g.early : y.rpc = x.rpc /\ z.rpc = x.rpc => y = z
    BY <1>1, <1>3 DEF IsEarly
  <2>5. R \subseteq Rpcs /\ \A i \in R : ans[i] = 0 /\ ~IsQueued(ks, i) /\ ~IsAwaited(g, i) /\ ~IsFetched(ks, i)
                               /\ \A y, z \in g.early : y.rpc = i /\ z.rpc = i => y = z
    BY <1>1, <2>1, <2>4 DEF Asking
  <2>6. g.ended => \A c \in Conns : ~Attached(ks[c], Modes)
    BY <1>1, <1>3 DEF TurnFine
  <2> HIDE DEF R, h, ks
  <2> QED BY <1>1, <1>5, <2>2, <2>3, <2>5, <2>6 DEF Owing
<1> HIDE DEF R
<1>7. TurnFine(g, ks, own, a, ans) /\ \A i \in Rpcs \ R : Nowhere(h, ks, i) => Nowhere(g, ks, i)
  BY <1>6, OwingTurn
<1>8. Serves(t, s, own, a, ans, x.rpc)
  BY <1>4, <1>7 DEF Serves, TurnOk, NowhereIn, R
<1> QED BY <1>8 DEF s

\* The answer, and what the tail has from there.
LEMMA ContinuedFine ==
  ASSUME LogFine, NEW k, NEW a, ConnFine(k, a), NEW is \in {"continued", "snapshot"}, NEW r \in Rpcs,
         NEW n \in Spot, NEW d, d.out = k.out, d \in Conn,
         NEW h, h.head \in Spot, h.tail \in Spot
  PROVE  LET f == CatchUp([Push(d, Message(is, r, n)) EXCEPT !.att = Attachment(n, "following", None)], h)
         IN  ConnFine(f, a) /\ Answered(k, f, r) /\ ~Attached(f, {"fetching"})
<1> DEFINE m == Message(is, r, n)
           said == Push(d, m)
           b == Attachment(n, "following", None)
           there == [said EXCEPT !.att = b]
           f == CatchUp(there, h)
<1>1. m \in Msg /\ m.is # "bytes" /\ Moves(m) /\ m.at = n /\ m.rpc = r
  BY MessageIs
<1> HIDE DEF m
<1>2. Steady(d.out, a)
  BY DEF ConnFine
<1>3. said \in Conn /\ Steady(said.out, a) /\ Ends(said.out, a, n)
  BY <1>1, <1>2, PushFine
<1>4. Answered(d, said, r)
  BY <1>1, <1>2, PushAnswers
<1>5. Answered(k, said, r)
  BY <1>4 DEF Answered, Carried
<1> HIDE DEF said
<1>6. b \in Att /\ b.next = n
  BY DEF Attachment, Att, Modes
<1> HIDE DEF b
<1>7. there \in Conn /\ there.out = said.out /\ there.att = b
  BY <1>3, <1>6 DEF Conn
<1>8. Kept(said, there)
  BY <1>3, <1>7, KeptSame
<1> HIDE DEF there
<1>9. Reaches(there.out, a, there.att.next) /\ Steady(there.out, a)
  BY <1>3, <1>6, <1>7 DEF Reaches
<1>10. ConnFine(f, a) /\ Kept(there, f) /\ ~Attached(f, {"fetching"})
  BY <1>6, <1>7, <1>9, CatchUpFine
<1> HIDE DEF f
<1>11. Answered(k, there, r)
  BY <1>3, <1>5, <1>8, AnsweredKept DEF ConnFine
<1>12. Answered(k, f, r)
  BY <1>10, <1>11, AnsweredKept DEF ConnFine
<1> QED BY <1>10, <1>12 DEF f, there, said, m, b

LEMMA ContinuesFine ==
  ASSUME LogFine, NEW t, NEW own, NEW a, NEW ans, NEW x, Asking(t, own, a, ans, x), x.cursor # None,
         t.hub.holds
  PROVE  Serves(t, Continues(t, x), own, a, ans, x.rpc)
<1> DEFINE c == x.conn
           k == t.conn[c]
           r == x.rpc
           f == CatchUp([Push(k, Message("continued", r, x.cursor)) EXCEPT
                           !.att = Attachment(x.cursor, "following", None)], t.hub)
           s == Continues(t, x)
<1>1. /\ r \in Rpcs /\ c \in Conns /\ t \in Turns /\ TurnFine(t.hub, t.conn, own, a, ans)
      /\ HubFine(t.hub) /\ t.hub \in Hub /\ ConnsFine(t.conn, a)
      /\ ~IsEarly(t.hub, r) /\ ~IsAwaited(t.hub, r) /\ ~IsQueued(t.conn, r)
  BY AskingIs
<1>2. x.cursor \in Spot /\ t.hub.head \in Spot /\ t.hub.tail \in Spot
  BY <1>1, AskingIs DEF Hub
<1>3. ConnFine(k, a[c]) /\ k \in Conn
  BY <1>1 DEF ConnsFine, ConnFine
<1> HIDE DEF k, r
<1>4. ConnFine(f, a[c]) /\ Answered(k, f, r) /\ ~Attached(f, {"fetching"})
  BY <1>1, <1>2, <1>3, ContinuedFine
<1>5. s = Put(t, c, f)
  BY DEF Continues, Put, k, r
<1> HIDE DEF f, s, c
<1>6. ~t.hub.ended /\ own[r] = c /\ ans[r] = 0
  BY <1>1 DEF HubFine, Asking, r, c
<1>7. AnsweringOne(t.hub, t.conn, own, a, ans, t.hub, c, f, r)
  BY <1>1, <1>4, <1>6 DEF AnsweringOne, k
<1>8. Proceeds(t, s, own, a, ans, r)
  BY <1>5, <1>7, PutAnswers DEF Asking
<1>9. Serves(t, s, own, a, ans, r)
  BY <1>8 DEF Serves, Proceeds
<1> QED BY <1>9 DEF s, r

LEMMA FetchesFine ==
  ASSUME NEW t, NEW own, NEW a, NEW ans, NEW x, Asking(t, own, a, ans, x), x.cursor # None,
         t.hub.holds
  PROVE  Serves(t, Fetches(t, x), own, a, ans, x.rpc)
<1> DEFINE c == x.conn
           h == t.hub
           ks == t.conn
           b == Attachment(x.cursor, "fetching", x.rpc)
           f == [ks[c] EXCEPT !.att = b]
           fs == [ks EXCEPT ![c] = f]
           asks == h.fetch = None \/ x.cursor < h.fetch
           g == IF asks THEN [h EXCEPT !.fetch = x.cursor] ELSE h
           s == Fetches(t, x)
<1>1. /\ x.rpc \in Rpcs /\ c \in Conns /\ t \in Turns /\ TurnFine(h, ks, own, a, ans)
      /\ HubFine(h) /\ h \in Hub /\ ConnsFine(ks, a) /\ ks \in [Conns -> Conn]
      /\ ~IsEarly(h, x.rpc) /\ ~IsAwaited(h, x.rpc) /\ ~IsQueued(ks, x.rpc)
  BY AskingIs
<1>2. x.cursor \in Spot
  BY AskingIs
<1>3. g \in Hub /\ g.early = h.early /\ g.waiting = h.waiting /\ g.ended = h.ended
      /\ g.tail = h.tail /\ g.head = h.head /\ g.holds = h.holds
  BY <1>1, <1>2 DEF Hub
<1>4. b \in Att /\ b.mode = "fetching" /\ b.rpc = x.rpc
  BY <1>1, <1>2 DEF Att, Attachment, Modes
<1>5. f \in Conn /\ f.out = ks[c].out /\ f.att = b
  <2> HIDE DEF b
  <2> QED BY <1>1, <1>4 DEF Conn
<1>6. ConnFine(f, a[c])
  <2>1. Steady(ks[c].out, a[c])
    BY <1>1 DEF ConnsFine, ConnFine
  <2> HIDE DEF f, b
  <2>2. ~Attached(f, {"following", "behind"}) /\ ~Attached(f, {"behind"})
    BY <1>4, <1>5 DEF Attached
  <2> QED BY <1>5, <2>1, <2>2 DEF ConnFine, Woken
<1>7. s.hub = g /\ s.conn = fs /\ s \in Turns
  <2> DEFINE put == Put(t, c, f)
  <2>1. put \in Turns /\ put.hub = h /\ put.conn = fs /\ put.fetches = t.fetches
    <3> HIDE DEF f
    <3> QED BY <1>1, <1>5, TurnPut DEF Put
  <2>2. [t EXCEPT !.conn[x.conn].att = b] = put
    BY DEF Put
  <2> HIDE DEF put, b, f
  <2>3. CASE asks
    <3>1. s = [put EXCEPT !.hub.fetch = x.cursor, !.fetches = Append(@, x.cursor)]
      BY <2>2, <2>3 DEF Fetches, b
    <3>2. g = [h EXCEPT !.fetch = x.cursor]
      BY <2>3
    <3>3. s = [put EXCEPT !.hub = g, !.fetches = Append(t.fetches, x.cursor)]
      BY <2>1, <3>1, <3>2 DEF Turns
    <3>4. Append(t.fetches, x.cursor) \in Seq(Spot)
      BY <1>1, <1>2 DEF Turns
    <3> HIDE DEF g, fs, s
    <3> QED BY <1>3, <2>1, <3>3, <3>4 DEF Turns
  <2>4. CASE ~asks
    <3>1. s = put
      BY <2>2, <2>4 DEF Fetches, b
    <3>2. g = h
      BY <2>4
    <3> HIDE DEF g, fs, s
    <3> QED BY <2>1, <3>1, <3>2
  <2> QED BY <2>3, <2>4
<1> HIDE DEF g, s, f
<1>8. HubFine(g) /\ ~g.ended
  BY <1>1, <1>3 DEF HubFine
<1>9. ConnsFine(fs, a) /\ fs[c] = f /\ \A d \in Conns : d # c => fs[d] = ks[d]
  BY <1>1, <1>6, ConnPut
<1> HIDE DEF fs
<1> DEFINE R == {x.rpc}
<1>10. Owing(h, ks, own, a, ans, g, fs, R)
  <2>1. ~IsEarly(g, x.rpc) /\ ~IsAwaited(g, x.rpc)
    BY <1>1, <1>3 DEF IsEarly, IsAwaited
  <2>2. \A d \in Conns : Attached(fs[d], {"fetching"}) =>
          \/ Attached(ks[d], {"fetching"}) /\ fs[d].att.rpc = ks[d].att.rpc
          \/ fs[d].att.rpc \in R /\ own[fs[d].att.rpc] = d
    BY <1>4, <1>5, <1>9 DEF Asking
  <2>3. \A d \in Conns, i \in Rpcs : Carried(fs[d], i) = Carried(ks[d], i)
    BY <1>5, <1>9 DEF Carried
  <2>4. R \subseteq Rpcs /\ \A i \in R : ans[i] = 0 /\ ~IsQueued(ks, i) /\ ~IsEarly(g, i) /\ ~IsAwaited(g, i)
    BY <1>1, <2>1 DEF Asking
  <2> HIDE DEF R, h, ks
  <2> QED BY <1>1, <1>3, <1>8, <1>9, <2>2, <2>3, <2>4 DEF Owing
<1> HIDE DEF R
<1>11. TurnFine(g, fs, own, a, ans) /\ \A i \in Rpcs \ R : Nowhere(h, ks, i) => Nowhere(g, fs, i)
  BY <1>10, OwingTurn
<1>12. Serves(t, s, own, a, ans, x.rpc)
  BY <1>7, <1>11 DEF Serves, TurnOk, NowhereIn, R
<1> QED BY <1>12 DEF s

LEMMA ServesAfter ==
  ASSUME NEW t, NEW r, NEW s, NEW own, NEW a, NEW ans, NEW i \in Rpcs,
         Proceeds(t, r, own, a, ans, None), Serves(r, s, own, a, ans, i)
  PROVE  Serves(t, s, own, a, ans, i)
BY NoneIsNot DEF Proceeds, Serves

LEMMA AttachesFine ==
  ASSUME LogFine, NEW t, NEW own, NEW a, NEW ans, NEW x, Asking(t, own, a, ans, x)
  PROVE  Serves(t, Attaches(t, x), own, a, ans, x.rpc)
<1> DEFINE h == t.hub
           r == Replaces(t, x)
           s == Attaches(t, x)
<1>1. x.rpc \in Rpcs /\ x.conn \in Conns /\ h \in Hub
  BY AskingIs
<1>2. Proceeds(t, r, own, a, ans, None)
  BY <1>1, ReplacesFine DEF Asking
<1>3. Asking(r, own, a, ans, x) /\ r.hub = h
  BY <1>1, <1>2, NoneIsNot DEF Proceeds, Asking
<1> HIDE DEF r, s
<1>4. CASE ~h.holds
  <2> DEFINE is == IF h.ended THEN "ended" ELSE "refused"
  <2>1. s = Tells(t, x.conn, Message(is, x.rpc, None))
    BY <1>4 DEF s, Attaches
  <2>2. is \in {"refused", "ended"}
    OBVIOUS
  <2> HIDE DEF is
  <2>3. TurnOk(t, own, a, ans) /\ own[x.rpc] = x.conn /\ ans[x.rpc] = 0 /\ NowhereIn(t, x.rpc)
    BY DEF Asking
  <2>4. Proceeds(t, s, own, a, ans, x.rpc)
    BY <1>1, <2>1, <2>2, <2>3, TellsFine
  <2>5. Serves(t, s, own, a, ans, x.rpc)
    BY <2>4 DEF Proceeds, Serves
  <2> QED BY <2>5 DEF s
<1>5. CASE h.holds /\ ~h.live
  <2>1. s = [r EXCEPT !.hub.early = @ \cup {x}]
    BY <1>5 DEF s, Attaches, r
  <2> QED BY <1>1, <1>2, <1>3, <2>1, EarlyFine, ServesAfter DEF s
<1>6. CASE h.holds /\ h.live
  <2>1. s = SnapshotFor(r, x) \/ (x.cursor # None /\ s = Continues(r, x))
        \/ (x.cursor # None /\ s = Fetches(r, x))
    <3>1. CASE x.cursor = None
      BY <1>6, <3>1 DEF s, Attaches, r
    <3>2. CASE x.cursor # None
      <4>1. s = IF Covers(h, x.cursor)
                THEN IF \E y \in x.cursor..h.head - 1 : Kind(y) = "gap" THEN SnapshotFor(r, x)
                     ELSE Continues(r, x)
                ELSE IF x.cursor > h.head THEN SnapshotFor(r, x) ELSE Fetches(r, x)
        BY <1>6, <3>2 DEF s, Attaches, r
      <4> QED BY <3>2, <4>1
    <3> QED BY <3>1, <3>2
  <2>2. CASE s = SnapshotFor(r, x)
    BY <1>1, <1>2, <1>3, <2>2, SnapshotForFine, ServesAfter DEF s
  <2>3. CASE x.cursor # None /\ s = Continues(r, x)
    BY <1>1, <1>2, <1>3, <1>6, <2>3, ContinuesFine, ServesAfter DEF s
  <2>4. CASE x.cursor # None /\ s = Fetches(r, x)
    BY <1>1, <1>2, <1>3, <1>6, <2>4, FetchesFine, ServesAfter DEF s
  <2> QED BY <2>1, <2>2, <2>3, <2>4
<1> QED BY <1>4, <1>5, <1>6

--------------------
\* What the hub hears.

LEMMA TurnIs ==
  ASSUME NEW g, NEW fs, NEW own, NEW a, NEW ans, TurnFine(g, fs, own, a, ans)
  PROVE  TurnOk(Turn(g, fs), own, a, ans) /\ Turn(g, fs).hub = g /\ Turn(g, fs).conn = fs
<1>1. g \in Hub /\ fs \in [Conns -> Conn]
  BY DEF TurnFine, HubFine, ConnsFine
<1>2. Turn(g, fs).hub = g /\ Turn(g, fs).conn = fs /\ Turn(g, fs) \in Turns
  BY <1>1 DEF Turn, Turns
<1> QED BY <1>2 DEF TurnOk

LEMMA ExtendedFine ==
  ASSUME LogFine, NEW h, HubFine(h), NEW lo \in Spot, NEW hi \in Spot, lo < hi
  PROVE  LET g == Extended(h, lo, hi)
         IN  /\ HubFine(g) /\ g.holds = h.holds /\ g.ended = h.ended
             /\ g.early = h.early /\ g.waiting = h.waiting
<1> DEFINE first == IF lo > h.head THEN lo ELSE h.head
           from == IF first = h.head THEN h.tail ELSE first
           fits == {f \in from..hi - 1 :
                      f = hi - 1 \/ Cardinality({x \in f..hi - 1 : Kind(x) = "data"}) <= TailCap}
           m == Min(fits)
           g == Extended(h, lo, hi)
<1>1. h \in Hub /\ h.tail <= h.head /\ (h.ended => ~h.holds) /\ h.tail \in Nat /\ h.head \in Nat
      /\ lo \in Nat /\ hi \in Nat /\ hi <= Len(log) /\ Len(log) \in Nat
  BY LogIs DEF HubFine, Hub, Spot
<1>2. CASE first >= hi
  <2>1. g = h
    BY <1>2 DEF Extended
  <2> QED BY <2>1
<1>3. CASE ~(first >= hi)
  <2>1. from \in Nat /\ from <= hi - 1
    BY <1>1, <1>3
  <2>2. fits \in SUBSET Nat /\ hi - 1 \in fits
    BY <1>1, <2>1
  <2>3. m \in fits
    <3> HIDE DEF fits
    <3> QED BY <2>2, LeastIs
  <2>4. m \in Nat /\ m <= hi /\ m \in Spot
    BY <1>1, <2>1, <2>3 DEF Spot
  <2>5. g = [h EXCEPT !.head = hi, !.tail = m]
    BY <1>3 DEF Extended
  <2> HIDE DEF m, g
  <2>6. g \in Hub /\ g.head = hi /\ g.tail = m /\ g.holds = h.holds /\ g.ended = h.ended
        /\ g.early = h.early /\ g.waiting = h.waiting
    BY <1>1, <2>4, <2>5 DEF Hub
  <2>7. HubFine(g)
    BY <1>1, <2>4, <2>6 DEF HubFine
  <2> QED BY <2>6, <2>7 DEF g
<1> QED BY <1>2, <1>3

LEMMA AppliedFine ==
  ASSUME LogFine, NEW own, NEW a, NEW ans, TurnFine(hub, conn, own, a, ans),
         NEW lo \in Spot, NEW hi \in Spot, lo < hi
  PROVE  TurnOk(Applied(lo, hi), own, a, ans)
<1> DEFINE fs == [c \in Conns |-> Delivers(conn[c], lo, hi)]
           fetching == \E c \in Conns : Attached(fs[c], {"fetching"})
           h == Extended(hub, lo, hi)
           g == IF fetching THEN h ELSE [h EXCEPT !.fetch = None]
           won(c) == Attached(conn[c], {"fetching"}) /\ ~Attached(fs[c], {"fetching"})
                     /\ Answered(conn[c], fs[c], conn[c].att.rpc)
           R == {i \in Rpcs : \E c \in Conns : won(c) /\ conn[c].att.rpc = i}
<1>1. HubFine(hub) /\ \A c \in Conns : ConnFine(conn[c], a[c]) /\ conn[c] \in Conn
                                       /\ (Attached(conn[c], {"fetching"}) => conn[c].att.rpc \in Rpcs)
  BY DEF TurnFine, ConnsFine, ConnFine, Owners
<1>2. /\ HubFine(h) /\ h.holds = hub.holds /\ h.ended = hub.ended
      /\ h.early = hub.early /\ h.waiting = hub.waiting
  BY <1>1, ExtendedFine
<1>3. /\ HubFine(g) /\ g.holds = hub.holds /\ g.ended = hub.ended
      /\ g.early = hub.early /\ g.waiting = hub.waiting
  <2> HIDE DEF h, fetching
  <2> QED BY <1>2 DEF HubFine, Hub
<1>4. Applied(lo, hi) = Turn(g, fs)
  BY DEF Applied
<1> HIDE DEF g
<1>5. ASSUME NEW c \in Conns
      PROVE  /\ ConnFine(fs[c], a[c]) /\ fs[c] \in Conn
             /\ \/ Kept(conn[c], fs[c]) /\ (Attached(fs[c], {"fetching"}) => fs[c] = conn[c])
                \/ won(c)
  <2>1. fs[c] = Delivers(conn[c], lo, hi)
    OBVIOUS
  <2> HIDE DEF fs
  <2>2. /\ ConnFine(fs[c], a[c])
        /\ \/ Kept(conn[c], fs[c]) /\ (Attached(fs[c], {"fetching"}) => fs[c] = conn[c])
           \/ Attached(conn[c], {"fetching"}) /\ ~Attached(fs[c], {"fetching"})
              /\ Answered(conn[c], fs[c], conn[c].att.rpc)
    BY <1>1, <2>1, DeliversFine
  <2> QED BY <2>2 DEF ConnFine
<1>6. ConnsFine(fs, a)
  <2>1. fs \in [Conns -> Conn]
    BY <1>5
  <2> QED BY <1>5, <2>1 DEF ConnsFine
<1> HIDE DEF fs
<1>7. \A c \in Conns : Attached(fs[c], {"fetching"})
         => Attached(conn[c], {"fetching"}) /\ fs[c].att.rpc = conn[c].att.rpc
  BY <1>5
<1>8. ASSUME g.ended, NEW c \in Conns PROVE ~Attached(fs[c], Modes)
  <2>1. ~Attached(conn[c], Modes)
    BY <1>3, <1>8 DEF TurnFine
  <2>2. Delivers(conn[c], lo, hi) = conn[c]
    BY <2>1, Modal DEF Delivers
  <2> QED BY <2>1, <2>2 DEF fs
<1>9. ASSUME NEW i \in R
      PROVE  \E c \in Conns : /\ own[i] = c /\ won(c) /\ conn[c].att.rpc = i /\ i \in Rpcs
                              /\ ans[i] = 0 /\ ~IsQueued(conn, i)
                              /\ ~IsEarly(hub, i) /\ ~IsAwaited(hub, i)
  <2>1. PICK c \in Conns : won(c) /\ conn[c].att.rpc = i
    OBVIOUS
  <2>2. IsFetched(conn, i) /\ Owed(hub, conn, i) /\ Once(hub, conn, ans, i) /\ i \in Rpcs
    BY <2>1 DEF IsFetched, Owed, TurnFine
  <2>3. own[i] = c
    BY <2>1, <2>2, OwedIs
  <2> QED BY <2>1, <2>2, <2>3 DEF Once
<1>10. ASSUME NEW i \in R PROVE ~Owed(g, fs, i)
  <2>1. PICK c \in Conns : /\ own[i] = c /\ won(c) /\ i \in Rpcs
                           /\ ~IsEarly(hub, i) /\ ~IsAwaited(hub, i)
    BY <1>9
  <2>2. ~IsEarly(g, i) /\ ~IsAwaited(g, i)
    BY <1>3, <2>1 DEF IsEarly, IsAwaited
  <2>3. ~IsFetched(fs, i)
    <3> SUFFICES ASSUME NEW d \in Conns, Attached(fs[d], {"fetching"}), fs[d].att.rpc = i PROVE FALSE
      BY DEF IsFetched
    <3>1. own[i] = d
      BY <1>7, <2>1, OwedIs
    <3> QED BY <2>1, <3>1
  <2> QED BY <2>2, <2>3 DEF Owed
<1>11. ASSUME NEW c \in Conns, NEW i \in Rpcs, i \in R, own[i] = c
       PROVE  \A j, l \in Carried(fs[c], i) : j = l
  <2>1. won(c) /\ conn[c].att.rpc = i /\ ~IsQueued(conn, i)
    BY <1>9, <1>11
  <2>2. Carried(conn[c], i) = {}
    BY <2>1 DEF IsQueued
  <2>3. Carried(fs[c], i) = {Len(conn[c].out) + 1}
    BY <2>1, <2>2 DEF Answered
  <2> QED BY <2>3
<1>12. ASSUME NEW c \in Conns, NEW i \in Rpcs, ~(i \in R /\ own[i] = c)
       PROVE  Carried(fs[c], i) = Carried(conn[c], i)
  <2>1. CASE Kept(conn[c], fs[c])
    BY <2>1 DEF Kept
  <2>2. CASE won(c)
    <3>1. conn[c].att.rpc \in Rpcs /\ own[conn[c].att.rpc] = c
      BY <1>1, <2>2 DEF TurnFine, Owners
    <3>2. conn[c].att.rpc # i
      BY <1>12, <2>2, <3>1
    <3> QED BY <2>2, <3>2 DEF Answered
  <2> QED BY <1>5, <2>1, <2>2
<1>13. R \subseteq Rpcs /\ \A i \in R : own[i] \in Conns /\ ans[i] = 0 /\ ~IsQueued(conn, i)
  BY <1>9
<1> HIDE DEF R
<1>14. Answering(hub, conn, own, a, ans, g, fs, R)
  BY <1>3, <1>6, <1>7, <1>8, <1>10, <1>11, <1>12, <1>13 DEF Answering
<1>15. TurnFine(g, fs, own, a, ans)
  BY <1>14, AnsweringTurn
<1> QED BY <1>4, <1>15, TurnIs

--------------------
\* live: the attaches that came before are served in turn.

LEMMA ResumedLonger ==
  ASSUME NEW base, NEW n \in Nat, NEW f, Resumed(base, n, f)
  PROVE  \E g : Resumed(base, n + 1, g)
<1> DEFINE g == [i \in 0..n + 1 |-> IF i = n + 1 THEN Resumes(f[n], n + 1) ELSE f[i]]
<1>1. \A i \in 0..n : g[i] = f[i] /\ i \in 0..n + 1 /\ i # n + 1
  OBVIOUS
<1>2. ASSUME NEW i \in 0..n + 1
      PROVE  g[i] = IF i = 0 THEN base ELSE Resumes(g[i - 1], i)
  <2>1. CASE i = n + 1
    <3>1. i # 0 /\ i - 1 = n /\ n \in 0..n /\ g[i] = Resumes(f[n], n + 1)
      BY <2>1
    <3>2. g[i - 1] = f[n]
      BY <1>1, <3>1
    <3> HIDE DEF g
    <3> QED BY <2>1, <3>1, <3>2
  <2>2. CASE i # n + 1
    <3>1. i \in 0..n /\ g[i] = f[i]
      BY <2>2
    <3>2. f[i] = IF i = 0 THEN base ELSE Resumes(f[i - 1], i)
      BY <3>1 DEF Resumed
    <3>3. i # 0 => i - 1 \in 0..n
      BY <3>1
    <3>4. i # 0 => g[i - 1] = f[i - 1]
      BY <1>1, <3>3
    <3> HIDE DEF g
    <3> QED BY <3>1, <3>2, <3>4
  <2> QED BY <2>1, <2>2
<1>3. DOMAIN g = 0..n + 1 /\ g = [i \in 0..n + 1 |-> g[i]]
  OBVIOUS
<1> HIDE DEF g
<1>4. g = [i \in 0..n + 1 |-> IF i = 0 THEN base ELSE Resumes(g[i - 1], i)]
  BY <1>2, <1>3
<1> QED BY <1>4 DEF Resumed

\* The least of the numbers that are not in T.
LEMMA LeastOutside ==
  ASSUME NEW T, NEW n \in Nat, n \notin T
  PROVE  \E m \in 0..n : m \notin T /\ \A i \in 0..m - 1 : i \in T
<1> DEFINE U == {i \in 0..n : i \notin T}
           m == Min(U)
<1>1. U \in SUBSET Nat /\ n \in U
  OBVIOUS
<1>2. m \in U /\ \A i \in U : m <= i
  <2> HIDE DEF U
  <2> QED BY <1>1, LeastIs
<1> HIDE DEF m
<1>3. ASSUME NEW i \in 0..m - 1 PROVE i \in T
  <2>1. i \in 0..n /\ ~(m <= i)
    BY <1>2
  <2> QED BY <1>2, <2>1
<1> QED BY <1>2, <1>3

LEMMA ResumedExists ==
  ASSUME NEW base, NEW n \in Nat
  PROVE  \E f : Resumed(base, n, f)
<1> DEFINE T == {i \in Nat : \E f : Resumed(base, i, f)}
<1>1. SUFFICES ASSUME n \notin T PROVE FALSE
  OBVIOUS
<1>2. PICK m \in 0..n : m \notin T /\ \A i \in 0..m - 1 : i \in T
  <2> HIDE DEF T
  <2> QED BY <1>1, LeastOutside
<1>3. m # 0
  <2> DEFINE f == [i \in 0..0 |-> base]
  <2>1. f = [i \in 0..0 |-> IF i = 0 THEN base ELSE Resumes(f[i - 1], i)]
    OBVIOUS
  <2>2. Resumed(base, 0, f)
    BY <2>1 DEF Resumed
  <2> QED BY <1>2, <2>2
<1>4. m - 1 \in 0..m - 1 /\ m - 1 \in Nat /\ (m - 1) + 1 = m
  BY <1>3
<1>5. PICK f : Resumed(base, m - 1, f)
  BY <1>2, <1>4
<1>6. \E g : Resumed(base, m, g)
  BY <1>4, <1>5, ResumedLonger
<1> QED BY <1>2, <1>6

LEMMA ResumesFine ==
  ASSUME LogFine, NEW own, NEW a, NEW ans, TurnFine(hub, conn, own, a, ans), NEW t,
         NEW i \in Nat, i > 0, Resuming(t, own, a, ans, i - 1)
  PROVE  Resuming(Resumes(t, i), own, a, ans, i)
<1>1. hub.early \subseteq Pending /\ \A x \in hub.early : x.rpc \in Nat /\ x.rpc \in Rpcs /\ x \in Pending
  BY NoneIsNot DEF TurnFine, HubFine, Hub, Pending
<1>2. CASE \E x \in hub.early : x.rpc = i
  <2> DEFINE x == CHOOSE x \in hub.early : x.rpc = i
  <2>1. x \in hub.early /\ x.rpc = i
    BY <1>2
  <2>2. Resumes(t, i) = Attaches(t, x)
    BY <1>2 DEF Resumes
  <2> HIDE DEF x
  <2>3. IsEarly(hub, i) /\ Owed(hub, conn, i) /\ i \in Rpcs
    BY <1>1, <2>1 DEF IsEarly, Owed
  <2>4. own[x.rpc] = x.conn /\ ans[x.rpc] = 0
    BY <2>1, <2>3, OwedIs
  <2>5. x.rpc > i - 1
    BY <2>1
  <2>6. Asking(t, own, a, ans, x)
    BY <1>1, <2>1, <2>4, <2>5 DEF Asking, Resuming
  <2>7. Serves(t, Attaches(t, x), own, a, ans, x.rpc)
    BY <2>6, AttachesFine
  <2>8. ASSUME NEW y \in hub.early, y.rpc > i PROVE NowhereIn(Attaches(t, x), y.rpc)
    <3>1. y.rpc > i - 1 /\ y.rpc # i /\ y.rpc \in Rpcs
      BY <1>1, <2>8
    <3> QED BY <2>1, <2>7, <3>1 DEF Serves, Resuming
  <2> QED BY <2>2, <2>7, <2>8 DEF Resuming, Serves
<1>3. CASE ~\E x \in hub.early : x.rpc = i
  <2>1. Resumes(t, i) = t
    BY <1>3 DEF Resumes
  <2>2. \A x \in hub.early : x.rpc > i => x.rpc > i - 1
    BY <1>1
  <2> QED BY <2>1, <2>2 DEF Resuming
<1> QED BY <1>2, <1>3

LEMMA ResumedFine ==
  ASSUME LogFine, NEW own, NEW a, NEW ans, TurnFine(hub, conn, own, a, ans), NEW base,
         Resuming(base, own, a, ans, 0), NEW n \in Nat, NEW f, Resumed(base, n, f)
  PROVE  TurnOk(f[n], own, a, ans)
<1> DEFINE T == {i \in 0..n : Resuming(f[i], own, a, ans, i)}
<1>1. \A i \in 0..n : f[i] = IF i = 0 THEN base ELSE Resumes(f[i - 1], i)
  BY DEF Resumed
<1>2. n \in T
  <2> SUFFICES ASSUME n \notin T PROVE FALSE
    OBVIOUS
  <2>1. PICK m \in 0..n : m \notin T /\ \A i \in 0..m - 1 : i \in T
    <3> HIDE DEF T
    <3> QED BY LeastOutside
  <2>2. m # 0
    <3>1. f[0] = base
      BY <1>1
    <3> QED BY <2>1, <3>1
  <2>3. m - 1 \in 0..m - 1 /\ m \in Nat /\ m > 0
    BY <2>2
  <2>4. Resuming(f[m - 1], own, a, ans, m - 1)
    BY <2>1, <2>3
  <2>5. f[m] = Resumes(f[m - 1], m)
    BY <1>1, <2>2
  <2>6. Resuming(f[m], own, a, ans, m)
    BY <2>3, <2>4, <2>5, ResumesFine
  <2> QED BY <2>1, <2>6
<1> QED BY <1>2 DEF Resuming

LEMMA LiveFine ==
  ASSUME LogFine, NEW own, NEW a, NEW ans, TurnFine(hub, conn, own, a, ans), hub.holds,
         NEW n \in Spot
  PROVE  TurnOk(Live(n), own, a, ans)
<1> DEFINE h == [hub EXCEPT !.live = TRUE, !.early = {}, !.head = n,
                            !.tail = IF hub.head = n THEN @ ELSE n]
           base == Turn(h, conn)
<1>1. hub \in Hub /\ hub.tail <= hub.head /\ ~hub.ended /\ hub.tail \in Spot /\ hub.head \in Spot
      /\ Spot \subseteq Nat
  BY LogIs DEF TurnFine, HubFine, Hub
<1>2. h \in Hub /\ h.early = {} /\ h.waiting = hub.waiting /\ h.ended = hub.ended
      /\ h.holds = hub.holds /\ h.head = n /\ h.tail = IF hub.head = n THEN hub.tail ELSE n
  BY <1>1 DEF Hub
<1> HIDE DEF h
<1>3. HubFine(h)
  BY <1>1, <1>2 DEF HubFine
<1>4. TurnFine(h, conn, own, a, ans)
  <2>1. ConnsFine(conn, a)
    BY DEF TurnFine
  <2>2. \A c \in Conns : Quiet(conn[c], conn[c])
    BY DEF Quiet
  <2>3. h.early \subseteq hub.early /\ h.waiting \subseteq hub.waiting /\ ~h.ended
    BY <1>1, <1>2
  <2> QED BY <1>3, <2>1, <2>2, <2>3, QuietTurn
<1>5. TurnOk(base, own, a, ans) /\ base.hub = h /\ base.conn = conn
  BY <1>4, TurnIs
<1> HIDE DEF base
<1>6. ASSUME NEW x \in hub.early PROVE NowhereIn(base, x.rpc)
  <2>1. x.rpc \in Rpcs /\ IsEarly(hub, x.rpc) /\ Owed(hub, conn, x.rpc)
    BY <1>1 DEF Hub, Pending, IsEarly, Owed
  <2>2. ~IsAwaited(hub, x.rpc) /\ ~IsFetched(conn, x.rpc) /\ ~IsQueued(conn, x.rpc)
    BY <2>1 DEF TurnFine, Once
  <2>3. ~IsEarly(h, x.rpc) /\ ~IsAwaited(h, x.rpc)
    BY <1>2, <2>2 DEF IsEarly, IsAwaited
  <2> QED BY <1>5, <2>2, <2>3 DEF NowhereIn, Nowhere, Owed
<1>7. Resuming(base, own, a, ans, 0)
  BY <1>5, <1>6 DEF Resuming
<1>8. PICK f : Resumed(base, MaxAttaches, f)
  BY ResumedExists, NoneIsNot
<1> DEFINE after == CHOOSE u : Resumed(base, MaxAttaches, u)
<1>9. Resumed(base, MaxAttaches, after)
  BY <1>8
<1>10. Live(n) = after[MaxAttaches]
  BY DEF Live, Resumed, Resumes, base, h
<1> HIDE DEF after
<1>11. TurnOk(after[MaxAttaches], own, a, ans)
  BY <1>7, <1>9, ResumedFine, NoneIsNot
<1> QED BY <1>10, <1>11

--------------------
\* The snapshot of an attach is there.

LEMMA UnwaitedFine ==
  ASSUME NEW own, NEW a, NEW ans, TurnFine(hub, conn, own, a, ans), NEW r \in Rpcs
  PROVE  LET g == Unwaited(r)
         IN  /\ HubFine(g) /\ g.holds = hub.holds /\ g.ended = hub.ended /\ g.early = hub.early
             /\ g.waiting \subseteq hub.waiting /\ ~IsAwaited(g, r)
             /\ g.head = hub.head /\ g.tail = hub.tail
             /\ TurnFine(g, conn, own, a, ans)
<1> DEFINE g == Unwaited(r)
<1>1. hub \in Hub /\ hub.tail <= hub.head /\ (hub.ended => ~hub.holds)
  BY DEF TurnFine, HubFine
<1>2. /\ g \in Hub /\ g.holds = hub.holds /\ g.ended = hub.ended /\ g.early = hub.early
      /\ g.waiting = {w \in hub.waiting : w.rpc # r} /\ g.head = hub.head /\ g.tail = hub.tail
  BY <1>1 DEF Unwaited, Hub
<1> HIDE DEF g
<1>3. HubFine(g) /\ g.waiting \subseteq hub.waiting /\ ~IsAwaited(g, r)
  BY <1>1, <1>2 DEF HubFine, IsAwaited
<1>4. TurnFine(g, conn, own, a, ans)
  <2>1. ConnsFine(conn, a) /\ (g.ended => \A c \in Conns : ~Attached(conn[c], Modes))
    BY <1>2 DEF TurnFine
  <2>2. \A c \in Conns : Quiet(conn[c], conn[c])
    BY DEF Quiet
  <2> QED BY <1>2, <1>3, <2>1, <2>2, QuietTurn
<1> QED BY <1>2, <1>3, <1>4 DEF g

\* It is cut at n, whatever was queued before it.
LEMMA SnapshotCutFine ==
  ASSUME LogFine, NEW k, NEW a, ConnFine(k, a), NEW r \in Rpcs, NEW n \in Spot,
         NEW h, h.head \in Spot, h.tail \in Spot
  PROVE  LET f == CatchUp([Dropped(Push(k, Message("snapshot", r, n))) EXCEPT
                             !.att = Attachment(n, "following", None)], h)
         IN  ConnFine(f, a) /\ Answered(k, f, r) /\ ~Attached(f, {"fetching"})
<1> DEFINE m == Message("snapshot", r, n)
           said == Push(k, m)
           gone == Dropped(said)
           b == Attachment(n, "following", None)
           there == [gone EXCEPT !.att = b]
           f == CatchUp(there, h)
<1>1. m \in Msg /\ m.is # "bytes" /\ Moves(m) /\ m.at = n /\ m.rpc = r /\ Leaves(m) = n
  BY MessageIs DEF Leaves
<1> HIDE DEF m
<1>2. k \in Conn /\ Steady(k.out, a) /\ k.out \in Seq(Msg)
  BY ConnFields DEF ConnFine
<1>3. said \in Conn /\ said = [k EXCEPT !.out = Append(k.out, m)] /\ Steady(said.out, a)
      /\ Answered(k, said, r)
  BY <1>1, <1>2, PushFine, PushAnswers
<1> HIDE DEF said
<1>4. said.out = Append(k.out, m)
  BY <1>2, <1>3 DEF Conn
<1>5. Len(said.out) = Len(k.out) + 1 /\ Len(k.out) \in Nat /\ said.out[Len(k.out) + 1] = m
  BY <1>1, <1>2, <1>4, AppendIs
<1>6. Kept(said, gone) /\ gone \in Conn /\ Steady(gone.out, a) /\ Len(gone.out) = Len(said.out)
      /\ \A i \in 1..Len(said.out) : said.out[i].is # "bytes" => gone.out[i] = said.out[i]
  BY <1>3, DroppedFine DEF Kept
<1> HIDE DEF gone
<1>7. Ends(gone.out, a, n)
  <2>1. Len(gone.out) \in Nat /\ Len(gone.out) > 0 /\ gone.out[Len(gone.out)] = m
    <3>1. Len(k.out) + 1 \in 1..Len(said.out)
      BY <1>5
    <3>2. gone.out[Len(k.out) + 1] = m
      BY <1>1, <1>5, <1>6, <3>1
    <3> QED BY <1>5, <1>6, <3>2
  <2> QED BY <1>1, <2>1, StandsNext DEF Ends
<1>8. b \in Att /\ b.next = n
  BY DEF Attachment, Att, Modes
<1> HIDE DEF b
<1>9. there \in Conn /\ there.out = gone.out /\ there.att = b
  BY <1>6, <1>8 DEF Conn
<1>10. Kept(gone, there)
  BY <1>6, <1>9, KeptSame
<1> HIDE DEF there
<1>11. Reaches(there.out, a, there.att.next) /\ Steady(there.out, a)
  BY <1>6, <1>7, <1>8, <1>9 DEF Reaches
<1>12. ConnFine(f, a) /\ Kept(there, f) /\ ~Attached(f, {"fetching"})
  BY <1>8, <1>9, <1>11, CatchUpFine
<1> HIDE DEF f
<1>13. Answered(k, gone, r)
  BY <1>2, <1>3, <1>6, AnsweredKept
<1>14. Answered(k, there, r)
  BY <1>2, <1>10, <1>13, AnsweredKept
<1>15. Answered(k, f, r)
  BY <1>2, <1>12, <1>14, AnsweredKept
<1> QED BY <1>12, <1>15 DEF f, there, gone, said, m, b

LEMMA WaitsIs ==
  ASSUME NEW own, NEW a, NEW ans, TurnFine(hub, conn, own, a, ans), NEW w \in hub.waiting
  PROVE  /\ w.rpc \in Rpcs /\ w.conn \in Conns /\ own[w.rpc] = w.conn /\ ans[w.rpc] = 0
         /\ ~IsQueued(conn, w.rpc) /\ ~IsEarly(hub, w.rpc) /\ ~IsFetched(conn, w.rpc)
         /\ NowhereIn(Turn(Unwaited(w.rpc), conn), w.rpc)
<1> DEFINE r == w.rpc
<1>1. r \in Rpcs /\ w.conn \in Conns
  BY DEF TurnFine, HubFine, Hub, Awaited
<1>2. IsAwaited(hub, r) /\ Owed(hub, conn, r)
  BY DEF IsAwaited, Owed
<1>3. own[r] = w.conn /\ ans[r] = 0 /\ ~IsQueued(conn, r)
  BY <1>1, <1>2, OwedIs
<1>4. ~IsEarly(hub, r) /\ ~IsFetched(conn, r)
  BY <1>1, <1>2 DEF TurnFine, Once
<1>5. Unwaited(r).early = hub.early /\ ~IsAwaited(Unwaited(r), r)
      /\ Turn(Unwaited(r), conn).hub = Unwaited(r) /\ Turn(Unwaited(r), conn).conn = conn
  BY <1>1, UnwaitedFine DEF Turn
<1>6. NowhereIn(Turn(Unwaited(r), conn), r)
  BY <1>3, <1>4, <1>5 DEF NowhereIn, Nowhere, Owed, IsEarly
<1> QED BY <1>1, <1>3, <1>4, <1>6

LEMMA SnapshotAnswersFine ==
  ASSUME LogFine, NEW own, NEW a, NEW ans, TurnFine(hub, conn, own, a, ans), hub.holds,
         NEW w \in hub.waiting, NEW n \in Spot
  PROVE  TurnOk(SnapshotAnswers(w, n), own, a, ans)
<1> DEFINE r == w.rpc
           c == w.conn
           g == Unwaited(r)
           f == CatchUp([Dropped(Push(conn[c], Message("snapshot", r, n))) EXCEPT
                           !.att = Attachment(n, "following", None)], g)
<1>1. /\ r \in Rpcs /\ c \in Conns /\ own[r] = c /\ ans[r] = 0 /\ ~IsQueued(conn, r)
      /\ ~IsEarly(hub, r) /\ ~IsFetched(conn, r)
  BY WaitsIs
<1>2. SnapshotAnswers(w, n) = Turn(g, [conn EXCEPT ![c] = f])
  BY DEF SnapshotAnswers
<1> HIDE DEF r, c
<1>3. /\ HubFine(g) /\ g.holds = hub.holds /\ g.ended = hub.ended /\ g.early = hub.early
      /\ g.waiting \subseteq hub.waiting /\ ~IsAwaited(g, r)
      /\ g.head = hub.head /\ g.tail = hub.tail
  BY <1>1, UnwaitedFine
<1> HIDE DEF g
<1>4. ConnFine(conn[c], a[c]) /\ ~hub.ended /\ g.head \in Spot /\ g.tail \in Spot
  BY <1>1, <1>3 DEF TurnFine, ConnsFine, HubFine, Hub
<1>5. ConnFine(f, a[c]) /\ Answered(conn[c], f, r) /\ ~Attached(f, {"fetching"})
  BY <1>1, <1>4, SnapshotCutFine
<1> HIDE DEF f
<1>6. AnsweringOne(hub, conn, own, a, ans, g, c, f, r)
  BY <1>1, <1>3, <1>4, <1>5 DEF AnsweringOne, IsEarly
<1>7. TurnFine(g, [conn EXCEPT ![c] = f], own, a, ans)
  BY <1>6, AnswerOne
<1> QED BY <1>2, <1>7, TurnIs

LEMMA SnapshotReadyFine ==
  ASSUME LogFine, NEW own, NEW a, NEW ans, TurnFine(hub, conn, own, a, ans),
         NEW r \in Rpcs, NEW n \in Spot \cup {None}
  PROVE  TurnOk(SnapshotReady(r, n), own, a, ans)
<1> DEFINE ws == {w \in hub.waiting : w.rpc = r}
           w == CHOOSE w \in ws : TRUE
<1>1. CASE ws = {}
  <2>1. SnapshotReady(r, n) = Turn(hub, conn)
    BY <1>1 DEF SnapshotReady
  <2> QED BY <2>1, TurnIs
<1>2. CASE ws # {}
  <2>1. w \in hub.waiting /\ w.rpc = r
    BY <1>2
  <2>2. CASE n # None /\ hub.holds
    <3>1. SnapshotReady(r, n) = SnapshotAnswers(w, n)
      BY <1>2, <2>2 DEF SnapshotReady
    <3> HIDE DEF w, ws
    <3> QED BY <2>1, <2>2, <3>1, SnapshotAnswersFine
  <2>3. CASE ~(n # None /\ hub.holds)
    <3> DEFINE is == IF hub.ended /\ n = None THEN "ended" ELSE "refused"
               t == Turn(Unwaited(r), conn)
    <3>1. SnapshotReady(r, n) = Tells(t, w.conn, Message(is, r, None))
      BY <1>2, <2>3 DEF SnapshotReady
    <3>2. is \in {"refused", "ended"}
      OBVIOUS
    <3> HIDE DEF w, ws, is
    <3>3. TurnOk(t, own, a, ans)
      BY UnwaitedFine, TurnIs
    <3>4. NowhereIn(t, r) /\ own[r] = w.conn /\ w.conn \in Conns /\ ans[r] = 0
      BY <2>1, WaitsIs
    <3> HIDE DEF t
    <3>5. Proceeds(t, Tells(t, w.conn, Message(is, r, None)), own, a, ans, r)
      BY <3>2, <3>3, <3>4, TellsFine
    <3> QED BY <3>1, <3>5 DEF Proceeds
  <2> QED BY <2>2, <2>3
<1> QED BY <1>1, <1>2

--------------------
\* The session ends, is lost, is refused a fetch, or sleeps.

LEMMA SeqOfSet ==
  ASSUME NEW S, IsFiniteSet(S)
  PROVE  /\ SetToSeq(S) \in Seq(S)
         /\ \A j, l \in 1..Len(SetToSeq(S)) : SetToSeq(S)[j] = SetToSeq(S)[l] => j = l
<1> DEFINE n == Cardinality(S)
           f == CHOOSE f \in [1..n -> S] : IsInjective(f)
<1>1. n \in Nat /\ ExistsBijection(1..n, S)
  BY FS_CardinalityType
<1>2. \E g \in [1..n -> S] : IsInjective(g)
  BY <1>1 DEF ExistsBijection, Bijection, Injection
<1>3. f \in [1..n -> S] /\ IsInjective(f)
  BY <1>2
<1>4. SetToSeq(S) = f
  BY DEF SetToSeq
<1> HIDE DEF f, n
<1>5. f \in Seq(S) /\ DOMAIN f = 1..Len(f)
  BY <1>1, <1>3
<1> QED BY <1>3, <1>4, <1>5 DEF IsInjective

LEMMA CarriedConcat ==
  ASSUME NEW k \in Conn, NEW u \in Seq(Msg), NEW i \in Rpcs
  PROVE  LET f == [k EXCEPT !.out = @ \o u]
         IN  /\ f \in Conn /\ f.out = k.out \o u
             /\ (\A j \in 1..Len(u) : u[j].rpc # i) => Carried(f, i) = Carried(k, i)
             /\ Carried(k, i) = {} /\ (\A j, l \in 1..Len(u) : u[j].rpc = i /\ u[l].rpc = i => j = l)
                  => \A j, l \in Carried(f, i) : j = l
<1> DEFINE f == [k EXCEPT !.out = @ \o u]
           out == k.out
           v == out \o u
<1>1. out \in Seq(Msg) /\ f.out = v
  BY ConnFields DEF Conn
<1>2. Len(out) \in Nat /\ Len(u) \in Nat /\ Len(v) = Len(out) + Len(u) /\ v \in Seq(Msg)
      /\ (\A j \in 1..Len(out) : v[j] = out[j]) /\ \A j \in 1..Len(u) : v[Len(out) + j] = u[j]
  BY <1>1, ConcatIs
<1>3. f \in Conn
  <2> HIDE DEF v
  <2> QED BY <1>1, <1>2, ConnFields DEF v
<1>4. DOMAIN out = 1..Len(out) /\ DOMAIN v = 1..Len(v)
  BY <1>1, <1>2
<1>5. Carried(f, i) = {j \in 1..Len(v) : v[j].rpc = i} /\ Carried(k, i) = {j \in 1..Len(out) : out[j].rpc = i}
  BY <1>1, <1>4 DEF Carried
<1> HIDE DEF v, out, f
<1>6. ASSUME NEW j \in 1..Len(v), j \notin 1..Len(out)
      PROVE  j - Len(out) \in 1..Len(u) /\ v[j] = u[j - Len(out)]
  <2>1. j - Len(out) \in 1..Len(u) /\ j = Len(out) + (j - Len(out))
    BY <1>2, <1>6
  <2> QED BY <1>2, <2>1, Zenon
<1>7. \A j \in 1..Len(out) : j \in 1..Len(v) /\ v[j] = out[j]
  BY <1>2
<1>8. ASSUME \A j \in 1..Len(u) : u[j].rpc # i
      PROVE  Carried(f, i) = Carried(k, i)
  <2>1. \A j \in 1..Len(v) : v[j].rpc = i => j \in 1..Len(out)
    BY <1>6, <1>8
  <2> QED BY <1>5, <1>7, <2>1
<1>9. ASSUME Carried(k, i) = {}, \A j, l \in 1..Len(u) : u[j].rpc = i /\ u[l].rpc = i => j = l,
             NEW j \in Carried(f, i), NEW l \in Carried(f, i)
      PROVE  j = l
  <2>1. j \in 1..Len(v) /\ l \in 1..Len(v) /\ j \notin 1..Len(out) /\ l \notin 1..Len(out)
        /\ v[j].rpc = i /\ v[l].rpc = i
    BY <1>5, <1>7, <1>9
  <2>2. j - Len(out) = l - Len(out)
    BY <1>6, <1>9, <2>1
  <2> QED BY <1>2, <2>1, <2>2
<1> QED BY <1>1, <1>3, <1>8, <1>9 DEF f, v, out

LEMMA EndedFine ==
  ASSUME NEW k, NEW a, ConnFine(k, a), NEW O \in SUBSET Rpcs, NEW e \in {<<>>, <<Note("exit")>>}
  PROVE  LET f == Ending(k, O, e)
         IN  /\ ConnFine(f, a) /\ f.att = None
             /\ \A i \in Rpcs : i \notin O => Carried(f, i) = Carried(k, i)
             /\ \A i \in O : Carried(k, i) = {} => \A j, l \in Carried(f, i) : j = l
<1> DEFINE M == {Message("ended", i, None) : i \in O}
           ended == SetToSeq(M)
           f == Ending(k, O, e)
<1>21. f = [k EXCEPT !.att = None, !.out = @ \o ended \o e]
  BY DEF Ending
<1>1. k \in Conn /\ k.out \in Seq(Msg) /\ Steady(k.out, a)
  BY ConnFields DEF ConnFine
<1>2. \A m \in M : m \in Msg /\ m.is = "ended" /\ m.rpc \in O /\ m = Message("ended", m.rpc, None)
  <2> SUFFICES ASSUME NEW i \in O
               PROVE  LET m == Message("ended", i, None)
                      IN  m \in Msg /\ m.is = "ended" /\ m.rpc \in O /\ m = Message("ended", m.rpc, None)
    OBVIOUS
  <2> QED BY MessageIs
<1>3. IsFiniteSet(M)
  <2> DEFINE g == [i \in O |-> Message("ended", i, None)]
  <2>1. IsFiniteSet(O)
    <3>1. IsFiniteSet(Rpcs)
      BY FS_Interval, NoneIsNot DEF Rpcs
    <3> QED BY <3>1, FS_Subset
  <2>2. g \in Surjection(O, M)
    BY DEF Surjection
  <2> HIDE DEF g, M
  <2> QED BY <2>1, <2>2, FS_Surjection
<1> HIDE DEF M, f
<1>4. ended \in Seq(M) /\ \A j, l \in 1..Len(ended) : ended[j] = ended[l] => j = l
  BY <1>3, SeqOfSet
<1> HIDE DEF ended
<1>5. \A j \in 1..Len(ended) : ended[j] \in M
  BY <1>4
<1>6. ended \in Seq(Msg) /\ \A j \in 1..Len(ended) : /\ ended[j].is = "ended" /\ ended[j].rpc \in O
                                                     /\ ended[j] = Message("ended", ended[j].rpc, None)
  <2>1. M \subseteq Msg
    BY <1>2
  <2>2. ended \in Seq(Msg)
    BY <1>4, <2>1
  <2> QED BY <1>2, <1>5, <2>2
<1> DEFINE note == Note("exit")
<1>7. note \in Msg /\ note.is = "exit" /\ note.rpc = None
  BY NoteIs
<1>8. e \in Seq(Msg) /\ \A j \in 1..Len(e) : e[j].is = "exit" /\ e[j].rpc = None
  <2>1. CASE e = <<>>
    BY <2>1
  <2>2. CASE e = <<note>>
    <3> HIDE DEF note
    <3> QED BY <1>7, <2>2, OneIs
  <2> QED BY <2>1, <2>2
<1> DEFINE g == [k EXCEPT !.att = None]
           g1 == [g EXCEPT !.out = @ \o ended]
<1>9. g \in Conn /\ g.att = None /\ g.out = k.out
  BY <1>1 DEF Conn
<1>10. f = [g1 EXCEPT !.out = @ \o e]
  BY <1>1, <1>21 DEF Conn
<1>11. \A i \in Rpcs : Carried(g, i) = Carried(k, i)
  BY <1>9 DEF Carried
<1> HIDE DEF g, note
<1>12. g1 \in Conn /\ g1.out = k.out \o ended /\ g1.att = None
  <2>1. k.out \o ended \in Seq(Msg)
    BY <1>1, <1>6, ConcatIs
  <2> QED BY <1>9, <2>1 DEF Conn
<1>13. ASSUME NEW i \in Rpcs
       PROVE  /\ i \notin O => Carried(g1, i) = Carried(g, i)
              /\ Carried(g, i) = {} => \A j, l \in Carried(g1, i) : j = l
  <2>1. i \notin O => \A j \in 1..Len(ended) : ended[j].rpc # i
    BY <1>6
  <2>2. \A j, l \in 1..Len(ended) : ended[j].rpc = i /\ ended[l].rpc = i => j = l
    BY <1>4, <1>6
  <2> QED BY <1>6, <1>9, <2>1, <2>2, CarriedConcat
<1> HIDE DEF g1
<1>14. f \in Conn /\ f.out = g1.out \o e /\ f.att = None
  <2>1. g1.out \o e \in Seq(Msg)
    BY <1>12, <1>8, ConnFields, ConcatIs
  <2> QED BY <1>10, <1>12, <2>1 DEF Conn
<1>15. ASSUME NEW i \in Rpcs PROVE Carried(f, i) = Carried(g1, i)
  <2>1. \A j \in 1..Len(e) : e[j].rpc # i
    BY <1>8, NoneIsNot
  <2> QED BY <1>8, <1>10, <1>12, <2>1, CarriedConcat
<1>16. Steady(g1.out, a)
  BY <1>1, <1>6, <1>12, SteadyMore
<1>17. Steady(f.out, a)
  <2>1. g1.out \in Seq(Msg)
    BY <1>12, ConnFields
  <2> QED BY <1>8, <1>14, <1>16, <2>1, SteadyMore
<1>18. ConnFine(f, a)
  BY <1>14, <1>17, UnattachedFine
<1>19. \A i \in Rpcs : i \notin O => Carried(f, i) = Carried(k, i)
  BY <1>11, <1>13, <1>15
<1>20. \A i \in O : Carried(k, i) = {} => \A j, l \in Carried(f, i) : j = l
  BY <1>11, <1>13, <1>15
<1> QED BY <1>14, <1>18, <1>19, <1>20 DEF f

LEMMA ClosedFine ==
  ASSUME LogFine, NEW own, NEW a, NEW ans, TurnFine(hub, conn, own, a, ans)
  PROVE  TurnOk(Closed, own, a, ans)
<1> DEFINE O(c) == {w.rpc : w \in {x \in hub.early \cup hub.waiting : x.conn = c}}
                     \cup (IF Attached(conn[c], {"fetching"}) THEN {conn[c].att.rpc} ELSE {})
           e(c) == IF conn[c].att = None THEN <<Note("exit")>> ELSE <<>>
           f(c) == Ending(conn[c], O(c), e(c))
           fs == [c \in Conns |-> f(c)]
           g == [hub EXCEPT !.holds = FALSE, !.ended = TRUE, !.live = FALSE, !.fetch = None,
                            !.early = {}, !.waiting = {}]
           R == {i \in Rpcs : \E c \in Conns : i \in O(c)}
<1>1. Closed = Turn(g, fs)
  BY DEF Closed, Ending
<1>2. hub \in Hub /\ hub.tail <= hub.head /\ \A c \in Conns : ConnFine(conn[c], a[c])
  BY DEF TurnFine, HubFine, ConnsFine
<1>3. HubFine(g) /\ g.early = {} /\ g.waiting = {}
  <2>1. /\ g \in Hub /\ g.early = {} /\ g.waiting = {} /\ ~g.holds /\ g.tail = hub.tail
        /\ g.head = hub.head
    BY <1>2 DEF Hub
  <2> HIDE DEF g
  <2> QED BY <1>2, <2>1 DEF HubFine
<1> HIDE DEF g
<1>4. ASSUME NEW c \in Conns, NEW i \in O(c)
      PROVE  i \in Rpcs /\ own[i] = c /\ ans[i] = 0 /\ ~IsQueued(conn, i)
  <2>1. CASE Attached(conn[c], {"fetching"}) /\ i = conn[c].att.rpc
    <3>1. i \in Rpcs /\ own[i] = c /\ Owed(hub, conn, i)
      BY <2>1 DEF TurnFine, Owners, Owed, IsFetched
    <3> QED BY <3>1, OwedIs
  <2>2. CASE \E w \in hub.early \cup hub.waiting : w.conn = c /\ i = w.rpc
    <3>1. PICK w \in hub.early \cup hub.waiting : w.conn = c /\ i = w.rpc
      BY <2>2
    <3>2. i \in Rpcs /\ own[i] = c /\ Owed(hub, conn, i)
      BY <1>2, <3>1 DEF TurnFine, Owners, Owed, IsEarly, IsAwaited, Hub, Pending, Awaited
    <3> QED BY <3>2, OwedIs
  <2> QED BY <1>4, <2>1, <2>2
<1>5. \A c \in Conns : O(c) \in SUBSET Rpcs /\ e(c) \in {<<>>, <<Note("exit")>>}
  BY <1>4
<1> HIDE DEF O, e
<1>6. ASSUME NEW c \in Conns
      PROVE  /\ ConnFine(f(c), a[c]) /\ f(c).att = None /\ f(c) \in Conn
             /\ \A i \in Rpcs : i \notin O(c) => Carried(f(c), i) = Carried(conn[c], i)
             /\ \A i \in O(c) : Carried(conn[c], i) = {} => \A j, l \in Carried(f(c), i) : j = l
  <2> DEFINE k == conn[c]
             o == O(c)
             d == e(c)
             b == a[c]
  <2>1. o \in SUBSET Rpcs /\ d \in {<<>>, <<Note("exit")>>} /\ ConnFine(k, b)
    BY <1>2, <1>5
  <2> HIDE DEF k, o, d, b
  <2> DEFINE v == Ending(k, o, d)
  <2>2. /\ ConnFine(v, b) /\ v.att = None
        /\ \A i \in Rpcs : i \notin o => Carried(v, i) = Carried(k, i)
        /\ \A i \in o : Carried(k, i) = {} => \A j, l \in Carried(v, i) : j = l
    BY <2>1, EndedFine
  <2>3. v \in Conn
    BY <2>2 DEF ConnFine
  <2> QED BY <2>2, <2>3 DEF k, o, d, b
<1> HIDE DEF f
<1>7. \A c \in Conns : fs[c] = f(c)
  OBVIOUS
<1>8. ConnsFine(fs, a)
  <2>1. fs \in [Conns -> Conn]
    BY <1>6
  <2> QED BY <1>6, <2>1 DEF ConnsFine
<1> HIDE DEF fs
<1>9. \A c \in Conns : ~Attached(fs[c], Modes) /\ ~Attached(fs[c], {"fetching"})
  BY <1>6, <1>7 DEF Attached
<1>10. \A i : ~Owed(g, fs, i)
  BY <1>3, <1>9 DEF Owed, IsEarly, IsAwaited, IsFetched
<1>11. \A i \in R : i \in Rpcs /\ own[i] \in Conns /\ i \in O(own[i]) /\ ans[i] = 0 /\ ~IsQueued(conn, i)
  BY <1>4
<1>12. \A c \in Conns, i \in Rpcs : i \in R /\ own[i] = c => \A j, l \in Carried(fs[c], i) : j = l
  BY <1>6, <1>7, <1>11 DEF IsQueued
<1>13. \A c \in Conns, i \in Rpcs : ~(i \in R /\ own[i] = c) => Carried(fs[c], i) = Carried(conn[c], i)
  BY <1>4, <1>6, <1>7
<1>14. R \subseteq Rpcs
  OBVIOUS
<1> HIDE DEF R
<1>15. Answering(hub, conn, own, a, ans, g, fs, R)
  BY <1>3, <1>8, <1>9, <1>10, <1>11, <1>12, <1>13, <1>14 DEF Answering
<1>16. TurnFine(g, fs, own, a, ans)
  BY <1>15, AnsweringTurn
<1> QED BY <1>1, <1>16, TurnIs

LEMMA LosesFine ==
  ASSUME NEW own, NEW a, NEW ans, TurnFine(hub, conn, own, a, ans)
  PROVE  TurnOk(Loses, own, a, ans)
<1> DEFINE f(c) == IF conn[c].att = None THEN conn[c] ELSE Push(Dropped(conn[c]), Note("resync"))
           fs == [c \in Conns |-> f(c)]
           g == [hub EXCEPT !.live = FALSE]
<1>1. Loses = Turn(g, fs)
  BY DEF Loses
<1>2. hub \in Hub /\ hub.tail <= hub.head /\ (hub.ended => ~hub.holds)
      /\ conn \in [Conns -> Conn] /\ \A c \in Conns : ConnFine(conn[c], a[c])
  BY DEF TurnFine, HubFine, ConnsFine
<1>3. HubFine(g) /\ g.early = hub.early /\ g.waiting = hub.waiting
  <2>1. /\ g \in Hub /\ g.early = hub.early /\ g.waiting = hub.waiting /\ g.holds = hub.holds
        /\ g.tail = hub.tail /\ g.head = hub.head /\ g.ended = hub.ended
    BY <1>2 DEF Hub
  <2> HIDE DEF g
  <2> QED BY <1>2, <2>1 DEF HubFine
<1> HIDE DEF g
<1>4. ASSUME NEW c \in Conns
      PROVE  f(c) \in Conn /\ ConnFine(f(c), a[c]) /\ ~Attached(f(c), Modes) /\ Quiet(conn[c], f(c))
  <2>1. CASE conn[c].att = None
    BY <1>2, <2>1 DEF Attached, Quiet
  <2>2. CASE conn[c].att # None
    <3> DEFINE k == conn[c]
               d == Dropped(k)
               v == Push(d, Note("resync"))
    <3>1. k \in Conn /\ Steady(k.out, a[c])
      BY <1>2 DEF ConnFine
    <3> HIDE DEF k
    <3>2. Kept(k, d) /\ d.att = None /\ Steady(d.out, a[c]) /\ d \in Conn
      BY <3>1, DroppedFine DEF Kept
    <3> HIDE DEF d
    <3>3. d = [d EXCEPT !.att = None]
      BY <3>2 DEF Conn
    <3>4. ConnFine(v, a[c]) /\ Kept(d, v) /\ ~Attached(v, Modes)
      BY <3>2, <3>3, LostFine
    <3> HIDE DEF v
    <3>5. Quiet(k, v)
      BY <3>1, <3>2, <3>4, KeptTwice, KeptQuiet, Modal
    <3>6. f(c) = v
      BY <2>2 DEF v, d, k
    <3> HIDE DEF f
    <3> QED BY <3>4, <3>5, <3>6 DEF ConnFine, k
  <2> QED BY <2>1, <2>2
<1> HIDE DEF f
<1>5. \A c \in Conns : fs[c] = f(c)
  OBVIOUS
<1>6. ConnsFine(fs, a)
  <2>1. fs \in [Conns -> Conn]
    BY <1>4
  <2> QED BY <1>4, <2>1 DEF ConnsFine
<1> HIDE DEF fs
<1>7. \A c \in Conns : ~Attached(fs[c], Modes) /\ Quiet(conn[c], fs[c])
  BY <1>4, <1>5
<1>8. TurnFine(g, fs, own, a, ans)
  BY <1>3, <1>6, <1>7, QuietTurn
<1> QED BY <1>1, <1>8, TurnIs

LEMMA FetchRefusedFine ==
  ASSUME NEW own, NEW a, NEW ans, TurnFine(hub, conn, own, a, ans), hub.holds
  PROVE  TurnOk(FetchRefused, own, a, ans)
<1> DEFINE f(c) == IF c \in Fetching THEN [conn[c] EXCEPT !.att = None] ELSE conn[c]
           fs == [c \in Conns |-> f(c)]
           refused == {[rpc |-> conn[c].att.rpc, conn |-> c] : c \in Fetching}
           g == [hub EXCEPT !.fetch = None, !.waiting = @ \cup refused]
           R == {w.rpc : w \in refused}
           s == FetchRefused
<1>1. hub \in Hub /\ hub.tail <= hub.head /\ ~hub.ended
      /\ conn \in [Conns -> Conn] /\ \A c \in Conns : ConnFine(conn[c], a[c]) /\ conn[c] \in Conn
  BY DEF TurnFine, HubFine, ConnsFine, ConnFine
<1>2. ASSUME NEW c \in Conns, Attached(conn[c], {"fetching"})
      PROVE  LET i == conn[c].att.rpc
             IN  /\ i \in Rpcs /\ own[i] = c /\ ans[i] = 0 /\ ~IsQueued(conn, i)
                 /\ ~IsEarly(hub, i) /\ ~IsAwaited(hub, i)
  <2> DEFINE i == conn[c].att.rpc
  <2>1. i \in Rpcs /\ own[i] = c /\ IsFetched(conn, i) /\ Owed(hub, conn, i)
    BY <1>2 DEF TurnFine, Owners, IsFetched, Owed
  <2>2. Once(hub, conn, ans, i)
    BY <2>1 DEF TurnFine
  <2> QED BY <2>1, <2>2 DEF Once
<1>3. refused \subseteq Awaited /\ \A w \in refused : w.rpc \in R /\ own[w.rpc] = w.conn
  BY <1>2 DEF Fetching, Awaited
<1>4. /\ R \subseteq Rpcs
      /\ \A i \in R : ans[i] = 0 /\ ~IsQueued(conn, i) /\ ~IsEarly(hub, i) /\ i \in Rpcs
  BY <1>2 DEF Fetching
<1>5. ASSUME NEW c \in Conns
      PROVE  /\ f(c) \in Conn /\ ConnFine(f(c), a[c]) /\ ~Attached(f(c), {"fetching"})
             /\ f(c).out = conn[c].out
  <2>1. CASE c \in Fetching
    <3> DEFINE k == [conn[c] EXCEPT !.att = None]
    <3>1. k \in Conn /\ k.out = conn[c].out /\ k.att = None
      BY <1>1 DEF Conn
    <3>2. Steady(k.out, a[c])
      BY <1>1, <3>1 DEF ConnFine
    <3>3. f(c) = k
      BY <2>1
    <3> HIDE DEF k, f
    <3>4. ConnFine(k, a[c]) /\ ~Attached(k, Modes)
      BY <3>1, <3>2, UnattachedFine
    <3> QED BY <3>1, <3>3, <3>4, Modal
  <2>2. CASE c \notin Fetching
    BY <1>1, <2>2 DEF Fetching
  <2> QED BY <2>1, <2>2
<1>6. fs \in [Conns -> Conn] /\ \A c \in Conns : fs[c] = f(c)
  BY <1>5
<1>7. s = [hub |-> g, conn |-> fs, asks |-> SetToSeq(R), fetches |-> <<>>]
  <2> DEFINE left == Turn([hub EXCEPT !.fetch = None], fs)
  <2>1. s = [left EXCEPT !.hub.waiting = @ \cup refused, !.asks = SetToSeq(R)]
    BY DEF FetchRefused
  <2>2. g = [[hub EXCEPT !.fetch = None] EXCEPT !.waiting = @ \cup refused]
    BY <1>1 DEF Hub
  <2> HIDE DEF s, fs, refused, R, g
  <2> QED BY <2>1, <2>2 DEF Turn
<1>8. SetToSeq(R) \in Seq(Rpcs)
  <2>1. IsFiniteSet(Rpcs)
    BY FS_Interval, NoneIsNot DEF Rpcs
  <2>2. IsFiniteSet(R)
    <3> HIDE DEF R
    <3> QED BY <1>4, <2>1, FS_Subset
  <2> HIDE DEF R
  <2>3. SetToSeq(R) \in Seq(R)
    BY <2>2, SeqOfSet
  <2> QED BY <1>4, <2>3
<1> HIDE DEF refused, f
<1>9. /\ g \in Hub /\ g.waiting = hub.waiting \cup refused /\ g.early = hub.early
      /\ g.ended = hub.ended /\ g.tail = hub.tail /\ g.head = hub.head
  BY <1>1, <1>3 DEF Hub
<1> HIDE DEF g, s, fs, R
<1>10. HubFine(g) /\ ~g.ended
  BY <1>1, <1>9 DEF HubFine
<1>11. ConnsFine(fs, a)
  BY <1>5, <1>6 DEF ConnsFine
<1>12. \A c \in Conns : ~Attached(fs[c], {"fetching"})
  BY <1>5, <1>6
<1>13. \A c \in Conns, i \in Rpcs : Carried(fs[c], i) = Carried(conn[c], i)
  BY <1>5, <1>6 DEF Carried
<1>14. \A i \in R : ~IsEarly(g, i) /\ ~IsFetched(fs, i)
  BY <1>4, <1>9, <1>12 DEF IsEarly, IsFetched
<1>15. Owing(hub, conn, own, a, ans, g, fs, R)
  BY <1>3, <1>4, <1>9, <1>10, <1>11, <1>12, <1>13, <1>14 DEF Owing
<1>16. TurnFine(g, fs, own, a, ans)
  BY <1>15, OwingTurn
<1>17. s.hub = g /\ s.conn = fs /\ s \in Turns
  BY <1>6, <1>7, <1>8, <1>9 DEF Turns
<1>18. TurnOk(s, own, a, ans)
  BY <1>16, <1>17 DEF TurnOk
<1> QED BY <1>18 DEF s

LEMMA SleepsFine ==
  ASSUME NEW own, NEW a, NEW ans, TurnFine(hub, conn, own, a, ans)
  PROVE  TurnOk(Sleeps, own, a, ans)
<1> DEFINE idle == hub.early = {} /\ hub.fetch = None /\ \A c \in Conns : conn[c].att = None
           g == IF idle THEN [hub EXCEPT !.tail = hub.head] ELSE hub
<1>1. Sleeps = Turn(g, conn)
  BY DEF Sleeps
<1>2. hub \in Hub /\ hub.tail <= hub.head /\ (hub.ended => ~hub.holds) /\ HubFine(hub)
  BY DEF TurnFine, HubFine
<1>3. HubFine(g) /\ g.early = hub.early /\ g.waiting = hub.waiting /\ g.ended = hub.ended
  <2>1. CASE idle
    <3> HIDE DEF idle
    <3>1. /\ g \in Hub /\ g.early = hub.early /\ g.waiting = hub.waiting /\ g.holds = hub.holds
          /\ g.tail = hub.head /\ g.head = hub.head /\ g.ended = hub.ended /\ hub.head \in Int
      BY <1>2, <2>1 DEF Hub, Spot
    <3> HIDE DEF g
    <3> QED BY <1>2, <3>1 DEF HubFine
  <2>2. CASE ~idle
    BY <1>2, <2>2
  <2> QED BY <2>1, <2>2
<1> HIDE DEF g
<1>4. ConnsFine(conn, a) /\ (g.ended => \A c \in Conns : ~Attached(conn[c], Modes))
  BY <1>3 DEF TurnFine
<1>5. \A c \in Conns : Quiet(conn[c], conn[c])
  BY DEF Quiet
<1>6. TurnFine(g, conn, own, a, ans)
  BY <1>3, <1>4, <1>5, QuietTurn
<1> QED BY <1>1, <1>6, TurnIs

--------------------
\* The invariant of the specification.

LEMMA LaterSpots ==
  ASSUME Later
  PROVE  /\ Spot \subseteq Spot' /\ Len(log) \in Nat /\ Len(log') \in Nat /\ Len(log) <= Len(log')
         /\ Msg \subseteq Msg' /\ Att \subseteq Att' /\ Pending \subseteq Pending'
<1>1. Len(log) \in Nat /\ Len(log') \in Nat /\ Len(log) <= Len(log')
  BY DEF Later, LogFine
<1>2. Spot \subseteq Spot'
  BY <1>1 DEF Spot
<1>3. Msg \subseteq Msg'
  BY <1>1, <1>2 DEF Msg
<1>4. Att \subseteq Att' /\ Pending \subseteq Pending'
  BY <1>2 DEF Att, Pending
<1> QED BY <1>1, <1>2, <1>3, <1>4

LEMMA LaterConns ==
  ASSUME Later
  PROVE  Conn \subseteq Conn' /\ Hub \subseteq Hub' /\ Actor \subseteq Actor'
<1>1. Spot \subseteq Spot' /\ Msg \subseteq Msg' /\ Att \subseteq Att' /\ Pending \subseteq Pending'
  BY LaterSpots
<1>2. Seq(Msg) \subseteq Seq(Msg')
  BY <1>1
<1>3. Conn \subseteq Conn'
  BY <1>1, <1>2 DEF Conn
<1>4. Hub \subseteq Hub'
  BY <1>1 DEF Hub
<1>5. Actor \subseteq Actor'
  BY <1>1 DEF Actor
<1> QED BY <1>3, <1>4, <1>5

LEMMA LaterLanes ==
  ASSUME Later
  PROVE  /\ Seq(Spot) \subseteq Seq(Spot') /\ Seq(FromSessiond) \subseteq Seq(FromSessiond')
         /\ Seq(ToSessiond) \subseteq Seq(ToSessiond') /\ Seq(Said) \subseteq Seq(Said')
<1>1. Spot \subseteq Spot'
  BY LaterSpots
<1>2. Seq(Spot) \subseteq Seq(Spot')
  BY <1>1
<1>3. FromSessiond \subseteq FromSessiond' /\ ToSessiond \subseteq ToSessiond' /\ Said \subseteq Said'
  BY <1>1 DEF FromSessiond, ToSessiond, Said
<1>4. \A S, T : S \subseteq T => Seq(S) \subseteq Seq(T)
  OBVIOUS
<1> QED BY <1>2, <1>3, <1>4

LEMMA LaterTurn ==
  ASSUME Later, TurnFine(hub', conn', rpcs', at', answers')
  PROVE  TurnFine(hub, conn, rpcs, at, answers)'
<1>1. HubFine(hub)'
  BY LaterConns DEF TurnFine, HubFine
<1>2. ConnsFine(conn, at)'
  <2>1. conn' \in [Conns -> Conn']
    BY LaterConns DEF TurnFine, ConnsFine
  <2>2. ASSUME NEW c \in Conns PROVE ConnFine(conn[c], at[c])'
    <3>1. ConnFine(conn'[c], at'[c])
      BY DEF TurnFine, ConnsFine
    <3>2. Attached(conn'[c], {"following", "behind"})
            => Reaches(conn'[c].out, at'[c], conn'[c].att.next)
      BY <3>1 DEF ConnFine
    <3>3. Attached(conn'[c], {"following", "behind"})
            => Reaches(conn[c].out, at[c], conn[c].att.next)'
      <4>1. CASE Attached(conn'[c], {"following", "behind"}) /\ Ends(conn'[c].out, at'[c], conn'[c].att.next)
        BY <4>1 DEF Reaches
      <4>2. CASE Attached(conn'[c], {"following", "behind"}) /\ conn'[c].att.next = Len(log) /\ Ended
        <5>1. log' = log
          BY <4>2 DEF Later
        <5> QED BY <4>2, <5>1 DEF Reaches, Ended
      <4> QED BY <3>2, <4>1, <4>2 DEF Reaches
    <3>4. conn'[c] \in Conn' /\ Steady(conn'[c].out, at'[c]) /\ Woken(conn'[c])
      BY <3>1, LaterConns DEF ConnFine
    <3> QED BY <3>3, <3>4 DEF ConnFine, Steady, Woken
  <2> QED BY <2>1, <2>2 DEF ConnsFine
<1>3. Owners(hub, conn, rpcs)'
  BY DEF TurnFine
<1>4. \A i \in Rpcs : Once(hub, conn, answers, i)'
  BY DEF TurnFine
<1>5. hub'.ended => \A c \in Conns : ~Attached(conn'[c], Modes)
  BY DEF TurnFine
<1> QED BY <1>1, <1>2, <1>3, <1>4, <1>5 DEF TurnFine

\* What a step leaves is judged by the log it leaves.
LEMMA StepsOn ==
  ASSUME Later,
         LanesFine(toV', toS', commands', outs'), PlacesFine(oldest', pump', actor', seen'),
         ClientsFine(rpcs', at', answers'), FlagsFine(repumping', linked', stalled', torn'),
         TurnFine(hub', conn', rpcs', at', answers')
  PROVE  StreamsInv'
<1>1. LanesFine(toV, toS, commands, outs)'
  BY LaterLanes DEF LanesFine
<1>2. PlacesFine(oldest, pump, actor, seen)'
  BY LaterSpots, LaterConns DEF PlacesFine
<1>3. ClientsFine(rpcs, at, answers)'
  <2>1. Spot \subseteq Spot'
    BY LaterSpots
  <2> QED BY <2>1 DEF ClientsFine
<1>4. TurnFine(hub, conn, rpcs, at, answers)'
  BY LaterTurn
<1> QED BY <1>1, <1>2, <1>3, <1>4 DEF StreamsInv, Later, FlagsFine

LEMMA Stays ==
  ASSUME LogFine, log' = log
  PROVE  Later
BY DEF Later, LogFine

--------------------
\* The program, sessiond and the actor.

LEMMA InvIs ==
  ASSUME StreamsInv
  PROVE  /\ Len(log) \in Nat /\ oldest \in Spot /\ actor \in Actor /\ actor.at \in Spot
         /\ actor.live_at \in Spot /\ actor.live \in BOOLEAN /\ actor.held \in Seq(Rpcs)
         /\ hub.head \in Spot /\ hub.tail \in Spot
         /\ toV \in Seq(FromSessiond) /\ toS \in Seq(ToSessiond) /\ commands \in Seq(Spot)
         /\ outs \in Seq(Said)
BY LogIs DEF StreamsInv, PlacesFine, LanesFine, Actor, TurnFine, HubFine, Hub

LEMMA SaidIs ==
  ASSUME NEW m \in Said
  PROVE  /\ m.is = "applied" => m.lo \in Spot /\ m.hi \in Spot /\ m.lo < m.hi
         /\ m.is = "live" => m.at \in Spot
         /\ m.is = "snapshot" => m.rpc \in Rpcs /\ m.at \in Spot \cup {None}
BY DEF Said

LEMMA FromSessiondIs ==
  ASSUME NEW m \in FromSessiond
  PROVE  /\ m.is = "entries" => m.lo \in Spot /\ m.hi \in Spot /\ m.lo < m.hi
         /\ m.is = "checkpoint" => m.at \in Spot
BY DEF FromSessiond

LEMMA EntriesIs ==
  ASSUME NEW lo \in Spot, NEW hi \in Spot
  PROVE  Entries(lo, hi) \in Seq(FromSessiond)
<1>1. CASE lo < hi
  <2>1. [is |-> "entries", lo |-> lo, hi |-> hi] \in FromSessiond
    BY <1>1 DEF FromSessiond
  <2> QED BY <1>1, <2>1 DEF Entries
<1>2. CASE ~(lo < hi)
  BY <1>2 DEF Entries
<1> QED BY <1>1, <1>2

LEMMA SnapshotsIs ==
  ASSUME NEW s \in Seq(Rpcs), NEW n \in Spot \cup {None}
  PROVE  Snapshots(s, n) \in Seq(Said)
<1>1. \A i \in 1..Len(s) : [is |-> "snapshot", rpc |-> s[i], at |-> n] \in Said
  BY DEF Said
<1>2. DOMAIN s = 1..Len(s) /\ Len(s) \in Nat
  OBVIOUS
<1> QED BY <1>1, <1>2 DEF Snapshots

LEMMA PrintsFine ==
  ASSUME StreamsInv, Prints
  PROVE  StreamsInv'
<1>1. PICK kind \in {"data", "gap", "exit"} : log' = Append(log, kind)
  BY DEF Prints
<1>2. LogFine /\ ~Ended /\ log \in Seq({"data", "gap", "exit"})
  BY DEF StreamsInv, Prints, LogFine
<1>3. log' \in Seq({"data", "gap", "exit"}) /\ Len(log') = Len(log) + 1 /\ Len(log) \in Nat
      /\ \A i \in 1..Len(log) : log'[i] = log[i]
  BY <1>1, <1>2
<1>4. ASSUME NEW i \in 1..Len(log') - 1 PROVE log'[i] # "exit"
  <2>1. i \in 1..Len(log) /\ log'[i] = log[i]
    BY <1>3
  <2>2. CASE i = Len(log)
    BY <1>2, <1>3, <2>1, <2>2 DEF Ended, Last
  <2>3. CASE i # Len(log)
    <3>1. i \in 1..Len(log) - 1
      BY <1>3, <2>1, <2>3
    <3> QED BY <1>2, <2>1, <3>1 DEF LogFine
  <2> QED BY <2>2, <2>3
<1>5. LogFine'
  BY <1>3, <1>4 DEF LogFine
<1>6. Later
  BY <1>2, <1>3, <1>5 DEF Later
<1> QED BY <1>6, StepsOn DEF StreamsInv, Prints, laneVars, clientVars

LEMMA TrimsFine ==
  ASSUME StreamsInv, Trims
  PROVE  StreamsInv'
<1>1. PICK n \in oldest + 1..actor.at : oldest' = n
  BY DEF Trims
<1>2. n \in Spot
  BY <1>1, InvIs DEF Spot
<1>3. Later
  BY Stays DEF StreamsInv, Trims
<1>4. PlacesFine(oldest', pump', actor', seen')
  BY <1>1, <1>2 DEF StreamsInv, PlacesFine, Trims, clientVars
<1> QED BY <1>3, <1>4, StepsOn DEF StreamsInv, Trims, laneVars, clientVars

LEMMA ServesAttachFine ==
  ASSUME StreamsInv, ServesAttach
  PROVE  StreamsInv'
<1> DEFINE m == Head(toS)
<1>1. m \in ToSessiond /\ toS' \in Seq(ToSessiond) /\ toV \in Seq(FromSessiond)
  BY InvIs, TailIs DEF ServesAttach
<1>2. Len(log) \in Spot /\ oldest \in Spot
  BY InvIs DEF Spot
<1>3. (m.is = "newest" \/ m.is = "cursor") /\ (m.is = "cursor" => m.at \in Spot)
  BY <1>1 DEF ToSessiond
<1> HIDE DEF m
<1>4. <<Checkpoint>> \in Seq(FromSessiond) /\ [is |-> "refused"] \in FromSessiond
  BY <1>2 DEF Checkpoint, FromSessiond
<1>5. toV' \in Seq(FromSessiond) /\ pump' \in Spot \cup {None}
  <2>1. CASE m.is = "newest"
    <3>1. toV' = toV \o <<Checkpoint>> \o Entries(oldest, Len(log)) /\ pump' = Len(log)
      BY <2>1 DEF ServesAttach, m
    <3> DEFINE w == toV \o <<Checkpoint>>
               e == Entries(oldest, Len(log))
    <3>2. w \in Seq(FromSessiond)
      BY <1>1, <1>4, ConcatIs
    <3>3. e \in Seq(FromSessiond)
      BY <1>2, EntriesIs
    <3>4. toV' = w \o e
      BY <3>1
    <3> HIDE DEF w, e
    <3>5. w \o e \in Seq(FromSessiond)
      BY <3>2, <3>3, ConcatIs
    <3>6. pump' \in Spot \cup {None}
      BY <1>2, <3>1
    <3> QED BY <3>4, <3>5, <3>6
  <2>2. CASE m.is = "cursor" /\ m.at < oldest
    <3>1. toV' = Append(toV, [is |-> "refused"]) /\ pump' = None
      <4>1. m.is = "cursor" /\ m.is # "newest" /\ m.at < oldest /\ ~(m.at >= oldest)
        BY <1>2, <1>3, <2>2 DEF Spot
      <4> QED BY <4>1 DEF ServesAttach, m
    <3> QED BY <1>1, <1>4, <3>1, AppendIs
  <2>3. CASE m.is = "cursor" /\ m.at >= oldest
    <3>1. toV' = toV \o Entries(m.at, Len(log)) /\ pump' = Len(log)
      <4>1. ~(m.at < oldest)
        BY <1>2, <1>3, <2>3 DEF Spot
      <4> QED BY <2>3, <4>1 DEF ServesAttach, m
    <3> QED BY <1>1, <1>2, <1>3, <2>3, <3>1, EntriesIs, ConcatIs
  <2>4. m.is = "cursor" => m.at < oldest \/ m.at >= oldest
    BY <1>2, <1>3, InvIs DEF Spot
  <2> QED BY <1>3, <2>1, <2>2, <2>3, <2>4
<1>6. Later
  BY Stays DEF StreamsInv, ServesAttach
<1>7. LanesFine(toV', toS', commands', outs')
  BY <1>1, <1>5 DEF StreamsInv, LanesFine, ServesAttach
<1>8. PlacesFine(oldest', pump', actor', seen')
  BY <1>5 DEF StreamsInv, PlacesFine, ServesAttach, clientVars
<1> QED BY <1>6, <1>7, <1>8, StepsOn DEF StreamsInv, ServesAttach, clientVars

LEMMA PumpsFine ==
  ASSUME StreamsInv, Pumps
  PROVE  StreamsInv'
<1>1. PICK n \in pump + 1..Len(log) : toV' = toV \o Entries(pump, n) /\ pump' = n
  BY DEF Pumps
<1>2. pump \in Spot /\ n \in Spot
  BY <1>1, InvIs DEF StreamsInv, PlacesFine, Pumps, Spot
<1>3. toV' \in Seq(FromSessiond)
  BY <1>1, <1>2, InvIs, EntriesIs, ConcatIs
<1>4. Later
  BY Stays DEF StreamsInv, Pumps
<1>5. LanesFine(toV', toS', commands', outs')
  BY <1>3 DEF StreamsInv, LanesFine, Pumps
<1>6. PlacesFine(oldest', pump', actor', seen')
  BY <1>1, <1>2 DEF StreamsInv, PlacesFine, Pumps, clientVars
<1> QED BY <1>4, <1>5, <1>6, StepsOn DEF StreamsInv, Pumps, clientVars

LEMMA HoldingFine ==
  ASSUME NEW x \in Actor, NEW s \in Seq(Rpcs)
  PROVE  [x EXCEPT !.held = s] \in Actor
BY DEF Actor

LEMMA LetsGo ==
  ASSUME NEW x \in Actor
  PROVE  [x EXCEPT !.held = <<>>] \in Actor /\ [x EXCEPT !.phase = "down", !.held = <<>>] \in Actor
<1> DEFINE s == <<>>
           y == [x EXCEPT !.phase = "down"]
<1>1. s \in Seq(Rpcs)
  OBVIOUS
<1> HIDE DEF s
<1>2. [x EXCEPT !.held = s] \in Actor
  BY <1>1, HoldingFine
<1>3. [x EXCEPT !.phase = "down", !.held = s] \in Actor
  BY <1>1 DEF Actor
<1> QED BY <1>2, <1>3 DEF s

LEMMA RestoredFine ==
  ASSUME NEW x \in Actor, NEW n \in Spot
  PROVE  [x EXCEPT !.phase = "running", !.at = n, !.live = (n >= x.live_at)] \in Actor
<1>1. ASSUME NEW b \in BOOLEAN PROVE [x EXCEPT !.phase = "running", !.at = n, !.live = b] \in Actor
  BY DEF Actor
<1>2. (n >= x.live_at) \in BOOLEAN
  OBVIOUS
<1> QED BY <1>1, <1>2

LEMMA HoldEndsFine ==
  ASSUME StreamsInv, HoldEnds
  PROVE  StreamsInv'
<1>1. outs' = outs \o Snapshots(actor.held, actor.at) /\ actor' = [actor EXCEPT !.held = <<>>]
  BY DEF HoldEnds
<1>2. outs' \in Seq(Said)
  BY <1>1, InvIs, SnapshotsIs, ConcatIs
<1>3. actor' \in Actor
  BY <1>1, InvIs, LetsGo
<1>4. Later
  BY Stays DEF StreamsInv, HoldEnds, sessiondVars
<1>5. LanesFine(toV', toS', commands', outs')
  BY <1>2 DEF StreamsInv, LanesFine, HoldEnds
<1>6. PlacesFine(oldest', pump', actor', seen')
  BY <1>3 DEF StreamsInv, PlacesFine, HoldEnds, clientVars, sessiondVars
<1> QED BY <1>4, <1>5, <1>6, StepsOn DEF StreamsInv, HoldEnds, clientVars, sessiondVars

--------------------
\* The driver.

LEMMA ActorTakesFine ==
  ASSUME StreamsInv, NEW lo \in Spot, NEW hi \in Spot, lo < hi, ActorTakes(lo, hi)
  PROVE  actor' \in Actor /\ outs' \in Seq(Said)
<1> DEFINE n == IF hi > actor.at THEN hi ELSE actor.at
           live == n >= actor.live_at
           ended == Kind(n - 1) = "exit" /\ live
           gone == [actor EXCEPT !.phase = "down", !.at = n, !.held = <<>>]
           applied == <<[is |-> "applied", lo |-> lo, hi |-> hi]>>
           e1 == IF live /\ ~actor.live THEN <<[is |-> "live", at |-> n]>> ELSE <<>>
           e2 == IF ended THEN <<[is |-> "closed"]>> ELSE <<>>
           said == applied \o e1 \o e2
           after == IF ended THEN gone ELSE [actor EXCEPT !.at = n, !.live = live]
<1>1. actor \in Actor /\ actor.at \in Spot /\ actor.held \in Seq(Rpcs) /\ outs \in Seq(Said)
      /\ Len(log) \in Nat
  BY InvIs
<1>2. n \in Spot
  BY <1>1 DEF Spot
<1>3. live \in BOOLEAN
  OBVIOUS
<1> HIDE DEF n, live, ended
<1>4. after \in Actor /\ [after EXCEPT !.held = <<>>] \in Actor
  <2>1. gone \in Actor
    <3> DEFINE s == <<>>
    <3>1. s \in Seq(Rpcs)
      OBVIOUS
    <3> HIDE DEF s
    <3>2. [actor EXCEPT !.phase = "down", !.at = n, !.held = s] \in Actor
      BY <1>1, <1>2, <3>1 DEF Actor
    <3> QED BY <3>2 DEF s
  <2>2. [actor EXCEPT !.at = n, !.live = live] \in Actor
    BY <1>1, <1>2, <1>3 DEF Actor
  <2>3. after \in Actor
    BY <2>1, <2>2
  <2> HIDE DEF after
  <2> QED BY <2>3, LetsGo
<1>5. applied \in Seq(Said) /\ e1 \in Seq(Said) /\ e2 \in Seq(Said)
  <2>1. [is |-> "applied", lo |-> lo, hi |-> hi] \in Said /\ [is |-> "live", at |-> n] \in Said
        /\ [is |-> "closed"] \in Said
    BY <1>2 DEF Said
  <2> QED BY <2>1
<1> HIDE DEF applied, e1, e2, after
<1>6. said \in Seq(Said)
  BY <1>5, ConcatIs
<1>7. \/ UNCHANGED <<actor, outs>>
      \/ outs' = outs \o applied /\ UNCHANGED actor
      \/ outs' = outs \o said /\ actor' = after
      \/ \E cut \in actor.at + 1..n :
           outs' = outs \o Snapshots(actor.held, cut) \o said /\ actor' = [after EXCEPT !.held = <<>>]
  <2>1. actor.phase = "down" \/ actor.phase = "attaching" \/ actor.phase = "running"
    BY <1>1 DEF Actor
  <2>2. CASE actor.phase = "down"
    BY <2>2 DEF ActorTakes
  <2>3. CASE actor.phase = "attaching"
    BY <2>3 DEF ActorTakes, applied
  <2>4. CASE actor.phase = "running"
    BY <2>4 DEF ActorTakes, applied, e1, e2, after, ended, live, n
  <2> QED BY <2>1, <2>2, <2>3, <2>4
<1>8. ASSUME NEW cut \in actor.at + 1..n,
             outs' = outs \o Snapshots(actor.held, cut) \o said, actor' = [after EXCEPT !.held = <<>>]
      PROVE  actor' \in Actor /\ outs' \in Seq(Said)
  <2>1. cut \in Spot
    BY <1>1, <1>2 DEF Spot
  <2>2. Snapshots(actor.held, cut) \in Seq(Said)
    BY <1>1, <2>1, SnapshotsIs
  <2> HIDE DEF said
  <2> QED BY <1>1, <1>4, <1>6, <1>8, <2>2, ConcatIs
<1> HIDE DEF said
<1>9. CASE outs' = outs \o said /\ actor' = after
  BY <1>1, <1>4, <1>6, <1>9, ConcatIs
<1>10. CASE outs' = outs \o applied /\ UNCHANGED actor
  BY <1>1, <1>5, <1>10, ConcatIs
<1>11. CASE UNCHANGED <<actor, outs>>
  BY <1>1, <1>11
<1> QED BY <1>7, <1>8, <1>9, <1>10, <1>11

LEMMA ReceivesIs ==
  ASSUME StreamsInv, NEW is, Receives(is)
  PROVE  Head(toV) \in FromSessiond /\ Head(toV).is = is /\ toV' \in Seq(FromSessiond)
BY InvIs, TailIs DEF Receives

LEMMA ReceivesEntriesFine ==
  ASSUME StreamsInv, ReceivesEntries
  PROVE  StreamsInv'
<1>1. Head(toV).lo \in Spot /\ Head(toV).hi \in Spot /\ Head(toV).lo < Head(toV).hi
      /\ toV' \in Seq(FromSessiond)
  BY ReceivesIs, FromSessiondIs DEF ReceivesEntries
<1>2. actor' \in Actor /\ outs' \in Seq(Said)
  BY <1>1, ActorTakesFine DEF ReceivesEntries
<1>3. Later
  BY Stays DEF StreamsInv, ReceivesEntries, sessiondVars
<1>4. LanesFine(toV', toS', commands', outs')
  BY <1>1, <1>2 DEF StreamsInv, LanesFine, ReceivesEntries
<1>5. PlacesFine(oldest', pump', actor', seen')
  BY <1>2 DEF StreamsInv, PlacesFine, ReceivesEntries, clientVars, sessiondVars
<1>6. FlagsFine(repumping', linked', stalled', torn')
  BY DEF StreamsInv, FlagsFine, ReceivesEntries, clientVars
<1> QED BY <1>3, <1>4, <1>5, <1>6, StepsOn DEF StreamsInv, ReceivesEntries, clientVars, sessiondVars

LEMMA ReceivesCheckpointFine ==
  ASSUME StreamsInv, ReceivesCheckpoint
  PROVE  StreamsInv'
<1> DEFINE n == Head(toV).at
<1>1. n \in Spot /\ toV' \in Seq(FromSessiond)
  BY ReceivesIs, FromSessiondIs DEF ReceivesCheckpoint
<1>2. ActorRestores(n)
  BY DEF ReceivesCheckpoint
<1> HIDE DEF n
<1>3. actor' \in Actor /\ outs' \in Seq(Said)
  <2>1. CASE actor.phase # "attaching"
    BY <1>2, <2>1, InvIs DEF ActorRestores
  <2>2. CASE actor.phase = "attaching"
    <3>1. actor' = [actor EXCEPT !.phase = "running", !.at = n, !.live = (n >= actor.live_at)]
          /\ (outs' = outs \/ outs' = Append(outs, [is |-> "live", at |-> n]))
      BY <1>2, <2>2 DEF ActorRestores
    <3>2. [is |-> "live", at |-> n] \in Said
      BY <1>1 DEF Said
    <3>3. actor' \in Actor
      <4>1. actor \in Actor
        BY InvIs
      <4>2. [actor EXCEPT !.phase = "running", !.at = n, !.live = (n >= actor.live_at)] \in Actor
        BY <1>1, <4>1, RestoredFine
      <4>3. actor' = [actor EXCEPT !.phase = "running", !.at = n, !.live = (n >= actor.live_at)]
        BY <3>1
      <4> QED BY <4>2, <4>3
    <3>4. outs' = outs \/ outs' = Append(outs, [is |-> "live", at |-> n])
      BY <3>1
    <3>5. outs' \in Seq(Said)
      <4> DEFINE m == [is |-> "live", at |-> n]
      <4>1. m \in Said /\ outs \in Seq(Said) /\ (outs' = outs \/ outs' = Append(outs, m))
        BY <3>2, <3>4, InvIs
      <4> HIDE DEF m
      <4> QED BY <4>1, AppendIs
    <3> QED BY <3>3, <3>5
  <2> QED BY <2>1, <2>2
<1>4. Later
  BY Stays DEF StreamsInv, ReceivesCheckpoint, sessiondVars
<1>5. LanesFine(toV', toS', commands', outs')
  BY <1>1, <1>3 DEF StreamsInv, LanesFine, ReceivesCheckpoint
<1>6. PlacesFine(oldest', pump', actor', seen')
  BY <1>3 DEF StreamsInv, PlacesFine, ReceivesCheckpoint, clientVars, sessiondVars
<1> QED BY <1>4, <1>5, <1>6, StepsOn DEF StreamsInv, ReceivesCheckpoint, clientVars, sessiondVars

--------------------
\* A turn of the hub, taken.

LEMMA PerformsFine ==
  ASSUME StreamsInv, NEW t, NEW more \in Seq(Said), t \in Turns, Performs(t, more)
  PROVE  commands' \in Seq(Spot) /\ outs' \in Seq(Said) /\ actor' \in Actor
<1>1. t.asks \in Seq(Rpcs) /\ t.fetches \in Seq(Spot)
  BY DEF Turns
<1>2. commands \in Seq(Spot) /\ actor \in Actor /\ actor.held \in Seq(Rpcs) /\ actor.at \in Spot
  BY InvIs
<1>3. commands' \in Seq(Spot)
  <2>1. commands \o t.fetches \in Seq(Spot)
    BY <1>1, <1>2, ConcatIs
  <2>2. commands' = commands \o t.fetches \/ commands' = commands
    BY DEF Performs
  <2> QED BY <1>2, <2>1, <2>2
<1> DEFINE asked == actor.held \o t.asks
<1>4. asked \in Seq(Rpcs)
  BY <1>1, <1>2, ConcatIs
<1> HIDE DEF asked
<1>5. \/ outs' = more /\ actor' = actor
      \/ outs' = more \o Snapshots(t.asks, None) /\ actor' = actor
      \/ outs' = more \o Snapshots(asked, actor.at) /\ actor' = [actor EXCEPT !.held = <<>>]
      \/ outs' = more /\ actor' = [actor EXCEPT !.held = asked]
  <2>1. actor.phase = "down" \/ actor.phase = "attaching" \/ actor.phase = "running"
    BY <1>2 DEF Actor
  <2>2. CASE actor.phase = "down" \/ t.asks = <<>>
    BY <2>2 DEF Performs
  <2>3. CASE actor.phase = "attaching" /\ t.asks # <<>>
    BY <2>3 DEF Performs
  <2>4. CASE actor.phase = "running" /\ t.asks # <<>>
    BY <2>4 DEF Performs, asked
  <2> QED BY <2>1, <2>2, <2>3, <2>4
<1>6. CASE outs' = more /\ actor' = actor
  BY <1>2, <1>3, <1>6
<1>7. CASE outs' = more \o Snapshots(t.asks, None) /\ actor' = actor
  <2>1. Snapshots(t.asks, None) \in Seq(Said)
    BY <1>1, SnapshotsIs
  <2> QED BY <1>2, <1>3, <1>7, <2>1, ConcatIs
<1>8. CASE outs' = more \o Snapshots(asked, actor.at) /\ actor' = [actor EXCEPT !.held = <<>>]
  <2>1. Snapshots(asked, actor.at) \in Seq(Said)
    BY <1>2, <1>4, SnapshotsIs
  <2>2. actor' \in Actor
    BY <1>2, <1>8, LetsGo
  <2>3. outs' \in Seq(Said)
    BY <1>8, <2>1, ConcatIs
  <2> QED BY <1>3, <2>2, <2>3
<1>9. CASE outs' = more /\ actor' = [actor EXCEPT !.held = asked]
  <2>1. actor' \in Actor
    BY <1>2, <1>4, <1>9, HoldingFine
  <2> QED BY <1>3, <1>9, <2>1
<1> QED BY <1>5, <1>6, <1>7, <1>8, <1>9

LEMMA TurnTaken ==
  ASSUME NEW t, NEW more, NEW own, NEW a, NEW ans, TurnOk(t, own, a, ans), Performs(t, more)
  PROVE  TurnFine(hub', conn', own, a, ans) /\ t \in Turns
BY DEF TurnOk, Performs

\* What the hub makes of what the actor says.
LEMMA HubTurnFine ==
  ASSUME StreamsInv, NEW t, TurnOk(t, rpcs, at, answers), outs # <<>>, HubTurn(t)
  PROVE  StreamsInv'
<1>1. Tail(outs) \in Seq(Said)
  BY InvIs, TailIs
<1>2. Performs(t, Tail(outs))
  BY DEF HubTurn
<1>3. TurnFine(hub', conn', rpcs, at, answers) /\ t \in Turns
  BY <1>2, TurnTaken
<1>4. commands' \in Seq(Spot) /\ outs' \in Seq(Said) /\ actor' \in Actor
  BY <1>1, <1>2, <1>3, PerformsFine
<1>5. Later
  BY Stays DEF StreamsInv, HubTurn, sessiondVars
<1>6. LanesFine(toV', toS', commands', outs')
  BY <1>4 DEF StreamsInv, LanesFine, HubTurn
<1>7. PlacesFine(oldest', pump', actor', seen')
  BY <1>4 DEF StreamsInv, PlacesFine, HubTurn, clientVars, sessiondVars
<1>8. FlagsFine(repumping', linked', stalled', torn') /\ ClientsFine(rpcs', at', answers')
  BY DEF StreamsInv, FlagsFine, ClientsFine, HubTurn, clientVars
<1>9. TurnFine(hub', conn', rpcs', at', answers')
  BY <1>3 DEF HubTurn, clientVars
<1> QED BY <1>5, <1>6, <1>7, <1>8, <1>9, StepsOn

LEMMA HubIs ==
  ASSUME StreamsInv
  PROVE  /\ LogFine /\ TurnFine(hub, conn, rpcs, at, answers)
         /\ TurnOk(Turn(hub, conn), rpcs, at, answers)
BY TurnIs DEF StreamsInv

LEMMA HearsAppliedFine ==
  ASSUME StreamsInv, HearsApplied
  PROVE  StreamsInv'
<1>1. outs # <<>> /\ Head(outs) \in Said /\ Head(outs).is = "applied"
  BY InvIs, TailIs DEF HearsApplied, Hears
<1>2. Head(outs).lo \in Spot /\ Head(outs).hi \in Spot /\ Head(outs).lo < Head(outs).hi
  BY <1>1, SaidIs
<1>3. CASE hub.holds
  <2>1. TurnOk(Applied(Head(outs).lo, Head(outs).hi), rpcs, at, answers)
    BY <1>2, HubIs, AppliedFine
  <2>2. HubTurn(Applied(Head(outs).lo, Head(outs).hi))
    BY <1>3 DEF HearsApplied
  <2> QED BY <1>1, <2>1, <2>2, HubTurnFine
<1>4. CASE ~hub.holds
  <2>1. HubTurn(Turn(hub, conn))
    BY <1>4 DEF HearsApplied
  <2> QED BY <1>1, <2>1, HubIs, HubTurnFine
<1> QED BY <1>3, <1>4

LEMMA HearsLiveFine ==
  ASSUME StreamsInv, HearsLive
  PROVE  StreamsInv'
<1>1. outs # <<>> /\ Head(outs) \in Said /\ Head(outs).is = "live"
  BY InvIs, TailIs DEF HearsLive, Hears
<1>2. Head(outs).at \in Spot
  BY <1>1, SaidIs
<1>3. CASE hub.holds
  <2>1. TurnOk(Live(Head(outs).at), rpcs, at, answers)
    BY <1>2, <1>3, HubIs, LiveFine
  <2>2. HubTurn(Live(Head(outs).at))
    BY <1>3 DEF HearsLive
  <2> QED BY <1>1, <2>1, <2>2, HubTurnFine
<1>4. CASE ~hub.holds
  <2>1. HubTurn(Turn(hub, conn))
    BY <1>4 DEF HearsLive
  <2> QED BY <1>1, <2>1, HubIs, HubTurnFine
<1> QED BY <1>3, <1>4

LEMMA HearsSnapshotFine ==
  ASSUME StreamsInv, HearsSnapshot
  PROVE  StreamsInv'
<1>1. outs # <<>> /\ Head(outs) \in Said /\ Head(outs).is = "snapshot"
  BY InvIs, TailIs DEF HearsSnapshot, Hears
<1>2. Head(outs).rpc \in Rpcs /\ Head(outs).at \in Spot \cup {None}
  BY <1>1, SaidIs
<1>3. TurnOk(SnapshotReady(Head(outs).rpc, Head(outs).at), rpcs, at, answers)
  BY <1>2, HubIs, SnapshotReadyFine
<1>4. HubTurn(SnapshotReady(Head(outs).rpc, Head(outs).at))
  BY DEF HearsSnapshot
<1> QED BY <1>1, <1>3, <1>4, HubTurnFine

LEMMA HearsEndFine ==
  ASSUME StreamsInv, HearsEnd
  PROVE  StreamsInv'
<1>1. outs # <<>>
  BY DEF HearsEnd, Hears
<1>2. Head(outs).is = "closed" \/ Head(outs).is = "lost" \/ Head(outs).is = "asleep"
  BY DEF HearsEnd, Hears
<1>3. CASE ~hub.holds
  <2>1. HubTurn(Turn(hub, conn))
    BY <1>3 DEF HearsEnd
  <2> QED BY <1>1, <2>1, HubIs, HubTurnFine
<1>4. CASE hub.holds /\ Head(outs).is = "closed"
  <2>1. HubTurn(Closed)
    BY <1>4 DEF HearsEnd
  <2> QED BY <1>1, <2>1, HubIs, ClosedFine, HubTurnFine
<1>5. CASE hub.holds /\ Head(outs).is = "lost"
  <2>1. HubTurn(Loses)
    BY <1>5 DEF HearsEnd
  <2> QED BY <1>1, <2>1, HubIs, LosesFine, HubTurnFine
<1>6. CASE hub.holds /\ Head(outs).is = "asleep"
  <2>1. HubTurn(Sleeps)
    BY <1>6 DEF HearsEnd
  <2> QED BY <1>1, <2>1, HubIs, SleepsFine, HubTurnFine
<1> QED BY <1>2, <1>3, <1>4, <1>5, <1>6

LEMMA HubStays ==
  ASSUME NEW own, NEW a, NEW ans, TurnFine(hub, conn, own, a, ans), NEW g \in Hub,
         g.head = hub.head, g.tail = hub.tail, g.ended = hub.ended, g.holds = hub.holds,
         g.early \subseteq hub.early, g.waiting \subseteq hub.waiting
  PROVE  TurnFine(g, conn, own, a, ans)
<1>1. HubFine(hub) /\ ConnsFine(conn, a) /\ (hub.ended => \A c \in Conns : ~Attached(conn[c], Modes))
  BY DEF TurnFine
<1>2. HubFine(g)
  BY <1>1 DEF HubFine
<1>3. \A c \in Conns : Quiet(conn[c], conn[c])
  BY DEF Quiet
<1> QED BY <1>1, <1>2, <1>3, QuietTurn

LEMMA RefusedFetchFine ==
  ASSUME StreamsInv, ReceivesRefusal, RefusedFetch
  PROVE  StreamsInv'
<1>1. TurnOk(FetchRefused, rpcs, at, answers)
  BY HubIs, FetchRefusedFine DEF RefusedFetch
<1>2. Performs(FetchRefused, outs)
  BY DEF RefusedFetch
<1>3. TurnFine(hub', conn', rpcs, at, answers) /\ FetchRefused \in Turns
  BY <1>1, <1>2, TurnTaken
<1>4. outs \in Seq(Said) /\ toS \in Seq(ToSessiond) /\ hub.head \in Spot
  BY InvIs
<1>5. commands' \in Seq(Spot) /\ outs' \in Seq(Said) /\ actor' \in Actor
  BY <1>2, <1>3, <1>4, PerformsFine
<1>6. toS' \in Seq(ToSessiond)
  <2>1. FromCursor(hub.head) \in ToSessiond
    BY <1>4 DEF FromCursor, ToSessiond
  <2>2. toS' = Append(toS, FromCursor(hub.head))
    BY DEF RefusedFetch
  <2> QED BY <1>4, <2>1, <2>2, AppendIs
<1>7. Later
  BY Stays DEF StreamsInv, ReceivesRefusal, sessiondVars
<1>8. LanesFine(toV', toS', commands', outs')
  BY <1>5, <1>6, ReceivesIs DEF LanesFine, ReceivesRefusal
<1>9. PlacesFine(oldest', pump', actor', seen')
  BY <1>5 DEF StreamsInv, PlacesFine, ReceivesRefusal, clientVars, sessiondVars
<1>10. FlagsFine(repumping', linked', stalled', torn') /\ ClientsFine(rpcs', at', answers')
  BY DEF StreamsInv, FlagsFine, ClientsFine, ReceivesRefusal, RefusedFetch, clientVars
<1>11. TurnFine(hub', conn', rpcs', at', answers')
  BY <1>3 DEF ReceivesRefusal, clientVars
<1> QED BY <1>7, <1>8, <1>9, <1>10, <1>11, StepsOn

LEMMA ReceivesRefusalFine ==
  ASSUME StreamsInv, ReceivesRefusal
  PROVE  StreamsInv'
<1>1. CASE RefusedFetch
  BY <1>1, RefusedFetchFine
<1>2. Later
  BY Stays DEF StreamsInv, ReceivesRefusal, sessiondVars
<1>3. toV' \in Seq(FromSessiond)
  BY ReceivesIs DEF ReceivesRefusal
<1>4. CASE RefusedRepump
  <2>1. toS' \in Seq(ToSessiond)
    <3>1. FromNewest \in ToSessiond
      BY DEF FromNewest, ToSessiond
    <3> QED BY <1>4, <3>1, InvIs, AppendIs DEF RefusedRepump
  <2>2. LanesFine(toV', toS', commands', outs')
    BY <1>3, <1>4, <2>1 DEF StreamsInv, LanesFine, RefusedRepump
  <2>3. PlacesFine(oldest', pump', actor', seen')
    BY <1>4 DEF StreamsInv, PlacesFine, ReceivesRefusal, RefusedRepump, clientVars, sessiondVars
  <2>4. FlagsFine(repumping', linked', stalled', torn')
    BY <1>4 DEF StreamsInv, FlagsFine, ReceivesRefusal, RefusedRepump, clientVars
  <2> QED BY <1>2, <1>4, <2>2, <2>3, <2>4, StepsOn
             DEF StreamsInv, ReceivesRefusal, RefusedRepump, clientVars
<1>5. CASE RefusedActor
  <2>1. LanesFine(toV', toS', commands', outs')
    BY <1>3, <1>5 DEF StreamsInv, LanesFine, RefusedActor
  <2>2. PlacesFine(oldest', pump', actor', seen')
    BY <1>5 DEF StreamsInv, PlacesFine, ReceivesRefusal, RefusedActor, clientVars, sessiondVars
  <2>3. stalled' \in BOOLEAN
    BY <1>5 DEF StreamsInv, FlagsFine, RefusedActor
  <2>4. FlagsFine(repumping', linked', stalled', torn')
    BY <1>5, <2>3 DEF StreamsInv, FlagsFine, ReceivesRefusal, RefusedActor, clientVars
  <2> QED BY <1>2, <1>5, <2>1, <2>2, <2>4, StepsOn
             DEF StreamsInv, ReceivesRefusal, RefusedActor, clientVars
<1> QED BY <1>1, <1>4, <1>5 DEF ReceivesRefusal

LEMMA ForwardsFetchFine ==
  ASSUME StreamsInv, ForwardsFetch
  PROVE  StreamsInv'
<1>1. Head(commands) \in Spot /\ Tail(commands) \in Seq(Spot)
  BY InvIs, TailIs DEF ForwardsFetch
<1>2. FromCursor(Head(commands)) \in ToSessiond
  BY <1>1 DEF FromCursor, ToSessiond
<1>3. toS' \in Seq(ToSessiond)
  BY <1>2, InvIs, AppendIs DEF ForwardsFetch
<1>4. Later
  BY Stays DEF StreamsInv, ForwardsFetch, sessiondVars
<1>5. LanesFine(toV', toS', commands', outs')
  BY <1>1, <1>3 DEF StreamsInv, LanesFine, ForwardsFetch
<1> QED BY <1>4, <1>5, StepsOn
           DEF StreamsInv, PlacesFine, FlagsFine, ClientsFine, ForwardsFetch, clientVars, sessiondVars

LEMMA DozesFine ==
  ASSUME StreamsInv, Dozes
  PROVE  StreamsInv'
<1>1. [is |-> "asleep"] \in Said
  BY DEF Said
<1>2. outs' \in Seq(Said)
  BY <1>1 DEF Dozes
<1>3. Later
  BY Stays DEF StreamsInv, Dozes, sessiondVars
<1>4. LanesFine(toV', toS', commands', outs')
  BY <1>2 DEF StreamsInv, LanesFine, Dozes
<1> QED BY <1>3, <1>4, StepsOn
           DEF StreamsInv, PlacesFine, FlagsFine, ClientsFine, Dozes, clientVars, sessiondVars

LEMMA PanicsFine ==
  ASSUME StreamsInv, Panics
  PROVE  StreamsInv'
<1>1. [is |-> "lost"] \in Said
  BY DEF Said
<1>2. outs' \in Seq(Said)
  BY <1>1, InvIs, AppendIs DEF Panics
<1>3. actor' \in Actor
  BY InvIs, LetsGo DEF Panics
<1>4. Later
  BY Stays DEF StreamsInv, Panics, sessiondVars
<1>5. LanesFine(toV', toS', commands', outs')
  BY <1>2 DEF StreamsInv, LanesFine, Panics
<1>6. PlacesFine(oldest', pump', actor', seen')
  BY <1>3 DEF StreamsInv, PlacesFine, Panics, clientVars, sessiondVars
<1> QED BY <1>4, <1>5, <1>6, StepsOn
           DEF StreamsInv, FlagsFine, ClientsFine, Panics, clientVars, sessiondVars

LEMMA SuspendsFine ==
  ASSUME StreamsInv, Suspends
  PROVE  StreamsInv'
<1>1. actor' \in Actor
  BY InvIs, LetsGo DEF Suspends
<1>2. Later
  BY Stays DEF StreamsInv, Suspends
<1>3. LanesFine(toV', toS', commands', outs')
  BY DEF LanesFine, Suspends
<1>4. PlacesFine(oldest', pump', actor', seen')
  BY <1>1 DEF StreamsInv, PlacesFine, Suspends, clientVars
<1>5. FlagsFine(repumping', linked', stalled', torn')
  BY DEF StreamsInv, FlagsFine, Suspends, clientVars
<1>6. TurnFine(hub', conn, rpcs, at, answers)
  <2> DEFINE g == [hub EXCEPT !.live = FALSE, !.fetch = None]
  <2>1. hub \in Hub
    BY HubIs DEF TurnFine, HubFine
  <2>2. g \in Hub /\ g.head = hub.head /\ g.tail = hub.tail /\ g.ended = hub.ended
        /\ g.holds = hub.holds /\ g.early = hub.early /\ g.waiting = hub.waiting
    BY <2>1 DEF Hub
  <2>3. hub' = g
    BY DEF Suspends
  <2> HIDE DEF g
  <2> QED BY <2>2, <2>3, HubIs, HubStays
<1> QED BY <1>2, <1>3, <1>4, <1>5, <1>6, StepsOn
           DEF StreamsInv, ClientsFine, Suspends, clientVars

LEMMA LinksFine ==
  ASSUME StreamsInv, Links
  PROVE  StreamsInv'
<1>1. actor' \in Actor
  <2> DEFINE s == <<>>
  <2>1. s \in Seq(Rpcs) /\ 0 \in Spot /\ Len(log) \in Spot
    BY InvIs DEF Spot
  <2> HIDE DEF s
  <2>2. [phase |-> "attaching", at |-> 0, live_at |-> Len(log), live |-> FALSE, held |-> s] \in Actor
    BY <2>1 DEF Actor
  <2> QED BY <2>2 DEF Links, s
<1>2. Later
  BY Stays DEF StreamsInv, Links, sessiondVars
<1>3. LanesFine(toV', toS', commands', outs')
  <2>1. FromNewest \in ToSessiond
    BY DEF FromNewest, ToSessiond
  <2>2. toS' \in Seq(ToSessiond)
    BY <2>1 DEF Links
  <2> QED BY <2>2 DEF StreamsInv, LanesFine, Links
<1>4. PlacesFine(oldest', pump', actor', seen')
  BY <1>1 DEF StreamsInv, PlacesFine, Links, clientVars, sessiondVars
<1>5. FlagsFine(repumping', linked', stalled', torn')
  BY DEF StreamsInv, FlagsFine, Links, clientVars
<1>6. TurnFine(hub', conn, rpcs, at, answers)
  <2> DEFINE g == [hub EXCEPT !.live = FALSE]
  <2>1. hub \in Hub
    BY HubIs DEF TurnFine, HubFine
  <2>2. g \in Hub /\ g.head = hub.head /\ g.tail = hub.tail /\ g.ended = hub.ended
        /\ g.holds = hub.holds /\ g.early = hub.early /\ g.waiting = hub.waiting
    BY <2>1 DEF Hub
  <2>3. hub' = g
    BY DEF Links
  <2> HIDE DEF g
  <2> QED BY <2>2, <2>3, HubIs, HubStays
<1> QED BY <1>2, <1>3, <1>4, <1>5, <1>6, StepsOn
           DEF StreamsInv, ClientsFine, Links, clientVars

--------------------
\* Clients that ask and leave.

LEMMA OwnerNew ==
  ASSUME StreamsInv, NEW i \in Rpcs, rpcs[i] = None, NEW c \in Conns
  PROVE  /\ TurnFine(hub, conn, [rpcs EXCEPT ![i] = c], at, answers)
         /\ Nowhere(hub, conn, i)
<1> DEFINE own == [rpcs EXCEPT ![i] = c]
<1>1. rpcs \in [Rpcs -> Conns \cup {None, "gone"}] /\ None \notin Conns
  BY ClientsAssumption DEF StreamsInv, ClientsFine
<1>2. own[i] = c /\ \A j \in Rpcs : j # i => own[j] = rpcs[j]
  BY <1>1
<1> HIDE DEF own
<1>3. TurnFine(hub, conn, rpcs, at, answers) /\ Owners(hub, conn, rpcs) /\ hub \in Hub
  BY HubIs DEF TurnFine, HubFine
<1>4. ASSUME NEW x \in hub.early \cup hub.waiting
      PROVE  x.rpc \in Rpcs /\ x.rpc # i /\ rpcs[x.rpc] = x.conn
  <2>1. x.rpc \in Rpcs /\ x.conn \in Conns
    BY <1>3 DEF Hub, Pending, Awaited
  <2>2. rpcs[x.rpc] = x.conn
    BY <1>3 DEF Owners
  <2> QED BY <1>1, <2>1, <2>2
<1>5. ASSUME NEW d \in Conns, Attached(conn[d], {"fetching"})
      PROVE  conn[d].att.rpc \in Rpcs /\ conn[d].att.rpc # i /\ rpcs[conn[d].att.rpc] = d
  BY <1>1, <1>3, <1>5 DEF Owners
<1>6. ASSUME NEW d \in Conns, NEW j \in Rpcs, Carried(conn[d], j) # {}
      PROVE  j # i /\ rpcs[j] = d
  BY <1>1, <1>3, <1>6 DEF Owners
<1>7. Owners(hub, conn, own)
  BY <1>2, <1>4, <1>5, <1>6 DEF Owners
<1>8. TurnFine(hub, conn, own, at, answers)
  BY <1>3, <1>7 DEF TurnFine
<1>9. Nowhere(hub, conn, i)
  <2>1. ~IsEarly(hub, i) /\ ~IsAwaited(hub, i)
    BY <1>4 DEF IsEarly, IsAwaited
  <2>2. ~IsFetched(conn, i) /\ ~IsQueued(conn, i)
    BY <1>5, <1>6 DEF IsFetched, IsQueued
  <2> QED BY <2>1, <2>2 DEF Nowhere, Owed
<1> QED BY <1>8, <1>9 DEF own

LEMMA AsksFine ==
  ASSUME StreamsInv, NEW c \in Conns, Asks(c)
  PROVE  StreamsInv'
<1>1. PICK i \in Rpcs, cursor \in 0..seen \cup {None} :
        /\ rpcs[i] = None
        /\ rpcs' = [rpcs EXCEPT ![i] = c]
        /\ Performs(Attaches(Turn(hub, conn), [rpc |-> i, conn |-> c, cursor |-> cursor]), outs)
  BY DEF Asks
<1> DEFINE x == [rpc |-> i, conn |-> c, cursor |-> cursor]
           t == Turn(hub, conn)
           s == Attaches(t, x)
<1>2. TurnFine(hub, conn, rpcs', at, answers) /\ Nowhere(hub, conn, i)
  BY <1>1, OwnerNew
<1>3. cursor \in Spot \cup {None}
  BY <1>1, InvIs DEF StreamsInv, PlacesFine, Spot
<1>4. x \in Pending /\ x.rpc = i /\ x.conn = c
  BY <1>3 DEF Pending
<1>5. TurnOk(t, rpcs', at, answers) /\ t.hub = hub /\ t.conn = conn
  BY <1>2, TurnIs
<1>6. rpcs \in [Rpcs -> Conns \cup {None, "gone"}] /\ answers[i] = 0
  BY <1>1 DEF StreamsInv, ClientsFine
<1>7. rpcs' \in [Rpcs -> Conns \cup {None, "gone"}] /\ rpcs'[i] = c
      /\ \A j \in Rpcs : rpcs'[j] = None => rpcs[j] = None
  BY <1>1, <1>6
<1> HIDE DEF x, t
<1>8. Asking(t, rpcs', at, answers, x)
  BY <1>2, <1>4, <1>5, <1>6, <1>7 DEF Asking, NowhereIn
<1>9. TurnOk(s, rpcs', at, answers)
  <2>1. LogFine
    BY DEF StreamsInv
  <2> QED BY <1>8, <2>1, AttachesFine DEF Serves
<1>10. Performs(s, outs)
  BY <1>1 DEF s, t, x
<1> HIDE DEF s
<1>11. TurnFine(hub', conn', rpcs', at, answers) /\ s \in Turns
  BY <1>9, <1>10, TurnTaken
<1>12. commands' \in Seq(Spot) /\ outs' \in Seq(Said) /\ actor' \in Actor
  BY <1>10, <1>11, InvIs, PerformsFine
<1>13. Later
  BY Stays DEF StreamsInv, Asks, sessiondVars
<1>14. LanesFine(toV', toS', commands', outs')
  BY <1>12 DEF StreamsInv, LanesFine, Asks
<1>15. PlacesFine(oldest', pump', actor', seen')
  BY <1>12 DEF StreamsInv, PlacesFine, Asks, sessiondVars
<1>16. ClientsFine(rpcs', at', answers')
  BY <1>7 DEF StreamsInv, ClientsFine, Asks
<1>17. FlagsFine(repumping', linked', stalled', torn')
  BY DEF StreamsInv, FlagsFine, Asks
<1>18. TurnFine(hub', conn', rpcs', at', answers')
  BY <1>11 DEF Asks
<1> QED BY <1>13, <1>14, <1>15, <1>16, <1>17, <1>18, StepsOn

LEMMA UnconnectedIs == ConnFine(Unconnected, None) /\ ~Attached(Unconnected, Modes)
                       /\ ~Attached(Unconnected, {"fetching"})
                       /\ \A i \in Rpcs : Carried(Unconnected, i) = {}
<1> DEFINE s == <<>>
<1>1. s \in Seq(Msg) /\ Len(s) = 0
  OBVIOUS
<1> HIDE DEF s
<1>2. Unconnected = [att |-> None, out |-> s, catching |-> FALSE, storing |-> FALSE,
                     wake |-> FALSE, missed |-> FALSE]
  BY DEF Unconnected, s
<1>3. Unconnected \in Conn /\ Unconnected.att = None /\ Unconnected.out = s
  BY <1>1, <1>2 DEF Conn
<1>4. Steady(Unconnected.out, None)
  BY <1>1, <1>3 DEF Steady
<1>5. \A i \in Rpcs : Carried(Unconnected, i) = {}
  BY <1>1, <1>3 DEF Carried
<1> QED BY <1>3, <1>4, <1>5, UnattachedFine DEF Attached

\* What is waited for, or carried, may go.
LEMMA OnceLess ==
  ASSUME NEW h, NEW ks, NEW g, NEW fs, NEW ans, NEW i \in Rpcs, Once(h, ks, ans, i),
         g.early \subseteq h.early, g.waiting \subseteq h.waiting,
         IsFetched(fs, i) => IsFetched(ks, i),
         \A c \in Conns : Carried(fs[c], i) \in {{}, Carried(ks[c], i)}
  PROVE  Once(g, fs, ans, i)
<1>1. (IsEarly(g, i) => IsEarly(h, i)) /\ (IsAwaited(g, i) => IsAwaited(h, i))
  BY DEF IsEarly, IsAwaited
<1>2. Owed(g, fs, i) => Owed(h, ks, i)
  BY <1>1 DEF Owed
<1>3. IsQueued(fs, i) => IsQueued(ks, i)
  BY DEF IsQueued
<1>4. \A c \in Conns : \A j, l \in Carried(fs[c], i) : j = l
  BY DEF Once
<1>5. \A x, y \in g.early : x.rpc = i /\ y.rpc = i => x = y
  BY DEF Once
<1> QED BY <1>1, <1>2, <1>3, <1>4, <1>5 DEF Once

LEMMA DisconnectsFine ==
  ASSUME StreamsInv, NEW c \in Conns, Disconnects(c)
  PROVE  StreamsInv'
<1>1. /\ rpcs \in [Rpcs -> Conns \cup {None, "gone"}] /\ at \in [Conns -> Spot \cup {None}]
      /\ answers \in [Rpcs -> Nat] /\ \A i \in Rpcs : rpcs[i] = None => answers[i] = 0
  BY DEF StreamsInv, ClientsFine
<1>2. TurnFine(hub, conn, rpcs, at, answers) /\ HubFine(hub) /\ hub \in Hub
      /\ conn \in [Conns -> Conn] /\ Owners(hub, conn, rpcs)
  BY HubIs DEF TurnFine, HubFine, ConnsFine
<1>3. /\ conn' = [conn EXCEPT ![c] = Unconnected] /\ at' = [at EXCEPT ![c] = None]
      /\ rpcs' = [i \in Rpcs |-> IF rpcs[i] = c THEN "gone" ELSE rpcs[i]]
      /\ hub' = [hub EXCEPT !.waiting = {w \in @ : w.conn # c}, !.early = {x \in @ : x.conn # c}]
  BY DEF Disconnects
<1>4. /\ conn'[c] = Unconnected /\ at'[c] = None
      /\ \A d \in Conns : d # c => conn'[d] = conn[d] /\ at'[d] = at[d]
  BY <1>1, <1>2, <1>3
<1>5. \A i \in Rpcs : /\ rpcs[i] # c => rpcs'[i] = rpcs[i]
                      /\ rpcs'[i] = None => rpcs[i] = None
                      /\ rpcs'[i] \in Conns \cup {None, "gone"}
  BY <1>1, <1>3, ClientsAssumption
<1>6. ClientsFine(rpcs', at', answers')
  <2>1. rpcs' \in [Rpcs -> Conns \cup {None, "gone"}]
    BY <1>3, <1>5
  <2>2. at' \in [Conns -> Spot \cup {None}]
    BY <1>1, <1>3
  <2> QED BY <1>1, <1>5, <2>1, <2>2 DEF ClientsFine, Disconnects
<1>7. hub' \in Hub /\ HubFine(hub') /\ hub'.ended = hub.ended
      /\ hub'.early = {x \in hub.early : x.conn # c}
      /\ hub'.waiting = {w \in hub.waiting : w.conn # c}
  <2> DEFINE e == {x \in hub.early : x.conn # c}
             q == {w \in hub.waiting : w.conn # c}
  <2>1. e \in SUBSET Pending /\ q \in SUBSET Awaited
    BY <1>2 DEF Hub
  <2>2. hub' = [hub EXCEPT !.waiting = q, !.early = e]
    BY <1>3
  <2> HIDE DEF e, q
  <2>3. hub' \in Hub /\ hub'.early = e /\ hub'.waiting = q /\ hub'.ended = hub.ended
        /\ hub'.head = hub.head /\ hub'.tail = hub.tail /\ hub'.holds = hub.holds
    BY <1>2, <2>1, <2>2 DEF Hub
  <2>4. HubFine(hub')
    BY <1>2, <2>3 DEF HubFine
  <2> QED BY <2>3, <2>4 DEF e, q
<1>8. ConnsFine(conn', at')
  <2>1. conn' \in [Conns -> Conn]
    BY <1>2, <1>3, UnconnectedIs DEF ConnFine
  <2>2. ASSUME NEW d \in Conns PROVE ConnFine(conn'[d], at'[d])
    <3>1. CASE d = c
      BY <1>4, <3>1, UnconnectedIs
    <3>2. CASE d # c
      BY <1>2, <1>4, <3>2 DEF TurnFine, ConnsFine
    <3> QED BY <3>1, <3>2
  <2> QED BY <2>1, <2>2 DEF ConnsFine
<1>9. hub'.ended => \A d \in Conns : ~Attached(conn'[d], Modes)
  BY <1>2, <1>4, <1>7, UnconnectedIs DEF TurnFine
<1>10. ASSUME NEW d \in Conns, Attached(conn'[d], {"fetching"})
       PROVE  d # c /\ conn'[d] = conn[d]
  BY <1>4, <1>10, UnconnectedIs
<1>11. ASSUME NEW d \in Conns, NEW i \in Rpcs, Carried(conn'[d], i) # {}
       PROVE  d # c /\ conn'[d] = conn[d]
  BY <1>4, <1>11, UnconnectedIs
<1>12. Owners(hub', conn', rpcs')
  <2>1. ASSUME NEW x \in hub'.early \cup hub'.waiting PROVE rpcs'[x.rpc] = x.conn
    <3>1. x.conn # c /\ x \in hub.early \cup hub.waiting
      BY <1>7
    <3>2. x.rpc \in Rpcs /\ rpcs[x.rpc] = x.conn
      BY <1>2, <3>1 DEF Owners, Hub, Pending, Awaited
    <3> QED BY <1>5, <3>1, <3>2
  <2>2. ASSUME NEW d \in Conns, Attached(conn'[d], {"fetching"})
        PROVE  conn'[d].att.rpc \in Rpcs /\ rpcs'[conn'[d].att.rpc] = d
    <3>1. d # c /\ conn'[d] = conn[d]
      BY <1>10, <2>2
    <3>2. conn[d].att.rpc \in Rpcs /\ rpcs[conn[d].att.rpc] = d
      BY <1>2, <2>2, <3>1 DEF Owners
    <3> QED BY <1>5, <3>1, <3>2
  <2>3. ASSUME NEW d \in Conns, NEW i \in Rpcs, Carried(conn'[d], i) # {} PROVE rpcs'[i] = d
    <3>1. d # c /\ conn'[d] = conn[d]
      BY <1>11, <2>3
    <3>2. rpcs[i] = d
      BY <1>2, <2>3, <3>1 DEF Owners
    <3> QED BY <1>5, <3>1, <3>2
  <2> QED BY <2>1, <2>2, <2>3 DEF Owners
<1>13. ASSUME NEW i \in Rpcs PROVE Once(hub', conn', answers, i)
  <2>1. Once(hub, conn, answers, i)
    BY <1>2 DEF TurnFine
  <2>2. IsFetched(conn', i) => IsFetched(conn, i)
    BY <1>10 DEF IsFetched
  <2>3. ASSUME NEW d \in Conns PROVE Carried(conn'[d], i) \in {{}, Carried(conn[d], i)}
    BY <1>11
  <2>4. hub'.early \subseteq hub.early /\ hub'.waiting \subseteq hub.waiting
    BY <1>7
  <2> QED BY <2>1, <2>2, <2>3, <2>4, OnceLess
<1>14. TurnFine(hub', conn', rpcs', at', answers)
  BY <1>7, <1>8, <1>9, <1>12, <1>13 DEF TurnFine
<1>15. Later
  BY Stays DEF StreamsInv, Disconnects, sessiondVars
<1>16. LanesFine(toV', toS', commands', outs')
  BY DEF StreamsInv, LanesFine, Disconnects, laneVars
<1>17. PlacesFine(oldest', pump', actor', seen')
  BY DEF StreamsInv, PlacesFine, Disconnects, sessiondVars
<1>18. FlagsFine(repumping', linked', stalled', torn')
  BY DEF StreamsInv, FlagsFine, Disconnects, laneVars
<1> QED BY <1>6, <1>14, <1>15, <1>16, <1>17, <1>18, StepsOn DEF Disconnects

--------------------
\* The writer.

LEMMA GotFine ==
  ASSUME StreamsInv, NEW c \in Conns, conn[c].out # <<>>, Got(c, Head(conn[c].out))
  PROVE  LET m == Head(conn[c].out)
         IN  /\ at' = [at EXCEPT ![c] = Moved(m, at[c])] /\ torn' = FALSE /\ seen' \in Spot
             /\ Moved(m, at[c]) \in Spot \cup {None}
<1> DEFINE m == Head(conn[c].out)
           n == Moved(m, at[c])
<1>1. conn[c].out \in Seq(Msg) /\ Steady(conn[c].out, at[c])
  BY HubIs, ConnFields DEF TurnFine, ConnsFine, ConnFine
<1>2. m \in Msg /\ m = conn[c].out[1] /\ Len(conn[c].out) > 0 /\ Len(conn[c].out) \in Nat
  BY <1>1, TailIs
<1>3. m.is = "bytes" => at[c] = m.at
  <2>1. SUFFICES ASSUME m.is = "bytes" PROVE at[c] = m.at
    OBVIOUS
  <2>2. StandsAt(conn[c].out, at[c], 1, m.at)
    <3>1. 1 \in 1..Len(conn[c].out)
      BY <1>2
    <3> QED BY <1>1, <1>2, <2>1, <3>1 DEF Steady
  <2>3. 1..1 - 1 = {}
    OBVIOUS
  <2> QED BY <2>2, <2>3 DEF StandsAt
<1>4. at \in [Conns -> Spot \cup {None}] /\ seen \in Spot /\ torn = FALSE /\ Len(log) \in Nat
  BY InvIs DEF StreamsInv, ClientsFine, PlacesFine, FlagsFine
<1>5. Got(c, m)
  OBVIOUS
<1> HIDE DEF m
<1>6. /\ m.is \in MessageKinds /\ m.at \in Spot \cup {None}
      /\ m.is = "bytes" => m.at \in Nat /\ m.at < Len(log) /\ Leaves(m) = m.at + 1
      /\ m.is \in {"continued", "snapshot"} => m.at \in Spot
      /\ m.is = "resync" => m.at = None
      /\ m.is # "bytes" => Leaves(m) = m.at
  BY <1>2, MsgIs
<1>7. CASE m.is = "bytes"
  <2>1. n = m.at + 1 /\ m.at + 1 \in Spot
    BY <1>4, <1>6, <1>7 DEF Moved, Moves, Spot
  <2>2. at' = [at EXCEPT ![c] = m.at + 1] /\ torn' = (torn \/ at[c] # m.at)
        /\ seen' = IF m.at + 1 > seen THEN m.at + 1 ELSE seen
    BY <1>5, <1>7 DEF Got
  <2> QED BY <1>3, <1>4, <1>7, <2>1, <2>2 DEF m
<1>8. CASE m.is \in {"continued", "snapshot"}
  <2>1. n = m.at /\ m.at \in Spot
    BY <1>6, <1>8 DEF Moved, Moves
  <2>2. at' = [at EXCEPT ![c] = m.at] /\ torn' = torn
        /\ seen' = IF m.at > seen THEN m.at ELSE seen
    BY <1>5, <1>8 DEF Got
  <2> QED BY <1>4, <2>1, <2>2 DEF m
<1>9. CASE m.is = "resync"
  <2>1. n = None
    BY <1>6, <1>9 DEF Moved, Moves
  <2>2. at' = [at EXCEPT ![c] = None] /\ torn' = torn /\ seen' = seen
    BY <1>5, <1>9 DEF Got
  <2> QED BY <1>4, <2>1, <2>2 DEF m
<1>10. CASE m.is \notin {"bytes", "continued", "snapshot", "resync"}
  <2>1. n = at[c]
    BY <1>10 DEF Moved, Moves
  <2>2. at' = at /\ torn' = torn /\ seen' = seen
    BY <1>5, <1>10 DEF Got
  <2>3. at = [at EXCEPT ![c] = at[c]]
    BY <1>4
  <2> QED BY <1>4, <2>1, <2>2, <2>3 DEF m
<1> QED BY <1>7, <1>8, <1>9, <1>10

LEMMA WrittenIs ==
  ASSUME NEW k \in Conn, k.out # <<>>
  PROVE  /\ Written(k) \in Conn /\ Written(k).att = k.att /\ Written(k).out = Tail(k.out)
         /\ Written(k).storing = k.storing /\ Written(k).catching = k.catching
         /\ Queued(Written(k)) \in Nat
         /\ Written(k).wake = (k.catching /\ Queued(Written(k)) <= QueueCap \div 2)
         /\ Written(k).missed = (k.missed \/ (k.storing /\ Queued(Written(k)) <= QueueCap \div 2))
<1> DEFINE out == Tail(k.out)
           f == [k EXCEPT !.out = out]
           g == Written(k)
           b == Wakes(f)
           d == k.missed \/ Misses(f)
<1>1. out \in Seq(Msg)
  BY ConnFields, TailIs
<1> HIDE DEF out
<1>2. f \in Conn /\ f.out = out /\ f.storing = k.storing /\ f.catching = k.catching
      /\ f.att = k.att /\ f.missed = k.missed
  BY <1>1 DEF Conn
<1>3. b \in BOOLEAN /\ d \in BOOLEAN
  BY ConnFields, <1>2 DEF Wakes, Misses
<1>4. g = [f EXCEPT !.wake = b, !.missed = d]
  BY <1>2 DEF Written, out
<1> HIDE DEF f, b, d, g
<1>5. g \in Conn /\ g.att = f.att /\ g.out = f.out /\ g.storing = f.storing
      /\ g.catching = f.catching /\ g.wake = b /\ g.missed = d
  BY <1>2, <1>3, <1>4 DEF Conn
<1>6. Queued(g) = Queued(f) /\ Queued(g) \in Nat
  BY <1>2, <1>5, QueuedIs
<1> QED BY <1>2, <1>5, <1>6 DEF b, d, out, g, Wakes, Misses

LEMMA WrittenFine ==
  ASSUME LogFine, NEW k, NEW a, ConnFine(k, a), k.out # <<>>, ~k.wake
  PROVE  ConnFine(Written(k), Moved(Head(k.out), a))
<1> DEFINE f == Written(k)
           b == Moved(Head(k.out), a)
<1>1. k \in Conn /\ k.out \in Seq(Msg) /\ Steady(k.out, a) /\ Woken(k)
  BY ConnFields DEF ConnFine
<1>2. f \in Conn /\ f.att = k.att /\ f.out = Tail(k.out) /\ f.storing = k.storing
      /\ f.catching = k.catching /\ Queued(f) \in Nat
      /\ f.wake = (k.catching /\ Queued(f) <= QueueCap \div 2)
      /\ f.missed = (k.missed \/ (k.storing /\ Queued(f) <= QueueCap \div 2))
  BY <1>1, WrittenIs
<1> HIDE DEF f
<1>3. Steady(f.out, b)
  BY <1>1, <1>2, SteadyTail DEF Moved
<1>4. ASSUME Attached(f, {"following", "behind"}) PROVE Reaches(f.out, b, f.att.next)
  <2>1. Reaches(k.out, a, f.att.next)
    BY <1>2, <1>4 DEF ConnFine, Attached
  <2>2. Ends(k.out, a, f.att.next) => Ends(f.out, b, f.att.next)
    BY <1>1, <1>2, EndsTail DEF Moved
  <2> QED BY <2>1, <2>2 DEF Reaches
<1>5. Woken(f)
  <2>1. SUFFICES ASSUME Attached(f, {"behind"})
                 PROVE  \/ f.wake \/ f.missed
                        \/ (f.storing \/ f.catching) /\ Queued(f) > QueueCap \div 2
    BY DEF Woken
  <2>2. k.missed \/ k.storing \/ k.catching
    BY <1>1, <1>2, <2>1 DEF Woken, Attached
  <2>3. Queued(f) <= QueueCap \div 2 \/ Queued(f) > QueueCap \div 2
    BY <1>2, QueueHalf
  <2>4. CASE Queued(f) <= QueueCap \div 2
    BY <1>2, <2>2, <2>4
  <2>5. CASE Queued(f) > QueueCap \div 2
    BY <1>2, <2>2, <2>5
  <2> QED BY <2>3, <2>4, <2>5
<1> QED BY <1>2, <1>3, <1>4, <1>5 DEF ConnFine, f, b

LEMMA CarriedTail ==
  ASSUME NEW k \in Conn, k.out # <<>>, NEW f \in Conn, f.out = Tail(k.out), NEW i
  PROVE  /\ \A j \in Carried(f, i) : j \in Nat /\ j + 1 \in Carried(k, i)
         /\ Head(k.out).rpc = i => 1 \in Carried(k, i)
<1>1. k.out \in Seq(Msg)
  BY ConnFields
<1>2. /\ Len(Tail(k.out)) = Len(k.out) - 1 /\ Len(k.out) \in Nat /\ Len(k.out) > 0
      /\ Head(k.out) = k.out[1] /\ Tail(k.out) \in Seq(Msg)
      /\ \A j \in 1..Len(k.out) - 1 : Tail(k.out)[j] = k.out[j + 1]
  BY <1>1, TailIs
<1>3. DOMAIN k.out = 1..Len(k.out) /\ DOMAIN f.out = 1..Len(k.out) - 1
  BY <1>1, <1>2
<1>4. \A j \in Carried(f, i) : j \in Nat /\ j + 1 \in Carried(k, i)
  BY <1>2, <1>3 DEF Carried
<1> QED BY <1>2, <1>3, <1>4 DEF Carried

LEMMA WritesTurnFine ==
  ASSUME StreamsInv, NEW c \in Conns, Writes(c)
  PROVE  /\ TurnFine(hub', conn', rpcs', at', answers')
         /\ answers' \in [Rpcs -> Nat] /\ \A i \in Rpcs : rpcs[i] = None => answers'[i] = 0
<1> DEFINE k == conn[c]
           m == Head(k.out)
           f == Written(k)
<1>1. TurnFine(hub, conn, rpcs, at, answers) /\ HubFine(hub) /\ conn \in [Conns -> Conn]
      /\ (\A d \in Conns : ConnFine(conn[d], at[d])) /\ Owners(hub, conn, rpcs)
      /\ (\A i \in Rpcs : Once(hub, conn, answers, i))
      /\ (hub.ended => \A d \in Conns : ~Attached(conn[d], Modes))
  BY HubIs DEF TurnFine, ConnsFine
<1>2. k.out # <<>> /\ ~k.wake /\ Got(c, m) /\ hub' = hub /\ rpcs' = rpcs
  BY DEF Writes
<1>3. k \in Conn /\ k.out \in Seq(Msg) /\ m \in Msg
  BY <1>1, <1>2, ConnFields, TailIs
<1>4. conn' = [conn EXCEPT ![c] = f]
  BY DEF Writes, Written
<1>5. answers' = IF m.rpc # None THEN [answers EXCEPT ![m.rpc] = @ + 1] ELSE answers
  BY DEF Writes
<1>6. at' = [at EXCEPT ![c] = Moved(m, at[c])]
  BY <1>2, GotFine
<1>7. at \in [Conns -> Spot \cup {None}] /\ answers \in [Rpcs -> Nat]
      /\ rpcs \in [Rpcs -> Conns \cup {None, "gone"}]
      /\ \A i \in Rpcs : rpcs[i] = None => answers[i] = 0
  BY DEF StreamsInv, ClientsFine
<1>8. ConnFine(f, Moved(m, at[c])) /\ f \in Conn /\ f.att = k.att /\ f.out = Tail(k.out)
  BY <1>1, <1>2, <1>3, WrittenFine, WrittenIs DEF StreamsInv
<1>9. \A i : /\ \A j \in Carried(f, i) : j \in Nat /\ j + 1 \in Carried(k, i)
             /\ m.rpc = i => 1 \in Carried(k, i)
  BY <1>2, <1>3, <1>8, CarriedTail
<1>10. m.rpc \in Rpcs \cup {None} /\ None \notin Rpcs /\ None \notin Conns
  BY <1>3, MsgIs, NoneIsNot, ClientsAssumption
<1> HIDE DEF f, m
<1>11. /\ conn'[c] = f /\ at'[c] = Moved(m, at[c]) /\ conn' \in [Conns -> Conn]
       /\ \A d \in Conns : d # c => conn'[d] = conn[d] /\ at'[d] = at[d]
  BY <1>1, <1>4, <1>6, <1>7, <1>8
<1> HIDE DEF k
<1>12. ConnsFine(conn', at')
  <2>1. ASSUME NEW d \in Conns PROVE ConnFine(conn'[d], at'[d])
    <3>1. CASE d = c
      BY <1>8, <1>11, <3>1
    <3>2. CASE d # c
      BY <1>1, <1>11, <3>2
    <3> QED BY <3>1, <3>2
  <2> QED BY <1>11, <2>1 DEF ConnsFine
<1>13. \A d \in Conns : conn'[d].att = conn[d].att
  BY <1>8, <1>11 DEF k
<1>14. \A d \in Conns, i \in Rpcs : Carried(conn'[d], i) # {} => Carried(conn[d], i) # {}
  <2> SUFFICES ASSUME NEW d \in Conns, NEW i \in Rpcs, Carried(conn'[d], i) # {}
               PROVE  Carried(conn[d], i) # {}
    OBVIOUS
  <2>1. CASE d = c
    BY <1>9, <1>11, <2>1 DEF k
  <2>2. CASE d # c
    BY <1>11, <2>2
  <2> QED BY <2>1, <2>2
<1>15. Owners(hub', conn', rpcs')
  <2>1. Owners(hub, conn, rpcs) /\ hub' = hub /\ rpcs' = rpcs
    BY <1>1, <1>2
  <2>2. \A x \in hub'.early \cup hub'.waiting : rpcs'[x.rpc] = x.conn
    BY <2>1 DEF Owners
  <2>3. \A d \in Conns : Attached(conn'[d], {"fetching"})
          => conn'[d].att.rpc \in Rpcs /\ rpcs'[conn'[d].att.rpc] = d
    BY <1>13, <2>1 DEF Owners, Attached
  <2>4. \A d \in Conns, i \in Rpcs : Carried(conn'[d], i) # {} => rpcs'[i] = d
    BY <1>14, <2>1 DEF Owners
  <2> QED BY <2>2, <2>3, <2>4 DEF Owners
<1>16. \A i \in Rpcs : Owed(hub', conn', i) <=> Owed(hub, conn, i)
  BY <1>2, <1>13 DEF Owed, IsEarly, IsAwaited, IsFetched, Attached
<1>17. ASSUME NEW i \in Rpcs PROVE Once(hub', conn', answers', i)
  <2>1. Once(hub, conn, answers, i)
    BY <1>1
  <2>2. (IsEarly(hub', i) <=> IsEarly(hub, i)) /\ (IsAwaited(hub', i) <=> IsAwaited(hub, i))
        /\ (IsFetched(conn', i) <=> IsFetched(conn, i)) /\ hub'.early = hub.early
    BY <1>2, <1>13 DEF IsFetched, Attached
  <2>3. \A d \in Conns : \A j, l \in Carried(conn'[d], i) : j = l
    <3> SUFFICES ASSUME NEW d \in Conns, NEW j \in Carried(conn'[d], i), NEW l \in Carried(conn'[d], i)
                 PROVE  j = l
      OBVIOUS
    <3>1. CASE d = c
      <4>1. j \in Nat /\ l \in Nat /\ j + 1 \in Carried(k, i) /\ l + 1 \in Carried(k, i)
        BY <1>9, <1>11, <3>1
      <4>2. j + 1 = l + 1
        BY <2>1, <4>1 DEF Once, k
      <4> QED BY <4>1, <4>2
    <3>2. CASE d # c
      BY <1>11, <2>1, <3>2 DEF Once
    <3> QED BY <3>1, <3>2
  <2>4. IsQueued(conn', i) => IsQueued(conn, i)
    BY <1>14 DEF IsQueued
  <2>5. CASE m.rpc # i
    <3>1. answers'[i] = answers[i]
      BY <1>5, <1>7, <1>10, <2>5
    <3> QED BY <1>16, <2>1, <2>2, <2>3, <2>4, <3>1 DEF Once
  <2>6. CASE m.rpc = i
    <3>1. 1 \in Carried(k, i)
      BY <1>9, <2>6
    <3>2. IsQueued(conn, i) /\ rpcs[i] = c
      BY <1>1, <3>1 DEF IsQueued, Owners, k
    <3>3. answers[i] = 0 /\ ~Owed(hub, conn, i)
      BY <2>1, <3>2 DEF Once
    <3>4. answers'[i] = 1
      <4>1. i # None /\ answers' = [answers EXCEPT ![i] = @ + 1]
        BY <1>5, <1>10, <2>6
      <4> QED BY <1>7, <3>3, <4>1
    <3>5. ~IsQueued(conn', i)
      <4> SUFFICES ASSUME NEW d \in Conns, NEW j \in Carried(conn'[d], i) PROVE FALSE
        BY DEF IsQueued
      <4>1. CASE d = c
        <5>1. j \in Nat /\ j + 1 \in Carried(k, i)
          BY <1>9, <1>11, <4>1
        <5>2. j + 1 = 1
          BY <2>1, <3>1, <5>1 DEF Once, k
        <5>3. f.out \in Seq(Msg) /\ j \in DOMAIN f.out
          BY <1>8, <1>11, <4>1, ConnFields DEF Carried
        <5>4. j > 0
          BY <5>3
        <5> QED BY <5>1, <5>2, <5>4
      <4>2. CASE d # c
        <5>1. Carried(conn[d], i) # {}
          BY <1>11, <4>2
        <5> QED BY <1>1, <3>2, <4>2, <5>1 DEF Owners
      <4> QED BY <4>1, <4>2
    <3> QED BY <1>16, <2>1, <2>2, <2>3, <3>3, <3>4, <3>5 DEF Once
  <2> QED BY <2>5, <2>6
<1>18. TurnFine(hub', conn', rpcs', at', answers')
  <2>1. hub'.ended => \A d \in Conns : ~Attached(conn'[d], Modes)
    BY <1>1, <1>2, <1>13 DEF Attached
  <2> QED BY <1>1, <1>2, <1>12, <1>15, <1>17, <2>1 DEF TurnFine
<1>19. answers' \in [Rpcs -> Nat] /\ \A i \in Rpcs : rpcs[i] = None => answers'[i] = 0
  <2>1. CASE m.rpc = None
    BY <1>5, <1>7, <2>1
  <2>2. CASE m.rpc # None
    <3>1. m.rpc \in Rpcs /\ answers' = [answers EXCEPT ![m.rpc] = answers[m.rpc] + 1]
      BY <1>5, <1>10, <2>2
    <3>2. rpcs[m.rpc] = c
      BY <1>1, <1>9, <3>1 DEF Owners, k
    <3> QED BY <1>7, <1>10, <3>1, <3>2
  <2> QED BY <2>1, <2>2
<1> QED BY <1>18, <1>19

LEMMA WritesFine ==
  ASSUME StreamsInv, NEW c \in Conns, Writes(c)
  PROVE  StreamsInv'
<1>1. TurnFine(hub', conn', rpcs', at', answers')
      /\ answers' \in [Rpcs -> Nat] /\ \A i \in Rpcs : rpcs[i] = None => answers'[i] = 0
  BY WritesTurnFine
<1> DEFINE m == Head(conn[c].out)
           n == Moved(m, at[c])
<1>2. at' = [at EXCEPT ![c] = n] /\ torn' = FALSE /\ seen' \in Spot /\ n \in Spot \cup {None}
  BY GotFine DEF Writes
<1> HIDE DEF n
<1>3. ClientsFine(rpcs', at', answers')
  <2>1. at' \in [Conns -> Spot \cup {None}]
    BY <1>2 DEF StreamsInv, ClientsFine
  <2> QED BY <1>1, <2>1 DEF StreamsInv, ClientsFine, Writes
<1>4. Later
  BY Stays DEF StreamsInv, Writes, sessiondVars
<1>5. LanesFine(toV', toS', commands', outs')
  BY DEF StreamsInv, LanesFine, Writes, laneVars
<1>6. PlacesFine(oldest', pump', actor', seen')
  BY <1>2 DEF StreamsInv, PlacesFine, Writes, sessiondVars
<1>7. FlagsFine(repumping', linked', stalled', torn')
  BY <1>2 DEF StreamsInv, FlagsFine, Writes, laneVars
<1> QED BY <1>1, <1>3, <1>4, <1>5, <1>6, <1>7, StepsOn

\* A connection changes, and answers nothing.
LEMMA ConnChanges ==
  ASSUME StreamsInv, NEW c \in Conns, NEW f, ConnFine(f, at[c]), hub.ended => ~Attached(f, Modes),
         Quiet(conn[c], f), conn' = [conn EXCEPT ![c] = f],
         UNCHANGED <<sessiondVars, laneVars, actor, hub, clientVars, stalled>>
  PROVE  StreamsInv'
<1>1. TurnFine(hub, conn', rpcs, at, answers)
  BY HubIs, QuietOne
<1>2. Later
  BY Stays DEF StreamsInv, sessiondVars
<1>3. LanesFine(toV', toS', commands', outs') /\ PlacesFine(oldest', pump', actor', seen')
  BY DEF StreamsInv, LanesFine, PlacesFine, sessiondVars, laneVars, clientVars
<1>4. ClientsFine(rpcs', at', answers') /\ FlagsFine(repumping', linked', stalled', torn')
  BY DEF StreamsInv, ClientsFine, FlagsFine, laneVars, clientVars
<1>5. TurnFine(hub', conn', rpcs', at', answers')
  BY <1>1 DEF clientVars
<1> QED BY <1>2, <1>3, <1>4, <1>5, StepsOn

LEMMA ConnOf ==
  ASSUME StreamsInv, NEW c \in Conns
  PROVE  /\ conn[c] \in Conn /\ ConnFine(conn[c], at[c]) /\ conn \in [Conns -> Conn]
         /\ hub.ended => ~Attached(conn[c], Modes)
BY HubIs DEF TurnFine, ConnsFine

LEMMA StoresFine ==
  ASSUME StreamsInv, NEW c \in Conns, Stores(c)
  PROVE  StreamsInv'
<1> DEFINE k == conn[c]
           f == [k EXCEPT !.storing = FALSE, !.catching = TRUE]
<1>1. k \in Conn /\ ConnFine(k, at[c]) /\ conn \in [Conns -> Conn]
      /\ (hub.ended => ~Attached(k, Modes))
  BY ConnOf
<1>2. conn' = [conn EXCEPT ![c] = f]
  BY <1>1 DEF Stores
<1> HIDE DEF k
<1>3. f \in Conn /\ f.att = k.att /\ f.out = k.out /\ f.missed = k.missed /\ f.wake = k.wake
      /\ f.catching = TRUE
  BY <1>1 DEF Conn
<1> HIDE DEF f
<1>4. Queued(f) = Queued(k) /\ (\A i : Carried(f, i) = Carried(k, i))
      /\ \A modes : Attached(f, modes) <=> Attached(k, modes)
  BY <1>1, <1>3, QueuedIs DEF Carried, Attached
<1>5. ConnFine(f, at[c])
  BY <1>1, <1>3, <1>4 DEF ConnFine, Woken
<1>6. Quiet(k, f)
  BY <1>3, <1>4 DEF Quiet
<1>7. hub.ended => ~Attached(f, Modes)
  BY <1>1, <1>4
<1> QED BY <1>2, <1>5, <1>6, <1>7, ConnChanges DEF Stores, k

LEMMA DrainedFine ==
  ASSUME StreamsInv, NEW c \in Conns, Drained(c)
  PROVE  StreamsInv'
<1> DEFINE a == at[c]
           k == IF Attached(conn[c], {"behind"}) THEN CatchUp(conn[c], hub) ELSE conn[c]
           b == Attached(k, {"behind"})
           f == [k EXCEPT !.wake = FALSE, !.storing = FALSE, !.catching = b]
<1>1. conn[c] \in Conn /\ ConnFine(conn[c], a) /\ (hub.ended => ~Attached(conn[c], Modes))
  BY ConnOf
<1>2. conn' = [conn EXCEPT ![c] = f]
  BY DEF Drained
<1>3. /\ ConnFine(k, a) /\ Quiet(conn[c], k) /\ (hub.ended => ~Attached(k, Modes))
      /\ Attached(k, {"behind"}) => Queued(k) > QueueCap \div 2
  <2>1. CASE Attached(conn[c], {"behind"})
    <3>1. k = CatchUp(conn[c], hub)
      BY <2>1
    <3>2. LogFine /\ hub.head \in Spot /\ hub.tail \in Spot
      BY InvIs DEF StreamsInv
    <3>3. conn[c].att \in Att /\ Steady(conn[c].out, a) /\ Reaches(conn[c].out, a, conn[c].att.next)
      BY <1>1, <2>1, ConnFields DEF ConnFine, Attached
    <3> HIDE DEF k
    <3>4. ConnFine(k, a) /\ Kept(conn[c], k) /\ ~Attached(k, {"fetching"})
          /\ (Attached(k, {"behind"}) => Queued(k) > QueueCap \div 2)
      BY <1>1, <3>1, <3>2, <3>3, CatchUpFine
    <3>5. ~hub.ended
      BY <1>1, <2>1 DEF Attached, Modes
    <3> QED BY <3>4, <3>5, KeptQuiet
  <2>2. CASE ~Attached(conn[c], {"behind"})
    <3>1. k = conn[c]
      BY <2>2
    <3> HIDE DEF k
    <3> QED BY <1>1, <2>2, <3>1 DEF Quiet
  <2> QED BY <2>1, <2>2
<1> HIDE DEF k
<1>4. k \in Conn /\ b \in BOOLEAN
  BY <1>3 DEF ConnFine, Attached
<1> HIDE DEF b
<1>5. f \in Conn /\ f.att = k.att /\ f.out = k.out /\ f.catching = b /\ Queued(f) = Queued(k)
      /\ (\A i : Carried(f, i) = Carried(k, i)) /\ \A modes : Attached(f, modes) <=> Attached(k, modes)
  <2>1. f \in Conn /\ f.att = k.att /\ f.out = k.out /\ f.catching = b
    BY <1>4 DEF Conn
  <2> HIDE DEF f
  <2> QED BY <1>4, <2>1, QueuedIs DEF Carried, Attached
<1> HIDE DEF f
<1>6. ConnFine(f, a)
  BY <1>3, <1>5 DEF ConnFine, Woken, b
<1>7. Quiet(conn[c], f)
  BY <1>3, <1>5 DEF Quiet
<1>8. hub.ended => ~Attached(f, Modes)
  BY <1>3, <1>5
<1> QED BY <1>2, <1>6, <1>7, <1>8, ConnChanges DEF Drained

--------------------
\* Timers.

LEMMA HubAndConnChange ==
  ASSUME StreamsInv, TurnFine(hub', conn', rpcs, at, answers),
         UNCHANGED <<sessiondVars, laneVars, actor, clientVars, stalled>>
  PROVE  StreamsInv'
<1>1. Later
  BY Stays DEF StreamsInv, sessiondVars
<1>2. LanesFine(toV', toS', commands', outs') /\ PlacesFine(oldest', pump', actor', seen')
  BY DEF StreamsInv, LanesFine, PlacesFine, sessiondVars, laneVars, clientVars
<1>3. ClientsFine(rpcs', at', answers') /\ FlagsFine(repumping', linked', stalled', torn')
  BY DEF StreamsInv, ClientsFine, FlagsFine, laneVars, clientVars
<1>4. TurnFine(hub', conn', rpcs', at', answers')
  BY DEF clientVars
<1> QED BY <1>1, <1>2, <1>3, <1>4, StepsOn

LEMMA ExpiresWaitingFine ==
  ASSUME StreamsInv, ExpiresWaiting
  PROVE  StreamsInv'
<1>1. PICK w \in hub.waiting :
        LET t == Tells(Turn(Unwaited(w.rpc), conn), w.conn, Message("refused", w.rpc, None))
        IN  hub' = t.hub /\ conn' = t.conn
  BY DEF ExpiresWaiting
<1> DEFINE u == Turn(Unwaited(w.rpc), conn)
           t == Tells(u, w.conn, Message("refused", w.rpc, None))
<1>2. w.rpc \in Rpcs /\ w.conn \in Conns /\ rpcs[w.rpc] = w.conn /\ answers[w.rpc] = 0
      /\ NowhereIn(u, w.rpc)
  BY HubIs, WaitsIs
<1>3. TurnOk(u, rpcs, at, answers)
  <2>1. TurnFine(Unwaited(w.rpc), conn, rpcs, at, answers)
    BY <1>2, HubIs, UnwaitedFine
  <2> QED BY <2>1, TurnIs
<1>4. hub' = t.hub /\ conn' = t.conn
  BY <1>1
<1> HIDE DEF u
<1>5. Proceeds(u, t, rpcs, at, answers, w.rpc)
  BY <1>2, <1>3, TellsFine
<1> HIDE DEF t
<1>6. TurnFine(hub', conn', rpcs, at, answers)
  BY <1>4, <1>5 DEF Proceeds, TurnOk
<1> QED BY <1>6, HubAndConnChange DEF ExpiresWaiting

LEMMA ExpiresFetchingFine ==
  ASSUME StreamsInv, ExpiresFetching
  PROVE  StreamsInv'
<1>1. PICK c \in Conns :
        /\ Attached(conn[c], {"fetching"})
        /\ conn' = [conn EXCEPT ![c] = Push([@ EXCEPT !.att = None],
                                            Message("refused", conn[c].att.rpc, None))]
  BY DEF ExpiresFetching
<1> DEFINE k == conn[c]
           r == k.att.rpc
           g == [k EXCEPT !.att = None]
           m == Message("refused", r, None)
           f == Push(g, m)
<1>2. TurnFine(hub, conn, rpcs, at, answers) /\ Owners(hub, conn, rpcs) /\ HubFine(hub)
      /\ \A i \in Rpcs : Once(hub, conn, answers, i)
  BY HubIs DEF TurnFine
<1>3. k \in Conn /\ Steady(k.out, at[c]) /\ (hub.ended => ~Attached(k, Modes))
      /\ conn \in [Conns -> Conn]
  BY ConnOf DEF ConnFine
<1>4. r \in Rpcs /\ rpcs[r] = c
  BY <1>1, <1>2 DEF Owners
<1>5. IsFetched(conn, r)
  BY <1>1 DEF IsFetched
<1>6. answers[r] = 0 /\ ~IsQueued(conn, r) /\ ~IsEarly(hub, r) /\ ~IsAwaited(hub, r)
  BY <1>2, <1>4, <1>5 DEF Once, Owed
<1>7. conn' = [conn EXCEPT ![c] = f]
  BY <1>1, <1>3
<1>8. m \in Msg /\ m.is # "bytes" /\ m.rpc = r /\ ~Moves(m)
  BY <1>4, MessageIs
<1> HIDE DEF m, k
<1>9. g \in Conn /\ g.att = None /\ g.out = k.out /\ \A i : Carried(g, i) = Carried(k, i)
  BY <1>3 DEF Conn, Carried
<1> HIDE DEF g
<1>10. ConnFine(g, at[c])
  BY <1>3, <1>9, UnattachedFine
<1>11. ConnFine(f, at[c]) /\ f.att = None /\ Answered(g, f, r)
  BY <1>8, <1>9, <1>10, PushStill
<1>12. Answered(k, f, r)
  BY <1>9, <1>11 DEF Answered
<1> HIDE DEF f
<1>13. ~Attached(f, {"fetching"}) /\ ~Attached(f, Modes)
  BY <1>11 DEF Attached
<1> HIDE DEF r
<1>14. AnsweringOne(hub, conn, rpcs, at, answers, hub, c, f, r)
  BY <1>2, <1>4, <1>6, <1>11, <1>12, <1>13 DEF AnsweringOne, k
<1>15. TurnFine(hub, conn', rpcs, at, answers)
  BY <1>7, <1>14, AnswerOne
<1> QED BY <1>15, HubAndConnChange DEF ExpiresFetching

LEMMA ExpiresEarlyFine ==
  ASSUME StreamsInv, ExpiresEarly
  PROVE  StreamsInv'
<1>1. PICK x \in hub.early :
        /\ hub' = [hub EXCEPT !.early = @ \ {x}]
        /\ conn' = [conn EXCEPT ![x.conn] = Push(@, Message("refused", x.rpc, None))]
  BY DEF ExpiresEarly
<1> DEFINE e == hub.early \ {x}
           g == [hub EXCEPT !.early = e]
           f == Push(conn[x.conn], Message("refused", x.rpc, None))
<1>2. TurnFine(hub, conn, rpcs, at, answers) /\ hub \in Hub /\ Owners(hub, conn, rpcs)
  BY HubIs DEF TurnFine, HubFine
<1>3. x.rpc \in Rpcs /\ x.conn \in Conns /\ rpcs[x.rpc] = x.conn /\ IsEarly(hub, x.rpc)
  BY <1>2 DEF Hub, Pending, Owners, IsEarly
<1>4. Once(hub, conn, answers, x.rpc)
  BY <1>2, <1>3 DEF TurnFine
<1>5. answers[x.rpc] = 0 /\ ~IsQueued(conn, x.rpc) /\ ~IsFetched(conn, x.rpc)
      /\ ~IsAwaited(hub, x.rpc)
  BY <1>3, <1>4 DEF Once, Owed
<1>6. conn' = [conn EXCEPT ![x.conn] = f] /\ hub' = g
  <2>1. conn \in [Conns -> Conn]
    BY <1>2 DEF TurnFine, ConnsFine
  <2> QED BY <1>1, <1>3, <2>1
<1>7. e \subseteq hub.early /\ e \in SUBSET Pending /\ x \notin e
  BY <1>2 DEF Hub
<1>8. \A y \in e : y.rpc # x.rpc
  BY <1>4, <1>7 DEF Once
<1> HIDE DEF e
<1>9. g \in Hub /\ g.early = e /\ g.waiting = hub.waiting /\ g.head = hub.head
      /\ g.tail = hub.tail /\ g.ended = hub.ended /\ g.holds = hub.holds
  BY <1>2, <1>7 DEF Hub
<1> HIDE DEF g
<1>10. TurnFine(g, conn, rpcs, at, answers)
  BY <1>2, <1>7, <1>9, HubStays
<1>11. Nowhere(g, conn, x.rpc)
  BY <1>5, <1>8, <1>9 DEF Nowhere, Owed, IsEarly, IsAwaited
<1>12. AnsweringOne(g, conn, rpcs, at, answers, g, x.conn, f, x.rpc)
  BY <1>3, <1>5, <1>10, <1>11, SaysOne
<1> HIDE DEF f
<1>13. TurnFine(g, conn', rpcs, at, answers)
  BY <1>6, <1>12, AnswerOne
<1> QED BY <1>6, <1>13, HubAndConnChange DEF ExpiresEarly

--------------------
\* The theorems.

LEMMA StreamsStart ==
  ASSUME StreamInit
  PROVE  StreamsInv
<1> DEFINE s == <<>>
<1>1. s \in Seq(Rpcs) /\ s \in Seq(FromSessiond) /\ s \in Seq(ToSessiond) /\ s \in Seq(Spot)
      /\ s \in Seq(Said) /\ s \in Seq({"data", "gap", "exit"}) /\ Len(s) = 0
  OBVIOUS
<1> HIDE DEF s
<1>2. log = s /\ toV = s /\ toS = s /\ commands = s /\ outs = s
      /\ actor = [phase |-> "running", at |-> 0, live_at |-> 0, live |-> TRUE, held |-> s]
  BY DEF StreamInit, s
<1>3. LogFine /\ 0 \in Spot
  BY <1>1, <1>2 DEF LogFine, Spot
<1>4. LanesFine(toV, toS, commands, outs)
  BY <1>1, <1>2 DEF LanesFine
<1>5. actor \in Actor
  BY <1>1, <1>2, <1>3 DEF Actor
<1>6. PlacesFine(oldest, pump, actor, seen)
  BY <1>3, <1>5 DEF StreamInit, PlacesFine
<1>7. ClientsFine(rpcs, at, answers)
  BY DEF StreamInit, ClientsFine
<1>8. FlagsFine(repumping, linked, stalled, torn)
  BY DEF StreamInit, FlagsFine
<1>9. /\ hub.early = {} /\ hub.waiting = {} /\ ~hub.ended
      /\ \A c \in Conns : conn[c] = Unconnected /\ at[c] = None
      /\ \A i \in Rpcs : answers[i] = 0
  BY DEF StreamInit
<1>10. HubFine(hub)
  BY <1>3 DEF StreamInit, HubFine, Hub
<1>11. ConnsFine(conn, at)
  <2>1. Unconnected \in Conn
    BY UnconnectedIs DEF ConnFine
  <2>2. conn \in [Conns -> Conn]
    BY <2>1 DEF StreamInit
  <2> QED BY <1>9, <2>2, UnconnectedIs DEF ConnsFine
<1>12. \A c \in Conns : ~Attached(conn[c], {"fetching"}) /\ \A i \in Rpcs : Carried(conn[c], i) = {}
  BY <1>9, UnconnectedIs
<1>13. Owners(hub, conn, rpcs)
  BY <1>9, <1>12 DEF Owners
<1>14. \A i \in Rpcs : Once(hub, conn, answers, i)
  <2> SUFFICES ASSUME NEW i \in Rpcs PROVE Once(hub, conn, answers, i)
    OBVIOUS
  <2>1. ~IsEarly(hub, i) /\ ~IsAwaited(hub, i) /\ ~IsFetched(conn, i) /\ ~IsQueued(conn, i)
    BY <1>9, <1>12 DEF IsEarly, IsAwaited, IsFetched, IsQueued
  <2> QED BY <1>9, <1>12, <2>1 DEF Once, Owed
<1>15. TurnFine(hub, conn, rpcs, at, answers)
  BY <1>9, <1>10, <1>11, <1>13, <1>14 DEF TurnFine
<1> QED BY <1>3, <1>4, <1>6, <1>7, <1>8, <1>15 DEF StreamsInv

LEMMA StreamsStep ==
  ASSUME StreamsInv, [StreamNext]_streamVars
  PROVE  StreamsInv'
<1>1. CASE UNCHANGED streamVars
  <2>1. UNCHANGED <<sessiondVars, laneVars, actor, hub, conn, clientVars, stalled>>
    BY <1>1 DEF streamVars
  <2>2. TurnFine(hub', conn', rpcs, at, answers)
    BY <2>1, HubIs
  <2> QED BY <2>1, <2>2, HubAndConnChange
<1>2. CASE ServesAttach
  BY <1>2, ServesAttachFine
<1>3. CASE Pumps
  BY <1>3, PumpsFine
<1>4. CASE ReceivesEntries
  BY <1>4, ReceivesEntriesFine
<1>5. CASE ReceivesCheckpoint
  BY <1>5, ReceivesCheckpointFine
<1>6. CASE ReceivesRefusal
  BY <1>6, ReceivesRefusalFine
<1>7. CASE HearsApplied
  BY <1>7, HearsAppliedFine
<1>8. CASE HearsLive
  BY <1>8, HearsLiveFine
<1>9. CASE HearsSnapshot
  BY <1>9, HearsSnapshotFine
<1>10. CASE HearsEnd
  BY <1>10, HearsEndFine
<1>11. CASE ForwardsFetch
  BY <1>11, ForwardsFetchFine
<1>12. CASE HoldEnds
  BY <1>12, HoldEndsFine
<1>13. CASE Links
  BY <1>13, LinksFine
<1>14. CASE ExpiresWaiting
  BY <1>14, ExpiresWaitingFine
<1>15. CASE ExpiresFetching
  BY <1>15, ExpiresFetchingFine
<1>16. CASE ExpiresEarly
  BY <1>16, ExpiresEarlyFine
<1>17. CASE \E c \in Conns : Writes(c) \/ Stores(c) \/ Drained(c)
  BY <1>17, WritesFine, StoresFine, DrainedFine
<1>18. CASE Prints
  BY <1>18, PrintsFine
<1>19. CASE Trims
  BY <1>19, TrimsFine
<1>20. CASE Dozes
  BY <1>20, DozesFine
<1>21. CASE Panics
  BY <1>21, PanicsFine
<1>22. CASE Suspends
  BY <1>22, SuspendsFine
<1>23. CASE \E c \in Conns : Asks(c) \/ Disconnects(c)
  BY <1>23, AsksFine, DisconnectsFine
<1> QED
  BY <1>1, <1>2, <1>3, <1>4, <1>5, <1>6, <1>7, <1>8, <1>9, <1>10, <1>11, <1>12, <1>13, <1>14,
     <1>15, <1>16, <1>17, <1>18, <1>19, <1>20, <1>21, <1>22, <1>23
     DEF StreamNext, System

\* What the session's streams keep: every message a client is going to
\* read moves it on from where it is, every attach is in one place, and
\* who fell behind is woken (vornd/src/streams.rs).
THEOREM StreamsInvariant == StreamSpec => []StreamsInv
<1>1. StreamInit => StreamsInv
  BY StreamsStart
<1>2. StreamsInv /\ [StreamNext]_streamVars => StreamsInv'
  BY StreamsStep
<1> QED BY <1>1, <1>2, PTL DEF StreamSpec

\* Places, phases and flags stay what they are, nobody is attached to a
\* session that ended, and an attach is awaited by whom asked.
THEOREM StreamsTypes == StreamSpec => []TypeOK
<1>1. ASSUME StreamsInv PROVE TypeOK
  <2>1. LogFine /\ TurnFine(hub, conn, rpcs, at, answers) /\ hub \in Hub /\ hub.tail <= hub.head
        /\ Owners(hub, conn, rpcs) /\ actor \in Actor /\ Len(log) \in Nat
    BY <1>1, HubIs, InvIs DEF TurnFine, HubFine
  <2>2. oldest \in 0..Len(log) /\ pump \in 0..Len(log) \cup {None}
    BY <1>1 DEF StreamsInv, PlacesFine, Spot
  <2>3. \A i \in 1..Len(log) - 1 : log[i] # "exit"
    BY <2>1 DEF LogFine
  <2>4. hub.head \in 0..Len(log) /\ hub.tail \in 0..hub.head /\ hub.fetch \in 0..Len(log) \cup {None}
    BY <2>1 DEF Hub, Spot
  <2>5. actor.phase \in {"attaching", "running", "down"} /\ actor.at \in 0..Len(log)
    BY <2>1 DEF Actor, Spot
  <2>6. ASSUME NEW c \in Conns
        PROVE  /\ conn[c].att # None => conn[c].att.next \in 0..Len(log) /\ conn[c].att.mode \in Modes
               /\ hub.ended => ~Attached(conn[c], Modes)
               /\ at[c] \in 0..Len(log) \cup {None}
    <3>1. conn[c] \in Conn /\ (hub.ended => ~Attached(conn[c], Modes))
      BY <1>1, ConnOf
    <3>2. at[c] \in 0..Len(log) \cup {None}
      BY <1>1 DEF StreamsInv, ClientsFine, Spot
    <3> QED BY <3>1, <3>2 DEF Conn, Att, Spot
  <2>7. \A w \in hub.waiting \cup hub.early : rpcs[w.rpc] = w.conn
    BY <2>1 DEF Owners
  <2>8. {torn, stalled, linked, repumping} \subseteq BOOLEAN
    BY <1>1 DEF StreamsInv, FlagsFine
  <2> QED BY <2>2, <2>3, <2>4, <2>5, <2>6, <2>7, <2>8 DEF TypeOK
<1> QED BY <1>1, StreamsInvariant, PTL

\* Whatever a client gets after an answer follows it record by record
\* (deliver, catch_up, snapshot_ready and written in streams.rs).
THEOREM ClientsAlwaysSeeRuns == StreamSpec => []ClientsSeeRuns
<1>1. StreamsInv => ClientsSeeRuns
  BY DEF StreamsInv, FlagsFine, ClientsSeeRuns
<1> QED BY <1>1, StreamsInvariant, PTL

\* No attach is answered twice, by whatever comes to it
\* (attach, snapshot_ready, fetch_refused, closed and expire).
THEOREM AttachesAnsweredAtMostOnce == StreamSpec => []AnsweredAtMostOnce
<1>1. ASSUME StreamsInv PROVE AnsweredAtMostOnce
  <2> SUFFICES ASSUME NEW i \in Rpcs, rpcs[i] \in Conns
               PROVE  answers[i] + Cardinality({j \in DOMAIN conn[rpcs[i]].out :
                                                  conn[rpcs[i]].out[j].rpc = i}) <= 1
    BY DEF AnsweredAtMostOnce
  <2> DEFINE c == rpcs[i]
             Q == Carried(conn[c], i)
  <2>1. Q = {j \in DOMAIN conn[rpcs[i]].out : conn[rpcs[i]].out[j].rpc = i}
    BY DEF Carried
  <2>2. Once(hub, conn, answers, i) /\ c \in Conns
    BY <1>1, HubIs DEF TurnFine
  <2>3. answers[i] \in {0, 1} /\ (\A j, l \in Q : j = l) /\ (Q # {} => answers[i] = 0)
    BY <2>2 DEF Once, IsQueued
  <2> HIDE DEF Q
  <2>4. CASE Q = {}
    <3>1. Cardinality(Q) = 0
      BY <2>4, FS_EmptySet
    <3> QED BY <2>1, <2>3, <3>1
  <2>5. CASE Q # {}
    <3>1. PICK j \in Q : Q = {j}
      BY <2>3, <2>5
    <3>2. Cardinality(Q) = 1
      BY <3>1, FS_Singleton
    <3> QED BY <2>1, <2>3, <2>5, <3>2
  <2> QED BY <2>4, <2>5
<1> QED BY <1>1, StreamsInvariant, PTL

\* Whoever fell behind is woken when its queue empties, or missed it in
\* the moment before it asked to be (FallsBehind and written).
THEOREM BehindAlwaysWoken == StreamSpec => []BehindIsWoken
<1>1. ASSUME StreamsInv PROVE BehindIsWoken
  <2>1. \A c \in Conns : Woken(conn[c])
    BY <1>1, ConnOf DEF ConnFine
  <2> QED BY <2>1 DEF BehindIsWoken, Woken
<1> QED BY <1>1, StreamsInvariant, PTL

--------------------
\* No attach is forgotten.

LEMMA RetainsKept ==
  ASSUME NEW k, NEW f, Kept(k, f),
         Attached(k, {"fetching"}) => Attached(f, {"fetching"}) /\ f.att.rpc = k.att.rpc
  PROVE  Retains(k, f)
BY DEF Kept, Retains, Has

LEMMA RetainsAnswered ==
  ASSUME NEW k, NEW f, NEW r \in Rpcs, Answered(k, f, r), Attached(k, {"fetching"}) => k.att.rpc = r
  PROVE  Retains(k, f) /\ Has(f, r)
<1>1. \A i \in Rpcs : Carried(f, i) = Carried(k, i) \cup (IF i = r THEN {Len(k.out) + 1} ELSE {})
  BY DEF Answered
<1>2. Carried(f, r) # {}
  BY <1>1
<1>3. ASSUME NEW i \in Rpcs, Has(k, i) PROVE Has(f, i)
  <2>1. CASE i = r
    BY <1>2, <2>1 DEF Has
  <2>2. CASE i # r
    <3>1. Carried(k, i) # {}
      BY <1>3, <2>2 DEF Has
    <3> QED BY <1>1, <3>1 DEF Has
  <2> QED BY <2>1, <2>2
<1> QED BY <1>2, <1>3 DEF Retains, Has

\* A message is pushed; what the connection has, it keeps.
LEMMA RetainsPush ==
  ASSUME NEW k \in Conn, NEW m \in Msg
  PROVE  /\ Retains(k, Push(k, m)) /\ Push(k, m).att = k.att
         /\ m.rpc \in Rpcs => Has(Push(k, m), m.rpc)
         /\ \A i \in Rpcs : Carried(k, i) # {} => Carried(Push(k, m), i) # {}
<1>1. Push(k, m).att = k.att
  BY DEF Push, Conn
<1>2. ASSUME NEW i \in Rpcs
      PROVE  /\ Carried(k, i) # {} => Carried(Push(k, m), i) # {}
             /\ i = m.rpc => Carried(Push(k, m), i) # {}
  <2>1. Carried(Push(k, m), i) = Carried(k, i) \cup (IF m.rpc = i THEN {Len(k.out) + 1} ELSE {})
    BY CarriedPush
  <2> QED BY <2>1
<1> HIDE DEF Push
<1>3. Retains(k, Push(k, m))
  BY <1>1, <1>2 DEF Retains, Has, Attached
<1> QED BY <1>1, <1>2, <1>3 DEF Has

\* One connection changes, and keeps what it has.
LEMMA RetainedPut ==
  ASSUME NEW h, NEW ks, NEW c \in Conns, NEW f, Retains(ks[c], f), NEW fs,
         fs[c] = f, \A d \in Conns : d # c => fs[d] = ks[d], NEW g,
         \A i \in Rpcs : IsEarly(h, i) \/ IsAwaited(h, i) => Holds(g, fs, i)
  PROVE  /\ Retained(h, ks, g, fs)
         /\ \A i : Has(f, i) => Holds(g, fs, i)
<1>1. ASSUME NEW i \in Rpcs, Holds(h, ks, i) PROVE Holds(g, fs, i)
  <2>1. CASE IsEarly(h, i) \/ IsAwaited(h, i)
    BY <2>1
  <2>2. CASE \E d \in Conns : Has(ks[d], i)
    <3>1. PICK d \in Conns : Has(ks[d], i)
      BY <2>2
    <3>2. CASE d = c
      BY <3>1, <3>2 DEF Retains, Holds
    <3>3. CASE d # c
      BY <3>1, <3>3 DEF Holds
    <3> QED BY <3>2, <3>3
  <2> QED BY <1>1, <2>1, <2>2 DEF Holds
<1>2. \A i : Has(f, i) => Holds(g, fs, i)
  BY DEF Holds
<1> QED BY <1>1, <1>2 DEF Retained

LEMMA RetainedAll ==
  ASSUME NEW h, NEW ks, NEW g, NEW fs, \A c \in Conns : Retains(ks[c], fs[c]),
         \A i \in Rpcs : IsEarly(h, i) \/ IsAwaited(h, i) => Holds(g, fs, i)
  PROVE  Retained(h, ks, g, fs)
BY DEF Retained, Retains, Holds

LEMMA PutRetains ==
  ASSUME NEW t \in Turns, NEW c \in Conns, NEW f \in Conn, Retains(t.conn[c], f)
  PROVE  /\ RetainedIn(t, Put(t, c, f)) /\ \A i : Has(f, i) => HoldsIn(Put(t, c, f), i)
         /\ Put(t, c, f).hub = t.hub /\ Put(t, c, f).asks = t.asks /\ Put(t, c, f).fetches = t.fetches
         /\ Put(t, c, f).conn[c] = f /\ \A d \in Conns : d # c => Put(t, c, f).conn[d] = t.conn[d]
<1> DEFINE s == Put(t, c, f)
<1>1. /\ s.hub = t.hub /\ s.asks = t.asks /\ s.fetches = t.fetches /\ s.conn[c] = f
      /\ \A d \in Conns : d # c => s.conn[d] = t.conn[d]
  <2>1. s = [t EXCEPT !.conn[c] = f]
    BY DEF Put
  <2> HIDE DEF s
  <2> QED BY <2>1, TurnPut
<1> HIDE DEF s
<1>2. \A i \in Rpcs : IsEarly(t.hub, i) \/ IsAwaited(t.hub, i) => Holds(s.hub, s.conn, i)
  BY <1>1 DEF Holds
<1>3. Retained(t.hub, t.conn, s.hub, s.conn) /\ \A i : Has(f, i) => Holds(s.hub, s.conn, i)
  BY <1>1, <1>2, RetainedPut
<1> QED BY <1>1, <1>3 DEF RetainedIn, HoldsIn, s

--------------------
\* Where a feed leaves an attachment.

\* It is left past the batch, unless it was full, and the batch went on,
\* or lost.
LEMMA FeedEnds ==
  ASSUME LogFine, NEW k \in Conn, NEW from \in Spot, NEW lo \in Spot, NEW hi \in Spot
  PROVE  LET f == Feed(k, from, lo, hi)
         IN  /\ f.full \in BOOLEAN /\ f.lost \in BOOLEAN
             /\ ~f.full /\ ~f.lost => hi <= f.next /\ from <= f.next
             /\ f.full => from < hi
<1> DEFINE first == IF lo > from THEN lo ELSE from
           hole == first < hi /\ first # from
           gaps == {r \in first..hi - 1 : Kind(r) = "gap"}
           end == IF hole THEN from ELSE IF gaps = {} THEN hi ELSE Min(gaps)
           exits == {r \in from..end - 1 : Kind(r) = "exit"}
           wanted == Cardinality((from..end - 1) \ exits)
           room == IF Queued(k) > QueueCap THEN 0 ELSE QueueCap + 1 - Queued(k)
           sent == IF wanted > room THEN room ELSE wanted
           full == sent < wanted
           next == IF full THEN from + sent ELSE IF end > from THEN end ELSE from
           f == Feed(k, from, lo, hi)
<1>1. f.full = full /\ f.lost = (~full /\ (hole \/ gaps # {})) /\ f.next = next
  BY DEF Feed
<1>2. from \in Nat /\ lo \in Nat /\ hi \in Nat /\ hi <= Len(log) /\ from <= Len(log) /\ Len(log) \in Nat
      /\ Queued(k) \in Nat /\ QueueCap \in Nat
  BY LogIs, QueuedIs, NoneIsNot
<1>3. end \in Spot /\ (hole => end = from) /\ (~hole /\ gaps = {} => end = hi)
      /\ (~hole /\ gaps # {} => end < hi)
  <2>1. gaps # {} => Min(gaps) \in gaps
    <3>1. gaps \in SUBSET Nat
      BY <1>2
    <3> HIDE DEF gaps
    <3> QED BY <3>1, LeastIs
  <2>2. gaps # {} => Min(gaps) \in Nat /\ Min(gaps) <= hi - 1
    BY <1>2, <2>1
  <2> HIDE DEF gaps, hole
  <2> QED BY <1>2, <2>2, LogIs
<1> HIDE DEF end
<1>4. wanted \in Nat /\ (from >= end => wanted = 0)
  BY <1>3, StretchIs
<1> HIDE DEF wanted, exits
<1>5. room \in Nat
  BY <1>2
<1> HIDE DEF room
<1>6. full => from < end
  BY <1>2, <1>3, <1>4, <1>5, LogIs
<1>7. full \in BOOLEAN /\ hole \in BOOLEAN
  OBVIOUS
<1> HIDE DEF sent, full, gaps, hole
<1>8. end \in Nat
  BY <1>3, LogIs
<1>9. full => from < hi
  BY <1>2, <1>3, <1>6, <1>8
<1>10. ~full /\ ~(hole \/ gaps # {}) => hi <= next /\ from <= next
  BY <1>2, <1>3, <1>8
<1> HIDE DEF next, f
<1> QED BY <1>1, <1>7, <1>9, <1>10 DEF f

LEMMA ModesApart ==
  ASSUME NEW k
  PROVE  /\ k.att = None => ~Attached(k, {"following"}) /\ ~Attached(k, {"behind"}) /\ ~Attached(k, {"fetching"})
         /\ Attached(k, {"following"}) => ~Attached(k, {"behind"}) /\ ~Attached(k, {"fetching"})
         /\ Attached(k, {"behind"}) => ~Attached(k, {"fetching"})
BY DEF Attached

\* It follows a hub that is no further.
LEMMA PlacingAt ==
  ASSUME NEW k, NEW h, k.att.mode = "following", h.head <= k.att.next
  PROVE  Placing(k, h)
BY DEF Placing, Attached

LEMMA PlacingNone ==
  ASSUME NEW k, NEW h, k.att = None
  PROVE  Placing(k, h)
BY DEF Placing, Attached

LEMMA PlacingBehind ==
  ASSUME NEW k, NEW next, NEW h, h.tail < h.head, k.att.mode = "behind"
  PROVE  Placing(k, h)
BY DEF Placing, Attached

LEMMA FallsBehindPlaced ==
  ASSUME NEW k \in Conn, k.att \in Att, NEW next \in Spot, NEW h, h.tail < h.head
  PROVE  Placing(FallsBehind(k, next), h)
<1> DEFINE b == [k.att EXCEPT !.next = next, !.mode = "behind"]
           f == FallsBehind(k, next)
<1>1. b.mode = "behind"
  BY DEF Att
<1>2. f = [k EXCEPT !.att = b, !.storing = TRUE, !.missed = FALSE]
  BY DEF FallsBehind, Conn
<1> HIDE DEF b, f
<1>3. f.att = b
  BY <1>2 DEF Conn
<1> QED BY <1>1, <1>3, PlacingBehind DEF f

LEMMA LostPlaced ==
  ASSUME NEW k \in Conn, NEW h
  PROVE  LET f == Push([k EXCEPT !.att = None], Note("resync"))
         IN  Placing(f, h) /\ f.att = None
<1> DEFINE g == [k EXCEPT !.att = None]
           f == Push(g, Note("resync"))
<1>1. g \in Conn /\ g.att = None
  BY DEF Conn
<1> HIDE DEF g
<1>2. f.att = None
  BY <1>1 DEF Push, Conn
<1> HIDE DEF f
<1> QED BY <1>2, PlacingNone DEF f, g

LEMMA CatchUpPlaced ==
  ASSUME LogFine, NEW k \in Conn, k.att \in Att, NEW a, Steady(k.out, a),
         Reaches(k.out, a, k.att.next), NEW h, h.head \in Spot, h.tail \in Spot, h.tail <= h.head,
         h.head <= k.att.next \/ h.tail < h.head
  PROVE  Placing(CatchUp(k, h), h)
<1> DEFINE f == CatchUp(k, h)
           fed == Feed(k, k.att.next, h.tail, h.head)
           follows(n) == [k.att EXCEPT !.next = n, !.mode = "following"]
<1>1. k.att.next \in Spot /\ k.att.next \in Nat /\ h.head \in Nat /\ h.tail \in Nat
  BY ConnFields, LogIs DEF Att
<1>2. /\ fed.full \in BOOLEAN /\ fed.lost \in BOOLEAN /\ fed.next \in Spot
      /\ Kept(k, fed.conn) /\ fed.conn = [k EXCEPT !.out = fed.conn.out]
      /\ Steady(fed.conn.out, a) /\ Reaches(fed.conn.out, a, fed.next)
      /\ fed.full => Queued(fed.conn) > QueueCap
  BY <1>1, FeedFine
<1>3. fed.conn \in Conn /\ fed.conn.att = k.att
  BY <1>2 DEF Kept, Conn
<1>4. \A n \in Spot : follows(n) \in Att /\ follows(n).mode = "following" /\ follows(n).next = n
  BY DEF Att, Modes
<1>5. /\ ~fed.full /\ ~fed.lost => h.head <= fed.next
  BY <1>1, FeedEnds
<1>6. CASE k.att.next >= h.head \/ h.tail = h.head
  <2>1. f = [k EXCEPT !.att = follows(k.att.next)]
    BY <1>6 DEF CatchUp, Conn, Att
  <2>2. h.head <= k.att.next
    BY <1>1, <1>6
  <2> HIDE DEF follows, f
  <2>3. f.att = follows(k.att.next)
    BY <2>1 DEF Conn
  <2>4. f.att.mode = "following" /\ h.head <= f.att.next
    BY <1>1, <1>4, <2>2, <2>3
  <2> QED BY <2>4, PlacingAt DEF f
<1> DEFINE stops == k.att.next >= h.head \/ h.tail = h.head
<1>7. ~stops => h.tail < h.head
  BY <1>1
<1>8. CASE ~stops /\ Queued(k) > QueueCap
  <2>1. f = FallsBehind(k, k.att.next)
    BY <1>8 DEF CatchUp
  <2> QED BY <1>1, <1>7, <1>8, <2>1, FallsBehindPlaced
<1>9. CASE ~stops /\ ~(Queued(k) > QueueCap) /\ fed.full
  <2>1. f = FallsBehind(fed.conn, fed.next)
    BY <1>9 DEF CatchUp
  <2> HIDE DEF f, fed, stops
  <2> QED BY <1>2, <1>3, <1>7, <1>9, <2>1, FallsBehindPlaced DEF f
<1>10. CASE ~stops /\ ~(Queued(k) > QueueCap) /\ ~fed.full /\ fed.lost
  <2>1. f = Push([fed.conn EXCEPT !.att = None], Note("resync"))
    BY <1>10 DEF CatchUp
  <2> HIDE DEF f, fed, stops
  <2> QED BY <1>3, <2>1, LostPlaced DEF f
<1>11. CASE ~stops /\ ~(Queued(k) > QueueCap) /\ ~fed.full /\ ~fed.lost
  <2>1. f = [fed.conn EXCEPT !.att.next = fed.next, !.att.mode = "following"]
    BY <1>11 DEF CatchUp
  <2> HIDE DEF fed, stops
  <2>2. f.att = follows(fed.next)
    BY <1>3, <2>1 DEF Conn
  <2> HIDE DEF f, follows
  <2>3. f.att.mode = "following" /\ h.head <= f.att.next
    BY <1>2, <1>4, <1>5, <1>11, <2>2
  <2> QED BY <2>3, PlacingAt DEF f
<1> HIDE DEF stops, f
<1> QED BY <1>2, <1>6, <1>8, <1>9, <1>10, <1>11 DEF stops, f

\* A batch leaves the hub at its end, or where it was, past that; and what
\* it moves has a tail.
LEMMA ExtendedPlaced ==
  ASSUME LogFine, NEW h, HubFine(h), NEW lo \in Spot, NEW hi \in Spot, lo < hi
  PROVE  LET g == Extended(h, lo, hi)
         IN  /\ g.live = h.live /\ g.fetch = h.fetch /\ g.holds = h.holds /\ g.ended = h.ended
             /\ g.early = h.early /\ g.waiting = h.waiting /\ g.head \in Spot /\ g.tail \in Spot
             /\ h.head <= hi => g.head = hi
             /\ g.head = hi \/ (g.head = h.head /\ hi <= h.head)
             /\ g.tail < g.head \/ (g.tail = h.tail /\ g.head = h.head /\ hi <= h.head)
<1> DEFINE first == IF lo > h.head THEN lo ELSE h.head
           from == IF first = h.head THEN h.tail ELSE first
           fits == {f \in from..hi - 1 :
                      f = hi - 1 \/ Cardinality({x \in f..hi - 1 : Kind(x) = "data"}) <= TailCap}
           m == Min(fits)
           g == Extended(h, lo, hi)
<1>1. h \in Hub /\ h.tail <= h.head /\ h.tail \in Nat /\ h.head \in Nat /\ h.head \in Spot /\ h.tail \in Spot
      /\ lo \in Nat /\ hi \in Nat /\ hi <= Len(log) /\ Len(log) \in Nat
  BY LogIs DEF HubFine, Hub, Spot
<1>2. CASE first >= hi
  <2>1. g = h
    BY <1>2 DEF Extended
  <2>2. hi <= h.head
    BY <1>1, <1>2
  <2> HIDE DEF g
  <2> QED BY <1>1, <2>1, <2>2 DEF g
<1>3. CASE ~(first >= hi)
  <2>1. from \in Nat /\ from <= hi - 1
    BY <1>1, <1>3
  <2>2. fits \in SUBSET Nat /\ hi - 1 \in fits
    BY <1>1, <2>1
  <2>3. m \in fits
    <3> HIDE DEF fits
    <3> QED BY <2>2, LeastIs
  <2>4. m \in Nat /\ m < hi /\ m \in Spot
    BY <1>1, <2>1, <2>3 DEF Spot
  <2>5. g = [h EXCEPT !.head = hi, !.tail = m]
    BY <1>3 DEF Extended
  <2> HIDE DEF m, g
  <2>6. g.head = hi /\ g.tail = m /\ g.live = h.live /\ g.fetch = h.fetch
        /\ g.holds = h.holds /\ g.ended = h.ended /\ g.early = h.early /\ g.waiting = h.waiting
    BY <1>1, <2>5 DEF Hub
  <2>7. g.tail < g.head /\ g.head \in Spot /\ g.tail \in Spot
    BY <1>1, <2>4, <2>6
  <2> QED BY <2>6, <2>7 DEF g
<1> QED BY <1>2, <1>3

LEMMA DeliversInOrderPlaced ==
  ASSUME LogFine, NEW k, NEW a, ConnFine(k, a), Attached(k, {"following"}),
         NEW lo \in Spot, NEW hi \in Spot, NEW h, NEW g, h.head \in Spot, h.head <= k.att.next,
         g.head = hi \/ g.head = h.head,
         g.tail < g.head \/ hi <= h.head
  PROVE  Placing(DeliversInOrder(k, lo, hi), g)
<1> DEFINE f == DeliversInOrder(k, lo, hi)
           fed == Feed(k, k.att.next, lo, hi)
<1>1. k \in Conn /\ k.att \in Att /\ k.att.next \in Spot /\ Steady(k.out, a) /\ k.att.mode = "following"
      /\ Reaches(k.out, a, k.att.next)
  BY ConnFields DEF ConnFine, Attached, Att
<1>2. /\ fed.full \in BOOLEAN /\ fed.lost \in BOOLEAN /\ fed.next \in Spot
      /\ Kept(k, fed.conn) /\ fed.conn = [k EXCEPT !.out = fed.conn.out]
      /\ Steady(fed.conn.out, a) /\ Reaches(fed.conn.out, a, fed.next)
      /\ fed.full => Queued(fed.conn) > QueueCap
  BY <1>1, FeedFine
<1>3. fed.conn \in Conn /\ fed.conn.att = k.att
  BY <1>1, <1>2 DEF Kept, Conn
<1>4. /\ ~fed.full /\ ~fed.lost => hi <= fed.next /\ k.att.next <= fed.next
      /\ fed.full => k.att.next < hi
  BY <1>1, FeedEnds
<1>5. f = IF fed.full THEN FallsBehind(fed.conn, fed.next)
          ELSE IF fed.lost THEN Push([fed.conn EXCEPT !.att = None], Note("resync"))
          ELSE [fed.conn EXCEPT !.att.next = fed.next]
  BY DEF DeliversInOrder
<1> HIDE DEF f, fed
<1>6. k.att.next \in Nat /\ h.head \in Nat /\ hi \in Nat /\ fed.next \in Nat
  BY <1>1, <1>2, LogIs
<1>7. CASE fed.full
  <2>1. g.tail < g.head
    BY <1>4, <1>6, <1>7
  <2> QED BY <1>1, <1>2, <1>3, <1>5, <1>7, <2>1, FallsBehindPlaced DEF f
<1>8. CASE ~fed.full /\ fed.lost
  BY <1>3, <1>5, <1>8, LostPlaced DEF f
<1>9. CASE ~fed.full /\ ~fed.lost
  <2>1. f.att = [k.att EXCEPT !.next = fed.next]
    BY <1>3, <1>5, <1>9 DEF Conn
  <2>2. f.att.mode = "following" /\ f.att.next = fed.next
    BY <1>1, <2>1 DEF Att
  <2>3. g.head <= f.att.next
    BY <1>4, <1>6, <1>9, <2>2
  <2> QED BY <2>2, <2>3, PlacingAt DEF f
<1> QED BY <1>2, <1>7, <1>8, <1>9

LEMMA DeliversFetchedPlaced ==
  ASSUME LogFine, NEW k, NEW a, ConnFine(k, a), Attached(k, {"fetching"}), k.att.rpc \in Rpcs,
         NEW lo \in Spot, NEW hi \in Spot, NEW g, g.head = hi
  PROVE  Placing(DeliversFetched(k, lo, hi), g)
<1> DEFINE f == DeliversFetched(k, lo, hi)
           m == Message("continued", k.att.rpc, k.att.next)
           said == Push(k, m)
           fed == Feed(said, k.att.next, k.att.next, hi)
<1>1. k \in Conn /\ k.att \in Att /\ k.att.next \in Spot /\ Steady(k.out, a)
  BY ConnFields DEF ConnFine, Attached, Att
<1>2. m \in Msg /\ m.is # "bytes" /\ Moves(m) /\ m.at = k.att.next /\ m.rpc = k.att.rpc
  BY <1>1, MessageIs
<1>3. f = IF fed.full THEN Push(Dropped(fed.conn), Note("resync"))
          ELSE IF fed.lost THEN Push([fed.conn EXCEPT !.att = None], Note("resync"))
          ELSE [fed.conn EXCEPT !.att = Attachment(fed.next, "following", None)]
  BY DEF DeliversFetched
<1> HIDE DEF f, m
<1>4. said \in Conn /\ Steady(said.out, a) /\ Ends(said.out, a, k.att.next)
  BY <1>1, <1>2, PushFine
<1> HIDE DEF said
<1>5. /\ fed.full \in BOOLEAN /\ fed.lost \in BOOLEAN /\ fed.next \in Spot
      /\ Kept(said, fed.conn)
      /\ Steady(fed.conn.out, a) /\ Reaches(fed.conn.out, a, fed.next)
  <2>1. Reaches(said.out, a, k.att.next)
    BY <1>4 DEF Reaches
  <2> QED BY <1>1, <1>4, <2>1, FeedFine
<1>6. ~fed.full /\ ~fed.lost => hi <= fed.next
  BY <1>1, <1>4, FeedEnds
<1> HIDE DEF fed
<1>7. fed.conn \in Conn
  BY <1>5 DEF Kept
<1>8. CASE fed.full
  <2> DEFINE d == Dropped(fed.conn)
  <2>1. Kept(fed.conn, d) /\ d.att = None /\ d \in Conn
    BY <1>5, <1>7, DroppedFine DEF Kept
  <2> HIDE DEF d
  <2>2. f = Push([d EXCEPT !.att = None], Note("resync"))
    <3>1. d = [d EXCEPT !.att = None]
      BY <2>1 DEF Conn
    <3> QED BY <1>3, <1>8, <3>1 DEF d
  <2> QED BY <2>1, <2>2, LostPlaced DEF f
<1>9. CASE ~fed.full /\ fed.lost
  BY <1>3, <1>7, <1>9, LostPlaced DEF f
<1>10. CASE ~fed.full /\ ~fed.lost
  <2>1. f.att = Attachment(fed.next, "following", None)
    BY <1>3, <1>7, <1>10 DEF Conn
  <2>2. f.att.mode = "following" /\ g.head <= f.att.next
    BY <1>6, <1>10, <2>1 DEF Attachment
  <2> QED BY <2>2, PlacingAt DEF f
<1> QED BY <1>5, <1>8, <1>9, <1>10

\* A connection's part in a batch the hub was not past.
LEMMA DeliversPlaced ==
  ASSUME LogFine, NEW k, NEW a, ConnFine(k, a), Attached(k, {"fetching"}) => k.att.rpc \in Rpcs,
         NEW lo \in Spot, NEW hi \in Spot, lo < hi, NEW h, HubFine(h), h.head <= hi, Placing(k, h),
         NEW g, g.head = Extended(h, lo, hi).head, g.tail = Extended(h, lo, hi).tail
  PROVE  /\ Placing(Delivers(k, lo, hi), g) /\ Retains(k, Delivers(k, lo, hi))
<1> DEFINE f == Delivers(k, lo, hi)
<1>1. /\ g.head = hi /\ h.head \in Spot /\ h.head \in Nat /\ hi \in Nat /\ h.tail \in Nat
      /\ g.tail < g.head \/ (g.tail = h.tail /\ g.head = h.head /\ hi <= h.head)
  BY ExtendedPlaced, LogIs DEF HubFine, Hub
<1>2. k \in Conn
  BY DEF ConnFine
<1>3. CASE Attached(k, {"following"})
  <2>1. f = DeliversInOrder(k, lo, hi)
    BY <1>3 DEF Delivers, Attached
  <2>2. h.head <= k.att.next
    BY <1>3 DEF Placing
  <2>3. Placing(DeliversInOrder(k, lo, hi), g)
    BY <1>1, <1>3, <2>2, DeliversInOrderPlaced
  <2>4. Kept(k, DeliversInOrder(k, lo, hi))
    BY <1>3, DeliversInOrderFine
  <2>5. Retains(k, DeliversInOrder(k, lo, hi))
    BY <1>3, <2>4, RetainsKept, ModesApart
  <2> QED BY <2>1, <2>3, <2>5
<1>4. CASE ~Attached(k, {"following"}) /\ Attached(k, {"fetching"}) /\ k.att.next \in lo..hi - 1
  <2>1. f = DeliversFetched(k, lo, hi)
    BY <1>4 DEF Delivers, Attached
  <2>2. Placing(DeliversFetched(k, lo, hi), g)
    BY <1>1, <1>4, DeliversFetchedPlaced
  <2>3. Answered(k, DeliversFetched(k, lo, hi), k.att.rpc)
    BY <1>4, DeliversFetchedFine
  <2>4. Retains(k, DeliversFetched(k, lo, hi))
    BY <1>4, <2>3, RetainsAnswered
  <2> QED BY <2>1, <2>2, <2>4
<1>5. CASE ~Attached(k, {"following"}) /\ ~(Attached(k, {"fetching"}) /\ k.att.next \in lo..hi - 1)
  <2>1. f = k
    BY <1>5 DEF Delivers
  <2>2. Placing(k, g)
    BY <1>1, <1>5 DEF Placing
  <2>3. Retains(k, k)
    BY DEF Retains
  <2> QED BY <2>1, <2>2, <2>3
<1> QED BY <1>3, <1>4, <1>5

--------------------
\* A turn that serves an attach forgets none, and leaves the hub where it
\* was.

LEMMA FollowsTwice ==
  ASSUME NEW t, NEW r, NEW s, Follows(t, r), Follows(r, s)
  PROVE  Follows(t, s)
<1>1. RetainedIn(t, s)
  BY DEF Follows, RetainedIn, Retained
<1>2. SameHub(t.hub, s.hub)
  BY DEF Follows, Moderate, SameHub
<1> QED BY <1>1, <1>2 DEF Follows, Moderate

LEMMA PlacingSame ==
  ASSUME NEW k, NEW h, NEW g, SameHub(h, g)
  PROVE  Placing(k, h) <=> Placing(k, g)
BY DEF Placing, SameHub

\* One connection changes, and the hub does not.
LEMMA PutFollows ==
  ASSUME NEW t \in Turns, NEW c \in Conns, NEW f \in Conn, Retains(t.conn[c], f),
         Placing(t.conn[c], t.hub) => Placing(f, t.hub)
  PROVE  /\ Follows(t, Put(t, c, f)) /\ \A i : Has(f, i) => HoldsIn(Put(t, c, f), i)
         /\ Put(t, c, f).conn[c] = f
<1> DEFINE s == Put(t, c, f)
<1>1. /\ RetainedIn(t, s) /\ \A i : Has(f, i) => HoldsIn(s, i)
      /\ s.hub = t.hub /\ s.asks = t.asks /\ s.fetches = t.fetches
      /\ s.conn[c] = f /\ \A d \in Conns : d # c => s.conn[d] = t.conn[d]
  BY PutRetains
<1> HIDE DEF s
<1>2. ASSUME Placed(t.hub, t.conn) PROVE Placed(s.hub, s.conn)
  <2>1. ASSUME NEW d \in Conns PROVE Placing(s.conn[d], s.hub)
    <3>1. CASE d = c
      BY <1>1, <1>2, <3>1 DEF Placed
    <3>2. CASE d # c
      BY <1>1, <1>2, <3>2 DEF Placed
    <3> QED BY <3>1, <3>2
  <2> QED BY <2>1 DEF Placed
<1>3. SameHub(t.hub, s.hub) /\ (Wanting(s) => Wanting(t)) /\ (Backward(t) => Backward(s))
  BY <1>1 DEF SameHub, Wanting, Backward
<1> QED BY <1>1, <1>2, <1>3 DEF Follows, Moderate, s

LEMMA TellsFollows ==
  ASSUME NEW t \in Turns, NEW c \in Conns, NEW r \in Rpcs, NEW is \in {"refused", "ended"}
  PROVE  Follows(t, Tells(t, c, Message(is, r, None))) /\ HoldsIn(Tells(t, c, Message(is, r, None)), r)
<1> DEFINE m == Message(is, r, None)
           k == t.conn[c]
           f == Push(k, m)
<1>1. m \in Msg /\ m.rpc = r
  BY MessageIs
<1>2. k \in Conn
  BY DEF Turns
<1>3. Tells(t, c, m) = Put(t, c, f)
  BY DEF Tells, Turns, Put
<1> HIDE DEF m
<1>4. Retains(k, f) /\ f.att = k.att /\ Has(f, r)
  <2> HIDE DEF k
  <2> QED BY <1>1, <1>2, RetainsPush
<1>5. f \in Conn
  <2> HIDE DEF k
  <2>1. Append(k.out, m) \in Seq(Msg) /\ f = [k EXCEPT !.out = Append(k.out, m)]
    BY <1>1, <1>2, ConnFields DEF Push, Conn
  <2> HIDE DEF f
  <2> QED BY <1>2, <2>1, ConnFields
<1> HIDE DEF f
<1>6. Placing(k, t.hub) => Placing(f, t.hub)
  BY <1>4 DEF Placing, Attached
<1>7. Follows(t, Put(t, c, f)) /\ HoldsIn(Put(t, c, f), r)
  BY <1>4, <1>5, <1>6, PutFollows DEF k
<1> QED BY <1>3, <1>7 DEF m

LEMMA ReplacesFollows ==
  ASSUME NEW t, NEW own, NEW a, NEW ans, TurnOk(t, own, a, ans), NEW x, x.conn \in Conns
  PROVE  Follows(t, Replaces(t, x))
<1> DEFINE c == x.conn
           k == t.conn[c]
           gone == Dropped(k)
           s == Replaces(t, x)
<1>1. TurnFine(t.hub, t.conn, own, a, ans) /\ t \in Turns /\ k \in Conn /\ Steady(k.out, a[c])
  BY DEF TurnOk, TurnFine, ConnsFine, ConnFine
<1>2. Kept(k, gone) /\ gone.att = None /\ gone \in Conn
  <2> HIDE DEF k
  <2> QED BY <1>1, DroppedFine DEF Kept
<1> HIDE DEF gone
<1>3. CASE ~Attached(k, {"fetching"})
  <2>1. s = Put(t, c, gone)
    BY <1>3 DEF Replaces, gone, Put
  <2>2. Retains(k, gone) /\ Placing(gone, t.hub)
    BY <1>2, <1>3, RetainsKept, PlacingNone
  <2> HIDE DEF s
  <2>3. Follows(t, Put(t, c, gone))
    BY <1>1, <1>2, <2>2, PutFollows
  <2> QED BY <2>1, <2>3 DEF s
<1>4. CASE Attached(k, {"fetching"})
  <2> DEFINE r == k.att.rpc
             m == Message("refused", r, None)
             f == Push(gone, m)
  <2>1. r \in Rpcs
    BY <1>1, <1>4 DEF TurnFine, Owners
  <2>2. s = Put(t, c, f)
    BY <1>4 DEF Replaces, gone, Put
  <2>3. m \in Msg /\ m.rpc = r
    BY <2>1, MessageIs
  <2> HIDE DEF m
  <2>4. /\ Retains(gone, f) /\ f.att = None /\ Has(f, r)
        /\ \A i \in Rpcs : Carried(gone, i) # {} => Carried(f, i) # {}
    BY <1>2, <2>1, <2>3, RetainsPush
  <2>5. f \in Conn
    <3>1. Append(gone.out, m) \in Seq(Msg) /\ f = [gone EXCEPT !.out = Append(gone.out, m)]
      BY <1>2, <2>3, ConnFields DEF Push, Conn
    <3> HIDE DEF f
    <3> QED BY <1>2, <3>1, ConnFields
  <2> HIDE DEF f, s
  <2>6. Retains(k, f)
    <3> SUFFICES ASSUME NEW i \in Rpcs, Has(k, i) PROVE Has(f, i)
      BY DEF Retains
    <3>1. CASE i = r
      BY <2>4, <3>1
    <3>2. CASE Carried(k, i) # {}
      BY <1>2, <2>4, <3>2 DEF Kept, Has
    <3> QED BY <3>1, <3>2 DEF Has
  <2>7. Placing(f, t.hub)
    BY <2>4, PlacingNone
  <2>8. Follows(t, Put(t, c, f))
    BY <1>1, <2>5, <2>6, <2>7, PutFollows
  <2> QED BY <2>2, <2>8 DEF s
<1> QED BY <1>3, <1>4

\* The hub notes it, and the connections stay.
LEMMA NotesFollows ==
  ASSUME NEW t, NEW s, s.conn = t.conn, SameHub(t.hub, s.hub), t.hub.early \subseteq s.hub.early,
         t.hub.waiting \subseteq s.hub.waiting, s.fetches = t.fetches, Wanting(s) => Wanting(t)
  PROVE  Follows(t, s)
<1>1. \A i : Holds(t.hub, t.conn, i) => Holds(s.hub, s.conn, i)
  BY DEF Holds, IsEarly, IsAwaited
<1>2. Placed(t.hub, t.conn) => Placed(s.hub, s.conn)
  BY PlacingSame DEF Placed
<1>3. Backward(t) => Backward(s)
  BY DEF Backward, SameHub
<1> QED BY <1>1, <1>2, <1>3 DEF Follows, RetainedIn, Retained, Moderate

LEMMA SnapshotForFollows ==
  ASSUME NEW t \in Turns, NEW x, x \in Pending, t.hub.live
  PROVE  Follows(t, SnapshotFor(t, x)) /\ HoldsIn(SnapshotFor(t, x), x.rpc)
<1> DEFINE s == SnapshotFor(t, x)
           h == t.hub
           w == [rpc |-> x.rpc, conn |-> x.conn]
           g == [h EXCEPT !.waiting = @ \cup {w}]
<1>1. h \in Hub
  BY DEF Turns
<1>2. /\ g.waiting = h.waiting \cup {w} /\ g.early = h.early /\ SameHub(h, g)
  BY <1>1 DEF Hub, SameHub
<1>3. s = [t EXCEPT !.hub = g, !.asks = Append(t.asks, x.rpc)]
  BY DEF SnapshotFor, Turns
<1> HIDE DEF g
<1>4. s.hub = g /\ s.conn = t.conn /\ s.fetches = t.fetches
  BY <1>3 DEF Turns
<1> HIDE DEF s
<1>5. Follows(t, s)
  <2>1. Wanting(t)
    BY DEF Wanting
  <2> QED BY <1>2, <1>4, <2>1, NotesFollows
<1>6. HoldsIn(s, x.rpc)
  <2>1. w \in g.waiting /\ w.rpc = x.rpc
    BY <1>2
  <2>2. IsAwaited(g, x.rpc)
    <3> HIDE DEF w
    <3> QED BY <2>1 DEF IsAwaited
  <2> QED BY <1>4, <2>2 DEF HoldsIn, Holds
<1> QED BY <1>5, <1>6 DEF s

LEMMA EarlyFollows ==
  ASSUME NEW t \in Turns, NEW x
  PROVE  LET s == [t EXCEPT !.hub.early = @ \cup {x}] IN Follows(t, s) /\ HoldsIn(s, x.rpc)
<1> DEFINE s == [t EXCEPT !.hub.early = @ \cup {x}]
           h == t.hub
           g == [h EXCEPT !.early = @ \cup {x}]
<1>1. h \in Hub
  BY DEF Turns
<1>2. g.waiting = h.waiting /\ g.early = h.early \cup {x} /\ SameHub(h, g) /\ g.fetch = h.fetch
  BY <1>1 DEF Hub, SameHub
<1>3. s = [t EXCEPT !.hub = g]
  BY DEF Turns
<1> HIDE DEF g
<1>4. s.hub = g /\ s.conn = t.conn /\ s.fetches = t.fetches /\ s.asks = t.asks
  BY <1>3 DEF Turns
<1> HIDE DEF s
<1>5. Follows(t, s)
  <2>1. Wanting(s) => Wanting(t)
    BY <1>2, <1>4 DEF Wanting, SameHub
  <2> QED BY <1>2, <1>4, <2>1, NotesFollows
<1>6. HoldsIn(s, x.rpc)
  BY <1>2, <1>4 DEF HoldsIn, Holds, IsEarly
<1> QED BY <1>5, <1>6 DEF s

LEMMA CaughtUpPlaced ==
  ASSUME LogFine, NEW d \in Conn, NEW a, Steady(d.out, a), NEW n \in Spot, Ends(d.out, a, n),
         NEW h, HubFine(h), h.head <= n \/ h.tail < h.head
  PROVE  LET f == CatchUp([d EXCEPT !.att = Attachment(n, "following", None)], h)
         IN  Placing(f, h) /\ ~Attached(f, {"fetching"})
<1> DEFINE b == Attachment(n, "following", None)
           there == [d EXCEPT !.att = b]
           f == CatchUp(there, h)
<1>1. b \in Att /\ b.next = n
  BY DEF Attachment, Att, Modes
<1> HIDE DEF b
<1>2. there \in Conn /\ there.out = d.out /\ there.att = b
  BY <1>1 DEF Conn
<1> HIDE DEF there
<1>3. Reaches(there.out, a, there.att.next) /\ Steady(there.out, a)
  BY <1>1, <1>2 DEF Reaches
<1>4. h.head \in Spot /\ h.tail \in Spot /\ h.tail <= h.head
  BY DEF HubFine, Hub
<1>5. Placing(f, h)
  BY <1>1, <1>2, <1>3, <1>4, CatchUpPlaced
<1>6. ~Attached(f, {"fetching"})
  BY <1>1, <1>2, <1>3, <1>4, CatchUpFine
<1> QED BY <1>5, <1>6 DEF f, there, b

LEMMA ContinuesFollows ==
  ASSUME LogFine, NEW t, NEW own, NEW a, NEW ans, NEW x, Asking(t, own, a, ans, x), x.cursor # None,
         Covers(t.hub, x.cursor), t.conn[x.conn].att = None
  PROVE  Follows(t, Continues(t, x)) /\ HoldsIn(Continues(t, x), x.rpc)
<1> DEFINE c == x.conn
           k == t.conn[c]
           r == x.rpc
           h == t.hub
           m == Message("continued", r, x.cursor)
           f == CatchUp([Push(k, m) EXCEPT !.att = Attachment(x.cursor, "following", None)], h)
           s == Continues(t, x)
<1>1. /\ r \in Rpcs /\ c \in Conns /\ t \in Turns /\ HubFine(h) /\ h \in Hub /\ ConnsFine(t.conn, a)
  BY AskingIs
<1>2. x.cursor \in Spot /\ h.head \in Spot /\ h.tail \in Spot
  BY <1>1, AskingIs DEF Hub
<1>3. ConnFine(k, a[c]) /\ k \in Conn /\ Steady(k.out, a[c])
  BY <1>1 DEF ConnsFine, ConnFine
<1>4. h.head <= x.cursor \/ h.tail < h.head
  <2>1. h.head \in Nat /\ h.tail \in Nat /\ x.cursor \in Nat
    BY <1>2, LogIs
  <2> QED BY <2>1 DEF Covers
<1>5. s = Put(t, c, f)
  BY DEF Continues, Put
<1> HIDE DEF s, h
<1>6. ConnFine(f, a[c]) /\ Answered(k, f, r)
  <2> HIDE DEF k, r
  <2> QED BY <1>1, <1>2, <1>3, ContinuedFine DEF m
<1>7. m \in Msg /\ m.is # "bytes" /\ Moves(m) /\ m.at = x.cursor
  BY <1>1, <1>2, MessageIs
<1>8. Placing(f, h)
  <2> HIDE DEF k, m
  <2> DEFINE d == Push(k, m)
  <2>1. d \in Conn /\ Steady(d.out, a[c]) /\ Ends(d.out, a[c], x.cursor)
    BY <1>3, <1>7, PushFine
  <2> HIDE DEF d
  <2>2. Placing(CatchUp([d EXCEPT !.att = Attachment(x.cursor, "following", None)], h), h)
    BY <1>1, <1>2, <1>4, <2>1, CaughtUpPlaced
  <2> QED BY <2>2 DEF d
<1> HIDE DEF f
<1>9. Retains(k, f) /\ Has(f, r)
  <2>1. ~Attached(k, {"fetching"})
    BY ModesApart
  <2> QED BY <1>1, <1>6, <2>1, RetainsAnswered
<1>10. Follows(t, Put(t, c, f)) /\ HoldsIn(Put(t, c, f), r)
  <2>1. f \in Conn
    BY <1>6 DEF ConnFine
  <2> QED BY <1>1, <1>8, <1>9, <2>1, PutFollows DEF h
<1> QED BY <1>5, <1>10 DEF s

LEMMA FetchesFollows ==
  ASSUME LogFine, NEW t, NEW own, NEW a, NEW ans, NEW x, Asking(t, own, a, ans, x), x.cursor # None,
         ~(x.cursor > t.hub.head), t.hub.live, t.conn[x.conn].att = None
  PROVE  Follows(t, Fetches(t, x)) /\ HoldsIn(Fetches(t, x), x.rpc)
<1> DEFINE c == x.conn
           k == t.conn[c]
           h == t.hub
           b == Attachment(x.cursor, "fetching", x.rpc)
           f == [k EXCEPT !.att = b]
           asks == h.fetch = None \/ x.cursor < h.fetch
           put == Put(t, c, f)
           g == [h EXCEPT !.fetch = x.cursor]
           s == Fetches(t, x)
<1>1. x.rpc \in Rpcs /\ c \in Conns /\ t \in Turns /\ h \in Hub /\ k \in Conn /\ x.cursor \in Spot
  BY AskingIs
<1>2. x.cursor <= h.head
  <2>1. h.head \in Nat /\ x.cursor \in Nat
    BY <1>1, LogIs DEF Hub
  <2> QED BY <2>1
<1>3. b \in Att /\ b.mode = "fetching" /\ b.rpc = x.rpc
  BY <1>1 DEF Att, Attachment, Modes
<1>4. [t EXCEPT !.conn[x.conn].att = b] = put
  BY DEF Put
<1>5. s = IF asks THEN [put EXCEPT !.hub.fetch = x.cursor, !.fetches = Append(@, x.cursor)] ELSE put
  BY <1>4 DEF Fetches
<1> HIDE DEF b, s
<1>6. f \in Conn /\ f.out = k.out /\ f.att = b
  <2>1. k \in Conn
    BY <1>1
  <2> HIDE DEF k
  <2> QED BY <1>3, <2>1 DEF Conn
<1>7. f.att # None
  <2>1. x.cursor \in Int /\ x.rpc \in Int
    <3>1. x.cursor \in Nat
      BY <1>1, LogIs
    <3>2. x.rpc \in Nat
      BY <1>1, NoneIsNot
    <3> QED BY <3>1, <3>2
  <2>2. b \in [next : Int, mode : Modes, rpc : Int]
    BY <2>1 DEF b, Attachment, Modes
  <2> QED BY <1>6, <2>2, NoAttachmentAssumption
<1> HIDE DEF f
<1>8. Retains(k, f) /\ Has(f, x.rpc) /\ Placing(f, h)
  <2>1. Attached(f, {"fetching"}) /\ f.att.rpc = x.rpc
    BY <1>3, <1>6, <1>7 DEF Attached
  <2>2. ~Attached(k, {"fetching"})
    BY ModesApart
  <2>3. \A i : Carried(f, i) = Carried(k, i)
    BY <1>6 DEF Carried
  <2>4. Placing(f, h)
    BY <2>1, ModesApart DEF Placing
  <2> QED BY <2>1, <2>2, <2>3, <2>4 DEF Retains, Has
<1>9. Follows(t, put) /\ HoldsIn(put, x.rpc)
  BY <1>1, <1>6, <1>8, PutFollows
<1>10. put \in Turns /\ put.hub = h /\ put.fetches = t.fetches /\ put.asks = t.asks
  BY <1>1, <1>6, TurnPut DEF Put
<1> HIDE DEF put
<1>11. CASE ~asks
  BY <1>5, <1>9, <1>11 DEF s
<1>12. CASE asks
  <2>1. s = [put EXCEPT !.hub = g, !.fetches = Append(put.fetches, x.cursor)]
    BY <1>5, <1>10, <1>12 DEF Turns
  <2>2. SameHub(h, g) /\ g.early = h.early /\ g.waiting = h.waiting
    BY <1>1 DEF Hub, SameHub
  <2> HIDE DEF g
  <2>3. s.hub = g /\ s.conn = put.conn /\ s.asks = put.asks /\ s.fetches = Append(put.fetches, x.cursor)
    BY <1>10, <2>1 DEF Turns
  <2>4. \A i : Holds(s.hub, s.conn, i) <=> Holds(put.hub, put.conn, i)
    BY <1>10, <2>2, <2>3 DEF Holds, IsEarly, IsAwaited
  <2>5. Placed(put.hub, put.conn) => Placed(s.hub, s.conn)
    BY <1>10, <2>2, <2>3, PlacingSame DEF Placed
  <2>6. Wanting(put)
    BY <1>10 DEF Wanting
  <2>7. ASSUME Backward(put) PROVE Backward(s)
    <3>1. s.hub.head = put.hub.head
      BY <1>10, <2>2, <2>3 DEF SameHub
    <3>2. put.fetches \in Seq(Spot) /\ Len(put.fetches) \in Nat
          /\ Len(s.fetches) = Len(put.fetches) + 1 /\ s.fetches[Len(put.fetches) + 1] = x.cursor
          /\ \A i \in 1..Len(put.fetches) : s.fetches[i] = put.fetches[i]
      <4>1. put.fetches \in Seq(Spot)
        BY <1>10 DEF Turns
      <4> QED BY <1>1, <2>3, <4>1, AppendIs
    <3>3. ASSUME NEW i \in 1..Len(s.fetches) PROVE s.fetches[i] <= s.hub.head
      <4>1. CASE i \in 1..Len(put.fetches)
        BY <2>7, <3>1, <3>2, <4>1 DEF Backward
      <4>2. CASE i = Len(put.fetches) + 1
        BY <1>2, <1>10, <3>1, <3>2, <4>2
      <4> QED BY <3>2, <4>1, <4>2
    <3> QED BY <3>3 DEF Backward
  <2>8. Moderate(put, s)
    BY <1>10, <2>2, <2>3, <2>5, <2>6, <2>7 DEF Moderate
  <2>9. RetainedIn(put, s)
    BY <2>4 DEF RetainedIn, Retained
  <2>10. Follows(put, s)
    BY <2>8, <2>9 DEF Follows
  <2> QED BY <1>9, <2>4, <2>10, FollowsTwice DEF HoldsIn, s
<1> QED BY <1>11, <1>12

\* An attach is answered, early, awaited or fetched for, and nothing else
\* changes that matters to another.
LEMMA AttachesFollows ==
  ASSUME LogFine, NEW t, NEW own, NEW a, NEW ans, NEW x, Asking(t, own, a, ans, x)
  PROVE  Follows(t, Attaches(t, x)) /\ HoldsIn(Attaches(t, x), x.rpc)
<1> DEFINE h == t.hub
           r == Replaces(t, x)
           s == Attaches(t, x)
<1>1. x.rpc \in Rpcs /\ x.conn \in Conns /\ h \in Hub
  BY AskingIs
<1>2. Proceeds(t, r, own, a, ans, None) /\ r.conn[x.conn].att = None
  BY <1>1, ReplacesFine DEF Asking
<1>3. Asking(r, own, a, ans, x) /\ r.hub = h
  BY <1>1, <1>2, NoneIsNot DEF Proceeds, Asking
<1>4. Follows(t, r)
  BY <1>1, ReplacesFollows DEF Asking
<1>5. r \in Turns
  BY <1>3, AskingIs
<1> HIDE DEF r, s
<1>6. CASE ~h.holds
  <2> DEFINE is == IF h.ended THEN "ended" ELSE "refused"
  <2>1. s = Tells(t, x.conn, Message(is, x.rpc, None))
    BY <1>6 DEF s, Attaches
  <2>2. is \in {"refused", "ended"} /\ t \in Turns
    BY AskingIs
  <2> HIDE DEF is
  <2>3. Follows(t, s) /\ HoldsIn(s, x.rpc)
    BY <1>1, <2>1, <2>2, TellsFollows
  <2> QED BY <2>3 DEF s
<1>7. CASE h.holds /\ ~h.live
  <2>1. s = [r EXCEPT !.hub.early = @ \cup {x}]
    BY <1>7 DEF s, Attaches, r
  <2>2. Follows(r, s) /\ HoldsIn(s, x.rpc)
    BY <1>5, <2>1, EarlyFollows
  <2> QED BY <1>4, <2>2, FollowsTwice DEF s
<1>8. CASE h.holds /\ h.live
  <2>1. s = SnapshotFor(r, x) \/ (x.cursor # None /\ Covers(h, x.cursor) /\ s = Continues(r, x))
        \/ (x.cursor # None /\ ~(x.cursor > h.head) /\ s = Fetches(r, x))
    <3>1. CASE x.cursor = None
      BY <1>8, <3>1 DEF s, Attaches, r
    <3>2. CASE x.cursor # None
      <4>1. s = IF Covers(h, x.cursor)
                THEN IF \E y \in x.cursor..h.head - 1 : Kind(y) = "gap" THEN SnapshotFor(r, x)
                     ELSE Continues(r, x)
                ELSE IF x.cursor > h.head THEN SnapshotFor(r, x) ELSE Fetches(r, x)
        BY <1>8, <3>2 DEF s, Attaches, r
      <4> QED BY <3>2, <4>1
    <3> QED BY <3>1, <3>2
  <2>2. x \in Pending
    BY DEF Asking
  <2>3. CASE s = SnapshotFor(r, x)
    <3>1. Follows(r, s) /\ HoldsIn(s, x.rpc)
      BY <1>3, <1>5, <1>8, <2>2, <2>3, SnapshotForFollows
    <3> QED BY <1>4, <3>1, FollowsTwice DEF s
  <2>4. CASE x.cursor # None /\ Covers(h, x.cursor) /\ s = Continues(r, x)
    <3>1. Follows(r, s) /\ HoldsIn(s, x.rpc)
      BY <1>2, <1>3, <2>4, ContinuesFollows
    <3> QED BY <1>4, <3>1, FollowsTwice DEF s
  <2>5. CASE x.cursor # None /\ ~(x.cursor > h.head) /\ s = Fetches(r, x)
    <3>1. Follows(r, s) /\ HoldsIn(s, x.rpc)
      BY <1>2, <1>3, <1>8, <2>5, FetchesFollows
    <3> QED BY <1>4, <3>1, FollowsTwice DEF s
  <2> QED BY <2>1, <2>3, <2>4, <2>5
<1> QED BY <1>6, <1>7, <1>8

--------------------
\* live: every attach that came before is held from its turn on.

LEMMA ModerateTwice ==
  ASSUME NEW t, NEW r, NEW s, Moderate(t, r), Moderate(r, s)
  PROVE  Moderate(t, s)
<1>1. SameHub(t.hub, s.hub)
  BY DEF Moderate, SameHub
<1> QED BY <1>1 DEF Moderate

LEMMA ResumesFollows ==
  ASSUME LogFine, NEW own, NEW a, NEW ans, TurnFine(hub, conn, own, a, ans), NEW base, NEW t,
         NEW i \in Nat, i > 0, Resuming(t, own, a, ans, i - 1), Keeping(base, t, i - 1)
  PROVE  Keeping(base, Resumes(t, i), i)
<1>1. hub.early \subseteq Pending /\ \A x \in hub.early : x.rpc \in Nat /\ x.rpc \in Rpcs /\ x \in Pending
  BY NoneIsNot DEF TurnFine, HubFine, Hub, Pending
<1>2. CASE \E x \in hub.early : x.rpc = i
  <2> DEFINE x == CHOOSE x \in hub.early : x.rpc = i
             s == Attaches(t, x)
  <2>1. x \in hub.early /\ x.rpc = i
    BY <1>2
  <2>2. Resumes(t, i) = s
    BY <1>2 DEF Resumes
  <2> HIDE DEF x
  <2>3. IsEarly(hub, i) /\ Owed(hub, conn, i) /\ i \in Rpcs
    BY <1>1, <2>1 DEF IsEarly, Owed
  <2>4. own[x.rpc] = x.conn /\ ans[x.rpc] = 0
    BY <2>1, <2>3, OwedIs
  <2>5. x.rpc > i - 1
    BY <2>1
  <2>6. Asking(t, own, a, ans, x)
    BY <1>1, <2>1, <2>4, <2>5 DEF Asking, Resuming
  <2>7. Follows(t, s) /\ HoldsIn(s, i)
    BY <2>1, <2>6, AttachesFollows
  <2> HIDE DEF s
  <2>8. Moderate(base, s)
    BY <2>7, ModerateTwice DEF Keeping, Follows
  <2>9. ASSUME NEW j \in Rpcs, Holds(hub, conn, j), IsEarly(hub, j) => j <= i
        PROVE  HoldsIn(s, j)
    <3>1. CASE j = i
      BY <2>7, <3>1
    <3>2. CASE j # i
      <4>1. j \in Nat
        BY NoneIsNot
      <4>2. IsEarly(hub, j) => j <= i - 1
        BY <2>9, <3>2, <4>1
      <4>3. HoldsIn(t, j)
        BY <2>9, <4>2 DEF Keeping
      <4> QED BY <2>7, <4>3 DEF Follows, RetainedIn, Retained, HoldsIn
    <3> QED BY <3>1, <3>2
  <2> QED BY <2>2, <2>8, <2>9 DEF Keeping
<1>3. CASE ~\E x \in hub.early : x.rpc = i
  <2>1. Resumes(t, i) = t
    BY <1>3 DEF Resumes
  <2>2. ASSUME NEW j \in Rpcs, IsEarly(hub, j), j <= i PROVE j <= i - 1
    <3>1. j # i /\ j \in Nat
      BY <1>3, <2>2, NoneIsNot DEF IsEarly
    <3> QED BY <2>2, <3>1
  <2> QED BY <2>1, <2>2 DEF Keeping
<1> QED BY <1>2, <1>3

LEMMA ResumedFollows ==
  ASSUME LogFine, NEW own, NEW a, NEW ans, TurnFine(hub, conn, own, a, ans), NEW base,
         Resuming(base, own, a, ans, 0), Keeping(base, base, 0), NEW n \in Nat, NEW f,
         Resumed(base, n, f)
  PROVE  Keeping(base, f[n], n)
<1> DEFINE T == {i \in 0..n : Resuming(f[i], own, a, ans, i) /\ Keeping(base, f[i], i)}
<1>1. \A i \in 0..n : f[i] = IF i = 0 THEN base ELSE Resumes(f[i - 1], i)
  BY DEF Resumed
<1>2. n \in T
  <2> SUFFICES ASSUME n \notin T PROVE FALSE
    OBVIOUS
  <2>1. PICK m \in 0..n : m \notin T /\ \A i \in 0..m - 1 : i \in T
    <3> HIDE DEF T
    <3> QED BY LeastOutside
  <2>2. m # 0
    <3>1. f[0] = base
      BY <1>1
    <3> QED BY <2>1, <3>1
  <2>3. m - 1 \in 0..m - 1 /\ m \in Nat /\ m > 0
    BY <2>2
  <2>4. Resuming(f[m - 1], own, a, ans, m - 1) /\ Keeping(base, f[m - 1], m - 1)
    BY <2>1, <2>3
  <2>5. f[m] = Resumes(f[m - 1], m)
    BY <1>1, <2>2
  <2>6. Resuming(f[m], own, a, ans, m)
    BY <2>3, <2>4, <2>5, ResumesFine
  <2>7. Keeping(base, f[m], m)
    BY <2>3, <2>4, <2>5, ResumesFollows
  <2> QED BY <2>1, <2>6, <2>7
<1> QED BY <1>2

\* What is asked for is something the hub has had.
LEMMA LiveFollows ==
  ASSUME LogFine, NEW own, NEW a, NEW ans, TurnFine(hub, conn, own, a, ans), hub.holds,
         NEW n \in Spot
  PROVE  LET s == Live(n)
         IN  /\ Retained(hub, conn, s.hub, s.conn) /\ Backward(s)
             /\ s.hub.head = n /\ s.hub.holds
             /\ hub.head = n /\ Placed(hub, conn) => Placed(s.hub, s.conn)
<1> DEFINE h == [hub EXCEPT !.live = TRUE, !.early = {}, !.head = n,
                            !.tail = IF hub.head = n THEN @ ELSE n]
           base == Turn(h, conn)
<1>1. hub \in Hub /\ hub.tail <= hub.head /\ ~hub.ended /\ hub.tail \in Spot /\ hub.head \in Spot
      /\ Spot \subseteq Nat
  BY LogIs DEF TurnFine, HubFine, Hub
<1>2. h \in Hub /\ h.early = {} /\ h.waiting = hub.waiting /\ h.ended = hub.ended
      /\ h.holds = hub.holds /\ h.head = n /\ h.tail = IF hub.head = n THEN hub.tail ELSE n
  BY <1>1 DEF Hub
<1> HIDE DEF h
<1>3. HubFine(h)
  BY <1>1, <1>2 DEF HubFine
<1>4. TurnFine(h, conn, own, a, ans)
  <2>1. ConnsFine(conn, a)
    BY DEF TurnFine
  <2>2. \A c \in Conns : Quiet(conn[c], conn[c])
    BY DEF Quiet
  <2>3. h.early \subseteq hub.early /\ h.waiting \subseteq hub.waiting /\ ~h.ended
    BY <1>1, <1>2
  <2> QED BY <1>3, <2>1, <2>2, <2>3, QuietTurn
<1>5. TurnOk(base, own, a, ans) /\ base.hub = h /\ base.conn = conn /\ base.fetches = <<>>
  BY <1>4, TurnIs DEF Turn
<1> HIDE DEF base
<1>6. ASSUME NEW x \in hub.early PROVE NowhereIn(base, x.rpc)
  <2>1. x.rpc \in Rpcs /\ IsEarly(hub, x.rpc) /\ Owed(hub, conn, x.rpc)
    BY <1>1 DEF Hub, Pending, IsEarly, Owed
  <2>2. ~IsAwaited(hub, x.rpc) /\ ~IsFetched(conn, x.rpc) /\ ~IsQueued(conn, x.rpc)
    BY <2>1 DEF TurnFine, Once
  <2>3. ~IsEarly(h, x.rpc) /\ ~IsAwaited(h, x.rpc)
    BY <1>2, <2>2 DEF IsEarly, IsAwaited
  <2> QED BY <1>5, <2>2, <2>3 DEF NowhereIn, Nowhere, Owed
<1>7. Resuming(base, own, a, ans, 0)
  BY <1>5, <1>6 DEF Resuming
<1>8. Keeping(base, base, 0)
  <2>1. Moderate(base, base)
    BY DEF Moderate, SameHub
  <2>2. ASSUME NEW j \in Rpcs, Holds(hub, conn, j), IsEarly(hub, j) => j <= 0
        PROVE  HoldsIn(base, j)
    <3>1. ~IsEarly(hub, j)
      BY <2>2 DEF Rpcs
    <3> QED BY <1>2, <1>5, <2>2, <3>1 DEF HoldsIn, Holds, IsAwaited
  <2> QED BY <2>1, <2>2 DEF Keeping
<1>9. PICK f : Resumed(base, MaxAttaches, f)
  BY ResumedExists, NoneIsNot
<1> DEFINE after == CHOOSE u : Resumed(base, MaxAttaches, u)
<1>10. Resumed(base, MaxAttaches, after)
  BY <1>9
<1>11. Live(n) = after[MaxAttaches]
  BY DEF Live, Resumed, Resumes, base, h
<1> HIDE DEF after
<1>12. Keeping(base, after[MaxAttaches], MaxAttaches)
  BY <1>7, <1>8, <1>10, ResumedFollows, NoneIsNot
<1> DEFINE s == after[MaxAttaches]
<1>13. Moderate(base, s) /\ \A j \in Rpcs : Holds(hub, conn, j) => HoldsIn(s, j)
  <2>1. \A j \in Rpcs : j <= MaxAttaches
    BY DEF Rpcs
  <2> QED BY <1>12, <2>1 DEF Keeping
<1> HIDE DEF s
<1>14. Retained(hub, conn, s.hub, s.conn)
  BY <1>13 DEF Retained, HoldsIn
<1>15. Backward(base)
  BY <1>5 DEF Backward
<1>16. Backward(s) /\ s.hub.head = n /\ s.hub.holds
  BY <1>2, <1>5, <1>13, <1>15 DEF Moderate, SameHub
<1>17. ASSUME hub.head = n, Placed(hub, conn) PROVE Placed(s.hub, s.conn)
  <2>1. h.head = hub.head /\ h.tail = hub.tail
    BY <1>2, <1>17
  <2>2. Placed(h, conn)
    BY <1>17, <2>1 DEF Placed, Placing
  <2> QED BY <1>5, <1>13, <2>2 DEF Moderate
<1> QED BY <1>11, <1>14, <1>16, <1>17 DEF s

--------------------
\* Turns that the actor's words make.

LEMMA TurnParts ==
  ASSUME NEW g, NEW fs
  PROVE  /\ Turn(g, fs).hub = g /\ Turn(g, fs).conn = fs
         /\ Turn(g, fs).asks = <<>> /\ Turn(g, fs).fetches = <<>>
BY DEF Turn

LEMMA AppliedFollows ==
  ASSUME LogFine, NEW own, NEW a, NEW ans, TurnFine(hub, conn, own, a, ans),
         NEW lo \in Spot, NEW hi \in Spot, lo < hi, hub.head <= hi, Placed(hub, conn)
  PROVE  LET s == Applied(lo, hi)
         IN  /\ Retained(hub, conn, s.hub, s.conn) /\ Placed(s.hub, s.conn)
             /\ Calm(s) /\ s.hub.head = hi
<1> DEFINE fs == [c \in Conns |-> Delivers(conn[c], lo, hi)]
           fetching == \E c \in Conns : Attached(fs[c], {"fetching"})
           h == Extended(hub, lo, hi)
           g == IF fetching THEN h ELSE [h EXCEPT !.fetch = None]
           s == Applied(lo, hi)
<1>1. HubFine(hub) /\ \A c \in Conns : ConnFine(conn[c], a[c])
                                       /\ (Attached(conn[c], {"fetching"}) => conn[c].att.rpc \in Rpcs)
  BY DEF TurnFine, ConnsFine, Owners
<1>2. /\ HubFine(h) /\ h.holds = hub.holds /\ h.ended = hub.ended
      /\ h.early = hub.early /\ h.waiting = hub.waiting /\ h.live = hub.live /\ h.fetch = hub.fetch
      /\ h.head = hi
  BY <1>1, ExtendedFine, ExtendedPlaced
<1> HIDE DEF h, fetching
<1>3. /\ g.head = h.head /\ g.tail = h.tail /\ g.holds = h.holds /\ g.live = h.live
      /\ g.early = h.early /\ g.waiting = h.waiting /\ (g.fetch # None => h.fetch # None)
  BY <1>2 DEF HubFine, Hub
<1>4. s.hub = g /\ s.conn = fs /\ s.asks = <<>> /\ s.fetches = <<>>
  <2>1. s = Turn(g, fs)
    BY DEF Applied, h, fetching
  <2> HIDE DEF g, fs, s
  <2> QED BY <2>1, TurnParts
<1> HIDE DEF g, s
<1>5. ASSUME NEW c \in Conns
      PROVE  Placing(fs[c], g) /\ Retains(conn[c], fs[c])
  <2>1. fs[c] = Delivers(conn[c], lo, hi)
    OBVIOUS
  <2> HIDE DEF fs
  <2>2. Placing(conn[c], hub)
    BY DEF Placed
  <2>3. g.head = Extended(hub, lo, hi).head /\ g.tail = Extended(hub, lo, hi).tail
    BY <1>3 DEF h
  <2>4. ConnFine(conn[c], a[c]) /\ (Attached(conn[c], {"fetching"}) => conn[c].att.rpc \in Rpcs)
    BY <1>1
  <2>5. Placing(Delivers(conn[c], lo, hi), g) /\ Retains(conn[c], Delivers(conn[c], lo, hi))
    BY <1>1, <2>2, <2>3, <2>4, DeliversPlaced
  <2> QED BY <2>1, <2>5
<1> HIDE DEF fs
<1>6. Retained(hub, conn, g, fs)
  <2>1. \A i \in Rpcs : IsEarly(hub, i) \/ IsAwaited(hub, i) => Holds(g, fs, i)
    BY <1>2, <1>3 DEF Holds, IsEarly, IsAwaited
  <2> QED BY <1>5, <2>1, RetainedAll
<1> QED BY <1>2, <1>3, <1>4, <1>5, <1>6 DEF Placed, Calm, s

LEMMA SnapshotCutPlaced ==
  ASSUME LogFine, NEW k, NEW a, ConnFine(k, a), NEW r \in Rpcs, NEW n \in Spot,
         NEW h, HubFine(h), h.head <= n
  PROVE  LET f == CatchUp([Dropped(Push(k, Message("snapshot", r, n))) EXCEPT
                             !.att = Attachment(n, "following", None)], h)
         IN  Placing(f, h)
<1> DEFINE m == Message("snapshot", r, n)
           said == Push(k, m)
           gone == Dropped(said)
<1>1. m \in Msg /\ m.is # "bytes" /\ Moves(m) /\ m.at = n /\ m.rpc = r /\ Leaves(m) = n
  BY MessageIs DEF Leaves
<1> HIDE DEF m
<1>2. k \in Conn /\ Steady(k.out, a) /\ k.out \in Seq(Msg)
  BY ConnFields DEF ConnFine
<1>3. said \in Conn /\ said = [k EXCEPT !.out = Append(k.out, m)] /\ Steady(said.out, a)
  BY <1>1, <1>2, PushFine
<1> HIDE DEF said
<1>4. said.out = Append(k.out, m)
  BY <1>2, <1>3 DEF Conn
<1>5. Len(said.out) = Len(k.out) + 1 /\ Len(k.out) \in Nat /\ said.out[Len(k.out) + 1] = m
  BY <1>1, <1>2, <1>4, AppendIs
<1>6. gone \in Conn /\ Steady(gone.out, a) /\ Len(gone.out) = Len(said.out)
      /\ \A i \in 1..Len(said.out) : said.out[i].is # "bytes" => gone.out[i] = said.out[i]
  BY <1>3, DroppedFine DEF Kept
<1> HIDE DEF gone
<1>7. Ends(gone.out, a, n)
  <2>1. Len(gone.out) \in Nat /\ Len(gone.out) > 0 /\ gone.out[Len(gone.out)] = m
    <3>1. Len(k.out) + 1 \in 1..Len(said.out)
      BY <1>5
    <3>2. gone.out[Len(k.out) + 1] = m
      BY <1>1, <1>5, <1>6, <3>1
    <3> QED BY <1>5, <1>6, <3>2
  <2> QED BY <1>1, <2>1, StandsNext DEF Ends
<1>8. Placing(CatchUp([gone EXCEPT !.att = Attachment(n, "following", None)], h), h)
  BY <1>6, <1>7, CaughtUpPlaced
<1> QED BY <1>8 DEF gone, said, m

LEMMA SnapshotAnswersFollows ==
  ASSUME LogFine, NEW own, NEW a, NEW ans, TurnFine(hub, conn, own, a, ans), hub.holds,
         NEW w \in hub.waiting, NEW n \in Spot, hub.head <= n, Placed(hub, conn)
  PROVE  LET s == SnapshotAnswers(w, n)
         IN  /\ Owes(hub, conn, s.hub, s.conn, Overtaking(w.rpc, n)) /\ Placed(s.hub, s.conn)
             /\ Calm(s) /\ s.hub.head = hub.head
<1> DEFINE r == w.rpc
           c == w.conn
           g == Unwaited(r)
           f == CatchUp([Dropped(Push(conn[c], Message("snapshot", r, n))) EXCEPT
                           !.att = Attachment(n, "following", None)], g)
           fs == [conn EXCEPT ![c] = f]
           s == SnapshotAnswers(w, n)
           O == Overtaking(r, n)
<1>1. r \in Rpcs /\ c \in Conns /\ w = [rpc |-> r, conn |-> c]
  BY DEF TurnFine, HubFine, Hub, Awaited
<1>2. s.hub = g /\ s.conn = fs /\ s.asks = <<>> /\ s.fetches = <<>>
  <2>1. s = Turn(g, fs)
    BY DEF SnapshotAnswers
  <2> HIDE DEF g, fs, s
  <2> QED BY <2>1, TurnParts
<1> HIDE DEF s
<1>3. hub \in Hub
  BY DEF TurnFine, HubFine
<1>4. g.live = hub.live /\ g.fetch = hub.fetch /\ g.waiting = {v \in hub.waiting : v.rpc # r}
      /\ g.holds = hub.holds /\ g.head = hub.head /\ g.tail = hub.tail /\ g.early = hub.early
  BY <1>3 DEF Unwaited, Hub
<1> HIDE DEF r, c
<1>5. HubFine(g)
  BY <1>1, UnwaitedFine
<1> HIDE DEF g
<1>6. ConnFine(conn[c], a[c]) /\ conn \in [Conns -> Conn]
  BY <1>1 DEF TurnFine, ConnsFine
<1>7. ConnFine(f, a[c]) /\ Answered(conn[c], f, r) /\ Placing(f, g)
  <2>1. g.head \in Spot /\ g.tail \in Spot /\ g.head <= n
    BY <1>4, <1>5 DEF HubFine, Hub
  <2> QED BY <1>1, <1>5, <1>6, <2>1, SnapshotCutFine, SnapshotCutPlaced
<1> HIDE DEF f
<1>8. fs[c] = f /\ \A d \in Conns : d # c => fs[d] = conn[d]
  BY <1>1, <1>6
<1> HIDE DEF fs
<1>9. Placed(g, fs)
  <2>1. ASSUME NEW d \in Conns PROVE Placing(fs[d], g)
    <3>1. CASE d = c
      BY <1>7, <1>8, <3>1
    <3>2. CASE d # c
      BY <1>4, <1>8, <3>2 DEF Placed, Placing
    <3> QED BY <3>1, <3>2
  <2> QED BY <2>1 DEF Placed
<1>10. ASSUME NEW i \in Rpcs, Holds(hub, conn, i) PROVE Holds(g, fs, i) \/ i \in O
  <2>1. CASE IsEarly(hub, i)
    BY <1>4, <2>1 DEF Holds, IsEarly
  <2>2. CASE i = r
    <3>1. Carried(f, r) # {}
      BY <1>1, <1>7 DEF Answered
    <3> QED BY <1>1, <1>8, <2>2, <3>1 DEF Holds, Has
  <2>3. CASE IsAwaited(hub, i) /\ i # r
    BY <1>4, <2>3 DEF Holds, IsAwaited
  <2>4. CASE \E d \in Conns : Has(conn[d], i)
    <3>1. PICK d \in Conns : Has(conn[d], i)
      BY <2>4
    <3>2. CASE d # c
      BY <1>8, <3>1, <3>2 DEF Holds
    <3>3. CASE d = c /\ Carried(conn[c], i) # {}
      <4>1. Carried(f, i) # {}
        BY <1>7, <3>3 DEF Answered
      <4> QED BY <1>1, <1>8, <4>1 DEF Holds, Has
    <3>4. CASE d = c /\ Attached(conn[c], {"fetching"}) /\ conn[c].att.rpc = i
      <4>1. c \in Fetching /\ [rpc |-> r, conn |-> c] \in hub.waiting /\ n # None
        BY <1>1, <3>4, NoneIsNot, LogIs DEF Fetching
      <4> QED BY <3>4, <4>1 DEF Overtaking
    <3> QED BY <3>1, <3>2, <3>3, <3>4 DEF Has
  <2> QED BY <1>10, <2>1, <2>2, <2>3, <2>4 DEF Holds
<1> QED BY <1>2, <1>4, <1>9, <1>10 DEF Owes, Calm, s, r

LEMMA SnapshotReadyFollows ==
  ASSUME LogFine, NEW own, NEW a, NEW ans, TurnFine(hub, conn, own, a, ans),
         NEW r \in Rpcs, NEW n \in Spot \cup {None}, n # None => hub.head <= n, Placed(hub, conn)
  PROVE  LET s == SnapshotReady(r, n)
         IN  /\ Owes(hub, conn, s.hub, s.conn, Overtaking(r, n)) /\ Placed(s.hub, s.conn)
             /\ Calm(s) /\ s.hub.head = hub.head
<1> DEFINE ws == {w \in hub.waiting : w.rpc = r}
           w == CHOOSE w \in ws : TRUE
           s == SnapshotReady(r, n)
<1>1. CASE ws = {}
  <2>1. s = Turn(hub, conn)
    BY <1>1 DEF SnapshotReady
  <2>2. s.hub = hub /\ s.conn = conn /\ s.asks = <<>> /\ s.fetches = <<>>
    BY <2>1, TurnParts
  <2> HIDE DEF s
  <2> QED BY <2>2 DEF Owes, Calm, s
<1>2. CASE ws # {}
  <2>1. w \in hub.waiting /\ w.rpc = r
    BY <1>2
  <2>2. CASE n # None /\ hub.holds
    <3>1. s = SnapshotAnswers(w, n)
      BY <1>2, <2>2 DEF SnapshotReady
    <3> HIDE DEF w, ws, s
    <3>2. n \in Spot /\ hub.head <= n
      BY <2>2
    <3>3. /\ Owes(hub, conn, s.hub, s.conn, Overtaking(w.rpc, n)) /\ Placed(s.hub, s.conn)
          /\ Calm(s) /\ s.hub.head = hub.head
      BY <2>1, <2>2, <3>1, <3>2, SnapshotAnswersFollows
    <3> QED BY <2>1, <3>3 DEF s
  <2>3. CASE ~(n # None /\ hub.holds)
    <3> DEFINE is == IF hub.ended /\ n = None THEN "ended" ELSE "refused"
               g == Unwaited(r)
               t == Turn(g, conn)
    <3>1. s = Tells(t, w.conn, Message(is, r, None))
      BY <1>2, <2>3 DEF SnapshotReady
    <3>2. is \in {"refused", "ended"}
      OBVIOUS
    <3> HIDE DEF w, ws, is, s
    <3>3. t.hub = g /\ t.conn = conn /\ t.asks = <<>> /\ t.fetches = <<>> /\ t \in Turns
      BY UnwaitedFine, TurnIs, TurnParts DEF TurnOk
    <3>4. w.conn \in Conns
      BY <2>1, WaitsIs
    <3>5. hub \in Hub
      BY DEF TurnFine, HubFine
    <3>6. g.live = hub.live /\ g.fetch = hub.fetch /\ g.waiting = {v \in hub.waiting : v.rpc # r}
          /\ g.holds = hub.holds /\ g.head = hub.head /\ g.tail = hub.tail /\ g.early = hub.early
      BY <3>5 DEF Unwaited, Hub
    <3> HIDE DEF t, g
    <3>7. Follows(t, s) /\ HoldsIn(s, r)
      BY <3>1, <3>2, <3>3, <3>4, TellsFollows
    <3>8. s.hub = t.hub /\ s.asks = t.asks /\ s.fetches = t.fetches
      BY <3>1 DEF Tells
    <3>9. Placed(g, conn)
      BY <3>6 DEF Placed, Placing
    <3>10. ASSUME NEW i \in Rpcs, Holds(hub, conn, i) PROVE Holds(s.hub, s.conn, i)
      <4>1. CASE i = r
        BY <3>7, <4>1 DEF HoldsIn
      <4>2. CASE i # r
        <5>1. Holds(t.hub, t.conn, i)
          BY <3>3, <3>6, <3>10, <4>2 DEF Holds, IsEarly, IsAwaited
        <5> QED BY <3>7, <5>1 DEF Follows, RetainedIn, Retained
      <4> QED BY <4>1, <4>2
    <3>11. Placed(s.hub, s.conn)
      BY <3>3, <3>7, <3>9 DEF Follows, Moderate
    <3> QED BY <3>3, <3>6, <3>8, <3>10, <3>11 DEF Owes, Calm, s
  <2> QED BY <2>2, <2>3
<1> QED BY <1>1, <1>2

LEMMA SeqHasSet ==
  ASSUME NEW S, IsFiniteSet(S), NEW x \in S
  PROVE  \E j \in 1..Len(SetToSeq(S)) : SetToSeq(S)[j] = x
<1> DEFINE n == Cardinality(S)
           f == CHOOSE f \in [1..n -> S] : IsInjective(f)
<1>1. n \in Nat /\ ExistsBijection(1..n, S)
  BY FS_CardinalityType
<1>2. \E g \in [1..n -> S] : IsInjective(g)
  BY <1>1 DEF ExistsBijection, Bijection, Injection
<1>3. f \in [1..n -> S] /\ IsInjective(f)
  BY <1>2
<1>4. SetToSeq(S) = f
  BY DEF SetToSeq
<1> HIDE DEF f
<1>5. f \in Injection(1..n, S)
  BY <1>3 DEF Injection, IsInjective
<1>6. Cardinality(1..n) = Cardinality(S)
  <2> HIDE DEF n
  <2>1. Cardinality(1..n) = n
    BY <1>1, FS_Interval
  <2> QED BY <2>1 DEF n
<1>7. f \in Surjection(1..n, S)
  BY <1>5, <1>6, FS_Injection
<1>8. PICK j \in 1..n : f[j] = x
  BY <1>7 DEF Surjection
<1> HIDE DEF n
<1>9. Len(f) = n
  BY <1>1, <1>3
<1> QED BY <1>4, <1>8, <1>9

LEMMA HasMore ==
  ASSUME NEW k \in Conn, NEW u \in Seq(Msg), NEW i
  PROVE  LET f == [k EXCEPT !.out = @ \o u]
         IN  /\ f \in Conn /\ f.out = k.out \o u
             /\ Carried(k, i) # {} => Carried(f, i) # {}
             /\ (\E j \in 1..Len(u) : u[j].rpc = i) => Carried(f, i) # {}
<1> DEFINE f == [k EXCEPT !.out = @ \o u]
           out == k.out
           v == out \o u
<1>1. out \in Seq(Msg) /\ f.out = v
  BY ConnFields DEF Conn
<1>2. Len(out) \in Nat /\ Len(u) \in Nat /\ Len(v) = Len(out) + Len(u) /\ v \in Seq(Msg)
      /\ (\A j \in 1..Len(out) : v[j] = out[j]) /\ \A j \in 1..Len(u) : v[Len(out) + j] = u[j]
  BY <1>1, ConcatIs
<1>3. f \in Conn
  <2> HIDE DEF v
  <2> QED BY <1>1, <1>2, ConnFields DEF v
<1>4. DOMAIN out = 1..Len(out) /\ DOMAIN v = 1..Len(v)
  BY <1>1, <1>2
<1>5. Carried(f, i) = {j \in 1..Len(v) : v[j].rpc = i} /\ Carried(k, i) = {j \in 1..Len(out) : out[j].rpc = i}
  BY <1>1, <1>4 DEF Carried
<1> HIDE DEF v, out, f
<1>6. ASSUME Carried(k, i) # {} PROVE Carried(f, i) # {}
  <2>1. PICK j \in 1..Len(out) : out[j].rpc = i
    BY <1>5, <1>6
  <2>2. j \in 1..Len(v) /\ v[j].rpc = i
    BY <1>2, <2>1
  <2> QED BY <1>5, <2>2
<1>7. ASSUME NEW j \in 1..Len(u), u[j].rpc = i PROVE Carried(f, i) # {}
  <2>1. Len(out) + j \in 1..Len(v) /\ v[Len(out) + j].rpc = i
    BY <1>2, <1>7
  <2> QED BY <1>5, <2>1
<1> QED BY <1>1, <1>3, <1>6, <1>7 DEF f, v, out

\* Whoever is told of the end has its answer queued.
LEMMA EndingHas ==
  ASSUME NEW k \in Conn, NEW O \in SUBSET Rpcs, NEW e \in {<<>>, <<Note("exit")>>}
  PROVE  \A i \in Rpcs : Carried(k, i) # {} \/ i \in O => Carried(Ending(k, O, e), i) # {}
<1> DEFINE M == {Message("ended", i, None) : i \in O}
           ended == SetToSeq(M)
           f == Ending(k, O, e)
<1>1. f = [k EXCEPT !.att = None, !.out = @ \o ended \o e]
  BY DEF Ending
<1>2. \A i \in O : Message("ended", i, None) \in M /\ Message("ended", i, None).rpc = i
  BY DEF Message
<1>3. M \subseteq Msg
  <2> SUFFICES ASSUME NEW i \in O PROVE Message("ended", i, None) \in Msg
    OBVIOUS
  <2> QED BY MessageIs
<1>4. IsFiniteSet(M)
  <2> DEFINE g == [i \in O |-> Message("ended", i, None)]
  <2>1. IsFiniteSet(O)
    <3>1. IsFiniteSet(Rpcs)
      BY FS_Interval, NoneIsNot DEF Rpcs
    <3> QED BY <3>1, FS_Subset
  <2>2. g \in Surjection(O, M)
    BY DEF Surjection
  <2> HIDE DEF g, M
  <2> QED BY <2>1, <2>2, FS_Surjection
<1> HIDE DEF M, f
<1>5. ended \in Seq(Msg)
  <2>1. ended \in Seq(M)
    BY <1>4, SeqOfSet
  <2> HIDE DEF ended
  <2> QED BY <1>3, <2>1
<1>6. \A i \in O : \E j \in 1..Len(ended) : ended[j].rpc = i
  <2> SUFFICES ASSUME NEW i \in O PROVE \E j \in 1..Len(ended) : ended[j].rpc = i
    OBVIOUS
  <2>1. PICK j \in 1..Len(ended) : ended[j] = Message("ended", i, None)
    BY <1>2, <1>4, SeqHasSet
  <2> QED BY <1>2, <2>1
<1> HIDE DEF ended
<1> DEFINE note == Note("exit")
<1>7. e \in Seq(Msg)
  <2>1. note \in Msg
    BY NoteIs
  <2>2. CASE e = <<>>
    BY <2>2
  <2>3. CASE e = <<note>>
    <3> HIDE DEF note
    <3> QED BY <2>1, <2>3, OneIs
  <2> QED BY <2>2, <2>3
<1> DEFINE g == [k EXCEPT !.att = None]
           g1 == [g EXCEPT !.out = @ \o ended]
<1>8. g \in Conn /\ g.att = None /\ g.out = k.out
  BY DEF Conn
<1>9. f = [g1 EXCEPT !.out = @ \o e]
  BY <1>1 DEF Conn
<1>10. \A i \in Rpcs : Carried(g, i) = Carried(k, i)
  BY <1>8 DEF Carried
<1> HIDE DEF g, note
<1>11. g1 \in Conn
  BY <1>5, <1>8, HasMore
<1>12. \A i \in Rpcs : Carried(g, i) # {} \/ (\E j \in 1..Len(ended) : ended[j].rpc = i) => Carried(g1, i) # {}
  BY <1>5, <1>8, HasMore
<1> HIDE DEF g1
<1>13. \A i \in Rpcs : Carried(g1, i) # {} => Carried(f, i) # {}
  BY <1>7, <1>9, <1>11, HasMore
<1>14. \A i \in Rpcs : Carried(k, i) # {} \/ i \in O => Carried(f, i) # {}
  BY <1>6, <1>10, <1>12, <1>13
<1> QED BY <1>14 DEF f

LEMMA ClosedFollows ==
  ASSUME LogFine, NEW own, NEW a, NEW ans, TurnFine(hub, conn, own, a, ans)
  PROVE  /\ Retained(hub, conn, Closed.hub, Closed.conn)
         /\ Closed.hub.ended /\ ~Closed.hub.holds /\ Closed.asks = <<>>
<1> DEFINE O(c) == {w.rpc : w \in {x \in hub.early \cup hub.waiting : x.conn = c}}
                     \cup (IF Attached(conn[c], {"fetching"}) THEN {conn[c].att.rpc} ELSE {})
           e(c) == IF conn[c].att = None THEN <<Note("exit")>> ELSE <<>>
           f(c) == Ending(conn[c], O(c), e(c))
           fs == [c \in Conns |-> f(c)]
           g == [hub EXCEPT !.holds = FALSE, !.ended = TRUE, !.live = FALSE, !.fetch = None,
                            !.early = {}, !.waiting = {}]
           s == Closed
<1>1. s = Turn(g, fs)
  BY DEF Closed, Ending
<1>2. hub \in Hub /\ conn \in [Conns -> Conn]
  BY DEF TurnFine, HubFine, ConnsFine
<1>3. g.ended /\ ~g.holds
  BY <1>2 DEF Hub
<1> HIDE DEF g, s
<1>4. ASSUME NEW c \in Conns
      PROVE  O(c) \in SUBSET Rpcs /\ e(c) \in {<<>>, <<Note("exit")>>}
  <2>1. Attached(conn[c], {"fetching"}) => conn[c].att.rpc \in Rpcs
    BY DEF TurnFine, Owners
  <2>2. \A w \in hub.early \cup hub.waiting : w.rpc \in Rpcs
    BY <1>2 DEF Hub, Pending, Awaited
  <2> QED BY <2>1, <2>2
<1>5. ASSUME NEW c \in Conns, NEW i \in Rpcs, Has(conn[c], i) \/ i \in O(c)
      PROVE  Has(fs[c], i)
  <2>1. Carried(conn[c], i) # {} \/ i \in O(c)
    <3>1. Attached(conn[c], {"fetching"}) /\ conn[c].att.rpc = i => i \in O(c)
      OBVIOUS
    <3> HIDE DEF O
    <3> QED BY <1>5, <3>1 DEF Has
  <2> HIDE DEF O, e
  <2>2. Carried(Ending(conn[c], O(c), e(c)), i) # {}
    BY <1>2, <1>4, <2>1, EndingHas
  <2>3. fs[c] = Ending(conn[c], O(c), e(c))
    OBVIOUS
  <2> HIDE DEF fs
  <2> QED BY <2>2, <2>3 DEF Has
<1>6. ASSUME NEW i \in Rpcs, Holds(hub, conn, i) PROVE \E c \in Conns : Has(fs[c], i)
  <2>1. CASE IsEarly(hub, i) \/ IsAwaited(hub, i)
    <3>1. PICK w \in hub.early \cup hub.waiting : w.rpc = i
      BY <2>1 DEF IsEarly, IsAwaited
    <3>2. w.conn \in Conns
      BY <1>2 DEF Hub, Pending, Awaited
    <3>3. i \in O(w.conn)
      BY <3>1
    <3> HIDE DEF O, fs
    <3> QED BY <1>5, <3>2, <3>3
  <2>2. CASE \E c \in Conns : Has(conn[c], i)
    <3> HIDE DEF O, fs
    <3> QED BY <1>5, <2>2
  <2> QED BY <1>6, <2>1, <2>2 DEF Holds
<1> HIDE DEF fs
<1>7. s.hub = g /\ s.conn = fs /\ s.asks = <<>>
  BY <1>1, TurnParts
<1>8. Retained(hub, conn, g, fs)
  BY <1>6 DEF Retained, Holds
<1> QED BY <1>3, <1>7, <1>8 DEF s

LEMMA LosesFollows ==
  ASSUME LogFine, NEW own, NEW a, NEW ans, TurnFine(hub, conn, own, a, ans)
  PROVE  /\ Owes(hub, conn, Loses.hub, Loses.conn, Lost) /\ Placed(Loses.hub, Loses.conn)
         /\ Calm(Loses) /\ Loses.hub.head = hub.head
<1> DEFINE f(c) == IF conn[c].att = None THEN conn[c] ELSE Push(Dropped(conn[c]), Note("resync"))
           fs == [c \in Conns |-> f(c)]
           g == [hub EXCEPT !.live = FALSE]
           s == Loses
<1>1. s = Turn(g, fs)
  BY DEF Loses
<1>2. hub \in Hub /\ conn \in [Conns -> Conn] /\ \A c \in Conns : ConnFine(conn[c], a[c])
  BY DEF TurnFine, HubFine, ConnsFine
<1>3. /\ g.early = hub.early /\ g.waiting = hub.waiting /\ g.holds = hub.holds /\ ~g.live
      /\ g.head = hub.head /\ g.fetch = hub.fetch
  BY <1>2 DEF Hub
<1> HIDE DEF g, s
<1>4. ASSUME NEW c \in Conns
      PROVE  f(c).att = None /\ \A i \in Rpcs : Carried(conn[c], i) # {} => Carried(f(c), i) # {}
  <2>1. CASE conn[c].att = None
    BY <2>1
  <2>2. CASE conn[c].att # None
    <3> DEFINE k == conn[c]
               d == Dropped(k)
               v == Push(d, Note("resync"))
    <3>1. k \in Conn /\ Steady(k.out, a[c])
      BY <1>2 DEF ConnFine
    <3> HIDE DEF k
    <3>2. Kept(k, d) /\ d.att = None /\ d \in Conn
      BY <3>1, DroppedFine DEF Kept
    <3> HIDE DEF d
    <3>3. v.att = d.att /\ \A i \in Rpcs : Carried(d, i) # {} => Carried(v, i) # {}
      BY <3>2, NoteIs, RetainsPush
    <3> HIDE DEF v
    <3>4. \A i \in Rpcs : Carried(k, i) # {} => Carried(v, i) # {}
      BY <3>2, <3>3 DEF Kept
    <3>5. f(c) = v
      BY <2>2 DEF v, d, k
    <3> HIDE DEF f
    <3> QED BY <3>2, <3>3, <3>4, <3>5 DEF k
  <2> QED BY <2>1, <2>2
<1> HIDE DEF f
<1>5. \A c \in Conns : fs[c] = f(c)
  OBVIOUS
<1> HIDE DEF fs
<1>6. ASSUME NEW i \in Rpcs, Holds(hub, conn, i) PROVE Holds(g, fs, i) \/ i \in Lost
  <2>1. CASE IsEarly(hub, i) \/ IsAwaited(hub, i)
    BY <1>3, <2>1 DEF Holds, IsEarly, IsAwaited
  <2>2. CASE \E c \in Conns : Has(conn[c], i)
    <3>1. PICK c \in Conns : Has(conn[c], i)
      BY <2>2
    <3>2. CASE Carried(conn[c], i) # {}
      BY <1>4, <1>5, <3>2 DEF Holds, Has
    <3>3. CASE Attached(conn[c], {"fetching"}) /\ conn[c].att.rpc = i
      BY <3>3 DEF Lost, Fetching
    <3> QED BY <3>1, <3>2, <3>3 DEF Has
  <2> QED BY <1>6, <2>1, <2>2 DEF Holds
<1>7. Placed(g, fs)
  BY <1>4, <1>5, PlacingNone DEF Placed
<1>8. s.hub = g /\ s.conn = fs /\ s.asks = <<>> /\ s.fetches = <<>>
  BY <1>1, TurnParts
<1> QED BY <1>3, <1>6, <1>7, <1>8 DEF Owes, Calm, s

LEMMA FetchRefusedFollows ==
  ASSUME LogFine, NEW own, NEW a, NEW ans, TurnFine(hub, conn, own, a, ans), Placed(hub, conn)
  PROVE  LET s == FetchRefused
         IN  /\ Retained(hub, conn, s.hub, s.conn) /\ Placed(s.hub, s.conn)
             /\ s.hub.head = hub.head /\ s.fetches = <<>> /\ s.hub.fetch = None
             /\ s.hub.live = hub.live /\ s.hub.holds = hub.holds
<1> DEFINE f(c) == IF c \in Fetching THEN [conn[c] EXCEPT !.att = None] ELSE conn[c]
           fs == [c \in Conns |-> f(c)]
           refused == {[rpc |-> conn[c].att.rpc, conn |-> c] : c \in Fetching}
           g == [hub EXCEPT !.fetch = None, !.waiting = @ \cup refused]
           R == {w.rpc : w \in refused}
           s == FetchRefused
<1>1. hub \in Hub /\ conn \in [Conns -> Conn]
  BY DEF TurnFine, HubFine, ConnsFine
<1>2. s = [hub |-> g, conn |-> fs, asks |-> SetToSeq(R), fetches |-> <<>>]
  <2> DEFINE left == Turn([hub EXCEPT !.fetch = None], fs)
  <2>1. s = [left EXCEPT !.hub.waiting = @ \cup refused, !.asks = SetToSeq(R)]
    BY DEF FetchRefused
  <2>2. g = [[hub EXCEPT !.fetch = None] EXCEPT !.waiting = @ \cup refused]
    BY <1>1 DEF Hub
  <2> HIDE DEF s, fs, refused, R, g
  <2> QED BY <2>1, <2>2 DEF Turn
<1> HIDE DEF R, s
<1>3. \A c \in Fetching : [rpc |-> conn[c].att.rpc, conn |-> c] \in refused
  OBVIOUS
<1> HIDE DEF refused
<1>4. /\ g.waiting = hub.waiting \cup refused /\ g.early = hub.early /\ g.fetch = None
      /\ g.tail = hub.tail /\ g.head = hub.head /\ g.live = hub.live /\ g.holds = hub.holds
  BY <1>1 DEF Hub
<1> HIDE DEF g
<1>5. \A c \in Conns : fs[c] = IF c \in Fetching THEN [conn[c] EXCEPT !.att = None] ELSE conn[c]
  OBVIOUS
<1> HIDE DEF fs, f
<1>6. ASSUME NEW c \in Conns, c \in Fetching PROVE fs[c].att = None /\ fs[c].out = conn[c].out
  <2>1. fs[c] = [conn[c] EXCEPT !.att = None] /\ conn[c] \in Conn
    BY <1>1, <1>5, <1>6
  <2> QED BY <2>1 DEF Conn
<1>7. ASSUME NEW i \in Rpcs, Holds(hub, conn, i) PROVE Holds(g, fs, i)
  <2>1. CASE IsEarly(hub, i) \/ IsAwaited(hub, i)
    BY <1>4, <2>1 DEF Holds, IsEarly, IsAwaited
  <2>2. CASE \E c \in Conns : Has(conn[c], i)
    <3>1. PICK c \in Conns : Has(conn[c], i)
      BY <2>2
    <3>2. CASE c \notin Fetching
      BY <1>5, <3>1, <3>2 DEF Holds
    <3>3. CASE c \in Fetching /\ Carried(conn[c], i) # {}
      <4>1. Carried(fs[c], i) # {}
        BY <1>6, <3>3 DEF Carried
      <4> QED BY <4>1 DEF Holds, Has
    <3>4. CASE c \in Fetching /\ conn[c].att.rpc = i
      <4> DEFINE w == [rpc |-> i, conn |-> c]
      <4>1. w \in g.waiting /\ w.rpc = i
        BY <1>3, <1>4, <3>4
      <4> HIDE DEF w
      <4> QED BY <4>1 DEF Holds, IsAwaited
    <3> QED BY <3>1, <3>2, <3>3, <3>4 DEF Has
  <2> QED BY <1>7, <2>1, <2>2 DEF Holds
<1>8. ASSUME NEW c \in Conns PROVE Placing(fs[c], g)
  <2>1. CASE c \in Fetching
    BY <1>6, <2>1, PlacingNone
  <2>2. CASE c \notin Fetching
    BY <1>4, <1>5, <2>2 DEF Placed, Placing
  <2> QED BY <2>1, <2>2
<1>9. s.hub = g /\ s.conn = fs /\ s.fetches = <<>>
  BY <1>2
<1> QED BY <1>4, <1>7, <1>8, <1>9 DEF Retained, Placed, s

LEMMA SleepsFollows ==
  ASSUME LogFine, NEW own, NEW a, NEW ans, TurnFine(hub, conn, own, a, ans), Placed(hub, conn)
  PROVE  /\ Retained(hub, conn, Sleeps.hub, Sleeps.conn) /\ Placed(Sleeps.hub, Sleeps.conn)
         /\ Calm(Sleeps) /\ Sleeps.hub.head = hub.head
<1> DEFINE idle == hub.early = {} /\ hub.fetch = None /\ \A c \in Conns : conn[c].att = None
           g == IF idle THEN [hub EXCEPT !.tail = hub.head] ELSE hub
           s == Sleeps
<1>1. s = Turn(g, conn)
  BY DEF Sleeps
<1>2. hub \in Hub
  BY DEF TurnFine, HubFine
<1>3. Placed(g, conn)
  <2>1. CASE idle
    BY <2>1, PlacingNone DEF Placed
  <2>2. CASE ~idle
    <3>1. g = hub
      BY <2>2
    <3> QED BY <3>1
  <2> QED BY <2>1, <2>2
<1> HIDE DEF idle
<1>4. /\ g.early = hub.early /\ g.waiting = hub.waiting /\ g.holds = hub.holds
      /\ g.head = hub.head /\ g.live = hub.live /\ g.fetch = hub.fetch
  BY <1>2 DEF Hub
<1> HIDE DEF g, s
<1>5. s.hub = g /\ s.conn = conn /\ s.asks = <<>> /\ s.fetches = <<>>
  BY <1>1, TurnParts
<1>6. Retained(hub, conn, g, conn)
  BY <1>4 DEF Retained, Holds, IsEarly, IsAwaited
<1> QED BY <1>3, <1>4, <1>5, <1>6 DEF Calm, s

--------------------
\* Lanes that grow and shrink.

LEMMA LaneMore ==
  ASSUME NEW S, NEW s \in Seq(S), NEW u \in Seq(S), NEW x
  PROVE  /\ \A i \in 1..Len(s) + 1 : Under(s \o u, i, x) <=> Under(s, i, x)
         /\ \A i \in 1..Len(s) + 1 : Over(s \o u, i, x) <=> Over(s, i, x)
         /\ \A i \in 1..Len(u) + 1 :
              Under(s \o u, Len(s) + i, x) <=> Under(s, Len(s) + 1, x) /\ Under(u, i, x)
         /\ \A i \in 1..Len(u) + 1 :
              Over(s \o u, Len(s) + i, x) <=> Over(s, Len(s) + 1, x) \/ Over(u, i, x)
<1> DEFINE w == s \o u
<1>1. /\ Len(s) \in Nat /\ Len(u) \in Nat
      /\ \A i \in 1..Len(s) : w[i] = s[i]
      /\ \A i \in 1..Len(u) : w[Len(s) + i] = u[i]
  BY ConcatIs
<1> HIDE DEF w
<1>2. ASSUME NEW i \in 1..Len(s) + 1
      PROVE  (Under(w, i, x) <=> Under(s, i, x)) /\ (Over(w, i, x) <=> Over(s, i, x))
  <2>1. \A j \in 1..i - 1 : w[j] = s[j]
    BY <1>1
  <2>2. Under(w, i, x) <=> Under(s, i, x)
    BY <2>1 DEF Under
  <2>3. Over(w, i, x) <=> Over(s, i, x)
    BY <2>1 DEF Over
  <2> QED BY <2>2, <2>3
<1>3. ASSUME NEW i \in 1..Len(u) + 1
      PROVE  /\ Under(w, Len(s) + i, x) <=> Under(s, Len(s) + 1, x) /\ Under(u, i, x)
             /\ Over(w, Len(s) + i, x) <=> Over(s, Len(s) + 1, x) \/ Over(u, i, x)
  <2>1. \A j \in 1..i - 1 : j \in 1..Len(u) /\ Len(s) + j \in 1..(Len(s) + i) - 1 /\ w[Len(s) + j] = u[j]
    BY <1>1
  <2>2. \A j \in 1..(Len(s) + 1) - 1 : j \in 1..(Len(s) + i) - 1 /\ w[j] = s[j]
    BY <1>1
  <2>3. \A j \in 1..(Len(s) + i) - 1 : j \in 1..(Len(s) + 1) - 1 \/ (j - Len(s) \in 1..i - 1 /\ Len(s) + (j - Len(s)) = j)
    BY <1>1
  <2>4. Under(w, Len(s) + i, x) => Under(s, Len(s) + 1, x)
    BY <2>2 DEF Under
  <2>5. Under(w, Len(s) + i, x) => Under(u, i, x)
    BY <2>1 DEF Under
  <2>6. Under(s, Len(s) + 1, x) /\ Under(u, i, x) => Under(w, Len(s) + i, x)
    <3> SUFFICES ASSUME Under(s, Len(s) + 1, x), Under(u, i, x), NEW j \in 1..(Len(s) + i) - 1, Batch(w[j])
                 PROVE  w[j].hi <= x
      BY DEF Under
    <3>1. CASE j \in 1..(Len(s) + 1) - 1
      BY <2>2, <3>1 DEF Under
    <3>2. CASE j - Len(s) \in 1..i - 1 /\ Len(s) + (j - Len(s)) = j
      <4>1. w[j] = u[j - Len(s)]
        BY <2>1, <3>2
      <4> QED BY <3>2, <4>1 DEF Under
    <3> QED BY <2>3, <3>1, <3>2
  <2>7. Over(s, Len(s) + 1, x) => Over(w, Len(s) + i, x)
    BY <2>2 DEF Over
  <2>8. Over(u, i, x) => Over(w, Len(s) + i, x)
    BY <2>1 DEF Over
  <2>9. Over(w, Len(s) + i, x) => Over(s, Len(s) + 1, x) \/ Over(u, i, x)
    <3> SUFFICES ASSUME NEW j \in 1..(Len(s) + i) - 1, Batch(w[j]), w[j].hi >= x
                 PROVE  Over(s, Len(s) + 1, x) \/ Over(u, i, x)
      BY DEF Over
    <3>1. CASE j \in 1..(Len(s) + 1) - 1
      BY <2>2, <3>1 DEF Over
    <3>2. CASE j - Len(s) \in 1..i - 1 /\ Len(s) + (j - Len(s)) = j
      <4>1. w[j] = u[j - Len(s)]
        BY <2>1, <3>2
      <4> QED BY <3>2, <4>1 DEF Over
    <3> QED BY <2>3, <3>1, <3>2
  <2> QED BY <2>4, <2>5, <2>6, <2>7, <2>8, <2>9
<1>4. \A i \in 1..Len(s) + 1 : Under(w, i, x) <=> Under(s, i, x)
  BY <1>2
<1>5. \A i \in 1..Len(s) + 1 : Over(w, i, x) <=> Over(s, i, x)
  BY <1>2
<1>6. \A i \in 1..Len(u) + 1 : Under(w, Len(s) + i, x) <=> Under(s, Len(s) + 1, x) /\ Under(u, i, x)
  BY <1>3
<1>7. \A i \in 1..Len(u) + 1 : Over(w, Len(s) + i, x) <=> Over(s, Len(s) + 1, x) \/ Over(u, i, x)
  BY <1>3
<1> QED BY <1>4, <1>5, <1>6, <1>7 DEF w

LEMMA LaneTail ==
  ASSUME NEW S, NEW s \in Seq(S), s # <<>>, NEW x, NEW i \in 1..Len(s)
  PROVE  /\ Under(s, i + 1, x) <=> (Batch(Head(s)) => Head(s).hi <= x) /\ Under(Tail(s), i, x)
         /\ Over(s, i + 1, x) <=> (Batch(Head(s)) /\ Head(s).hi >= x) \/ Over(Tail(s), i, x)
<1> DEFINE w == Tail(s)
<1>1. Head(s) = s[1] /\ Len(s) \in Nat /\ \A j \in 1..Len(s) - 1 : w[j] = s[j + 1]
  BY TailIs
<1> HIDE DEF w
<1>2. 1 \in 1..(i + 1) - 1 /\ \A j \in 1..i - 1 : j + 1 \in 1..(i + 1) - 1 /\ w[j] = s[j + 1]
  BY <1>1
<1>3. \A j \in 1..(i + 1) - 1 : j = 1 \/ (j - 1 \in 1..i - 1 /\ w[j - 1] = s[j])
  BY <1>1
<1>4. Under(s, i + 1, x) <=> (Batch(Head(s)) => Head(s).hi <= x) /\ Under(w, i, x)
  <2>1. Under(s, i + 1, x) => (Batch(Head(s)) => Head(s).hi <= x) /\ Under(w, i, x)
    BY <1>1, <1>2 DEF Under
  <2>2. (Batch(Head(s)) => Head(s).hi <= x) /\ Under(w, i, x) => Under(s, i + 1, x)
    BY <1>1, <1>3 DEF Under
  <2> QED BY <2>1, <2>2
<1>5. Over(s, i + 1, x) <=> (Batch(Head(s)) /\ Head(s).hi >= x) \/ Over(w, i, x)
  <2>1. Over(s, i + 1, x) => (Batch(Head(s)) /\ Head(s).hi >= x) \/ Over(w, i, x)
    BY <1>1, <1>3 DEF Over
  <2>2. (Batch(Head(s)) /\ Head(s).hi >= x) \/ Over(w, i, x) => Over(s, i + 1, x)
    BY <1>1, <1>2 DEF Over
  <2> QED BY <2>1, <2>2
<1> QED BY <1>4, <1>5 DEF w

LEMMA LaneRises ==
  ASSUME NEW S, NEW s \in Seq(S), \A i \in 1..Len(s) : Batch(s[i]) => s[i].hi \in Spot,
         NEW i \in 1..Len(s) + 1, NEW x \in Spot, NEW y \in Spot, x <= y
  PROVE  (Under(s, i, x) => Under(s, i, y)) /\ (Over(s, i, y) => Over(s, i, x))
<1>1. \A j \in 1..i - 1 : Batch(s[j]) => s[j].hi \in Int
  BY DEF Spot
<1>2. x \in Int /\ y \in Int
  BY DEF Spot
<1>3. ASSUME Under(s, i, x) PROVE Under(s, i, y)
  BY <1>1, <1>2, <1>3 DEF Under
<1>4. ASSUME Over(s, i, y) PROVE Over(s, i, x)
  BY <1>1, <1>2, <1>4 DEF Over
<1> QED BY <1>3, <1>4

LEMMA LaneUnbatched ==
  ASSUME NEW s, Unbatched(s), NEW i, i \in 1..Len(s) + 1, Len(s) \in Nat, NEW x
  PROVE  Under(s, i, x) /\ ~Over(s, i, x)
<1>1. \A j \in 1..i - 1 : j \in 1..Len(s)
  OBVIOUS
<1> QED BY <1>1 DEF Under, Over, Unbatched

LEMMA SaidBatch ==
  ASSUME NEW m \in Said
  PROVE  /\ Batch(m) <=> m.is = "applied"
         /\ Batch(m) => m.hi \in Spot
         /\ Speaks(m) => Place(m) \in Spot
<1>1. m.is \in {"applied", "live", "snapshot", "closed", "lost", "asleep"}
  BY DEF Said
<1>2. Batch(m) <=> m.is = "applied"
  BY <1>1 DEF Batch
<1>3. Speaks(m) => Place(m) \in Spot
  BY <1>1, SaidIs DEF Speaks, Place
<1> QED BY <1>2, <1>3, SaidIs

LEMMA FromSessiondBatch ==
  ASSUME NEW m \in FromSessiond
  PROVE  /\ Batch(m) <=> m.is = "entries"
         /\ Batch(m) => m.hi \in Spot
<1>1. m.is \in {"entries", "checkpoint", "refused"}
  BY DEF FromSessiond
<1>2. Batch(m) <=> m.is = "entries"
  BY <1>1 DEF Batch
<1> QED BY <1>2, FromSessiondIs

LEMMA CarriesSame ==
  ASSUME NEW os, NEW n
  PROVE  Carries(os, n, os, n)
BY DEF Carries

LEMMA CarriesTwice ==
  ASSUME NEW os, NEW n, NEW v, NEW k, NEW w, NEW m, Carries(os, n, v, k), Carries(v, k, w, m)
  PROVE  Carries(os, n, w, m)
BY DEF Carries

LEMMA UptoMore ==
  ASSUME NEW os \in Seq(Said), NEW u \in Seq(Said), NEW n, NEW x
  PROVE  /\ Upto(os \o u, n, x) <=> Upto(os, n, x) /\ Under(u, Len(u) + 1, x)
         /\ Beyond(os \o u, n, x) <=> Beyond(os, n, x) \/ Over(u, Len(u) + 1, x)
<1>1. Len(os) \in Nat /\ Len(u) \in Nat /\ Len(os \o u) = Len(os) + Len(u)
  BY ConcatIs
<1>2. Len(u) + 1 \in 1..Len(u) + 1 /\ Len(os) + (Len(u) + 1) = Len(os \o u) + 1
  BY <1>1
<1>3. Under(os \o u, Len(os) + (Len(u) + 1), x) <=> Under(os, Len(os) + 1, x) /\ Under(u, Len(u) + 1, x)
  BY <1>2, LaneMore
<1>4. Over(os \o u, Len(os) + (Len(u) + 1), x) <=> Over(os, Len(os) + 1, x) \/ Over(u, Len(u) + 1, x)
  BY <1>2, LaneMore
<1>5. Under(os \o u, Len(os \o u) + 1, x) <=> Under(os, Len(os) + 1, x) /\ Under(u, Len(u) + 1, x)
  BY <1>2, <1>3
<1>6. Over(os \o u, Len(os \o u) + 1, x) <=> Over(os, Len(os) + 1, x) \/ Over(u, Len(u) + 1, x)
  BY <1>2, <1>4
<1> QED BY <1>5, <1>6 DEF Upto, Beyond, AtMost, AtLeast

LEMMA LaneOne ==
  ASSUME NEW S, NEW m \in S, NEW x
  PROVE  /\ <<m>> \in Seq(S) /\ Len(<<m>>) = 1
         /\ Under(<<m>>, Len(<<m>>) + 1, x) <=> (Batch(m) => m.hi <= x)
         /\ Over(<<m>>, Len(<<m>>) + 1, x) <=> Batch(m) /\ m.hi >= x
<1>1. <<m>> \in Seq(S) /\ Len(<<m>>) = 1 /\ <<m>>[1] = m /\ 1..(Len(<<m>>) + 1) - 1 = {1}
  OBVIOUS
<1>2. Under(<<m>>, Len(<<m>>) + 1, x) <=> (Batch(m) => m.hi <= x)
  BY <1>1 DEF Under
<1>3. Over(<<m>>, Len(<<m>>) + 1, x) <=> Batch(m) /\ m.hi >= x
  BY <1>1 DEF Over
<1> QED BY <1>1, <1>2, <1>3

LEMMA UptoAppend ==
  ASSUME NEW os \in Seq(Said), NEW m \in Said, NEW n, NEW x
  PROVE  /\ Upto(Append(os, m), n, x) <=> Upto(os, n, x) /\ (Batch(m) => m.hi <= x)
         /\ Beyond(Append(os, m), n, x) <=> Beyond(os, n, x) \/ (Batch(m) /\ m.hi >= x)
<1> DEFINE u == <<m>>
<1>1. Append(os, m) = os \o u
  OBVIOUS
<1>2. /\ u \in Seq(Said)
      /\ Under(u, Len(u) + 1, x) <=> (Batch(m) => m.hi <= x)
      /\ Over(u, Len(u) + 1, x) <=> Batch(m) /\ m.hi >= x
  BY LaneOne
<1> HIDE DEF u
<1>3. /\ Upto(os \o u, n, x) <=> Upto(os, n, x) /\ Under(u, Len(u) + 1, x)
      /\ Beyond(os \o u, n, x) <=> Beyond(os, n, x) \/ Over(u, Len(u) + 1, x)
  BY <1>2, UptoMore
<1> QED BY <1>1, <1>2, <1>3

LEMMA CarriesMore ==
  ASSUME NEW os \in Seq(Said), NEW u \in Seq(Said), Unbatched(u), NEW n
  PROVE  Carries(os, n, os \o u, n)
<1>1. Len(u) \in Nat /\ Len(u) + 1 \in 1..Len(u) + 1
  OBVIOUS
<1>2. \A x \in Spot : Under(u, Len(u) + 1, x) /\ ~Over(u, Len(u) + 1, x)
  BY <1>1, LaneUnbatched
<1> QED BY <1>2, UptoMore DEF Carries

LEMMA VoicedMore ==
  ASSUME NEW os \in Seq(Said), NEW u \in Seq(Said), Unbatched(u), NEW n, Voiced(os, n),
         \A i \in 1..Len(u) : Speaks(u[i]) => Upto(os, n, Place(u[i])),
         \A i \in 1..Len(u) : u[i].is = "live" => Beyond(os, n, u[i].at)
  PROVE  Voiced(os \o u, n)
<1> DEFINE w == os \o u
<1>1. /\ Len(os) \in Nat /\ Len(u) \in Nat /\ Len(w) = Len(os) + Len(u)
      /\ \A i \in 1..Len(os) : w[i] = os[i]
      /\ \A i \in 1..Len(u) : w[Len(os) + i] = u[i]
  BY ConcatIs
<1>2. \A i \in 1..Len(os) + 1 : \A x : (Under(w, i, x) <=> Under(os, i, x)) /\ (Over(w, i, x) <=> Over(os, i, x))
  BY LaneMore
<1>3. \A i \in 1..Len(u) + 1 : \A x :
        /\ Under(w, Len(os) + i, x) <=> Under(os, Len(os) + 1, x) /\ Under(u, i, x)
        /\ Over(w, Len(os) + i, x) <=> Over(os, Len(os) + 1, x) \/ Over(u, i, x)
  BY LaneMore
<1> HIDE DEF w
<1> SUFFICES ASSUME NEW i \in 1..Len(w)
             PROVE  /\ Speaks(w[i]) => AtMost(w, n, i, Place(w[i]))
                    /\ w[i].is = "live" => AtLeast(w, n, i, w[i].at)
  BY DEF Voiced, w
<1>4. CASE i <= Len(os)
  <2>1. i \in 1..Len(os) /\ i \in 1..Len(os) + 1 /\ w[i] = os[i]
    BY <1>1, <1>4
  <2>2. \A x : (AtMost(w, n, i, x) <=> AtMost(os, n, i, x)) /\ (AtLeast(w, n, i, x) <=> AtLeast(os, n, i, x))
    BY <1>2, <2>1 DEF AtMost, AtLeast
  <2> QED BY <2>1, <2>2 DEF Voiced
<1>5. CASE ~(i <= Len(os))
  <2> DEFINE j == i - Len(os)
  <2>1. j \in 1..Len(u) /\ j \in 1..Len(u) + 1 /\ i = Len(os) + j
    BY <1>1, <1>5
  <2> HIDE DEF j
  <2>2. w[i] = u[j]
    BY <1>1, <2>1
  <2>3. \A x : Under(u, j, x) /\ ~Over(u, j, x)
    BY <1>1, <2>1, LaneUnbatched
  <2>4. \A x : (Under(w, i, x) <=> Under(os, Len(os) + 1, x)) /\ (Over(w, i, x) <=> Over(os, Len(os) + 1, x))
    BY <1>3, <2>1, <2>3
  <2>5. \A x : (AtMost(w, n, i, x) <=> Upto(os, n, x)) /\ (AtLeast(w, n, i, x) <=> Beyond(os, n, x))
    BY <2>4 DEF AtMost, AtLeast, Upto, Beyond
  <2> QED BY <2>1, <2>2, <2>5
<1> QED BY <1>4, <1>5

LEMMA VoicedAppend ==
  ASSUME NEW os \in Seq(Said), NEW m \in Said, NEW n, Voiced(os, n),
         Speaks(m) => Upto(os, n, Place(m)), m.is = "live" => Beyond(os, n, m.at)
  PROVE  Voiced(Append(os, m), n)
<1> DEFINE w == Append(os, m)
           u == <<m>>
<1>1. /\ w = os \o u /\ u \in Seq(Said) /\ Len(os) \in Nat /\ Len(w) = Len(os) + 1
      /\ \A i \in 1..Len(os) : w[i] = os[i]
      /\ w[Len(os) + 1] = m
  BY AppendIs
<1> HIDE DEF w, u
<1>2. \A i \in 1..Len(os) + 1 : \A x : (Under(w, i, x) <=> Under(os, i, x)) /\ (Over(w, i, x) <=> Over(os, i, x))
  BY <1>1, LaneMore
<1>3. \A i \in 1..Len(os) + 1 : \A x :
        (AtMost(w, n, i, x) <=> AtMost(os, n, i, x)) /\ (AtLeast(w, n, i, x) <=> AtLeast(os, n, i, x))
  BY <1>2 DEF AtMost, AtLeast
<1> SUFFICES ASSUME NEW i \in 1..Len(w)
             PROVE  /\ Speaks(w[i]) => AtMost(w, n, i, Place(w[i]))
                    /\ w[i].is = "live" => AtLeast(w, n, i, w[i].at)
  BY DEF Voiced, w
<1>4. i \in 1..Len(os) + 1
  BY <1>1
<1>5. CASE i \in 1..Len(os)
  <2>1. w[i] = os[i]
    BY <1>1, <1>5
  <2>2. /\ Speaks(os[i]) => AtMost(os, n, i, Place(os[i]))
        /\ os[i].is = "live" => AtLeast(os, n, i, os[i].at)
    BY <1>5 DEF Voiced
  <2> QED BY <1>3, <1>4, <2>1, <2>2
<1>6. CASE i = Len(os) + 1
  <2>1. w[i] = m
    BY <1>1, <1>6
  <2>2. \A x : (AtMost(w, n, i, x) <=> Upto(os, n, x)) /\ (AtLeast(w, n, i, x) <=> Beyond(os, n, x))
    BY <1>3, <1>4, <1>6 DEF Upto, Beyond
  <2> QED BY <2>1, <2>2
<1> QED BY <1>1, <1>5, <1>6

LEMMA CarriesTail ==
  ASSUME NEW os \in Seq(Said), os # <<>>, NEW n \in Spot, Voiced(os, n)
  PROVE  LET m == Heard(os, n)
         IN  /\ Carries(os, n, Tail(os), m) /\ Voiced(Tail(os), m) /\ n <= m /\ m \in Spot
             /\ Tail(os) \in Seq(Said) /\ Head(os) \in Said
             /\ Unbatched(os) => m = n /\ Unbatched(Tail(os))
             /\ Announced(Tail(os)) => Announced(os)
<1> DEFINE m == Heard(os, n)
           w == Tail(os)
           h == Head(os)
<1>1. /\ h \in Said /\ h = os[1] /\ w \in Seq(Said) /\ Len(os) \in Nat /\ Len(os) > 0
      /\ Len(w) = Len(os) - 1 /\ \A i \in 1..Len(w) : w[i] = os[i + 1]
  BY TailIs
<1>2. (Batch(h) <=> h.is = "applied") /\ (Batch(h) => h.hi \in Spot)
  BY <1>1, SaidBatch
<1>3. m = IF Batch(h) THEN h.hi ELSE n
  BY DEF Heard
<1>4. \A i \in 1..Len(os) : \A x :
        /\ Under(os, i + 1, x) <=> (Batch(h) => h.hi <= x) /\ Under(w, i, x)
        /\ Over(os, i + 1, x) <=> (Batch(h) /\ h.hi >= x) \/ Over(w, i, x)
  BY LaneTail
<1> HIDE DEF m, w, h
<1>5. m \in Spot
  BY <1>2, <1>3
<1>6. n <= m
  <2>1. CASE Batch(h)
    <3>1. Speaks(os[1]) /\ Place(os[1]) = m /\ 1 \in 1..Len(os)
      BY <1>1, <1>2, <1>3, <2>1 DEF Speaks, Place
    <3> QED BY <3>1 DEF Voiced, AtMost
  <2>2. CASE ~Batch(h)
    BY <1>3, <2>2 DEF Spot
  <2> QED BY <2>1, <2>2
<1>7. ASSUME NEW i \in 1..Len(os), NEW x \in Spot
      PROVE  /\ AtMost(os, n, i + 1, x) => AtMost(w, m, i, x)
             /\ AtLeast(os, n, i + 1, x) => AtLeast(w, m, i, x)
  <2>1. n \in Int /\ m \in Int /\ x \in Int
    BY <1>5 DEF Spot
  <2>2. AtMost(os, n, i + 1, x) => AtMost(w, m, i, x)
    BY <1>3, <1>4, <2>1 DEF AtMost
  <2>3. AtLeast(os, n, i + 1, x) => AtLeast(w, m, i, x)
    BY <1>3, <1>4, <1>6, <2>1 DEF AtLeast
  <2> QED BY <2>2, <2>3
<1>8. Carries(os, n, w, m)
  <2>1. Len(os) \in 1..Len(os) /\ Len(w) + 1 = Len(os)
    BY <1>1
  <2>2. ASSUME NEW x \in Spot
        PROVE  (Upto(os, n, x) => Upto(w, m, x)) /\ (Beyond(os, n, x) => Beyond(w, m, x))
    <3>1. (Upto(os, n, x) <=> AtMost(os, n, Len(os) + 1, x)) /\ (Upto(w, m, x) <=> AtMost(w, m, Len(os), x))
      BY <2>1 DEF Upto
    <3>2. (Beyond(os, n, x) <=> AtLeast(os, n, Len(os) + 1, x)) /\ (Beyond(w, m, x) <=> AtLeast(w, m, Len(os), x))
      BY <2>1 DEF Beyond
    <3> QED BY <1>7, <2>1, <3>1, <3>2
  <2> QED BY <2>2 DEF Carries
<1>9. Voiced(w, m)
  <2> SUFFICES ASSUME NEW i \in 1..Len(w)
               PROVE  /\ Speaks(w[i]) => AtMost(w, m, i, Place(w[i]))
                      /\ w[i].is = "live" => AtLeast(w, m, i, w[i].at)
    BY DEF Voiced
  <2>1. i \in 1..Len(os) /\ i + 1 \in 1..Len(os) /\ w[i] = os[i + 1]
    BY <1>1
  <2>2. /\ Speaks(w[i]) => AtMost(os, n, i + 1, Place(w[i]))
        /\ w[i].is = "live" => AtLeast(os, n, i + 1, w[i].at)
    BY <2>1 DEF Voiced
  <2>3. w[i] \in Said
    BY <1>1
  <2>4. (Speaks(w[i]) => Place(w[i]) \in Spot) /\ (w[i].is = "live" => w[i].at \in Spot)
    BY <2>3, SaidBatch, SaidIs
  <2>5. Speaks(w[i]) => AtMost(w, m, i, Place(w[i]))
    BY <1>7, <2>1, <2>2, <2>4
  <2>6. w[i].is = "live" => AtLeast(w, m, i, w[i].at)
    BY <1>7, <2>1, <2>2, <2>4
  <2> QED BY <2>5, <2>6
<1>10. Unbatched(os) => m = n /\ Unbatched(w)
  <2>1. 1 \in 1..Len(os) /\ \A i \in 1..Len(w) : i + 1 \in 1..Len(os)
    BY <1>1
  <2>2. Unbatched(os) => m = n
    BY <1>1, <1>3, <2>1 DEF Unbatched
  <2>3. Unbatched(os) => Unbatched(w)
    BY <1>1, <2>1 DEF Unbatched
  <2> QED BY <2>2, <2>3
<1>11. Announced(w) => Announced(os)
  <2>1. \A i \in 1..Len(w) : i + 1 \in 1..Len(os)
    BY <1>1
  <2> QED BY <1>1, <2>1 DEF Announced
<1> QED BY <1>1, <1>5, <1>6, <1>8, <1>9, <1>10, <1>11 DEF m, w, h

LEMMA SnapshotsVoiced ==
  ASSUME NEW os \in Seq(Said), NEW s \in Seq(Rpcs), NEW n \in Spot \cup {None}, NEW k,
         Voiced(os, k), n # None => Upto(os, k, n)
  PROVE  LET w == os \o Snapshots(s, n)
         IN  /\ w \in Seq(Said) /\ Voiced(w, k) /\ Carries(os, k, w, k)
             /\ Unbatched(os) => Unbatched(w)
             /\ Announced(w) => Announced(os)
<1> DEFINE u == Snapshots(s, n)
           w == os \o u
<1>1. u \in Seq(Said) /\ Len(u) \in Nat /\ \A i \in 1..Len(u) : u[i].is = "snapshot" /\ u[i].at = n
  <2>1. u \in Seq(Said)
    BY SnapshotsIs
  <2>2. \A i \in 1..Len(u) : u[i].is = "snapshot" /\ u[i].at = n
    BY DEF Snapshots
  <2> QED BY <2>1, <2>2
<1> HIDE DEF u
<1>2. Unbatched(u)
  BY <1>1 DEF Unbatched, Batch
<1>3. \A i \in 1..Len(u) : Speaks(u[i]) => Upto(os, k, Place(u[i]))
  BY <1>1 DEF Speaks, Place
<1>4. \A i \in 1..Len(u) : u[i].is # "live"
  BY <1>1
<1>5. Voiced(w, k)
  BY <1>1, <1>2, <1>3, <1>4, VoicedMore
<1>6. Carries(os, k, w, k)
  BY <1>1, <1>2, CarriesMore
<1>7. /\ w \in Seq(Said) /\ Len(os) \in Nat /\ Len(w) = Len(os) + Len(u)
      /\ \A i \in 1..Len(os) : w[i] = os[i]
      /\ \A i \in 1..Len(u) : w[Len(os) + i] = u[i]
  BY <1>1, ConcatIs
<1> HIDE DEF w
<1>8. \A i \in 1..Len(w) : (i \in 1..Len(os) /\ w[i] = os[i]) \/ w[i].is = "snapshot"
  <2> SUFFICES ASSUME NEW i \in 1..Len(w), ~(i \in 1..Len(os)) PROVE w[i].is = "snapshot"
    BY <1>7
  <2>1. i - Len(os) \in 1..Len(u) /\ Len(os) + (i - Len(os)) = i
    BY <1>1, <1>7
  <2>2. w[Len(os) + (i - Len(os))] = u[i - Len(os)]
    BY <1>7, <2>1
  <2> QED BY <1>1, <2>1, <2>2
<1>9. Unbatched(os) => Unbatched(w)
  BY <1>8 DEF Unbatched, Batch
<1>10. Announced(w) => Announced(os)
  BY <1>8 DEF Announced
<1> QED BY <1>5, <1>6, <1>7, <1>9, <1>10 DEF w, u

LEMMA RisingCarried ==
  ASSUME NEW tv \in Seq(FromSessiond), NEW os, NEW n, NEW w, NEW m, Carries(os, n, w, m), Rising(tv, os, n)
  PROVE  Rising(tv, w, m)
<1> SUFFICES ASSUME NEW i \in 1..Len(tv), tv[i].is = "entries"
             PROVE  Upto(w, m, tv[i].hi) /\ Under(tv, i, tv[i].hi)
  BY DEF Rising
<1>1. Upto(os, n, tv[i].hi) /\ Under(tv, i, tv[i].hi)
  BY DEF Rising
<1>2. tv[i] \in FromSessiond
  OBVIOUS
<1>3. tv[i].hi \in Spot
  BY <1>2, FromSessiondIs
<1> QED BY <1>1, <1>3 DEF Carries

LEMMA SentCarried ==
  ASSUME NEW sent \in Spot \cup {None}, NEW tv, NEW os, NEW n, NEW w, NEW m, Carries(os, n, w, m)
  PROVE  /\ Sent(sent, tv, os, n) => Sent(sent, tv, w, m)
         /\ Pumped(sent, tv, os, n) => Pumped(sent, tv, w, m)
BY DEF Carries, Sent, Pumped

LEMMA LevelledCarried ==
  ASSUME NEW act \in Actor, NEW next, next.phase = act.phase, next.at = act.at, next.live = act.live,
         next.live_at = act.live_at, NEW tv, NEW ts, NEW sent, NEW os, NEW n, NEW w, NEW m,
         Carries(os, n, w, m), Unbatched(os) => m = n /\ Unbatched(w),
         Levelled(act, tv, ts, os, sent, n)
  PROVE  Levelled(next, tv, ts, w, sent, m)
<1>1. act.at \in Spot /\ act.live_at \in Spot
  BY DEF Actor
<1>2. \A x \in Spot : (Upto(os, n, x) => Upto(w, m, x)) /\ (Beyond(os, n, x) => Beyond(w, m, x))
  BY DEF Carries
<1>3. act.phase = "running" /\ act.live => Upto(w, m, act.at) /\ act.live_at <= act.at
  BY <1>1, <1>2 DEF Levelled
<1>4. act.phase = "running" /\ ~act.live => Upto(w, m, act.live_at) /\ Beyond(w, m, act.at)
  BY <1>1, <1>2 DEF Levelled
<1>5. act.phase = "attaching" => m <= act.live_at /\ Unbatched(w) /\ Starting(tv, ts, sent)
  BY DEF Levelled
<1> QED BY <1>3, <1>4, <1>5 DEF Levelled

LEMMA PastMore ==
  ASSUME NEW old \in Spot, NEW tv \in Seq(FromSessiond), NEW ts \in Seq(ToSessiond),
         NEW cs \in Seq(Spot), NEW more \in Seq(Spot), NEW n \in Spot, NEW m \in Spot, n <= m,
         Past(old, tv, ts, cs, n), \A i \in 1..Len(more) : more[i] <= m
  PROVE  Past(old, tv, ts, cs \o more, m) /\ Past(old, tv, ts, cs, m)
<1> DEFINE u == cs \o more
<1>1. n \in Int /\ m \in Int /\ old \in Int
  BY DEF Spot
<1>2. old <= m
  BY <1>1 DEF Past
<1>3. \A i \in 1..Len(tv) : tv[i].is = "checkpoint" => tv[i].at <= m
  <2> SUFFICES ASSUME NEW i \in 1..Len(tv), tv[i].is = "checkpoint" PROVE tv[i].at <= m
    OBVIOUS
  <2>1. tv[i] \in FromSessiond
    OBVIOUS
  <2>2. tv[i].at \in Int
    BY <2>1, FromSessiondIs DEF Spot
  <2> QED BY <1>1, <2>2 DEF Past
<1>4. \A i \in 1..Len(ts) : ts[i].is = "cursor" => ts[i].at <= m
  <2> SUFFICES ASSUME NEW i \in 1..Len(ts), ts[i].is = "cursor" PROVE ts[i].at <= m
    OBVIOUS
  <2>1. ts[i] \in ToSessiond
    OBVIOUS
  <2>2. ts[i].at \in Int
    BY <2>1 DEF ToSessiond, Spot
  <2> QED BY <1>1, <2>2 DEF Past
<1>5. \A i \in 1..Len(cs) : cs[i] <= m
  <2> SUFFICES ASSUME NEW i \in 1..Len(cs) PROVE cs[i] <= m
    OBVIOUS
  <2>1. cs[i] \in Spot
    OBVIOUS
  <2>2. cs[i] \in Int
    BY <2>1 DEF Spot
  <2> QED BY <1>1, <2>2 DEF Past
<1>6. /\ Len(cs) \in Nat /\ Len(more) \in Nat /\ Len(u) = Len(cs) + Len(more)
      /\ \A i \in 1..Len(cs) : u[i] = cs[i]
      /\ \A i \in 1..Len(more) : u[Len(cs) + i] = more[i]
  BY ConcatIs
<1> HIDE DEF u
<1>7. \A i \in 1..Len(u) : u[i] <= m
  <2> SUFFICES ASSUME NEW i \in 1..Len(u) PROVE u[i] <= m
    OBVIOUS
  <2>1. CASE i \in 1..Len(cs)
    BY <1>5, <1>6, <2>1
  <2>2. CASE ~(i \in 1..Len(cs))
    <3>1. i - Len(cs) \in 1..Len(more) /\ Len(cs) + (i - Len(cs)) = i
      BY <1>6, <2>2
    <3>2. u[Len(cs) + (i - Len(cs))] = more[i - Len(cs)]
      BY <1>6, <3>1
    <3> QED BY <3>1, <3>2
  <2> QED BY <2>1, <2>2
<1> QED BY <1>2, <1>3, <1>4, <1>5, <1>7 DEF Past, u

LEMMA FlowIs ==
  ASSUME FlowInv, hub.holds
  PROVE  /\ Voiced(outs, hub.head) /\ Rising(toV, outs, hub.head) /\ Sent(pump, toV, outs, hub.head)
         /\ (actor.phase # "down" => Pumped(pump, toV, outs, hub.head))
         /\ Levelled(actor, toV, toS, outs, pump, hub.head) /\ Living(hub, actor, outs)
         /\ Past(oldest, toV, toS, commands, hub.head)
         /\ Cut(linked, toV, toS, commands, outs, pump, actor, hub)
         /\ Asked(linked, actor, stalled, pump, toV, toS)
         /\ Placed(hub, conn)
BY DEF FlowInv

LEMMA PerformsSays ==
  ASSUME StreamsInv, FlowInv, hub.holds, NEW t \in Turns, NEW more \in Seq(Said), NEW m \in Spot,
         Carries(outs, hub.head, more, m), Voiced(more, m), Announced(more) => Announced(outs),
         Wanting(t) => actor.phase = "down" \/ (actor.phase = "running" /\ actor.live),
         Performs(t, more)
  PROVE  /\ Voiced(outs', m) /\ Carries(outs, hub.head, outs', m)
         /\ Unbatched(more) => Unbatched(outs')
         /\ Announced(outs') => Announced(outs)
         /\ actor'.phase = actor.phase /\ actor'.at = actor.at /\ actor'.live = actor.live
         /\ actor'.live_at = actor.live_at
         /\ (actor'.held # <<>> => actor.held # <<>> \/ t.asks # <<>>)
         /\ (t.asks = <<>> => outs' = more /\ actor' = actor)
<1> DEFINE asked == actor.held \o t.asks
<1>1. actor \in Actor /\ actor.held \in Seq(Rpcs) /\ actor.at \in Spot /\ t.asks \in Seq(Rpcs)
  BY InvIs DEF Turns
<1>2. asked \in Seq(Rpcs)
  BY <1>1
<1> HIDE DEF asked
<1>3. CASE actor.phase = "down" \/ t.asks = <<>>
  <2>1. outs' = more /\ actor' = actor
    BY <1>3 DEF Performs
  <2> QED BY <2>1
<1>4. CASE ~(actor.phase = "down" \/ t.asks = <<>>)
  <2>1. actor.phase = "running" /\ actor.live /\ t.asks # <<>>
    BY <1>4 DEF Wanting
  <2>2. Upto(outs, hub.head, actor.at)
    BY <2>1, FlowIs DEF Levelled
  <2>3. Upto(more, m, actor.at)
    BY <1>1, <2>2 DEF Carries
  <2>4. \/ outs' = more \o Snapshots(asked, actor.at) /\ actor' = [actor EXCEPT !.held = <<>>]
        \/ outs' = more /\ actor' = [actor EXCEPT !.held = asked]
    BY <2>1 DEF Performs, asked
  <2>5. /\ [actor EXCEPT !.held = <<>>].held = <<>> /\ [actor EXCEPT !.held = asked].held = asked
        /\ \A s : /\ [actor EXCEPT !.held = s].phase = actor.phase /\ [actor EXCEPT !.held = s].at = actor.at
                  /\ [actor EXCEPT !.held = s].live = actor.live
                  /\ [actor EXCEPT !.held = s].live_at = actor.live_at
    BY <1>1 DEF Actor
  <2>6. /\ actor'.phase = actor.phase /\ actor'.at = actor.at /\ actor'.live = actor.live
        /\ actor'.live_at = actor.live_at
    BY <2>4, <2>5
  <2>7. CASE outs' = more
    BY <2>1, <2>6, <2>7
  <2>8. CASE outs' = more \o Snapshots(asked, actor.at)
    <3> DEFINE w == more \o Snapshots(asked, actor.at)
    <3>1. /\ Voiced(w, m) /\ Carries(more, m, w, m)
          /\ Unbatched(more) => Unbatched(w)
          /\ Announced(w) => Announced(more)
      BY <1>1, <1>2, <2>3, SnapshotsVoiced
    <3> HIDE DEF w
    <3>2. outs' = w
      BY <2>8 DEF w
    <3>3. Carries(outs, hub.head, w, m)
      BY <3>1, CarriesTwice
    <3> QED BY <2>1, <2>6, <3>1, <3>2, <3>3
  <2> QED BY <2>4, <2>7, <2>8
<1> QED BY <1>3, <1>4

LEMMA FlowTurnOn ==
  ASSUME StreamsInv, FlowInv, hub.holds, NEW t, NEW more, Going(t, more), Performs(t, more),
         UNCHANGED <<sessiondVars, linked, stalled>>, NEW tv \in Seq(FromSessiond), NEW ts \in Seq(ToSessiond),
         toV' = tv, toS' = ts,
         Rising(tv, outs, hub.head), Sent(pump, tv, outs, hub.head),
         actor.phase # "down" => Pumped(pump, tv, outs, hub.head),
         Levelled(actor, tv, ts, outs, pump, hub.head), Past(oldest, tv, ts, commands, hub.head),
         Cut(linked, tv, ts, commands, outs, pump, actor, hub),
         Asked(linked, actor, stalled, pump, tv, ts)
  PROVE  FlowInv'
<1> DEFINE n == hub.head
           m == t.hub.head
<1>1. t.hub \in Hub /\ m \in Spot /\ n \in Spot /\ t.asks \in Seq(Rpcs) /\ t.fetches \in Seq(Spot)
  BY InvIs DEF Going, Turns, Hub
<1>2. hub' = t.hub /\ conn' = t.conn /\ commands' = IF linked THEN commands \o t.fetches ELSE commands
  BY DEF Performs
<1>3. oldest' = oldest /\ pump' = pump /\ linked' = linked /\ stalled' = stalled
  BY DEF sessiondVars
<1>4. /\ Carries(outs, n, more, m) /\ Voiced(more, m) /\ n <= m
      /\ (Unbatched(outs) => m = n /\ Unbatched(more)) /\ (Announced(more) => Announced(outs))
      /\ (Wanting(t) => actor.phase = "down" \/ (actor.phase = "running" /\ actor.live))
      /\ t \in Turns /\ more \in Seq(Said)
  BY DEF Going
<1> HIDE DEF m
<1>5. /\ Voiced(outs', m) /\ Carries(outs, n, outs', m)
      /\ Unbatched(more) => Unbatched(outs')
      /\ Announced(outs') => Announced(outs)
      /\ actor'.phase = actor.phase /\ actor'.at = actor.at /\ actor'.live = actor.live
      /\ actor'.live_at = actor.live_at
      /\ (actor'.held # <<>> => actor.held # <<>> \/ t.asks # <<>>)
      /\ (t.asks = <<>> => outs' = more /\ actor' = actor)
  BY <1>1, <1>4, PerformsSays
<1>6. /\ Rising(tv, outs, n) /\ Sent(pump, tv, outs, n)
      /\ (actor.phase # "down" => Pumped(pump, tv, outs, n))
      /\ Levelled(actor, tv, ts, outs, pump, n) /\ Living(hub, actor, outs)
      /\ Past(oldest, tv, ts, commands, n)
      /\ Cut(linked, tv, ts, commands, outs, pump, actor, hub)
      /\ Asked(linked, actor, stalled, pump, tv, ts)
  BY FlowIs
<1>7. oldest \in Spot /\ pump \in Spot \cup {None} /\ actor \in Actor /\ commands \in Seq(Spot)
  BY InvIs DEF StreamsInv, PlacesFine
<1> HIDE DEF n
<1>8. Rising(tv, outs', m)
  BY <1>5, <1>6, <1>7, RisingCarried
<1>9. Sent(pump, tv, outs', m) /\ (actor'.phase # "down" => Pumped(pump, tv, outs', m))
  BY <1>5, <1>6, <1>7, SentCarried
<1>10. Levelled(actor', tv, ts, outs', pump, m)
  <2>1. Unbatched(outs) => m = n /\ Unbatched(outs')
    BY <1>4, <1>5
  <2> QED BY <1>5, <1>6, <1>7, <2>1, LevelledCarried
<1>11. Living(t.hub, actor', outs')
  <2>1. t.hub.live \/ t.hub.fetch # None \/ t.asks # <<>>
          => actor.phase = "down" \/ (actor.phase = "running" /\ actor.live)
    BY <1>4 DEF Wanting
  <2>2. actor.held # <<>> \/ Announced(outs)
          => actor.phase = "down" \/ (actor.phase = "running" /\ actor.live)
    BY <1>6 DEF Living
  <2> QED BY <1>5, <2>1, <2>2 DEF Living
<1>12. Past(oldest, tv, ts, commands', m)
  <2>1. \A i \in 1..Len(t.fetches) : t.fetches[i] <= m
    BY DEF Going, Backward, m
  <2>2. Past(oldest, tv, ts, commands \o t.fetches, m) /\ Past(oldest, tv, ts, commands, m)
    BY <1>1, <1>4, <1>6, <1>7, <2>1, PastMore
  <2> QED BY <1>2, <2>2
<1>13. Cut(linked, tv, ts, commands', outs', pump, actor', t.hub)
  <2> SUFFICES ASSUME ~linked
               PROVE  /\ tv = <<>> /\ ts = <<>> /\ commands' = <<>> /\ outs' = <<>> /\ pump = None
                      /\ actor'.phase = "down" /\ t.hub.fetch = None /\ ~t.hub.live
    BY DEF Cut
  <2>1. more = <<>> /\ ~Wanting(t)
    BY DEF Going
  <2>2. t.asks = <<>> /\ t.hub.fetch = None /\ ~t.hub.live
    BY <2>1 DEF Wanting
  <2>3. tv = <<>> /\ ts = <<>> /\ commands = <<>> /\ pump = None /\ actor.phase = "down"
    BY <1>6 DEF Cut
  <2> QED BY <1>2, <1>5, <2>1, <2>2, <2>3
<1>14. Asked(linked, actor', stalled, pump, tv, ts)
  BY <1>5, <1>6 DEF Asked
<1>15. t.hub.holds /\ Placed(t.hub, t.conn)
  BY DEF Going
<1>16. Voiced(outs', m)
  BY <1>5
<1> QED
  BY <1>2, <1>3, <1>8, <1>9, <1>10, <1>11, <1>12, <1>13, <1>14, <1>15, <1>16 DEF FlowInv, m

LEMMA FlowTurn ==
  ASSUME StreamsInv, FlowInv, hub.holds, NEW t, NEW more, Going(t, more), Performs(t, more),
         UNCHANGED <<sessiondVars, toV, toS, linked, stalled>>
  PROVE  FlowInv'
<1>1. /\ Rising(toV, outs, hub.head) /\ Sent(pump, toV, outs, hub.head)
      /\ (actor.phase # "down" => Pumped(pump, toV, outs, hub.head))
      /\ Levelled(actor, toV, toS, outs, pump, hub.head)
      /\ Past(oldest, toV, toS, commands, hub.head)
      /\ Cut(linked, toV, toS, commands, outs, pump, actor, hub)
      /\ Asked(linked, actor, stalled, pump, toV, toS)
  BY FlowIs
<1>2. toV \in Seq(FromSessiond) /\ toS \in Seq(ToSessiond) /\ toV' = toV /\ toS' = toS
  BY InvIs
<1> QED BY <1>1, <1>2, FlowTurnOn

\* A session that is over stays so.
LEMMA FlowOver ==
  ASSUME FlowInv, ~hub.holds, hub'.ended = hub.ended, hub'.holds = hub.holds,
         hub'.early \subseteq hub.early, hub'.waiting \subseteq hub.waiting
  PROVE  FlowInv'
<1>1. hub.ended /\ hub.early = {} /\ hub.waiting = {}
  BY DEF FlowInv
<1>2. hub'.early = {} /\ hub'.waiting = {}
  BY <1>1
<1> QED BY <1>1, <1>2 DEF FlowInv

--------------------
\* What the hub hears.

LEMMA HearsGoing ==
  ASSUME StreamsInv, FlowInv, hub.holds, outs # <<>>, NEW t \in Turns, t.hub.holds,
         t.hub.head = Heard(outs, hub.head),
         Wanting(t) => actor.phase = "down" \/ (actor.phase = "running" /\ actor.live),
         Backward(t), Placed(t.hub, t.conn)
  PROVE  Going(t, Tail(outs))
<1>1. outs \in Seq(Said) /\ hub.head \in Spot /\ Voiced(outs, hub.head)
      /\ Cut(linked, toV, toS, commands, outs, pump, actor, hub)
  BY InvIs, FlowIs
<1>2. linked
  BY <1>1 DEF Cut
<1> DEFINE n == hub.head
           m == Heard(outs, n)
           w == Tail(outs)
<1>3. /\ Carries(outs, n, w, m) /\ Voiced(w, m) /\ n <= m /\ m \in Spot /\ w \in Seq(Said)
      /\ Unbatched(outs) => m = n /\ Unbatched(w)
      /\ Announced(w) => Announced(outs)
  BY <1>1, CarriesTail
<1>4. t.hub.head = m
  OBVIOUS
<1> HIDE DEF m, w
<1> QED BY <1>2, <1>3, <1>4 DEF Going, w

LEMMA CalmWants ==
  ASSUME StreamsInv, FlowInv, hub.holds, NEW t \in Turns, Calm(t)
  PROVE  /\ Wanting(t) => actor.phase = "down" \/ (actor.phase = "running" /\ actor.live)
         /\ Backward(t) /\ t.hub.holds
<1>1. Living(hub, actor, outs)
  BY FlowIs
<1>2. t.asks = <<>> /\ t.fetches = <<>> /\ t.hub.holds = hub.holds
      /\ (t.hub.live => hub.live) /\ (t.hub.fetch # None => hub.fetch # None)
  BY DEF Calm
<1>3. Wanting(t) => hub.live \/ hub.fetch # None
  BY <1>2 DEF Wanting
<1>4. Backward(t)
  BY <1>2 DEF Backward
<1> QED BY <1>1, <1>2, <1>3, <1>4 DEF Living

\* What the first message says is so for the hub as it is.
LEMMA VoicedHead ==
  ASSUME NEW os \in Seq(Said), os # <<>>, NEW n \in Spot, Voiced(os, n)
  PROVE  /\ Speaks(Head(os)) => n <= Place(Head(os))
         /\ Head(os).is = "live" => n = Head(os).at
         /\ Head(os).is = "live" => Announced(os)
         /\ Head(os).is = "applied" <=> Batch(Head(os))
         /\ Heard(os, n) = IF Head(os).is = "applied" THEN Head(os).hi ELSE n
<1>1. Head(os) \in Said /\ Head(os) = os[1] /\ 1 \in 1..Len(os)
  BY TailIs
<1>2. /\ Speaks(os[1]) => AtMost(os, n, 1, Place(os[1]))
      /\ os[1].is = "live" => AtLeast(os, n, 1, os[1].at)
  BY <1>1 DEF Voiced
<1>3. Speaks(Head(os)) => n <= Place(Head(os))
  BY <1>1, <1>2 DEF AtMost
<1>4. Head(os).is = "live" => n >= Head(os).at
  BY <1>1, <1>2 DEF AtLeast, Over
<1>5. Head(os).is = "live" => Head(os).at \in Spot /\ n <= Head(os).at
  BY <1>1, <1>3, SaidIs DEF Speaks, Place
<1>6. Head(os).is = "live" => n = Head(os).at
  BY <1>4, <1>5 DEF Spot
<1>7. Head(os).is = "applied" <=> Batch(Head(os))
  BY <1>1, SaidBatch
<1>8. Head(os).is = "live" => Announced(os)
  BY <1>1 DEF Announced
<1> QED BY <1>3, <1>6, <1>7, <1>8 DEF Heard

LEMMA Accounting ==
  ASSUME Accounted, NEW O, Owes(hub, conn, hub', conn', O), rpcs' = rpcs, answers' = answers,
         overtaken' = overtaken \cup O
  PROVE  Accounted'
BY DEF Accounted, Accounts, Owes

LEMMA AccountingKept ==
  ASSUME Accounted, Retained(hub, conn, hub', conn'), rpcs' = rpcs, answers' = answers,
         overtaken' = overtaken
  PROVE  Accounted'
BY DEF Accounted, Accounts, Retained

\* A turn of the hub, once it has heard the first message.
LEMMA HubFlow ==
  ASSUME StreamsInv, FlowInv, hub.holds, outs # <<>>, NEW t, TurnOk(t, rpcs, at, answers),
         HubTurn(t), t.hub.holds,
         t.hub.head = Heard(outs, hub.head),
         Wanting(t) => actor.phase = "down" \/ (actor.phase = "running" /\ actor.live),
         Backward(t), Placed(t.hub, t.conn)
  PROVE  FlowInv'
<1>1. Going(t, Tail(outs))
  BY HearsGoing DEF TurnOk
<1> QED BY <1>1, FlowTurn DEF HubTurn

LEMMA HubPasses ==
  ASSUME StreamsInv, FlowInv, ~hub.holds, HubTurn(Turn(hub, conn))
  PROVE  FlowInv' /\ (Accounted /\ overtaken' = overtaken => Accounted')
<1>1. hub' = hub /\ conn' = conn
  BY TurnParts DEF HubTurn, Performs
<1>2. rpcs' = rpcs /\ answers' = answers
  BY DEF HubTurn, clientVars
<1>3. Retained(hub, conn, hub', conn')
  BY <1>1 DEF Retained
<1> QED BY <1>1, <1>2, <1>3, FlowOver, AccountingKept

LEMMA HearsAppliedFlow ==
  ASSUME StreamsInv, FlowInv, Accounted, HearsApplied
  PROVE  FlowInv' /\ Accounted'
<1> DEFINE o == Head(outs)
           t == Applied(o.lo, o.hi)
<1>1. outs # <<>> /\ outs \in Seq(Said) /\ o \in Said /\ o.is = "applied"
  BY InvIs, TailIs DEF HearsApplied, Hears
<1>2. o.lo \in Spot /\ o.hi \in Spot /\ o.lo < o.hi
  BY <1>1, SaidIs
<1>3. CASE hub.holds
  <2>1. Voiced(outs, hub.head) /\ Placed(hub, conn) /\ hub.head \in Spot
    BY <1>3, InvIs, FlowIs
  <2>2. hub.head <= o.hi /\ Heard(outs, hub.head) = o.hi
    BY <1>1, <2>1, VoicedHead DEF Speaks, Place
  <2>3. TurnOk(t, rpcs, at, answers)
    BY <1>2, HubIs, AppliedFine
  <2>4. HubTurn(t) /\ overtaken' = overtaken
    BY <1>3 DEF HearsApplied
  <2>5. Retained(hub, conn, t.hub, t.conn) /\ Placed(t.hub, t.conn) /\ Calm(t) /\ t.hub.head = o.hi
    BY <1>2, <2>1, <2>2, HubIs, AppliedFollows
  <2> HIDE DEF t
  <2>6. /\ Wanting(t) => actor.phase = "down" \/ (actor.phase = "running" /\ actor.live)
        /\ Backward(t) /\ t.hub.holds
    BY <1>3, <2>3, <2>5, CalmWants DEF TurnOk
  <2>7. FlowInv'
    BY <1>1, <1>3, <2>2, <2>3, <2>4, <2>5, <2>6, HubFlow
  <2>8. hub' = t.hub /\ conn' = t.conn /\ rpcs' = rpcs /\ answers' = answers
    BY <2>4 DEF HubTurn, Performs, clientVars
  <2> QED BY <2>4, <2>5, <2>7, <2>8, AccountingKept
<1>4. CASE ~hub.holds
  <2>1. HubTurn(Turn(hub, conn)) /\ overtaken' = overtaken
    BY <1>4 DEF HearsApplied
  <2> QED BY <1>4, <2>1, HubPasses
<1> QED BY <1>3, <1>4

LEMMA HearsLiveFlow ==
  ASSUME StreamsInv, FlowInv, Accounted, HearsLive
  PROVE  FlowInv' /\ Accounted'
<1> DEFINE o == Head(outs)
           t == Live(o.at)
<1>1. outs # <<>> /\ outs \in Seq(Said) /\ o \in Said /\ o.is = "live"
  BY InvIs, TailIs DEF HearsLive, Hears
<1>2. o.at \in Spot
  BY <1>1, SaidIs
<1>3. CASE hub.holds
  <2>1. Voiced(outs, hub.head) /\ Placed(hub, conn) /\ hub.head \in Spot /\ Living(hub, actor, outs)
    BY <1>3, InvIs, FlowIs
  <2>2. hub.head = o.at /\ Heard(outs, hub.head) = hub.head /\ Announced(outs)
    BY <1>1, <2>1, VoicedHead
  <2>3. TurnOk(t, rpcs, at, answers)
    BY <1>2, <1>3, HubIs, LiveFine
  <2>4. HubTurn(t) /\ overtaken' = overtaken
    BY <1>3 DEF HearsLive
  <2>5. /\ Retained(hub, conn, t.hub, t.conn) /\ Backward(t)
        /\ t.hub.head = o.at /\ t.hub.holds
        /\ hub.head = o.at /\ Placed(hub, conn) => Placed(t.hub, t.conn)
    BY <1>2, <1>3, HubIs, LiveFollows
  <2> HIDE DEF t
  <2>6. actor.phase = "down" \/ (actor.phase = "running" /\ actor.live)
    BY <2>1, <2>2 DEF Living
  <2>7. FlowInv'
    BY <1>1, <1>3, <2>1, <2>2, <2>3, <2>4, <2>5, <2>6, HubFlow
  <2>8. hub' = t.hub /\ conn' = t.conn /\ rpcs' = rpcs /\ answers' = answers
    BY <2>4 DEF HubTurn, Performs, clientVars
  <2> QED BY <2>4, <2>5, <2>7, <2>8, AccountingKept
<1>4. CASE ~hub.holds
  <2>1. HubTurn(Turn(hub, conn)) /\ overtaken' = overtaken
    BY <1>4 DEF HearsLive
  <2> QED BY <1>4, <2>1, HubPasses
<1> QED BY <1>3, <1>4

LEMMA HearsSnapshotFlow ==
  ASSUME StreamsInv, FlowInv, Accounted, HearsSnapshot
  PROVE  FlowInv' /\ Accounted'
<1> DEFINE o == Head(outs)
           t == SnapshotReady(o.rpc, o.at)
           O == Overtaking(o.rpc, o.at)
<1>1. outs # <<>> /\ outs \in Seq(Said) /\ o \in Said /\ o.is = "snapshot"
  BY InvIs, TailIs DEF HearsSnapshot, Hears
<1>2. o.rpc \in Rpcs /\ o.at \in Spot \cup {None}
  BY <1>1, SaidIs
<1>3. HubTurn(t)
  BY DEF HearsSnapshot
<1>4. overtaken' = overtaken \cup O
  BY DEF HearsSnapshot, Overtaking
<1>5. CASE hub.holds
  <2>1. Voiced(outs, hub.head) /\ Placed(hub, conn) /\ hub.head \in Spot
    BY <1>5, InvIs, FlowIs
  <2>2. (o.at # None => hub.head <= o.at) /\ Heard(outs, hub.head) = hub.head
    BY <1>1, <2>1, VoicedHead DEF Speaks, Place
  <2>3. TurnOk(t, rpcs, at, answers)
    BY <1>2, HubIs, SnapshotReadyFine
  <2>4. Owes(hub, conn, t.hub, t.conn, O) /\ Placed(t.hub, t.conn) /\ Calm(t) /\ t.hub.head = hub.head
    BY <1>2, <2>1, <2>2, HubIs, SnapshotReadyFollows
  <2> HIDE DEF t, O
  <2>5. /\ Wanting(t) => actor.phase = "down" \/ (actor.phase = "running" /\ actor.live)
        /\ Backward(t) /\ t.hub.holds
    BY <1>5, <2>3, <2>4, CalmWants DEF TurnOk
  <2>6. FlowInv'
    BY <1>1, <1>3, <1>5, <2>2, <2>3, <2>4, <2>5, HubFlow
  <2>7. hub' = t.hub /\ conn' = t.conn /\ rpcs' = rpcs /\ answers' = answers
    BY <1>3 DEF HubTurn, Performs, clientVars
  <2> QED BY <1>4, <2>4, <2>6, <2>7, Accounting
<1>6. CASE ~hub.holds
  <2>1. hub.waiting = {}
    BY <1>6 DEF FlowInv
  <2>2. t = Turn(hub, conn) /\ O = {}
    BY <2>1 DEF SnapshotReady, Overtaking
  <2> HIDE DEF t, O
  <2>3. overtaken' = overtaken
    BY <1>4, <2>2
  <2> QED BY <1>3, <1>6, <2>2, <2>3, HubPasses
<1> QED BY <1>5, <1>6

LEMMA HearsEndFlow ==
  ASSUME StreamsInv, FlowInv, Accounted, HearsEnd
  PROVE  FlowInv' /\ Accounted'
<1>1. outs # <<>> /\ outs \in Seq(Said)
  BY InvIs DEF HearsEnd, Hears
<1>2. Head(outs).is = "closed" \/ Head(outs).is = "lost" \/ Head(outs).is = "asleep"
  BY DEF HearsEnd, Hears
<1>3. CASE ~hub.holds
  <2>1. HubTurn(Turn(hub, conn)) /\ overtaken' = overtaken
    BY <1>3 DEF HearsEnd
  <2> QED BY <1>3, <2>1, HubPasses
<1>4. CASE hub.holds /\ Head(outs).is = "closed"
  <2>1. HubTurn(Closed) /\ overtaken' = overtaken
    BY <1>4 DEF HearsEnd
  <2>2. hub' = Closed.hub /\ conn' = Closed.conn /\ rpcs' = rpcs /\ answers' = answers
    BY <2>1 DEF HubTurn, Performs, clientVars
  <2>3. /\ Retained(hub, conn, Closed.hub, Closed.conn)
        /\ Closed.hub.ended /\ ~Closed.hub.holds /\ Closed.asks = <<>>
    BY HubIs, ClosedFollows
  <2>4. Closed.hub.early = {} /\ Closed.hub.waiting = {}
    <3>1. hub \in Hub
      BY HubIs DEF TurnFine, HubFine
    <3>2. [hub EXCEPT !.holds = FALSE, !.ended = TRUE, !.live = FALSE, !.fetch = None,
                      !.early = {}, !.waiting = {}].early = {}
          /\ [hub EXCEPT !.holds = FALSE, !.ended = TRUE, !.live = FALSE, !.fetch = None,
                      !.early = {}, !.waiting = {}].waiting = {}
      BY <3>1 DEF Hub
    <3> QED BY <3>2, TurnParts DEF Closed
  <2>5. FlowInv'
    BY <2>2, <2>3, <2>4 DEF FlowInv
  <2> QED BY <2>1, <2>2, <2>3, <2>5, AccountingKept
<1>5. CASE hub.holds /\ Head(outs).is \in {"lost", "asleep"}
  <2> DEFINE t == IF Head(outs).is = "lost" THEN Loses ELSE Sleeps
             O == IF Head(outs).is = "lost" THEN Lost ELSE {}
  <2>1. HubTurn(t)
    BY <1>5 DEF HearsEnd
  <2>2. overtaken' = overtaken \cup O
    BY <1>5 DEF HearsEnd, Lost
  <2>3. Voiced(outs, hub.head) /\ Placed(hub, conn) /\ hub.head \in Spot
    BY <1>5, InvIs, FlowIs
  <2>4. Heard(outs, hub.head) = hub.head
    BY <1>1, <1>5, <2>3, VoicedHead
  <2>5. TurnOk(t, rpcs, at, answers)
    BY HubIs, LosesFine, SleepsFine
  <2>6. Owes(hub, conn, Loses.hub, Loses.conn, Lost) /\ Placed(Loses.hub, Loses.conn)
        /\ Calm(Loses) /\ Loses.hub.head = hub.head
    BY HubIs, LosesFollows
  <2>7. Retained(hub, conn, Sleeps.hub, Sleeps.conn) /\ Placed(Sleeps.hub, Sleeps.conn)
        /\ Calm(Sleeps) /\ Sleeps.hub.head = hub.head
    BY <2>3, HubIs, SleepsFollows
  <2>8. Owes(hub, conn, Sleeps.hub, Sleeps.conn, {})
    BY <2>7 DEF Retained, Owes
  <2>9. Owes(hub, conn, t.hub, t.conn, O) /\ Placed(t.hub, t.conn) /\ Calm(t) /\ t.hub.head = hub.head
    BY <2>6, <2>7, <2>8
  <2> HIDE DEF t, O
  <2>10. /\ Wanting(t) => actor.phase = "down" \/ (actor.phase = "running" /\ actor.live)
         /\ Backward(t) /\ t.hub.holds
    BY <1>5, <2>5, <2>9, CalmWants DEF TurnOk
  <2>11. FlowInv'
    BY <1>1, <1>5, <2>1, <2>4, <2>5, <2>9, <2>10, HubFlow
  <2>12. hub' = t.hub /\ conn' = t.conn /\ rpcs' = rpcs /\ answers' = answers
    BY <2>1 DEF HubTurn, Performs, clientVars
  <2> QED BY <2>2, <2>9, <2>11, <2>12, Accounting
<1> QED BY <1>2, <1>3, <1>4, <1>5

--------------------
\* What sessiond sends.

LEMMA AccountingSame ==
  ASSUME Accounted, hub' = hub, conn' = conn, rpcs' = rpcs, answers' = answers,
         overtaken' = overtaken
  PROVE  Accounted'
<1>1. Retained(hub, conn, hub', conn')
  BY DEF Retained
<1> QED BY <1>1, AccountingKept

\* Nothing goes past the end of the log.
LEMMA UnderTop ==
  ASSUME LogFine
  PROVE  /\ \A tv \in Seq(FromSessiond) : \A i \in 1..Len(tv) + 1 : Under(tv, i, Len(log))
         /\ \A os \in Seq(Said), n \in Spot : Upto(os, n, Len(log))
<1>1. Len(log) \in Nat /\ \A x \in Spot : x \in Nat /\ x <= Len(log)
  BY LogIs DEF Spot
<1>2. ASSUME NEW tv \in Seq(FromSessiond), NEW i \in 1..Len(tv) + 1, NEW j \in 1..i - 1, Batch(tv[j])
      PROVE  tv[j].hi <= Len(log)
  <2>1. tv[j] \in FromSessiond
    OBVIOUS
  <2>2. tv[j].hi \in Spot
    BY <1>2, <2>1, FromSessiondBatch
  <2> QED BY <1>1, <2>2
<1>3. ASSUME NEW os \in Seq(Said), NEW j \in 1..Len(os), Batch(os[j])
      PROVE  os[j].hi <= Len(log)
  <2>1. os[j] \in Said
    OBVIOUS
  <2>2. os[j].hi \in Spot
    BY <1>3, <2>1, SaidBatch
  <2> QED BY <1>1, <2>2
<1>4. \A tv \in Seq(FromSessiond) : \A i \in 1..Len(tv) + 1 : Under(tv, i, Len(log))
  BY <1>2 DEF Under
<1>5. ASSUME NEW os \in Seq(Said), NEW n \in Spot PROVE Upto(os, n, Len(log))
  <2>1. (Len(os) + 1) - 1 = Len(os)
    OBVIOUS
  <2> QED BY <1>1, <1>3, <2>1 DEF Upto, AtMost, Under
<1> QED BY <1>4, <1>5

\* One more message on a lane that rises.
LEMMA LaneAppend ==
  ASSUME NEW tv \in Seq(FromSessiond), NEW m \in FromSessiond, NEW os, NEW n, Rising(tv, os, n),
         m.is = "entries" => Upto(os, n, m.hi) /\ Under(tv, Len(tv) + 1, m.hi)
  PROVE  LET w == Append(tv, m)
         IN  /\ w \in Seq(FromSessiond) /\ Rising(w, os, n) /\ w # <<>>
             /\ Len(w) = Len(tv) + 1 /\ w[Len(tv) + 1] = m /\ \A i \in 1..Len(tv) : w[i] = tv[i]
             /\ tv # <<>> => Head(w) = Head(tv)
             /\ tv = <<>> => Head(w) = m
             /\ \A x : /\ Under(w, Len(w) + 1, x) <=> Under(tv, Len(tv) + 1, x) /\ (Batch(m) => m.hi <= x)
                       /\ Over(w, Len(w) + 1, x) <=> Over(tv, Len(tv) + 1, x) \/ (Batch(m) /\ m.hi >= x)
<1> DEFINE w == Append(tv, m)
           u == <<m>>
<1>1. /\ w \in Seq(FromSessiond) /\ Len(w) = Len(tv) + 1 /\ w[Len(tv) + 1] = m /\ Len(tv) \in Nat
      /\ \A i \in 1..Len(tv) : w[i] = tv[i]
      /\ w = tv \o u /\ u \in Seq(FromSessiond) /\ Len(u) = 1
  BY AppendIs
<1>2. tv # <<>> => Head(w) = Head(tv)
  OBVIOUS
<1>3. tv = <<>> => Head(w) = m
  OBVIOUS
<1>4. w # <<>>
  OBVIOUS
<1>5. \A x : /\ Under(u, Len(u) + 1, x) <=> (Batch(m) => m.hi <= x)
             /\ Over(u, Len(u) + 1, x) <=> Batch(m) /\ m.hi >= x
  BY LaneOne
<1> HIDE DEF u, w
<1>6. \A i \in 1..Len(tv) + 1 : \A x : Under(w, i, x) <=> Under(tv, i, x)
  BY <1>1, LaneMore
<1>7. Len(u) + 1 \in 1..Len(u) + 1 /\ Len(tv) + (Len(u) + 1) = Len(w) + 1
  BY <1>1
<1>8. \A x : /\ Under(w, Len(tv) + (Len(u) + 1), x) <=> Under(tv, Len(tv) + 1, x) /\ Under(u, Len(u) + 1, x)
             /\ Over(w, Len(tv) + (Len(u) + 1), x) <=> Over(tv, Len(tv) + 1, x) \/ Over(u, Len(u) + 1, x)
  BY <1>1, <1>7, LaneMore
<1>9. \A x : /\ Under(w, Len(w) + 1, x) <=> Under(tv, Len(tv) + 1, x) /\ (Batch(m) => m.hi <= x)
             /\ Over(w, Len(w) + 1, x) <=> Over(tv, Len(tv) + 1, x) \/ (Batch(m) /\ m.hi >= x)
  BY <1>5, <1>7, <1>8
<1>10. Rising(w, os, n)
  <2> SUFFICES ASSUME NEW i \in 1..Len(w), w[i].is = "entries"
               PROVE  Upto(os, n, w[i].hi) /\ Under(w, i, w[i].hi)
    BY DEF Rising
  <2>1. CASE i \in 1..Len(tv)
    <3>1. w[i] = tv[i] /\ i \in 1..Len(tv) + 1
      BY <1>1, <2>1
    <3>2. Upto(os, n, tv[i].hi) /\ Under(tv, i, tv[i].hi)
      BY <2>1, <3>1 DEF Rising
    <3> QED BY <1>6, <3>1, <3>2
  <2>2. CASE i = Len(tv) + 1
    <3>1. w[i] = m /\ i \in 1..Len(tv) + 1
      BY <1>1, <2>2
    <3> QED BY <1>6, <2>2, <3>1
  <2> QED BY <1>1, <2>1, <2>2
<1> QED BY <1>1, <1>2, <1>3, <1>4, <1>9, <1>10 DEF w

LEMMA LaneEntries ==
  ASSUME NEW tv \in Seq(FromSessiond), NEW lo \in Spot, NEW x \in Spot, NEW os, NEW n,
         Rising(tv, os, n), Upto(os, n, x), Under(tv, Len(tv) + 1, x)
  PROVE  LET w == tv \o Entries(lo, x)
         IN  /\ w \in Seq(FromSessiond) /\ Rising(w, os, n) /\ Under(w, Len(w) + 1, x)
             /\ lo < x => Over(w, Len(w) + 1, x)
             /\ tv # <<>> => w # <<>> /\ Head(w) = Head(tv)
             /\ \A i \in 1..Len(w) : w[i].is = "entries" \/ (i \in 1..Len(tv) /\ w[i] = tv[i])
<1> DEFINE w == tv \o Entries(lo, x)
<1>1. CASE ~(lo < x)
  <2>1. w = tv
    BY <1>1 DEF Entries
  <2> HIDE DEF w
  <2> QED BY <1>1, <2>1 DEF w
<1>2. CASE lo < x
  <2> DEFINE m == [is |-> "entries", lo |-> lo, hi |-> x]
  <2>1. w = Append(tv, m)
    BY <1>2 DEF Entries
  <2>2. m \in FromSessiond /\ m.is = "entries" /\ m.hi = x /\ Batch(m)
    BY <1>2 DEF FromSessiond, Batch
  <2> HIDE DEF m, w
  <2>3. LET v == Append(tv, m)
        IN  /\ v \in Seq(FromSessiond) /\ Rising(v, os, n) /\ v # <<>>
            /\ Len(v) = Len(tv) + 1 /\ v[Len(tv) + 1] = m /\ \A i \in 1..Len(tv) : v[i] = tv[i]
            /\ tv # <<>> => Head(v) = Head(tv)
            /\ Under(v, Len(v) + 1, x) <=> Under(tv, Len(tv) + 1, x) /\ (Batch(m) => m.hi <= x)
            /\ Over(v, Len(v) + 1, x) <=> Over(tv, Len(tv) + 1, x) \/ (Batch(m) /\ m.hi >= x)
    BY <2>2, LaneAppend
  <2>4. x \in Int /\ Len(tv) \in Nat
    BY DEF Spot
  <2>5. Under(w, Len(w) + 1, x) /\ Over(w, Len(w) + 1, x)
    BY <2>1, <2>2, <2>3, <2>4
  <2>6. \A i \in 1..Len(w) : w[i].is = "entries" \/ (i \in 1..Len(tv) /\ w[i] = tv[i])
    BY <2>1, <2>2, <2>3, <2>4
  <2> QED BY <2>1, <2>3, <2>5, <2>6 DEF w
<1> QED BY <1>1, <1>2

LEMMA PastTail ==
  ASSUME NEW old, NEW tv, NEW ts \in Seq(ToSessiond), ts # <<>>, NEW cs, NEW n, Past(old, tv, ts, cs, n)
  PROVE  /\ Past(old, tv, Tail(ts), cs, n)
         /\ Head(ts).is = "cursor" => Head(ts).at <= n
<1>1. Head(ts) = ts[1] /\ Len(ts) \in Nat /\ Len(Tail(ts)) = Len(ts) - 1 /\ Len(ts) > 0
      /\ \A i \in 1..Len(ts) - 1 : Tail(ts)[i] = ts[i + 1]
  BY TailIs
<1>2. \A i \in 1..Len(Tail(ts)) : Tail(ts)[i].is = "cursor" => Tail(ts)[i].at <= n
  <2> SUFFICES ASSUME NEW i \in 1..Len(Tail(ts)), Tail(ts)[i].is = "cursor" PROVE Tail(ts)[i].at <= n
    OBVIOUS
  <2>1. i + 1 \in 1..Len(ts) /\ Tail(ts)[i] = ts[i + 1]
    BY <1>1
  <2> QED BY <2>1 DEF Past
<1>3. Head(ts).is = "cursor" => Head(ts).at <= n
  BY <1>1 DEF Past
<1> QED BY <1>2, <1>3 DEF Past

\* What sessiond does, which the hub and the actor do not see yet.
LEMMA FlowSends ==
  ASSUME FlowInv, Accounted,
         UNCHANGED <<commands, outs, linked, actor, hub, conn, rpcs, answers, overtaken, stalled>>,
         hub.holds =>
           /\ Rising(toV', outs, hub.head) /\ Sent(pump', toV', outs, hub.head)
           /\ Pumped(pump', toV', outs, hub.head) \/ actor.phase = "down"
           /\ (actor.phase = "attaching" => Starting(toV', toS', pump'))
           /\ Past(oldest', toV', toS', commands, hub.head)
           /\ Cut(linked, toV', toS', commands, outs, pump', actor, hub)
           /\ Asked(linked, actor, stalled, pump', toV', toS')
  PROVE  FlowInv' /\ Accounted'
<1>1. /\ commands' = commands /\ outs' = outs /\ linked' = linked /\ actor' = actor /\ hub' = hub
      /\ conn' = conn /\ stalled' = stalled
  OBVIOUS
<1>2. Accounted'
  BY AccountingSame
<1>3. CASE hub.holds
  <2>1. Voiced(outs, hub.head) /\ Living(hub, actor, outs) /\ Placed(hub, conn)
        /\ Levelled(actor, toV, toS, outs, pump, hub.head)
    BY <1>3, FlowIs
  <2>2. Levelled(actor, toV', toS', outs, pump', hub.head)
    BY <1>3, <2>1 DEF Levelled
  <2> QED BY <1>1, <1>2, <1>3, <2>1, <2>2 DEF FlowInv
<1>4. CASE ~hub.holds
  BY <1>1, <1>2, <1>4, FlowOver
<1> QED BY <1>3, <1>4

LEMMA PrintsFlow ==
  ASSUME StreamsInv, FlowInv, Accounted, Prints
  PROVE  FlowInv' /\ Accounted'
<1>1. UNCHANGED <<commands, outs, linked, actor, hub, conn, rpcs, answers, overtaken, stalled,
                  oldest, pump, toV, toS>>
  BY DEF Prints, laneVars, clientVars
<1>2. hub.holds =>
           /\ Rising(toV, outs, hub.head) /\ Sent(pump, toV, outs, hub.head)
           /\ (actor.phase # "down" => Pumped(pump, toV, outs, hub.head))
           /\ Levelled(actor, toV, toS, outs, pump, hub.head)
           /\ Past(oldest, toV, toS, commands, hub.head)
           /\ Cut(linked, toV, toS, commands, outs, pump, actor, hub)
           /\ Asked(linked, actor, stalled, pump, toV, toS)
  BY FlowIs
<1>3. hub.holds /\ actor.phase = "attaching" => Starting(toV, toS, pump)
  BY <1>2 DEF Levelled
<1>4. oldest' = oldest /\ pump' = pump /\ toV' = toV /\ toS' = toS
  BY <1>1
<1> QED BY <1>1, <1>2, <1>3, <1>4, FlowSends

LEMMA TrimsFlow ==
  ASSUME StreamsInv, FlowInv, Accounted, Trims
  PROVE  FlowInv' /\ Accounted'
<1>1. UNCHANGED <<commands, outs, linked, actor, hub, conn, rpcs, answers, overtaken, stalled,
                  pump, toV, toS>>
  BY DEF Trims, laneVars, clientVars
<1>2. hub.holds =>
           /\ Rising(toV, outs, hub.head) /\ Sent(pump, toV, outs, hub.head)
           /\ (actor.phase # "down" => Pumped(pump, toV, outs, hub.head))
           /\ Levelled(actor, toV, toS, outs, pump, hub.head)
           /\ Past(oldest, toV, toS, commands, hub.head)
           /\ Cut(linked, toV, toS, commands, outs, pump, actor, hub)
           /\ Asked(linked, actor, stalled, pump, toV, toS)
  BY FlowIs
<1>3. hub.holds /\ actor.phase = "attaching" => Starting(toV, toS, pump)
  BY <1>2 DEF Levelled
<1>4. oldest' <= hub.head
  BY DEF Trims
<1>5. hub.holds => Past(oldest', toV, toS, commands, hub.head)
  BY <1>2, <1>4 DEF Past
<1>6. pump' = pump /\ toV' = toV /\ toS' = toS
  BY <1>1
<1> QED BY <1>1, <1>2, <1>3, <1>5, <1>6, FlowSends

LEMMA ServesAttachFlow ==
  ASSUME StreamsInv, FlowInv, Accounted, ServesAttach
  PROVE  FlowInv' /\ Accounted'
<1> DEFINE n == hub.head
           top == Len(log)
           from == Head(toS)
<1>1. /\ UNCHANGED <<commands, outs, linked, actor, hub, conn, rpcs, answers, overtaken, stalled>>
      /\ oldest' = oldest /\ toS # <<>> /\ toS' = Tail(toS)
      /\ \/ from.is = "newest" /\ toV' = toV \o <<Checkpoint>> \o Entries(oldest, top) /\ pump' = top
         \/ from.is = "cursor" /\ from.at < oldest /\ toV' = Append(toV, [is |-> "refused"]) /\ pump' = None
         \/ from.is = "cursor" /\ from.at >= oldest /\ toV' = toV \o Entries(from.at, top) /\ pump' = top
  <2>1. toS \in Seq(ToSessiond) /\ toS # <<>> /\ oldest \in Int
    BY InvIs DEF ServesAttach, Spot
  <2>2. from \in ToSessiond
    BY <2>1, TailIs
  <2>3. from.is = "newest" \/ (from.is = "cursor" /\ from.at \in Int)
    BY <2>2 DEF ToSessiond, Spot
  <2>4. from.is = "newest" \/ (from.is = "cursor" /\ from.at < oldest) \/ (from.is = "cursor" /\ from.at >= oldest)
    BY <2>1, <2>3
  <2> QED BY <2>1, <2>4 DEF ServesAttach, clientVars
<1> SUFFICES ASSUME hub.holds
             PROVE  /\ Rising(toV', outs, n) /\ Sent(pump', toV', outs, n)
                    /\ Pumped(pump', toV', outs, n)
                    /\ (actor.phase = "attaching" => Starting(toV', toS', pump'))
                    /\ Past(oldest', toV', toS', commands, n)
                    /\ Cut(linked, toV', toS', commands, outs, pump', actor, hub)
                    /\ Asked(linked, actor, stalled, pump', toV', toS')
  BY <1>1, FlowSends
<1>2. /\ Rising(toV, outs, n) /\ Levelled(actor, toV, toS, outs, pump, n)
      /\ Past(oldest, toV, toS, commands, n)
      /\ Cut(linked, toV, toS, commands, outs, pump, actor, hub)
  BY FlowIs
<1>3. /\ toV \in Seq(FromSessiond) /\ toS \in Seq(ToSessiond) /\ oldest \in Spot /\ n \in Spot
      /\ outs \in Seq(Said) /\ LogFine /\ top \in Spot
  BY InvIs, HubIs DEF Spot
<1>4. linked
  BY <1>1, <1>2 DEF Cut
<1>5. Cut(linked, toV', toS', commands, outs, pump', actor, hub)
  BY <1>4 DEF Cut
<1>6. Past(oldest, toV, Tail(toS), commands, n) /\ (from.is = "cursor" => from.at <= n)
  BY <1>1, <1>2, <1>3, PastTail
<1>7. from.is = "cursor" => from.at \in Spot
  <2>1. from \in ToSessiond
    BY <1>1, <1>3, TailIs
  <2> QED BY <2>1 DEF ToSessiond
<1>8. Upto(outs, n, top)
  BY <1>3, UnderTop
<1>9. \A w \in Seq(FromSessiond) : Under(w, Len(w) + 1, top)
  <2> SUFFICES ASSUME NEW w \in Seq(FromSessiond) PROVE Under(w, Len(w) + 1, top)
    OBVIOUS
  <2>1. Len(w) + 1 \in 1..Len(w) + 1
    OBVIOUS
  <2> QED BY <1>3, <2>1, UnderTop
<1>10. oldest <= n
  BY <1>2 DEF Past
<1>11. top # None
  BY NoneIsNot, <1>3 DEF Spot
<1> HIDE DEF top
<1>12. CASE from.is = "newest" /\ toV' = toV \o <<Checkpoint>> \o Entries(oldest, top) /\ pump' = top
  <2> DEFINE v == Append(toV, Checkpoint)
  <2>1. Checkpoint \in FromSessiond /\ Checkpoint.is = "checkpoint" /\ Checkpoint.at = oldest
    BY <1>3 DEF Checkpoint, FromSessiond
  <2>2. /\ v \in Seq(FromSessiond) /\ Rising(v, outs, n) /\ v # <<>>
        /\ Len(v) = Len(toV) + 1 /\ v[Len(toV) + 1] = Checkpoint /\ \A i \in 1..Len(toV) : v[i] = toV[i]
        /\ toV # <<>> => Head(v) = Head(toV)
        /\ toV = <<>> => Head(v) = Checkpoint
    BY <1>2, <1>3, <2>1, LaneAppend
  <2>3. toV' = v \o Entries(oldest, top)
    BY <1>3, <1>12, <2>1
  <2> HIDE DEF v
  <2>4. LET w == v \o Entries(oldest, top)
        IN  /\ w \in Seq(FromSessiond) /\ Rising(w, outs, n) /\ Under(w, Len(w) + 1, top)
            /\ oldest < top => Over(w, Len(w) + 1, top)
            /\ v # <<>> => w # <<>> /\ Head(w) = Head(v)
            /\ \A i \in 1..Len(w) : w[i].is = "entries" \/ (i \in 1..Len(v) /\ w[i] = v[i])
    BY <1>3, <1>8, <1>9, <2>2, LaneEntries
  <2>5. Rising(toV', outs, n) /\ Sent(pump', toV', outs, n)
    BY <1>8, <1>12, <2>3, <2>4 DEF Sent
  <2>6. Pumped(pump', toV', outs, n)
    <3>1. n \in Int /\ oldest \in Int /\ top \in Int
      BY <1>3 DEF Spot
    <3>2. CASE oldest < top
      BY <1>12, <2>3, <2>4, <3>2 DEF Pumped
    <3>3. CASE ~(oldest < top)
      BY <1>10, <1>12, <3>1, <3>3 DEF Pumped, Beyond, AtLeast
    <3> QED BY <3>2, <3>3
  <2>7. actor.phase = "attaching" => Starting(toV', toS', pump')
    <3>1. actor.phase = "attaching" /\ toV # <<>> => Head(toV).is = "checkpoint"
      BY <1>2 DEF Levelled, Starting
    <3>2. actor.phase = "attaching" => Head(v).is = "checkpoint"
      BY <2>1, <2>2, <3>1
    <3>3. toV' # <<>> /\ Head(toV') = Head(v)
      BY <2>2, <2>3, <2>4
    <3> QED BY <3>2, <3>3 DEF Starting
  <2>8. Past(oldest', toV', toS', commands, n)
    <3>1. ASSUME NEW i \in 1..Len(toV'), toV'[i].is = "checkpoint" PROVE toV'[i].at <= n
      <4>1. i \in 1..Len(v) /\ toV'[i] = v[i]
        BY <2>3, <2>4, <3>1
      <4>2. CASE i \in 1..Len(toV)
        BY <1>2, <2>2, <3>1, <4>1, <4>2 DEF Past
      <4>3. CASE i = Len(toV) + 1
        BY <1>10, <2>1, <2>2, <4>1, <4>3
      <4>4. i \in 1..Len(toV) \/ i = Len(toV) + 1
        BY <1>3, <2>2, <4>1
      <4> QED BY <4>2, <4>3, <4>4
    <3> QED BY <1>1, <1>6, <3>1 DEF Past
  <2>9. Asked(linked, actor, stalled, pump', toV', toS')
    BY <1>11, <1>12 DEF Asked
  <2> QED BY <1>5, <2>5, <2>6, <2>7, <2>8, <2>9
<1>13. CASE from.is = "cursor" /\ from.at < oldest /\ toV' = Append(toV, [is |-> "refused"]) /\ pump' = None
  <2> DEFINE m == [is |-> "refused"]
  <2>1. m \in FromSessiond /\ m.is = "refused" /\ toV' = Append(toV, m)
    BY <1>13 DEF FromSessiond
  <2> HIDE DEF m
  <2>2. LET w == Append(toV, m)
        IN  /\ w \in Seq(FromSessiond) /\ Rising(w, outs, n) /\ w # <<>>
            /\ Len(w) = Len(toV) + 1 /\ w[Len(toV) + 1] = m /\ \A i \in 1..Len(toV) : w[i] = toV[i]
            /\ toV # <<>> => Head(w) = Head(toV)
    BY <1>2, <1>3, <2>1, LaneAppend
  <2>3. Rising(toV', outs, n) /\ Sent(pump', toV', outs, n) /\ Pumped(pump', toV', outs, n)
    BY <1>13, <2>1, <2>2 DEF Sent, Pumped
  <2>4. actor.phase = "attaching" => Starting(toV', toS', pump')
    <3>1. actor.phase = "attaching" => toV # <<>> /\ Head(toV).is = "checkpoint"
      BY <1>2, <1>13 DEF Levelled, Starting
    <3> QED BY <2>1, <2>2, <3>1 DEF Starting
  <2>5. Past(oldest', toV', toS', commands, n)
    <3>1. ASSUME NEW i \in 1..Len(toV'), toV'[i].is = "checkpoint" PROVE toV'[i].at <= n
      <4>1. i \in 1..Len(toV) \/ i = Len(toV) + 1
        BY <1>3, <2>1, <2>2
      <4>2. i \in 1..Len(toV) /\ toV'[i] = toV[i]
        BY <2>1, <2>2, <3>1, <4>1
      <4> QED BY <1>2, <3>1, <4>2 DEF Past
    <3> QED BY <1>1, <1>6, <3>1 DEF Past
  <2>6. Asked(linked, actor, stalled, pump', toV', toS')
    <3>1. Len(toV) + 1 \in 1..Len(toV') /\ toV'[Len(toV) + 1].is = "refused"
      BY <1>3, <2>1, <2>2
    <3> QED BY <3>1 DEF Asked
  <2> QED BY <1>5, <2>3, <2>4, <2>5, <2>6
<1>14. CASE from.is = "cursor" /\ from.at >= oldest /\ toV' = toV \o Entries(from.at, top) /\ pump' = top
  <2> DEFINE lo == from.at
  <2>1. lo \in Spot /\ lo <= n
    BY <1>6, <1>7, <1>14
  <2>2. toV' = toV \o Entries(lo, top)
    BY <1>14
  <2> HIDE DEF lo
  <2>3. LET w == toV \o Entries(lo, top)
        IN  /\ w \in Seq(FromSessiond) /\ Rising(w, outs, n) /\ Under(w, Len(w) + 1, top)
            /\ lo < top => Over(w, Len(w) + 1, top)
            /\ toV # <<>> => w # <<>> /\ Head(w) = Head(toV)
            /\ \A i \in 1..Len(w) : w[i].is = "entries" \/ (i \in 1..Len(toV) /\ w[i] = toV[i])
    BY <1>2, <1>3, <1>8, <1>9, <2>1, LaneEntries
  <2>4. Rising(toV', outs, n) /\ Sent(pump', toV', outs, n)
    BY <1>8, <1>14, <2>2, <2>3 DEF Sent
  <2>5. Pumped(pump', toV', outs, n)
    <3>1. n \in Int /\ lo \in Int /\ top \in Int
      BY <1>3, <2>1 DEF Spot
    <3>2. CASE lo < top
      BY <1>14, <2>2, <2>3, <3>2 DEF Pumped
    <3>3. CASE ~(lo < top)
      BY <1>14, <2>1, <3>1, <3>3 DEF Pumped, Beyond, AtLeast
    <3> QED BY <3>2, <3>3
  <2>6. actor.phase = "attaching" => Starting(toV', toS', pump')
    <3>1. actor.phase = "attaching" => toV # <<>> /\ Head(toV).is = "checkpoint"
      BY <1>2, <1>14 DEF Levelled, Starting
    <3> QED BY <2>2, <2>3, <3>1 DEF Starting
  <2>7. Past(oldest', toV', toS', commands, n)
    <3>1. ASSUME NEW i \in 1..Len(toV'), toV'[i].is = "checkpoint" PROVE toV'[i].at <= n
      <4>1. i \in 1..Len(toV) /\ toV'[i] = toV[i]
        BY <2>2, <2>3, <3>1
      <4> QED BY <1>2, <3>1, <4>1 DEF Past
    <3> QED BY <1>1, <1>6, <3>1 DEF Past
  <2>8. Asked(linked, actor, stalled, pump', toV', toS')
    BY <1>11, <1>14 DEF Asked
  <2> QED BY <1>5, <2>4, <2>5, <2>6, <2>7, <2>8
<1> QED BY <1>1, <1>12, <1>13, <1>14

LEMMA PumpsFlow ==
  ASSUME StreamsInv, FlowInv, Accounted, Pumps
  PROVE  FlowInv' /\ Accounted'
<1> DEFINE n == hub.head
<1>1. /\ UNCHANGED <<commands, outs, linked, actor, hub, conn, rpcs, answers, overtaken, stalled>>
      /\ oldest' = oldest /\ toS' = toS /\ pump # None
  BY DEF Pumps, clientVars
<1>2. PICK x \in pump + 1..Len(log) : toV' = toV \o Entries(pump, x) /\ pump' = x
  BY DEF Pumps
<1>3. pump \in Spot /\ pump \in Int /\ Len(log) \in Nat
  BY <1>1, InvIs DEF StreamsInv, PlacesFine, Spot
<1>4. x \in Spot /\ x \in Int /\ pump < x /\ pump <= x
  BY <1>2, <1>3 DEF Spot
<1> SUFFICES ASSUME hub.holds
             PROVE  /\ Rising(toV', outs, n) /\ Sent(pump', toV', outs, n)
                    /\ Pumped(pump', toV', outs, n)
                    /\ (actor.phase = "attaching" => Starting(toV', toS', pump'))
                    /\ Past(oldest', toV', toS', commands, n)
                    /\ Cut(linked, toV', toS', commands, outs, pump', actor, hub)
                    /\ Asked(linked, actor, stalled, pump', toV', toS')
  BY <1>1, FlowSends
<1>5. /\ Rising(toV, outs, n) /\ Levelled(actor, toV, toS, outs, pump, n)
      /\ Past(oldest, toV, toS, commands, n) /\ Sent(pump, toV, outs, n)
      /\ Cut(linked, toV, toS, commands, outs, pump, actor, hub)
  BY FlowIs
<1>6. toV \in Seq(FromSessiond) /\ outs \in Seq(Said) /\ n \in Spot
  BY InvIs
<1>7. linked
  BY <1>1, <1>5 DEF Cut
<1>8. Upto(outs, n, pump) /\ Under(toV, Len(toV) + 1, pump)
  BY <1>1, <1>5 DEF Sent
<1>9. Upto(outs, n, x)
  <2>1. \A i \in 1..Len(outs) : Batch(outs[i]) => outs[i].hi \in Spot
    <3> SUFFICES ASSUME NEW i \in 1..Len(outs) PROVE Batch(outs[i]) => outs[i].hi \in Spot
      OBVIOUS
    <3>1. outs[i] \in Said
      BY <1>6
    <3> QED BY <3>1, SaidBatch
  <2>2. Len(outs) + 1 \in 1..Len(outs) + 1
    BY <1>6
  <2>3. Under(outs, Len(outs) + 1, pump) => Under(outs, Len(outs) + 1, x)
    BY <1>3, <1>4, <1>6, <2>1, <2>2, LaneRises
  <2>4. n <= pump => n <= x
    BY <1>3, <1>4, <1>6 DEF Spot
  <2> QED BY <1>8, <2>3, <2>4 DEF Upto, AtMost
<1>10. Under(toV, Len(toV) + 1, x)
  <2>1. \A i \in 1..Len(toV) : Batch(toV[i]) => toV[i].hi \in Spot
    <3> SUFFICES ASSUME NEW i \in 1..Len(toV) PROVE Batch(toV[i]) => toV[i].hi \in Spot
      OBVIOUS
    <3>1. toV[i] \in FromSessiond
      BY <1>6
    <3> QED BY <3>1, FromSessiondBatch
  <2>2. Len(toV) + 1 \in 1..Len(toV) + 1
    BY <1>6
  <2> QED BY <1>3, <1>4, <1>6, <1>8, <2>1, <2>2, LaneRises
<1>11. LET w == toV \o Entries(pump, x)
       IN  /\ w \in Seq(FromSessiond) /\ Rising(w, outs, n) /\ Under(w, Len(w) + 1, x)
           /\ pump < x => Over(w, Len(w) + 1, x)
           /\ toV # <<>> => w # <<>> /\ Head(w) = Head(toV)
           /\ \A i \in 1..Len(w) : w[i].is = "entries" \/ (i \in 1..Len(toV) /\ w[i] = toV[i])
  BY <1>3, <1>4, <1>5, <1>6, <1>9, <1>10, LaneEntries
<1>12. Rising(toV', outs, n) /\ Sent(pump', toV', outs, n) /\ Pumped(pump', toV', outs, n)
  BY <1>2, <1>4, <1>9, <1>11 DEF Sent, Pumped
<1>13. actor.phase = "attaching" => Starting(toV', toS', pump')
  <2>1. actor.phase = "attaching" => toV # <<>> /\ Head(toV).is = "checkpoint"
    BY <1>1, <1>5 DEF Levelled, Starting
  <2> QED BY <1>2, <1>11, <2>1 DEF Starting
<1>14. Past(oldest', toV', toS', commands, n)
  <2>1. ASSUME NEW i \in 1..Len(toV'), toV'[i].is = "checkpoint" PROVE toV'[i].at <= n
    <3>1. i \in 1..Len(toV) /\ toV'[i] = toV[i]
      BY <1>2, <1>11, <2>1
    <3> QED BY <1>5, <2>1, <3>1 DEF Past
  <2> QED BY <1>1, <1>5, <2>1 DEF Past
<1>15. Cut(linked, toV', toS', commands, outs, pump', actor, hub)
  BY <1>7 DEF Cut
<1>16. Asked(linked, actor, stalled, pump', toV', toS')
  <2>1. x # None
    BY <1>4, NoneIsNot
  <2> QED BY <1>2, <2>1 DEF Asked
<1> QED BY <1>12, <1>13, <1>14, <1>15, <1>16

--------------------
\* What the actor takes and says.

LEMMA UptoRises ==
  ASSUME NEW os \in Seq(Said), NEW n \in Spot, NEW x \in Spot, NEW y \in Spot, x <= y
  PROVE  (Upto(os, n, x) => Upto(os, n, y)) /\ (Beyond(os, n, y) => Beyond(os, n, x))
<1>1. \A i \in 1..Len(os) : Batch(os[i]) => os[i].hi \in Spot
  <2> SUFFICES ASSUME NEW i \in 1..Len(os) PROVE Batch(os[i]) => os[i].hi \in Spot
    OBVIOUS
  <2>1. os[i] \in Said
    OBVIOUS
  <2> QED BY <2>1, SaidBatch
<1>2. Len(os) + 1 \in 1..Len(os) + 1
  OBVIOUS
<1>3. (Under(os, Len(os) + 1, x) => Under(os, Len(os) + 1, y))
      /\ (Over(os, Len(os) + 1, y) => Over(os, Len(os) + 1, x))
  BY <1>1, <1>2, LaneRises
<1>4. n \in Int /\ x \in Int /\ y \in Int
  BY DEF Spot
<1>5. Upto(os, n, x) => Upto(os, n, y)
  BY <1>3, <1>4 DEF Upto, AtMost
<1>6. Beyond(os, n, y) => Beyond(os, n, x)
  BY <1>3, <1>4 DEF Beyond, AtLeast
<1> QED BY <1>5, <1>6

LEMMA AnnouncedMore ==
  ASSUME NEW os \in Seq(Said), NEW u \in Seq(Said), Announced(os \o u)
  PROVE  Announced(os) \/ Announced(u)
<1> DEFINE w == os \o u
<1>1. /\ Len(os) \in Nat /\ Len(u) \in Nat /\ Len(w) = Len(os) + Len(u)
      /\ \A i \in 1..Len(os) : w[i] = os[i]
      /\ \A i \in 1..Len(u) : w[Len(os) + i] = u[i]
  BY ConcatIs
<1>2. PICK i \in 1..Len(w) : w[i].is = "live"
  BY DEF Announced
<1> HIDE DEF w
<1>3. CASE i \in 1..Len(os)
  BY <1>1, <1>2, <1>3 DEF Announced
<1>4. CASE ~(i \in 1..Len(os))
  <2>1. i - Len(os) \in 1..Len(u) /\ Len(os) + (i - Len(os)) = i
    BY <1>1, <1>4
  <2>2. u[i - Len(os)].is = "live"
    BY <1>1, <1>2, <2>1
  <2> QED BY <2>1, <2>2 DEF Announced
<1> QED BY <1>3, <1>4

LEMMA TakesSays ==
  ASSUME NEW os \in Seq(Said), NEW n \in Spot, Voiced(os, n), NEW lo \in Spot, NEW hi \in Spot, lo < hi,
         Upto(os, n, hi), NEW x \in Spot, hi <= x, NEW e1, NEW e2, MayBe(e1, e2, x),
         e1 # <<>> => x <= hi \/ Beyond(os, n, x)
  PROVE  Spoken(os, n, hi, e1, os \o Words(lo, hi, e1, e2))
<1>0. e1 \in {<<>>, <<[is |-> "live", at |-> x]>>} /\ e2 \in {<<>>, <<[is |-> "closed"]>>}
  BY DEF MayBe
<1> DEFINE m == [is |-> "applied", lo |-> lo, hi |-> hi]
           a == <<m>>
           w == os \o (a \o e1 \o e2)
           o2 == Append(os, m)
           o3 == o2 \o e1
           o4 == o3 \o e2
<1>1. m \in Said /\ m.is = "applied" /\ m.hi = hi /\ Batch(m) /\ Speaks(m) /\ Place(m) = hi
  BY DEF Said, Batch, Speaks, Place
<1>2. [is |-> "live", at |-> x] \in Said /\ [is |-> "closed"] \in Said
  BY DEF Said
<1>3. a \in Seq(Said) /\ e1 \in Seq(Said) /\ e2 \in Seq(Said) /\ o2 = os \o a
  <2>1. \A q \in Said : <<q>> \in Seq(Said)
    OBVIOUS
  <2>2. <<>> \in Seq(Said)
    OBVIOUS
  <2>3. os \o <<m>> = Append(os, m)
    OBVIOUS
  <2> QED BY <1>0, <1>1, <1>2, <2>1, <2>2, <2>3
<1>4. \A i \in 1..Len(e1) : e1[i].is = "live" /\ e1[i].at = x /\ e1 # <<>>
  BY <1>0
<1>5. \A i \in 1..Len(e2) : e2[i].is = "closed"
  BY <1>0
<1>6. Unbatched(e1) /\ Unbatched(e2) /\ ~Announced(e2)
  BY <1>4, <1>5 DEF Unbatched, Announced, Batch
<1> HIDE DEF m, a, o2, o3, o4, w
<1>7. w = o4
  <2> DEFINE S == Said
  <2>a. os \in Seq(S) /\ a \in Seq(S) /\ e1 \in Seq(S) /\ e2 \in Seq(S)
    BY <1>3
  <2>b. a \o e1 \in Seq(S)
    BY <1>3, ConcatIs
  <2> HIDE DEF S
  <2>1. (os \o a) \o e1 = os \o (a \o e1)
    BY <2>a
  <2>3. (os \o (a \o e1)) \o e2 = os \o ((a \o e1) \o e2)
    BY <2>a, <2>b
  <2> QED BY <1>3, <2>1, <2>3 DEF w, o3, o4
<1>8. o2 \in Seq(Said) /\ Voiced(o2, n)
  BY <1>1, AppendIs, VoicedAppend DEF o2
<1>9. \A y \in Spot : (Upto(o2, n, y) <=> Upto(os, n, y) /\ hi <= y)
                      /\ (Beyond(o2, n, y) <=> Beyond(os, n, y) \/ hi >= y)
  BY <1>1, UptoAppend DEF o2
<1>10. Upto(o2, n, x)
  BY <1>9, UptoRises
<1>11. e1 # <<>> => Beyond(o2, n, x)
  BY <1>9 DEF Spot
<1>12. o3 \in Seq(Said) /\ Voiced(o3, n)
  <2>1. o3 \in Seq(Said)
    BY <1>3, <1>8, ConcatIs DEF o3
  <2>2. \A i \in 1..Len(e1) : Speaks(e1[i]) => Upto(o2, n, Place(e1[i]))
    BY <1>4, <1>10 DEF Place
  <2>3. \A i \in 1..Len(e1) : e1[i].is = "live" => Beyond(o2, n, e1[i].at)
    BY <1>4, <1>11
  <2> QED BY <1>3, <1>6, <1>8, <2>1, <2>2, <2>3, VoicedMore DEF o3
<1>13. o4 \in Seq(Said) /\ Voiced(o4, n)
  <2>1. o4 \in Seq(Said)
    BY <1>3, <1>12, ConcatIs DEF o4
  <2>2. \A i \in 1..Len(e2) : ~Speaks(e2[i]) /\ e2[i].is # "live"
    BY <1>5 DEF Speaks
  <2> QED BY <1>3, <1>6, <1>12, <2>1, <2>2, VoicedMore DEF o4
<1>14. \A y \in Spot : (Upto(o4, n, y) <=> Upto(o2, n, y)) /\ (Beyond(o4, n, y) <=> Beyond(o2, n, y))
  <2> SUFFICES ASSUME NEW y \in Spot
               PROVE  (Upto(o4, n, y) <=> Upto(o2, n, y)) /\ (Beyond(o4, n, y) <=> Beyond(o2, n, y))
    OBVIOUS
  <2>1. Len(e1) \in Nat /\ Len(e2) \in Nat /\ Len(e1) + 1 \in 1..Len(e1) + 1 /\ Len(e2) + 1 \in 1..Len(e2) + 1
    BY <1>3
  <2>2. Under(e1, Len(e1) + 1, y) /\ ~Over(e1, Len(e1) + 1, y)
    BY <1>6, <2>1, LaneUnbatched
  <2>3. Under(e2, Len(e2) + 1, y) /\ ~Over(e2, Len(e2) + 1, y)
    BY <1>6, <2>1, LaneUnbatched
  <2>4. (Upto(o3, n, y) <=> Upto(o2, n, y)) /\ (Beyond(o3, n, y) <=> Beyond(o2, n, y))
    BY <1>3, <1>8, <2>2, UptoMore DEF o3
  <2>5. (Upto(o4, n, y) <=> Upto(o3, n, y)) /\ (Beyond(o4, n, y) <=> Beyond(o3, n, y))
    BY <1>3, <1>12, <2>3, UptoMore DEF o4
  <2> QED BY <2>4, <2>5
<1>15. Announced(o4) => Announced(os) \/ e1 # <<>>
  <2>1. Announced(o4) => Announced(o3)
    BY <1>3, <1>6, <1>12, AnnouncedMore DEF o4
  <2>2. Announced(o3) => Announced(o2) \/ Announced(e1)
    BY <1>3, <1>8, AnnouncedMore DEF o3
  <2>3. Announced(e1) => e1 # <<>>
    BY <1>4 DEF Announced
  <2>4. Announced(o2) => Announced(os)
    <3>1. Announced(o2) => Announced(os) \/ Announced(a)
      BY <1>3, AnnouncedMore
    <3>2. ~Announced(a)
      <4>1. \A i \in 1..Len(a) : a[i] = m
        BY DEF a
      <4> QED BY <1>1, <4>1 DEF Announced
    <3> QED BY <3>1, <3>2
  <2> QED BY <2>1, <2>2, <2>3, <2>4
<1>16. \A y \in Spot : Upto(o4, n, y) <=> Upto(os, n, y) /\ hi <= y
  BY <1>9, <1>14
<1>17. \A y \in Spot : Beyond(o4, n, y) <=> Beyond(os, n, y) \/ hi >= y
  BY <1>9, <1>14
<1> QED BY <1>7, <1>13, <1>15, <1>16, <1>17 DEF w, a, m, Spoken, Words

LEMMA LanePasses ==
  ASSUME NEW tv \in Seq(FromSessiond), tv # <<>>, NEW os, NEW w, NEW n, Rising(tv, os, n),
         NEW sent \in Spot \cup {None}, Sent(sent, tv, os, n),
         \A x \in Spot : Upto(os, n, x) /\ (Batch(Head(tv)) => Head(tv).hi <= x) => Upto(w, n, x)
  PROVE  /\ Rising(Tail(tv), w, n) /\ Sent(sent, Tail(tv), w, n)
         /\ Head(tv).is = "entries" => Upto(os, n, Head(tv).hi)
         /\ Pumped(sent, tv, os, n) /\ Passes(Head(tv), os, w, n) => Pumped(sent, Tail(tv), w, n)
<1> DEFINE u == Tail(tv)
           m == Head(tv)
<1>1. /\ m \in FromSessiond /\ m = tv[1] /\ u \in Seq(FromSessiond) /\ Len(u) = Len(tv) - 1
      /\ Len(tv) \in Nat /\ Len(tv) > 0 /\ \A i \in 1..Len(u) : u[i] = tv[i + 1]
  BY TailIs
<1>2. \A i \in 1..Len(tv) : \A x :
        /\ Under(tv, i + 1, x) <=> (Batch(m) => m.hi <= x) /\ Under(u, i, x)
        /\ Over(tv, i + 1, x) <=> (Batch(m) /\ m.hi >= x) \/ Over(u, i, x)
  BY LaneTail
<1>3. \A x \in Spot : Upto(os, n, x) /\ (Batch(m) => m.hi <= x) => Upto(w, n, x)
  OBVIOUS
<1> HIDE DEF u, m
<1>4. Rising(u, w, n)
  <2> SUFFICES ASSUME NEW i \in 1..Len(u), u[i].is = "entries"
               PROVE  Upto(w, n, u[i].hi) /\ Under(u, i, u[i].hi)
    BY DEF Rising
  <2>1. i \in 1..Len(tv) /\ i + 1 \in 1..Len(tv) /\ u[i] = tv[i + 1]
    BY <1>1
  <2>2. Upto(os, n, u[i].hi) /\ Under(tv, i + 1, u[i].hi)
    BY <2>1 DEF Rising
  <2>3. u[i] \in FromSessiond
    BY <1>1
  <2>4. u[i].hi \in Spot
    BY <2>3, FromSessiondIs
  <2> QED BY <1>2, <1>3, <2>1, <2>2, <2>4
<1>5. Len(tv) \in 1..Len(tv) /\ Len(u) + 1 = Len(tv)
  BY <1>1
<1>6. \A x : /\ Under(tv, Len(tv) + 1, x) <=> (Batch(m) => m.hi <= x) /\ Under(u, Len(u) + 1, x)
             /\ Over(tv, Len(tv) + 1, x) <=> (Batch(m) /\ m.hi >= x) \/ Over(u, Len(u) + 1, x)
  BY <1>2, <1>5
<1>7. Sent(sent, u, w, n)
  BY <1>3, <1>6 DEF Sent
<1>8. m.is = "entries" => Upto(os, n, m.hi)
  <2>1. 1 \in 1..Len(tv)
    BY <1>1
  <2> QED BY <1>1, <2>1 DEF Rising
<1>9. Pumped(sent, tv, os, n) /\ Passes(m, os, w, n) => Pumped(sent, u, w, n)
  BY <1>6 DEF Pumped, Passes
<1> QED BY <1>4, <1>7, <1>8, <1>9 DEF u, m

LEMMA PastReceived ==
  ASSUME NEW tv \in Seq(FromSessiond), tv # <<>>, NEW old, NEW ts, NEW cs, NEW n, Past(old, tv, ts, cs, n)
  PROVE  /\ Past(old, Tail(tv), ts, cs, n)
         /\ Head(tv).is = "checkpoint" => Head(tv).at <= n
         /\ \A i \in 1..Len(tv) : tv[i].is = "refused" =>
              Head(tv).is = "refused" \/ \E j \in 1..Len(Tail(tv)) : Tail(tv)[j].is = "refused"
<1>1. Head(tv) = tv[1] /\ Len(tv) \in Nat /\ Len(Tail(tv)) = Len(tv) - 1 /\ Len(tv) > 0
      /\ \A i \in 1..Len(tv) - 1 : Tail(tv)[i] = tv[i + 1]
  BY TailIs
<1>2. \A i \in 1..Len(Tail(tv)) : Tail(tv)[i].is = "checkpoint" => Tail(tv)[i].at <= n
  <2> SUFFICES ASSUME NEW i \in 1..Len(Tail(tv)), Tail(tv)[i].is = "checkpoint" PROVE Tail(tv)[i].at <= n
    OBVIOUS
  <2>1. i + 1 \in 1..Len(tv) /\ Tail(tv)[i] = tv[i + 1]
    BY <1>1
  <2> QED BY <2>1 DEF Past
<1>3. Head(tv).is = "checkpoint" => Head(tv).at <= n
  BY <1>1 DEF Past
<1>4. ASSUME NEW i \in 1..Len(tv), tv[i].is = "refused"
      PROVE  Head(tv).is = "refused" \/ \E j \in 1..Len(Tail(tv)) : Tail(tv)[j].is = "refused"
  <2>1. CASE i = 1
    BY <1>1, <1>4, <2>1
  <2>2. CASE i # 1
    <3>1. i - 1 \in 1..Len(Tail(tv)) /\ Tail(tv)[i - 1] = tv[i]
      BY <1>1, <2>2
    <3> QED BY <1>4, <3>1
  <2> QED BY <2>1, <2>2
<1>5. Past(old, Tail(tv), ts, cs, n)
  BY <1>2 DEF Past
<1> QED BY <1>3, <1>4, <1>5

\* What a running actor is and has said after a batch to hi: it was cut
\* for what it held, or not, before.
LEMMA TakesParts ==
  ASSUME StreamsInv, actor.phase = "running", NEW lo \in Spot, NEW hi \in Spot, lo < hi, ActorTakes(lo, hi)
  PROVE  LET x == IF hi > actor.at THEN hi ELSE actor.at
             live == x >= actor.live_at
         IN  \E before \in {outs} \cup {outs \o Snapshots(actor.held, cut) : cut \in {k \in actor.at + 1..x : actor.held # <<>>}},
                e1 \in {<<>>, <<[is |-> "live", at |-> x]>>}, e2 \in {<<>>, <<[is |-> "closed"]>>} :
               /\ outs' = before \o (<<[is |-> "applied", lo |-> lo, hi |-> hi]>> \o e1 \o e2)
               /\ e1 # <<>> <=> live /\ ~actor.live
               /\ (actor'.phase = "running" /\ actor'.at = x /\ actor'.live = live
                   /\ actor'.live_at = actor.live_at /\ actor'.held \in {actor.held, <<>>})
                  \/ (actor'.phase = "down" /\ actor'.held = <<>>)
<1> DEFINE x == IF hi > actor.at THEN hi ELSE actor.at
           live == x >= actor.live_at
           ended == Kind(x - 1) = "exit" /\ live
           gone == [actor EXCEPT !.phase = "down", !.at = x, !.held = <<>>]
           a == <<[is |-> "applied", lo |-> lo, hi |-> hi]>>
           e1 == IF live /\ ~actor.live THEN <<[is |-> "live", at |-> x]>> ELSE <<>>
           e2 == IF ended THEN <<[is |-> "closed"]>> ELSE <<>>
           said == a \o e1 \o e2
           on == [actor EXCEPT !.at = x, !.live = live]
           after == IF ended THEN gone ELSE on
           B == {outs} \cup {outs \o Snapshots(actor.held, cut) : cut \in {k \in actor.at + 1..x : actor.held # <<>>}}
           Is(act) == \/ (act.phase = "running" /\ act.at = x /\ act.live = live
                          /\ act.live_at = actor.live_at /\ act.held \in {actor.held, <<>>})
                      \/ (act.phase = "down" /\ act.held = <<>>)
<1>1. actor \in Actor
  BY InvIs
<1>2. \/ outs' = outs \o said /\ actor' = after
      \/ \E cut \in actor.at + 1..x :
           /\ actor.held # <<>>
           /\ outs' = outs \o Snapshots(actor.held, cut) \o said
           /\ actor' = [after EXCEPT !.held = <<>>]
  BY DEF ActorTakes
<1>3. e1 \in {<<>>, <<[is |-> "live", at |-> x]>>} /\ e2 \in {<<>>, <<[is |-> "closed"]>>}
      /\ (e1 # <<>> <=> live /\ ~actor.live)
  OBVIOUS
<1> HIDE DEF x, live, ended, e1, e2, a, said
<1>4. Is(gone) /\ Is([gone EXCEPT !.held = <<>>])
  BY <1>1 DEF Actor
<1>5. Is(on) /\ Is([on EXCEPT !.held = <<>>])
  BY <1>1 DEF Actor
<1>6. Is(after) /\ Is([after EXCEPT !.held = <<>>])
  BY <1>4, <1>5
<1> HIDE DEF after, Is
<1>7. \E before \in B : outs' = before \o said /\ Is(actor')
  BY <1>2, <1>6
<1> HIDE DEF B
<1>8. PICK before \in B : outs' = before \o said /\ Is(actor')
  BY <1>7
<1>9. /\ outs' = before \o (a \o e1 \o e2)
      /\ e1 # <<>> <=> live /\ ~actor.live
      /\ Is(actor')
  BY <1>3, <1>8 DEF said
<1> QED BY <1>3, <1>9 DEF B, Is, a, x, live

\* The message that a step takes from sessiond's lane, seen from the rest.
LEMMA ReceivesFlow ==
  ASSUME StreamsInv, FlowInv, Accounted, hub.holds, toV # <<>>, toV' = Tail(toV),
         UNCHANGED <<sessiondVars, toS, commands, linked, hub, conn, rpcs, answers, overtaken, stalled>>,
         Voiced(outs', hub.head),
         \A x \in Spot : Upto(outs, hub.head, x) /\ (Batch(Head(toV)) => Head(toV).hi <= x)
                           => Upto(outs', hub.head, x),
         actor'.phase # "down" => actor.phase # "down" /\ Passes(Head(toV), outs, outs', hub.head),
         Levelled(actor', Tail(toV), toS, outs', pump, hub.head), Living(hub, actor', outs'),
         Head(toV).is # "refused"
  PROVE  FlowInv' /\ Accounted'
<1> DEFINE n == hub.head
<1>1. /\ Rising(toV, outs, n) /\ Sent(pump, toV, outs, n)
      /\ (actor.phase # "down" => Pumped(pump, toV, outs, n))
      /\ Past(oldest, toV, toS, commands, n)
      /\ Cut(linked, toV, toS, commands, outs, pump, actor, hub)
      /\ Asked(linked, actor, stalled, pump, toV, toS) /\ Placed(hub, conn)
  BY FlowIs
<1>2. toV \in Seq(FromSessiond) /\ pump \in Spot \cup {None}
  BY InvIs DEF StreamsInv, PlacesFine
<1>3. linked
  BY <1>1 DEF Cut
<1>4. Rising(toV', outs', n) /\ Sent(pump, toV', outs', n)
  BY <1>1, <1>2, LanePasses
<1>5. actor'.phase # "down" => Pumped(pump, toV', outs', n)
  BY <1>1, <1>2, LanePasses
<1>6. /\ Past(oldest, toV', toS, commands, n)
      /\ \A i \in 1..Len(toV) : toV[i].is = "refused" => \E j \in 1..Len(toV') : toV'[j].is = "refused"
  BY <1>1, <1>2, PastReceived
<1>7. Asked(linked, actor', stalled, pump, toV', toS)
  BY <1>1, <1>6 DEF Asked
<1>8. Cut(linked, toV', toS, commands, outs', pump, actor', hub)
  BY <1>3 DEF Cut
<1>9. oldest' = oldest /\ pump' = pump
  BY DEF sessiondVars
<1>10. Accounted'
  BY AccountingSame
<1>11. FlowInv'
  BY <1>1, <1>4, <1>5, <1>6, <1>7, <1>8, <1>9 DEF FlowInv
<1> QED BY <1>10, <1>11

LEMMA ReceivesEntriesFlow ==
  ASSUME StreamsInv, FlowInv, Accounted, ReceivesEntries
  PROVE  FlowInv' /\ Accounted'
<1> DEFINE n == hub.head
           lo == Head(toV).lo
           hi == Head(toV).hi
<1>1. /\ toV # <<>> /\ toV' = Tail(toV) /\ Head(toV) \in FromSessiond /\ Head(toV).is = "entries"
      /\ ActorTakes(lo, hi)
      /\ UNCHANGED <<sessiondVars, toS, commands, linked, hub, conn, rpcs, answers, overtaken, stalled>>
  BY ReceivesIs DEF ReceivesEntries, Receives, clientVars
<1>2. lo \in Spot /\ hi \in Spot /\ lo < hi /\ Batch(Head(toV))
  BY <1>1, FromSessiondIs, FromSessiondBatch
<1>3. CASE ~hub.holds
  BY <1>1, <1>3, FlowOver, AccountingSame
<1>4. CASE hub.holds
  <2>1. /\ Rising(toV, outs, n) /\ Sent(pump, toV, outs, n) /\ Voiced(outs, n)
        /\ Levelled(actor, toV, toS, outs, pump, n) /\ Living(hub, actor, outs)
    BY <1>4, FlowIs
  <2>2. /\ toV \in Seq(FromSessiond) /\ outs \in Seq(Said) /\ n \in Spot /\ pump \in Spot \cup {None}
        /\ actor \in Actor /\ actor.at \in Spot /\ actor.live_at \in Spot /\ actor.held \in Seq(Rpcs)
    BY InvIs DEF StreamsInv, PlacesFine
  <2>3. Upto(outs, n, hi)
    <3>1. \A x \in Spot : Upto(outs, n, x) /\ (Batch(Head(toV)) => Head(toV).hi <= x) => Upto(outs, n, x)
      OBVIOUS
    <3> QED BY <1>1, <2>1, <2>2, <3>1, LanePasses
  <2> HIDE DEF lo
  <2>4. actor.phase # "attaching"
    BY <1>1, <2>1 DEF Levelled, Starting
  <2>5. CASE actor.phase = "down"
    <3>1. actor' = actor /\ outs' = outs
      BY <1>1, <2>5 DEF ActorTakes
    <3>2. Levelled(actor', Tail(toV), toS, outs', pump, n)
      BY <2>5, <3>1 DEF Levelled
    <3>3. Living(hub, actor', outs') /\ actor'.phase = "down" /\ Voiced(outs', n)
      BY <2>1, <2>5, <3>1
    <3> QED BY <1>1, <1>4, <3>1, <3>2, <3>3, ReceivesFlow
  <2>6. CASE actor.phase = "running"
    <3> DEFINE x == IF hi > actor.at THEN hi ELSE actor.at
               live == x >= actor.live_at
               B == {outs} \cup {outs \o Snapshots(actor.held, cut) : cut \in {k \in actor.at + 1..x : actor.held # <<>>}}
    <3>1. PICK before \in B, e1 \in {<<>>, <<[is |-> "live", at |-> x]>>}, e2 \in {<<>>, <<[is |-> "closed"]>>} :
               /\ outs' = before \o (<<[is |-> "applied", lo |-> lo, hi |-> hi]>> \o e1 \o e2)
               /\ e1 # <<>> <=> live /\ ~actor.live
               /\ (actor'.phase = "running" /\ actor'.at = x /\ actor'.live = live
                   /\ actor'.live_at = actor.live_at /\ actor'.held \in {actor.held, <<>>})
                  \/ (actor'.phase = "down" /\ actor'.held = <<>>)
      BY <1>1, <1>2, <2>6, TakesParts
    <3>2. x \in Spot /\ hi <= x /\ actor.at <= x /\ (x = hi \/ x = actor.at)
      BY <1>2, <2>2 DEF Spot
    <3> HIDE DEF x
    <3>3. /\ before \in Seq(Said) /\ Voiced(before, n) /\ Carries(outs, n, before, n)
          /\ Announced(before) => Announced(outs)
      <4>1. CASE before = outs
        BY <2>1, <2>2, <4>1, CarriesSame
      <4>2. CASE before # outs
        <5>1. PICK cut \in actor.at + 1..x : actor.held # <<>> /\ before = outs \o Snapshots(actor.held, cut)
          BY <3>1, <4>2
        <5>2. cut \in Spot /\ actor.at <= cut
          BY <2>2, <3>2 DEF Spot
        <5>3. actor.live
          BY <2>1, <2>6, <5>1 DEF Living
        <5>4. Upto(outs, n, cut)
          BY <2>1, <2>2, <2>6, <5>2, <5>3, UptoRises DEF Levelled
        <5>5. LET w == outs \o Snapshots(actor.held, cut)
              IN  /\ w \in Seq(Said) /\ Voiced(w, n) /\ Carries(outs, n, w, n)
                  /\ Unbatched(outs) => Unbatched(w)
                  /\ Announced(w) => Announced(outs)
          BY <2>1, <2>2, <5>2, <5>4, SnapshotsVoiced
        <5> QED BY <5>1, <5>5
      <4> QED BY <4>1, <4>2
    <3> HIDE DEF B
    <3>4. ~actor.live => Beyond(outs, n, actor.at) /\ Upto(outs, n, actor.live_at)
      BY <2>1, <2>6 DEF Levelled
    <3>5. actor.live => Upto(outs, n, actor.at) /\ actor.live_at <= actor.at
      BY <2>1, <2>6 DEF Levelled
    <3>6. Upto(before, n, hi)
      BY <1>2, <2>3, <3>3 DEF Carries
    <3>7. ~actor.live => x <= hi \/ Beyond(before, n, x)
      BY <2>2, <3>2, <3>3, <3>4 DEF Carries, Spot
    <3>a. e1 # <<>> => x <= hi \/ Beyond(before, n, x)
      BY <3>1, <3>7
    <3>b. lo \in Spot /\ hi \in Spot /\ lo < hi /\ n \in Spot
      BY <1>2, <2>2
    <3> DEFINE w == before \o Words(lo, hi, e1, e2)
    <3>c. outs' = w
      BY <3>1 DEF Words
    <3>d. MayBe(e1, e2, x)
      BY DEF MayBe
    <3> HIDE DEF n, hi, live
    <3>e. Spoken(before, n, hi, e1, w)
      BY <3>2, <3>3, <3>6, <3>a, <3>b, <3>d, TakesSays
    <3> HIDE DEF w
    <3>8. /\ Voiced(outs', n)
          /\ \A y \in Spot : Upto(outs', n, y) <=> Upto(before, n, y) /\ hi <= y
          /\ \A y \in Spot : Beyond(outs', n, y) <=> Beyond(before, n, y) \/ hi >= y
          /\ Announced(outs') => Announced(before) \/ e1 # <<>>
      BY <3>c, <3>e DEF Spoken
    <3>10. \A y \in Spot : Upto(outs, n, y) /\ hi <= y => Upto(outs', n, y)
      BY <3>3, <3>8 DEF Carries
    <3>11. \A y \in Spot : Beyond(outs, n, y) \/ hi >= y => Beyond(outs', n, y)
      BY <3>3, <3>8 DEF Carries
    <3>12. Passes(Head(toV), outs, outs', n)
      BY <1>2, <3>10, <3>11 DEF Passes, hi
    <3>13. ~actor.live => Beyond(outs', n, x)
      BY <2>2, <3>2, <3>4, <3>11 DEF Spot
    <3>14. Upto(outs, n, x) \/ ~actor.live
      BY <2>2, <3>2, <3>5, UptoRises DEF n
    <3>15. Upto(outs', n, x)
      <4>1. Upto(outs, n, x)
        BY <1>2, <2>2, <2>3, <3>2, UptoRises DEF n
      <4> QED BY <3>2, <3>10, <4>1
    <3>16. Levelled(actor', Tail(toV), toS, outs', pump, n)
      <4>1. CASE actor'.phase = "down"
        BY <4>1 DEF Levelled
      <4>2. CASE actor'.phase = "running" /\ actor'.at = x /\ actor'.live = live /\ actor'.live_at = actor.live_at
        <5>1. live => actor.live_at <= x
          BY <2>2, <3>2 DEF Spot, live
        <5>2. ~live => ~actor.live
          BY <2>2, <3>2, <3>5 DEF Spot, live
        <5>3. ~live => hi <= actor.live_at
          BY <2>2, <3>2, <3>b DEF Spot, live
        <5>4. ~live => Upto(outs', n, actor.live_at)
          BY <2>2, <3>4, <3>10, <5>2, <5>3 DEF n
        <5> QED BY <3>13, <3>15, <4>2, <5>1, <5>2, <5>4 DEF Levelled
      <4> QED BY <3>1, <4>1, <4>2
    <3>17. Living(hub, actor', outs')
      <4>1. CASE actor'.phase = "down"
        BY <4>1 DEF Living
      <4>2. CASE actor'.phase = "running" /\ actor'.at = x /\ actor'.live = live /\ actor'.held \in {actor.held, <<>>}
        <5>1. actor.live => live
          BY <2>2, <3>2, <3>5 DEF Spot, live
        <5>2. e1 # <<>> => live
          BY <3>1
        <5>3. Announced(outs') => Announced(outs) \/ live
          BY <3>3, <3>8, <5>2
        <5>4. hub.live \/ hub.fetch # None \/ actor.held # <<>> \/ Announced(outs) => actor.live
          BY <2>1, <2>6 DEF Living
        <5> QED BY <4>2, <5>1, <5>3, <5>4 DEF Living
      <4> QED BY <3>1, <4>1, <4>2
    <3>18. Voiced(outs', n)
      BY <3>8 DEF n
    <3> QED BY <1>1, <1>2, <1>4, <2>6, <3>10, <3>12, <3>16, <3>17, <3>18, ReceivesFlow DEF n, hi
  <2>7. actor.phase \in {"attaching", "running", "down"}
    BY <2>2 DEF Actor
  <2> QED BY <2>4, <2>5, <2>6, <2>7
<1> QED BY <1>3, <1>4

LEMMA SaysPlain ==
  ASSUME NEW os \in Seq(Said), NEW m \in Said, m.is \in {"lost", "asleep"}, NEW n, Voiced(os, n)
  PROVE  LET w == Append(os, m)
         IN  /\ w \in Seq(Said) /\ Voiced(w, n) /\ Carries(os, n, w, n)
             /\ Unbatched(os) => Unbatched(w)
             /\ Announced(w) => Announced(os)
<1> DEFINE u == <<m>>
           w == Append(os, m)
<1>1. w = os \o u /\ u \in Seq(Said) /\ Len(u) = 1 /\ u[1] = m /\ w \in Seq(Said)
  OBVIOUS
<1>2. \A i \in 1..Len(u) : u[i].is \in {"lost", "asleep"}
  BY <1>1
<1> HIDE DEF u, w
<1>3. Unbatched(u) /\ ~Announced(u)
  BY <1>2 DEF Unbatched, Announced, Batch
<1>4. \A i \in 1..Len(u) : ~Speaks(u[i]) /\ u[i].is # "live"
  BY <1>2 DEF Speaks
<1>5. Voiced(w, n)
  BY <1>1, <1>3, <1>4, VoicedMore
<1>6. Carries(os, n, w, n)
  BY <1>1, <1>3, CarriesMore
<1>7. Announced(w) => Announced(os)
  BY <1>1, <1>3, AnnouncedMore
<1>8. Unbatched(os) => Unbatched(w)
  <2>1. /\ Len(os) \in Nat /\ Len(w) = Len(os) + 1 /\ w[Len(os) + 1] = m
        /\ \A i \in 1..Len(os) : w[i] = os[i]
    BY <1>1, AppendIs DEF w
  <2>2. \A i \in 1..Len(w) : (i \in 1..Len(os) /\ w[i] = os[i]) \/ w[i] = m
    BY <2>1
  <2> QED BY <2>2 DEF Unbatched, Batch
<1> QED BY <1>1, <1>5, <1>6, <1>7, <1>8 DEF w

\* What the actor does on its own.
LEMMA FlowSays ==
  ASSUME StreamsInv, FlowInv, Accounted, actor.phase # "down",
         UNCHANGED <<sessiondVars, toV, toS, commands, linked, hub, conn, rpcs, answers, overtaken, stalled>>,
         hub.holds => /\ Voiced(outs', hub.head) /\ Carries(outs, hub.head, outs', hub.head)
                      /\ (Unbatched(outs) => Unbatched(outs')) /\ (Announced(outs') => Announced(outs)),
         \/ actor'.phase = "down"
         \/ /\ actor'.phase = actor.phase /\ actor'.at = actor.at /\ actor'.live = actor.live
            /\ actor'.live_at = actor.live_at
            /\ (actor'.held # <<>> => actor.held # <<>>)
  PROVE  FlowInv' /\ Accounted'
<1> DEFINE n == hub.head
<1>1. Accounted'
  BY AccountingSame
<1>2. CASE ~hub.holds
  BY <1>1, <1>2, FlowOver
<1>3. CASE hub.holds
  <2>1. /\ Rising(toV, outs, n) /\ Sent(pump, toV, outs, n) /\ Pumped(pump, toV, outs, n)
        /\ Levelled(actor, toV, toS, outs, pump, n) /\ Living(hub, actor, outs)
        /\ Past(oldest, toV, toS, commands, n)
        /\ Cut(linked, toV, toS, commands, outs, pump, actor, hub)
        /\ Asked(linked, actor, stalled, pump, toV, toS) /\ Placed(hub, conn)
    BY <1>3, FlowIs
  <2>2. toV \in Seq(FromSessiond) /\ pump \in Spot \cup {None} /\ actor \in Actor
    BY InvIs DEF StreamsInv, PlacesFine
  <2>3. /\ Voiced(outs', n) /\ Carries(outs, n, outs', n)
        /\ (Unbatched(outs) => n = n /\ Unbatched(outs')) /\ (Announced(outs') => Announced(outs))
    BY <1>3
  <2> HIDE DEF n
  <2>4. Rising(toV, outs', n)
    BY <2>1, <2>2, <2>3, RisingCarried
  <2>5. Sent(pump, toV, outs', n) /\ Pumped(pump, toV, outs', n)
    BY <2>1, <2>2, <2>3, SentCarried
  <2>6. Levelled(actor', toV, toS, outs', pump, n)
    <3>1. CASE actor'.phase = "down"
      BY <3>1 DEF Levelled
    <3>2. CASE actor'.phase # "down"
      BY <2>1, <2>2, <2>3, <3>2, LevelledCarried
    <3> QED BY <3>1, <3>2
  <2>7. Living(hub, actor', outs')
    BY <2>1, <2>3 DEF Living
  <2>8. Cut(linked, toV, toS, commands, outs', pump, actor', hub)
    BY <2>1 DEF Cut
  <2>9. Asked(linked, actor', stalled, pump, toV, toS)
    BY <2>1 DEF Asked
  <2>10. oldest' = oldest /\ pump' = pump /\ toV' = toV /\ toS' = toS /\ commands' = commands
         /\ linked' = linked /\ hub' = hub /\ conn' = conn /\ stalled' = stalled
    BY DEF sessiondVars
  <2>11. FlowInv'
    BY <1>3, <2>1, <2>3, <2>4, <2>5, <2>6, <2>7, <2>8, <2>9, <2>10 DEF FlowInv, n
  <2> QED BY <1>1, <2>11
<1> QED BY <1>2, <1>3

LEMMA HoldEndsFlow ==
  ASSUME StreamsInv, FlowInv, Accounted, HoldEnds
  PROVE  FlowInv' /\ Accounted'
<1>1. /\ UNCHANGED <<sessiondVars, toV, toS, commands, linked, hub, conn, rpcs, answers, overtaken, stalled>>
      /\ actor.phase = "running" /\ actor.held # <<>>
      /\ outs' = outs \o Snapshots(actor.held, actor.at) /\ actor' = [actor EXCEPT !.held = <<>>]
  BY DEF HoldEnds, clientVars
<1>2. actor \in Actor /\ actor.held \in Seq(Rpcs) /\ actor.at \in Spot /\ outs \in Seq(Said)
  BY InvIs
<1>3. hub.holds => /\ Voiced(outs', hub.head) /\ Carries(outs, hub.head, outs', hub.head)
                   /\ (Unbatched(outs) => Unbatched(outs')) /\ (Announced(outs') => Announced(outs))
  <2> SUFFICES ASSUME hub.holds
               PROVE  /\ Voiced(outs', hub.head) /\ Carries(outs, hub.head, outs', hub.head)
                      /\ (Unbatched(outs) => Unbatched(outs')) /\ (Announced(outs') => Announced(outs))
    OBVIOUS
  <2>1. Voiced(outs, hub.head) /\ Levelled(actor, toV, toS, outs, pump, hub.head)
        /\ Living(hub, actor, outs)
    BY FlowIs
  <2>2. actor.live
    BY <1>1, <2>1 DEF Living
  <2>3. Upto(outs, hub.head, actor.at)
    BY <1>1, <2>1, <2>2 DEF Levelled
  <2>4. LET w == outs \o Snapshots(actor.held, actor.at)
        IN  /\ w \in Seq(Said) /\ Voiced(w, hub.head) /\ Carries(outs, hub.head, w, hub.head)
            /\ Unbatched(outs) => Unbatched(w)
            /\ Announced(w) => Announced(outs)
    BY <1>2, <2>1, <2>3, SnapshotsVoiced
  <2> QED BY <1>1, <2>4
<1>4. /\ actor'.phase = actor.phase /\ actor'.at = actor.at /\ actor'.live = actor.live
      /\ actor'.live_at = actor.live_at /\ actor'.held = <<>>
  BY <1>1, <1>2 DEF Actor
<1> QED BY <1>1, <1>3, <1>4, FlowSays

LEMMA DozesFlow ==
  ASSUME StreamsInv, FlowInv, Accounted, Dozes
  PROVE  FlowInv' /\ Accounted'
<1> DEFINE m == [is |-> "asleep"]
<1>1. /\ UNCHANGED <<sessiondVars, toV, toS, commands, linked, hub, conn, rpcs, answers, overtaken, stalled>>
      /\ actor.phase = "running" /\ outs = <<>> /\ outs' = <<m>> /\ actor' = actor
  BY DEF Dozes, clientVars
<1>2. m \in Said /\ m.is = "asleep"
  BY DEF Said
<1> HIDE DEF m
<1>3. outs' = Append(outs, m) /\ outs \in Seq(Said)
  BY <1>1, InvIs
<1>4. hub.holds => /\ Voiced(outs', hub.head) /\ Carries(outs, hub.head, outs', hub.head)
                   /\ (Unbatched(outs) => Unbatched(outs')) /\ (Announced(outs') => Announced(outs))
  <2>1. hub.holds => Voiced(outs, hub.head)
    BY FlowIs
  <2> QED BY <1>2, <1>3, <2>1, SaysPlain
<1> QED BY <1>1, <1>4, FlowSays

LEMMA PanicsFlow ==
  ASSUME StreamsInv, FlowInv, Accounted, Panics
  PROVE  FlowInv' /\ Accounted'
<1> DEFINE m == [is |-> "lost"]
<1>1. /\ UNCHANGED <<sessiondVars, toV, toS, commands, linked, hub, conn, rpcs, answers, overtaken, stalled>>
      /\ actor.phase # "down" /\ outs' = Append(outs, m)
      /\ actor' = [actor EXCEPT !.phase = "down", !.held = <<>>]
  BY DEF Panics, clientVars
<1>2. m \in Said /\ m.is = "lost"
  BY DEF Said
<1> HIDE DEF m
<1>3. outs \in Seq(Said) /\ actor \in Actor
  BY InvIs
<1>4. hub.holds => /\ Voiced(outs', hub.head) /\ Carries(outs, hub.head, outs', hub.head)
                   /\ (Unbatched(outs) => Unbatched(outs')) /\ (Announced(outs') => Announced(outs))
  <2>1. hub.holds => Voiced(outs, hub.head)
    BY FlowIs
  <2> QED BY <1>1, <1>2, <1>3, <2>1, SaysPlain
<1>5. actor'.phase = "down"
  BY <1>1, <1>3 DEF Actor
<1> QED BY <1>1, <1>4, <1>5, FlowSays

LEMMA ReceivesCheckpointFlow ==
  ASSUME StreamsInv, FlowInv, Accounted, ReceivesCheckpoint
  PROVE  FlowInv' /\ Accounted'
<1> DEFINE n == hub.head
           x == Head(toV).at
<1>1. /\ toV # <<>> /\ toV' = Tail(toV) /\ Head(toV) \in FromSessiond /\ Head(toV).is = "checkpoint"
      /\ ActorRestores(x)
      /\ UNCHANGED <<sessiondVars, toS, commands, linked, hub, conn, rpcs, answers, overtaken, stalled>>
  BY ReceivesIs DEF ReceivesCheckpoint, Receives, clientVars
<1>2. x \in Spot /\ ~Batch(Head(toV))
  BY <1>1, FromSessiondIs, FromSessiondBatch
<1>3. CASE ~hub.holds
  BY <1>1, <1>3, FlowOver, AccountingSame
<1>4. CASE hub.holds
  <2>1. /\ Voiced(outs, n) /\ Levelled(actor, toV, toS, outs, pump, n) /\ Living(hub, actor, outs)
        /\ Past(oldest, toV, toS, commands, n)
    BY <1>4, FlowIs
  <2>2. toV \in Seq(FromSessiond) /\ outs \in Seq(Said) /\ n \in Spot /\ actor \in Actor
        /\ actor.live_at \in Spot
    BY InvIs
  <2>3. x <= n
    BY <1>1, <2>1, <2>2, PastReceived
  <2>4. CASE actor.phase # "attaching"
    <3>1. actor' = actor /\ outs' = outs
      BY <1>1, <2>4 DEF ActorRestores
    <3>2. Levelled(actor', Tail(toV), toS, outs', pump, n)
      BY <2>1, <2>4, <3>1 DEF Levelled
    <3>3. Passes(Head(toV), outs, outs', n)
      BY <1>2, <3>1 DEF Passes
    <3> QED BY <1>1, <1>4, <2>1, <3>1, <3>2, <3>3, ReceivesFlow
  <2>5. CASE actor.phase = "attaching"
    <3> DEFINE live == x >= actor.live_at
               m == [is |-> "live", at |-> x]
    <3>1. /\ actor' = [actor EXCEPT !.phase = "running", !.at = x, !.live = live]
          /\ outs' = IF live THEN Append(outs, m) ELSE outs
      BY <1>1, <2>5 DEF ActorRestores
    <3>2. m \in Said /\ m.is = "live" /\ m.at = x /\ ~Batch(m) /\ Place(m) = x
      BY <1>2 DEF Said, Batch, Place
    <3>3. actor'.phase = "running" /\ actor'.at = x /\ actor'.live = live
          /\ actor'.live_at = actor.live_at /\ actor'.held = actor.held
      BY <2>2, <3>1 DEF Actor
    <3>4. n <= actor.live_at /\ Unbatched(outs)
      BY <2>1, <2>5 DEF Levelled
    <3>5. ~hub.live /\ hub.fetch = None /\ actor.held = <<>> /\ ~Announced(outs)
      BY <2>1, <2>5 DEF Living
    <3>6. n \in Int /\ x \in Int /\ actor.live_at \in Int
      BY <1>2, <2>2 DEF Spot
    <3>7. \A y : Under(outs, Len(outs) + 1, y)
      <4>1. Len(outs) \in Nat /\ Len(outs) + 1 \in 1..Len(outs) + 1
        BY <2>2
      <4> QED BY <3>4, <4>1, LaneUnbatched
    <3>8. live => n = x /\ actor.live_at <= x
      BY <2>3, <3>4, <3>6
    <3> HIDE DEF live, m, x, n
    <3>9. live => Upto(outs, n, x) /\ Beyond(outs, n, x)
      BY <3>6, <3>7, <3>8 DEF Upto, Beyond, AtMost, AtLeast
    <3>10. Voiced(outs', n)
      <4>1. live => Voiced(Append(outs, m), n)
        BY <2>1, <2>2, <3>2, <3>9, VoicedAppend
      <4> QED BY <2>1, <3>1, <4>1
    <3>11. \A y \in Spot : /\ Upto(outs, n, y) => Upto(outs', n, y)
                           /\ Beyond(outs, n, y) => Beyond(outs', n, y)
      <4>1. \A y \in Spot : /\ Upto(outs, n, y) => Upto(Append(outs, m), n, y)
                            /\ Beyond(outs, n, y) => Beyond(Append(outs, m), n, y)
        BY <2>2, <3>2, UptoAppend
      <4> QED BY <3>1, <4>1
    <3>12. Passes(Head(toV), outs, outs', n)
      BY <1>2, <3>11 DEF Passes
    <3>13. live => Upto(outs', n, x)
      BY <1>2, <3>9, <3>11
    <3>14. Upto(outs', n, actor.live_at)
      <4>1. Upto(outs, n, actor.live_at)
        BY <3>4, <3>7 DEF Upto, AtMost
      <4> QED BY <2>2, <3>11, <4>1
    <3>15. Beyond(outs', n, x)
      BY <2>3, <3>6 DEF Beyond, AtLeast
    <3>16. Levelled(actor', Tail(toV), toS, outs', pump, n)
      BY <3>3, <3>8, <3>13, <3>14, <3>15 DEF Levelled
    <3>17. Living(hub, actor', outs')
      <4>1. CASE live
        BY <3>3, <4>1 DEF Living
      <4>2. CASE ~live
        BY <3>1, <3>3, <3>5, <4>2 DEF Living
      <4> QED BY <4>1, <4>2
    <3> QED BY <1>1, <1>2, <1>4, <2>5, <3>10, <3>11, <3>12, <3>16, <3>17, ReceivesFlow DEF n
  <2> QED BY <2>4, <2>5
<1> QED BY <1>3, <1>4

--------------------
\* Refusals, commands, and the connection to sessiond.

\* Only the hub's connections, and whom it is asked for, change.
LEMMA FlowConns ==
  ASSUME FlowInv, UNCHANGED <<sessiondVars, toV, toS, commands, outs, linked, actor, stalled>>,
         SameHub(hub, hub'), hub'.fetch = hub.fetch,
         hub'.early \subseteq hub.early, hub'.waiting \subseteq hub.waiting,
         hub.holds => Placed(hub', conn')
  PROVE  FlowInv'
<1>1. CASE ~hub.holds
  BY <1>1, FlowOver DEF SameHub
<1>2. CASE hub.holds
  <2> DEFINE n == hub.head
  <2>1. /\ Voiced(outs, n) /\ Rising(toV, outs, n) /\ Sent(pump, toV, outs, n)
        /\ (actor.phase # "down" => Pumped(pump, toV, outs, n))
        /\ Levelled(actor, toV, toS, outs, pump, n) /\ Living(hub, actor, outs)
        /\ Past(oldest, toV, toS, commands, n)
        /\ Cut(linked, toV, toS, commands, outs, pump, actor, hub)
        /\ Asked(linked, actor, stalled, pump, toV, toS)
    BY <1>2, FlowIs
  <2>2. hub'.head = n /\ hub'.live = hub.live /\ hub'.holds /\ hub'.fetch = hub.fetch
    BY <1>2 DEF SameHub
  <2> HIDE DEF n
  <2>3. Living(hub', actor, outs)
    BY <2>1, <2>2 DEF Living
  <2>4. Cut(linked, toV, toS, commands, outs, pump, actor, hub')
    BY <2>1, <2>2 DEF Cut
  <2>5. oldest' = oldest /\ pump' = pump /\ toV' = toV /\ toS' = toS /\ commands' = commands
        /\ outs' = outs /\ linked' = linked /\ actor' = actor /\ stalled' = stalled
    BY DEF sessiondVars
  <2> QED BY <1>2, <2>1, <2>2, <2>3, <2>4, <2>5 DEF FlowInv
<1> QED BY <1>1, <1>2

LEMMA PastAsks ==
  ASSUME NEW old, NEW tv, NEW ts \in Seq(ToSessiond), NEW m \in ToSessiond, NEW cs, NEW n,
         Past(old, tv, ts, cs, n), m.is = "cursor" => m.at <= n
  PROVE  /\ Past(old, tv, Append(ts, m), cs, n)
         /\ Append(ts, m) \in Seq(ToSessiond) /\ Append(ts, m) # <<>>
         /\ ts # <<>> => Head(Append(ts, m)) = Head(ts)
<1> DEFINE w == Append(ts, m)
<1>1. /\ w \in Seq(ToSessiond) /\ Len(ts) \in Nat /\ Len(w) = Len(ts) + 1 /\ w[Len(ts) + 1] = m
      /\ \A i \in 1..Len(ts) : w[i] = ts[i]
  BY AppendIs
<1>2. w # <<>> /\ (ts # <<>> => Head(w) = Head(ts))
  BY <1>1
<1> HIDE DEF w
<1>3. \A i \in 1..Len(w) : (i \in 1..Len(ts) /\ w[i] = ts[i]) \/ w[i] = m
  BY <1>1
<1>4. Past(old, tv, w, cs, n)
  BY <1>3 DEF Past
<1> QED BY <1>1, <1>2, <1>4 DEF w

\* What a refusal leaves of the lane it came in.
LEMMA RefusedIs ==
  ASSUME StreamsInv, FlowInv, hub.holds, Receives("refused")
  PROVE  /\ toV' = Tail(toV) /\ Tail(toV) \in Seq(FromSessiond) /\ linked
         /\ actor.phase # "attaching"
         /\ Rising(Tail(toV), outs, hub.head) /\ Sent(pump, Tail(toV), outs, hub.head)
         /\ (actor.phase # "down" => Pumped(pump, Tail(toV), outs, hub.head))
         /\ \A ts : Levelled(actor, Tail(toV), ts, outs, pump, hub.head)
         /\ Past(oldest, Tail(toV), toS, commands, hub.head)
<1> DEFINE n == hub.head
<1>1. toV # <<>> /\ toV' = Tail(toV) /\ toV \in Seq(FromSessiond) /\ Head(toV).is = "refused"
      /\ Tail(toV) \in Seq(FromSessiond)
  BY InvIs, TailIs DEF Receives
<1>2. /\ Rising(toV, outs, n) /\ Sent(pump, toV, outs, n)
      /\ (actor.phase # "down" => Pumped(pump, toV, outs, n))
      /\ Levelled(actor, toV, toS, outs, pump, n)
      /\ Past(oldest, toV, toS, commands, n)
      /\ Cut(linked, toV, toS, commands, outs, pump, actor, hub)
  BY FlowIs
<1> HIDE DEF n
<1>3. linked
  BY <1>1, <1>2 DEF Cut
<1>4. actor.phase # "attaching"
  BY <1>1, <1>2 DEF Levelled, Starting
<1>5. pump \in Spot \cup {None} /\ ~Batch(Head(toV))
  BY <1>1 DEF StreamsInv, PlacesFine, Batch
<1>6. /\ Rising(Tail(toV), outs, n) /\ Sent(pump, Tail(toV), outs, n)
      /\ (Pumped(pump, toV, outs, n) => Pumped(pump, Tail(toV), outs, n))
  <2>1. \A x \in Spot : Upto(outs, n, x) /\ (Batch(Head(toV)) => Head(toV).hi <= x) => Upto(outs, n, x)
    OBVIOUS
  <2>2. Passes(Head(toV), outs, outs, n)
    BY <1>5 DEF Passes
  <2> QED BY <1>1, <1>2, <1>5, <2>1, <2>2, LanePasses
<1>7. \A ts : Levelled(actor, Tail(toV), ts, outs, pump, n)
  BY <1>2, <1>4 DEF Levelled
<1>8. Past(oldest, Tail(toV), toS, commands, n)
  BY <1>1, <1>2, PastReceived
<1> QED BY <1>1, <1>2, <1>3, <1>4, <1>6, <1>7, <1>8 DEF n

LEMMA RefusedFetchFlow ==
  ASSUME StreamsInv, FlowInv, Accounted, ReceivesRefusal, RefusedFetch
  PROVE  FlowInv' /\ Accounted'
<1> DEFINE t == FetchRefused
           n == hub.head
           tv == Tail(toV)
           ts == Append(toS, FromCursor(n))
<1>1. /\ hub.holds /\ hub.fetch # None /\ Performs(t, outs) /\ toS' = ts
      /\ UNCHANGED <<sessiondVars, linked, stalled, rpcs, answers, overtaken>>
      /\ Receives("refused")
  BY DEF ReceivesRefusal, RefusedFetch, clientVars
<1>2. /\ toV' = tv /\ tv \in Seq(FromSessiond) /\ linked /\ actor.phase # "attaching"
      /\ Rising(tv, outs, n) /\ Sent(pump, tv, outs, n)
      /\ (actor.phase # "down" => Pumped(pump, tv, outs, n))
      /\ (\A u : Levelled(actor, tv, u, outs, pump, n))
      /\ Past(oldest, tv, toS, commands, n)
  BY <1>1, RefusedIs
<1>3. Voiced(outs, n) /\ Living(hub, actor, outs) /\ Placed(hub, conn)
  BY <1>1, FlowIs
<1>4. LogFine /\ TurnFine(hub, conn, rpcs, at, answers) /\ outs \in Seq(Said) /\ n \in Spot
      /\ toS \in Seq(ToSessiond)
  BY HubIs, InvIs
<1>5. t \in Turns
  BY <1>1, <1>4, FetchRefusedFine DEF TurnOk
<1>6. /\ Retained(hub, conn, t.hub, t.conn) /\ Placed(t.hub, t.conn)
      /\ t.hub.head = hub.head /\ t.fetches = <<>> /\ t.hub.fetch = None
      /\ t.hub.live = hub.live /\ t.hub.holds = hub.holds
  BY <1>3, <1>4, FetchRefusedFollows
<1> HIDE DEF t, tv, ts
<1>7. Going(t, outs)
  <2>1. Carries(outs, n, outs, n)
    BY CarriesSame
  <2>2. actor.phase = "down" \/ (actor.phase = "running" /\ actor.live)
    BY <1>1, <1>3 DEF Living
  <2>3. Backward(t)
    BY <1>6 DEF Backward
  <2> QED BY <1>1, <1>2, <1>3, <1>4, <1>5, <1>6, <2>1, <2>2, <2>3 DEF Going, Spot
<1>8. ts \in Seq(ToSessiond) /\ ts # <<>> /\ Past(oldest, tv, ts, commands, n)
  <2>1. FromCursor(n) \in ToSessiond /\ FromCursor(n).at <= n
    BY <1>4 DEF FromCursor, ToSessiond, Spot
  <2> QED BY <1>2, <1>4, <2>1, PastAsks DEF ts
<1>9. Cut(linked, tv, ts, commands, outs, pump, actor, hub) /\ Asked(linked, actor, stalled, pump, tv, ts)
  BY <1>2, <1>8 DEF Cut, Asked
<1>10. FlowInv'
  BY <1>1, <1>2, <1>7, <1>8, <1>9, FlowTurnOn
<1>11. Accounted'
  <2>1. hub' = t.hub /\ conn' = t.conn
    BY <1>1 DEF Performs
  <2> QED BY <1>1, <1>6, <2>1, AccountingKept
<1> QED BY <1>10, <1>11

LEMMA ReceivesRefusalFlow ==
  ASSUME StreamsInv, FlowInv, Accounted, ReceivesRefusal
  PROVE  FlowInv' /\ Accounted'
<1>1. CASE RefusedFetch
  BY <1>1, RefusedFetchFlow
<1>2. /\ UNCHANGED <<sessiondVars, linked, rpcs, answers, overtaken>> /\ Receives("refused")
  BY DEF ReceivesRefusal, clientVars
<1>3. CASE RefusedRepump
  <2>1. /\ toS' = Append(toS, FromNewest)
        /\ UNCHANGED <<commands, outs, linked, actor, hub, conn, rpcs, answers, overtaken, stalled>>
    BY <1>2, <1>3 DEF RefusedRepump
  <2>2. ASSUME hub.holds
        PROVE  /\ Rising(toV', outs, hub.head) /\ Sent(pump', toV', outs, hub.head)
               /\ Pumped(pump', toV', outs, hub.head) \/ actor.phase = "down"
               /\ (actor.phase = "attaching" => Starting(toV', toS', pump'))
               /\ Past(oldest', toV', toS', commands, hub.head)
               /\ Cut(linked, toV', toS', commands, outs, pump', actor, hub)
               /\ Asked(linked, actor, stalled, pump', toV', toS')
    <3>1. /\ toV' = Tail(toV) /\ linked /\ actor.phase # "attaching"
          /\ Rising(Tail(toV), outs, hub.head) /\ Sent(pump, Tail(toV), outs, hub.head)
          /\ (actor.phase # "down" => Pumped(pump, Tail(toV), outs, hub.head))
          /\ Past(oldest, Tail(toV), toS, commands, hub.head)
      BY <1>2, <2>2, RefusedIs
    <3>2. FromNewest \in ToSessiond /\ FromNewest.is # "cursor" /\ toS \in Seq(ToSessiond)
      BY InvIs DEF FromNewest, ToSessiond
    <3>3. toS' # <<>> /\ Past(oldest, Tail(toV), toS', commands, hub.head)
      BY <2>1, <3>1, <3>2, PastAsks
    <3>4. oldest' = oldest /\ pump' = pump
      BY <1>2 DEF sessiondVars
    <3>5. Cut(linked, toV', toS', commands, outs, pump', actor, hub)
          /\ Asked(linked, actor, stalled, pump', toV', toS')
      BY <3>1, <3>3 DEF Cut, Asked
    <3> QED BY <3>1, <3>3, <3>4, <3>5
  <2> QED BY <2>1, <2>2, FlowSends
<1>4. CASE RefusedActor
  <2>1. /\ stalled' = (stalled \/ actor.phase = "running")
        /\ UNCHANGED <<toS, commands, outs, linked, actor, hub, conn, rpcs, answers, overtaken>>
    BY <1>2, <1>4 DEF RefusedActor
  <2>2. Accounted'
    BY <2>1, AccountingSame
  <2>3. CASE ~hub.holds
    BY <2>1, <2>2, <2>3, FlowOver
  <2>4. CASE hub.holds
    <3>1. /\ toV' = Tail(toV) /\ linked /\ actor.phase # "attaching"
          /\ Rising(Tail(toV), outs, hub.head) /\ Sent(pump, Tail(toV), outs, hub.head)
          /\ (actor.phase # "down" => Pumped(pump, Tail(toV), outs, hub.head))
          /\ (\A ts : Levelled(actor, Tail(toV), ts, outs, pump, hub.head))
          /\ Past(oldest, Tail(toV), toS, commands, hub.head)
      BY <1>2, <2>4, RefusedIs
    <3>2. Voiced(outs, hub.head) /\ Living(hub, actor, outs) /\ Placed(hub, conn)
      BY <2>4, FlowIs
    <3>3. actor.phase = "down" \/ stalled'
      BY <2>1, <3>1, InvIs DEF Actor
    <3>4. Cut(linked, toV', toS, commands, outs, pump, actor, hub)
          /\ Asked(linked, actor, stalled', pump, toV', toS)
      BY <3>1, <3>3 DEF Cut, Asked
    <3>5. oldest' = oldest /\ pump' = pump /\ linked' = linked
      BY <1>2 DEF sessiondVars
    <3>6. FlowInv'
      BY <2>1, <2>4, <3>1, <3>2, <3>4, <3>5 DEF FlowInv
    <3> QED BY <2>2, <3>6
  <2> QED BY <2>2, <2>3, <2>4
<1> QED BY <1>1, <1>3, <1>4 DEF ReceivesRefusal

LEMMA ForwardsFetchFlow ==
  ASSUME StreamsInv, FlowInv, Accounted, ForwardsFetch
  PROVE  FlowInv' /\ Accounted'
<1> DEFINE m == FromCursor(Head(commands))
           ts == Append(toS, m)
           cs == Tail(commands)
<1>1. /\ commands # <<>> /\ toS' = ts /\ commands' = cs
      /\ UNCHANGED <<sessiondVars, toV, outs, linked, actor, hub, conn, rpcs, answers, overtaken, stalled>>
  BY DEF ForwardsFetch, clientVars
<1>2. Accounted'
  BY <1>1, AccountingSame
<1>3. CASE ~hub.holds
  BY <1>1, <1>2, <1>3, FlowOver
<1>4. CASE hub.holds
  <2> DEFINE n == hub.head
  <2>1. /\ Voiced(outs, n) /\ Rising(toV, outs, n) /\ Sent(pump, toV, outs, n)
        /\ (actor.phase # "down" => Pumped(pump, toV, outs, n))
        /\ Levelled(actor, toV, toS, outs, pump, n) /\ Living(hub, actor, outs)
        /\ Past(oldest, toV, toS, commands, n)
        /\ Cut(linked, toV, toS, commands, outs, pump, actor, hub)
        /\ Placed(hub, conn)
    BY <1>4, FlowIs
  <2>2. /\ Head(commands) \in Spot /\ Head(commands) <= n /\ cs \in Seq(Spot) /\ toS \in Seq(ToSessiond)
        /\ \A i \in 1..Len(cs) : cs[i] <= n
    <3>1. commands \in Seq(Spot) /\ toS \in Seq(ToSessiond)
      BY InvIs
    <3>2. \A i \in 1..Len(commands) : commands[i] <= n
      BY <2>1 DEF Past
    <3>3. /\ Head(commands) = commands[1] /\ 1 \in 1..Len(commands) /\ cs \in Seq(Spot)
          /\ commands[1] \in Spot
          /\ \A i \in 1..Len(cs) : i + 1 \in 1..Len(commands) /\ cs[i] = commands[i + 1]
      BY <1>1, <3>1
    <3> HIDE DEF cs, n
    <3> QED BY <3>1, <3>2, <3>3
  <2>3. m \in ToSessiond /\ m.at <= n
    BY <2>2 DEF FromCursor, ToSessiond
  <2> HIDE DEF m, cs
  <2>4. Past(oldest, toV, ts, commands, n) /\ ts # <<>> /\ (toS # <<>> => Head(ts) = Head(toS))
    BY <2>1, <2>2, <2>3, PastAsks
  <2> HIDE DEF ts, n
  <2>5. Past(oldest, toV, ts, cs, n)
    BY <2>2, <2>4 DEF Past
  <2>6. Levelled(actor, toV, ts, outs, pump, n)
    BY <2>1, <2>4 DEF Levelled, Starting
  <2>7. linked
    BY <1>1, <2>1 DEF Cut
  <2>8. Cut(linked, toV, ts, cs, outs, pump, actor, hub) /\ Asked(linked, actor, stalled, pump, toV, ts)
    BY <2>4, <2>7 DEF Cut, Asked
  <2>9. oldest' = oldest /\ pump' = pump /\ toV' = toV /\ toS' = ts /\ commands' = cs /\ outs' = outs
        /\ linked' = linked /\ actor' = actor /\ hub' = hub /\ conn' = conn /\ stalled' = stalled
    BY <1>1 DEF sessiondVars
  <2>10. FlowInv'
    BY <1>4, <2>1, <2>5, <2>6, <2>8, <2>9 DEF FlowInv, n
  <2> QED BY <1>2, <2>10
<1> QED BY <1>3, <1>4

LEMMA LaneEmpty ==
  ASSUME NEW n
  PROVE  /\ Voiced(<<>>, n) /\ Rising(<<>>, <<>>, n) /\ Unbatched(<<>>) /\ ~Announced(<<>>)
         /\ Sent(None, <<>>, <<>>, n) /\ Pumped(None, <<>>, <<>>, n)
<1> DEFINE e == <<>>
<1>1. Len(e) = 0
  OBVIOUS
<1>2. 1..Len(e) = {}
  BY <1>1
<1> HIDE DEF e
<1>3. /\ Voiced(e, n) /\ Rising(e, e, n) /\ Unbatched(e) /\ ~Announced(e)
      /\ Sent(None, e, e, n) /\ Pumped(None, e, e, n)
  BY <1>2 DEF Voiced, Rising, Unbatched, Announced, Sent, Pumped
<1> QED BY <1>3 DEF e

LEMMA PastOnly ==
  ASSUME NEW old, NEW tv, NEW ts, NEW cs, NEW n, Past(old, tv, ts, cs, n)
  PROVE  Past(old, <<>>, <<>>, <<>>, n) /\ Past(old, <<>>, <<FromNewest>>, <<>>, n)
<1> DEFINE e == <<>>
           m == FromNewest
           s == <<m>>
<1>1. Len(e) = 0 /\ Len(s) = 1 /\ s[1] = m
  OBVIOUS
<1>2. 1..Len(e) = {} /\ 1..Len(s) = {1} /\ m.is # "cursor"
  BY <1>1 DEF FromNewest
<1> HIDE DEF e, s, m
<1>3. Past(old, e, e, e, n) /\ Past(old, e, s, e, n)
  BY <1>1, <1>2 DEF Past
<1> QED BY <1>3 DEF e, s, m

LEMMA SuspendsFlow ==
  ASSUME StreamsInv, FlowInv, Accounted, Suspends
  PROVE  FlowInv' /\ Accounted'
<1> DEFINE n == hub.head
<1>1. /\ hub.holds /\ linked' = FALSE /\ toV' = <<>> /\ toS' = <<>> /\ commands' = <<>>
      /\ outs' = <<>> /\ pump' = None /\ actor' = [actor EXCEPT !.phase = "down", !.held = <<>>]
      /\ hub' = [hub EXCEPT !.live = FALSE, !.fetch = None]
      /\ UNCHANGED <<oldest, conn, rpcs, answers, overtaken>>
  BY DEF Suspends, clientVars
<1>2. Past(oldest, toV, toS, commands, n) /\ Placed(hub, conn)
  BY <1>1, FlowIs
<1>3. hub \in Hub /\ actor \in Actor
  BY HubIs, InvIs DEF TurnFine, HubFine
<1>4. /\ hub'.holds /\ hub'.head = n /\ hub'.tail = hub.tail /\ ~hub'.live /\ hub'.fetch = None
      /\ hub'.early = hub.early /\ hub'.waiting = hub.waiting /\ actor'.phase = "down"
  BY <1>1, <1>3 DEF Hub, Actor
<1>5. Placed(hub', conn')
  BY <1>1, <1>2, <1>4 DEF Placed, Placing
<1> HIDE DEF n
<1>6. /\ Voiced(<<>>, n) /\ Rising(<<>>, <<>>, n) /\ Sent(None, <<>>, <<>>, n)
      /\ Past(oldest, <<>>, <<>>, <<>>, n)
  BY <1>2, LaneEmpty, PastOnly
<1>7. Living(hub', actor', <<>>)
  BY <1>4 DEF Living
<1>8. Levelled(actor', <<>>, <<>>, <<>>, None, n)
  BY <1>4 DEF Levelled
<1>9. Cut(FALSE, <<>>, <<>>, <<>>, <<>>, None, actor', hub')
      /\ Asked(FALSE, actor', stalled', None, <<>>, <<>>)
  BY <1>4 DEF Cut, Asked
<1>10. FlowInv'
  BY <1>1, <1>4, <1>5, <1>6, <1>7, <1>8, <1>9 DEF FlowInv
<1>11. Accounted'
  <2>1. Retained(hub, conn, hub', conn')
    BY <1>1, <1>4 DEF Retained, Holds, IsEarly, IsAwaited
  <2> QED BY <1>1, <2>1, AccountingKept
<1> QED BY <1>10, <1>11

LEMMA LinksFlow ==
  ASSUME StreamsInv, FlowInv, Accounted, Links
  PROVE  FlowInv' /\ Accounted'
<1> DEFINE n == hub.head
           ts == <<FromNewest>>
           act == [phase |-> "attaching", at |-> 0, live_at |-> Len(log), live |-> FALSE, held |-> <<>>]
<1>1. /\ ~linked /\ linked' = TRUE /\ toS' = ts /\ actor' = act
      /\ hub' = [hub EXCEPT !.live = FALSE]
      /\ UNCHANGED <<sessiondVars, toV, commands, outs, conn, rpcs, answers, overtaken, stalled>>
  BY DEF Links, clientVars
<1>2. hub \in Hub /\ n \in Spot /\ Len(log) \in Nat
  BY HubIs, InvIs DEF TurnFine, HubFine
<1>3. /\ hub'.holds = hub.holds /\ hub'.ended = hub.ended /\ hub'.head = n /\ hub'.tail = hub.tail
      /\ ~hub'.live /\ hub'.fetch = hub.fetch
      /\ hub'.early = hub.early /\ hub'.waiting = hub.waiting
  BY <1>1, <1>2 DEF Hub
<1>4. Accounted'
  <2>1. Retained(hub, conn, hub', conn')
    BY <1>1, <1>3 DEF Retained, Holds, IsEarly, IsAwaited
  <2> QED BY <1>1, <2>1, AccountingKept
<1>5. CASE ~hub.holds
  BY <1>3, <1>4, <1>5, FlowOver
<1>6. CASE hub.holds
  <2>1. Past(oldest, toV, toS, commands, n) /\ Placed(hub, conn)
        /\ Cut(linked, toV, toS, commands, outs, pump, actor, hub)
    BY <1>6, FlowIs
  <2>2. toV = <<>> /\ commands = <<>> /\ outs = <<>> /\ pump = None /\ hub.fetch = None
    BY <1>1, <2>1 DEF Cut
  <2>3. act.phase = "attaching" /\ act.live_at = Len(log) /\ act.held = <<>> /\ ~act.live
    OBVIOUS
  <2>4. ts # <<>> /\ Head(ts).is = "newest"
    BY DEF FromNewest
  <2>5. Placed(hub', conn)
    BY <1>3, <2>1 DEF Placed, Placing
  <2>6. n <= Len(log)
    BY <1>2 DEF Spot
  <2>7. Past(oldest, <<>>, ts, <<>>, n)
    BY <2>1, PastOnly
  <2> HIDE DEF n, ts, act
  <2>8. /\ Voiced(<<>>, n) /\ Rising(<<>>, <<>>, n) /\ Sent(None, <<>>, <<>>, n)
        /\ Pumped(None, <<>>, <<>>, n) /\ Unbatched(<<>>) /\ ~Announced(<<>>)
    BY LaneEmpty
  <2>9. Living(hub', act, <<>>)
    BY <1>3, <2>2, <2>3, <2>8 DEF Living
  <2>10. Levelled(act, <<>>, ts, <<>>, None, n)
    BY <2>3, <2>4, <2>6, <2>8 DEF Levelled, Starting
  <2>11. Cut(TRUE, <<>>, ts, <<>>, <<>>, None, act, hub')
         /\ Asked(TRUE, act, stalled, None, <<>>, ts)
    BY <2>4 DEF Cut, Asked
  <2>12. oldest' = oldest /\ pump' = None /\ toV' = <<>> /\ toS' = ts /\ commands' = <<>> /\ outs' = <<>>
         /\ linked' = TRUE /\ actor' = act /\ conn' = conn /\ stalled' = stalled
    BY <1>1, <2>2 DEF sessiondVars
  <2>13. FlowInv'
    BY <1>3, <1>6, <2>5, <2>7, <2>8, <2>9, <2>10, <2>11, <2>12 DEF FlowInv
  <2> QED BY <1>4, <2>13
<1> QED BY <1>5, <1>6

--------------------
\* Clients, their writers and their timers.

LEMMA AskedIs ==
  ASSUME StreamsInv, NEW c \in Conns, NEW i \in Rpcs, NEW cursor \in 0..seen \cup {None},
         rpcs[i] = None, NEW own, own = [rpcs EXCEPT ![i] = c]
  PROVE  LET x == [rpc |-> i, conn |-> c, cursor |-> cursor]
             t == Turn(hub, conn)
         IN  /\ LogFine /\ Asking(t, own, at, answers, x) /\ x.rpc = i /\ x.conn = c
             /\ Attaches(t, x) \in Turns
<1> DEFINE x == [rpc |-> i, conn |-> c, cursor |-> cursor]
           t == Turn(hub, conn)
<1>1. TurnFine(hub, conn, own, at, answers) /\ Nowhere(hub, conn, i) /\ LogFine
  BY OwnerNew DEF StreamsInv
<1>2. cursor \in Spot \cup {None}
  BY InvIs DEF StreamsInv, PlacesFine, Spot
<1>3. x \in Pending /\ x.rpc = i /\ x.conn = c
  BY <1>2 DEF Pending
<1>4. TurnOk(t, own, at, answers) /\ t.hub = hub /\ t.conn = conn
  BY <1>1, TurnIs
<1>5. answers[i] = 0 /\ own[i] = c
  BY DEF StreamsInv, ClientsFine
<1> HIDE DEF x, t
<1>6. Asking(t, own, at, answers, x)
  BY <1>1, <1>3, <1>4, <1>5 DEF Asking, NowhereIn
<1>7. Attaches(t, x) \in Turns
  BY <1>1, <1>6, AttachesFine DEF Serves, TurnOk
<1> QED BY <1>1, <1>3, <1>6, <1>7 DEF x, t

LEMMA AsksFlow ==
  ASSUME StreamsInv, FlowInv, Accounted, NEW c \in Conns, Asks(c)
  PROVE  FlowInv' /\ Accounted'
<1>1. PICK i \in Rpcs, cursor \in 0..seen \cup {None} :
        /\ rpcs[i] = None
        /\ rpcs' = [rpcs EXCEPT ![i] = c]
        /\ Performs(Attaches(Turn(hub, conn), [rpc |-> i, conn |-> c, cursor |-> cursor]), outs)
  BY DEF Asks
<1> DEFINE x == [rpc |-> i, conn |-> c, cursor |-> cursor]
           t == Turn(hub, conn)
           s == Attaches(t, x)
<1>2. LogFine /\ Asking(t, rpcs', at, answers, x) /\ s \in Turns /\ x.rpc = i /\ x.conn = c
  BY <1>1, AskedIs
<1>3. Performs(s, outs)
  BY <1>1
<1>4. t.hub = hub /\ t.conn = conn /\ t.fetches = <<>> /\ t.asks = <<>>
  BY TurnParts
<1>5. ~hub.holds => s.hub = hub
  BY <1>2 DEF Attaches, Tells, Turn
<1> HIDE DEF x, t
<1>6. Follows(t, s) /\ HoldsIn(s, i)
  BY <1>2, AttachesFollows DEF s
<1> HIDE DEF s
<1>7. hub' = s.hub /\ conn' = s.conn /\ UNCHANGED <<sessiondVars, toV, toS, linked, answers, overtaken, stalled>>
  BY <1>3 DEF Performs, Asks
<1>8. Accounted'
  <2> SUFFICES ASSUME NEW j \in Rpcs, rpcs'[j] \in Conns
               PROVE  Holds(s.hub, s.conn, j) \/ answers[j] = 1 \/ j \in overtaken
    BY <1>7 DEF Accounted, Accounts
  <2>1. CASE j = i
    BY <1>6, <2>1 DEF HoldsIn
  <2>2. CASE j # i
    <3>1. rpcs'[j] = rpcs[j]
      BY <1>1, <2>2 DEF StreamsInv, ClientsFine
    <3>2. Holds(hub, conn, j) \/ answers[j] = 1 \/ j \in overtaken
      BY <3>1 DEF Accounted, Accounts
    <3>3. Holds(hub, conn, j) => Holds(s.hub, s.conn, j)
      BY <1>4, <1>6 DEF Follows, RetainedIn, Retained
    <3> QED BY <3>2, <3>3
  <2> QED BY <2>1, <2>2
<1>9. CASE ~hub.holds
  BY <1>5, <1>7, <1>8, <1>9, FlowOver
<1>10. CASE hub.holds
  <2>1. /\ Voiced(outs, hub.head) /\ Living(hub, actor, outs) /\ Placed(hub, conn)
        /\ Cut(linked, toV, toS, commands, outs, pump, actor, hub)
    BY <1>10, FlowIs
  <2>2. /\ SameHub(hub, s.hub) /\ Placed(s.hub, s.conn)
        /\ (Wanting(s) => hub.live \/ hub.fetch # None) /\ Backward(s)
    <3>1. Backward(t)
      BY <1>4 DEF Backward
    <3>2. Moderate(t, s)
      BY <1>6 DEF Follows
    <3>3. Wanting(t) => hub.live \/ hub.fetch # None
      BY <1>4 DEF Wanting
    <3> QED BY <1>4, <2>1, <3>1, <3>2, <3>3 DEF Moderate
  <2>3. Wanting(s) => actor.phase = "down" \/ (actor.phase = "running" /\ actor.live)
    BY <2>1, <2>2 DEF Living
  <2>4. ~linked => outs = <<>> /\ ~Wanting(s)
    BY <2>1, <2>2 DEF Cut
  <2>5. Carries(outs, hub.head, outs, hub.head) /\ outs \in Seq(Said) /\ hub.head \in Nat
    BY CarriesSame, InvIs DEF Spot
  <2>6. s.hub.holds /\ s.hub.head = hub.head
    BY <1>10, <2>2 DEF SameHub
  <2>7. Going(s, outs)
    BY <1>2, <2>1, <2>2, <2>3, <2>4, <2>5, <2>6 DEF Going
  <2>8. FlowInv'
    BY <1>3, <1>7, <1>10, <2>7, FlowTurn
  <2> QED BY <1>8, <2>8
<1> QED BY <1>9, <1>10

LEMMA DisconnectsFlow ==
  ASSUME StreamsInv, FlowInv, Accounted, NEW c \in Conns, Disconnects(c)
  PROVE  FlowInv' /\ Accounted'
<1>1. /\ rpcs \in [Rpcs -> Conns \cup {None, "gone"}] /\ "gone" \notin Conns
      /\ hub \in Hub /\ conn \in [Conns -> Conn] /\ Owners(hub, conn, rpcs)
  BY HubIs, ClientsAssumption DEF StreamsInv, ClientsFine, TurnFine, HubFine, ConnsFine
<1> DEFINE ws == {w \in hub.waiting : w.conn # c}
           es == {x \in hub.early : x.conn # c}
<1>2. /\ conn' = [conn EXCEPT ![c] = Unconnected]
      /\ rpcs' = [i \in Rpcs |-> IF rpcs[i] = c THEN "gone" ELSE rpcs[i]]
      /\ hub' = [hub EXCEPT !.waiting = ws, !.early = es]
      /\ UNCHANGED <<sessiondVars, toV, toS, commands, outs, linked, actor, answers, overtaken, stalled>>
  BY DEF Disconnects, laneVars
<1>3. ws \subseteq hub.waiting /\ es \subseteq hub.early
  OBVIOUS
<1> HIDE DEF ws, es
<1>4. SameHub(hub, hub') /\ hub'.fetch = hub.fetch /\ hub'.waiting = ws /\ hub'.early = es
  BY <1>1, <1>2 DEF Hub, SameHub
<1>5. conn'[c].att = None /\ \A d \in Conns : d # c => conn'[d] = conn[d]
  BY <1>1, <1>2 DEF Unconnected
<1>6. hub.holds => Placed(hub', conn')
  <2> SUFFICES ASSUME hub.holds, NEW d \in Conns PROVE Placing(conn'[d], hub')
    BY DEF Placed
  <2>1. CASE d = c
    BY <1>5, <2>1, PlacingNone
  <2>2. CASE d # c
    <3>1. Placing(conn[d], hub)
      BY FlowIs DEF Placed
    <3> QED BY <1>4, <1>5, <2>2, <3>1, PlacingSame
  <2> QED BY <2>1, <2>2
<1>7. FlowInv'
  BY <1>2, <1>3, <1>4, <1>6, FlowConns
<1>8. ASSUME NEW i \in Rpcs, rpcs'[i] \in Conns
      PROVE  Holds(hub', conn', i) \/ answers'[i] = 1 \/ i \in overtaken'
  <2>1. rpcs[i] = rpcs'[i] /\ rpcs[i] # c
    BY <1>1, <1>2, <1>8
  <2>2. Holds(hub, conn, i) \/ answers[i] = 1 \/ i \in overtaken
    BY <1>8, <2>1 DEF Accounted, Accounts
  <2>3. CASE IsEarly(hub, i)
    <3>1. PICK x \in hub.early : x.rpc = i
      BY <2>3 DEF IsEarly
    <3>2. x.conn # c
      BY <1>1, <2>1, <3>1 DEF Owners
    <3>3. IsEarly(hub', i)
      BY <1>4, <3>1, <3>2 DEF IsEarly, es
    <3> QED BY <3>3 DEF Holds
  <2>4. CASE IsAwaited(hub, i)
    <3>1. PICK w \in hub.waiting : w.rpc = i
      BY <2>4 DEF IsAwaited
    <3>2. w.conn # c
      BY <1>1, <2>1, <3>1 DEF Owners
    <3>3. IsAwaited(hub', i)
      BY <1>4, <3>1, <3>2 DEF IsAwaited, ws
    <3> QED BY <3>3 DEF Holds
  <2>5. ASSUME NEW d \in Conns, Has(conn[d], i)
        PROVE  Holds(hub', conn', i)
    <3>1. rpcs[i] = d
      BY <1>1, <2>5 DEF Owners, Has
    <3>2. conn'[d] = conn[d]
      BY <1>5, <2>1, <3>1
    <3> QED BY <2>5, <3>2 DEF Holds
  <2>6. answers' = answers /\ overtaken' = overtaken
    BY <1>2
  <2> QED BY <2>2, <2>3, <2>4, <2>5, <2>6 DEF Holds
<1>9. Accounted'
  BY <1>8 DEF Accounted, Accounts
<1> QED BY <1>7, <1>9

\* One connection changes, and keeps what it has.
LEMMA FlowOne ==
  ASSUME StreamsInv, FlowInv, Accounted, NEW c \in Conns, NEW f, Retains(conn[c], f),
         Placing(conn[c], hub) => Placing(f, hub), conn' = [conn EXCEPT ![c] = f],
         UNCHANGED <<sessiondVars, laneVars, actor, hub, clientVars, overtaken, stalled>>
  PROVE  FlowInv' /\ Accounted'
<1>1. conn'[c] = f /\ \A d \in Conns : d # c => conn'[d] = conn[d]
  BY ConnOf
<1>2. hub' = hub /\ rpcs' = rpcs /\ answers' = answers /\ overtaken' = overtaken
  BY DEF clientVars
<1>3. hub.holds => Placed(hub', conn')
  <2> SUFFICES ASSUME hub.holds, NEW d \in Conns PROVE Placing(conn'[d], hub)
    BY <1>2 DEF Placed
  <2>1. Placing(conn[d], hub)
    BY FlowIs DEF Placed
  <2> QED BY <1>1, <2>1
<1>4. FlowInv'
  BY <1>2, <1>3, FlowConns DEF laneVars, SameHub
<1>5. Retained(hub, conn, hub', conn')
  <2>1. \A i \in Rpcs : IsEarly(hub, i) \/ IsAwaited(hub, i) => Holds(hub, conn', i)
    BY DEF Holds
  <2> QED BY <1>1, <1>2, <2>1, RetainedPut
<1> QED BY <1>2, <1>4, <1>5, AccountingKept

LEMMA StoresFlow ==
  ASSUME StreamsInv, FlowInv, Accounted, NEW c \in Conns, Stores(c)
  PROVE  FlowInv' /\ Accounted'
<1> DEFINE k == conn[c]
           f == [k EXCEPT !.storing = FALSE, !.catching = TRUE]
<1>1. k \in Conn /\ conn \in [Conns -> Conn]
  BY ConnOf
<1>2. conn' = [conn EXCEPT ![c] = f]
  BY <1>1 DEF Stores
<1> HIDE DEF k
<1>3. f.att = k.att /\ f.out = k.out
  BY <1>1 DEF Conn
<1> HIDE DEF f
<1>4. Retains(k, f) /\ (Placing(k, hub) => Placing(f, hub))
  BY <1>3 DEF Retains, Has, Carried, Attached, Placing
<1> QED BY <1>2, <1>4, FlowOne DEF Stores, k

LEMMA DrainedFlow ==
  ASSUME StreamsInv, FlowInv, Accounted, NEW c \in Conns, Drained(c)
  PROVE  FlowInv' /\ Accounted'
<1> DEFINE a == at[c]
           k == IF Attached(conn[c], {"behind"}) THEN CatchUp(conn[c], hub) ELSE conn[c]
           b == Attached(k, {"behind"})
           f == [k EXCEPT !.wake = FALSE, !.storing = FALSE, !.catching = b]
<1>1. conn[c] \in Conn /\ ConnFine(conn[c], a)
  BY ConnOf
<1>2. conn' = [conn EXCEPT ![c] = f]
  BY DEF Drained
<1>3. k \in Conn /\ Retains(conn[c], k) /\ (Placing(conn[c], hub) => Placing(k, hub))
  <2>1. CASE Attached(conn[c], {"behind"})
    <3>1. k = CatchUp(conn[c], hub)
      BY <2>1
    <3>2. LogFine /\ hub.head \in Spot /\ hub.tail \in Spot /\ hub.tail <= hub.head
      BY HubIs, InvIs DEF TurnFine, HubFine
    <3>3. conn[c].att \in Att /\ Steady(conn[c].out, a) /\ Reaches(conn[c].out, a, conn[c].att.next)
          /\ ~Attached(conn[c], {"fetching"})
      BY <1>1, <2>1, ConnFields, ModesApart DEF ConnFine, Attached
    <3> HIDE DEF k
    <3>4. k \in Conn /\ Kept(conn[c], k)
      BY <1>1, <3>1, <3>2, <3>3, CatchUpFine DEF Kept
    <3>5. Retains(conn[c], k)
      BY <3>3, <3>4, RetainsKept
    <3>6. Placing(conn[c], hub) => Placing(k, hub)
      <4>1. Placing(conn[c], hub) => hub.tail < hub.head
        BY <2>1 DEF Placing
      <4> QED BY <1>1, <3>1, <3>2, <3>3, <4>1, CatchUpPlaced
    <3> QED BY <3>4, <3>5, <3>6
  <2>2. CASE ~Attached(conn[c], {"behind"})
    <3>1. k = conn[c]
      BY <2>2
    <3> HIDE DEF k
    <3> QED BY <1>1, <3>1 DEF Retains
  <2> QED BY <2>1, <2>2
<1> HIDE DEF k, b
<1>4. f.att = k.att /\ f.out = k.out
  BY <1>3 DEF Conn
<1> HIDE DEF f
<1>5. Retains(conn[c], f) /\ (Placing(conn[c], hub) => Placing(f, hub))
  BY <1>3, <1>4 DEF Retains, Has, Carried, Attached, Placing
<1> QED BY <1>2, <1>5, FlowOne DEF Drained

LEMMA WritesFlow ==
  ASSUME StreamsInv, FlowInv, Accounted, NEW c \in Conns, Writes(c)
  PROVE  FlowInv' /\ Accounted'
<1> DEFINE k == conn[c]
           f == Written(k)
           m == Head(k.out)
<1>1. /\ k.out # <<>> /\ conn' = [conn EXCEPT ![c] = f]
      /\ answers' = IF m.rpc # None THEN [answers EXCEPT ![m.rpc] = @ + 1] ELSE answers
      /\ UNCHANGED <<sessiondVars, laneVars, actor, hub, rpcs, overtaken, stalled>>
  BY DEF Writes, Written
<1>2. k \in Conn /\ conn \in [Conns -> Conn] /\ answers \in [Rpcs -> Nat]
      /\ Owners(hub, conn, rpcs) /\ \A i \in Rpcs : Once(hub, conn, answers, i)
  BY ConnOf, HubIs DEF StreamsInv, ClientsFine, TurnFine
<1>3. f.att = k.att /\ f.out = Tail(k.out) /\ f \in Conn
  BY <1>1, <1>2, WrittenIs
<1> HIDE DEF f
<1>4. conn'[c] = f /\ \A d \in Conns : d # c => conn'[d] = conn[d]
  BY <1>1, <1>2
<1>5. hub.holds => Placed(hub', conn')
  <2> SUFFICES ASSUME hub.holds, NEW d \in Conns PROVE Placing(conn'[d], hub)
    BY <1>1 DEF Placed
  <2>1. Placing(conn[d], hub)
    BY FlowIs DEF Placed
  <2>2. CASE d = c
    BY <1>3, <1>4, <2>1, <2>2 DEF Placing, Attached, k
  <2>3. CASE d # c
    BY <1>4, <2>1, <2>3
  <2> QED BY <2>2, <2>3
<1>6. FlowInv'
  BY <1>1, <1>5, FlowConns DEF laneVars, SameHub
<1>7. ASSUME NEW i \in Rpcs, Has(k, i)
      PROVE  Has(f, i) \/ m.rpc = i
  <2>1. CASE Attached(k, {"fetching"}) /\ k.att.rpc = i
    BY <1>3, <2>1 DEF Has, Attached
  <2>2. CASE Carried(k, i) # {}
    <3>1. PICK j \in DOMAIN k.out : k.out[j].rpc = i
      BY Zenon, <2>2 DEF Carried
    <3>2. k.out \in Seq(Msg) /\ Len(k.out) \in Nat /\ DOMAIN k.out = 1..Len(k.out)
      BY <1>2, ConnFields
    <3>3. CASE j = 1
      BY <3>1, <3>3
    <3>4. CASE j # 1
      <4> DEFINE s == k.out
      <4>1. s \in Seq(Msg) /\ s # <<>> /\ j \in 1..Len(s) /\ j # 1
        BY <1>1, <3>1, <3>2, <3>4
      <4> HIDE DEF s
      <4>2. j - 1 \in DOMAIN Tail(s) /\ Tail(s)[j - 1] = s[j]
        BY <4>1
      <4>3. j - 1 \in Carried(f, i)
        BY <1>3, <3>1, <4>2 DEF Carried, s
      <4> QED BY <4>3 DEF Has
    <3> QED BY <3>3, <3>4
  <2> QED BY <1>7, <2>1, <2>2 DEF Has
<1>8. ASSUME NEW i \in Rpcs, rpcs'[i] \in Conns
      PROVE  Holds(hub', conn', i) \/ answers'[i] = 1 \/ i \in overtaken'
  <2>1. Holds(hub, conn, i) \/ answers[i] = 1 \/ i \in overtaken
    BY <1>1, <1>8 DEF Accounted, Accounts
  <2>2. CASE m.rpc = i
    <3>1. 1 \in Carried(k, i)
      BY <1>1, <1>2, <1>3, <2>2, CarriedTail
    <3>2. IsQueued(conn, i)
      BY <3>1 DEF IsQueued, k
    <3>3. answers[i] = 0
      BY <1>2, <3>2 DEF Once
    <3>4. i # None
      BY NoneIsNot
    <3>5. answers' = [answers EXCEPT ![i] = @ + 1]
      BY <1>1, <2>2, <3>4
    <3>6. answers'[i] = 1
      BY <1>2, <3>3, <3>5
    <3> QED BY <3>6
  <2>3. CASE m.rpc # i
    <3>1. answers'[i] = answers[i]
      BY <1>1, <1>2, <2>3
    <3>2. ASSUME NEW d \in Conns, Has(conn[d], i) PROVE Has(conn'[d], i)
      <4>1. CASE d = c
        BY <1>4, <1>7, <2>3, <3>2, <4>1 DEF k
      <4>2. CASE d # c
        BY <1>4, <3>2, <4>2
      <4> QED BY <4>1, <4>2
    <3>3. Holds(hub, conn, i) => Holds(hub', conn', i)
      BY <1>1, <3>2 DEF Holds
    <3> QED BY <1>1, <2>1, <3>1, <3>3
  <2> QED BY <2>2, <2>3
<1>9. Accounted'
  BY <1>8 DEF Accounted, Accounts
<1> QED BY <1>6, <1>9

\* A timer answers one attach with an error.
LEMMA FlowExpires ==
  ASSUME StreamsInv, FlowInv, Accounted, NEW c \in Conns, NEW f, NEW r \in Rpcs,
         conn' = [conn EXCEPT ![c] = f], Has(f, r),
         \A i \in Rpcs : i # r /\ Has(conn[c], i) => Has(f, i),
         Placing(conn[c], hub) => Placing(f, hub),
         SameHub(hub, hub'), hub'.fetch = hub.fetch,
         hub'.early \subseteq hub.early, hub'.waiting \subseteq hub.waiting,
         \A x \in hub.early : x \in hub'.early \/ x.rpc = r,
         \A w \in hub.waiting : w \in hub'.waiting \/ w.rpc = r,
         UNCHANGED <<sessiondVars, laneVars, actor, clientVars, overtaken, stalled>>
  PROVE  FlowInv' /\ Accounted'
<1>1. conn'[c] = f /\ \A d \in Conns : d # c => conn'[d] = conn[d]
  BY ConnOf
<1>2. rpcs' = rpcs /\ answers' = answers /\ overtaken' = overtaken
  BY DEF clientVars
<1>3. hub.holds => Placed(hub', conn')
  <2> SUFFICES ASSUME hub.holds, NEW d \in Conns PROVE Placing(conn'[d], hub')
    BY DEF Placed
  <2>1. Placing(conn[d], hub)
    BY FlowIs DEF Placed
  <2>2. Placing(conn'[d], hub)
    BY <1>1, <2>1
  <2> QED BY <2>2, PlacingSame
<1>4. FlowInv'
  BY <1>3, FlowConns DEF laneVars
<1>5. Retained(hub, conn, hub', conn')
  <2> SUFFICES ASSUME NEW i \in Rpcs, Holds(hub, conn, i) PROVE Holds(hub', conn', i)
    BY DEF Retained
  <2>1. CASE i = r
    BY <1>1, <2>1 DEF Holds
  <2>2. CASE i # r
    <3>1. IsEarly(hub, i) => IsEarly(hub', i)
      BY <2>2 DEF IsEarly
    <3>2. IsAwaited(hub, i) => IsAwaited(hub', i)
      BY <2>2 DEF IsAwaited
    <3>3. ASSUME NEW d \in Conns, Has(conn[d], i) PROVE Has(conn'[d], i)
      BY <1>1, <2>2, <3>3
    <3> QED BY <3>1, <3>2, <3>3 DEF Holds
  <2> QED BY <2>1, <2>2
<1> QED BY <1>2, <1>4, <1>5, AccountingKept

LEMMA RefusedHas ==
  ASSUME NEW k \in Conn, NEW r \in Rpcs
  PROVE  LET f == Push(k, Message("refused", r, None))
         IN  /\ Has(f, r) /\ Retains(k, f) /\ f.att = k.att
             /\ \A i \in Rpcs : Carried(k, i) # {} => Carried(f, i) # {}
<1>1. Message("refused", r, None) \in Msg /\ Message("refused", r, None).rpc = r
  BY MessageIs
<1> QED BY <1>1, RetainsPush

LEMMA ExpiresWaitingFlow ==
  ASSUME StreamsInv, FlowInv, Accounted, ExpiresWaiting
  PROVE  FlowInv' /\ Accounted'
<1>1. PICK w \in hub.waiting :
        LET t == Tells(Turn(Unwaited(w.rpc), conn), w.conn, Message("refused", w.rpc, None))
        IN  hub' = t.hub /\ conn' = t.conn
  BY DEF ExpiresWaiting
<1>2. w.rpc \in Rpcs /\ w.conn \in Conns
  BY HubIs, WaitsIs
<1>3. conn[w.conn] \in Conn /\ conn \in [Conns -> Conn] /\ hub \in Hub
  BY <1>2, ConnOf, HubIs DEF TurnFine, HubFine
<1> DEFINE r == w.rpc
           c == w.conn
           f == Push(conn[c], Message("refused", r, None))
           ws == {v \in hub.waiting : v.rpc # r}
<1>4. hub' = [hub EXCEPT !.waiting = ws] /\ conn' = [conn EXCEPT ![c] = f]
  <2> DEFINE g == Unwaited(r)
             t == Tells(Turn(g, conn), c, Message("refused", r, None))
  <2>1. t.hub = g /\ t.conn = [conn EXCEPT ![c] = f]
    BY <1>3 DEF Tells, Turn
  <2>2. g = [hub EXCEPT !.waiting = ws]
    BY DEF Unwaited
  <2> HIDE DEF g
  <2> QED BY <1>1, <2>1, <2>2 DEF g
<1>5. Has(f, r) /\ Retains(conn[c], f) /\ f.att = conn[c].att
  BY <1>2, <1>3, RefusedHas
<1>6. ws \subseteq hub.waiting /\ \A v \in hub.waiting : v \in ws \/ v.rpc = r
  OBVIOUS
<1> HIDE DEF f, ws
<1>7. SameHub(hub, hub') /\ hub'.fetch = hub.fetch /\ hub'.early = hub.early /\ hub'.waiting = ws
  BY <1>3, <1>4 DEF Hub, SameHub
<1>8. Placing(conn[c], hub) => Placing(f, hub)
  BY <1>5 DEF Placing, Attached
<1>9. UNCHANGED <<sessiondVars, laneVars, actor, clientVars, overtaken, stalled>>
  BY DEF ExpiresWaiting
<1>10. c \in Conns /\ r \in Rpcs
  BY <1>2
<1>11. \A i \in Rpcs : i # r /\ Has(conn[c], i) => Has(f, i)
  BY <1>5 DEF Retains
<1> HIDE DEF c, r
<1> QED BY <1>4, <1>5, <1>6, <1>7, <1>8, <1>9, <1>10, <1>11, FlowExpires

LEMMA ExpiresFetchingFlow ==
  ASSUME StreamsInv, FlowInv, Accounted, ExpiresFetching
  PROVE  FlowInv' /\ Accounted'
<1>1. PICK c \in Conns :
        /\ Attached(conn[c], {"fetching"})
        /\ conn' = [conn EXCEPT ![c] = Push([@ EXCEPT !.att = None],
                                            Message("refused", conn[c].att.rpc, None))]
  BY DEF ExpiresFetching
<1>2. conn[c] \in Conn /\ conn \in [Conns -> Conn] /\ Owners(hub, conn, rpcs)
  BY ConnOf, HubIs DEF TurnFine
<1> DEFINE k == conn[c]
           r == k.att.rpc
           g == [k EXCEPT !.att = None]
           f == Push(g, Message("refused", r, None))
<1>3. r \in Rpcs
  BY <1>1, <1>2 DEF Owners
<1>4. conn' = [conn EXCEPT ![c] = f]
  BY <1>1, <1>2
<1> HIDE DEF r
<1>5. g \in Conn /\ g.att = None /\ \A i : Carried(g, i) = Carried(k, i)
  BY <1>2 DEF Conn, Carried
<1> HIDE DEF g
<1>6. Has(f, r) /\ f.att = None /\ \A i \in Rpcs : Carried(g, i) # {} => Carried(f, i) # {}
  BY <1>3, <1>5, RefusedHas
<1> HIDE DEF f
<1>7. \A i \in Rpcs : i # r /\ Has(conn[c], i) => Has(f, i)
  BY <1>5, <1>6 DEF Has, r
<1>8. Placing(f, hub)
  BY <1>6, PlacingNone
<1>9. hub' = hub /\ UNCHANGED <<sessiondVars, laneVars, actor, clientVars, overtaken, stalled>>
  BY DEF ExpiresFetching
<1>10. SameHub(hub, hub')
  BY <1>9 DEF SameHub
<1> QED BY <1>3, <1>4, <1>6, <1>7, <1>8, <1>9, <1>10, FlowExpires

LEMMA ExpiresEarlyFlow ==
  ASSUME StreamsInv, FlowInv, Accounted, ExpiresEarly
  PROVE  FlowInv' /\ Accounted'
<1>1. PICK x \in hub.early :
        /\ hub' = [hub EXCEPT !.early = @ \ {x}]
        /\ conn' = [conn EXCEPT ![x.conn] = Push(@, Message("refused", x.rpc, None))]
  BY DEF ExpiresEarly
<1>2. hub \in Hub /\ Once(hub, conn, answers, x.rpc) /\ x.rpc \in Rpcs /\ x.conn \in Conns
  <2>1. hub \in Hub
    BY HubIs DEF TurnFine, HubFine
  <2>2. x.rpc \in Rpcs /\ x.conn \in Conns
    BY <2>1 DEF Hub, Pending
  <2> QED BY <2>1, <2>2, HubIs DEF TurnFine
<1> DEFINE c == x.conn
           r == x.rpc
           e == hub.early \ {x}
           f == Push(conn[c], Message("refused", r, None))
<1>3. conn[c] \in Conn /\ conn \in [Conns -> Conn]
  BY <1>2, ConnOf
<1>4. conn' = [conn EXCEPT ![c] = f] /\ hub' = [hub EXCEPT !.early = e]
  BY <1>1, <1>2, <1>3
<1>5. Has(f, r) /\ Retains(conn[c], f) /\ f.att = conn[c].att
  BY <1>2, <1>3, RefusedHas
<1>6. e \subseteq hub.early /\ \A y \in hub.early : y \in e \/ y.rpc = r
  OBVIOUS
<1> HIDE DEF f, e
<1>7. SameHub(hub, hub') /\ hub'.fetch = hub.fetch /\ hub'.early = e /\ hub'.waiting = hub.waiting
  BY <1>2, <1>4 DEF Hub, SameHub
<1>8. Placing(conn[c], hub) => Placing(f, hub)
  BY <1>5 DEF Placing, Attached
<1>9. UNCHANGED <<sessiondVars, laneVars, actor, clientVars, overtaken, stalled>>
  BY DEF ExpiresEarly
<1>10. c \in Conns /\ r \in Rpcs
  BY <1>2
<1>11. \A i \in Rpcs : i # r /\ Has(conn[c], i) => Has(f, i)
  BY <1>5 DEF Retains
<1> HIDE DEF c, r
<1> QED BY <1>4, <1>5, <1>6, <1>7, <1>8, <1>9, <1>10, <1>11, FlowExpires

LEMMA FlowStart ==
  ASSUME StreamInit
  PROVE  FlowInv /\ Accounted
<1> DEFINE e == <<>>
<1>1. Len(e) = 0
  OBVIOUS
<1>2. 1..Len(e) = {} /\ Len(e) + 1 = 1 /\ 1..1 - 1 = {}
  BY <1>1
<1> HIDE DEF e
<1>3. /\ toV = e /\ toS = e /\ commands = e /\ outs = e /\ oldest = 0 /\ pump = 0 /\ linked
      /\ actor.phase = "running" /\ actor.at = 0 /\ actor.live_at = 0 /\ actor.live
      /\ hub.holds /\ hub.head = 0 /\ \A c \in Conns : conn[c].att = None
  BY DEF StreamInit, Unconnected, e
<1>4. \A x : Under(e, 1, x)
  BY <1>2 DEF Under
<1>5. Upto(e, 0, 0) /\ Beyond(e, 0, 0)
  BY <1>2, <1>4 DEF Upto, Beyond, AtMost, AtLeast
<1>6. Voiced(e, 0) /\ Rising(e, e, 0) /\ Sent(0, e, e, 0) /\ Pumped(0, e, e, 0) /\ Past(0, e, e, e, 0)
  BY <1>2, <1>4, <1>5 DEF Voiced, Rising, Sent, Pumped, Past
<1>7. Levelled(actor, e, e, e, 0, 0) /\ Living(hub, actor, e)
  BY <1>3, <1>5 DEF Levelled, Living
<1>8. Cut(linked, e, e, e, e, 0, actor, hub) /\ Asked(linked, actor, stalled, 0, e, e)
  BY <1>3, ClientsAssumption DEF Cut, Asked
<1>9. Placed(hub, conn)
  BY <1>3, PlacingNone DEF Placed
<1>10. FlowInv
  BY <1>3, <1>6, <1>7, <1>8, <1>9 DEF FlowInv
<1>11. Accounted
  BY ClientsAssumption DEF StreamInit, Accounted, Accounts
<1> QED BY <1>10, <1>11

LEMMA FlowStep ==
  ASSUME StreamsInv, FlowInv, Accounted, [StreamNext]_streamVars
  PROVE  FlowInv' /\ Accounted'
<1>1. CASE UNCHANGED streamVars
  <2>1. UNCHANGED <<sessiondVars, laneVars, actor, hub, conn, clientVars, overtaken, stalled>>
    BY <1>1 DEF streamVars
  <2>2. hub.holds => Placed(hub', conn')
    BY <2>1, FlowIs
  <2>3. FlowInv'
    BY <2>1, <2>2, FlowConns DEF SameHub, laneVars
  <2> QED BY <2>1, <2>3, AccountingSame DEF clientVars
<1>2. CASE ServesAttach
  BY <1>2, ServesAttachFlow
<1>3. CASE Pumps
  BY <1>3, PumpsFlow
<1>4. CASE ReceivesEntries
  BY <1>4, ReceivesEntriesFlow
<1>5. CASE ReceivesCheckpoint
  BY <1>5, ReceivesCheckpointFlow
<1>6. CASE ReceivesRefusal
  BY <1>6, ReceivesRefusalFlow
<1>7. CASE HearsApplied
  BY <1>7, HearsAppliedFlow
<1>8. CASE HearsLive
  BY <1>8, HearsLiveFlow
<1>9. CASE HearsSnapshot
  BY <1>9, HearsSnapshotFlow
<1>10. CASE HearsEnd
  BY <1>10, HearsEndFlow
<1>11. CASE ForwardsFetch
  BY <1>11, ForwardsFetchFlow
<1>12. CASE HoldEnds
  BY <1>12, HoldEndsFlow
<1>13. CASE Links
  BY <1>13, LinksFlow
<1>14. CASE ExpiresWaiting
  BY <1>14, ExpiresWaitingFlow
<1>15. CASE ExpiresFetching
  BY <1>15, ExpiresFetchingFlow
<1>16. CASE ExpiresEarly
  BY <1>16, ExpiresEarlyFlow
<1>17. CASE \E c \in Conns : Writes(c) \/ Stores(c) \/ Drained(c)
  BY <1>17, WritesFlow, StoresFlow, DrainedFlow
<1>18. CASE Prints
  BY <1>18, PrintsFlow
<1>19. CASE Trims
  BY <1>19, TrimsFlow
<1>20. CASE Dozes
  BY <1>20, DozesFlow
<1>21. CASE Panics
  BY <1>21, PanicsFlow
<1>22. CASE Suspends
  BY <1>22, SuspendsFlow
<1>23. CASE \E c \in Conns : Asks(c) \/ Disconnects(c)
  BY <1>23, AsksFlow, DisconnectsFlow
<1> QED
  BY <1>1, <1>2, <1>3, <1>4, <1>5, <1>6, <1>7, <1>8, <1>9, <1>10, <1>11, <1>12, <1>13, <1>14,
     <1>15, <1>16, <1>17, <1>18, <1>19, <1>20, <1>21, <1>22, <1>23
     DEF StreamNext, System

\* What is on its way between sessiond, the driver and the hub adds up:
\* the hub's head, with the batches on their way to it, is where the
\* actor, the lane from sessiond and the pump go on from; and no attach is
\* forgotten but those that are overtaken
\* (vornd/src/engine.rs, vornd/src/streams.rs, sessiond/src/server.rs).
THEOREM StreamsFlow == StreamSpec => [](FlowInv /\ Accounted)
<1> DEFINE Flow == FlowInv /\ Accounted
<1>1. StreamInit => StreamsInv /\ Flow
  BY StreamsStart, FlowStart
<1>2. StreamsInv /\ Flow /\ [StreamNext]_streamVars => StreamsInv' /\ Flow'
  BY StreamsStep, FlowStep
<1> HIDE DEF Flow
<1>3. StreamSpec => []Flow
  BY <1>1, <1>2, PTL DEF StreamSpec
<1> QED BY <1>3, PTL DEF Flow

\* Every attach is answered once: never twice, and once nothing is left
\* for the system to do, at all, unless its client leaves or its
\* attachment goes with another's snapshot or with the actor (attach,
\* snapshot_ready, fetch_refused, closed, disconnect and expire).
THEOREM EveryAttachAnswered == StreamSpec => []AnsweredOnce
<1>1. ASSUME AnsweredAtMostOnce, Accounted PROVE AnsweredOnce
  <2> SUFFICES ASSUME AtRest, NEW i \in Rpcs, rpcs[i] \in Conns
               PROVE  answers[i] = 1 \/ i \in overtaken
    BY <1>1 DEF AnsweredOnce
  <2>1. Holds(hub, conn, i) \/ answers[i] = 1 \/ i \in overtaken
    BY <1>1 DEF Accounted, Accounts
  <2>2. ~IsEarly(hub, i) /\ ~IsAwaited(hub, i)
    BY DEF AtRest, IsEarly, IsAwaited
  <2>3. ASSUME NEW c \in Conns PROVE ~Has(conn[c], i)
    <3>1. conn[c].out = <<>> /\ ~Attached(conn[c], {"fetching"})
      BY DEF AtRest, Fetching
    <3>2. Carried(conn[c], i) = {}
      BY <3>1 DEF Carried
    <3> QED BY <3>1, <3>2 DEF Has
  <2> QED BY <2>1, <2>2, <2>3 DEF Holds
<1> QED BY <1>1, AttachesAnsweredAtMostOnce, StreamsFlow, PTL

\* Who follows, or fell behind, has all the hub has once nothing is left
\* for the system to do, unless its wake-up was missed (deliver, catch_up,
\* written and drained in streams.rs).
THEOREM BehindAlwaysCatchesUp == StreamSpec => []BehindCatchesUp
<1>1. ASSUME StreamsInv, FlowInv, BehindIsWoken PROVE BehindCatchesUp
  <2> SUFFICES ASSUME AtRest, NEW c \in Conns, Attached(conn[c], {"following", "behind"})
               PROVE  conn[c].missed \/ conn[c].att.next >= hub.head
    BY <1>1 DEF BehindCatchesUp
  <2>1. conn[c] \in Conn /\ (hub.ended => ~Attached(conn[c], Modes))
    BY <1>1, ConnOf
  <2>2. hub.holds
    BY <1>1, <2>1 DEF FlowInv, Attached, Modes
  <2>3. Placing(conn[c], hub)
    BY <1>1, <2>2, FlowIs DEF Placed
  <2>4. CASE Attached(conn[c], {"following"})
    <3>1. hub.head \in Nat /\ conn[c].att.next \in Nat
      BY <1>1, <2>1, <2>4, InvIs, ConnFields DEF Att, Spot
    <3> QED BY <2>3, <2>4, <3>1 DEF Placing
  <2>5. CASE Attached(conn[c], {"behind"})
    <3>1. conn[c].out = <<>> /\ ~conn[c].wake
      BY DEF AtRest
    <3>2. Queued(conn[c]) = 0
      <4>1. Queue(conn[c].out) = {}
        BY <3>1 DEF Queue
      <4> QED BY <2>1, <4>1, QueuedIs, FS_EmptySet
    <3>3. ~(Queued(conn[c]) > QueueCap \div 2)
      BY <3>2, QueueHalf
    <3> QED BY <1>1, <2>5, <3>1, <3>3 DEF BehindIsWoken
  <2> QED BY <2>4, <2>5 DEF Attached
<1> QED BY <1>1, StreamsInvariant, StreamsFlow, BehindAlwaysWoken, PTL

\* Once nothing is left for the system to do, the hub has what the program
\* printed, whatever clients fetched and sessiond refused, unless a
\* refusal reached a running actor (repump in vornd/src/engine.rs, attach
\* in sessiond/src/server.rs).
THEOREM OutputAlwaysComes == StreamSpec => []OutputReachesHub
<1>1. ASSUME StreamsInv, FlowInv PROVE OutputReachesHub
  <2> SUFFICES ASSUME AtRest, hub.holds, actor.phase # "down", ~stalled
               PROVE  hub.head = Len(log)
    BY DEF OutputReachesHub
  <2> DEFINE e == <<>>
  <2>1. 1..Len(e) = {} /\ 1..Len(e) + 1 - 1 = {}
    OBVIOUS
  <2> HIDE DEF e
  <2>2. linked /\ toV = e /\ toS = e /\ outs = e /\ pump \in {None, Len(log)}
    BY DEF AtRest, e
  <2>3. Asked(linked, actor, stalled, pump, toV, toS) /\ Pumped(pump, toV, outs, hub.head)
    BY <1>1, FlowIs
  <2>4. e = <<>>
    BY DEF e
  <2>5. pump # None
    BY <2>1, <2>2, <2>3, <2>4 DEF Asked
  <2>6. hub.head >= Len(log)
    BY <2>1, <2>2, <2>3, <2>5 DEF Pumped, Beyond, AtLeast, Over
  <2> QED BY <1>1, <2>6, InvIs DEF Spot
<1> QED BY <1>1, StreamsInvariant, StreamsFlow, PTL
=============================================================================
