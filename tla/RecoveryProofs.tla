--------------------------- MODULE RecoveryProofs ---------------------------
(***************************************************************************)
(* Proofs about Recovery, for any number of vornds, records and frames in  *)
(* flight: replay has no hole, effects are done at most once and notified  *)
(* before a checkpoint covers them, and what calls itself exact is.        *)
(*                                                                         *)
(* The argument.  Every cursor anyone holds is a boundary of the one log   *)
(* there ever was (IsBoundary), and whatever was trimmed is behind a       *)
(* checkpoint still stored.  At most one attach is on its way or not yet   *)
(* answered (OnePending), so what comes to vornd is one stretch of the log *)
(* after another, and a stretch that begins behind what the terminal has   *)
(* already: each record follows the one before it, or is skipped (Steady). *)
(* An effect is asked for once per vornd, since the cursor only moves on   *)
(* once a record was applied (Past), and a later vornd starts from what    *)
(* was sent or printed before it (EffectsFine).  A checkpoint covers what  *)
(* was notified or is to be, earlier in the host's queue (Covers).         *)
(***************************************************************************)
EXTENDS Recovery, SequenceTheorems, WellFoundedInduction, TLAPS

-----------------------------------------------------------------------------
(* The log there ever was, and boundaries of it.                           *)

(* The boundary after the first n records of l, a log that ends at h.      *)
BoundaryIn(l, h, n) == IF n = Len(l) THEN h ELSE Before(l[n + 1])

IsLog(l, h) ==
  /\ l \in Seq(Entry) /\ h \in Cursor /\ h.rseq = Len(l)
  /\ BoundaryIn(l, h, 0) = Start
  /\ \A n \in 1..Len(l) : l[n].rseq = n - 1 /\ BoundaryIn(l, h, n) = After(l[n])

(* r is the end of l.                                                      *)
IsEnd(r, l) ==
  /\ r \in Seq(Entry) /\ Len(r) <= Len(l)
  /\ \A i \in 1..Len(r) : r[i] = l[Len(l) - Len(r) + i]

IsBoundary(c) == c \in Cursor /\ c.rseq <= Len(log) /\ c = BoundaryIn(log, head, c.rseq)

Logged(e) == e \in Entry /\ e.rseq < Len(log) /\ e = log[e.rseq + 1]

(* Records dropped from the front of the run.                              *)
Base == Len(log) - Len(run)

LogFine ==
  /\ IsLog(log, head) /\ lost \in Nat /\ SettledHead.rseq <= MaxRecords
  /\ \A n \in 1..Len(log) :
       log[n].kind # "exit" /\ (overflow = "Block" => log[n].kind # "resize")

(* A step after which the log is what it was, or longer.                   *)
Grows ==
  /\ IsLog(log', head') /\ Len(log) <= Len(log')
  /\ \A n \in 1..Len(log) : log'[n] = log[n]
  /\ \A n \in 0..Len(log) : BoundaryIn(log', head', n) = BoundaryIn(log, head, n)

LEMMA EntryFields ==
  /\ \A e \in Entry : e.rseq \in Nat /\ e.off \in Nat /\ e.len \in Nat
                      /\ Before(e) \in Cursor /\ After(e) \in Cursor
                      /\ Before(e).rseq = e.rseq /\ After(e).rseq = e.rseq + 1
  /\ \A c \in Cursor : c.rseq \in Nat /\ c.off \in Nat
BY DEF Entry, Cursor, Before, After

LEMMA PushedLog ==
  ASSUME NEW l, NEW h, IsLog(l, h), NEW e \in Entry, Before(e) = h
  PROVE  /\ IsLog(Append(l, e), After(e)) /\ Len(Append(l, e)) = Len(l) + 1
         /\ \A n \in 1..Len(l) : Append(l, e)[n] = l[n]
         /\ Append(l, e)[Len(l) + 1] = e
         /\ \A n \in 0..Len(l) : BoundaryIn(Append(l, e), After(e), n) = BoundaryIn(l, h, n)
<1> DEFINE m == Append(l, e)
<1>1. l \in Seq(Entry) /\ Len(l) \in Nat
  BY DEF IsLog
<1>2. m \in Seq(Entry) /\ Len(m) = Len(l) + 1 /\ m[Len(l) + 1] = e
      /\ \A n \in 1..Len(l) : m[n] = l[n]
  BY <1>1
<1> HIDE DEF m
<1>3. e.rseq = Len(l) /\ After(e) \in Cursor /\ After(e).rseq = Len(l) + 1
  BY EntryFields DEF IsLog
<1>4. \A n \in 0..Len(l) : BoundaryIn(m, After(e), n) = BoundaryIn(l, h, n)
  BY <1>1, <1>2 DEF BoundaryIn
<1>5. BoundaryIn(m, After(e), 0) = Start
  BY <1>4, <1>1 DEF IsLog
<1>6. ASSUME NEW n \in 1..Len(m)
      PROVE  m[n].rseq = n - 1 /\ BoundaryIn(m, After(e), n) = After(m[n])
  <2>1. CASE n = Len(m)
    BY <2>1, <1>2, <1>3, <1>1 DEF BoundaryIn
  <2>2. CASE n # Len(m)
    <3>1. n \in 1..Len(l)
      BY <2>2, <1>1, <1>2
    <3> QED  BY <3>1, <1>4, <1>2, <1>1 DEF IsLog
  <2> QED  BY <2>1, <2>2
<1>7. IsLog(m, After(e))
  BY <1>2, <1>3, <1>5, <1>6 DEF IsLog
<1> QED  BY <1>2, <1>4, <1>7 DEF m

LEMMA PushedEnd ==
  ASSUME NEW l \in Seq(Entry), NEW r, IsEnd(r, l), NEW e \in Entry
  PROVE  IsEnd(Append(r, e), Append(l, e))
<1>1. r \in Seq(Entry) /\ Len(r) <= Len(l)
  BY DEF IsEnd
<1>2. ASSUME NEW i \in 1..Len(r) + 1
      PROVE  Append(r, e)[i] = Append(l, e)[Len(l) - Len(r) + i]
  <2>1. CASE i \in 1..Len(r)
    <3>1. Len(l) - Len(r) + i \in 1..Len(l)
      BY <1>1, <2>1
    <3> QED  BY <1>1, <2>1, <3>1 DEF IsEnd
  <2>2. CASE i = Len(r) + 1
    <3>1. Len(l) - Len(r) + i = Len(l) + 1
      BY <1>1, <2>2
    <3> QED  BY <1>1, <2>2, <3>1
  <2> QED  BY <1>1, <2>1, <2>2
<1>3. /\ Append(r, e) \in Seq(Entry) /\ Append(l, e) \in Seq(Entry)
      /\ Len(Append(r, e)) = Len(r) + 1 /\ Len(Append(l, e)) = Len(l) + 1
  BY <1>1
<1>4. Len(Append(l, e)) - Len(Append(r, e)) = Len(l) - Len(r)
  BY <1>1, <1>3
<1>5. \A i \in 1..Len(Append(r, e)) :
        Append(r, e)[i] = Append(l, e)[Len(Append(l, e)) - Len(Append(r, e)) + i]
  BY <1>2, <1>3, <1>4
<1>6. Len(Append(r, e)) <= Len(Append(l, e))
  BY <1>1, <1>3
<1> QED  BY <1>3, <1>5, <1>6 DEF IsEnd

LEMMA DroppedEnd ==
  ASSUME NEW l \in Seq(Entry), NEW r, IsEnd(r, l), NEW k \in 0..Len(r)
  PROVE  IsEnd(DropFirst(r, k), l) /\ Len(DropFirst(r, k)) = Len(r) - k
<1>1. r \in Seq(Entry) /\ Len(r) <= Len(l)
  BY DEF IsEnd
<1>2. DropFirst(r, k) \in Seq(Entry) /\ Len(DropFirst(r, k)) = Len(r) - k
      /\ \A i \in 1..Len(r) - k : DropFirst(r, k)[i] = r[k + i]
  BY <1>1 DEF DropFirst
<1> QED  BY <1>1, <1>2 DEF IsEnd

-----------------------------------------------------------------------------
(* Steps of the log.                                                       *)

LEMMA SettledLog ==
  ASSUME LogFine
  PROVE  /\ IsLog(Settled(log), SettledHead)
         /\ Len(log) <= Len(Settled(log))
         /\ \A n \in 1..Len(log) : Settled(log)[n] = log[n]
         /\ \A n \in Len(log) + 1..Len(Settled(log)) : Settled(log)[n].kind = "gap"
         /\ \A n \in 0..Len(log) : BoundaryIn(Settled(log), SettledHead, n) = BoundaryIn(log, head, n)
<1>1. IsLog(log, head) /\ lost \in Nat /\ log \in Seq(Entry) /\ Len(log) \in Nat /\ head \in Cursor
  BY DEF LogFine, IsLog
<1>2. CASE lost > 0
  <2>1. Gap \in Entry /\ Before(Gap) = head /\ Gap.kind = "gap"
    BY <1>1 DEF Gap, Entry, Before, Cursor
  <2>2. Settled(log) = Append(log, Gap) /\ SettledHead = After(Gap)
    BY <1>2 DEF Settled, SettledHead
  <2> HIDE DEF Gap
  <2>3. /\ IsLog(Append(log, Gap), After(Gap)) /\ Len(Append(log, Gap)) = Len(log) + 1
        /\ \A n \in 1..Len(log) : Append(log, Gap)[n] = log[n]
        /\ Append(log, Gap)[Len(log) + 1] = Gap
        /\ \A n \in 0..Len(log) : BoundaryIn(Append(log, Gap), After(Gap), n) = BoundaryIn(log, head, n)
    BY <1>1, <2>1, PushedLog
  <2>4. \A n \in Len(log) + 1..Len(Append(log, Gap)) : Append(log, Gap)[n].kind = "gap"
    BY <1>1, <2>1, <2>3
  <2> QED  BY <1>1, <2>2, <2>3, <2>4
<1>3. CASE ~(lost > 0)
  <2>1. Settled(log) = log /\ SettledHead = head
    BY <1>3 DEF Settled, SettledHead
  <2> QED  BY <1>1, <2>1
<1> QED  BY <1>2, <1>3

LEMMA SettledEnd ==
  ASSUME LogFine, NEW r, IsEnd(r, log)
  PROVE  /\ IsEnd(Settled(r), Settled(log))
         /\ Len(Settled(log)) - Len(Settled(r)) = Len(log) - Len(r)
<1>1. lost \in Nat /\ log \in Seq(Entry) /\ head \in Cursor /\ r \in Seq(Entry)
  BY DEF LogFine, IsLog, IsEnd
<1>2. CASE lost > 0
  <2>1. Gap \in Entry /\ Settled(log) = Append(log, Gap) /\ Settled(r) = Append(r, Gap)
    BY <1>1, <1>2 DEF Gap, Entry, Cursor, Settled
  <2> HIDE DEF Gap
  <2> QED  BY <1>1, <2>1, PushedEnd
<1>3. CASE ~(lost > 0)
  BY <1>3 DEF Settled
<1> QED  BY <1>2, <1>3

(* What is numbered is what was added to the run.                          *)
LEMMA NumberedIs ==
  ASSUME NEW l \in Seq(Entry), NEW r \in Seq(Entry), NEW g \in Entry, NEW e \in Entry
  PROVE  /\ l \o SubSeq(r, Len(r) + 1, Len(r)) = l
         /\ l \o SubSeq(Append(r, e), Len(Append(r, e)), Len(Append(r, e))) = Append(l, e)
         /\ l \o SubSeq(Append(Append(r, g), e), Len(Append(Append(r, g), e)) - 1,
                        Len(Append(Append(r, g), e))) = Append(Append(l, g), e)
<1>1. l \o SubSeq(r, Len(r) + 1, Len(r)) = l
  <2>1. SubSeq(r, Len(r) + 1, Len(r)) = <<>>
    OBVIOUS
  <2>2. l \o <<>> = l
    BY ConcatEmptySeq
  <2> QED  BY <2>1, <2>2
<1>2. ASSUME NEW x \in Seq(Entry), NEW f \in Entry
      PROVE  SubSeq(Append(x, f), Len(Append(x, f)), Len(Append(x, f))) = <<f>>
  <2> DEFINE w == Append(x, f)
             u == SubSeq(w, Len(w), Len(w))
  <2>1. w \in Seq(Entry) /\ Len(w) = Len(x) + 1 /\ w[Len(w)] = f
    OBVIOUS
  <2> HIDE DEF w
  <2>2. u \in Seq(Entry) /\ Len(u) = 1 /\ u[1] = f
    BY <2>1
  <2> HIDE DEF u
  <2>3. u = <<f>>
    BY <2>2
  <2> QED  BY <2>3 DEF w, u
<1>3. SubSeq(Append(Append(r, g), e), Len(Append(Append(r, g), e)) - 1,
             Len(Append(Append(r, g), e))) = <<g, e>>
  <2> DEFINE w == Append(Append(r, g), e)
             u == SubSeq(w, Len(w) - 1, Len(w))
  <2>1. w \in Seq(Entry) /\ Len(w) = Len(r) + 2 /\ w[Len(r) + 1] = g /\ w[Len(r) + 2] = e
    OBVIOUS
  <2> HIDE DEF w
  <2>2. u \in Seq(Entry) /\ Len(u) = 2 /\ \A i \in 1..2 : u[i] = w[Len(r) + i]
    BY <2>1
  <2>3. u[1] = g /\ u[2] = e
    BY <2>1, <2>2
  <2> HIDE DEF u
  <2>4. u = <<u[1], u[2]>>
    BY <2>2
  <2>5. u = <<g, e>>
    BY <2>3, <2>4
  <2> QED  BY <2>5 DEF w, u
<1>4. l \o <<e>> = Append(l, e)
  OBVIOUS
<1>5. l \o <<g, e>> = Append(Append(l, g), e)
  OBVIOUS
<1> QED  BY <1>1, <1>2, <1>3, <1>4, <1>5

LEMMA NumberedSettles ==
  ASSUME LogFine, NEW r \in Seq(Entry), run' = Settled(r), head' = SettledHead, Numbered
  PROVE  log' = Settled(log)
<1>1. lost \in Nat /\ log \in Seq(Entry) /\ head \in Cursor
  BY DEF LogFine, IsLog
<1>2. CASE lost > 0
  <2>1. Gap \in Entry /\ After(Gap).rseq = head.rseq + 1 /\ head.rseq \in Nat
    BY <1>1 DEF Gap, Entry, After, Cursor
  <2>2. run' = Append(r, Gap) /\ Settled(log) = Append(log, Gap) /\ head' = After(Gap)
    BY <1>2 DEF Settled, SettledHead
  <2> HIDE DEF Gap
  <2>3. head'.rseq - head.rseq = 1 /\ Len(run') - 1 + 1 = Len(run')
    BY <2>1, <2>2
  <2>4. log' = log \o SubSeq(run', Len(run'), Len(run'))
    BY <2>3 DEF Numbered
  <2> QED  BY <1>1, <2>1, <2>2, <2>4, NumberedIs
<1>3. CASE ~(lost > 0)
  <2>1. run' = r /\ Settled(log) = log /\ head' = head /\ head.rseq \in Nat
    BY <1>3, <1>1 DEF Settled, SettledHead, Cursor
  <2>2. head'.rseq - head.rseq = 0 /\ Len(run') - 0 + 1 = Len(run') + 1
    BY <2>1
  <2>3. log' = log \o SubSeq(run', Len(run') + 1, Len(run'))
    BY <2>2 DEF Numbered
  <2> QED  BY <1>1, <2>1, <2>3, NumberedIs
<1> QED  BY <1>2, <1>3

LEMMA NumberedPush ==
  ASSUME LogFine, NEW r \in Seq(Entry), NEW e \in Entry, e.rseq = SettledHead.rseq,
         run' = Append(Settled(r), e), head' = After(e), Numbered
  PROVE  log' = Append(Settled(log), e)
<1>1. lost \in Nat /\ log \in Seq(Entry) /\ head \in Cursor
  BY DEF LogFine, IsLog
<1>2. CASE lost > 0
  <2>1. Gap \in Entry /\ After(Gap).rseq = head.rseq + 1 /\ head.rseq \in Nat
    BY <1>1 DEF Gap, Entry, After, Cursor
  <2>2. run' = Append(Append(r, Gap), e) /\ Settled(log) = Append(log, Gap)
        /\ SettledHead = After(Gap)
    BY <1>2 DEF Settled, SettledHead
  <2> HIDE DEF Gap
  <2>3. head'.rseq = head.rseq + 2
    BY <2>1, <2>2, EntryFields
  <2>4. head'.rseq - head.rseq = 2 /\ Len(run') - 2 + 1 = Len(run') - 1
    BY <2>1, <2>2, <2>3
  <2>5. log' = log \o SubSeq(run', Len(run') - 1, Len(run'))
    BY <2>4 DEF Numbered
  <2> QED  BY <1>1, <2>1, <2>2, <2>5, NumberedIs
<1>3. CASE ~(lost > 0)
  <2>1. run' = Append(r, e) /\ Settled(log) = log /\ SettledHead = head /\ head.rseq \in Nat
    BY <1>3, <1>1 DEF Settled, SettledHead, Cursor
  <2>2. head'.rseq - head.rseq = 1 /\ Len(run') - 1 + 1 = Len(run')
    BY <2>1, EntryFields
  <2>3. log' = log \o SubSeq(run', Len(run'), Len(run'))
    BY <2>2 DEF Numbered
  <2> QED  BY <1>1, <2>1, <2>3, NumberedIs
<1> QED  BY <1>2, <1>3

LEMMA SettleGrows ==
  ASSUME LogFine, NEW r, IsEnd(r, log), run' = Settled(r), head' = SettledHead, lost' = 0,
         overflow' = overflow, Numbered
  PROVE  /\ Grows /\ LogFine' /\ IsEnd(run', log') /\ SettledHead' = head'
         /\ Len(log') - Len(run') = Len(log) - Len(r)
<1>1. r \in Seq(Entry)
  BY DEF IsEnd
<1>2. log' = Settled(log)
  BY <1>1, NumberedSettles
<1>3. SettledHead' = head'
  BY DEF SettledHead
<1>4. \A n \in 1..Len(log') :
        log'[n].kind # "exit" /\ (overflow' = "Block" => log'[n].kind # "resize")
  <2>1. log' \in Seq(Entry) /\ log \in Seq(Entry)
    BY <1>2, SettledLog DEF IsLog, LogFine
  <2> QED  BY <1>2, <2>1, SettledLog DEF LogFine
<1>5. LogFine'
  BY <1>2, <1>3, <1>4, SettledLog DEF LogFine
<1> QED  BY <1>2, <1>3, <1>5, SettledLog, SettledEnd DEF Grows

LEMMA PushGrows ==
  ASSUME LogFine, NEW r, IsEnd(r, log), NEW kind \in {"data", "resize"}, NEW n \in Nat,
         SettledHead.rseq < MaxRecords, MaxRecords \in Nat, overflow = "Block" => kind # "resize",
         Push(r, kind, n), overflow' = overflow, Numbered
  PROVE  /\ Grows /\ LogFine' /\ IsEnd(run', log')
         /\ Len(log') - Len(run') = Len(log) - Len(r)
<1> DEFINE e == [rseq |-> SettledHead.rseq, off |-> SettledHead.off, kind |-> kind, len |-> n]
<1>1. r \in Seq(Entry) /\ log \in Seq(Entry)
  BY DEF IsEnd, LogFine, IsLog
<1>2. IsLog(Settled(log), SettledHead)
  BY SettledLog
<1>3. SettledHead \in Cursor /\ Settled(log) \in Seq(Entry)
  BY <1>2 DEF IsLog
<1>4. e \in Entry /\ Before(e) = SettledHead /\ e.rseq = SettledHead.rseq /\ e.kind = kind
  BY <1>3 DEF Entry, Before, Cursor
<1>5. run' = Append(Settled(r), e) /\ head' = After(e) /\ lost' = 0
  BY DEF Push
<1> HIDE DEF e
<1>6. log' = Append(Settled(log), e)
  BY <1>1, <1>4, <1>5, NumberedPush
<1>7. /\ IsLog(log', head') /\ Len(log') = Len(Settled(log)) + 1
      /\ \A i \in 1..Len(Settled(log)) : log'[i] = Settled(log)[i]
      /\ log'[Len(Settled(log)) + 1] = e
      /\ \A i \in 0..Len(Settled(log)) : BoundaryIn(log', head', i) = BoundaryIn(Settled(log), SettledHead, i)
  BY <1>2, <1>4, <1>5, <1>6, PushedLog
<1>8. Grows
  BY <1>1, <1>3, <1>7, SettledLog DEF Grows
<1>9. SettledHead' = head' /\ head'.rseq = SettledHead.rseq + 1 /\ SettledHead.rseq \in Nat
  BY <1>3, <1>4, <1>5, EntryFields DEF SettledHead
<1>10. \A i \in 1..Len(log') :
         log'[i].kind # "exit" /\ (overflow' = "Block" => log'[i].kind # "resize")
  <2> SUFFICES ASSUME NEW i \in 1..Len(log')
               PROVE  log'[i].kind # "exit" /\ (overflow = "Block" => log'[i].kind # "resize")
    OBVIOUS
  <2>1. CASE i = Len(Settled(log)) + 1
    BY <2>1, <1>4, <1>7
  <2>2. CASE i # Len(Settled(log)) + 1
    <3>1. i \in 1..Len(Settled(log)) /\ log'[i] = Settled(log)[i]
      BY <2>2, <1>3, <1>7
    <3>2. i \in 1..Len(log) \/ i \in Len(log) + 1..Len(Settled(log))
      BY <3>1, <1>1
    <3> QED  BY <3>1, <3>2, SettledLog DEF LogFine
  <2> QED  BY <2>1, <2>2
<1>11. LogFine'
  BY <1>5, <1>7, <1>9, <1>10 DEF LogFine
<1>12. IsEnd(Settled(r), Settled(log)) /\ Len(Settled(log)) - Len(Settled(r)) = Len(log) - Len(r)
  BY SettledEnd
<1>13. Settled(r) \in Seq(Entry)
  BY <1>12 DEF IsEnd
<1>14. Len(run') = Len(Settled(r)) + 1
  BY <1>5, <1>13, <1>4
<1>15. IsEnd(run', log')
  BY <1>3, <1>4, <1>5, <1>6, <1>12, PushedEnd
<1>16. Len(log') - Len(run') = Len(log) - Len(r)
  <2>1. Len(Settled(r)) \in Nat /\ Len(Settled(log)) \in Nat
    BY <1>3, <1>13
  <2>2. Len(log') = Len(Settled(log)) + 1
    BY <1>7
  <2>3. Len(Settled(log)) - Len(Settled(r)) = Len(log) - Len(r)
    BY <1>12
  <2> QED  BY <2>1, <2>2, <2>3, <1>14
<1> QED  BY <1>8, <1>11, <1>15, <1>16

-----------------------------------------------------------------------------
(* Boundaries of the run, and what an attach at one is sent.               *)

LEMMA BoundaryType ==
  ASSUME NEW l, NEW h, IsLog(l, h), NEW n \in 0..Len(l)
  PROVE  BoundaryIn(l, h, n) \in Cursor /\ BoundaryIn(l, h, n).rseq = n
<1>1. l \in Seq(Entry) /\ Len(l) \in Nat
  BY DEF IsLog
<1>2. CASE n = Len(l)
  BY <1>2 DEF BoundaryIn, IsLog
<1>3. CASE n # Len(l)
  <2>1. n + 1 \in 1..Len(l)
    BY <1>1, <1>3
  <2>2. l[n + 1] \in Entry /\ l[n + 1].rseq = n + 1 - 1
    BY <1>1, <2>1 DEF IsLog
  <2>3. BoundaryIn(l, h, n) = Before(l[n + 1])
    BY <1>3 DEF BoundaryIn
  <2> QED  BY <2>2, <2>3, EntryFields
<1> QED  BY <1>2, <1>3

LEMMA RunBoundaries ==
  ASSUME NEW l, NEW h, IsLog(l, h), NEW r, IsEnd(r, l)
  PROVE  /\ \A c \in BoundariesOf(r, h) :
              c \in Cursor /\ c.rseq \in Len(l) - Len(r)..Len(l) /\ c = BoundaryIn(l, h, c.rseq)
         /\ \A n \in Len(l) - Len(r)..Len(l) : BoundaryIn(l, h, n) \in BoundariesOf(r, h)
<1>1. /\ l \in Seq(Entry) /\ r \in Seq(Entry) /\ Len(l) \in Nat /\ Len(r) \in Nat
      /\ Len(r) <= Len(l) /\ h \in Cursor /\ h.rseq = Len(l)
  BY DEF IsLog, IsEnd
<1>2. ASSUME NEW c \in BoundariesOf(r, h)
      PROVE  c \in Cursor /\ c.rseq \in Len(l) - Len(r)..Len(l) /\ c = BoundaryIn(l, h, c.rseq)
  <2>1. CASE c = h
    BY <1>1, <2>1 DEF BoundaryIn
  <2>2. CASE c # h
    <3>1. PICK i \in 1..Len(r) : c = Before(r[i])
      BY <2>2 DEF BoundariesOf
    <3> DEFINE n == Len(l) - Len(r) + i - 1
    <3>2. n \in Len(l) - Len(r)..Len(l) /\ n \in 0..Len(l) /\ n # Len(l)
          /\ n + 1 = Len(l) - Len(r) + i
      BY <1>1
    <3>3. r[i] = l[n + 1]
      BY <3>2 DEF IsEnd
    <3> HIDE DEF n
    <3>4. c = BoundaryIn(l, h, n)
      BY <3>1, <3>2, <3>3 DEF BoundaryIn
    <3> QED  BY <3>2, <3>4, BoundaryType
  <2> QED  BY <2>1, <2>2
<1>3. ASSUME NEW n \in Len(l) - Len(r)..Len(l)
      PROVE  BoundaryIn(l, h, n) \in BoundariesOf(r, h)
  <2>1. CASE n = Len(l)
    BY <2>1 DEF BoundaryIn, BoundariesOf
  <2>2. CASE n # Len(l)
    <3> DEFINE i == n - (Len(l) - Len(r)) + 1
    <3>1. i \in 1..Len(r) /\ Len(l) - Len(r) + i = n + 1
      BY <1>1, <2>2
    <3>2. r[i] = l[n + 1]
      BY <3>1 DEF IsEnd
    <3> HIDE DEF i
    <3> QED  BY <2>2, <3>1, <3>2 DEF BoundaryIn, BoundariesOf
  <2> QED  BY <2>1, <2>2
<1> QED  BY <1>2, <1>3

LEMMA SuffixDrops ==
  ASSUME NEW s, NEW c, NEW k \in 0..Len(s), Len(s) \in Nat, Leads(s, c, k)
  PROVE  Suffix(s, c) = DropFirst(s, k)
<1>1. ASSUME NEW j \in 0..Len(s), Leads(s, c, j) PROVE j = k
  <2>1. CASE j < k
    <3>1. j + 1 \in 1..k /\ j < Len(s)
      BY <2>1
    <3> QED  BY <3>1, <1>1 DEF Leads
  <2>2. CASE k < j
    <3>1. k + 1 \in 1..j /\ k < Len(s)
      BY <2>2
    <3> QED  BY <3>1, <1>1 DEF Leads
  <2> QED  BY <2>1, <2>2
<1>2. (CHOOSE j \in 0..Len(s) : Leads(s, c, j)) = k
  BY <1>1, Zenon
<1> QED  BY <1>2 DEF Suffix

(* From a boundary on, the run holds the log.                              *)
LEMMA SuffixIs ==
  ASSUME NEW l, NEW h, IsLog(l, h), NEW r, IsEnd(r, l), NEW c \in BoundariesOf(r, h)
  PROVE  /\ Suffix(r, c) \in Seq(Entry) /\ Len(Suffix(r, c)) = Len(l) - c.rseq
         /\ \A i \in 1..Len(l) - c.rseq : Suffix(r, c)[i] = l[c.rseq + i]
<1>1. /\ l \in Seq(Entry) /\ r \in Seq(Entry) /\ Len(l) \in Nat /\ Len(r) \in Nat
      /\ Len(r) <= Len(l)
  BY DEF IsLog, IsEnd
<1>2. c \in Cursor /\ c.rseq \in Len(l) - Len(r)..Len(l)
  BY RunBoundaries
<1> DEFINE k == c.rseq - (Len(l) - Len(r))
<1>3. k \in 0..Len(r) /\ Len(r) - k = Len(l) - c.rseq
  BY <1>1, <1>2
<1>4. ASSUME NEW i \in 1..Len(r)
      PROVE  /\ r[i] = l[Len(l) - Len(r) + i] /\ r[i].rseq = Len(l) - Len(r) + i - 1
             /\ Includes(c, r[i]) <=> i <= k
  <2>1. Len(l) - Len(r) + i \in 1..Len(l)
    BY <1>1
  <2>2. r[i] = l[Len(l) - Len(r) + i]
    BY DEF IsEnd
  <2>3. \A n \in 1..Len(l) : l[n].rseq = n - 1
    BY DEF IsLog
  <2>4. r[i].rseq = Len(l) - Len(r) + i - 1
    BY <2>1, <2>2, <2>3
  <2> QED  BY <1>1, <1>2, <2>2, <2>4 DEF Includes
<1>5. Leads(r, c, k)
  <2>1. \A i \in 1..k : i \in 1..Len(r) /\ i <= k
    BY <1>1, <1>3
  <2>2. k < Len(r) => k + 1 \in 1..Len(r) /\ ~(k + 1 <= k)
    BY <1>1, <1>3
  <2> HIDE DEF k
  <2> QED  BY <2>1, <2>2, <1>4 DEF Leads
<1>6. Suffix(r, c) = DropFirst(r, k)
  BY <1>1, <1>3, <1>5, SuffixDrops
<1> HIDE DEF k
<1>7. DropFirst(r, k) \in Seq(Entry) /\ Len(DropFirst(r, k)) = Len(r) - k
      /\ \A i \in 1..Len(r) - k : DropFirst(r, k)[i] = r[k + i]
  BY <1>1, <1>3 DEF DropFirst
<1>8. ASSUME NEW i \in 1..Len(r) - k PROVE r[k + i] = l[c.rseq + i]
  <2>1. k + i \in 1..Len(r) /\ Len(l) - Len(r) + (k + i) = c.rseq + i
    BY <1>1, <1>2, <1>3 DEF k
  <2> QED  BY <2>1, <1>4
<1> QED  BY <1>3, <1>6, <1>7, <1>8

-----------------------------------------------------------------------------
(* The size at a boundary.                                                 *)

LEMMA LeastExists ==
  ASSUME NEW T \in SUBSET Nat, T # {}
  PROVE  \E m \in T : \A k \in T : m <= k
<1>1. PICK m \in T : \A k \in T : <<k, m>> \notin OpToRel(<, Nat)
  BY NatLessThanWellFounded, WFMin
<1>2. ASSUME NEW k \in T PROVE m <= k
  <2>1. k \in Nat /\ m \in Nat
    OBVIOUS
  <2>2. k < m => <<k, m>> \in OpToRel(<, Nat)
    BY <2>1 DEF OpToRel
  <2>3. ~(k < m)
    BY <1>1, <2>2
  <2> QED  BY <2>1, <2>3
<1> QED  BY <1>2

LEMMA LargestIs ==
  ASSUME NEW n \in Nat, NEW T \in SUBSET (0..n), T # {}
  PROVE  Largest(T) \in T /\ \A k \in T : k <= Largest(T)
<1> DEFINE U == {k \in Nat : n - k \in T}
<1>1. U \in SUBSET Nat /\ U # {}
  <2>1. PICK t \in T : TRUE
    OBVIOUS
  <2>2. n - t \in U
    BY <2>1
  <2> QED  BY <2>2
<1>2. PICK u \in U : \A k \in U : u <= k
  BY <1>1, LeastExists
<1>3. n - u \in T
  OBVIOUS
<1>4. ASSUME NEW k \in T PROVE k <= n - u
  <2>1. n - k \in U
    OBVIOUS
  <2> QED  BY <1>2, <2>1
<1>5. \E m \in T : \A k \in T : k <= m
  BY <1>3, <1>4
<1> QED  BY <1>5, Zenon DEF Largest

LEMMA MarksIs ==
  ASSUME sent \in Nat, NEW e \in Entry
  PROVE  /\ Marks(e) \in {sent, e.rseq + 1} /\ sent <= Marks(e) /\ e.rseq < Marks(e)
<1>1. e.rseq \in Nat
  BY EntryFields
<1>2. \E n \in Nat : {sent, e.rseq + 1} \in SUBSET (0..n)
  <2>1. {sent, e.rseq + 1} \in SUBSET (0..(sent + (e.rseq + 1)))
    BY <1>1
  <2> QED  BY <1>1, <2>1
<1>3. Marks(e) \in {sent, e.rseq + 1} /\ \A k \in {sent, e.rseq + 1} : k <= Marks(e)
  BY <1>2, LargestIs DEF Marks
<1> QED  BY <1>1, <1>3

LEMMA SizeIs ==
  ASSUME NEW n \in Nat
  PROVE  /\ SizeAt(n) \in 0..n
         /\ SizeAt(n) # 0 => log[SizeAt(n)].kind = "resize"
         /\ \A i \in 1..n : log[i].kind = "resize" => i <= SizeAt(n)
<1> DEFINE T == {0} \cup {i \in 1..n : log[i].kind = "resize"}
<1>1. T \in SUBSET (0..n) /\ T # {}
  OBVIOUS
<1>2. Largest(T) \in T /\ \A k \in T : k <= Largest(T)
  BY <1>1, LargestIs
<1> QED  BY <1>2 DEF SizeAt

LEMMA SizeOnly ==
  ASSUME NEW n \in Nat, NEW m \in 0..n, m # 0 => log[m].kind = "resize",
         \A i \in 1..n : log[i].kind = "resize" => i <= m
  PROVE  SizeAt(n) = m
<1>1. SizeAt(n) <= m /\ m <= SizeAt(n)
  <2>1. CASE SizeAt(n) = 0
    BY <2>1, SizeIs
  <2>2. CASE SizeAt(n) # 0
    BY <2>2, SizeIs
  <2> QED  BY <2>1, <2>2
<1> QED  BY <1>1, SizeIs

LEMMA SizeNext ==
  ASSUME NEW n \in Nat
  PROVE  SizeAt(n + 1) = IF log[n + 1].kind = "resize" THEN n + 1 ELSE SizeAt(n)
<1>1. CASE log[n + 1].kind = "resize"
  BY <1>1, SizeOnly
<1>2. CASE log[n + 1].kind # "resize"
  <2>1. \A i \in 1..n + 1 : log[i].kind = "resize" => i <= SizeAt(n)
    <3> SUFFICES ASSUME NEW i \in 1..n + 1, log[i].kind = "resize" PROVE i <= SizeAt(n)
      OBVIOUS
    <3>1. i \in 1..n
      BY <1>2
    <3> QED  BY <3>1, SizeIs
  <2>2. SizeAt(n) \in 0..n + 1 /\ (SizeAt(n) # 0 => log[SizeAt(n)].kind = "resize")
    BY SizeIs
  <2>3. n + 1 \in Nat
    OBVIOUS
  <2> QED  BY <1>2, <2>1, <2>2, <2>3, SizeOnly
<1> QED  BY <1>1, <1>2

LEMMA SizeStays ==
  ASSUME Grows, NEW n \in 0..Len(log), Len(log) \in Nat
  PROVE  SizeAt(n)' = SizeAt(n)
<1>1. {i \in 1..n : log'[i].kind = "resize"} = {i \in 1..n : log[i].kind = "resize"}
  BY DEF Grows
<1> QED  BY <1>1 DEF SizeAt

-----------------------------------------------------------------------------
(* The invariant.                                                          *)

Term == [size : Nat, exact : BOOLEAN, right : BOOLEAN, blind : BOOLEAN]

Saved == [resume : Cursor, blob : Term]

(* What the connection's attach will have sent up to, once it is through,  *)
(* and every cursor vornd holds is behind.                                 *)
Reach(n) == next # None => n <= next.rseq + Len(sending)

(* Every record of output before boundary n was notified of.               *)
Done(n) == \A r \in 0..n - 1 : log[r + 1].kind = "data" => r \in notified

(* A terminal at boundary n that calls itself exact is.                    *)
Sound(t, n) == t.exact /\ ~t.blind => t.right /\ t.size = SizeAt(n)

Held(c) == IsBoundary(c) /\ Done(c.rseq) /\ Reach(c.rseq)

Usable(cp) == cp \in Saved /\ Held(cp.resume) /\ cp.blob.size <= Len(log)

Restorable(cp) == Usable(cp) /\ Sound(cp.blob, cp.resume.rseq)

(* What was dropped was notified of, and is behind what is sent.           *)
RunFine == IsEnd(run, log) /\ Done(Base) /\ Reach(Base)

StoredFine ==
  /\ Held(retain_from)
  /\ \A cp \in {newest, fallback} \ {None} : Restorable(cp)

LinkFine ==
  /\ sent \in 0..Len(log) /\ next \in Cursor \cup {None} /\ sending \in Seq(Entry)
  /\ next = None => sending = <<>>
  /\ next # None =>
       /\ IsBoundary(next) /\ next.rseq + Len(sending) <= Len(log)
       /\ \A i \in 1..Len(sending) : sending[i] = log[next.rseq + i]

CheckpointMsgs == [is : {"checkpoint"}, cp : Saved]

ToVornd == [is : {"entry"}, e : Entry] \cup CheckpointMsgs \cup [is : {"refused"}]

Attaches ==
  [is : {"attach"}, at : {"newest", "fallback", "start"}]
    \cup [is : {"attach"}, at : {"cursor"}, cursor : Cursor]

ToSessiond == Attaches \cup CheckpointMsgs

ToHost == ToSessiond \cup [is : {"effects"}, rseq : Nat, bell : BOOLEAN]
                     \cup [is : {"reply"}, rseq : Nat]

FineToVornd(m) ==
  /\ m.is = "entry" => Logged(m.e) /\ m.e.rseq < sent /\ Reach(m.e.rseq + 1)
  /\ m.is = "checkpoint" => Restorable(m.cp)

Among(s) == {s[i] : i \in 1..Len(s)}

WireFine ==
  /\ toV \in Seq(ToVornd) /\ Len(toV) <= Lane
  /\ toS \in Seq(ToSessiond)
  /\ \A m \in Among(toV) : FineToVornd(m)
  /\ \A m \in Among(toS) : m.is = "checkpoint" => Restorable(m.cp)

Opened == [head : Nat, newest : Cursor \cup {None}, sent : Nat, size : Nat,
           size_known : BOOLEAN, oldest : Cursor]

OpenFine ==
  /\ open \in Opened
  /\ open.head <= Len(log) /\ open.sent <= sent /\ Held(open.oldest)
  /\ open.size <= open.head /\ (open.size # 0 => log[open.size].kind = "resize")
  /\ open.size_known => open.size = 0

Actor ==
  [phase : {"down", "attaching", "running", "lost"}, step : {"none", "newest", "fallback"},
   steps : Seq({"newest", "fallback", "start"}), best : Saved \cup {None},
   base : {"none", "newest", "fallback", "start", "best", "oldest"}, cursor : Cursor,
   started : BOOLEAN, live : BOOLEAN, size_known : BOOLEAN, floor : Cursor \cup {None},
   since : BOOLEAN, term : Term]

(* Whether notifying of record r is among the first n things asked of the  *)
(* host, and whether all output before c was notified of, or is to be.     *)
Promised(r, n) == \E j \in 1..n : outs[j].is = "effects" /\ outs[j].rseq = r

Covers(c, n) ==
  \A r \in 0..c - 1 : log[r + 1].kind = "data" => r \in notified \/ Promised(r, n)

(* What a's terminal shows: until the spawn size is known, no resize was   *)
(* met, and if the session was ever resized that is still to come.         *)
ViewFine(a, o) ==
  IF a.size_known THEN Sound(a.term, a.cursor.rseq)
  ELSE /\ \A n \in 1..a.cursor.rseq : log[n].kind # "resize"
       /\ a.term.size = o.size
       /\ a.term.exact /\ ~a.term.blind /\ o.size = 0 => a.term.right

RunningFine(a, o) ==
  /\ IsBoundary(a.cursor) /\ Reach(a.cursor.rseq)
  /\ a.live => o.head <= a.cursor.rseq
  /\ ViewFine(a, o)

ActorTyped(a) ==
  /\ a \in Actor
  /\ a.best # None => Usable(a.best)
  /\ a.term.size <= Len(log)
  /\ a.phase = "attaching" => a.step # "none"

ActorFine ==
  /\ ActorTyped(v)
  /\ v.phase = "running" => RunningFine(v, open) /\ Covers(v.cursor.rseq, Len(outs))

(* Record r is one this vornd's actor will not apply again.                *)
Past(r) == v.phase = "down" \/ (v.phase = "running" /\ v.started /\ r < v.cursor.rseq)

FineCut(cp) ==
  /\ IsBoundary(cp.resume) /\ Reach(cp.resume.rseq) /\ cp.blob.size <= Len(log)
  /\ Sound(cp.blob, cp.resume.rseq)

FineEffects(m) ==
  /\ m.rseq < sent /\ Past(m.rseq)
  /\ m.bell => open.sent <= m.rseq /\ rang[m.rseq] = 0

FineReply(m) ==
  m.rseq < Len(log) /\ Past(m.rseq) /\ open.head <= m.rseq /\ replied[m.rseq] = 0

FineOut(i, m) ==
  /\ m.is = "checkpoint" => FineCut(m.cp) /\ Covers(m.cp.resume.rseq, i - 1)
  /\ m.is = "effects" => FineEffects(m)
  /\ m.is = "reply" => FineReply(m)

OutsFine ==
  /\ outs \in Seq(ToHost)
  /\ \A i \in 1..Len(outs), m \in ToHost : m = outs[i] => FineOut(i, m)
  /\ \A i, j \in 1..Len(outs) :
       outs[i].is \in {"effects", "reply"} /\ outs[j].is = outs[i].is /\ outs[j].rseq = outs[i].rseq
         => i = j

EffectsFine ==
  /\ rang \in [0..MaxRecords - 1 -> {0, 1}] /\ replied \in [0..MaxRecords - 1 -> {0, 1}]
  /\ \A r \in 0..MaxRecords - 1 :
       /\ rang[r] = 1 => r < sent /\ (r < open.sent \/ Past(r))
       /\ replied[r] = 1 => r < Len(log) /\ (r < open.head \/ Past(r))

(* At most one attach is on its way, or its answer is.                     *)
Asked(s) == {i \in 1..Len(s) : s[i].is = "attach"}

Answered == {i \in 1..Len(toV) : toV[i].is # "entry"}

One(S) == \A i, j \in S : i = j

OnePending ==
  /\ One(Asked(outs)) /\ One(Asked(toS)) /\ One(Answered)
  /\ Asked(outs) # {} => Asked(toS) = {} /\ Answered = {}
  /\ Asked(toS) # {} => Answered = {}

(* It is the one the actor waits for, or one behind its cursor.            *)
Suits(m, a) ==
  m.is = "attach" =>
    /\ a.phase = "attaching" => m.at \in {"newest", "fallback"}
    /\ a.phase = "running" => /\ m.at \in {"start", "cursor"}
                              /\ m.at = "cursor" => m.cursor.rseq <= a.cursor.rseq

WantedFine ==
  /\ \A i \in 1..Len(outs) : Suits(outs[i], v)
  /\ \A i \in 1..Len(toS) : Suits(toS[i], v)
  /\ v.phase = "running" => \A i \in 1..Len(toV) : toV[i].is # "checkpoint"

(* The record that comes in place i, in what is on its way to vornd and,   *)
(* after that, what the connection sends next.                             *)
Comes(i, x) ==
  \/ i \in 1..Len(toV) /\ toV[i].is = "entry" /\ x = toV[i].e.rseq
  \/ i = Len(toV) + 1 /\ next # None /\ x = next.rseq

(* Record x may come after m, to an actor a.                               *)
MayFollow(m, x, a) ==
  /\ m.is = "entry" => x = m.e.rseq + 1 \/ (a.phase = "running" /\ x <= a.cursor.rseq)
  /\ m.is = "checkpoint" => x = m.cp.resume.rseq
  /\ m.is # "refused"

Steady ==
  v.phase \in {"attaching", "running"} =>
    \A i \in 1..Len(toV), x \in Nat : Comes(i + 1, x) => MayFollow(toV[i], x, v)

First ==
  v.phase = "running" /\ v.started => \A x \in Nat : Comes(1, x) => x <= v.cursor.rseq

NoVornd ==
  /\ v = Nobody /\ toV = <<>> /\ toS = <<>> /\ outs = <<>> /\ sent = 0 /\ next = None
  /\ \A r \in 0..MaxRecords - 1 : rang[r] = 0 /\ replied[r] = 0

RecoveryInv ==
  /\ LogFine /\ RunFine /\ StoredFine /\ LinkFine /\ WireFine
  /\ ActorFine /\ OutsFine /\ EffectsFine
  /\ OnePending /\ WantedFine /\ Steady /\ First
  /\ opens \in 0..MaxOpens
  /\ IF opens = 0 THEN NoVornd ELSE OpenFine
  /\ ~missed /\ stranded \in BOOLEAN

-----------------------------------------------------------------------------
(* What the log's growth leaves true.                                      *)

LEMMA LogTypes ==
  ASSUME LogFine
  PROVE  log \in Seq(Entry) /\ Len(log) \in Nat /\ head \in Cursor /\ head.rseq = Len(log)
         /\ IsLog(log, head) /\ head.rseq \in Nat
BY EntryFields DEF LogFine, IsLog

Reaches == \A n \in 0..Len(log) : Reach(n) => Reach(n)'

LEMMA CursorStays ==
  ASSUME LogFine, Grows, NEW c, IsBoundary(c)
  PROVE  IsBoundary(c)'
<1>1. c \in Cursor /\ c.rseq \in 0..Len(log) /\ Len(log) <= Len(log')
  BY LogTypes, EntryFields DEF IsBoundary, Grows
<1>2. Len(log') \in Nat /\ Len(log) \in Nat
  BY LogTypes DEF Grows, IsLog
<1>3. BoundaryIn(log', head', c.rseq) = BoundaryIn(log, head, c.rseq)
  BY <1>1 DEF Grows
<1> QED  BY <1>1, <1>2, <1>3 DEF IsBoundary

LEMMA DoneStays ==
  ASSUME LogFine, Grows, notified \subseteq notified', NEW n \in 0..Len(log), Done(n)
  PROVE  Done(n)'
BY LogTypes DEF Done, Grows

LEMMA SoundStays ==
  ASSUME LogFine, Grows, NEW n \in 0..Len(log), NEW t, Sound(t, n)
  PROVE  Sound(t, n)'
BY LogTypes, SizeStays DEF Sound

LEMMA LoggedStays ==
  ASSUME LogFine, Grows, NEW e, Logged(e)
  PROVE  Logged(e)'
<1>1. e.rseq + 1 \in 1..Len(log) /\ Len(log) <= Len(log') /\ Len(log') \in Nat
  BY LogTypes, EntryFields DEF Logged, Grows, IsLog
<1> QED  BY <1>1, LogTypes, EntryFields DEF Logged, Grows

LEMMA HeldStays ==
  ASSUME LogFine, Grows, Reaches, notified \subseteq notified', NEW c, Held(c)
  PROVE  Held(c)'
<1>1. c.rseq \in 0..Len(log)
  BY LogTypes, EntryFields DEF Held, IsBoundary
<1> QED  BY <1>1, CursorStays, DoneStays DEF Held, Reaches

LEMMA UsableStays ==
  ASSUME LogFine, Grows, Reaches, notified \subseteq notified', NEW cp, Usable(cp)
  PROVE  Usable(cp)'
<1>1. cp.blob.size \in Nat /\ Len(log) \in Nat /\ Len(log') \in Nat /\ Len(log) <= Len(log')
  BY LogTypes DEF Usable, Saved, Term, Grows, IsLog
<1> QED  BY <1>1, HeldStays DEF Usable

LEMMA RestorableStays ==
  ASSUME LogFine, Grows, Reaches, notified \subseteq notified', NEW cp, Restorable(cp)
  PROVE  Restorable(cp)'
<1>1. cp.resume.rseq \in 0..Len(log)
  BY LogTypes, EntryFields DEF Restorable, Usable, Held, IsBoundary
<1> QED  BY <1>1, UsableStays, SoundStays DEF Restorable

LEMMA TypedStays ==
  ASSUME LogFine, Grows, Reaches, notified \subseteq notified', NEW a, ActorTyped(a)
  PROVE  ActorTyped(a)'
<1>1. a.term.size \in Nat /\ Len(log) \in Nat /\ Len(log') \in Nat /\ Len(log) <= Len(log')
  BY LogTypes DEF ActorTyped, Actor, Term, Grows, IsLog
<1>2. a.best # None => Usable(a.best)'
  BY UsableStays DEF ActorTyped
<1> QED  BY <1>1, <1>2 DEF ActorTyped

LEMMA ViewStays ==
  ASSUME LogFine, Grows, NEW a, NEW o, a.cursor.rseq \in 0..Len(log), ViewFine(a, o)
  PROVE  ViewFine(a, o)'
<1>1. CASE a.size_known
  BY <1>1, SoundStays DEF ViewFine
<1>2. CASE ~a.size_known
  <2>1. \A n \in 1..a.cursor.rseq : log'[n] = log[n]
    BY LogTypes DEF Grows
  <2> QED  BY <1>2, <2>1 DEF ViewFine
<1> QED  BY <1>1, <1>2

LEMMA BoundaryRange ==
  ASSUME LogFine, NEW c, IsBoundary(c)
  PROVE  c \in Cursor /\ c.rseq \in Nat /\ c.rseq \in 0..Len(log) /\ c.rseq <= Len(log)
BY LogTypes, EntryFields DEF IsBoundary

LEMMA RunningStays ==
  ASSUME LogFine, Grows, Reaches, NEW a, NEW o, RunningFine(a, o)
  PROVE  RunningFine(a, o)'
<1>1. a.cursor.rseq \in 0..Len(log)
  BY BoundaryRange DEF RunningFine
<1>2. Reach(a.cursor.rseq)'
  BY <1>1 DEF RunningFine, Reaches
<1> QED  BY <1>1, <1>2, CursorStays, ViewStays DEF RunningFine

LEMMA CoversStays ==
  ASSUME LogFine, Grows, NEW c, c \in 0..Len(log), NEW n, Covers(c, n),
         notified \subseteq notified', outs' = outs
  PROVE  Covers(c, n)'
BY LogTypes DEF Grows, Covers, Promised

LEMMA CutStays ==
  ASSUME LogFine, Grows, Reaches, NEW cp \in Saved, FineCut(cp)
  PROVE  FineCut(cp)'
<1>1. cp.resume.rseq \in 0..Len(log)
  BY BoundaryRange DEF FineCut
<1>2. cp.blob.size \in Nat /\ Len(log) \in Nat /\ Len(log') \in Nat /\ Len(log) <= Len(log')
  BY LogTypes DEF Saved, Term, Grows, IsLog
<1> QED  BY <1>1, <1>2, CursorStays, SoundStays DEF FineCut, Reaches

LEMMA OpenStays ==
  ASSUME LogFine, LinkFine, Grows, Reaches, notified \subseteq notified', OpenFine, open' = open,
         sent <= sent', sent' \in Nat
  PROVE  OpenFine'
<1>1. /\ open.head \in Nat /\ open.sent \in Nat /\ open.size \in Nat /\ sent \in Nat
      /\ Len(log) \in Nat /\ Len(log') \in Nat /\ Len(log) <= Len(log')
  BY LogTypes DEF OpenFine, Opened, LinkFine, Grows, IsLog
<1>2. Held(open.oldest)'
  BY HeldStays DEF OpenFine
<1>3. open.size # 0 => log'[open.size] = log[open.size]
  <2>1. open.size # 0 => open.size \in 1..Len(log)
    BY <1>1 DEF OpenFine
  <2> QED  BY <2>1 DEF Grows
<1>4. open.head <= Len(log') /\ open.sent <= sent'
  BY <1>1 DEF OpenFine
<1> QED  BY <1>2, <1>3, <1>4 DEF OpenFine

(* A step of sessiond's, or of the log's, leaves vornd what it was.        *)
LEMMA FarSide ==
  ASSUME RecoveryInv, Grows, Reaches, sent <= sent', sent' \in Nat, UNCHANGED <<vorndVars, effectVars>>
  PROVE  ActorFine' /\ OutsFine' /\ EffectsFine' /\ (opens # 0 => OpenFine')
<1>1. /\ LogFine /\ LinkFine /\ Len(log) \in Nat /\ Len(log') \in Nat /\ Len(log) <= Len(log')
      /\ sent \in Nat
  BY LogTypes DEF RecoveryInv, Grows, IsLog, LinkFine
<1>2. /\ v' = v /\ open' = open /\ outs' = outs /\ opens' = opens /\ rang' = rang
      /\ replied' = replied /\ notified' = notified
  BY DEF vorndVars, effectVars
<1>3. \A r : Past(r)' <=> Past(r)
  BY <1>2 DEF Past
<1>4. ActorFine'
  <2>1. ActorTyped(v)'
    <3>1. ASSUME NEW a, ActorTyped(a) PROVE ActorTyped(a)'
      BY <1>1, <1>2, <3>1, TypedStays
    <3> QED  BY <1>2, <3>1 DEF RecoveryInv, ActorFine, ActorTyped
  <2>2. ASSUME v.phase = "running"
        PROVE  RunningFine(v, open)' /\ Covers(v.cursor.rseq, Len(outs))'
    <3>1. v.cursor.rseq \in 0..Len(log)
      BY <1>1, <2>2, BoundaryRange DEF RecoveryInv, ActorFine, RunningFine
    <3> QED  BY <1>1, <1>2, <2>2, <3>1, RunningStays, CoversStays DEF RecoveryInv, ActorFine
  <2> QED  BY <1>2, <2>1, <2>2 DEF ActorFine
<1>5. OutsFine'
  <2>1. ASSUME NEW i \in 1..Len(outs), NEW m \in ToHost, FineOut(i, m) PROVE FineOut(i, m)'
    <3>1. ASSUME m.is = "checkpoint" PROVE FineCut(m.cp)' /\ Covers(m.cp.resume.rseq, i - 1)'
      <4>1. m.cp \in Saved /\ FineCut(m.cp) /\ Covers(m.cp.resume.rseq, i - 1)
        BY <2>1, <3>1 DEF FineOut, ToHost, ToSessiond, Attaches, CheckpointMsgs
      <4>2. m.cp.resume.rseq \in 0..Len(log)
        BY <1>1, <4>1, BoundaryRange DEF FineCut
      <4> QED  BY <1>1, <1>2, <4>1, <4>2, CutStays, CoversStays
    <3>2. m.is \in {"effects", "reply"} => m.rseq \in Nat
      BY DEF ToHost, ToSessiond, Attaches, CheckpointMsgs
    <3>3. m.is = "effects" => FineEffects(m)'
      BY <1>1, <1>2, <1>3, <2>1, <3>2 DEF FineOut, FineEffects
    <3>4. m.is = "reply" => FineReply(m)'
      BY <1>1, <1>2, <1>3, <2>1, <3>2 DEF FineOut, FineReply
    <3> QED  BY <3>1, <3>3, <3>4 DEF FineOut
  <2> QED  BY <1>2, <2>1 DEF RecoveryInv, OutsFine
<1>6. EffectsFine'
  BY <1>1, <1>2, <1>3 DEF RecoveryInv, EffectsFine
<1>7. opens # 0 => OpenFine'
  BY <1>1, <1>2, OpenStays DEF RecoveryInv
<1> QED  BY <1>4, <1>5, <1>6, <1>7

(* What is kept is kept for the cursor it was, or for the newest's.         *)
Retains == retain_from' = retain_from \/ (newest # None /\ retain_from' = newest.resume)

LEMMA StoredStays ==
  ASSUME LogFine, StoredFine, Grows, Reaches, notified \subseteq notified', newest' = newest,
         fallback' \in {fallback, None}, Retains
  PROVE  StoredFine'
<1>1. PICK c : Held(c) /\ retain_from' = c
  BY DEF Retains, StoredFine, Restorable, Usable
<1>2. Held(c)'
  BY <1>1, HeldStays
<1>3. Held(retain_from)'
  BY <1>1, <1>2 DEF Held, IsBoundary, Done, Reach
<1> QED  BY <1>3, RestorableStays DEF StoredFine

LEMMA LinkStays ==
  ASSUME LogFine, LinkFine, Grows, UNCHANGED linkVars
  PROVE  LinkFine'
<1>1. /\ sent' = sent /\ sending' = sending /\ next' = next
      /\ Len(log) \in Nat /\ Len(log') \in Nat /\ Len(log) <= Len(log')
  BY LogTypes DEF linkVars, Grows, IsLog
<1>2. sent' \in 0..Len(log')
  BY <1>1 DEF LinkFine
<1>3. ASSUME next # None
      PROVE  /\ IsBoundary(next)' /\ next.rseq + Len(sending) <= Len(log')
             /\ \A i \in 1..Len(sending) : sending[i] = log'[next.rseq + i]
  <2>1. IsBoundary(next) /\ next.rseq \in Nat /\ Len(sending) \in Nat
        /\ next.rseq + Len(sending) <= Len(log)
    BY <1>3, BoundaryRange DEF LinkFine
  <2>2. ASSUME NEW c, IsBoundary(c) PROVE IsBoundary(c)'
    BY <2>2, CursorStays
  <2>3. IsBoundary(next)'
    BY <2>1, <2>2, <1>1 DEF IsBoundary
  <2>4. ASSUME NEW i \in 1..Len(sending) PROVE sending[i] = log'[next.rseq + i]
    <3>1. next.rseq + i \in 1..Len(log)
      BY <1>1, <2>1
    <3> QED  BY <1>3, <3>1 DEF LinkFine, Grows
  <2> QED  BY <1>1, <2>1, <2>3, <2>4
<1> QED  BY <1>1, <1>2, <1>3 DEF LinkFine

LEMMA MessageStays ==
  ASSUME LogFine, Grows, Reaches, notified \subseteq notified', sent \in Nat, sent' \in Nat,
         sent <= sent', NEW m \in ToVornd, FineToVornd(m)
  PROVE  FineToVornd(m)'
<1>1. ASSUME m.is = "entry" PROVE Logged(m.e)' /\ m.e.rseq < sent' /\ Reach(m.e.rseq + 1)'
  <2>1. Logged(m.e) /\ m.e.rseq < sent /\ Reach(m.e.rseq + 1) /\ m.e.rseq \in Nat
        /\ m.e.rseq + 1 \in 0..Len(log)
    BY <1>1, EntryFields, LogTypes DEF FineToVornd, Logged
  <2> QED  BY <2>1, LoggedStays DEF Reaches
<1>2. ASSUME m.is = "checkpoint" PROVE Restorable(m.cp)'
  BY <1>2, RestorableStays DEF FineToVornd
<1> QED  BY <1>1, <1>2 DEF FineToVornd

LEMMA WireStays ==
  ASSUME LogFine, WireFine, Grows, Reaches, notified \subseteq notified', sent \in Nat, sent' \in Nat,
         sent <= sent', toV' = toV, toS' = toS
  PROVE  WireFine'
<1>1. Among(toV) \subseteq ToVornd /\ Among(toV)' = Among(toV) /\ Among(toS)' = Among(toS)
  BY DEF WireFine, Among
<1>2. \A m \in Among(toV) : FineToVornd(m)'
  BY <1>1, MessageStays DEF WireFine
<1>3. \A m \in Among(toS) : m.is = "checkpoint" => Restorable(m.cp)'
  BY RestorableStays DEF WireFine
<1> QED  BY <1>1, <1>2, <1>3 DEF WireFine

LEMMA SameWire ==
  ASSUME RecoveryInv, UNCHANGED <<toV, toS, outs, next>>, v' = v
  PROVE  OnePending' /\ WantedFine' /\ Steady' /\ First'
<1>1. \A i, x : Comes(i, x)' <=> Comes(i, x)
  BY DEF Comes
<1> QED  BY <1>1 DEF RecoveryInv, OnePending, Asked, Answered, WantedFine, Steady, First

LEMMA SameReach ==
  ASSUME UNCHANGED <<next, sending>>
  PROVE  Reaches
BY DEF Reaches, Reach

-----------------------------------------------------------------------------
(* What the log drops, and its appends.                                    *)

(* A trim at c leaves what c does not include.                             *)
LEMMA KeptIs ==
  ASSUME LogFine, IsEnd(run, log), NEW c \in Cursor, NEW r \in Kept(c)
  PROVE  IsEnd(r, log) /\ (Len(log) - Len(r) = Base \/ Len(log) - Len(r) <= c.rseq)
<1>1. PICK k \in 0..Len(run) : r = DropFirst(run, k) /\ \A i \in 1..k : Includes(c, run[i])
  BY DEF Kept
<1>2. log \in Seq(Entry) /\ run \in Seq(Entry) /\ c.rseq \in Nat /\ Len(run) <= Len(log)
  BY EntryFields DEF LogFine, IsLog, IsEnd
<1>3. IsEnd(r, log) /\ Len(r) = Len(run) - k
  BY <1>1, <1>2, DroppedEnd
<1>4. CASE k = 0
  BY <1>2, <1>3, <1>4 DEF Base
<1>5. CASE k # 0
  <2>0. k \in 1..Len(run) /\ Base + k \in 1..Len(log)
    BY <1>2, <1>5 DEF Base
  <2>1. k \in 1..Len(run) /\ run[k] = log[Base + k] /\ Base + k \in 1..Len(log)
    BY <2>0 DEF IsEnd, Base
  <2>2. run[k].rseq = Base + k - 1
    <3>1. \A n \in 1..Len(log) : log[n].rseq = n - 1
      BY DEF LogFine, IsLog
    <3>2. Base \in Int
      BY <1>2 DEF Base
    <3> QED  BY <3>1, <3>2, <2>1
  <2>3. run[k].rseq < c.rseq
    BY <1>1, <2>1 DEF Includes
  <2> QED  BY <1>2, <1>3, <2>1, <2>2, <2>3 DEF Base
<1> QED  BY <1>4, <1>5

(* What may be dropped: no more than a cursor that is held includes.       *)
Droppable(n) == n \in 0..Len(log) /\ Done(n) /\ Reach(n)

LEMMA LessDroppable ==
  ASSUME LogFine, LinkFine, NEW c, Held(c), NEW n \in 0..c.rseq
  PROVE  Droppable(n)
<1>1. c.rseq \in 0..Len(log) /\ Len(log) \in Nat
  BY BoundaryRange, LogTypes DEF Held
<1>2. next # None => next.rseq + Len(sending) \in Int
  BY BoundaryRange DEF LinkFine
<1> QED  BY <1>1, <1>2 DEF Droppable, Held, Done, Reach

LEMMA TrimFine ==
  ASSUME LogFine, RunFine, LinkFine, NEW c, Held(c), NEW r \in Kept(c)
  PROVE  IsEnd(r, log) /\ Droppable(Len(log) - Len(r))
<1>1. /\ c \in Cursor /\ c.rseq \in Nat /\ log \in Seq(Entry) /\ run \in Seq(Entry)
      /\ Len(run) <= Len(log) /\ IsEnd(run, log)
  BY BoundaryRange, LogTypes DEF Held, RunFine, IsEnd
<1>2. IsEnd(r, log) /\ (Len(log) - Len(r) = Base \/ Len(log) - Len(r) <= c.rseq)
  BY <1>1, KeptIs
<1>3. r \in Seq(Entry) /\ Len(r) <= Len(log)
  BY <1>2 DEF IsEnd
<1>4. CASE Len(log) - Len(r) = Base
  BY <1>1, <1>2, <1>3, <1>4, LogTypes DEF RunFine, Droppable, Base
<1>5. CASE Len(log) - Len(r) <= c.rseq
  <2>1. Len(log) - Len(r) \in 0..c.rseq
    BY <1>1, <1>3, <1>5
  <2> QED  BY <1>2, <2>1, LessDroppable
<1> QED  BY <1>2, <1>4, <1>5

LEMMA RoomFine ==
  ASSUME LogFine, RunFine, LinkFine, StoredFine, NEW r, MakeRoom(r)
  PROVE  /\ IsEnd(r, log) /\ Droppable(Len(log) - Len(r))
         /\ fallback' \in {fallback, None} /\ Retains
<1>1. CASE r = run /\ UNCHANGED <<retain_from, fallback>>
  BY <1>1, LogTypes DEF RunFine, Base, Droppable, IsEnd, Retains
<1>2. CASE newest # None /\ r \in Kept(newest.resume) /\ fallback' = None
           /\ retain_from' = newest.resume
  <2>1. Held(newest.resume)
    BY <1>2 DEF StoredFine, Restorable, Usable
  <2> QED  BY <1>2, <2>1, TrimFine DEF Retains
<1> QED  BY <1>1, <1>2 DEF MakeRoom

LEMMA RunGrows ==
  ASSUME LogFine, Grows, Reaches, notified \subseteq notified', IsEnd(run', log'),
         Droppable(Len(log') - Len(run'))
  PROVE  RunFine'
<1>1. Base' = Len(log') - Len(run')
  BY DEF Base
<1>2. ASSUME NEW n, Droppable(n) PROVE Done(n)' /\ Reach(n)'
  BY <1>2, DoneStays DEF Droppable, Reaches
<1>3. ASSUME NEW n, n = Len(log') - Len(run') PROVE Done(n)' /\ Reach(n)'
  BY <1>2, <1>3
<1> QED  BY <1>1, <1>3 DEF RunFine, Done, Reach

LEMMA AppendsLog ==
  ASSUME RecoveryInv, Appends
  PROVE  Grows /\ LogFine' /\ RunFine' /\ newest' = newest
         /\ fallback' \in {fallback, None} /\ Retains
<1>1. LogFine /\ RunFine /\ LinkFine /\ StoredFine /\ MaxRecords \in Nat
  BY RecoveryAssumption DEF RecoveryInv
<1>2. /\ Numbered /\ newest' = newest /\ overflow' = overflow /\ SettledHead.rseq < MaxRecords
      /\ Reaches /\ notified' = notified
  BY SameReach DEF Appends, AppendKept, AppendDropped, linkVars, effectVars
<1>3. ASSUME NEW kind \in {"data", "resize"}, NEW n \in Nat, AppendKept(kind, n),
             overflow = "Block" => kind # "resize"
      PROVE  Grows /\ LogFine' /\ RunFine' /\ fallback' \in {fallback, None} /\ Retains
  <2>1. PICK r : MakeRoom(r) /\ Push(r, kind, n)
    BY <1>3 DEF AppendKept
  <2>2. IsEnd(r, log) /\ Droppable(Len(log) - Len(r)) /\ fallback' \in {fallback, None} /\ Retains
    BY <1>1, <2>1, RoomFine
  <2>3. Grows /\ LogFine' /\ IsEnd(run', log') /\ Len(log') - Len(run') = Len(log) - Len(r)
    BY <1>1, <1>2, <1>3, <2>1, <2>2, PushGrows
  <2> QED  BY <1>1, <1>2, <2>2, <2>3, RunGrows
<1>4. ASSUME lost = 0, AppendDropped(1)
      PROVE  Grows /\ LogFine' /\ RunFine' /\ fallback' \in {fallback, None} /\ Retains
  <2>1. PICK r : MakeRoom(r) /\ run' = r
    BY <1>4 DEF AppendDropped
  <2>2. IsEnd(r, log) /\ Droppable(Len(log) - Len(r)) /\ fallback' \in {fallback, None} /\ Retains
    BY <1>1, <2>1, RoomFine
  <2>3. run' = Settled(r) /\ head' = SettledHead /\ lost' = 1 /\ head' = head
    BY <1>4, <2>1 DEF AppendDropped, Settled, SettledHead
  <2>4. r \in Seq(Entry)
    BY <2>2 DEF IsEnd
  <2>5. log' = Settled(log)
    BY <1>1, <1>2, <2>3, <2>4, NumberedSettles
  <2>6. log' = log
    BY <1>4, <2>5 DEF Settled
  <2>7. Grows
    BY <1>1, <2>3, <2>6, LogTypes DEF Grows
  <2>8. SettledHead'.rseq <= MaxRecords
    <3>1. SettledHead' = After([rseq |-> head.rseq, off |-> head.off, kind |-> "gap", len |-> 1])
      BY <2>3 DEF SettledHead, Gap
    <3>2. SettledHead'.rseq = head.rseq + 1 /\ head.rseq < MaxRecords /\ head.rseq \in Nat
      BY <1>1, <1>2, <1>4, <3>1, LogTypes DEF After, SettledHead
    <3> QED  BY <1>1, <3>2
  <2>9. LogFine'
    BY <1>1, <1>2, <2>3, <2>6, <2>8 DEF LogFine
  <2> QED  BY <1>1, <1>2, <2>1, <2>2, <2>6, <2>7, <2>9, RunGrows
<1>5. CASE AppendKept("data", 1)
  BY <1>2, <1>3, <1>5
<1>6. CASE overflow = "Drop" /\ AppendKept("resize", 0)
  BY <1>2, <1>3, <1>6
<1>7. CASE lost = 0 /\ AppendDropped(1)
  BY <1>2, <1>4, <1>7
<1> QED  BY <1>5, <1>6, <1>7 DEF Appends

LEMMA AppendsStep ==
  ASSUME RecoveryInv, Appends
  PROVE  RecoveryInv'
<1>1. UNCHANGED <<linkVars, toV, toS, vorndVars, effectVars, missed, stranded>>
  BY DEF Appends
<1>2. Grows /\ LogFine' /\ RunFine' /\ newest' = newest /\ fallback' \in {fallback, None} /\ Retains
  BY AppendsLog
<1>3. Reaches /\ notified' = notified /\ sent' = sent /\ sent \in Nat /\ LogFine /\ opens' = opens
  BY <1>1, SameReach DEF linkVars, effectVars, vorndVars, RecoveryInv, LinkFine
<1>4. StoredFine' /\ LinkFine' /\ WireFine'
  BY <1>1, <1>2, <1>3, StoredStays, LinkStays, WireStays DEF RecoveryInv
<1>5. ActorFine' /\ OutsFine' /\ EffectsFine' /\ (opens # 0 => OpenFine')
  BY <1>1, <1>2, <1>3, FarSide
<1>6. OnePending' /\ WantedFine' /\ Steady' /\ First'
  BY <1>1, SameWire DEF linkVars, vorndVars
<1>7. NoVornd => NoVornd'
  BY <1>1 DEF linkVars, vorndVars, effectVars, NoVornd
<1> QED  BY <1>1, <1>2, <1>3, <1>4, <1>5, <1>6, <1>7 DEF RecoveryInv, linkVars, vorndVars

-----------------------------------------------------------------------------
(* What sessiond does.                                                     *)

LEMMA TailIs ==
  ASSUME NEW S, NEW s \in Seq(S), s # <<>>
  PROVE  /\ Tail(s) \in Seq(S) /\ Len(s) \in Nat /\ Len(s) >= 1 /\ Len(Tail(s)) = Len(s) - 1
         /\ Head(s) = s[1] /\ s[1] \in S
         /\ \A i \in 1..Len(s) - 1 : Tail(s)[i] = s[i + 1]
OBVIOUS

LEMMA AppendIs ==
  ASSUME NEW S, NEW s \in Seq(S), NEW m \in S
  PROVE  /\ Append(s, m) \in Seq(S) /\ Len(s) \in Nat /\ Len(Append(s, m)) = Len(s) + 1
         /\ Append(s, m)[Len(s) + 1] = m
         /\ \A i \in 1..Len(s) : Append(s, m)[i] = s[i]
OBVIOUS

LEMMA AmongIs ==
  ASSUME NEW S, NEW s \in Seq(S)
  PROVE  /\ Among(s) \subseteq S
         /\ s # <<>> => Among(Tail(s)) \subseteq Among(s) /\ Head(s) \in Among(s)
         /\ \A m \in S : Among(Append(s, m)) = Among(s) \cup {m}
<1>1. Among(s) \subseteq S
  BY DEF Among
<1>2. s # <<>> => Among(Tail(s)) \subseteq Among(s)
  <2> SUFFICES ASSUME s # <<>>, NEW i \in 1..Len(Tail(s)) PROVE Tail(s)[i] \in Among(s)
    BY DEF Among
  <2>1. Tail(s)[i] = s[i + 1] /\ i + 1 \in 1..Len(s)
    BY TailIs
  <2> QED  BY <2>1 DEF Among
<1>3. ASSUME NEW m \in S PROVE Among(Append(s, m)) = Among(s) \cup {m}
  <2>1. ASSUME NEW i \in 1..Len(Append(s, m)) PROVE Append(s, m)[i] \in Among(s) \cup {m}
    <3>1. i \in 1..Len(s) \/ i = Len(s) + 1
      BY AppendIs
    <3> QED  BY <3>1, AppendIs DEF Among
  <2>2. ASSUME NEW i \in 1..Len(s) PROVE s[i] \in Among(Append(s, m))
    <3>1. i \in 1..Len(Append(s, m)) /\ Append(s, m)[i] = s[i]
      BY AppendIs
    <3> QED  BY <3>1 DEF Among
  <2>3. m \in Among(Append(s, m))
    <3>1. Len(s) + 1 \in 1..Len(Append(s, m)) /\ Append(s, m)[Len(s) + 1] = m
      BY AppendIs
    <3> QED  BY <3>1 DEF Among
  <2> QED  BY <2>1, <2>2, <2>3 DEF Among
<1>4. s # <<>> => Head(s) \in Among(s)
  BY TailIs DEF Among
<1> QED  BY <1>1, <1>2, <1>3, <1>4

LEMMA AskedTail ==
  ASSUME NEW S, NEW s \in Seq(S), s # <<>>
  PROVE  /\ One(Asked(s)) => One(Asked(Tail(s)))
         /\ Asked(Tail(s)) # {} => Asked(s) # {}
         /\ One(Asked(s)) /\ Head(s).is = "attach" => Asked(Tail(s)) = {} /\ Asked(s) # {}
<1>1. ASSUME NEW i \in Asked(Tail(s)) PROVE i + 1 \in Asked(s) /\ i \in Nat /\ i # 0
  BY TailIs DEF Asked
<1>2. One(Asked(s)) => One(Asked(Tail(s)))
  BY <1>1 DEF One
<1>3. Head(s).is = "attach" => 1 \in Asked(s)
  BY TailIs DEF Asked
<1>4. One(Asked(s)) /\ Head(s).is = "attach" => Asked(Tail(s)) = {}
  BY <1>1, <1>3 DEF One
<1> QED  BY <1>1, <1>2, <1>3, <1>4

LEMMA AskedAppend ==
  ASSUME NEW S, NEW s \in Seq(S), NEW m \in S
  PROVE  Asked(Append(s, m)) = Asked(s) \cup (IF m.is = "attach" THEN {Len(s) + 1} ELSE {})
BY AppendIs DEF Asked

LEMMA SameLog ==
  ASSUME LogFine, UNCHANGED <<log, head, lost, overflow>>
  PROVE  Grows /\ LogFine'
<1>1. SettledHead' = SettledHead
  BY DEF SettledHead, Gap
<1> QED  BY <1>1, LogTypes DEF LogFine, Grows

LEMMA ServesCheckpointStep ==
  ASSUME RecoveryInv, ServesCheckpoint
  PROVE  RecoveryInv'
<1>1. /\ LogFine /\ RunFine /\ LinkFine /\ StoredFine /\ WireFine /\ sent \in Nat
      /\ toS \in Seq(ToSessiond) /\ toS # <<>> /\ toS' = Tail(toS) /\ Head(toS).is = "checkpoint"
  BY DEF RecoveryInv, ServesCheckpoint, Serves, LinkFine, WireFine
<1>2. /\ log' = log /\ sent' = sent /\ next' = next /\ sending' = sending /\ toV' = toV
      /\ v' = v /\ outs' = outs /\ opens' = opens /\ open' = open /\ notified' = notified
      /\ UNCHANGED <<vorndVars, effectVars, linkVars, missed, stranded>>
  BY DEF ServesCheckpoint, linkVars, vorndVars, effectVars
<1>3. Restorable(Head(toS).cp)
  BY <1>1, AmongIs DEF WireFine
<1>4. head' = head /\ lost' = lost /\ overflow' = overflow
  BY DEF ServesCheckpoint, PutCheckpoint, recordLogVars
<1>5. Grows /\ LogFine' /\ Reaches
  BY <1>1, <1>2, <1>4, SameLog, SameReach
<1>6. ASSUME UNCHANGED recordLogVars PROVE RunFine' /\ StoredFine'
  <2>1. run' = run /\ newest' = newest /\ fallback' = fallback /\ retain_from' = retain_from
    BY <1>6 DEF recordLogVars
  <2>2. Droppable(Len(log) - Len(run)) /\ IsEnd(run, log)
    BY <1>1, LogTypes DEF RunFine, IsEnd, Droppable, Base
  <2>3. RunFine'
    BY <1>1, <1>2, <1>5, <2>1, <2>2, RunGrows
  <2>4. StoredFine'
    BY <1>1, <1>2, <1>5, <2>1, StoredStays DEF Retains
  <2> QED  BY <2>3, <2>4
<1>7. ASSUME PutCheckpoint(Head(toS).cp) PROVE RunFine' /\ StoredFine'
  <2>1. PICK c : /\ c = (IF newest = None THEN retain_from ELSE newest.resume)
                 /\ retain_from' = c /\ run' \in Kept(c)
    BY <1>7 DEF PutCheckpoint
  <2>2. newest' = Head(toS).cp /\ fallback' \in {fallback, newest}
        /\ (newest = None => fallback' = fallback)
    BY <1>7 DEF PutCheckpoint
  <2>3. Held(c)
    BY <1>1, <2>1 DEF StoredFine, Restorable, Usable
  <2>4. IsEnd(run', log) /\ Droppable(Len(log) - Len(run'))
    BY <1>1, <2>1, <2>3, TrimFine
  <2>5. RunFine'
    BY <1>1, <1>2, <1>5, <2>4, RunGrows
  <2>6. \A cp \in {newest', fallback'} \ {None} : Restorable(cp)
    BY <1>1, <1>3, <2>2 DEF StoredFine
  <2>7. \A cp \in {newest', fallback'} \ {None} : Restorable(cp)'
    BY <1>1, <1>2, <1>5, <2>6, RestorableStays
  <2>8. Held(c)'
    BY <1>1, <1>2, <1>5, <2>3, HeldStays
  <2>9. Held(retain_from)'
    BY <2>1, <2>8 DEF Held, IsBoundary, Done, Reach
  <2> QED  BY <2>5, <2>7, <2>9 DEF StoredFine
<1>8. RunFine' /\ StoredFine'
  BY <1>6, <1>7 DEF ServesCheckpoint
<1>9. LinkFine'
  BY <1>1, <1>2, <1>5, LinkStays
<1>10. Tail(toS) \in Seq(ToSessiond) /\ Len(toS) \in Nat /\ Len(Tail(toS)) = Len(toS) - 1
       /\ \A i \in 1..Len(toS) - 1 : Tail(toS)[i] = toS[i + 1]
  BY <1>1, TailIs
<1>11. WireFine'
  <2>1. \A m \in Among(toV) : FineToVornd(m)'
    <3>1. Among(toV) \subseteq ToVornd
      BY <1>1 DEF WireFine, Among
    <3> QED  BY <1>1, <1>2, <1>5, <3>1, MessageStays DEF WireFine
  <2>2. \A m \in Among(Tail(toS)) : m.is = "checkpoint" => Restorable(m.cp)'
    <3>1. Among(Tail(toS)) \subseteq Among(toS)
      BY <1>1, AmongIs
    <3> QED  BY <1>1, <1>2, <1>5, <3>1, RestorableStays DEF WireFine
  <2>3. Among(toV)' = Among(toV) /\ Among(toS)' = Among(Tail(toS))
    BY <1>1, <1>2 DEF Among
  <2> QED  BY <1>1, <1>2, <1>10, <2>1, <2>2, <2>3 DEF WireFine
<1>12. ActorFine' /\ OutsFine' /\ EffectsFine' /\ (opens # 0 => OpenFine')
  BY <1>1, <1>2, <1>5, FarSide
<1>13. OnePending' /\ WantedFine'
  <2>1. /\ One(Asked(toS)) => One(Asked(Tail(toS)))
        /\ Asked(Tail(toS)) # {} => Asked(toS) # {}
    BY <1>1, AskedTail
  <2>2. Answered' = Answered /\ Asked(outs)' = Asked(outs) /\ Asked(toS)' = Asked(Tail(toS))
    BY <1>1, <1>2 DEF Answered, Asked
  <2>3. One(Asked(toS))' <=> One(Asked(Tail(toS)))
    BY <2>2 DEF One
  <2>4. One(Asked(outs))' /\ One(Answered)'
    BY <2>2 DEF RecoveryInv, OnePending, One
  <2>5. OnePending'
    BY <2>1, <2>2, <2>3, <2>4 DEF RecoveryInv, OnePending
  <2>6. WantedFine'
    BY <1>1, <1>2, <1>10 DEF RecoveryInv, WantedFine, Suits
  <2> QED  BY <2>5, <2>6
<1>14. Steady' /\ First'
  <2>1. \A i, x : Comes(i, x)' <=> Comes(i, x)
    BY <1>2 DEF Comes
  <2> QED  BY <1>2, <2>1 DEF RecoveryInv, Steady, First, MayFollow
<1>15. ~NoVornd
  BY <1>1 DEF NoVornd
<1> QED  BY <1>2, <1>5, <1>8, <1>9, <1>11, <1>12, <1>13, <1>14, <1>15 DEF RecoveryInv

(* A step of the connection: what is left to show is of its wires.         *)
LEMMA LinkMoves ==
  ASSUME RecoveryInv, Grows, LogFine', IsEnd(run', log'), Len(log') - Len(run') = Base,
         UNCHANGED <<newest, fallback, retain_from>>,
         UNCHANGED <<vorndVars, effectVars, missed, stranded>>,
         Reaches, sent <= sent', LinkFine', WireFine', OnePending', WantedFine', Steady', First',
         next # None \/ toS # <<>>
  PROVE  RecoveryInv'
<1>1. LogFine /\ RunFine /\ StoredFine /\ notified' = notified /\ sent' \in Nat
      /\ newest' = newest /\ fallback' = fallback /\ retain_from' = retain_from
      /\ missed' = missed /\ stranded' = stranded /\ opens' = opens
  BY DEF RecoveryInv, effectVars, vorndVars, LinkFine
<1>2. Droppable(Len(log') - Len(run'))
  <2>1. Base \in 0..Len(log) /\ Done(Base) /\ Reach(Base)
    BY <1>1, LogTypes DEF RunFine, IsEnd, Base
  <2> QED  BY <2>1 DEF Droppable
<1>3. RunFine'
  BY <1>1, <1>2, RunGrows
<1>4. StoredFine'
  BY <1>1, StoredStays DEF Retains
<1>5. ActorFine' /\ OutsFine' /\ EffectsFine' /\ (opens # 0 => OpenFine')
  BY <1>1, FarSide
<1>6. ~NoVornd
  BY DEF NoVornd
<1> QED  BY <1>1, <1>3, <1>4, <1>5, <1>6 DEF RecoveryInv

LEMMA NextLogged ==
  ASSUME NEW l, NEW h, IsLog(l, h), NEW n \in Nat, n < Len(l)
  PROVE  l[n + 1] \in Entry /\ l[n + 1].rseq = n /\ BoundaryIn(l, h, n + 1) = After(l[n + 1])
<1>1. n + 1 \in 1..Len(l) /\ n + 1 - 1 = n
  BY DEF IsLog
<1> QED  BY <1>1 DEF IsLog

LEMMA SendsStep ==
  ASSUME RecoveryInv, Grows, LogFine', IsEnd(run', log'), Len(log') - Len(run') = Base,
         UNCHANGED <<newest, fallback, retain_from>>, toS' = toS,
         UNCHANGED <<vorndVars, effectVars, missed, stranded>>,
         next # None, next.rseq < Len(log'), NEW e, e = log'[next.rseq + 1], Sends(e),
         sending' \in Seq(Entry), Len(sending) <= Len(sending') + 1,
         next.rseq + 1 + Len(sending') <= Len(log'),
         \A i \in 1..Len(sending') : sending'[i] = log'[next.rseq + 1 + i]
  PROVE  RecoveryInv'
<1>1. /\ LogFine /\ LinkFine /\ WireFine /\ sent \in Nat /\ log' \in Seq(Entry)
      /\ Len(log) \in Nat /\ Len(log') \in Nat /\ Len(log) <= Len(log') /\ IsLog(log', head')
  BY LogTypes DEF RecoveryInv, LinkFine, Grows, IsLog
<1>2. next \in Cursor /\ next.rseq \in 0..Len(log) /\ next.rseq \in Nat /\ Len(sending) \in Nat
      /\ next.rseq + Len(sending) <= Len(log)
  BY <1>1, BoundaryRange DEF LinkFine
<1>3. e \in Entry /\ e.rseq = next.rseq /\ BoundaryIn(log', head', next.rseq + 1) = After(e)
  <2>1. ASSUME NEW n, n = next.rseq
        PROVE  e \in Entry /\ e.rseq = n /\ BoundaryIn(log', head', n + 1) = After(e)
    <3>1. IsLog(log', head') /\ n \in Nat /\ n < Len(log') /\ e = log'[n + 1]
      BY <1>1, <1>2, <2>1
    <3> QED  BY <3>1, NextLogged
  <2> QED  BY <2>1
<1>4. /\ Len(toV) < Lane /\ toV' = Append(toV, [is |-> "entry", e |-> e]) /\ sent' = Marks(e)
      /\ next' = After(e)
  BY DEF Sends
<1>5. next' \in Cursor /\ next' # None /\ next'.rseq = next.rseq + 1 /\ IsBoundary(next)'
  <2>1. After(e) \in Cursor /\ After(e).rseq = next.rseq + 1
    BY <1>3, EntryFields
  <2>2. next.rseq + 1 <= Len(log')
    BY <1>1, <1>2
  <2>3. next' \in Cursor /\ next' # None /\ next'.rseq = next.rseq + 1
    BY <1>4, <2>1, RecoveryAssumption
  <2>4. next' = BoundaryIn(log', head', next'.rseq)
    BY <1>3, <1>4, <2>3
  <2> QED  BY <2>2, <2>3, <2>4 DEF IsBoundary
<1>6. Reaches
  BY <1>1, <1>2, <1>5 DEF Reaches, Reach
<1>7. sent' \in 0..Len(log') /\ sent <= sent' /\ e.rseq < sent' /\ sent' \in Nat
  <2>1. sent' \in {sent, e.rseq + 1} /\ sent <= sent' /\ e.rseq < sent'
    BY <1>1, <1>3, <1>4, MarksIs
  <2> QED  BY <1>1, <1>2, <1>3, <2>1 DEF LinkFine
<1>8. LinkFine'
  <2>1. next'.rseq + Len(sending') <= Len(log')
    BY <1>5
  <2>2. \A i \in 1..Len(sending') : sending'[i] = log'[next'.rseq + i]
    BY <1>5
  <2> QED  BY <1>5, <1>7, <2>1, <2>2 DEF LinkFine
<1> DEFINE m == [is |-> "entry", e |-> e]
<1>9. m \in ToVornd /\ m.is = "entry" /\ m.e = e /\ toV \in Seq(ToVornd)
  BY <1>1, <1>3 DEF ToVornd, WireFine
<1>10. FineToVornd(m)'
  <2>1. Logged(e)'
    BY <1>1, <1>2, <1>3 DEF Logged
  <2>2. Reach(e.rseq + 1)'
    BY <1>2, <1>3, <1>5 DEF Reach
  <2> QED  BY <1>7, <1>9, <2>1, <2>2 DEF FineToVornd
<1> HIDE DEF m
<1>11. /\ toV' = Append(toV, m) /\ toV' \in Seq(ToVornd) /\ Len(toV) \in Nat /\ Len(toV') = Len(toV) + 1
       /\ toV'[Len(toV) + 1] = m /\ \A i \in 1..Len(toV) : toV'[i] = toV[i]
  <2>1. toV' = Append(toV, m)
    BY <1>4 DEF m
  <2> QED  BY <1>9, <2>1, AppendIs
<1>12. WireFine'
  <2>1. Among(toV)' = Among(toV) \cup {m} /\ Among(toS)' = Among(toS) /\ Among(toV) \subseteq ToVornd
    BY <1>9, <1>11, AmongIs DEF Among
  <2>2. notified' = notified
    BY DEF effectVars
  <2>3. \A w \in Among(toV) : FineToVornd(w)'
    BY <1>1, <1>6, <1>7, <2>1, <2>2, MessageStays DEF WireFine
  <2>4. \A w \in Among(toS) : w.is = "checkpoint" => Restorable(w.cp)'
    BY <1>1, <1>6, <2>2, RestorableStays DEF WireFine
  <2>5. Len(toV') <= Lane
    BY <1>4, <1>11, RecoveryAssumption
  <2> QED  BY <1>1, <1>10, <1>11, <2>1, <2>3, <2>4, <2>5 DEF WireFine
<1>13. outs' = outs /\ v' = v
  BY DEF vorndVars
<1>14. OnePending'
  <2>1. Answered' = Answered
    BY <1>9, <1>11 DEF Answered
  <2> QED  BY <1>13, <2>1 DEF RecoveryInv, OnePending, One, Asked
<1>15. WantedFine'
  <2>1. ASSUME NEW i \in 1..Len(toV'), v.phase = "running" PROVE toV'[i].is # "checkpoint"
    BY <1>9, <1>11, <2>1 DEF RecoveryInv, WantedFine
  <2> QED  BY <1>13, <2>1 DEF RecoveryInv, WantedFine, Suits
<1>16. ASSUME NEW i \in 1..Len(toV) + 1, NEW x, Comes(i, x)' PROVE Comes(i, x)
  <2>1. i \in 1..Len(toV') /\ toV'[i].is = "entry" /\ x = toV'[i].e.rseq
    BY <1>11, <1>16 DEF Comes
  <2> QED  BY <1>3, <1>9, <1>11, <2>1 DEF Comes
<1>17. Steady'
  <2> SUFFICES ASSUME v.phase \in {"attaching", "running"}, NEW i \in 1..Len(toV'), NEW x \in Nat,
                      Comes(i + 1, x)'
               PROVE  MayFollow(toV'[i], x, v)
    BY <1>13 DEF Steady, MayFollow
  <2>1. CASE i \in 1..Len(toV)
    <3>1. i + 1 \in 1..Len(toV) + 1
      BY <1>11, <2>1
    <3> QED  BY <1>11, <1>16, <2>1, <3>1 DEF RecoveryInv, Steady
  <2>2. CASE i = Len(toV) + 1
    <3>1. x = next'.rseq
      BY <1>11, <2>2 DEF Comes
    <3> QED  BY <1>3, <1>5, <1>9, <1>11, <2>2, <3>1 DEF MayFollow
  <2> QED  BY <1>11, <2>1, <2>2
<1>18. First'
  <2>1. 1 \in 1..Len(toV) + 1
    BY <1>11
  <2> QED  BY <1>13, <1>16, <2>1 DEF RecoveryInv, First
<1> QED  BY <1>6, <1>7, <1>8, <1>12, <1>14, <1>15, <1>17, <1>18, LinkMoves

LEMMA SendsAttachedStep ==
  ASSUME RecoveryInv, SendsAttached
  PROVE  RecoveryInv'
<1>1. /\ sending # <<>> /\ Sends(Head(sending)) /\ sending' = Tail(sending) /\ toS' = toS
      /\ UNCHANGED <<vorndVars, effectVars, missed, stranded>>
      /\ UNCHANGED <<newest, fallback, retain_from>>
      /\ log' = log /\ head' = head /\ lost' = lost /\ overflow' = overflow /\ run' = run
  BY DEF SendsAttached, recordLogVars
<1>2. LogFine /\ RunFine /\ LinkFine
  BY DEF RecoveryInv
<1>3. Grows /\ LogFine'
  BY <1>1, <1>2, SameLog
<1>4. IsEnd(run', log') /\ Len(log') - Len(run') = Base
  BY <1>1, <1>2 DEF RunFine, Base
<1>5. /\ sending \in Seq(Entry) /\ Len(sending) \in Nat /\ Len(sending) >= 1
      /\ Tail(sending) \in Seq(Entry) /\ Len(Tail(sending)) = Len(sending) - 1
      /\ Head(sending) = sending[1]
      /\ \A i \in 1..Len(sending) - 1 : Tail(sending)[i] = sending[i + 1]
  BY <1>1, <1>2, TailIs DEF LinkFine
<1>6. /\ next # None /\ next.rseq \in Nat /\ next.rseq + Len(sending) <= Len(log) /\ Len(log) \in Nat
      /\ \A i \in 1..Len(sending) : sending[i] = log[next.rseq + i]
  BY <1>1, <1>2, BoundaryRange, LogTypes DEF LinkFine
<1>7. Head(sending) = log'[next.rseq + 1] /\ next.rseq < Len(log')
  <2>1. 1 \in 1..Len(sending)
    BY <1>5
  <2> QED  BY <1>1, <1>5, <1>6, <2>1
<1>8. ASSUME NEW i \in 1..Len(Tail(sending)) PROVE Tail(sending)[i] = log'[next.rseq + 1 + i]
  <2>1. i \in 1..Len(sending) - 1 /\ i + 1 \in 1..Len(sending)
    BY <1>5
  <2>2. next.rseq + (i + 1) = next.rseq + 1 + i
    BY <1>6
  <2>3. Tail(sending)[i] = sending[i + 1] /\ sending[i + 1] = log[next.rseq + (i + 1)]
    BY <1>5, <1>6, <2>1
  <2> QED  BY <1>1, <2>2, <2>3
<1> QED  BY <1>1, <1>3, <1>4, <1>5, <1>6, <1>7, <1>8, SendsStep

(* The log settled what it had dropped.                                    *)
LEMMA SettlesLog ==
  ASSUME RecoveryInv, SettleGap, Numbered
  PROVE  /\ Grows /\ LogFine' /\ IsEnd(run', log') /\ Len(log') - Len(run') = Base
         /\ SettledHead = head' /\ IsLog(log', head')
         /\ UNCHANGED <<newest, fallback, retain_from>>
<1>1. LogFine /\ IsEnd(run, log)
  BY DEF RecoveryInv, RunFine
<1>2. run' = Settled(run) /\ head' = SettledHead /\ lost' = 0 /\ overflow' = overflow
      /\ UNCHANGED <<newest, fallback, retain_from>>
  BY DEF SettleGap
<1>3. Grows /\ LogFine' /\ IsEnd(run', log') /\ Len(log') - Len(run') = Len(log) - Len(run)
  BY <1>1, <1>2, SettleGrows
<1> QED  BY <1>2, <1>3 DEF Base, Grows

LEMMA PumpsStep ==
  ASSUME RecoveryInv, Pumps
  PROVE  RecoveryInv'
<1>1. /\ sending = <<>> /\ next # None /\ next # SettledHead /\ SettleGap /\ Numbered
      /\ sending' = sending /\ toS' = toS
      /\ UNCHANGED <<vorndVars, effectVars, missed, stranded>>
  BY DEF Pumps
<1>2. /\ Grows /\ LogFine' /\ IsEnd(run', log') /\ Len(log') - Len(run') = Base
      /\ SettledHead = head' /\ IsLog(log', head')
      /\ UNCHANGED <<newest, fallback, retain_from>>
  BY <1>1, SettlesLog
<1>3. LogFine /\ LinkFine /\ IsBoundary(next) /\ next.rseq \in Nat /\ Len(log') \in Nat
  BY <1>1, <1>2, BoundaryRange DEF RecoveryInv, LinkFine, IsLog
<1>4. CASE next \in BoundariesOf(run', head')
  <2> DEFINE s == Suffix(run', next)
  <2>1. /\ s \in Seq(Entry) /\ Len(s) = Len(log') - next.rseq
        /\ \A i \in 1..Len(log') - next.rseq : s[i] = log'[next.rseq + i]
    BY <1>2, <1>4, SuffixIs
  <2>2. next.rseq \in Len(log') - Len(run')..Len(log') /\ next = BoundaryIn(log', head', next.rseq)
    BY <1>2, <1>4, RunBoundaries
  <2>3. next.rseq # Len(log')
    BY <1>1, <1>2, <2>2 DEF BoundaryIn
  <2>4. next.rseq < Len(log')
    BY <1>2, <1>3, <2>2, <2>3
  <2>5. Sends(Head(s))
    BY <1>4 DEF Pumps
  <2> HIDE DEF s
  <2>6. Head(s) = log'[next.rseq + 1]
    <3>1. 1 \in 1..Len(log') - next.rseq /\ s # <<>> /\ Len(s) # 0
      BY <1>3, <2>1, <2>4
    <3>2. Head(s) = s[1]
      BY <2>1, <3>1
    <3> QED  BY <2>1, <3>1, <3>2
  <2>7. sending' \in Seq(Entry) /\ Len(sending') = 0 /\ Len(sending) = 0
    BY <1>1
  <2> QED  BY <1>1, <1>2, <1>3, <2>4, <2>5, <2>6, <2>7, SendsStep
<1>5. CASE next \notin BoundariesOf(run', head')
  <2>1. next' = None /\ toV' = toV /\ sent' = sent /\ outs' = outs /\ v' = v /\ notified' = notified
    BY <1>1, <1>5 DEF Pumps, vorndVars, effectVars
  <2>2. Reaches
    BY <2>1 DEF Reaches, Reach
  <2>3. sent \in Nat /\ sent \in 0..Len(log) /\ Len(log) <= Len(log') /\ Len(log) \in Nat /\ WireFine
    BY <1>2, <1>3, LogTypes DEF RecoveryInv, LinkFine, Grows
  <2>4. LinkFine'
    BY <1>1, <1>3, <2>1, <2>3 DEF LinkFine
  <2>5. WireFine'
    BY <1>1, <1>2, <1>3, <2>1, <2>2, <2>3, WireStays
  <2>6. \A i, x : Comes(i, x)' => Comes(i, x)
    BY <2>1 DEF Comes
  <2>7. OnePending' /\ WantedFine'
    BY <1>1, <2>1 DEF RecoveryInv, OnePending, One, Asked, Answered, WantedFine, Suits
  <2>8. Steady' /\ First'
    BY <2>1, <2>6 DEF RecoveryInv, Steady, First, MayFollow
  <2> QED  BY <1>1, <1>2, <2>1, <2>2, <2>3, <2>4, <2>5, <2>7, <2>8, LinkMoves
<1> QED  BY <1>4, <1>5

(* What an attach is served, where it is.                                  *)
LEMMA ServedAt ==
  ASSUME RecoveryInv, SettleGap, Numbered, NEW at, at \in BoundariesOf(run', head'),
         sending' = Suffix(run', at), next' = at, UNCHANGED <<sent, effectVars>>
  PROVE  /\ Reaches /\ LinkFine' /\ at \in Cursor /\ next' # None
         /\ \A n \in 0..Len(log') : Reach(n)'
<1>1. /\ LogFine /\ LinkFine /\ Grows /\ LogFine' /\ IsEnd(run', log') /\ IsLog(log', head')
  BY SettlesLog DEF RecoveryInv
<1>2. /\ Len(log) \in Nat /\ Len(log') \in Nat /\ Len(log) <= Len(log') /\ Len(run') \in Nat
      /\ Len(run') <= Len(log')
  BY <1>1, LogTypes DEF Grows, IsLog, IsEnd
<1>3. at \in Cursor /\ at.rseq \in Len(log') - Len(run')..Len(log') /\ at = BoundaryIn(log', head', at.rseq)
  BY <1>1, RunBoundaries
<1>4. /\ sending' \in Seq(Entry) /\ Len(sending') = Len(log') - at.rseq
      /\ \A i \in 1..Len(log') - at.rseq : sending'[i] = log'[at.rseq + i]
  BY <1>1, SuffixIs
<1>5. at.rseq \in Nat /\ at.rseq + Len(sending') = Len(log')
  BY <1>2, <1>3, <1>4
<1>6. \A n \in 0..Len(log') : Reach(n)'
  BY <1>2, <1>5 DEF Reach
<1>7. Reaches
  BY <1>2, <1>6 DEF Reaches
<1>8. sent' \in 0..Len(log')
  BY <1>1, <1>2 DEF LinkFine
<1>9. IsBoundary(next)'
  <2>1. next' \in Cursor /\ next'.rseq <= Len(log') /\ next' = BoundaryIn(log', head', next'.rseq)
    BY <1>2, <1>3
  <2> QED  BY <2>1 DEF IsBoundary
<1>10. LinkFine'
  BY <1>3, <1>4, <1>5, <1>8, <1>9, RecoveryAssumption DEF LinkFine
<1> QED  BY <1>3, <1>6, <1>7, <1>10, RecoveryAssumption

(* The attach served is the only one there was, and nothing else answers.  *)
LEMMA OnlyAttach ==
  ASSUME RecoveryInv, Serves("attach"), toS' = Tail(toS), outs' = outs
  PROVE  /\ toS \in Seq(ToSessiond) /\ toS # <<>> /\ Head(toS) \in Attaches /\ Suits(Head(toS), v)
         /\ Asked(toS)' = {} /\ Asked(outs)' = {} /\ Answered = {}
         /\ toS' \in Seq(ToSessiond)
         /\ \A i \in 1..Len(toS') : Suits(toS'[i], v)
         /\ Among(toS)' \subseteq Among(toS)
<1>1. toS \in Seq(ToSessiond) /\ toS # <<>> /\ Head(toS).is = "attach"
  BY DEF RecoveryInv, WireFine, Serves
<1>2. /\ Tail(toS) \in Seq(ToSessiond) /\ Len(toS) \in Nat /\ Len(toS) >= 1
      /\ Len(Tail(toS)) = Len(toS) - 1 /\ Head(toS) = toS[1] /\ toS[1] \in ToSessiond
      /\ \A i \in 1..Len(toS) - 1 : Tail(toS)[i] = toS[i + 1]
  BY <1>1, TailIs
<1>3. One(Asked(toS)) /\ One(Asked(outs))
  BY DEF RecoveryInv, OnePending
<1>4. Asked(Tail(toS)) = {} /\ Asked(toS) # {}
  BY <1>1, <1>3, AskedTail
<1>5. Asked(outs) = {} /\ Answered = {}
  BY <1>4 DEF RecoveryInv, OnePending
<1>6. Asked(toS)' = {} /\ Asked(outs)' = {}
  BY <1>4, <1>5 DEF Asked
<1>7. \A i \in 1..Len(Tail(toS)) : Suits(Tail(toS)[i], v)
  <2> SUFFICES ASSUME NEW i \in 1..Len(Tail(toS)) PROVE Suits(Tail(toS)[i], v)
    OBVIOUS
  <2>1. i + 1 \in 1..Len(toS) /\ Tail(toS)[i] = toS[i + 1]
    BY <1>2
  <2> QED  BY <2>1 DEF RecoveryInv, WantedFine
<1>8. Suits(Head(toS), v)
  <2>1. 1 \in 1..Len(toS)
    BY <1>2
  <2> QED  BY <1>2, <2>1 DEF RecoveryInv, WantedFine
<1>9. Head(toS) \in Attaches
  BY <1>1, <1>2 DEF ToSessiond, CheckpointMsgs
<1>10. Among(toS)' \subseteq Among(toS)
  <2>1. Among(toS)' = Among(Tail(toS))
    BY DEF Among
  <2> QED  BY <1>1, <2>1, AmongIs
<1> QED  BY <1>1, <1>2, <1>5, <1>6, <1>7, <1>8, <1>9, <1>10

(* An attach that is answered by message m: the checkpoint it named, before *)
(* the records after it, or that it was refused.                           *)
LEMMA AttachAnswered ==
  ASSUME RecoveryInv, ServesAttach, NEW m \in ToVornd, m.is # "entry", toV' = Append(toV, m),
         LinkFine', Reaches, FineToVornd(m)',
         m.is = "checkpoint" => v.phase # "running" /\ next' # None /\ next'.rseq = m.cp.resume.rseq,
         m.is = "refused" => next' = None
  PROVE  RecoveryInv'
<1>1. /\ Serves("attach") /\ Len(toV) < Lane /\ toS' = Tail(toS) /\ SettleGap /\ Numbered
      /\ UNCHANGED <<vorndVars, effectVars, missed, stranded>>
      /\ outs' = outs /\ v' = v /\ sent' = sent /\ notified' = notified
  BY DEF ServesAttach, vorndVars, effectVars
<1>2. /\ Grows /\ LogFine' /\ IsEnd(run', log') /\ Len(log') - Len(run') = Base
      /\ UNCHANGED <<newest, fallback, retain_from>>
  BY <1>1, SettlesLog
<1>3. LogFine /\ WireFine /\ toV \in Seq(ToVornd) /\ sent \in Nat
  BY DEF RecoveryInv, WireFine, LinkFine
<1>4. /\ toS # <<>> /\ Asked(toS)' = {} /\ Asked(outs)' = {} /\ Answered = {}
      /\ toS' \in Seq(ToSessiond) /\ Among(toS)' \subseteq Among(toS)
      /\ \A i \in 1..Len(toS') : Suits(toS'[i], v)
  BY <1>1, OnlyAttach
<1>5. /\ Len(toV) \in Nat /\ Len(toV') = Len(toV) + 1 /\ toV' \in Seq(ToVornd)
      /\ toV'[Len(toV) + 1] = m /\ \A i \in 1..Len(toV) : toV'[i] = toV[i]
  BY <1>3, AppendIs
<1>6. \A i \in 1..Len(toV) : toV[i].is = "entry"
  BY <1>4 DEF Answered
<1>7. WireFine'
  <2>1. Among(toV)' = Among(toV) \cup {m} /\ Among(toV) \subseteq ToVornd
    BY <1>3, AmongIs DEF Among
  <2>2. \A w \in Among(toV) : FineToVornd(w)'
    BY <1>1, <1>2, <1>3, <2>1, MessageStays DEF WireFine
  <2>3. \A w \in Among(toS) : w.is = "checkpoint" => Restorable(w.cp)'
    BY <1>1, <1>2, <1>3, RestorableStays DEF WireFine
  <2>4. Len(toV') <= Lane
    BY <1>1, <1>5, RecoveryAssumption
  <2> QED  BY <1>4, <1>5, <2>1, <2>2, <2>3, <2>4 DEF WireFine
<1>8. OnePending'
  <2>1. Answered' \subseteq {Len(toV) + 1}
    BY <1>5, <1>6 DEF Answered
  <2> QED  BY <1>4, <2>1 DEF OnePending, One
<1>9. WantedFine'
  <2>1. ASSUME v.phase = "running", NEW i \in 1..Len(toV') PROVE toV'[i].is # "checkpoint"
    <3>1. m.is # "checkpoint"
      BY <2>1
    <3> QED  BY <1>5, <1>6, <3>1
  <2> QED  BY <1>1, <1>4, <2>1 DEF RecoveryInv, WantedFine, Suits
<1>10. ASSUME NEW i \in 1..Len(toV) + 1, NEW x, Comes(i, x)' PROVE i \in 1..Len(toV) /\ Comes(i, x)
  BY <1>5, <1>10 DEF Comes
<1>11. Steady'
  <2> SUFFICES ASSUME v.phase \in {"attaching", "running"}, NEW i \in 1..Len(toV'), NEW x \in Nat,
                      Comes(i + 1, x)'
               PROVE  MayFollow(toV'[i], x, v)
    BY <1>1 DEF Steady, MayFollow
  <2>1. CASE i \in 1..Len(toV)
    <3>1. Comes(i + 1, x)
      BY <1>5, <1>10, <2>1
    <3> QED  BY <1>5, <2>1, <3>1 DEF RecoveryInv, Steady
  <2>2. CASE i = Len(toV) + 1
    <3>1. next' # None /\ x = next'.rseq
      BY <1>5, <2>2 DEF Comes
    <3> QED  BY <1>5, <2>2, <3>1 DEF MayFollow
  <2> QED  BY <1>5, <2>1, <2>2
<1>12. First'
  <2>1. 1 \in 1..Len(toV) + 1
    BY <1>5
  <2> QED  BY <1>1, <1>10, <2>1 DEF RecoveryInv, First
<1> QED  BY <1>1, <1>2, <1>3, <1>4, <1>7, <1>8, <1>9, <1>11, <1>12, LinkMoves

(* An attach that names no checkpoint: records follow, from behind what    *)
(* the actor has.                                                          *)
LEMMA AttachUnanswered ==
  ASSUME RecoveryInv, ServesAttach, toV' = toV, LinkFine', Reaches, next' # None, next'.rseq \in Nat,
         v.phase # "attaching", v.phase = "running" => next'.rseq <= v.cursor.rseq
  PROVE  RecoveryInv'
<1>1. /\ Serves("attach") /\ toS' = Tail(toS) /\ SettleGap /\ Numbered
      /\ UNCHANGED <<vorndVars, effectVars, missed, stranded>>
      /\ outs' = outs /\ v' = v /\ sent' = sent /\ notified' = notified
  BY DEF ServesAttach, vorndVars, effectVars
<1>2. /\ Grows /\ LogFine' /\ IsEnd(run', log') /\ Len(log') - Len(run') = Base
      /\ UNCHANGED <<newest, fallback, retain_from>>
  BY <1>1, SettlesLog
<1>3. LogFine /\ WireFine /\ toV \in Seq(ToVornd) /\ sent \in Nat
  BY DEF RecoveryInv, WireFine, LinkFine
<1>4. /\ toS # <<>> /\ Asked(toS)' = {} /\ Asked(outs)' = {} /\ Answered = {}
      /\ toS' \in Seq(ToSessiond) /\ Among(toS)' \subseteq Among(toS)
      /\ \A i \in 1..Len(toS') : Suits(toS'[i], v)
  BY <1>1, OnlyAttach
<1>5. \A i \in 1..Len(toV) : toV[i].is = "entry"
  BY <1>4 DEF Answered
<1>6. WireFine'
  <2>1. Among(toV)' = Among(toV) /\ Among(toV) \subseteq ToVornd
    BY <1>3, AmongIs DEF Among
  <2>2. \A w \in Among(toV) : FineToVornd(w)'
    BY <1>1, <1>2, <1>3, <2>1, MessageStays DEF WireFine
  <2>3. \A w \in Among(toS) : w.is = "checkpoint" => Restorable(w.cp)'
    BY <1>1, <1>2, <1>3, RestorableStays DEF WireFine
  <2> QED  BY <1>3, <1>4, <2>1, <2>2, <2>3 DEF WireFine
<1>7. OnePending'
  BY <1>4 DEF OnePending, One, Answered
<1>8. WantedFine'
  BY <1>1, <1>4 DEF RecoveryInv, WantedFine, Suits
<1>9. ASSUME NEW i \in 1..Len(toV) + 1, NEW x, Comes(i, x)'
      PROVE  Comes(i, x) \/ x = next'.rseq
  BY <1>9 DEF Comes
<1>10. Steady'
  <2> SUFFICES ASSUME v.phase = "running", NEW i \in 1..Len(toV), NEW x \in Nat, Comes(i + 1, x)'
               PROVE  MayFollow(toV[i], x, v)
    BY <1>1 DEF Steady, MayFollow
  <2>1. i + 1 \in 1..Len(toV) + 1
    BY <1>3
  <2>2. CASE Comes(i + 1, x)
    BY <2>2 DEF RecoveryInv, Steady
  <2>3. CASE x = next'.rseq
    BY <1>5, <2>3 DEF MayFollow
  <2> QED  BY <1>9, <2>1, <2>2, <2>3
<1>11. First'
  <2>1. 1 \in 1..Len(toV) + 1
    BY <1>3
  <2> QED  BY <1>1, <1>9, <2>1 DEF RecoveryInv, First
<1> QED  BY <1>1, <1>2, <1>3, <1>4, <1>6, <1>7, <1>8, <1>10, <1>11, LinkMoves

LEMMA ServesAttachStep ==
  ASSUME RecoveryInv, ServesAttach
  PROVE  RecoveryInv'
<1> DEFINE m == Head(toS)
           at == AttachedAt(m)
<1>1. /\ Serves("attach") /\ toS' = Tail(toS) /\ outs' = outs /\ sending = <<>>
      /\ SettleGap /\ Numbered /\ notified' = notified /\ UNCHANGED <<sent, effectVars>>
  BY DEF ServesAttach, Serves, vorndVars, effectVars
<1>2. m \in Attaches /\ Suits(m, v)
  BY <1>1, OnlyAttach
<1>3. LogFine /\ StoredFine /\ LinkFine /\ WireFine /\ ActorFine /\ Grows /\ LogFine'
      /\ toV \in Seq(ToVornd) /\ v \in Actor
  BY <1>1, SettlesLog DEF RecoveryInv, WireFine, ActorFine, ActorTyped
<1> HIDE DEF m
<1>4. CASE at # None /\ at \in BoundariesOf(run', head')
  <2>1. toV' = toV \o CheckpointOf(m) /\ sending' = Suffix(run', at) /\ next' = at
    BY <1>4 DEF ServesAttach, m
  <2> HIDE DEF at
  <2>2. Reaches /\ LinkFine' /\ at \in Cursor /\ next' # None
    BY <1>1, <1>4, <2>1, ServedAt
  <2>3. ASSUME NEW cp, cp # None, Restorable(cp), CheckpointOf(m) = <<[is |-> "checkpoint", cp |-> cp]>>,
               at = cp.resume, m.at \in {"newest", "fallback"}
        PROVE  RecoveryInv'
    <3> DEFINE w == [is |-> "checkpoint", cp |-> cp]
    <3>1. w \in ToVornd /\ w.is = "checkpoint" /\ w.cp = cp
      BY <2>3 DEF ToVornd, CheckpointMsgs, Restorable, Usable
    <3>2. Restorable(cp)'
      BY <1>1, <1>3, <2>2, <2>3, RestorableStays
    <3>3. toV' = Append(toV, w)
      BY <1>3, <2>1, <2>3, <3>1
    <3> HIDE DEF w
    <3>4. FineToVornd(w)'
      BY <3>1, <3>2 DEF FineToVornd
    <3>5. v.phase # "running"
      BY <1>2, <2>3 DEF Suits, Attaches
    <3> QED  BY <2>1, <2>2, <2>3, <3>1, <3>3, <3>4, <3>5, AttachAnswered
  <2>4. CASE m.at = "newest"
    <3>1. newest # None /\ at = newest.resume
      BY <1>4, <2>4 DEF at, AttachedAt
    <3>2. Restorable(newest)
      BY <1>3, <3>1 DEF StoredFine
    <3>3. CheckpointOf(m) = <<[is |-> "checkpoint", cp |-> newest]>>
      BY <2>4 DEF CheckpointOf
    <3> QED  BY <2>3, <2>4, <3>1, <3>2, <3>3
  <2>5. CASE m.at = "fallback"
    <3>1. fallback # None /\ at = fallback.resume
      BY <1>4, <2>5 DEF at, AttachedAt
    <3>2. Restorable(fallback)
      BY <1>3, <3>1 DEF StoredFine
    <3>3. CheckpointOf(m) = <<[is |-> "checkpoint", cp |-> fallback]>>
      BY <2>5 DEF CheckpointOf
    <3> QED  BY <2>3, <2>5, <3>1, <3>2, <3>3
  <2>6. CASE m.at \in {"start", "cursor"}
    <3>1. toV' = toV
      <4>1. CheckpointOf(m) = <<>>
        BY <2>6 DEF CheckpointOf
      <4> QED  BY <1>3, <2>1, <4>1, ConcatEmptySeq
    <3>2. v.phase # "attaching"
      BY <1>2, <2>6 DEF Suits, Attaches
    <3>3. ASSUME v.phase = "running" PROVE at.rseq <= v.cursor.rseq
      <4>1. v.cursor.rseq \in Nat
        BY <1>3, EntryFields DEF Actor
      <4>2. CASE m.at = "start"
        <5>1. at.rseq = 0
          BY <4>2 DEF at, AttachedAt, Start
        <5> QED  BY <4>1, <5>1
      <4>3. CASE m.at = "cursor"
        <5>1. at = m.cursor
          BY <4>3 DEF at, AttachedAt
        <5> QED  BY <1>2, <3>3, <4>3, <5>1 DEF Suits, Attaches
      <4> QED  BY <2>6, <4>2, <4>3
    <3>4. at.rseq \in Nat
      BY <2>2, EntryFields
    <3> QED  BY <2>1, <2>2, <3>1, <3>2, <3>3, <3>4, AttachUnanswered
  <2>7. m.at \in {"newest", "fallback", "start", "cursor"}
    BY <1>2 DEF Attaches
  <2> QED  BY <2>4, <2>5, <2>6, <2>7
<1>5. CASE ~(at # None /\ at \in BoundariesOf(run', head'))
  <2>1. toV' = Append(toV, [is |-> "refused"]) /\ next' = None /\ sending' = sending
    BY <1>5 DEF ServesAttach, m
  <2>2. [is |-> "refused"] \in ToVornd /\ [is |-> "refused"].is = "refused"
    BY DEF ToVornd
  <2>3. Reaches
    BY <2>1 DEF Reaches, Reach
  <2>4. LinkFine'
    <3>1. sent' \in 0..Len(log')
      BY <1>1, <1>3, LogTypes DEF LinkFine, Grows
    <3> QED  BY <1>1, <1>3, <2>1, <3>1 DEF LinkFine
  <2>5. FineToVornd([is |-> "refused"])'
    BY <2>2 DEF FineToVornd
  <2> QED  BY <2>1, <2>2, <2>3, <2>4, <2>5, AttachAnswered
<1> QED  BY <1>4, <1>5

-----------------------------------------------------------------------------
(* What vornd hears, and what it does.                                     *)

(* A step of vornd's side leaves sessiond what it was.                     *)
LEMMA VorndMoves ==
  ASSUME RecoveryInv, UNCHANGED <<recordLogVars, log, linkVars, open, opens>>,
         notified \subseteq notified', ~NoVornd
  PROVE  /\ LogFine /\ Grows /\ Reaches /\ LogFine' /\ RunFine' /\ StoredFine' /\ LinkFine'
         /\ OpenFine /\ OpenFine' /\ opens' # 0 /\ opens' \in 0..MaxOpens
         /\ log' = log /\ head' = head /\ sent' = sent /\ next' = next /\ sending' = sending
         /\ open' = open /\ sent \in Nat /\ Len(log) \in Nat
<1>1. /\ LogFine /\ RunFine /\ StoredFine /\ LinkFine /\ opens # 0 /\ OpenFine /\ sent \in Nat
      /\ Len(log) \in Nat
  BY LogTypes DEF RecoveryInv, LinkFine
<1>2. /\ log' = log /\ head' = head /\ lost' = lost /\ overflow' = overflow /\ run' = run
      /\ newest' = newest /\ fallback' = fallback /\ retain_from' = retain_from
      /\ sent' = sent /\ next' = next /\ sending' = sending /\ open' = open /\ opens' = opens
  BY DEF recordLogVars, linkVars
<1>3. Grows /\ LogFine' /\ Reaches
  BY <1>1, <1>2, SameLog, SameReach
<1>4. Droppable(Len(log') - Len(run')) /\ IsEnd(run', log')
  BY <1>1, <1>2 DEF RunFine, IsEnd, Droppable, Base
<1>5. RunFine'
  BY <1>1, <1>3, <1>4, RunGrows
<1>6. StoredFine'
  BY <1>1, <1>2, <1>3, StoredStays DEF Retains
<1>7. LinkFine'
  BY <1>1, <1>3, LinkStays
<1>8. OpenFine'
  BY <1>1, <1>2, <1>3, OpenStays
<1> QED  BY <1>1, <1>2, <1>3, <1>5, <1>6, <1>7, <1>8 DEF RecoveryInv

(* Once the first message was heard.                                       *)
LEMMA Heard ==
  ASSUME RecoveryInv, toV # <<>>, toV' = Tail(toV), next' = next
  PROVE  /\ toV \in Seq(ToVornd) /\ toV' \in Seq(ToVornd) /\ Len(toV) \in Nat /\ Len(toV) >= 1
         /\ Len(toV') = Len(toV) - 1 /\ Head(toV) = toV[1] /\ toV[1] \in ToVornd
         /\ FineToVornd(toV[1])
         /\ \A i \in 1..Len(toV') : i + 1 \in 1..Len(toV) /\ toV'[i] = toV[i + 1]
         /\ \A x : \A i \in Nat : i # 0 /\ Comes(i, x)' => Comes(i + 1, x)
         /\ One(Answered)' /\ (Answered' # {} => Answered # {})
         /\ toV[1].is # "entry" => Answered # {} /\ Answered' = {}
<1>1. toV \in Seq(ToVornd) /\ \A m \in Among(toV) : FineToVornd(m)
  BY DEF RecoveryInv, WireFine
<1>2. /\ toV' \in Seq(ToVornd) /\ Len(toV) \in Nat /\ Len(toV) >= 1 /\ Len(toV') = Len(toV) - 1
      /\ Head(toV) = toV[1] /\ toV[1] \in ToVornd
      /\ \A i \in 1..Len(toV) - 1 : toV'[i] = toV[i + 1]
  BY <1>1, TailIs
<1>3. ASSUME NEW i \in 1..Len(toV') PROVE i + 1 \in 1..Len(toV) /\ toV'[i] = toV[i + 1]
  BY <1>2
<1>4. FineToVornd(toV[1])
  BY <1>1, <1>2, AmongIs
<1>5. ASSUME NEW i \in Nat, NEW x, i # 0, Comes(i, x)' PROVE Comes(i + 1, x)
  <2>1. CASE i \in 1..Len(toV') /\ toV'[i].is = "entry" /\ x = toV'[i].e.rseq
    BY <1>3, <2>1 DEF Comes
  <2>2. CASE i = Len(toV') + 1 /\ next' # None /\ x = next'.rseq
    BY <1>2, <2>2 DEF Comes
  <2> QED  BY <1>5, <2>1, <2>2 DEF Comes
<1>6. ASSUME NEW i \in Answered' PROVE i + 1 \in Answered /\ i \in Nat /\ i # 0
  BY <1>3, <1>6 DEF Answered
<1>7. One(Answered)
  BY DEF RecoveryInv, OnePending
<1>8. One(Answered)'
  BY <1>6, <1>7 DEF One
<1>9. ASSUME toV[1].is # "entry" PROVE Answered # {} /\ Answered' = {}
  <2>1. 1 \in Answered
    BY <1>2, <1>9 DEF Answered
  <2> QED  BY <1>6, <1>7, <2>1 DEF One
<1> QED  BY <1>1, <1>2, <1>3, <1>4, <1>5, <1>6, <1>8, <1>9

LEMMA HeardWire ==
  ASSUME RecoveryInv, toV # <<>>, toV' = Tail(toV), toS' = toS, next' = next, sent' = sent,
         Grows, Reaches, notified' = notified
  PROVE  WireFine'
<1>1. LogFine /\ WireFine /\ toV \in Seq(ToVornd) /\ sent \in Nat
  BY DEF RecoveryInv, WireFine, LinkFine
<1>2. toV' \in Seq(ToVornd) /\ Len(toV') = Len(toV) - 1 /\ Len(toV) \in Nat
  BY Heard
<1>3. Among(toV)' \subseteq Among(toV) /\ Among(toV) \subseteq ToVornd /\ Among(toS)' = Among(toS)
  <2>1. Among(toV)' = Among(Tail(toV)) /\ Among(toS)' = Among(toS)
    BY DEF Among
  <2> QED  BY <1>1, <2>1, AmongIs
<1>4. \A w \in Among(toV) : FineToVornd(w)'
  BY <1>1, <1>3, MessageStays DEF WireFine
<1>5. \A w \in Among(toS) : w.is = "checkpoint" => Restorable(w.cp)'
  BY <1>1, RestorableStays DEF WireFine
<1>6. Len(toV') <= Lane
  BY <1>1, <1>2, RecoveryAssumption DEF WireFine
<1> QED  BY <1>1, <1>2, <1>3, <1>4, <1>5, <1>6 DEF WireFine

(* What an actor skips.                                                    *)
LEMMA Skips ==
  ASSUME RecoveryInv, toV # <<>>, toV' = Tail(toV), v.phase # "down", v' = v, outs' = outs, toS' = toS,
         UNCHANGED <<recordLogVars, log, linkVars, open, opens, effectVars, missed>>,
         stranded' \in BOOLEAN,
         v.phase = "running" /\ v.started /\ toV[1].is = "entry" => toV[1].e.rseq < v.cursor.rseq
  PROVE  RecoveryInv'
<1>1. ~NoVornd /\ notified' = notified /\ rang' = rang /\ replied' = replied /\ missed' = missed
      /\ UNCHANGED vorndVars
  BY DEF NoVornd, Nobody, effectVars, vorndVars
<1>2. /\ LogFine /\ Grows /\ Reaches /\ LogFine' /\ RunFine' /\ StoredFine' /\ LinkFine'
      /\ OpenFine /\ OpenFine' /\ opens' # 0 /\ opens' \in 0..MaxOpens
      /\ sent' = sent /\ next' = next /\ open' = open /\ sent \in Nat
  BY <1>1, VorndMoves
<1>3. ActorFine' /\ OutsFine' /\ EffectsFine'
  BY <1>1, <1>2, FarSide
<1>4. WireFine'
  BY <1>1, <1>2, HeardWire
<1>5. /\ toV \in Seq(ToVornd) /\ toV' \in Seq(ToVornd) /\ Len(toV) \in Nat /\ Len(toV) >= 1
      /\ Len(toV') = Len(toV) - 1 /\ toV[1] \in ToVornd /\ FineToVornd(toV[1])
      /\ \A i \in 1..Len(toV') : i + 1 \in 1..Len(toV) /\ toV'[i] = toV[i + 1]
      /\ \A x : \A i \in Nat : i # 0 /\ Comes(i, x)' => Comes(i + 1, x)
      /\ One(Answered)' /\ (Answered' # {} => Answered # {})
  BY <1>2, Heard
<1>6. OnePending'
  <2>1. Asked(outs)' = Asked(outs) /\ Asked(toS)' = Asked(toS)
    BY DEF Asked
  <2>2. One(Asked(outs))' /\ One(Asked(toS))'
    BY <2>1 DEF RecoveryInv, OnePending, One
  <2> QED  BY <1>5, <2>1, <2>2 DEF RecoveryInv, OnePending
<1>7. WantedFine'
  <2>1. v.phase = "running" => \A i \in 1..Len(toV') : toV'[i].is # "checkpoint"
    BY <1>5 DEF RecoveryInv, WantedFine
  <2> QED  BY <2>1 DEF RecoveryInv, WantedFine, Suits
<1>8. Steady'
  <2> SUFFICES ASSUME v.phase \in {"attaching", "running"}, NEW i \in 1..Len(toV'), NEW x \in Nat,
                      Comes(i + 1, x)'
               PROVE  MayFollow(toV'[i], x, v)
    BY DEF Steady, MayFollow
  <2>1. i + 1 \in Nat /\ i + 1 # 0 /\ i + 1 \in 1..Len(toV) /\ toV'[i] = toV[i + 1]
    BY <1>5
  <2>2. Comes(i + 1 + 1, x)
    BY <1>5, <2>1
  <2> QED  BY <2>1, <2>2 DEF RecoveryInv, Steady
<1>9. First'
  <2> SUFFICES ASSUME v.phase = "running", v.started, NEW x \in Nat, Comes(1, x)'
               PROVE  x <= v.cursor.rseq
    BY DEF First
  <2>1. Comes(1 + 1, x)
    BY <1>5
  <2>2. 1 \in 1..Len(toV)
    BY <1>5
  <2>3. MayFollow(toV[1], x, v)
    BY <2>1, <2>2 DEF RecoveryInv, Steady
  <2>4. toV[1].is # "checkpoint"
    BY <2>2 DEF RecoveryInv, WantedFine
  <2>5. toV[1].is = "entry"
    BY <1>5, <2>3, <2>4 DEF MayFollow, ToVornd, CheckpointMsgs
  <2>6. v.cursor.rseq \in Nat /\ toV[1].e.rseq \in Nat
    <3>1. v \in Actor /\ toV[1].e \in Entry
      BY <1>5, <2>5 DEF RecoveryInv, ActorFine, ActorTyped, FineToVornd, Logged
    <3> QED  BY <3>1, EntryFields DEF Actor
  <2> QED  BY <2>3, <2>5, <2>6 DEF MayFollow
<1> QED  BY <1>1, <1>2, <1>3, <1>4, <1>6, <1>7, <1>8, <1>9 DEF RecoveryInv

(* An actor that restored nothing yet, or nothing that was shown a record: *)
(* what it asks for is one attach, and checkpoints it may cut at once.     *)
Rested(a, asked, o) ==
  /\ ActorTyped(a) /\ a.phase # "down"
  /\ a.phase = "running" => ~a.started /\ RunningFine(a, o) /\ Done(a.cursor.rseq)
  /\ asked \in Seq(ToSessiond) /\ One(Asked(asked))
  /\ \A m \in Among(asked) :
       Suits(m, a) /\ (m.is = "checkpoint" => FineCut(m.cp) /\ Done(m.cp.resume.rseq))

Began(r, o, at) ==
  /\ ActorTyped(r) /\ RunningFine(r, o)
  /\ r.phase = "running" /\ r.cursor = at /\ r.started = FALSE

(* What becomes of an actor that runs from somewhere, and of one that     *)
(* applies a record, field by field.                                       *)
Running(a, term, at, base, live, known, floor) ==
  [a EXCEPT !.phase = "running", !.term = term, !.cursor = at, !.base = base,
            !.started = FALSE, !.live = live, !.size_known = known,
            !.floor = floor, !.since = FALSE, !.step = "none"]

IsRunning(r, a, term, at, live, known) ==
  /\ r \in Actor /\ r.best = a.best /\ r.term = term /\ r.phase = "running"
  /\ r.cursor = at /\ r.started = FALSE /\ r.size_known = known /\ r.live = live

LEMMA RunsActor ==
  ASSUME NEW a \in Actor, NEW term \in Term, NEW at \in Cursor, NEW live \in BOOLEAN,
         NEW known \in BOOLEAN, NEW floor \in Cursor \cup {None},
         NEW base \in {"none", "newest", "fallback", "start", "best", "oldest"}
  PROVE  IsRunning(Running(a, term, at, base, live, known, floor), a, term, at, live, known)
<1> DEFINE r == Running(a, term, at, base, live, known, floor)
           r1 == [a EXCEPT !.phase = "running", !.term = term, !.cursor = at, !.base = base]
           r2 == [r1 EXCEPT !.started = FALSE, !.live = live, !.size_known = known]
           r3 == [r2 EXCEPT !.floor = floor, !.since = FALSE, !.step = "none"]
<1>1. r = r3
  BY DEF Running, Actor
<1>2. /\ r1 \in Actor /\ r1.best = a.best /\ r1.term = term /\ r1.phase = "running" /\ r1.cursor = at
  BY DEF Actor
<1> HIDE DEF r1
<1>3. r2 \in Actor
  BY <1>2 DEF Actor
<1>4. /\ r2.started = FALSE /\ r2.size_known = known /\ r2.live = live
      /\ r2.best = r1.best /\ r2.term = r1.term /\ r2.phase = r1.phase /\ r2.cursor = r1.cursor
  BY <1>2 DEF Actor
<1> HIDE DEF r2
<1>5. r3 \in Actor
  BY <1>3 DEF Actor
<1>6. /\ r3.best = r2.best /\ r3.term = r2.term /\ r3.phase = r2.phase /\ r3.cursor = r2.cursor
      /\ r3.started = r2.started /\ r3.size_known = r2.size_known /\ r3.live = r2.live
  BY <1>3 DEF Actor
<1> HIDE DEF r3, r
<1>7. IsRunning(r, a, term, at, live, known)
  BY <1>1, <1>2, <1>3, <1>4, <1>5, <1>6 DEF IsRunning
<1> QED  BY <1>7 DEF r

Moved(a, term, at, live, known, since) ==
  [a EXCEPT !.started = TRUE, !.cursor = at, !.term = term, !.live = live,
            !.size_known = known, !.since = since]

IsMoved(c, a, term, at, live, known) ==
  /\ c \in Actor /\ c.started = TRUE /\ c.cursor = at /\ c.term = term /\ c.live = live
  /\ c.size_known = known /\ c.best = a.best /\ c.phase = a.phase /\ c.step = a.step

LEMMA ShowsActor ==
  ASSUME NEW a \in Actor, NEW term \in Term, NEW at \in Cursor, NEW live \in BOOLEAN,
         NEW known \in BOOLEAN, NEW since \in BOOLEAN
  PROVE  IsMoved(Moved(a, term, at, live, known, since), a, term, at, live, known)
<1> DEFINE c == Moved(a, term, at, live, known, since)
           c1 == [a EXCEPT !.started = TRUE, !.cursor = at, !.term = term]
           c2 == [c1 EXCEPT !.live = live, !.size_known = known, !.since = since]
<1>1. c = c2
  BY DEF Moved, Actor
<1>2. /\ c1 \in Actor /\ c1.started = TRUE /\ c1.cursor = at /\ c1.term = term
      /\ c1.best = a.best /\ c1.phase = a.phase /\ c1.step = a.step
  BY DEF Actor
<1> HIDE DEF c1
<1>3. c2 \in Actor
  BY <1>2 DEF Actor
<1>4. c2.live = live /\ c2.size_known = known
  BY <1>2 DEF Actor
<1>5. /\ c2.started = c1.started /\ c2.cursor = c1.cursor /\ c2.term = c1.term /\ c2.best = c1.best
      /\ c2.phase = c1.phase /\ c2.step = c1.step
  BY <1>2 DEF Actor
<1> HIDE DEF c2, c
<1>6. IsMoved(c, a, term, at, live, known)
  BY <1>1, <1>2, <1>3, <1>4, <1>5 DEF IsMoved
<1> QED  BY <1>6 DEF c

LEMMA RunsFromFine ==
  ASSUME LogFine', NEW o \in Opened, NEW a, ActorTyped(a)', NEW term \in Term, term.size <= Len(log'),
         NEW at, Held(at)', NEW base \in {"newest", "fallback", "start", "best", "oldest"},
         NEW known \in BOOLEAN, known => Sound(term, at.rseq)',
         ~known => at = Start /\ term.size = o.size /\ term.right
  PROVE  Began(RunsFrom(a, o, term, at, base, known), o, at)'
<1> DEFINE r == RunsFrom(a, o, term, at, base, known)
<1>1. a \in Actor /\ (a.best # None => Usable(a.best)')
  BY DEF ActorTyped
<1>2. at \in Cursor /\ at.rseq \in Nat /\ IsBoundary(at)' /\ Reach(at.rseq)'
  BY EntryFields DEF Held, IsBoundary
<1>3. o.head \in Nat /\ o.newest \in Cursor \cup {None}
  BY DEF Opened
<1> DEFINE live == at.rseq >= o.head
<1>4. /\ r \in Actor /\ r.best = a.best /\ r.term = term /\ r.phase = "running" /\ r.cursor = at
      /\ r.started = FALSE /\ r.size_known = known /\ r.live = live
  <2>1. live \in BOOLEAN
    BY <1>2, <1>3
  <2>2. r = Running(a, term, at, base, live, known, o.newest)
    BY DEF RunsFrom, Running
  <2> HIDE DEF live, r
  <2>3. live \in BOOLEAN /\ known \in BOOLEAN /\ term \in Term /\ at \in Cursor
        /\ o.newest \in Cursor \cup {None}
        /\ base \in {"none", "newest", "fallback", "start", "best", "oldest"}
    BY <1>2, <1>3, <2>1
  <2>4. IsRunning(r, a, term, at, live, known)
    BY <1>1, <2>2, <2>3, RunsActor
  <2> QED  BY <2>4 DEF IsRunning
<1> HIDE DEF r
<1>5. ActorTyped(r)'
  BY <1>1, <1>4 DEF ActorTyped
<1>6. ViewFine(r, o)'
  <2>1. CASE known
    BY <1>4, <2>1 DEF ViewFine
  <2>2. CASE ~known
    <3>1. 1..r.cursor.rseq = {}
      BY <1>4, <2>2 DEF Start
    <3> QED  BY <1>4, <2>2, <3>1 DEF ViewFine
  <2> QED  BY <2>1, <2>2
<1>7. RunningFine(r, o)'
  BY <1>2, <1>3, <1>4, <1>6 DEF RunningFine
<1> QED  BY <1>4, <1>5, <1>7 DEF r, Began

(* A checkpoint that a running actor cuts.                                 *)
LEMMA CutFine ==
  ASSUME LogFine', NEW o, NEW a, ActorTyped(a)', RunningFine(a, o)'
  PROVE  /\ Cuts(a) \in CheckpointMsgs /\ FineCut(Cuts(a).cp)' /\ Cuts(a).cp.resume = a.cursor
         /\ Cuts(a).is = "checkpoint"
<1> DEFINE saved == [a.term EXCEPT !.blind = @ \/ ~a.size_known]
<1>1. a \in Actor /\ a.term \in Term /\ a.cursor \in Cursor
      /\ a.size_known \in BOOLEAN /\ a.term.size <= Len(log')
  BY DEF ActorTyped, Actor
<1>2. /\ saved \in Term /\ saved.size = a.term.size /\ saved.exact = a.term.exact
      /\ saved.right = a.term.right /\ saved.blind = (a.term.blind \/ ~a.size_known)
  BY <1>1 DEF Term
<1>3. /\ Cuts(a) = [is |-> "checkpoint", cp |-> [resume |-> a.cursor, blob |-> saved]]
  BY DEF Cuts
<1> HIDE DEF saved
<1>4. Cuts(a) \in CheckpointMsgs /\ Cuts(a).cp.resume = a.cursor /\ Cuts(a).cp.blob = saved
      /\ Cuts(a).is = "checkpoint"
  BY <1>1, <1>2, <1>3 DEF CheckpointMsgs, Saved
<1>5. Sound(saved, a.cursor.rseq)'
  BY <1>1, <1>2 DEF Sound, RunningFine, ViewFine
<1>6. FineCut(Cuts(a).cp)'
  BY <1>1, <1>2, <1>4, <1>5 DEF FineCut, RunningFine
<1> QED  BY <1>4, <1>6

LEMMA AfterCutIs ==
  ASSUME NEW a \in Actor
  PROVE  /\ AfterCut(a).asked \in {<<>>, <<Cuts(a)>>} /\ AfterCut(a).actor \in Actor
         /\ AfterCut(a).actor.cursor = a.cursor /\ AfterCut(a).actor.phase = a.phase
         /\ AfterCut(a).actor.term = a.term /\ AfterCut(a).actor.started = a.started
         /\ AfterCut(a).actor.live = a.live /\ AfterCut(a).actor.size_known = a.size_known
         /\ AfterCut(a).actor.best = a.best /\ AfterCut(a).actor.step = a.step
<1>1. CASE PastFloor(a)
  BY <1>1 DEF AfterCut, Turn, Actor
<1>2. CASE ~PastFloor(a)
  BY <1>2 DEF AfterCut, Turn
<1> QED  BY <1>1, <1>2

LEMMA AfterCutFine ==
  ASSUME LogFine', NEW o, NEW a, ActorTyped(a)', RunningFine(a, o)', a.phase = "running"
  PROVE  ActorTyped(AfterCut(a).actor)' /\ RunningFine(AfterCut(a).actor, o)'
<1> DEFINE c == AfterCut(a).actor
<1>1. a \in Actor
  BY DEF ActorTyped
<1>2. /\ c \in Actor /\ c.cursor = a.cursor /\ c.phase = "running" /\ c.term = a.term
      /\ c.live = a.live /\ c.size_known = a.size_known /\ c.best = a.best
  BY <1>1, AfterCutIs
<1> HIDE DEF c
<1>3. ActorTyped(c)'
  BY <1>2 DEF ActorTyped
<1>4. RunningFine(c, o)'
  BY <1>2 DEF RunningFine, ViewFine
<1> QED  BY <1>3, <1>4 DEF c

LEMMA OneAsked ==
  ASSUME NEW m
  PROVE  Asked(<<m>>) \subseteq {1} /\ Among(<<m>>) = {m} /\ One(Asked(<<m>>))
BY DEF Asked, Among, One

LEMMA ApproximatesRested ==
  ASSUME LogFine', NEW o \in Opened, Held(o.oldest)', o.size <= Len(log'), NEW a, ActorTyped(a)'
  PROVE  Rested(Approximates(a, o).actor, Approximates(a, o).asked, o)'
<1> DEFINE at == IF a.best = None THEN o.oldest ELSE a.best.resume
           term == IF a.best = None THEN Blank(o.size) ELSE [a.best.blob EXCEPT !.exact = FALSE]
           base == IF a.best = None THEN "oldest" ELSE "best"
           b == [a EXCEPT !.best = None]
           m == [is |-> "attach", at |-> "cursor", cursor |-> at]
           r == RunsFrom(b, o, term, at, base, TRUE)
<1>1. a \in Actor /\ (a.best # None => Usable(a.best)') /\ a.best \in Saved \cup {None}
  BY DEF ActorTyped, Actor
<1>2. Held(at)' /\ at \in Cursor
  BY <1>1 DEF Usable, Held, IsBoundary
<1>3. term \in Term /\ term.size <= Len(log') /\ term.exact = FALSE
  <2>1. CASE a.best = None
    BY <2>1 DEF Blank, Term, Opened
  <2>2. CASE a.best # None
    <3>1. a.best \in Saved /\ a.best.blob \in Term /\ a.best.blob.size <= Len(log')
      BY <1>1, <2>2 DEF Usable, Saved
    <3> QED  BY <2>2, <3>1 DEF Term
  <2> QED  BY <2>1, <2>2
<1>4. ActorTyped(b)'
  <2>1. b \in Actor /\ b.best = None /\ b.term = a.term /\ b.phase = a.phase /\ b.step = a.step
    BY <1>1 DEF Actor
  <2> HIDE DEF b
  <2> QED  BY <2>1 DEF ActorTyped
<1>5. base \in {"newest", "fallback", "start", "best", "oldest"}
  OBVIOUS
<1>6. Approximates(a, o).actor = r /\ Approximates(a, o).asked = <<m>>
  BY DEF Approximates, Turn
<1>7. m \in ToSessiond /\ m.is = "attach" /\ m.at = "cursor" /\ m.cursor = at
  BY <1>2 DEF ToSessiond, Attaches
<1> HIDE DEF at, term, base, b, m
<1>8. Sound(term, at.rseq)'
  BY <1>3 DEF Sound
<1>9. /\ ActorTyped(r)' /\ RunningFine(r, o)' /\ r.phase = "running" /\ r.cursor = at
      /\ r.started = FALSE
  <2>1. Began(r, o, at)'
    BY <1>2, <1>3, <1>4, <1>5, <1>8, RunsFromFine
  <2> QED  BY <2>1 DEF Began
<1>10. Done(r.cursor.rseq)'
  BY <1>2, <1>9 DEF Held
<1> HIDE DEF r
<1>11. Suits(m, r)
  <2>1. at.rseq \in Nat
    BY <1>2, EntryFields
  <2> QED  BY <1>7, <1>9, <2>1 DEF Suits
<1>12. <<m>> \in Seq(ToSessiond) /\ One(Asked(<<m>>)) /\ Among(<<m>>) = {m}
  BY <1>7, OneAsked
<1>13. Rested(r, <<m>>, o)'
  BY <1>7, <1>9, <1>10, <1>11, <1>12 DEF Rested
<1> QED  BY <1>6, <1>13

LEMMA StartHeld ==
  ASSUME LogFine', LinkFine'
  PROVE  Held(Start)' /\ Sound(Fresh(0), 0)'
<1>1. IsLog(log', head') /\ Start \in Cursor /\ Start.rseq = 0 /\ Len(log') \in Nat
  BY DEF LogFine, IsLog, Start, Cursor
<1>2. IsBoundary(Start)'
  BY <1>1 DEF IsLog, IsBoundary
<1>3. Done(Start.rseq)'
  BY <1>1 DEF Done
<1>4. Reach(Start.rseq)'
  BY <1>1, EntryFields DEF Reach, LinkFine, IsBoundary
<1>5. Largest({0}) = 0
  BY LargestIs
<1>6. SizeAt(0)' = 0
  <2>1. {i \in 1..0 : log'[i].kind = "resize"} = {}
    OBVIOUS
  <2>2. {0} \cup {} = {0}
    OBVIOUS
  <2> QED  BY <1>5, <2>1, <2>2 DEF SizeAt
<1>7. Sound(Fresh(0), 0)'
  BY <1>6 DEF Sound, Fresh
<1> QED  BY <1>2, <1>3, <1>4, <1>7 DEF Held

LEMMA AsksRested ==
  ASSUME LogFine', LinkFine', NEW o \in Opened, Held(o.oldest)', o.size <= Len(log'),
         o.size_known => o.size = 0, NEW a, ActorTyped(a)'
  PROVE  Rested(Asks(a, o).actor, Asks(a, o).asked, o)'
<1>1. a \in Actor /\ a.steps \in Seq({"newest", "fallback", "start"})
  BY DEF ActorTyped, Actor
<1>2. CASE a.steps = <<>>
  BY <1>2, ApproximatesRested DEF Asks
<1>3. CASE a.steps # <<>>
  <2> DEFINE b == [a EXCEPT !.steps = Tail(@)]
             step == Head(a.steps)
  <2>1. /\ b \in Actor /\ b.best = a.best /\ b.term = a.term /\ b.phase = a.phase /\ b.step = a.step
        /\ b.started = a.started
    <3>1. Tail(a.steps) \in Seq({"newest", "fallback", "start"})
      BY <1>1, <1>3
    <3> QED  BY <1>1, <3>1 DEF Actor
  <2>2. step \in {"newest", "fallback", "start"}
    BY <1>1, <1>3
  <2>3. Asks(a, o) =
          IF step = "start"
          THEN LET started == RunsFrom(b, o, Fresh(o.size), Start, "start", o.size_known)
                   cut == IF o.newest = None /\ o.size_known THEN AfterCut(started) ELSE Turn(started, <<>>)
               IN  Turn(cut.actor, <<Attach("start")>> \o cut.asked)
          ELSE Turn([b EXCEPT !.phase = "attaching", !.step = step], <<Attach(step)>>)
    BY <1>3 DEF Asks
  <2> HIDE DEF b, step
  <2>4. ActorTyped(b)'
    BY <2>1 DEF ActorTyped
  <2>5. CASE step = "start"
    <3> DEFINE st == RunsFrom(b, o, Fresh(o.size), Start, "start", o.size_known)
               cut == IF o.newest = None /\ o.size_known THEN AfterCut(st) ELSE Turn(st, <<>>)
               m == Attach("start")
    <3>1. Fresh(o.size) \in Term /\ Fresh(o.size).size = o.size /\ Fresh(o.size).right
          /\ o.size_known \in BOOLEAN
      BY DEF Fresh, Term, Opened
    <3>2. Held(Start)' /\ Start.rseq = 0 /\ (o.size_known => Sound(Fresh(o.size), Start.rseq)')
      BY StartHeld DEF Start
    <3>3. /\ ActorTyped(st)' /\ RunningFine(st, o)' /\ st.phase = "running" /\ st.cursor = Start
          /\ st.started = FALSE
      <4>1. Began(st, o, Start)'
        BY <2>4, <3>1, <3>2, RunsFromFine
      <4> QED  BY <4>1 DEF Began
    <3> HIDE DEF st
    <3>4. /\ ActorTyped(cut.actor)' /\ RunningFine(cut.actor, o)' /\ cut.actor.phase = "running"
          /\ cut.actor.cursor = Start /\ cut.actor.started = FALSE
          /\ cut.asked \in {<<>>, <<Cuts(st)>>}
      <4>1. st \in Actor
        BY <3>3 DEF ActorTyped
      <4>2. CASE o.newest = None /\ o.size_known
        <5>1. cut = AfterCut(st)
          BY <4>2
        <5> QED  BY <3>3, <4>1, <5>1, AfterCutIs, AfterCutFine
      <4>3. CASE ~(o.newest = None /\ o.size_known)
        <5>1. cut.actor = st /\ cut.asked = <<>>
          BY <4>3 DEF Turn
        <5> QED  BY <3>3, <5>1
      <4> QED  BY <4>2, <4>3
    <3>5. Asks(a, o).actor = cut.actor /\ Asks(a, o).asked = <<m>> \o cut.asked
      BY <2>3, <2>5 DEF Turn, st
    <3> DEFINE asked == Asks(a, o).asked
               c == cut.actor
    <3>6. /\ Cuts(st) \in CheckpointMsgs /\ FineCut(Cuts(st).cp)' /\ Cuts(st).cp.resume = Start
          /\ Cuts(st).is = "checkpoint"
      BY <3>3, CutFine
    <3>7. m \in ToSessiond /\ m.is = "attach" /\ m.at = "start" /\ Cuts(st) \in ToSessiond
      BY <3>6 DEF Attach, ToSessiond, Attaches
    <3> HIDE DEF m, cut
    <3>8. asked \in {<<m>>, <<m, Cuts(st)>>}
      <4>1. CASE cut.asked = <<>>
        <5>1. <<m>> \o <<>> = <<m>>
          BY <3>7, ConcatEmptySeq
        <5> QED  BY <3>5, <4>1, <5>1
      <4>2. CASE cut.asked = <<Cuts(st)>>
        <5> DEFINE u == <<m>> \o <<Cuts(st)>>
        <5>1. u \in Seq(ToSessiond) /\ Len(u) = 2 /\ u[1] = m /\ u[2] = Cuts(st)
          BY <3>7
        <5>2. asked = u
          BY <3>5, <4>2 DEF asked
        <5> HIDE DEF u
        <5>3. u = <<u[1], u[2]>>
          BY <5>1
        <5> QED  BY <5>1, <5>2, <5>3
      <4> QED  BY <3>4, <4>1, <4>2
    <3> HIDE DEF asked
    <3>9. /\ asked \in Seq(ToSessiond) /\ Among(asked) \subseteq {m, Cuts(st)} /\ Asked(asked) \subseteq {1}
      <4>1. CASE asked = <<m>>
        BY <3>7, <4>1, OneAsked
      <4>2. CASE asked = <<m, Cuts(st)>>
        <5>1. asked \in Seq(ToSessiond) /\ Len(asked) = 2 /\ asked[1] = m /\ asked[2] = Cuts(st)
          BY <3>7, <4>2
        <5>2. 1..2 = {1, 2}
          OBVIOUS
        <5> QED  BY <3>6, <5>1, <5>2 DEF Among, Asked
      <4> QED  BY <3>8, <4>1, <4>2
    <3>10. One(Asked(asked))
      BY <3>9 DEF One
    <3>11. Suits(m, c) /\ Suits(Cuts(st), c)
      BY <3>4, <3>6, <3>7 DEF Suits
    <3>12. Done(c.cursor.rseq)' /\ Done(Cuts(st).cp.resume.rseq)'
      BY <3>2, <3>4, <3>6 DEF Held
    <3>13. ASSUME NEW w \in Among(asked)
           PROVE  Suits(w, c) /\ (w.is = "checkpoint" => FineCut(w.cp)' /\ Done(w.cp.resume.rseq)')
      <4>1. w = m \/ w = Cuts(st)
        BY <3>9
      <4> QED  BY <3>6, <3>7, <3>11, <3>12, <4>1
    <3>14. ActorTyped(c)' /\ RunningFine(c, o)' /\ c.phase = "running" /\ ~c.started
      BY <3>4
    <3> HIDE DEF c
    <3>15. Rested(c, asked, o)'
      BY <3>9, <3>10, <3>12, <3>13, <3>14 DEF Rested
    <3> QED  BY <3>5, <3>15 DEF c, asked
  <2>6. CASE step \in {"newest", "fallback"}
    <3> DEFINE c == [b EXCEPT !.phase = "attaching", !.step = step]
               m == Attach(step)
    <3>1. Asks(a, o).actor = c /\ Asks(a, o).asked = <<m>>
      BY <2>3, <2>6 DEF Turn
    <3>2. /\ c \in Actor /\ c.phase = "attaching" /\ c.step = step /\ c.best = b.best
          /\ c.term = b.term /\ c.started = b.started
      BY <2>1, <2>6 DEF Actor
    <3>3. m \in ToSessiond /\ m.is = "attach" /\ m.at = step
      BY <2>6 DEF Attach, ToSessiond, Attaches
    <3> HIDE DEF c, m
    <3>4. ActorTyped(c)'
      BY <2>4, <2>6, <3>2 DEF ActorTyped
    <3>5. <<m>> \in Seq(ToSessiond) /\ One(Asked(<<m>>)) /\ Among(<<m>>) = {m}
      BY <3>3, OneAsked
    <3>6. Suits(m, c)
      BY <2>6, <3>2, <3>3 DEF Suits
    <3>7. Rested(c, <<m>>, o)'
      BY <2>1, <3>2, <3>3, <3>4, <3>5, <3>6 DEF Rested
    <3> QED  BY <3>1, <3>7
  <2> QED  BY <2>2, <2>5, <2>6
<1> QED  BY <1>2, <1>3

LEMMA PlainOuts ==
  ASSUME NEW s \in Seq(ToSessiond), outs' = s,
         \A m \in Among(s) : m.is = "checkpoint" => FineCut(m.cp)' /\ Done(m.cp.resume.rseq)'
  PROVE  OutsFine'
<1>1. \A m \in ToSessiond : m.is \in {"attach", "checkpoint"}
  BY DEF ToSessiond, Attaches, CheckpointMsgs
<1>2. Among(s) \subseteq ToSessiond /\ ToSessiond \subseteq ToHost /\ s \in Seq(ToHost)
  BY DEF Among, ToHost
<1>3. ASSUME NEW i \in 1..Len(s), NEW m \in ToHost, m = s[i] PROVE FineOut(i, m)'
  <2>1. m \in Among(s) /\ m \in ToSessiond
    BY <1>3 DEF Among
  <2>2. ASSUME m.is = "checkpoint" PROVE FineCut(m.cp)' /\ Covers(m.cp.resume.rseq, i - 1)'
    BY <2>1, <2>2 DEF Done, Covers
  <2> QED  BY <1>1, <2>1, <2>2 DEF FineOut
<1>4. \A i \in 1..Len(s) : s[i].is \notin {"effects", "reply"}
  BY <1>1
<1> QED  BY <1>2, <1>3, <1>4 DEF OutsFine

LEMMA AmongConcat ==
  ASSUME NEW S, NEW s \in Seq(S), NEW t \in Seq(S)
  PROVE  /\ s \o t \in Seq(S) /\ Among(s \o t) = Among(s) \cup Among(t)
         /\ Len(s \o t) = Len(s) + Len(t) /\ Len(s) \in Nat /\ Len(t) \in Nat
         /\ \A i \in 1..Len(s) : (s \o t)[i] = s[i]
         /\ \A i \in 1..Len(t) : (s \o t)[Len(s) + i] = t[i]
         /\ \A k \in 1..Len(s) + Len(t) : k \in 1..Len(s) \/ k - Len(s) \in 1..Len(t)
<1> DEFINE u == s \o t
<1>1. u \in Seq(S) /\ Len(u) = Len(s) + Len(t) /\ Len(s) \in Nat /\ Len(t) \in Nat
  OBVIOUS
<1>2. \A i \in 1..Len(s) : u[i] = s[i]
  OBVIOUS
<1>3. \A i \in 1..Len(t) : u[Len(s) + i] = t[i]
  OBVIOUS
<1> HIDE DEF u
<1>4. \A k \in 1..Len(s) + Len(t) : k \in 1..Len(s) \/ k - Len(s) \in 1..Len(t)
  BY <1>1
<1>5. Among(u) = Among(s) \cup Among(t)
  <2>1. ASSUME NEW k \in 1..Len(u) PROVE u[k] \in Among(s) \cup Among(t)
    <3>1. CASE k \in 1..Len(s)
      BY <1>2, <3>1 DEF Among
    <3>2. CASE k - Len(s) \in 1..Len(t)
      <4>1. Len(s) + (k - Len(s)) = k
        BY <1>1
      <4> QED  BY <1>3, <3>2, <4>1 DEF Among
    <3> QED  BY <1>1, <1>4, <3>1, <3>2
  <2>2. ASSUME NEW i \in 1..Len(s) PROVE s[i] \in Among(u)
    <3>1. i \in 1..Len(u) /\ u[i] = s[i]
      BY <1>1, <1>2
    <3> QED  BY <3>1 DEF Among
  <2>3. ASSUME NEW i \in 1..Len(t) PROVE t[i] \in Among(u)
    <3>1. Len(s) + i \in 1..Len(u) /\ u[Len(s) + i] = t[i]
      BY <1>1, <1>3
    <3> QED  BY <3>1 DEF Among
  <2> QED  BY <2>1, <2>2, <2>3 DEF Among
<1> QED  BY <1>1, <1>2, <1>3, <1>4, <1>5 DEF u

LEMMA OneOfTwo ==
  ASSUME NEW S, NEW s \in Seq(S), NEW t \in Seq(S), Asked(s) = {}, One(Asked(t))
  PROVE  One(Asked(s \o t))
<1> DEFINE u == s \o t
<1>1. /\ Len(u) = Len(s) + Len(t) /\ Len(s) \in Nat /\ Len(t) \in Nat
      /\ \A i \in 1..Len(s) : u[i] = s[i]
      /\ \A i \in 1..Len(t) : u[Len(s) + i] = t[i]
      /\ \A k \in 1..Len(s) + Len(t) : k \in 1..Len(s) \/ k - Len(s) \in 1..Len(t)
  BY AmongConcat
<1> HIDE DEF u
<1>2. ASSUME NEW k \in Asked(u) PROVE k - Len(s) \in Asked(t) /\ k \in Int
  <2>1. k \in 1..Len(s) + Len(t) /\ u[k].is = "attach"
    BY <1>1, <1>2 DEF Asked
  <2>2. CASE k \in 1..Len(s)
    <3>1. k \in Asked(s)
      BY <1>1, <2>1, <2>2 DEF Asked
    <3> QED  BY <3>1
  <2>3. CASE k - Len(s) \in 1..Len(t)
    <3>1. Len(s) + (k - Len(s)) = k
      BY <1>1, <2>1
    <3> QED  BY <1>1, <2>1, <2>3, <3>1 DEF Asked
  <2> QED  BY <1>1, <2>1, <2>2, <2>3
<1>3. ASSUME NEW i \in Asked(u), NEW j \in Asked(u) PROVE i = j
  <2>1. i - Len(s) = j - Len(s)
    BY <1>2 DEF One
  <2> QED  BY <1>1, <1>2, <2>1
<1> QED  BY <1>3 DEF One, u

LEMMA RestsFine ==
  ASSUME NEW q \in Seq(CheckpointMsgs), NEW a, NEW asked, NEW o,
         \A m \in Among(q) : FineCut(m.cp)' /\ Done(m.cp.resume.rseq)',
         v' = a, outs' = q \o asked, open' = o, Rested(a, asked, o)',
         Asked(toS)' = {}, Answered' = {}
  PROVE  ActorFine' /\ OutsFine' /\ OnePending' /\ WantedFine' /\ First'
<1>1. q \in Seq(ToSessiond) /\ asked \in Seq(ToSessiond)
  BY DEF ToSessiond, Rested
<1>2. q \o asked \in Seq(ToSessiond) /\ Among(q \o asked) = Among(q) \cup Among(asked)
  BY <1>1, AmongConcat
<1>3. \A m \in Among(q) : m.is = "checkpoint"
  <2>1. Among(q) \subseteq CheckpointMsgs
    BY AmongIs
  <2> QED  BY <2>1 DEF CheckpointMsgs
<1>4. \A m \in Among(asked) :
        Suits(m, a) /\ (m.is = "checkpoint" => FineCut(m.cp)' /\ Done(m.cp.resume.rseq)')
  BY DEF Rested
<1>5. OutsFine'
  BY <1>2, <1>4, PlainOuts
<1>6. ActorFine'
  <2>1. ActorTyped(a)' /\ (a.phase = "running" => RunningFine(a, o)' /\ Done(a.cursor.rseq)')
    BY DEF Rested
  <2>2. ASSUME NEW n, NEW c, Done(c)' PROVE Covers(c, n)'
    BY <2>2 DEF Done, Covers
  <2> QED  BY <2>1, <2>2 DEF ActorFine
<1>7. OnePending'
  <2>1. Asked(q) = {}
    BY <1>3 DEF Asked, Among
  <2>2. One(Asked(q \o asked))
    BY <1>1, <2>1, OneOfTwo DEF Rested
  <2>3. Asked(outs)' = Asked(q \o asked)
    BY DEF Asked
  <2>4. One(Asked(outs))'
    BY <2>2, <2>3 DEF One
  <2> QED  BY <2>4 DEF OnePending, One
<1>8. WantedFine'
  <2>1. \A m \in Among(q \o asked) : Suits(m, a)
    BY <1>2, <1>3, <1>4 DEF Suits
  <2>2. \A i \in 1..Len(outs') : Suits(outs'[i], a)
    BY <2>1 DEF Among
  <2>3. \A i \in 1..Len(toS') : toS'[i].is # "attach"
    BY DEF Asked
  <2>4. \A i \in 1..Len(toV') : toV'[i].is = "entry"
    BY DEF Answered
  <2> QED  BY <2>2, <2>3, <2>4 DEF WantedFine, Suits
<1>9. First'
  BY DEF Rested, First
<1> QED  BY <1>5, <1>6, <1>7, <1>8, <1>9

(* What an actor that has shown no record asked for, once its attach was   *)
(* answered.                                                               *)
LEMMA PlainBefore ==
  ASSUME RecoveryInv, v.phase # "down", ~(v.phase = "running" /\ v.started), Answered # {}
  PROVE  /\ outs \in Seq(CheckpointMsgs) /\ Asked(toS) = {}
         /\ \A m \in Among(outs) : FineCut(m.cp) /\ Done(m.cp.resume.rseq)
         /\ \A r : ~Past(r)
<1>1. \A r : ~Past(r)
  BY DEF Past
<1>2. Asked(outs) = {} /\ Asked(toS) = {}
  BY DEF RecoveryInv, OnePending
<1>3. /\ outs \in Seq(ToHost)
      /\ \A i \in 1..Len(outs), m \in ToHost : m = outs[i] => FineOut(i, m)
  BY DEF RecoveryInv, OutsFine
<1>4. ASSUME NEW i \in 1..Len(outs) PROVE outs[i] \in CheckpointMsgs
  <2>1. outs[i] \in ToHost /\ FineOut(i, outs[i])
    BY <1>3
  <2>2. outs[i].is # "attach"
    BY <1>2 DEF Asked
  <2>3. outs[i].is \notin {"effects", "reply"}
    BY <1>1, <2>1 DEF FineOut, FineEffects, FineReply
  <2> QED  BY <2>1, <2>2, <2>3 DEF ToHost, ToSessiond, Attaches
<1>5. outs \in Seq(CheckpointMsgs)
  BY <1>3, <1>4
<1>6. ASSUME NEW i \in 1..Len(outs) PROVE FineCut(outs[i].cp) /\ Done(outs[i].cp.resume.rseq)
  <2>1. outs[i] \in ToHost /\ FineOut(i, outs[i]) /\ outs[i].is = "checkpoint"
    BY <1>3, <1>4 DEF CheckpointMsgs
  <2>2. FineCut(outs[i].cp) /\ Covers(outs[i].cp.resume.rseq, i - 1)
    BY <2>1 DEF FineOut
  <2>3. \A r : ~Promised(r, i - 1)
    <3>1. \A j \in 1..i - 1 : outs[j].is = "checkpoint"
      <4>1. Len(outs) \in Nat
        BY <1>3
      <4>2. \A j \in 1..i - 1 : j \in 1..Len(outs)
        BY <4>1
      <4> QED  BY <1>4, <4>2 DEF CheckpointMsgs
    <3> QED  BY <3>1 DEF Promised
  <2> QED  BY <2>2, <2>3 DEF Covers, Done
<1> QED  BY <1>1, <1>2, <1>5, <1>6 DEF Among

(* The attach an actor waits for is answered.                              *)
LEMMA HearsAnswer ==
  ASSUME RecoveryInv, toV # <<>>, toV' = Tail(toV), toV[1].is # "entry", toS' = toS,
         v.phase \in {"attaching", "running"}, ~(v.phase = "running" /\ v.started),
         toV[1].is = "checkpoint" => v.phase = "attaching",
         UNCHANGED <<recordLogVars, log, linkVars, open, opens, effectVars, missed>>,
         stranded' \in BOOLEAN,
         NEW a, NEW asked, NEW o, open = o, v' = a, outs' = outs \o asked, Rested(a, asked, o)'
  PROVE  RecoveryInv'
<1>1. ~NoVornd /\ notified' = notified /\ rang' = rang /\ replied' = replied /\ missed' = missed
  BY DEF NoVornd, Nobody, effectVars
<1>2. /\ LogFine /\ Grows /\ Reaches /\ LogFine' /\ RunFine' /\ StoredFine' /\ LinkFine'
      /\ OpenFine' /\ opens' # 0 /\ opens' \in 0..MaxOpens
      /\ log' = log /\ sent' = sent /\ next' = next /\ open' = open /\ sent \in Nat
  BY <1>1, VorndMoves
<1>3. WireFine'
  BY <1>1, <1>2, HeardWire
<1>4. /\ toV \in Seq(ToVornd) /\ toV' \in Seq(ToVornd) /\ Len(toV) \in Nat /\ Len(toV) >= 1
      /\ Len(toV') = Len(toV) - 1 /\ toV[1] \in ToVornd
      /\ \A i \in 1..Len(toV') : i + 1 \in 1..Len(toV) /\ toV'[i] = toV[i + 1]
      /\ \A x : \A i \in Nat : i # 0 /\ Comes(i, x)' => Comes(i + 1, x)
      /\ Answered # {} /\ Answered' = {}
  BY <1>2, Heard
<1>E. \A i \in 1..Len(toV') : toV'[i].is = "entry"
  <2>1. Answered' = {}
    BY <1>4
  <2> QED  BY <2>1 DEF Answered
<1>5. /\ outs \in Seq(CheckpointMsgs) /\ Asked(toS) = {}
      /\ \A m \in Among(outs) : FineCut(m.cp) /\ Done(m.cp.resume.rseq)
      /\ \A r : ~Past(r)
  BY <1>4, PlainBefore
<1>6. \A m \in Among(outs) : FineCut(m.cp)' /\ Done(m.cp.resume.rseq)'
  <2> SUFFICES ASSUME NEW m \in Among(outs) PROVE FineCut(m.cp)' /\ Done(m.cp.resume.rseq)'
    OBVIOUS
  <2>1. m.cp \in Saved /\ FineCut(m.cp) /\ Done(m.cp.resume.rseq)
    <3>1. m \in CheckpointMsgs
      BY <1>5, AmongIs
    <3> QED  BY <1>5, <3>1 DEF CheckpointMsgs
  <2>2. m.cp.resume.rseq \in 0..Len(log)
    BY <1>2, <2>1, BoundaryRange DEF FineCut
  <2> QED  BY <1>1, <1>2, <2>1, <2>2, CutStays, DoneStays
<1>7. Asked(toS)' = {}
  BY <1>5 DEF Asked
<1>8. ActorFine' /\ OutsFine' /\ OnePending' /\ WantedFine' /\ First'
  <2>1. ASSUME NEW q, q = outs PROVE ActorFine' /\ OutsFine' /\ OnePending' /\ WantedFine' /\ First'
    BY <1>2, <1>4, <1>5, <1>6, <1>7, <2>1, RestsFine
  <2> QED  BY <2>1
<1>9. EffectsFine'
  BY <1>1, <1>2, <1>5 DEF RecoveryInv, EffectsFine
<1>10. Steady'
  <2> SUFFICES ASSUME NEW i \in 1..Len(toV'), NEW x \in Nat, Comes(i + 1, x)'
               PROVE  MayFollow(toV'[i], x, a)
    BY DEF Steady, MayFollow
  <2>1. i + 1 \in Nat /\ i + 1 # 0 /\ i + 1 \in 1..Len(toV) /\ toV'[i] = toV[i + 1]
    BY <1>4
  <2>2. Comes(i + 1 + 1, x)
    BY <1>4, <2>1
  <2>3. MayFollow(toV[i + 1], x, v)
    BY <2>1, <2>2 DEF RecoveryInv, Steady
  <2>4. toV[i + 1].is = "entry"
    BY <1>E, <2>1
  <2>5. CASE toV[1].is = "checkpoint"
    BY <2>1, <2>3, <2>4, <2>5 DEF MayFollow
  <2>6. CASE toV[1].is = "refused"
    <3>1. 1 \in 1..Len(toV') /\ 1 + 1 \in 1..Len(toV) /\ toV'[1] = toV[1 + 1] /\ 1 \in 1..Len(toV)
      BY <1>4
    <3>2. toV[1 + 1].is = "entry"
      BY <1>E, <3>1
    <3>3. toV[1 + 1].e.rseq \in Nat /\ Comes(1 + 1, toV[1 + 1].e.rseq)
      <4>1. toV[1 + 1] \in ToVornd
        BY <1>4, <3>1
      <4>2. toV[1 + 1].e \in Entry
        BY <3>2, <4>1 DEF ToVornd, CheckpointMsgs
      <4> QED  BY <3>1, <3>2, <4>2, EntryFields DEF Comes
    <3>4. MayFollow(toV[1], toV[1 + 1].e.rseq, v)
      BY <3>1, <3>3 DEF RecoveryInv, Steady
    <3> QED  BY <2>6, <3>4 DEF MayFollow
  <2>7. toV[1].is \in {"checkpoint", "refused"}
    BY <1>4 DEF ToVornd, CheckpointMsgs
  <2> QED  BY <2>5, <2>6, <2>7
<1> QED  BY <1>1, <1>2, <1>3, <1>8, <1>9, <1>10 DEF RecoveryInv

(* Keeping a restorable checkpoint, with what it was before it was rebuilt. *)
LEMMA BestTyped ==
  ASSUME NEW a, ActorTyped(a)', NEW cp, Usable(cp)', NEW b, b = [a EXCEPT !.best = cp]
  PROVE  ActorTyped(b)'
<1>1. a \in Actor /\ cp \in Saved
  BY DEF ActorTyped, Usable
<1>2. b \in Actor /\ b.best = cp /\ b.term = a.term /\ b.phase = a.phase /\ b.step = a.step
  BY <1>1 DEF Actor
<1> QED  BY <1>2 DEF ActorTyped

LEMMA NoBestTyped ==
  ASSUME NEW a, ActorTyped(a)', NEW b, b = [a EXCEPT !.best = None]
  PROVE  ActorTyped(b)'
<1>1. a \in Actor
  BY DEF ActorTyped
<1>2. b \in Actor /\ b.best = None /\ b.term = a.term /\ b.phase = a.phase /\ b.step = a.step
  BY <1>1 DEF Actor
<1> QED  BY <1>2 DEF ActorTyped

LEMMA OfferedRested ==
  ASSUME LogFine', LinkFine', NEW o \in Opened, Held(o.oldest)', o.size <= Len(log'),
         o.size_known => o.size = 0, NEW a, ActorTyped(a)', a.phase = "attaching",
         NEW cp, Restorable(cp)', NEW check \in {"passes", "rebuilds", "fails"}
  PROVE  Rested(Offered(a, o, cp, check).actor, Offered(a, o, cp, check).asked, o)'
<1>1. a \in Actor /\ Usable(cp)' /\ cp \in Saved /\ Held(cp.resume)' /\ cp.blob.size <= Len(log')
      /\ Sound(cp.blob, cp.resume.rseq)'
  BY DEF ActorTyped, Restorable, Usable
<1>2. CASE check = "passes"
  <2> DEFINE b == [a EXCEPT !.best = None]
             r == RunsFrom(b, o, cp.blob, cp.resume, a.step, TRUE)
  <2>1. Offered(a, o, cp, check).actor = r /\ Offered(a, o, cp, check).asked = <<>>
    BY <1>2 DEF Offered, Turn
  <2>2. ActorTyped(b)'
    BY NoBestTyped
  <2>3. a.step \in {"newest", "fallback", "start", "best", "oldest"}
    BY DEF ActorTyped, Actor
  <2>4. cp.blob \in Term
    BY <1>1 DEF Saved
  <2> HIDE DEF b
  <2>5. Began(r, o, cp.resume)'
    BY <1>1, <2>2, <2>3, <2>4, RunsFromFine
  <2> HIDE DEF r
  <2>6. <<>> \in Seq(ToSessiond) /\ Among(<<>>) = {} /\ One(Asked(<<>>))
    BY DEF Among, Asked, One
  <2>7. Done(r.cursor.rseq)'
    BY <1>1, <2>5 DEF Began, Held
  <2>8. Rested(r, <<>>, o)'
    BY <2>5, <2>6, <2>7 DEF Rested, Began
  <2> QED  BY <2>1, <2>8
<1>3. CASE check = "rebuilds"
  <2> DEFINE kept == [cp EXCEPT !.blob.right = FALSE]
             b == IF a.best = None THEN [a EXCEPT !.best = kept] ELSE a
  <2>1. Offered(a, o, cp, check) = Asks(b, o)
    BY <1>3 DEF Offered
  <2>2. kept \in Saved /\ kept.resume = cp.resume /\ kept.blob.size = cp.blob.size
    BY <1>1 DEF Saved, Term
  <2> HIDE DEF kept
  <2>3. Usable(kept)'
    BY <1>1, <2>2 DEF Usable
  <2>4. ActorTyped(b)'
    BY <2>3, BestTyped
  <2> HIDE DEF b
  <2> QED  BY <2>1, <2>4, AsksRested
<1>4. CASE check = "fails"
  <2>1. Offered(a, o, cp, check) = Asks(a, o)
    BY <1>4 DEF Offered
  <2> QED  BY <2>1, AsksRested
<1> QED  BY <1>2, <1>3, <1>4

LEMMA HearsCheckpointStep ==
  ASSUME RecoveryInv, HearsCheckpoint
  PROVE  RecoveryInv'
<1>1. /\ v.phase # "down" /\ toV # <<>> /\ Head(toV).is = "checkpoint" /\ toV' = Tail(toV)
      /\ UNCHANGED <<recordLogVars, log, linkVars, toS, open, opens, effectVars>>
      /\ missed' = missed /\ stranded' = stranded /\ toS' = toS
  BY DEF HearsCheckpoint, Hears
<1>2. Head(toV) = toV[1] /\ toV[1] \in ToVornd /\ FineToVornd(toV[1]) /\ stranded' \in BOOLEAN
  BY <1>1, TailIs, AmongIs DEF RecoveryInv, WireFine
<1>3. CASE v.phase # "attaching"
  <2>1. v' = v /\ outs' = outs
    BY <1>3 DEF HearsCheckpoint
  <2>2. toV[1].is # "entry"
    BY <1>1, <1>2
  <2> QED  BY <1>1, <1>2, <2>1, <2>2, Skips
<1>4. CASE v.phase = "attaching"
  <2>1. PICK check \in {"passes", "rebuilds", "fails"} :
          Becomes(Offered(v, open, Head(toV).cp, check), outs)
    BY <1>4 DEF HearsCheckpoint
  <2>2. ~NoVornd /\ notified' = notified
    BY <1>1 DEF NoVornd, Nobody, effectVars
  <2>3. /\ LogFine /\ Grows /\ Reaches /\ LogFine' /\ LinkFine' /\ OpenFine /\ OpenFine' /\ open' = open
        /\ Len(log) \in Nat /\ log' = log
    BY <1>1, <2>2, VorndMoves
  <2>4. ASSUME NEW a, a = v, NEW o, o = open, NEW cp, cp = toV[1].cp PROVE RecoveryInv'
    <3>1. ActorTyped(a)'
      BY <2>2, <2>3, <2>4, TypedStays DEF RecoveryInv, ActorFine
    <3>2. Restorable(cp)'
      <4>1. Restorable(cp)
        BY <1>1, <1>2, <2>4 DEF FineToVornd
      <4> QED  BY <2>2, <2>3, <4>1, RestorableStays
    <3>3. Held(o.oldest)'
      BY <2>3, <2>4 DEF OpenFine
    <3>4. o \in Opened /\ o.size <= Len(log') /\ (o.size_known => o.size = 0)
      <4>1. open \in Opened /\ open.size <= open.head /\ open.head <= Len(log)
            /\ (open.size_known => open.size = 0)
        BY <2>3 DEF OpenFine
      <4>2. open.size \in Nat /\ open.head \in Nat
        BY <4>1 DEF Opened
      <4>3. open.size <= Len(log)
        BY <2>3, <4>1, <4>2
      <4> QED  BY <2>3, <2>4, <4>1, <4>3
    <3>5. Rested(Offered(a, o, cp, check).actor, Offered(a, o, cp, check).asked, o)'
      BY <1>4, <2>3, <2>4, <3>1, <3>2, <3>3, <3>4, OfferedRested
    <3>6. v' = Offered(a, o, cp, check).actor /\ outs' = outs \o Offered(a, o, cp, check).asked
      BY <1>2, <2>1, <2>4 DEF Becomes
    <3>7. toV[1].is = "checkpoint"
      BY <1>1, <1>2
    <3> QED  BY <1>1, <1>2, <1>4, <2>4, <3>5, <3>6, <3>7, HearsAnswer
  <2> QED  BY <2>4
<1> QED  BY <1>3, <1>4

LEMMA RefusedRested ==
  ASSUME LogFine', LinkFine', NEW o \in Opened, Held(o.oldest)', o.size <= Len(log'),
         o.size_known => o.size = 0, NEW a, ActorTyped(a)',
         a.phase = "attaching" \/ (a.phase = "running" /\ ~a.started)
  PROVE  Rested(Refused(a, o).actor, Refused(a, o).asked, o)'
<1>1. CASE a.phase = "attaching" \/ a.base = "start"
  <2>1. Refused(a, o) = Asks(a, o)
    BY <1>1 DEF Refused
  <2> QED  BY <2>1, AsksRested
<1>2. CASE a.phase = "running" /\ a.base = "best"
  <2>1. Refused(a, o) = Approximates(a, o)
    BY <1>2 DEF Refused
  <2> QED  BY <2>1, ApproximatesRested
<1>3. CASE a.phase = "running" /\ a.base \notin {"start", "best"}
  <2> DEFINE b == [a EXCEPT !.phase = "lost"]
  <2>1. Refused(a, o).actor = b /\ Refused(a, o).asked = <<>>
    BY <1>3 DEF Refused, Turn
  <2>2. a \in Actor
    BY DEF ActorTyped
  <2>3. b \in Actor /\ b.phase = "lost" /\ b.best = a.best /\ b.term = a.term
    BY <2>2 DEF Actor
  <2> HIDE DEF b
  <2>4. ActorTyped(b)'
    BY <2>3 DEF ActorTyped
  <2>5. <<>> \in Seq(ToSessiond) /\ Among(<<>>) = {} /\ One(Asked(<<>>))
    BY DEF Among, Asked, One
  <2>6. Rested(b, <<>>, o)'
    BY <2>3, <2>4, <2>5 DEF Rested
  <2> QED  BY <2>1, <2>6
<1> QED  BY <1>1, <1>2, <1>3

LEMMA HearsRefusedStep ==
  ASSUME RecoveryInv, HearsRefused
  PROVE  RecoveryInv'
<1>1. /\ v.phase # "down" /\ toV # <<>> /\ Head(toV).is = "refused" /\ toV' = Tail(toV)
      /\ UNCHANGED <<recordLogVars, log, linkVars, toS, open, opens, effectVars>>
      /\ missed' = missed /\ toS' = toS /\ Becomes(Refused(v, open), outs)
      /\ stranded' = (stranded \/ (v.phase = "running" /\ v.started))
  BY DEF HearsRefused, Hears
<1>2. Head(toV) = toV[1] /\ toV[1] \in ToVornd /\ v \in Actor /\ outs \in Seq(ToHost)
  BY <1>1, TailIs DEF RecoveryInv, WireFine, ActorFine, ActorTyped, OutsFine
<1>3. stranded' \in BOOLEAN
  BY <1>1 DEF RecoveryInv
<1>4. CASE ~(v.phase = "attaching" \/ (v.phase = "running" /\ ~v.started))
  <2>1. Refused(v, open) = Turn(v, <<>>)
    BY <1>4 DEF Refused
  <2>2. outs \o <<>> = outs
    BY <1>2, ConcatEmptySeq
  <2>3. v' = v /\ outs' = outs
    BY <1>1, <2>1, <2>2 DEF Becomes, Turn
  <2>4. toV[1].is # "entry"
    BY <1>1, <1>2
  <2> QED  BY <1>1, <1>3, <2>3, <2>4, Skips
<1>5. CASE v.phase = "attaching" \/ (v.phase = "running" /\ ~v.started)
  <2>2. ~NoVornd /\ notified' = notified
    BY <1>1 DEF NoVornd, Nobody, effectVars
  <2>3. /\ LogFine /\ Grows /\ Reaches /\ LogFine' /\ LinkFine' /\ OpenFine /\ OpenFine' /\ open' = open
        /\ Len(log) \in Nat /\ log' = log
    BY <1>1, <2>2, VorndMoves
  <2>4. ASSUME NEW a, a = v, NEW o, o = open PROVE RecoveryInv'
    <3>1. ActorTyped(a)'
      BY <2>2, <2>3, <2>4, TypedStays DEF RecoveryInv, ActorFine
    <3>2. Held(o.oldest)'
      BY <2>3, <2>4 DEF OpenFine
    <3>3. o \in Opened /\ o.size <= Len(log') /\ (o.size_known => o.size = 0)
      <4>1. open \in Opened /\ open.size <= open.head /\ open.head <= Len(log)
            /\ (open.size_known => open.size = 0)
        BY <2>3 DEF OpenFine
      <4>2. open.size \in Nat /\ open.head \in Nat
        BY <4>1 DEF Opened
      <4>3. open.size <= Len(log)
        BY <2>3, <4>1, <4>2
      <4> QED  BY <2>3, <2>4, <4>1, <4>3
    <3>4. Rested(Refused(a, o).actor, Refused(a, o).asked, o)'
      BY <1>5, <2>3, <2>4, <3>1, <3>2, <3>3, RefusedRested
    <3>5. v' = Refused(a, o).actor /\ outs' = outs \o Refused(a, o).asked
      BY <1>1, <2>4 DEF Becomes
    <3>6. toV[1].is = "refused"
      BY <1>1, <1>2
    <3> QED  BY <1>1, <1>3, <1>5, <2>4, <3>4, <3>5, <3>6, HearsAnswer
  <2> QED  BY <2>4
<1> QED  BY <1>4, <1>5

(* A vornd that takes the session on: nothing of the last one's is on its  *)
(* way.                                                                    *)
LEMMA OpensAnew ==
  ASSUME RecoveryInv, NEW o, Opens(o), Grows, LogFine', IsEnd(run', log'),
         Droppable(Len(log') - Len(run')), UNCHANGED <<newest, fallback, retain_from>>,
         o \in Opened, o.head <= Len(log'), o.sent <= sent, Held(o.oldest)', o.size <= o.head,
         o.size # 0 => log'[o.size].kind = "resize", o.size_known => o.size = 0,
         \A r \in 0..MaxRecords - 1 :
           /\ rang[r] = 1 => r < o.sent
           /\ replied[r] = 1 => r < o.head
  PROVE  RecoveryInv'
<1> DEFINE steps == IF o.newest = None THEN <<"start">> ELSE <<"newest", "fallback", "start">>
           n == [Nobody EXCEPT !.steps = steps]
           a == Asks(n, o).actor
           asked == Asks(n, o).asked
<1>1. /\ opens' = opens + 1 /\ opens < MaxOpens /\ open' = o /\ v' = a /\ outs' = <<>> \o asked
      /\ toV' = <<>> /\ toS' = <<>> /\ sending' = <<>> /\ next' = None /\ sent' = sent
      /\ notified' = notified /\ rang' = rang /\ replied' = replied
      /\ missed' = missed /\ stranded' = stranded
  BY DEF Opens, Becomes, effectVars
<1>2. steps \in Seq({"newest", "fallback", "start"})
  <2>1. <<"start">> \in Seq({"newest", "fallback", "start"})
    OBVIOUS
  <2>2. <<"newest", "fallback", "start">> \in Seq({"newest", "fallback", "start"})
    OBVIOUS
  <2> QED  BY <2>1, <2>2
<1> HIDE DEF steps
<1>3. n \in Actor /\ n.best = None /\ n.term = Fresh(0) /\ n.phase = "down"
  BY <1>2 DEF Actor, Nobody, Term, Fresh, Start, Cursor
<1> HIDE DEF n
<1>4. LogFine /\ LinkFine /\ Reaches /\ sent \in Nat /\ Len(log) \in Nat /\ Len(log') \in Nat
      /\ Len(log) <= Len(log')
  BY <1>1, LogTypes DEF RecoveryInv, LinkFine, Reaches, Reach, Grows, IsLog
<1>5. ActorTyped(n)'
  <2>1. n.term.size <= Len(log')
    BY <1>3, <1>4 DEF Fresh
  <2> QED  BY <1>3, <2>1 DEF ActorTyped
<1>6. RunFine'
  BY <1>1, <1>4, RunGrows
<1>7. StoredFine'
  BY <1>1, <1>4, StoredStays DEF RecoveryInv, Retains
<1>8. LinkFine'
  <2>1. sent' \in 0..Len(log')
    BY <1>1, <1>4 DEF LinkFine
  <2> QED  BY <1>1, <2>1 DEF LinkFine
<1>9. WireFine' /\ Asked(toS)' = {} /\ Answered' = {}
  BY <1>1, RecoveryAssumption DEF WireFine, Among, Asked, Answered
<1>10. o.size <= Len(log') /\ o.head \in Nat
  <2>1. o.size \in Nat /\ o.head \in Nat
    BY DEF Opened
  <2> QED  BY <1>4, <2>1
<1>11. Rested(a, asked, o)'
  BY <1>5, <1>8, <1>10, AsksRested
<1> HIDE DEF a, asked
<1>12. ActorFine' /\ OutsFine' /\ OnePending' /\ WantedFine' /\ First'
  <2>1. <<>> \in Seq(CheckpointMsgs) /\ Among(<<>>) = {}
    BY DEF Among
  <2> QED  BY <1>1, <1>9, <1>11, <2>1, RestsFine
<1>13. OpenFine'
  BY <1>1 DEF OpenFine
<1>14. EffectsFine'
  BY <1>1, <1>4 DEF RecoveryInv, EffectsFine
<1>15. Steady'
  BY <1>1 DEF Steady, Comes
<1>16. opens' \in 0..MaxOpens /\ opens' # 0
  BY <1>1, RecoveryAssumption DEF RecoveryInv
<1> QED  BY <1>1, <1>6, <1>7, <1>8, <1>9, <1>12, <1>13, <1>14, <1>15, <1>16 DEF RecoveryInv

LEMMA OpensSpawnedStep ==
  ASSUME RecoveryInv, OpensSpawned
  PROVE  RecoveryInv'
<1> DEFINE o == [head |-> 0, newest |-> None, sent |-> 0, size |-> 0, size_known |-> TRUE,
                 oldest |-> Start]
<1>1. /\ opens = 0 /\ Opens(o) /\ log' = log /\ head' = head /\ lost' = lost /\ overflow' = overflow
      /\ run' = run /\ UNCHANGED <<newest, fallback, retain_from>> /\ next' = None /\ sending' = <<>>
      /\ sent' = sent
  BY DEF OpensSpawned, Opens, recordLogVars
<1>2. LogFine /\ RunFine /\ LinkFine /\ NoVornd /\ Len(log) \in Nat /\ sent = 0
  BY <1>1, LogTypes DEF RecoveryInv, NoVornd
<1>3. Grows /\ LogFine'
  BY <1>1, <1>2, SameLog
<1>4. Droppable(Len(log') - Len(run')) /\ IsEnd(run', log')
  BY <1>1, <1>2 DEF RunFine, IsEnd, Droppable, Base
<1>5. o \in Opened /\ o.head = 0 /\ o.sent = 0 /\ o.oldest = Start /\ o.size = 0
  BY DEF Opened, Start, Cursor
<1> HIDE DEF o
<1>6. LinkFine'
  BY <1>1, <1>2 DEF LinkFine
<1>7. Held(o.oldest)'
  BY <1>3, <1>5, <1>6, StartHeld
<1>8. \A r \in 0..MaxRecords - 1 : rang[r] # 1 /\ replied[r] # 1
  BY <1>2 DEF NoVornd
<1> QED  BY <1>1, <1>2, <1>3, <1>4, <1>5, <1>7, <1>8, OpensAnew

LEMMA OpensWelcomedStep ==
  ASSUME RecoveryInv, OpensWelcomed
  PROVE  RecoveryInv'
<1>X. PICK oldest : oldest = IF Settled(run) = <<>> THEN head ELSE Before(Settled(run)[1])
  OBVIOUS
<1>Y. PICK o : o = [head |-> SettledHead.rseq, sent |-> sent, size |-> SizeAt(head.rseq),
                     newest |-> IF newest = None THEN None ELSE newest.resume,
                     size_known |-> overflow = "Block", oldest |-> oldest]
  OBVIOUS
<1>1. /\ opens > 0 /\ SettleGap /\ Numbered /\ Opens(o) /\ run' = Settled(run) /\ v.phase = "down"
      /\ next' = None
  BY <1>Y, <1>X DEF OpensWelcomed, SettleGap, Opens
<1>2. /\ Grows /\ LogFine' /\ IsEnd(run', log') /\ Len(log') - Len(run') = Base
      /\ SettledHead = head' /\ IsLog(log', head')
      /\ UNCHANGED <<newest, fallback, retain_from>>
  BY <1>1, SettlesLog
<1>3. /\ LogFine /\ RunFine /\ StoredFine /\ EffectsFine /\ sent \in Nat /\ opens # 0 /\ OpenFine
      /\ Len(log) \in Nat /\ head.rseq = Len(log)
  BY <1>1, LogTypes, RecoveryAssumption DEF RecoveryInv, LinkFine
<1>4. /\ Len(log') \in Nat /\ Len(log) <= Len(log') /\ head'.rseq = Len(log')
      /\ run' \in Seq(Entry) /\ log' \in Seq(Entry)
  BY <1>2 DEF Grows, IsLog, IsEnd
<1>5. Base \in 0..Len(log) /\ Done(Base) /\ Droppable(Base)
  BY <1>3 DEF RunFine, IsEnd, Base, Droppable
<1>6. Droppable(Len(log') - Len(run'))
  BY <1>2, <1>5
<1>7. oldest = BoundaryIn(log', head', Base)
  <2>1. CASE run' = <<>>
    <3>1. Base = Len(log')
      BY <1>2, <1>4, <2>1
    <3>2. Len(log') = Len(log)
      BY <1>3, <1>4, <1>5, <3>1
    <3>3. BoundaryIn(log', head', Len(log)) = BoundaryIn(log, head, Len(log))
      BY <1>2, <1>3 DEF Grows
    <3>4. head' = head
      BY <3>2, <3>3 DEF BoundaryIn
    <3> QED  BY <1>X, <1>1, <2>1, <3>1, <3>4 DEF BoundaryIn
  <2>2. CASE run' # <<>>
    <3>1. Len(run') \in Nat /\ Len(run') >= 1
      BY <1>4, <2>2
    <3>2. Base # Len(log') /\ 1 \in 1..Len(run')
      BY <1>2, <1>4, <3>1
    <3>3. run'[1] = log'[Len(log') - Len(run') + 1]
      BY <1>2, <3>2 DEF IsEnd
    <3>4. oldest = Before(run'[1])
      BY <1>X, <1>1, <2>2
    <3> QED  BY <1>2, <3>2, <3>3, <3>4 DEF BoundaryIn
  <2> QED  BY <2>1, <2>2
<1>8. oldest \in Cursor /\ oldest.rseq = Base
  <2>1. Base \in 0..Len(log')
    BY <1>3, <1>4, <1>5
  <2> QED  BY <1>2, <1>7, <2>1, BoundaryType
<1>9. Held(oldest)'
  <2>1. IsBoundary(oldest)'
    BY <1>3, <1>4, <1>5, <1>7, <1>8 DEF IsBoundary
  <2>2. notified' = notified
    BY <1>1 DEF Opens, effectVars
  <2>3. Done(oldest.rseq)'
    BY <1>2, <1>3, <1>5, <1>8, <2>2, DoneStays
  <2>4. Reach(oldest.rseq)'
    BY <1>1 DEF Reach
  <2> QED  BY <2>1, <2>3, <2>4 DEF Held
<1>10. /\ SizeAt(head.rseq) \in 0..Len(log)
       /\ SizeAt(head.rseq) # 0 => log[SizeAt(head.rseq)].kind = "resize"
  BY <1>3, SizeIs
<1>11. /\ o \in Opened /\ o.head = Len(log') /\ o.sent = sent /\ o.size = SizeAt(head.rseq)
       /\ o.oldest = oldest /\ o.size_known = (overflow = "Block")
  <2>1. newest # None => newest.resume \in Cursor
    BY <1>3 DEF StoredFine, Restorable, Usable, Saved
  <2> QED  BY <1>Y, <1>2, <1>3, <1>4, <1>8, <1>10, <2>1 DEF Opened
<1>12. Opens(o)
  BY <1>1
<1>13. o.size_known => o.size = 0
  <2> SUFFICES ASSUME overflow = "Block", SizeAt(head.rseq) # 0 PROVE FALSE
    BY <1>11
  <2>1. SizeAt(head.rseq) \in 1..Len(log)
    BY <1>3, <1>10
  <2> QED  BY <1>3, <1>10, <2>1 DEF LogFine
<1>14. o.size # 0 => log'[o.size].kind = "resize"
  <2>1. o.size # 0 => o.size \in 1..Len(log)
    BY <1>3, <1>10, <1>11
  <2> QED  BY <1>2, <1>10, <1>11, <2>1 DEF Grows
<1>15. Held(o.oldest)'
  BY <1>9, <1>11
<1>16. ASSUME NEW r \in 0..MaxRecords - 1
       PROVE  (rang[r] = 1 => r < o.sent) /\ (replied[r] = 1 => r < o.head)
  <2>1. rang[r] = 1 => r < sent
    BY <1>3 DEF EffectsFine
  <2>2. replied[r] = 1 => r < Len(log)
    BY <1>3 DEF EffectsFine
  <2>3. r \in Int
    OBVIOUS
  <2> QED  BY <1>3, <1>4, <1>11, <2>1, <2>2, <2>3
<1>17. o.size <= o.head /\ o.head <= Len(log') /\ o.sent <= sent
  BY <1>3, <1>4, <1>10, <1>11
<1> QED  BY <1>2, <1>6, <1>11, <1>12, <1>13, <1>14, <1>15, <1>16, <1>17, OpensAnew

(* What was asked for stays fine when the actor asks for more.             *)
LEMMA SuitsLater ==
  ASSUME NEW m \in ToHost, NEW a \in Actor, NEW d \in Actor, Suits(m, a),
         d.phase = "down" \/ (d.phase = "running" /\ a.phase = "running" /\ a.cursor.rseq <= d.cursor.rseq)
  PROVE  Suits(m, d)
<1>1. CASE d.phase = "down"
  BY <1>1 DEF Suits
<1>2. CASE d.phase = "running" /\ a.phase = "running" /\ a.cursor.rseq <= d.cursor.rseq
  <2>1. a.cursor.rseq \in Nat /\ d.cursor.rseq \in Nat
    BY EntryFields DEF Actor
  <2>2. m.is = "attach" /\ m.at = "cursor" => m.cursor.rseq \in Nat
    <3>1. ASSUME m.is = "attach", m.at = "cursor" PROVE m.cursor \in Cursor
      BY <3>1 DEF ToHost, ToSessiond, Attaches, CheckpointMsgs
    <3> QED  BY <3>1, EntryFields
  <2> QED  BY <1>2, <2>1, <2>2 DEF Suits
<1> QED  BY <1>1, <1>2

LEMMA OutStays ==
  ASSUME LogFine, Grows, Reaches, notified \subseteq notified', NEW i, NEW m \in ToHost, FineOut(i, m),
         rang' = rang, replied' = replied, sent' = sent, open' = open, log' = log,
         \A r \in Nat : Past(r) => Past(r)',
         \A r : Promised(r, i - 1) => Promised(r, i - 1)' \/ r \in notified'
  PROVE  FineOut(i, m)'
<1>1. ASSUME m.is = "checkpoint" PROVE FineCut(m.cp)' /\ Covers(m.cp.resume.rseq, i - 1)'
  <2>1. m.cp \in Saved /\ FineCut(m.cp) /\ Covers(m.cp.resume.rseq, i - 1)
    BY <1>1 DEF FineOut, ToHost, ToSessiond, Attaches, CheckpointMsgs
  <2>2. FineCut(m.cp)'
    BY <2>1, CutStays
  <2> QED  BY <2>1, <2>2 DEF Covers
<1>2. m.is \in {"effects", "reply"} => m.rseq \in Nat
  BY DEF ToHost, ToSessiond, Attaches, CheckpointMsgs
<1>3. m.is = "effects" => FineEffects(m)'
  BY <1>2 DEF FineOut, FineEffects
<1>4. m.is = "reply" => FineReply(m)'
  BY <1>2 DEF FineOut, FineReply
<1> QED  BY <1>1, <1>3, <1>4 DEF FineOut

(* An actor becomes d, and asks its host for w, after n things it asked    *)
(* for before.                                                             *)
Acts(o, d, w, n) ==
  /\ LogFine' /\ Grows /\ Reaches /\ log' = log /\ sent' = sent /\ UNCHANGED effectVars
  /\ open = o /\ open' = o /\ v' = d
  /\ w \in Seq(ToHost) /\ outs' = outs \o w /\ n = Len(outs)
  /\ ActorTyped(d)'
  /\ d.phase = "down" \/ (d.phase = "running" /\ v.phase = "running" /\ v.cursor.rseq <= d.cursor.rseq)
  /\ d.phase = "running" => RunningFine(d, o)' /\ Covers(d.cursor.rseq, n + Len(w))'
  /\ \A r \in Nat : Past(r) => Past(r)'
  /\ \A i \in 1..Len(w) : w[i].is # "attach"
  /\ \A i \in 1..Len(w), m \in ToHost : m = w[i] => FineOut(n + i, m)'
  /\ \A i \in 1..Len(w) : w[i].is \in {"effects", "reply"} => ~Past(w[i].rseq)
  /\ \A i, j \in 1..Len(w) :
       w[i].is \in {"effects", "reply"} /\ w[j].is = w[i].is /\ w[j].rseq = w[i].rseq => i = j

LEMMA ActsOn ==
  ASSUME RecoveryInv, NEW o, NEW d, NEW w, NEW n, Acts(o, d, w, n)
  PROVE  /\ ActorFine' /\ OutsFine' /\ EffectsFine' /\ Asked(outs)' = Asked(outs)
         /\ \A i \in 1..Len(outs') : Suits(outs'[i], d)
         /\ \A i \in 1..Len(toS) : Suits(toS[i], d)
<1> USE DEF Acts
<1>1. /\ LogFine /\ outs \in Seq(ToHost) /\ v \in Actor /\ d \in Actor
      /\ notified' = notified /\ rang' = rang /\ replied' = replied /\ open' = open
      /\ toS \in Seq(ToSessiond)
  BY DEF RecoveryInv, OutsFine, ActorFine, ActorTyped, effectVars, WireFine
<1>2. /\ outs' \in Seq(ToHost) /\ Len(outs') = Len(outs) + Len(w) /\ Len(outs) \in Nat /\ Len(w) \in Nat
      /\ \A i \in 1..Len(outs) : outs'[i] = outs[i]
      /\ \A i \in 1..Len(w) : outs'[Len(outs) + i] = w[i]
      /\ \A k \in 1..Len(outs) + Len(w) : k \in 1..Len(outs) \/ k - Len(outs) \in 1..Len(w)
  <2>1. ASSUME NEW q \in Seq(ToHost), q = outs
        PROVE  /\ outs' \in Seq(ToHost) /\ Len(outs') = Len(q) + Len(w) /\ Len(q) \in Nat /\ Len(w) \in Nat
               /\ \A i \in 1..Len(q) : outs'[i] = q[i]
               /\ \A i \in 1..Len(w) : outs'[Len(q) + i] = w[i]
               /\ \A k \in 1..Len(q) + Len(w) : k \in 1..Len(q) \/ k - Len(q) \in 1..Len(w)
    <3>1. outs' = q \o w
      BY <2>1
    <3> QED  BY <3>1, AmongConcat
  <2> QED  BY <1>1, <2>1
<1>3. ActorFine'
  <2>1. ASSUME NEW k, k = n + Len(w), Covers(d.cursor.rseq, k)' PROVE Covers(d.cursor.rseq, Len(outs))'
    BY <1>2, <2>1 DEF Covers
  <2>2. d.phase = "running" => Covers(d.cursor.rseq, Len(outs))'
    BY <2>1
  <2> QED  BY <2>2 DEF ActorFine
<1>4. ASSUME NEW i \in 1..Len(outs), NEW m \in ToHost, m = outs[i] PROVE FineOut(i, m)'
  <2>1. FineOut(i, m)
    BY <1>4 DEF RecoveryInv, OutsFine
  <2>2. ASSUME NEW r, Promised(r, i - 1) PROVE Promised(r, i - 1)'
    <3>1. PICK j \in 1..i - 1 : outs[j].is = "effects" /\ outs[j].rseq = r
      BY <2>2 DEF Promised
    <3>2. outs'[j] = outs[j]
      BY <1>2
    <3> QED  BY <3>1, <3>2 DEF Promised
  <2> QED  BY <1>1, <2>1, <2>2, OutStays
<1>5. ASSUME NEW k \in 1..Len(outs'), NEW m \in ToHost, m = outs'[k] PROVE FineOut(k, m)'
  <2>1. CASE k \in 1..Len(outs)
    BY <1>2, <1>4, <1>5, <2>1
  <2>2. CASE k - Len(outs) \in 1..Len(w)
    <3>1. Len(outs) + (k - Len(outs)) = k
      BY <1>2
    <3>2. m = w[k - Len(outs)]
      BY <1>2, <1>5, <2>2, <3>1
    <3>3. ASSUME NEW i, i = k - n PROVE FineOut(k, m)'
      <4>1. i \in 1..Len(w) /\ m = w[i]
        BY <2>2, <3>2, <3>3
      <4>2. FineOut(n + i, m)'
        BY <4>1
      <4>3. n + i = k
        BY <3>1, <3>3
      <4> QED  BY <4>2, <4>3
    <3> QED  BY <3>3
  <2> QED  BY <1>2, <2>1, <2>2
<1>6. ASSUME NEW i \in 1..Len(outs), outs[i].is \in {"effects", "reply"}
      PROVE  Past(outs[i].rseq)
  <2>1. outs[i] \in ToHost /\ FineOut(i, outs[i])
    BY <1>1 DEF RecoveryInv, OutsFine
  <2> QED  BY <1>6, <2>1 DEF FineOut, FineEffects, FineReply
<1>7. ASSUME NEW i \in 1..Len(outs'), NEW j \in 1..Len(outs'),
             outs'[i].is \in {"effects", "reply"}, outs'[j].is = outs'[i].is,
             outs'[j].rseq = outs'[i].rseq
      PROVE  i = j
  <2>1. CASE i \in 1..Len(outs) /\ j \in 1..Len(outs)
    BY <1>2, <1>7, <2>1 DEF RecoveryInv, OutsFine
  <2>2. ASSUME NEW k \in 1..Len(outs'), k - Len(outs) \in 1..Len(w)
        PROVE  outs'[k] = w[k - Len(outs)]
    <3>1. Len(outs) + (k - Len(outs)) = k
      BY <1>2
    <3> QED  BY <1>2, <2>2, <3>1
  <2>3. CASE i - Len(outs) \in 1..Len(w) /\ j - Len(outs) \in 1..Len(w)
    <3>1. i - Len(outs) = j - Len(outs)
      BY <1>7, <2>2, <2>3
    <3> QED  BY <1>2, <3>1
  <2>4. CASE i \in 1..Len(outs) /\ j - Len(outs) \in 1..Len(w)
    BY <1>2, <1>6, <1>7, <2>2, <2>4
  <2>5. CASE j \in 1..Len(outs) /\ i - Len(outs) \in 1..Len(w)
    BY <1>2, <1>6, <1>7, <2>2, <2>5
  <2> QED  BY <1>2, <2>1, <2>3, <2>4, <2>5
<1>8. OutsFine'
  BY <1>2, <1>5, <1>7 DEF OutsFine
<1>9. EffectsFine'
  <2>1. \A r \in 0..MaxRecords - 1 : r \in Nat
    BY RecoveryAssumption
  <2> QED  BY <1>1, <2>1 DEF RecoveryInv, EffectsFine
<1>10. Asked(outs)' = Asked(outs)
  <2>1. Asked(outs)' = {k \in 1..Len(outs') : outs'[k].is = "attach"}
    BY DEF Asked
  <2>2. ASSUME NEW k \in 1..Len(outs') PROVE outs'[k].is = "attach" <=> k \in Asked(outs)
    <3>1. CASE k \in 1..Len(outs)
      BY <1>2, <3>1 DEF Asked
    <3>2. CASE k - Len(outs) \in 1..Len(w)
      <4>1. Len(outs) + (k - Len(outs)) = k /\ k \notin 1..Len(outs)
        BY <1>2, <3>2
      <4> QED  BY <1>2, <3>2, <4>1 DEF Asked
    <3> QED  BY <1>2, <3>1, <3>2
  <2>3. Asked(outs) \subseteq 1..Len(outs')
    BY <1>2 DEF Asked
  <2> QED  BY <2>1, <2>2, <2>3
<1>11. ASSUME NEW k \in 1..Len(outs') PROVE Suits(outs'[k], d)
  <2>1. CASE k \in 1..Len(outs)
    BY <1>1, <1>2, <2>1, SuitsLater DEF RecoveryInv, WantedFine
  <2>2. CASE k - Len(outs) \in 1..Len(w)
    <3>1. Len(outs) + (k - Len(outs)) = k
      BY <1>2
    <3> QED  BY <1>2, <2>2, <3>1 DEF Suits
  <2> QED  BY <1>2, <2>1, <2>2
<1>12. ASSUME NEW i \in 1..Len(toS) PROVE Suits(toS[i], d)
  <2>1. toS[i] \in ToHost
    BY <1>1 DEF ToHost
  <2> QED  BY <1>1, <2>1, SuitsLater DEF RecoveryInv, WantedFine
<1> QED  BY <1>3, <1>8, <1>9, <1>10, <1>11, <1>12

(* The record an actor applies is the one that follows what it has.        *)
LEMMA EntryFollows ==
  ASSUME RecoveryInv, toV # <<>>, toV[1].is = "entry", NEW e, e = toV[1].e, Applies(v, e)
  PROVE  Before(e) = v.cursor /\ Logged(e)
<1>1. Len(toV) \in Nat /\ 1 \in 1..Len(toV) /\ toV[1] \in ToVornd /\ FineToVornd(toV[1]) /\ LogFine
  BY TailIs, AmongIs DEF RecoveryInv, WireFine
<1>2. Logged(e) /\ e.rseq \in Nat /\ v.phase = "running" /\ ~Includes(v.cursor, e)
  BY <1>1, EntryFields DEF Applies, FineToVornd, Logged
<1>3. IsBoundary(v.cursor) /\ v.cursor.rseq \in Nat
  BY <1>1, <1>2, BoundaryRange DEF RecoveryInv, ActorFine, RunningFine
<1>4. CASE v.started
  <2>1. Comes(1, e.rseq)
    BY <1>1 DEF Comes
  <2>2. e.rseq <= v.cursor.rseq
    BY <1>2, <1>4, <2>1 DEF RecoveryInv, First
  <2>3. e.rseq = v.cursor.rseq
    BY <1>2, <1>3, <2>2 DEF Includes
  <2>4. v.cursor = Before(log[e.rseq + 1])
    BY <1>2, <1>3, <2>3 DEF Logged, IsBoundary, BoundaryIn
  <2> QED  BY <1>2, <2>4 DEF Logged
<1> QED  BY <1>2, <1>4 DEF Applies

(* The actor once it applied e, before a checkpoint is cut.                *)
Showing(a, o, e) ==
  [a EXCEPT !.started = TRUE, !.cursor = After(e), !.term = Shown(a, e),
            !.live = @ \/ e.rseq + 1 >= o.head,
            !.size_known = @ \/ e.kind = "resize", !.since = @ \/ e.kind = "data"]

IsShowing(c, a, o, e) ==
  /\ c \in Actor /\ c.started = TRUE /\ c.cursor = After(e) /\ c.term = Shown(a, e)
  /\ c.live <=> (a.live \/ e.rseq + 1 >= o.head)
  /\ c.size_known <=> (a.size_known \/ e.kind = "resize")
  /\ c.best = a.best /\ c.phase = a.phase /\ c.step = a.step
  /\ Shown(a, e) \in Term /\ Shown(a, e).size \in {a.term.size, e.rseq + 1}
  /\ e.kind \in {"data", "gap", "resize"}

LEMMA ShowingIs ==
  ASSUME LogFine, NEW a \in Actor, NEW o \in Opened, NEW e, Logged(e)
  PROVE  IsShowing(Showing(a, o, e), a, o, e)
<1>1. e \in Entry /\ e.rseq \in Nat /\ After(e) \in Cursor /\ e.kind \in {"data", "gap", "resize"}
  <2>1. e \in Entry /\ e.rseq + 1 \in 1..Len(log) /\ e = log[e.rseq + 1]
    BY LogTypes, EntryFields DEF Logged
  <2>2. e.kind # "exit"
    BY <2>1 DEF LogFine
  <2> QED  BY <2>1, <2>2, EntryFields DEF Entry
<1>2. /\ a.term \in Term /\ a.term.size \in Nat /\ a.term.exact \in BOOLEAN
      /\ a.term.right \in BOOLEAN /\ a.term.blind \in BOOLEAN /\ a.live \in BOOLEAN
      /\ a.size_known \in BOOLEAN /\ a.since \in BOOLEAN
  BY DEF Actor, Term
<1>3. Shown(a, e) \in Term /\ Shown(a, e).size \in {a.term.size, e.rseq + 1}
  <2>1. CASE e.kind = "data"
    BY <1>2, <2>1 DEF Shown, Term
  <2>2. CASE e.kind = "gap"
    BY <1>2, <2>2 DEF Shown, Blank, Term
  <2>3. CASE e.kind = "resize"
    <3> DEFINE exact == a.term.exact /\ (a.size_known \/ a.live)
               size == e.rseq + 1
    <3>1. exact \in BOOLEAN /\ size \in Nat
      BY <1>1, <1>2
    <3>2. Shown(a, e) = [a.term EXCEPT !.size = size, !.exact = exact]
      BY <2>3 DEF Shown
    <3> HIDE DEF exact
    <3> QED  BY <1>2, <3>1, <3>2 DEF Term
  <2> QED  BY <1>1, <2>1, <2>2, <2>3
<1> DEFINE live == a.live \/ e.rseq + 1 >= o.head
           known == a.size_known \/ e.kind = "resize"
           since == a.since \/ e.kind = "data"
           c == Showing(a, o, e)
<1>4. live \in BOOLEAN /\ known \in BOOLEAN /\ since \in BOOLEAN
  BY <1>2
<1>5. c = Moved(a, Shown(a, e), After(e), live, known, since)
  BY DEF Showing, Moved, Actor
<1> HIDE DEF live, known, since, c
<1>6. /\ c \in Actor /\ c.started = TRUE /\ c.cursor = After(e) /\ c.term = Shown(a, e)
      /\ c.live = live /\ c.size_known = known /\ c.best = a.best /\ c.phase = a.phase
      /\ c.step = a.step
  <2>1. IsMoved(c, a, Shown(a, e), After(e), live, known)
    BY <1>1, <1>3, <1>4, <1>5, ShowsActor
  <2> QED  BY <2>1 DEF IsMoved
<1>7. IsShowing(c, a, o, e)
  BY <1>1, <1>3, <1>6 DEF IsShowing, live, known
<1> QED  BY <1>7 DEF c

LEMMA ShownView ==
  ASSUME LogFine, NEW a, NEW o \in Opened, NEW e, ActorTyped(a), RunningFine(a, o), Logged(e),
         Before(e) = a.cursor, o.size <= o.head, o.size # 0 => log[o.size].kind = "resize"
  PROVE  ViewFine(Showing(a, o, e), o)
<1> DEFINE c == Showing(a, o, e)
           n == a.cursor.rseq
<1>1. a \in Actor /\ a.term \in Term /\ a.size_known \in BOOLEAN /\ a.live \in BOOLEAN
  BY DEF ActorTyped, Actor
<1>2. /\ c.cursor = After(e) /\ c.term = Shown(a, e) /\ (c.size_known <=> (a.size_known \/ e.kind = "resize"))
      /\ e.kind \in {"data", "gap", "resize"}
  <2>1. IsShowing(c, a, o, e)
    BY <1>1, ShowingIs
  <2> HIDE DEF c
  <2> QED  BY <2>1 DEF IsShowing
<1>3. n \in Nat /\ e.rseq = n /\ c.cursor.rseq = n + 1 /\ log[n + 1] = e
      /\ o.size \in Nat /\ o.head \in Nat
  BY <1>2, EntryFields DEF Logged, Opened
<1>4. SizeAt(n + 1) = IF e.kind = "resize" THEN n + 1 ELSE SizeAt(n)
  BY <1>3, SizeNext
<1>5. /\ a.term.size \in Nat /\ a.term.exact \in BOOLEAN /\ a.term.right \in BOOLEAN
      /\ a.term.blind \in BOOLEAN
  BY <1>1 DEF Term
<1>6. /\ e.kind = "data" => /\ c.term.size = a.term.size /\ c.term.exact = a.term.exact
                            /\ c.term.blind = a.term.blind
                            /\ c.term.right = (a.term.right /\ a.term.size = SizeAt(n))
      /\ e.kind = "gap" => c.term.size = a.term.size /\ c.term.exact = FALSE
      /\ e.kind = "resize" => /\ c.term.size = n + 1 /\ c.term.right = a.term.right
                              /\ c.term.exact = (a.term.exact /\ (a.size_known \/ a.live))
                              /\ c.term.blind = a.term.blind
  <2>1. CASE e.kind = "data"
    BY <1>1, <1>2, <1>3, <2>1 DEF Shown, Term
  <2>2. CASE e.kind = "gap"
    BY <1>1, <1>2, <1>3, <2>2 DEF Shown, Blank, Term
  <2>3. CASE e.kind = "resize"
    <3> DEFINE exact == a.term.exact /\ (a.size_known \/ a.live)
               size == e.rseq + 1
    <3>1. exact \in BOOLEAN /\ size = n + 1
      BY <1>3, <1>5
    <3>2. c.term = [a.term EXCEPT !.size = size, !.exact = exact]
      BY <1>2, <2>3 DEF Shown
    <3> HIDE DEF exact, size, c, n
    <3>3. c.term.size = size /\ c.term.exact = exact /\ c.term.right = a.term.right
          /\ c.term.blind = a.term.blind
      BY <1>1, <3>2 DEF Term
    <3> QED  BY <2>3, <3>1, <3>3 DEF exact
  <2> QED  BY <1>2, <2>1, <2>2, <2>3
<1> HIDE DEF c, n
<1>7. CASE a.size_known
  <2>1. Sound(a.term, n)
    BY <1>7 DEF RunningFine, ViewFine, n
  <2>2. Sound(c.term, n + 1)
    BY <1>2, <1>4, <1>5, <1>6, <1>7, <2>1 DEF Sound
  <2> QED  BY <1>2, <1>3, <1>7, <2>2 DEF ViewFine, c
<1>8. CASE ~a.size_known
  <2>1. /\ \A i \in 1..n : log[i].kind # "resize"
        /\ a.term.size = o.size /\ (a.term.exact /\ ~a.term.blind /\ o.size = 0 => a.term.right)
    BY <1>8 DEF RunningFine, ViewFine, n
  <2>2. CASE e.kind = "resize"
    <3>1. c.term.exact => o.size = 0
      <4> SUFFICES ASSUME a.live, o.size # 0 PROVE FALSE
        BY <1>6, <1>8, <2>2
      <4>1. o.head <= n
        BY DEF RunningFine, n
      <4>2. o.size \in 1..n
        BY <1>3, <4>1
      <4> QED  BY <2>1, <4>2
    <3>2. Sound(c.term, n + 1)
      BY <1>4, <1>5, <1>6, <2>1, <2>2, <3>1 DEF Sound
    <3>3. c.size_known
      BY <1>2, <2>2
    <3>4. Sound(c.term, c.cursor.rseq)
      BY <1>3, <3>2
    <3>5. ViewFine(c, o)
      BY <3>3, <3>4 DEF ViewFine
    <3> QED  BY <3>5 DEF c
  <2>3. CASE e.kind # "resize"
    <3>1. \A i \in 1..n + 1 : log[i].kind # "resize"
      <4> SUFFICES ASSUME NEW i \in 1..n + 1 PROVE log[i].kind # "resize"
        OBVIOUS
      <4>1. i \in 1..n \/ i = n + 1
        BY <1>3
      <4> QED  BY <1>3, <2>1, <2>3, <4>1
    <3>2. SizeAt(n) = 0
      BY <1>3, <2>1, SizeOnly
    <3>3. c.term.size = o.size
      BY <1>2, <1>6, <2>1, <2>3
    <3>4. c.term.exact /\ ~c.term.blind /\ o.size = 0 => c.term.right
      BY <1>2, <1>5, <1>6, <2>1, <2>3, <3>2
    <3>5. ~c.size_known
      BY <1>2, <1>8, <2>3
    <3>6. \A i \in 1..c.cursor.rseq : log[i].kind # "resize"
      BY <1>3, <3>1
    <3>7. ViewFine(c, o)
      BY <3>3, <3>4, <3>5, <3>6 DEF ViewFine
    <3> QED  BY <3>7 DEF c
  <2> QED  BY <2>2, <2>3 DEF c
<1> QED  BY <1>1, <1>7, <1>8

LEMMA ShowingFine ==
  ASSUME LogFine, NEW a, NEW o \in Opened, NEW e, ActorTyped(a), RunningFine(a, o), Logged(e),
         Before(e) = a.cursor, o.size <= o.head, o.size # 0 => log[o.size].kind = "resize",
         Reach(e.rseq + 1), a.phase = "running"
  PROVE  ActorTyped(Showing(a, o, e)) /\ RunningFine(Showing(a, o, e), o)
<1> DEFINE c == Showing(a, o, e)
<1>1. a \in Actor /\ a.term.size \in Nat
  BY DEF ActorTyped, Actor, Term
<1>2. /\ c \in Actor /\ c.cursor = After(e) /\ (c.live <=> (a.live \/ e.rseq + 1 >= o.head))
      /\ c.best = a.best /\ c.phase = "running" /\ c.term.size \in {a.term.size, e.rseq + 1}
  <2>1. IsShowing(c, a, o, e)
    BY <1>1, ShowingIs
  <2> HIDE DEF c
  <2> QED  BY <2>1 DEF IsShowing
<1>3. ViewFine(c, o)
  BY ShownView
<1> HIDE DEF c
<1>4. e.rseq \in Nat /\ e.rseq + 1 \in 1..Len(log) /\ After(e).rseq = e.rseq + 1 /\ a.cursor.rseq = e.rseq
      /\ e = log[e.rseq + 1] /\ After(e) \in Cursor /\ Len(log) \in Nat
  BY LogTypes, EntryFields DEF Logged
<1>5. ActorTyped(c)
  <2>1. c.term.size <= Len(log)
    BY <1>2, <1>4 DEF ActorTyped
  <2> QED  BY <1>2, <2>1 DEF ActorTyped
<1>6. IsBoundary(c.cursor)
  <2>1. BoundaryIn(log, head, e.rseq + 1) = After(e)
    BY <1>4 DEF LogFine, IsLog
  <2> QED  BY <1>2, <1>4, <2>1 DEF IsBoundary
<1>7. c.live => o.head <= c.cursor.rseq
  <2>1. o.head \in Nat
    BY DEF Opened
  <2>2. a.live => o.head <= a.cursor.rseq
    BY DEF RunningFine
  <2>3. c.live => a.live \/ e.rseq + 1 >= o.head
    BY <1>2
  <2>4. c.cursor.rseq = e.rseq + 1
    BY <1>2, <1>4
  <2> QED  BY <1>4, <2>1, <2>2, <2>3, <2>4
<1>8. RunningFine(c, o)
  BY <1>2, <1>3, <1>4, <1>6, <1>7 DEF RunningFine
<1> QED  BY <1>5, <1>8 DEF c

(* What an actor that applies e asks for: the bell first, then the answer  *)
(* to the question, then the checkpoint.                                   *)
Rings(o, e) == [is |-> "effects", rseq |-> e.rseq, bell |-> e.rseq >= o.sent]

Answers(e) == [is |-> "reply", rseq |-> e.rseq]

WhatApplied(w, a, o, e, c) ==
  /\ w \in Seq(ToHost) /\ Len(w) \in Nat
  /\ e.kind = "data" => 1 \in 1..Len(w) /\ w[1] = Rings(o, e)
  /\ \A i \in 1..Len(w) :
       \/ i = 1 /\ w[i] = Rings(o, e)
       \/ i = 2 /\ w[i] = Answers(e) /\ a.live
       \/ w[i] = Cuts(c) /\ (e.kind = "data" => i > 1)

LEMMA AppliedIs ==
  ASSUME NEW a, NEW o, NEW e, NEW c, c = Showing(a, o, e), Before(e) = a.cursor, NEW due \in BOOLEAN,
         Cuts(c) \in CheckpointMsgs, e.rseq \in Nat, c \in Actor
  PROVE  /\ Applied(a, o, e, due).actor \in {c, AfterCut(c).actor}
         /\ WhatApplied(Applied(a, o, e, due).asked, a, o, e, c)
<1> DEFINE asked == IF e.kind = "data" THEN Effects(a, o, e) ELSE <<>>
           cut == IF due /\ c.since THEN AfterCut(c) ELSE Turn(c, <<>>)
           w == asked \o cut.asked
<1>1. Applied(a, o, e, due) = Turn(cut.actor, asked \o cut.asked)
  BY DEF Applied, Showing
<1>2. cut.actor \in {c, AfterCut(c).actor} /\ cut.asked \in {<<>>, <<Cuts(c)>>}
  BY AfterCutIs DEF Turn
<1> HIDE DEF asked, cut
<1>3. Applied(a, o, e, due).actor = cut.actor /\ Applied(a, o, e, due).asked = w
  BY <1>1 DEF Turn
<1>4. Rings(o, e) \in ToHost /\ Answers(e) \in ToHost /\ Cuts(c) \in ToHost
  <2>1. (e.rseq >= o.sent) \in BOOLEAN
    OBVIOUS
  <2>2. Rings(o, e) \in [is : {"effects"}, rseq : Nat, bell : BOOLEAN]
    BY <2>1 DEF Rings
  <2> QED  BY <2>2 DEF Answers, ToHost, ToSessiond
<1>5. /\ asked \in Seq(ToHost) /\ Len(asked) \in Nat
      /\ e.kind = "data" => Len(asked) >= 1 /\ asked[1] = Rings(o, e)
      /\ \A i \in 1..Len(asked) :
           \/ i = 1 /\ asked[i] = Rings(o, e)
           \/ i = 2 /\ asked[i] = Answers(e) /\ a.live
  <2>1. CASE e.kind # "data"
    BY <2>1 DEF asked
  <2>2. CASE e.kind = "data" /\ ~a.live
    <3>1. asked = <<Rings(o, e)>> \o <<>>
      BY <2>2 DEF asked, Effects, Rings
    <3>2. asked = <<Rings(o, e)>>
      BY <1>4, <3>1, ConcatEmptySeq
    <3> QED  BY <1>4, <3>2
  <2>3. CASE e.kind = "data" /\ a.live
    <3>1. asked = <<Rings(o, e)>> \o <<Answers(e)>>
      BY <2>3 DEF asked, Effects, Rings, Answers
    <3>2. asked \in Seq(ToHost) /\ Len(asked) = 2 /\ asked[1] = Rings(o, e) /\ asked[2] = Answers(e)
      BY <1>4, <3>1
    <3> QED  BY <2>3, <3>2
  <2> QED  BY <2>1, <2>2, <2>3
<1>6. cut.asked \in Seq(ToHost) /\ Len(cut.asked) \in Nat /\ \A i \in 1..Len(cut.asked) : cut.asked[i] = Cuts(c)
  <2>1. CASE cut.asked = <<>>
    BY <2>1
  <2>2. CASE cut.asked = <<Cuts(c)>>
    BY <1>4, <2>2
  <2> QED  BY <1>2, <2>1, <2>2
<1>7. /\ w \in Seq(ToHost) /\ Len(w) = Len(asked) + Len(cut.asked)
      /\ \A i \in 1..Len(asked) : w[i] = asked[i]
      /\ \A i \in 1..Len(cut.asked) : w[Len(asked) + i] = cut.asked[i]
      /\ \A k \in 1..Len(asked) + Len(cut.asked) :
           k \in 1..Len(asked) \/ k - Len(asked) \in 1..Len(cut.asked)
  BY <1>5, <1>6, AmongConcat
<1> HIDE DEF w
<1>8. ASSUME NEW i \in 1..Len(w)
      PROVE  \/ i = 1 /\ w[i] = Rings(o, e)
             \/ i = 2 /\ w[i] = Answers(e) /\ a.live
             \/ w[i] = Cuts(c) /\ (e.kind = "data" => i > 1)
  <2>1. CASE i \in 1..Len(asked)
    BY <1>5, <1>7, <2>1
  <2>2. CASE i - Len(asked) \in 1..Len(cut.asked)
    <3>1. Len(asked) + (i - Len(asked)) = i
      BY <1>5
    <3>2. w[i] = Cuts(c)
      BY <1>6, <1>7, <2>2, <3>1
    <3> QED  BY <1>5, <2>2, <3>2
  <2> QED  BY <1>7, <2>1, <2>2
<1>9. e.kind = "data" => 1 \in 1..Len(w) /\ w[1] = Rings(o, e)
  BY <1>5, <1>6, <1>7
<1>10. WhatApplied(w, a, o, e, c)
  BY <1>5, <1>6, <1>7, <1>8, <1>9 DEF WhatApplied
<1> QED  BY <1>2, <1>3, <1>10

LEMMA RecordsBound ==
  ASSUME LogFine
  PROVE  Len(log) <= MaxRecords
<1>1. Len(log) \in Nat /\ head \in Cursor /\ head.rseq = Len(log) /\ lost \in Nat
  BY LogTypes DEF LogFine
<1>2. SettledHead.rseq \in {head.rseq, head.rseq + 1}
  BY <1>1 DEF SettledHead, Gap, After
<1> QED  BY <1>1, <1>2, RecoveryAssumption DEF LogFine

(* What it asks for is new, and true once it is asked.                     *)
Applying(a, o, e, c, d, w, n) ==
  /\ LogFine' /\ Grows /\ Reaches /\ log' = log /\ sent' = sent /\ UNCHANGED effectVars
  /\ open = o /\ open' = o /\ opens # 0 /\ v' = d
  /\ a = v /\ v.phase = "running"
  /\ Logged(e) /\ e.rseq < sent /\ Before(e) = a.cursor
  /\ ActorTyped(c)' /\ RunningFine(c, o)' /\ c.cursor = After(e)
  /\ d.phase = "running" /\ d.started /\ d.cursor = After(e)
  /\ WhatApplied(w, a, o, e, c) /\ n = Len(outs) /\ outs' = outs \o w

LEMMA AppliedOuts ==
  ASSUME RecoveryInv, NEW a, NEW o, NEW e, NEW c, NEW d, NEW w, NEW n,
         Applying(a, o, e, c, d, w, n)
  PROVE  /\ \A i \in 1..Len(w), m \in ToHost : m = w[i] => FineOut(n + i, m)'
         /\ \A i \in 1..Len(w) : w[i].is # "attach"
         /\ \A i \in 1..Len(w) : w[i].is \in {"effects", "reply"} => ~Past(w[i].rseq)
         /\ \A i, j \in 1..Len(w) :
              w[i].is \in {"effects", "reply"} /\ w[j].is = w[i].is /\ w[j].rseq = w[i].rseq => i = j
         /\ Covers(d.cursor.rseq, n + Len(w))'
<1> USE DEF Applying
<1>1. /\ LogFine /\ outs \in Seq(ToHost) /\ a \in Actor /\ notified' = notified /\ rang' = rang
      /\ replied' = replied /\ Len(log) \in Nat /\ OpenFine /\ n \in Nat
      /\ w \in Seq(ToHost) /\ Len(w) \in Nat
  BY LogTypes DEF RecoveryInv, OutsFine, ActorFine, ActorTyped, effectVars, WhatApplied
<1>2. /\ e.rseq \in 0..Len(log) - 1 /\ e.rseq \in 0..MaxRecords - 1 /\ e = log[e.rseq + 1]
      /\ a.cursor.rseq = e.rseq /\ After(e).rseq = e.rseq + 1 /\ e.rseq \in Nat
  BY <1>1, EntryFields, RecordsBound, RecoveryAssumption DEF Logged
<1>3. \A r \in 0..e.rseq : Past(r)'
  BY <1>2 DEF Past
<1>4. ~Past(e.rseq)
  BY <1>2 DEF Past
<1>5. /\ \A i \in 1..Len(outs) : outs'[i] = outs[i]
      /\ \A i \in 1..Len(w) : outs'[n + i] = w[i]
  <2>1. ASSUME NEW q \in Seq(ToHost), q = outs
        PROVE  /\ \A i \in 1..Len(q) : outs'[i] = q[i]
               /\ \A i \in 1..Len(w) : outs'[Len(q) + i] = w[i]
    <3>1. outs' = q \o w
      BY <2>1
    <3> QED  BY <1>1, <3>1, AmongConcat
  <2> QED  BY <1>1, <2>1
<1>6. /\ Cuts(c) \in CheckpointMsgs /\ FineCut(Cuts(c).cp)' /\ Cuts(c).cp.resume = After(e)
      /\ Cuts(c).is = "checkpoint"
  BY CutFine
<1>7. ASSUME NEW k \in Nat, k >= n, e.kind = "data" => k >= n + 1 /\ 1 \in 1..Len(w) /\ w[1] = Rings(o, e)
      PROVE  Covers(e.rseq + 1, k)'
  <2> SUFFICES ASSUME NEW r \in 0..e.rseq, log[r + 1].kind = "data", r \notin notified
               PROVE  Promised(r, k)'
    BY <1>1, <1>2 DEF Covers
  <2>1. CASE r \in 0..e.rseq - 1
    <3>1. Covers(a.cursor.rseq, Len(outs))
      BY DEF RecoveryInv, ActorFine
    <3>2. PICK j \in 1..Len(outs) : outs[j].is = "effects" /\ outs[j].rseq = r
      BY <1>2, <2>1, <3>1 DEF Covers, Promised
    <3>3. j \in 1..k
      BY <1>1, <1>7
    <3> QED  BY <1>5, <3>2, <3>3 DEF Promised
  <2>2. CASE r = e.rseq
    <3>1. outs'[n + 1] = Rings(o, e) /\ n + 1 \in 1..k
      BY <1>1, <1>2, <1>5, <1>7, <2>2
    <3>2. Rings(o, e).is = "effects" /\ Rings(o, e).rseq = e.rseq
      BY DEF Rings
    <3> QED  BY <2>2, <3>1, <3>2 DEF Promised
  <2> QED  BY <1>2, <2>1, <2>2
<1>8. FineEffects(Rings(o, e))'
  <2>1. (e.rseq >= o.sent) => o.sent <= e.rseq /\ rang[e.rseq] = 0
    <3> SUFFICES ASSUME e.rseq >= o.sent PROVE o.sent <= e.rseq /\ rang[e.rseq] = 0
      OBVIOUS
    <3>1. o.sent \in Nat
      BY <1>1 DEF OpenFine, Opened
    <3>2. rang[e.rseq] \in {0, 1} /\ (rang[e.rseq] = 1 => e.rseq < open.sent \/ Past(e.rseq))
      BY <1>2 DEF RecoveryInv, EffectsFine
    <3> QED  BY <1>2, <1>4, <3>1, <3>2
  <2>2. Rings(o, e).rseq = e.rseq /\ (Rings(o, e).bell <=> e.rseq >= o.sent)
    BY DEF Rings
  <2>3. Past(e.rseq)'
    BY <1>2, <1>3
  <2>4. e.rseq < sent'
    OBVIOUS
  <2> QED  BY <1>1, <2>1, <2>2, <2>3, <2>4 DEF FineEffects
<1>9. a.live => FineReply(Answers(e))'
  <2> SUFFICES ASSUME a.live PROVE FineReply(Answers(e))'
    OBVIOUS
  <2>1. o.head <= e.rseq /\ o.head \in Nat
    <3>1. a.live => o.head <= a.cursor.rseq
      BY DEF RecoveryInv, ActorFine, RunningFine
    <3> QED  BY <1>1, <1>2, <3>1 DEF OpenFine, Opened
  <2>2. replied[e.rseq] \in {0, 1} /\ (replied[e.rseq] = 1 => e.rseq < open.head \/ Past(e.rseq))
    BY <1>2 DEF RecoveryInv, EffectsFine
  <2>3. replied[e.rseq] = 0
    BY <1>2, <1>4, <2>1, <2>2
  <2>4. Answers(e).rseq = e.rseq
    BY DEF Answers
  <2>5. Past(e.rseq)' /\ e.rseq < Len(log')
    BY <1>2, <1>3
  <2> QED  BY <1>1, <2>1, <2>3, <2>4, <2>5 DEF FineReply
<1>10. /\ Rings(o, e).is = "effects" /\ Answers(e).is = "reply" /\ Rings(o, e).rseq = e.rseq
       /\ Answers(e).rseq = e.rseq
  BY DEF Rings, Answers
<1>11. ASSUME NEW i \in 1..Len(w), NEW m \in ToHost, m = w[i] PROVE FineOut(n + i, m)'
  <2>1. CASE m = Rings(o, e)
    BY <1>8, <1>10, <2>1 DEF FineOut
  <2>2. CASE m = Answers(e) /\ a.live
    BY <1>9, <1>10, <2>2 DEF FineOut
  <2>3. CASE m = Cuts(c) /\ (e.kind = "data" => i > 1)
    <3>1. PICK k : k = n + i - 1
      OBVIOUS
    <3>2. k \in Nat /\ k >= n /\ (e.kind = "data" => k >= n + 1 /\ 1 \in 1..Len(w) /\ w[1] = Rings(o, e))
      BY <1>1, <2>3, <3>1 DEF WhatApplied
    <3>3. Covers(e.rseq + 1, k)'
      BY <1>7, <3>2
    <3>4. m.cp.resume.rseq = e.rseq + 1 /\ FineCut(m.cp)' /\ m.is = "checkpoint"
      BY <1>2, <1>6, <2>3
    <3>5. Covers(m.cp.resume.rseq, k)'
      BY <3>3, <3>4
    <3>6. Covers(m.cp.resume.rseq, n + i - 1)'
      BY <3>1, <3>5
    <3> QED  BY <3>4, <3>6 DEF FineOut
  <2> QED  BY <1>11, <2>1, <2>2, <2>3 DEF WhatApplied
<1>12. \A i \in 1..Len(w) : w[i].is # "attach" /\ (w[i].is \in {"effects", "reply"} => ~Past(w[i].rseq))
  BY <1>4, <1>6, <1>10 DEF WhatApplied
<1>13. ASSUME NEW i \in 1..Len(w), NEW j \in 1..Len(w), w[i].is \in {"effects", "reply"}, w[j].is = w[i].is
       PROVE  i = j
  BY <1>6, <1>10, <1>13 DEF WhatApplied
<1>14. Covers(d.cursor.rseq, n + Len(w))'
  <2>1. PICK k : k = n + Len(w)
    OBVIOUS
  <2>2. k \in Nat /\ k >= n /\ (e.kind = "data" => k >= n + 1 /\ 1 \in 1..Len(w) /\ w[1] = Rings(o, e))
    BY <1>1, <2>1 DEF WhatApplied
  <2>3. Covers(e.rseq + 1, k)'
    BY <1>7, <2>2
  <2> QED  BY <1>2, <2>1, <2>3
<1> QED  BY <1>11, <1>12, <1>13, <1>14

LEMMA HearsEntryStep ==
  ASSUME RecoveryInv, HearsEntry
  PROVE  RecoveryInv'
<1>1. /\ v.phase # "down" /\ toV # <<>> /\ Head(toV).is = "entry" /\ toV' = Tail(toV)
      /\ UNCHANGED <<recordLogVars, log, linkVars, toS, open, opens, effectVars>>
      /\ toS' = toS /\ stranded' = stranded
  BY DEF HearsEntry, Hears
<1>2. Head(toV) = toV[1] /\ toV[1] \in ToVornd /\ FineToVornd(toV[1]) /\ stranded' \in BOOLEAN
  BY <1>1, TailIs, AmongIs DEF RecoveryInv, WireFine
<1>X. PICK e : e = toV[1].e
  OBVIOUS
<1>3. Logged(e) /\ e.rseq < sent /\ Reach(e.rseq + 1) /\ toV[1].is = "entry" /\ e.rseq \in Nat
  BY <1>1, <1>2, <1>X, EntryFields DEF FineToVornd, Logged
<1>4. CASE ~Applies(v, e)
  <2>1. v' = v /\ outs' = outs /\ missed' = missed
    BY <1>2, <1>4, <1>X DEF HearsEntry
  <2>2. v.phase = "running" /\ v.started => toV[1].e.rseq < v.cursor.rseq
    BY <1>4, <1>X DEF Applies, Includes
  <2> QED  BY <1>1, <1>2, <2>1, <2>2, Skips
<1>5. CASE Applies(v, e)
  <2>1. PICK due \in BOOLEAN : Becomes(Applied(v, open, e, due), outs)
    BY <1>2, <1>5, <1>X DEF HearsEntry
  <2>2. Before(e) = v.cursor /\ v.phase = "running"
    BY <1>1, <1>3, <1>5, <1>X, EntryFollows DEF Applies
  <2>3. ~missed'
    <3>1. missed' = (missed \/ Before(e) # v.cursor)
      BY <1>2, <1>5, <1>X DEF HearsEntry
    <3> QED  BY <2>2, <3>1 DEF RecoveryInv
  <2>4. ~NoVornd /\ notified' = notified
    BY <1>1 DEF NoVornd, Nobody, effectVars
  <2>5. /\ LogFine /\ Grows /\ Reaches /\ LogFine' /\ RunFine' /\ StoredFine' /\ LinkFine'
        /\ OpenFine /\ OpenFine' /\ opens' # 0 /\ opens' \in 0..MaxOpens
        /\ log' = log /\ sent' = sent /\ next' = next /\ open' = open /\ opens # 0
        /\ Len(log) \in Nat /\ sent \in Nat
    BY <1>1, <2>4, VorndMoves DEF RecoveryInv
  <2>A. PICK a : a = v
    OBVIOUS
  <2>O. PICK o : o = open
    OBVIOUS
  <2>C. PICK c : c = Showing(a, o, e)
    OBVIOUS
  <2>6. /\ ActorTyped(a) /\ RunningFine(a, o) /\ a.phase = "running" /\ a \in Actor
        /\ a.cursor.rseq \in Nat
    <3>1. ActorTyped(v) /\ RunningFine(v, open)
      BY <2>2 DEF RecoveryInv, ActorFine
    <3>2. a \in Actor
      BY <2>A, <3>1 DEF ActorTyped
    <3> QED  BY <2>2, <2>A, <2>O, <3>1, <3>2, EntryFields DEF Actor
  <2>7. o \in Opened /\ o.size <= o.head /\ (o.size # 0 => log[o.size].kind = "resize")
    BY <2>5, <2>O DEF OpenFine
  <2>8. ActorTyped(c) /\ RunningFine(c, o)
    BY <1>3, <2>2, <2>5, <2>6, <2>7, <2>A, <2>C, ShowingFine
  <2>9. /\ c \in Actor /\ c.cursor = After(e) /\ c.started = TRUE /\ c.phase = "running"
    <3>1. IsShowing(c, a, o, e)
      BY <1>3, <2>5, <2>6, <2>7, <2>C, ShowingIs
    <3> QED  BY <2>6, <3>1 DEF IsShowing
  <2>10. ActorTyped(c)' /\ RunningFine(c, o)'
    BY <2>4, <2>5, <2>8, TypedStays, RunningStays
  <2>11. Cuts(c) \in CheckpointMsgs
    BY <2>5, <2>10, CutFine
  <2>D. PICK d : d = Applied(a, o, e, due).actor
    OBVIOUS
  <2>W. PICK w : w = Applied(a, o, e, due).asked
    OBVIOUS
  <2>12. d \in {c, AfterCut(c).actor} /\ WhatApplied(w, a, o, e, c)
    BY <1>3, <2>2, <2>9, <2>11, <2>A, <2>C, <2>D, <2>W, AppliedIs
  <2>13. /\ d \in Actor /\ d.cursor = After(e) /\ d.started /\ d.phase = "running"
         /\ ActorTyped(d)' /\ RunningFine(d, o)'
    BY <2>5, <2>9, <2>10, <2>12, AfterCutIs, AfterCutFine
  <2>14. v' = d /\ outs' = outs \o w
    BY <2>1, <2>A, <2>O, <2>D, <2>W DEF Becomes
  <2>15. a.cursor.rseq = e.rseq /\ d.cursor.rseq = e.rseq + 1
    BY <1>3, <2>2, <2>A, <2>13, EntryFields DEF Logged
  <2>N. PICK n : n = Len(outs)
    OBVIOUS
  <2>16. /\ \A i \in 1..Len(w), m \in ToHost : m = w[i] => FineOut(n + i, m)'
         /\ \A i \in 1..Len(w) : w[i].is # "attach"
         /\ \A i \in 1..Len(w) : w[i].is \in {"effects", "reply"} => ~Past(w[i].rseq)
         /\ \A i, j \in 1..Len(w) :
              w[i].is \in {"effects", "reply"} /\ w[j].is = w[i].is /\ w[j].rseq = w[i].rseq => i = j
         /\ Covers(d.cursor.rseq, n + Len(w))'
    <3>1. open' = o /\ UNCHANGED effectVars /\ Before(e) = a.cursor /\ e.rseq < sent /\ opens # 0
      BY <1>1, <1>3, <2>2, <2>5, <2>A, <2>O
    <3>2. Applying(a, o, e, c, d, w, n)
      BY <1>3, <2>2, <2>5, <2>9, <2>10, <2>12, <2>13, <2>14, <2>A, <2>O, <2>N, <3>1 DEF Applying
    <3> QED  BY <3>2, AppliedOuts
  <2>17. \A r \in Nat : Past(r) => Past(r)'
    BY <1>3, <2>2, <2>13, <2>14, <2>15, <2>A DEF Past
  <2>18. /\ ActorFine' /\ OutsFine' /\ EffectsFine' /\ Asked(outs)' = Asked(outs)
         /\ \A i \in 1..Len(outs') : Suits(outs'[i], d)
         /\ \A i \in 1..Len(toS) : Suits(toS[i], d)
    <3>1. w \in Seq(ToHost)
      BY <2>12 DEF WhatApplied
    <3>2. v.cursor.rseq <= d.cursor.rseq
      BY <2>6, <2>15, <2>A
    <3>3. open = o /\ open' = o /\ UNCHANGED effectVars
      BY <1>1, <2>5, <2>O
    <3>4. d.phase = "running" => RunningFine(d, o)' /\ Covers(d.cursor.rseq, n + Len(w))'
      BY <2>13, <2>16
    <3>5. d.phase = "running" /\ v.phase = "running" /\ v.cursor.rseq <= d.cursor.rseq
      BY <2>2, <2>13, <3>2
    <3>6. LogFine' /\ Grows /\ Reaches /\ log' = log /\ sent' = sent
      BY <2>5
    <3>7. ActorTyped(d)' /\ v' = d /\ outs' = outs \o w /\ n = Len(outs)
      BY <2>13, <2>14, <2>N
    <3>8. Acts(o, d, w, n)
      BY <2>16, <2>17, <3>1, <3>3, <3>4, <3>5, <3>6, <3>7 DEF Acts
    <3> QED  BY <3>8, ActsOn
  <2>19. WireFine'
    BY <1>1, <2>4, <2>5, HeardWire
  <2>20. /\ toV \in Seq(ToVornd) /\ toV' \in Seq(ToVornd) /\ Len(toV) \in Nat /\ Len(toV) >= 1
         /\ \A i \in 1..Len(toV') : i + 1 \in 1..Len(toV) /\ toV'[i] = toV[i + 1]
         /\ \A x : \A i \in Nat : i # 0 /\ Comes(i, x)' => Comes(i + 1, x)
         /\ One(Answered)' /\ (Answered' # {} => Answered # {})
    BY <1>1, <2>5, Heard
  <2>21. OnePending'
    <3>1. Asked(toS)' = Asked(toS)
      BY <1>1 DEF Asked
    <3>2. One(Asked(outs))' /\ One(Asked(toS))'
      BY <2>18, <3>1 DEF RecoveryInv, OnePending, One
    <3> QED  BY <2>18, <2>20, <3>1, <3>2 DEF RecoveryInv, OnePending
  <2>22. \A i \in 1..Len(toV) : toV[i].is # "checkpoint"
    BY <2>2 DEF RecoveryInv, WantedFine
  <2>23. WantedFine'
    BY <1>1, <2>14, <2>18, <2>20, <2>22 DEF WantedFine, Suits
  <2>24. ASSUME NEW i \in 1..Len(toV), NEW x \in Nat, Comes(i + 1, x)
         PROVE  /\ toV[i].is = "entry" /\ MayFollow(toV[i], x, v) /\ MayFollow(toV[i], x, d)
    <3>1. MayFollow(toV[i], x, v)
      BY <2>2, <2>24 DEF RecoveryInv, Steady
    <3>2. toV[i].is = "entry"
      <4>1. toV[i] \in ToVornd
        BY <2>20
      <4> QED  BY <2>22, <3>1, <4>1 DEF MayFollow, ToVornd, CheckpointMsgs
    <3>3. x = toV[i].e.rseq + 1 \/ x <= v.cursor.rseq
      BY <3>1, <3>2 DEF MayFollow
    <3>4. MayFollow(toV[i], x, d)
      BY <1>3, <2>6, <2>13, <2>15, <2>A, <3>2, <3>3 DEF MayFollow
    <3> QED  BY <3>1, <3>2, <3>4
  <2>25. Steady'
    <3> SUFFICES ASSUME NEW i \in 1..Len(toV'), NEW x \in Nat, Comes(i + 1, x)'
                 PROVE  MayFollow(toV'[i], x, d)
      BY <2>14 DEF Steady, MayFollow
    <3>1. i + 1 \in Nat /\ i + 1 # 0 /\ i + 1 \in 1..Len(toV) /\ toV'[i] = toV[i + 1]
      BY <2>20
    <3>2. Comes(i + 1 + 1, x)
      BY <2>20, <3>1
    <3> QED  BY <2>24, <3>1, <3>2
  <2>26. First'
    <3> SUFFICES ASSUME NEW x \in Nat, Comes(1, x)' PROVE x <= d.cursor.rseq
      BY <2>14 DEF First
    <3>1. 1 \in 1..Len(toV) /\ Comes(1 + 1, x)
      BY <2>20
    <3>2. MayFollow(toV[1], x, v) /\ toV[1].is = "entry"
      BY <2>24, <3>1
    <3>3. x = e.rseq + 1 \/ x <= v.cursor.rseq
      BY <1>X, <3>2 DEF MayFollow
    <3> QED  BY <1>3, <2>6, <2>15, <2>A, <3>3
  <2> QED  BY <1>2, <2>3, <2>5, <2>18, <2>19, <2>21, <2>23, <2>25, <2>26 DEF RecoveryInv
<1> QED  BY <1>4, <1>5

LEMMA NobodyTyped ==
  ASSUME LogFine'
  PROVE  ActorTyped(Nobody)' /\ Nobody.phase = "down"
<1>1. /\ Nobody \in Actor /\ Nobody.best = None /\ Nobody.term = Fresh(0) /\ Nobody.phase = "down"
  BY DEF Nobody, Actor, Fresh, Term, Start, Cursor
<1>2. Len(log') \in Nat /\ Fresh(0).size = 0
  BY DEF LogFine, IsLog, Fresh
<1> QED  BY <1>1, <1>2 DEF ActorTyped

(* A checkpoint is cut with nothing heard, by an actor that goes on or     *)
(* shuts down.                                                             *)
CutsTo(d, w) ==
  /\ v.phase # "down" /\ v' = d /\ outs' = outs \o w
  /\ UNCHANGED <<recordLogVars, log, linkVars, toV, toS, open, opens, effectVars, missed, stranded>>
  /\ d = Nobody \/ (v.phase = "running" /\ d = AfterCut(v).actor)
  /\ w = <<>> \/ (v.phase = "running" /\ w = <<Cuts(v)>>)

LEMMA CutsAside ==
  ASSUME RecoveryInv, NEW d, NEW w, CutsTo(d, w)
  PROVE  RecoveryInv'
<1>D. d = Nobody \/ (v.phase = "running" /\ d = AfterCut(v).actor)
  BY DEF CutsTo
<1>W. w = <<>> \/ (v.phase = "running" /\ w = <<Cuts(v)>>)
  BY DEF CutsTo
<1>S. /\ v' = d /\ ~NoVornd
      /\ UNCHANGED <<recordLogVars, log, linkVars, toV, toS, open, opens, effectVars, missed, stranded>>
  BY DEF CutsTo, NoVornd, Nobody
<1>1. ~NoVornd /\ notified' = notified /\ toV' = toV /\ toS' = toS /\ missed' = missed
      /\ stranded' = stranded
  BY <1>S DEF effectVars
<1>2. /\ LogFine /\ Grows /\ Reaches /\ LogFine' /\ RunFine' /\ StoredFine' /\ LinkFine'
      /\ OpenFine /\ OpenFine' /\ opens' # 0 /\ opens' \in 0..MaxOpens
      /\ log' = log /\ sent' = sent /\ next' = next /\ open' = open /\ opens # 0
      /\ Len(log) \in Nat /\ sent \in Nat /\ v \in Actor
  BY <1>1, <1>S, VorndMoves DEF RecoveryInv, ActorFine, ActorTyped
<1>O. PICK o : o = open
  OBVIOUS
<1>A. PICK a : a = v
  OBVIOUS
<1>N. PICK n : n = Len(outs)
  OBVIOUS
<1>3. a \in Actor /\ ActorTyped(a)' /\ (a.phase = "running" => RunningFine(a, o)')
  <2>1. ActorTyped(a) /\ (a.phase = "running" => RunningFine(a, o))
    BY <1>O, <1>A DEF RecoveryInv, ActorFine, ActorTyped
  <2> QED  BY <1>1, <1>2, <1>A, <2>1, TypedStays, RunningStays
<1>4. d.phase # "down" => v.phase = "running" /\ d = AfterCut(a).actor
  BY <1>2, <1>A, <1>D, NobodyTyped
<1>5. /\ ActorTyped(d)' /\ d \in Actor /\ d.phase \in {"down", "running"}
      /\ d.phase = "running" => /\ v.phase = "running" /\ RunningFine(d, o)' /\ d.cursor = a.cursor
                                /\ d.started = a.started
  <2>1. CASE d = Nobody
    BY <1>2, <2>1, NobodyTyped DEF ActorTyped
  <2>2. CASE d # Nobody
    <3>1. v.phase = "running" /\ a.phase = "running" /\ d = AfterCut(a).actor
      BY <1>A, <1>D, <2>2
    <3>2. ActorTyped(d)' /\ RunningFine(d, o)'
      BY <1>2, <1>3, <3>1, AfterCutFine
    <3>3. d \in Actor /\ d.phase = "running" /\ d.cursor = a.cursor /\ d.started = a.started
      BY <1>3, <3>1, AfterCutIs
    <3> QED  BY <3>1, <3>2, <3>3
  <2> QED  BY <2>1, <2>2
<1>6. a.cursor.rseq \in Nat
  BY <1>3, EntryFields DEF Actor
<1>7. outs \in Seq(ToHost) /\ n \in Nat
  BY <1>N DEF RecoveryInv, OutsFine
<1>8. /\ w \in Seq(ToHost) /\ Len(w) \in Nat
      /\ \A i \in 1..Len(w) : /\ i = 1 /\ w[i] = Cuts(a) /\ v.phase = "running" /\ Cuts(a).is = "checkpoint"
                              /\ FineCut(Cuts(a).cp)' /\ Cuts(a).cp.resume = a.cursor
  <2>1. CASE w = <<>>
    BY <2>1
  <2>2. CASE v.phase = "running" /\ w = <<Cuts(v)>>
    <3>1. /\ Cuts(a) \in ToHost /\ Cuts(a).is = "checkpoint"
          /\ FineCut(Cuts(a).cp)' /\ Cuts(a).cp.resume = a.cursor
      BY <1>2, <1>3, <1>A, <2>2, CutFine DEF ToHost, ToSessiond
    <3>2. w = <<Cuts(a)>>
      BY <1>A, <2>2
    <3> QED  BY <2>2, <3>1, <3>2
  <2> QED  BY <1>W, <2>1, <2>2
<1>9. ASSUME NEW k \in Nat, k >= n, v.phase = "running" PROVE Covers(a.cursor.rseq, k)'
  <2>1. Covers(a.cursor.rseq, n)
    BY <1>A, <1>N, <1>9 DEF RecoveryInv, ActorFine
  <2>2. \A i \in 1..n : outs'[i] = outs[i]
    <3>1. ASSUME NEW q, q = outs PROVE \A i \in 1..Len(q) : outs'[i] = q[i]
      <4>1. q \in Seq(ToHost) /\ outs' = q \o w
        BY <1>7, <3>1 DEF CutsTo
      <4> QED  BY <1>8, <4>1, AmongConcat
    <3> QED  BY <1>N, <3>1
  <2>3. ASSUME NEW r, Promised(r, n) PROVE Promised(r, k)'
    <3>1. PICK j \in 1..n : outs[j].is = "effects" /\ outs[j].rseq = r
      BY <2>3 DEF Promised
    <3>2. j \in 1..k /\ outs'[j] = outs[j]
      BY <1>7, <1>9, <2>2
    <3> QED  BY <3>1, <3>2 DEF Promised
  <2> QED  BY <1>1, <1>2, <2>1, <2>3 DEF Covers
<1>10. ASSUME NEW i \in 1..Len(w), NEW m \in ToHost, m = w[i] PROVE FineOut(n + i, m)'
  <2>1. i = 1 /\ m.is = "checkpoint" /\ v.phase = "running" /\ FineCut(m.cp)' /\ m.cp.resume = a.cursor
    BY <1>8, <1>10
  <2>2. n + i - 1 \in Nat /\ n + i - 1 >= n
    BY <1>7, <2>1
  <2>3. Covers(a.cursor.rseq, n + i - 1)'
    BY <1>9, <2>1, <2>2
  <2>4. Covers(m.cp.resume.rseq, n + i - 1)'
    BY <2>1, <2>3
  <2>5. m.is = "checkpoint" /\ FineCut(m.cp)'
    BY <2>1
  <2> QED  BY <1>7, <1>8, <2>1, <2>2, <2>4, <2>5 DEF FineOut
<1>11. \A r \in Nat : Past(r) => Past(r)'
  BY <1>5, <1>A, <1>S DEF Past
<1>12. d.phase = "running" => RunningFine(d, o)' /\ Covers(d.cursor.rseq, n + Len(w))'
  <2>1. n + Len(w) \in Nat /\ n + Len(w) >= n
    BY <1>7, <1>8
  <2> QED  BY <1>5, <1>9, <2>1
<1>13. Acts(o, d, w, n)
  <2>1. open = o /\ open' = o /\ UNCHANGED effectVars
    BY <1>2, <1>O, <1>S
  <2>2. d.phase = "down" \/ (d.phase = "running" /\ v.phase = "running" /\ v.cursor.rseq <= d.cursor.rseq)
    BY <1>5, <1>6, <1>A
  <2>3. /\ \A i \in 1..Len(w) : w[i].is # "attach" /\ w[i].is \notin {"effects", "reply"}
    BY <1>8
  <2>4. outs' = outs \o w
    BY DEF CutsTo
  <2> QED  BY <1>2, <1>5, <1>8, <1>10, <1>11, <1>12, <1>N, <1>S, <2>4, <2>1, <2>2, <2>3 DEF Acts
<1>14. /\ ActorFine' /\ OutsFine' /\ EffectsFine' /\ Asked(outs)' = Asked(outs)
       /\ \A i \in 1..Len(outs') : Suits(outs'[i], d)
       /\ \A i \in 1..Len(toS) : Suits(toS[i], d)
  BY <1>13, ActsOn
<1>15. WireFine'
  BY <1>1, <1>2, WireStays DEF RecoveryInv
<1>16. OnePending'
  <2>1. Asked(toS)' = Asked(toS) /\ Answered' = Answered
    BY <1>1 DEF Asked, Answered
  <2>2. One(Asked(outs))' /\ One(Asked(toS))' /\ One(Answered)'
    BY <1>14, <2>1 DEF RecoveryInv, OnePending, One
  <2> QED  BY <1>14, <2>1, <2>2 DEF RecoveryInv, OnePending
<1>17. WantedFine'
  BY <1>1, <1>5, <1>14, <1>S DEF RecoveryInv, WantedFine, Suits
<1>18. \A i, x : Comes(i, x)' <=> Comes(i, x)
  BY <1>1, <1>2 DEF Comes
<1>19. Steady' /\ First'
  BY <1>1, <1>5, <1>18, <1>A, <1>S DEF RecoveryInv, Steady, First, MayFollow
<1> QED  BY <1>1, <1>2, <1>14, <1>15, <1>16, <1>17, <1>19 DEF RecoveryInv

LEMMA TicksStep ==
  ASSUME RecoveryInv, Ticks
  PROVE  RecoveryInv'
<1>1. /\ v.phase = "running" /\ v' = AfterCut(v).actor /\ outs' = outs \o AfterCut(v).asked
      /\ UNCHANGED <<recordLogVars, log, linkVars, toV, toS, open, opens, effectVars, missed, stranded>>
  BY DEF Ticks, Becomes
<1>2. AfterCut(v).asked \in {<<>>, <<Cuts(v)>>}
  BY AfterCutIs DEF RecoveryInv, ActorFine, ActorTyped
<1>3. CutsTo(AfterCut(v).actor, AfterCut(v).asked)
  BY <1>1, <1>2 DEF CutsTo
<1> QED  BY <1>3, CutsAside

LEMMA ShutsDownStep ==
  ASSUME RecoveryInv, ShutsDown
  PROVE  RecoveryInv'
<1> DEFINE last == IF v.phase = "running" THEN AfterCut(v) ELSE Turn(v, <<>>)
<1>1. /\ v.phase # "down" /\ v' = Nobody /\ outs' = outs \o last.asked
      /\ UNCHANGED <<recordLogVars, log, linkVars, toV, toS, open, opens, effectVars, missed, stranded>>
  BY DEF ShutsDown, Becomes, Turn
<1>2. last.asked = <<>> \/ (v.phase = "running" /\ last.asked = <<Cuts(v)>>)
  BY AfterCutIs DEF RecoveryInv, ActorFine, ActorTyped, Turn
<1>3. CutsTo(Nobody, last.asked)
  BY <1>1, <1>2 DEF CutsTo
<1> QED  BY <1>3, CutsAside

LEMMA DiesStep ==
  ASSUME RecoveryInv, Dies
  PROVE  RecoveryInv'
<1>1. /\ v.phase # "down" \/ outs # <<>>
      /\ v' = Nobody /\ outs' = <<>>
      /\ UNCHANGED <<recordLogVars, log, linkVars, toV, toS, open, opens, effectVars, missed, stranded>>
      /\ toV' = toV /\ toS' = toS /\ missed' = missed /\ stranded' = stranded
      /\ notified' = notified /\ rang' = rang /\ replied' = replied
  BY DEF Dies, effectVars
<1>2. ~NoVornd
  BY <1>1 DEF NoVornd, Nobody
<1>3. /\ LogFine /\ Grows /\ Reaches /\ LogFine' /\ RunFine' /\ StoredFine' /\ LinkFine'
      /\ OpenFine' /\ opens' # 0 /\ opens' \in 0..MaxOpens
      /\ log' = log /\ sent' = sent /\ next' = next /\ open' = open /\ sent \in Nat
  BY <1>1, <1>2, VorndMoves
<1>4. ActorTyped(v)' /\ v'.phase = "down"
  <2>1. ActorTyped(Nobody)' /\ Nobody.phase = "down"
    BY <1>3, NobodyTyped
  <2> QED  BY <1>1, <2>1 DEF ActorTyped
<1>5. ActorFine' /\ OutsFine'
  BY <1>1, <1>4 DEF ActorFine, OutsFine
<1>6. EffectsFine'
  BY <1>1, <1>3, <1>4 DEF RecoveryInv, EffectsFine, Past
<1>7. WireFine'
  BY <1>1, <1>3, WireStays DEF RecoveryInv
<1>8. OnePending'
  <2>1. Asked(toS)' = Asked(toS) /\ Answered' = Answered /\ Asked(outs)' = {}
    BY <1>1 DEF Asked, Answered
  <2>2. One(Asked(outs))' /\ One(Asked(toS))' /\ One(Answered)'
    BY <2>1 DEF RecoveryInv, OnePending, One
  <2> QED  BY <2>1, <2>2 DEF RecoveryInv, OnePending
<1>9. WantedFine' /\ Steady' /\ First'
  BY <1>1, <1>4 DEF WantedFine, Suits, Steady, First
<1> QED  BY <1>1, <1>3, <1>5, <1>6, <1>7, <1>8, <1>9 DEF RecoveryInv

-----------------------------------------------------------------------------
(* What the host does: the oldest of what was asked.                       *)

Does(o) ==
  /\ outs # <<>> /\ o = outs[1] /\ o \in ToHost /\ outs' = Tail(outs) /\ FineOut(1, o)
  /\ o.is = "effects" => /\ notified' = notified \cup {o.rseq}
                         /\ rang' = IF o.bell THEN [rang EXCEPT ![o.rseq] = @ + 1] ELSE rang
                         /\ replied' = replied /\ toS' = toS
  /\ o.is = "reply" => /\ replied' = [replied EXCEPT ![o.rseq] = @ + 1]
                       /\ rang' = rang /\ notified' = notified /\ toS' = toS
  /\ o.is \in {"attach", "checkpoint"} =>
       o \in ToSessiond /\ toS' = Append(toS, o)
         /\ rang' = rang /\ replied' = replied /\ notified' = notified
  /\ o.is \in {"effects", "reply", "attach", "checkpoint"}
  /\ v' = v /\ toV' = toV /\ missed' = missed /\ stranded' = stranded
  /\ UNCHANGED <<recordLogVars, log, linkVars, open, opens>>

LEMMA DoesIs ==
  ASSUME RecoveryInv, HostDoes, NEW o, o = outs[1]
  PROVE  Does(o) /\ ~NoVornd /\ notified \subseteq notified'
<1>1. outs \in Seq(ToHost) /\ outs # <<>> /\ outs' = Tail(outs) /\ Len(outs) \in Nat /\ 1 \in 1..Len(outs)
      /\ Head(outs) = o /\ o \in ToHost
  <2>1. outs \in Seq(ToHost) /\ outs # <<>> /\ outs' = Tail(outs)
    BY DEF RecoveryInv, OutsFine, HostDoes
  <2> QED  BY <2>1, TailIs
<1>2. FineOut(1, o)
  BY <1>1 DEF RecoveryInv, OutsFine
<1>3. o.is \in {"attach", "checkpoint"} => o \in ToSessiond
  BY <1>1 DEF ToHost
<1>4. o.is \in {"effects", "reply", "attach", "checkpoint"}
  BY <1>1 DEF ToHost, ToSessiond, Attaches, CheckpointMsgs
<1>5. /\ o.is = "effects" => /\ notified' = notified \cup {o.rseq}
                             /\ rang' = IF o.bell THEN [rang EXCEPT ![o.rseq] = @ + 1] ELSE rang
                             /\ replied' = replied /\ toS' = toS
      /\ o.is = "reply" => /\ replied' = [replied EXCEPT ![o.rseq] = @ + 1]
                           /\ rang' = rang /\ notified' = notified /\ toS' = toS
      /\ o.is \in {"attach", "checkpoint"} =>
           toS' = Append(toS, o) /\ rang' = rang /\ replied' = replied /\ notified' = notified
  BY <1>1 DEF HostDoes, effectVars
<1>6. /\ v' = v /\ toV' = toV /\ missed' = missed /\ stranded' = stranded
      /\ UNCHANGED <<recordLogVars, log, linkVars, open, opens>>
  BY DEF HostDoes
<1>7. Does(o)
  BY <1>1, <1>2, <1>3, <1>4, <1>5, <1>6 DEF Does
<1>8. ~NoVornd
  BY <1>1 DEF NoVornd
<1>9. notified \subseteq notified'
  BY <1>4, <1>5
<1> QED  BY <1>7, <1>8, <1>9

(* What comes next in the queue comes one sooner.                          *)
LEMMA SoonerCovers ==
  ASSUME LogFine, Grows, log' = log, NEW o, Does(o), outs \in Seq(ToHost), notified \subseteq notified',
         NEW c, NEW k \in 0..Len(outs) - 1, Covers(c, k + 1)
  PROVE  Covers(c, k)'
<1>1. Len(outs) \in Nat /\ \A i \in 1..Len(outs) - 1 : outs'[i] = outs[i + 1]
  BY TailIs DEF Does
<1>2. ASSUME NEW r, Promised(r, k + 1) PROVE Promised(r, k)' \/ r \in notified'
  <2>1. PICK j \in 1..k + 1 : outs[j].is = "effects" /\ outs[j].rseq = r
    BY <1>2 DEF Promised
  <2>2. CASE j = 1
    BY <2>1, <2>2 DEF Does
  <2>3. CASE j # 1
    <3>1. j - 1 \in 1..k /\ j - 1 \in 1..Len(outs) - 1 /\ j - 1 + 1 = j
      BY <1>1, <2>3
    <3>2. outs'[j - 1] = outs[j]
      BY <1>1, <3>1
    <3> QED  BY <2>1, <3>1, <3>2 DEF Promised
  <2> QED  BY <2>2, <2>3
<1> QED  BY <1>2 DEF Covers

LEMMA HostLeaves ==
  ASSUME RecoveryInv, NEW o, Does(o), LogFine', Grows, Reaches, log' = log, sent' = sent, open' = open,
         notified \subseteq notified', sent \in Nat
  PROVE  ActorFine' /\ OutsFine' /\ EffectsFine'
<1>1. /\ LogFine /\ outs \in Seq(ToHost) /\ outs # <<>> /\ v' = v /\ outs' = Tail(outs)
      /\ o = outs[1] /\ o \in ToHost /\ sent <= Len(log) /\ Len(log) \in Nat
  BY LogTypes DEF RecoveryInv, OutsFine, Does, LinkFine
<1>0. \A r \in Nat : r < sent \/ r < Len(log) => r \in 0..MaxRecords - 1
  <2>1. MaxRecords \in Nat /\ Len(log) <= MaxRecords
    BY <1>1, RecordsBound, RecoveryAssumption
  <2> QED  BY <1>1, <2>1
<1>2. /\ outs' \in Seq(ToHost) /\ Len(outs) \in Nat /\ Len(outs) >= 1 /\ Len(outs') = Len(outs) - 1
      /\ \A i \in 1..Len(outs') : i + 1 \in 1..Len(outs) /\ outs'[i] = outs[i + 1]
  BY <1>1, TailIs
<1>3. \A r : Past(r)' <=> Past(r)
  BY <1>1 DEF Past
<1>4. ActorFine'
  <2>1. ASSUME NEW a, a = v, NEW q, q = open PROVE ActorFine'
    <3>1. ActorTyped(a)'
      BY <1>1, <2>1, TypedStays DEF RecoveryInv, ActorFine
    <3>2. ASSUME a.phase = "running" PROVE RunningFine(a, q)' /\ Covers(a.cursor.rseq, Len(outs))'
      <4>1. RunningFine(a, q)'
        BY <1>1, <2>1, <3>2, RunningStays DEF RecoveryInv, ActorFine
      <4>2. PICK k : k = Len(outs) - 1
        OBVIOUS
      <4>3. k \in 0..Len(outs) - 1 /\ k + 1 = Len(outs) /\ k = Len(outs')
        BY <1>2, <4>2
      <4>4. Covers(a.cursor.rseq, k + 1)
        BY <2>1, <3>2, <4>3 DEF RecoveryInv, ActorFine
      <4>5. Covers(a.cursor.rseq, k)'
        BY <1>1, <4>3, <4>4, SoonerCovers
      <4> QED  BY <4>1, <4>3, <4>5
    <3> QED  BY <1>1, <2>1, <3>1, <3>2 DEF ActorFine
  <2> QED  BY <2>1
<1>5. ASSUME NEW i \in 1..Len(outs), i # 1, outs[i].is \in {"effects", "reply"}, outs[i].is = o.is
      PROVE  outs[i].rseq # o.rseq
  <2>1. 1 \in 1..Len(outs)
    BY <1>2
  <2> QED  BY <1>1, <1>5, <2>1 DEF RecoveryInv, OutsFine
<1>6. \A r \in 0..MaxRecords - 1 : rang[r] \in {0, 1} /\ replied[r] \in {0, 1}
  BY DEF RecoveryInv, EffectsFine
<1>7. ASSUME NEW i \in 1..Len(outs'), NEW m \in ToHost, m = outs'[i] PROVE FineOut(i, m)'
  <2>1. i + 1 \in 1..Len(outs) /\ m = outs[i + 1] /\ FineOut(i + 1, m) /\ i + 1 # 1
    BY <1>2, <1>7 DEF RecoveryInv, OutsFine
  <2>2. ASSUME m.is = "checkpoint" PROVE FineCut(m.cp)' /\ Covers(m.cp.resume.rseq, i - 1)'
    <3>1. m.cp \in Saved /\ FineCut(m.cp)
      BY <2>1, <2>2 DEF FineOut, ToHost, ToSessiond, Attaches, CheckpointMsgs
    <3>2. FineCut(m.cp)'
      BY <1>1, <3>1, CutStays
    <3>3. PICK k : k = i - 1
      OBVIOUS
    <3>4. k \in 0..Len(outs) - 1 /\ k + 1 = i + 1 - 1
      BY <1>2, <2>1, <3>3
    <3>5. Covers(m.cp.resume.rseq, i + 1 - 1)
      BY <2>1, <2>2 DEF FineOut
    <3>6. Covers(m.cp.resume.rseq, k + 1)
      BY <3>4, <3>5
    <3>7. Covers(m.cp.resume.rseq, k)'
      BY <1>1, <3>4, <3>6, SoonerCovers
    <3> QED  BY <3>2, <3>3, <3>7
  <2>3. m.is \in {"effects", "reply"} => m.rseq \in Nat
    BY DEF ToHost, ToSessiond, Attaches, CheckpointMsgs
  <2>4. ASSUME m.is = "effects" PROVE FineEffects(m)'
    <3>1. m.rseq < sent /\ Past(m.rseq) /\ (m.bell => open.sent <= m.rseq /\ rang[m.rseq] = 0)
      BY <2>1, <2>4 DEF FineOut, FineEffects
    <3>2. m.rseq \in 0..MaxRecords - 1
      BY <1>0, <2>3, <2>4, <3>1
    <3>3. rang'[m.rseq] = rang[m.rseq]
      <4>1. o.is = "effects" => m.rseq # o.rseq
        BY <1>5, <2>1, <2>4
      <4> QED  BY <3>2, <4>1 DEF Does, RecoveryInv, EffectsFine
    <3> QED  BY <1>3, <3>1, <3>3 DEF FineEffects
  <2>5. ASSUME m.is = "reply" PROVE FineReply(m)'
    <3>1. m.rseq < Len(log) /\ Past(m.rseq) /\ open.head <= m.rseq /\ replied[m.rseq] = 0
      BY <2>1, <2>5 DEF FineOut, FineReply
    <3>2. m.rseq \in 0..MaxRecords - 1
      BY <1>0, <2>3, <2>5, <3>1
    <3>3. replied'[m.rseq] = replied[m.rseq]
      <4>1. o.is = "reply" => m.rseq # o.rseq
        BY <1>5, <2>1, <2>5
      <4> QED  BY <3>2, <4>1 DEF Does, RecoveryInv, EffectsFine
    <3> QED  BY <1>3, <3>1, <3>3 DEF FineReply
  <2> QED  BY <2>2, <2>4, <2>5 DEF FineOut
<1>8. ASSUME NEW i \in 1..Len(outs'), NEW j \in 1..Len(outs'), outs'[i].is \in {"effects", "reply"},
             outs'[j].is = outs'[i].is, outs'[j].rseq = outs'[i].rseq
      PROVE  i = j
  <2>1. i + 1 = j + 1
    BY <1>2, <1>8 DEF RecoveryInv, OutsFine
  <2> QED  BY <2>1
<1>9. OutsFine'
  BY <1>2, <1>7, <1>8 DEF OutsFine
<1>10. o.is \in {"effects", "reply"} => o.rseq \in 0..MaxRecords - 1
  <2>1. o.is \in {"effects", "reply"} => o.rseq \in Nat
    BY <1>1 DEF ToHost, ToSessiond, Attaches, CheckpointMsgs
  <2>2. o.is = "effects" => o.rseq < sent
    BY DEF Does, FineOut, FineEffects
  <2>3. o.is = "reply" => o.rseq < Len(log)
    BY DEF Does, FineOut, FineReply
  <2> QED  BY <1>0, <2>1, <2>2, <2>3
<1>11. /\ rang' \in [0..MaxRecords - 1 -> {0, 1}]
       /\ \A r \in 0..MaxRecords - 1 : rang'[r] = 1 => rang[r] = 1 \/ (r < sent /\ Past(r))
  <2>1. CASE o.is = "effects" /\ o.bell
    <3>1. rang[o.rseq] = 0 /\ o.rseq < sent /\ Past(o.rseq)
      BY <2>1 DEF Does, FineOut, FineEffects
    <3>2. rang' = [rang EXCEPT ![o.rseq] = 1]
      BY <2>1, <3>1 DEF Does
    <3> QED  BY <1>10, <2>1, <3>1, <3>2 DEF RecoveryInv, EffectsFine
  <2>2. CASE ~(o.is = "effects" /\ o.bell)
    <3>1. rang' = rang
      BY <2>2 DEF Does
    <3> QED  BY <3>1 DEF RecoveryInv, EffectsFine
  <2> QED  BY <2>1, <2>2
<1>12. /\ replied' \in [0..MaxRecords - 1 -> {0, 1}]
       /\ \A r \in 0..MaxRecords - 1 : replied'[r] = 1 => replied[r] = 1 \/ (r < Len(log) /\ Past(r))
  <2>1. CASE o.is = "reply"
    <3>1. replied[o.rseq] = 0 /\ o.rseq < Len(log) /\ Past(o.rseq)
      BY <2>1 DEF Does, FineOut, FineReply
    <3>2. replied' = [replied EXCEPT ![o.rseq] = 1]
      BY <2>1, <3>1 DEF Does
    <3> QED  BY <1>10, <2>1, <3>1, <3>2 DEF RecoveryInv, EffectsFine
  <2>2. CASE o.is # "reply"
    <3>1. replied' = replied
      BY <2>2 DEF Does
    <3> QED  BY <3>1 DEF RecoveryInv, EffectsFine
  <2> QED  BY <2>1, <2>2
<1>13. EffectsFine'
  BY <1>3, <1>11, <1>12 DEF RecoveryInv, EffectsFine
<1> QED  BY <1>4, <1>9, <1>13

(* A checkpoint that goes out covers only what was notified of.            *)
LEMMA CutGoesOut ==
  ASSUME LogFine, Grows, Reaches, log' = log, notified' = notified, NEW cp \in Saved, FineCut(cp),
         Covers(cp.resume.rseq, 0)
  PROVE  Restorable(cp)'
<1>1. cp.resume \in Cursor /\ cp.resume.rseq \in 0..Len(log)
  BY BoundaryRange DEF FineCut
<1>2. Done(cp.resume.rseq)
  <2>1. \A r : ~Promised(r, 0)
    BY DEF Promised
  <2> QED  BY <2>1 DEF Covers, Done
<1>3. Restorable(cp)
  BY <1>2 DEF Restorable, Usable, Held, FineCut
<1> QED  BY <1>3, RestorableStays

LEMMA HostDoesStep ==
  ASSUME RecoveryInv, HostDoes
  PROVE  RecoveryInv'
<1>O. PICK o : o = outs[1]
  OBVIOUS
<1>1. Does(o) /\ ~NoVornd /\ notified \subseteq notified'
  BY <1>O, DoesIs
<1>2. /\ LogFine /\ Grows /\ Reaches /\ LogFine' /\ RunFine' /\ StoredFine' /\ LinkFine'
      /\ OpenFine /\ OpenFine' /\ opens' # 0 /\ opens' \in 0..MaxOpens
      /\ log' = log /\ sent' = sent /\ next' = next /\ open' = open
      /\ sent \in Nat
  BY <1>1, VorndMoves DEF Does
<1>3. ActorFine' /\ OutsFine' /\ EffectsFine'
  BY <1>1, <1>2, HostLeaves
<1>4. /\ v' = v /\ toV' = toV /\ missed' = missed /\ stranded' = stranded /\ outs' = Tail(outs)
      /\ outs \in Seq(ToHost) /\ outs # <<>> /\ o = outs[1] /\ Head(outs) = o
      /\ toS \in Seq(ToSessiond) /\ Suits(o, v)
  <2>1. outs \in Seq(ToHost) /\ outs # <<>> /\ toS \in Seq(ToSessiond)
    BY <1>1 DEF RecoveryInv, OutsFine, WireFine, Does
  <2>2. 1 \in 1..Len(outs) /\ Head(outs) = outs[1]
    BY <2>1, TailIs
  <2>3. Suits(outs[1], v)
    BY <2>2 DEF RecoveryInv, WantedFine
  <2> QED  BY <1>1, <2>1, <2>2, <2>3 DEF Does
<1>5. \/ o.is \notin {"attach", "checkpoint"} /\ toS' = toS
      \/ o.is \in {"attach", "checkpoint"} /\ o \in ToSessiond /\ toS' = Append(toS, o)
  BY <1>1 DEF Does
<1>6. WireFine'
  <2>1. \A m \in Among(toV) : FineToVornd(m)'
    <3>1. Among(toV) \subseteq ToVornd
      BY DEF RecoveryInv, WireFine, Among
    <3> QED  BY <1>1, <1>2, <3>1, MessageStays DEF RecoveryInv, WireFine
  <2>2. \A m \in Among(toS) : m.is = "checkpoint" => Restorable(m.cp)'
    BY <1>1, <1>2, RestorableStays DEF RecoveryInv, WireFine
  <2>3. o.is = "checkpoint" => Restorable(o.cp)'
    <3> SUFFICES ASSUME o.is = "checkpoint" PROVE Restorable(o.cp)'
      OBVIOUS
    <3>1. o.cp \in Saved
      BY <1>1 DEF Does, ToHost, ToSessiond, Attaches, CheckpointMsgs
    <3>2. FineCut(o.cp) /\ Covers(o.cp.resume.rseq, 0) /\ notified' = notified
      BY <1>1 DEF Does, FineOut
    <3> QED  BY <1>2, <3>1, <3>2, CutGoesOut
  <2>4. toS' \in Seq(ToSessiond) /\ Among(toS)' \subseteq Among(toS) \cup {o}
        /\ (Among(toS)' \subseteq Among(toS) \/ o.is \in {"attach", "checkpoint"})
    <3>1. CASE toS' = toS
      BY <1>4, <3>1 DEF Among
    <3>2. CASE o.is \in {"attach", "checkpoint"} /\ o \in ToSessiond /\ toS' = Append(toS, o)
      <4>1. Append(toS, o) \in Seq(ToSessiond) /\ Among(Append(toS, o)) = Among(toS) \cup {o}
        BY <1>4, <3>2, AppendIs, AmongIs
      <4>2. Among(toS)' = Among(Append(toS, o))
        BY <3>2 DEF Among
      <4> QED  BY <3>2, <4>1, <4>2
    <3> QED  BY <1>5, <3>1, <3>2
  <2>5. Among(toV)' = Among(toV) /\ toV' \in Seq(ToVornd) /\ Len(toV') <= Lane
    BY <1>4 DEF RecoveryInv, WireFine, Among
  <2> QED  BY <2>1, <2>2, <2>3, <2>4, <2>5 DEF WireFine
<1>7. OnePending'
  <2>1. /\ One(Asked(outs)) /\ One(Asked(toS)) /\ One(Answered)
        /\ Asked(outs) # {} => Asked(toS) = {} /\ Answered = {}
        /\ Asked(toS) # {} => Answered = {}
    BY DEF RecoveryInv, OnePending
  <2>2. /\ One(Asked(Tail(outs))) /\ (Asked(Tail(outs)) # {} => Asked(outs) # {})
        /\ o.is = "attach" => Asked(Tail(outs)) = {} /\ Asked(outs) # {}
    BY <1>4, <2>1, AskedTail
  <2>3. Asked(outs)' = Asked(Tail(outs)) /\ Answered' = Answered
    BY <1>4 DEF Asked, Answered
  <2>4. PICK n : n = Len(toS) + 1
    OBVIOUS
  <2>5. \/ Asked(toS)' = Asked(toS) /\ o.is # "attach"
        \/ Asked(toS)' = Asked(toS) \cup {n} /\ o.is = "attach"
    <3>1. CASE o.is \notin {"attach", "checkpoint"} /\ toS' = toS
      BY <3>1 DEF Asked
    <3>2. CASE o.is \in {"attach", "checkpoint"} /\ o \in ToSessiond /\ toS' = Append(toS, o)
      <4>1. Asked(toS)' = Asked(Append(toS, o))
        BY <3>2 DEF Asked
      <4>2. Asked(Append(toS, o)) = Asked(toS) \cup (IF o.is = "attach" THEN {n} ELSE {})
        BY <1>4, <2>4, <3>2, AskedAppend
      <4> QED  BY <4>1, <4>2
    <3> QED  BY <1>5, <3>1, <3>2
  <2>6. CASE Asked(toS)' = Asked(toS) /\ o.is # "attach"
    <3>1. One(Asked(outs))' /\ One(Asked(toS))' /\ One(Answered)'
      BY <2>1, <2>2, <2>3, <2>6 DEF One
    <3> QED  BY <2>1, <2>2, <2>3, <2>6, <3>1 DEF OnePending
  <2>7. CASE Asked(toS)' = Asked(toS) \cup {n} /\ o.is = "attach"
    <3>1. Asked(toS)' = {n} /\ Asked(outs)' = {} /\ Answered' = {}
      BY <2>1, <2>2, <2>3, <2>7
    <3>2. One(Asked(outs))' /\ One(Asked(toS))' /\ One(Answered)'
      BY <3>1 DEF One
    <3> QED  BY <3>1, <3>2 DEF OnePending
  <2> QED  BY <2>5, <2>6, <2>7
<1>8. WantedFine'
  <2>1. \A i \in 1..Len(outs') : Suits(outs'[i], v)
    <3>1. ASSUME NEW i \in 1..Len(outs') PROVE i + 1 \in 1..Len(outs) /\ outs'[i] = outs[i + 1]
      BY <1>4, TailIs
    <3> QED  BY <3>1 DEF RecoveryInv, WantedFine
  <2>2. \A i \in 1..Len(toS) : Suits(toS[i], v)
    BY DEF RecoveryInv, WantedFine
  <2>3. \A i \in 1..Len(toS') : Suits(toS'[i], v)
    <3>1. CASE toS' = toS
      BY <2>2, <3>1
    <3>2. CASE o \in ToSessiond /\ toS' = Append(toS, o)
      <4> SUFFICES ASSUME NEW i \in 1..Len(toS') PROVE toS'[i] \in {o} \/ (i \in 1..Len(toS) /\ toS'[i] = toS[i])
        BY <1>4, <2>2
      <4> QED  BY <1>4, <3>2, AppendIs
    <3> QED  BY <1>5, <3>1, <3>2
  <2>4. ASSUME NEW m, Suits(m, v) PROVE Suits(m, v)'
    BY <1>4, <2>4 DEF Suits
  <2>5. v'.phase = "running" => \A i \in 1..Len(toV') : toV'[i].is # "checkpoint"
    BY <1>4 DEF RecoveryInv, WantedFine
  <2> QED  BY <1>4, <2>1, <2>3, <2>5 DEF WantedFine, Suits
<1>9. \A i, x : Comes(i, x)' <=> Comes(i, x)
  BY <1>2, <1>4 DEF Comes
<1>10. Steady' /\ First'
  BY <1>4, <1>9 DEF RecoveryInv, Steady, First, MayFollow
<1>11. ~missed' /\ stranded' \in BOOLEAN
  BY <1>4 DEF RecoveryInv
<1> QED  BY <1>2, <1>3, <1>6, <1>7, <1>8, <1>10, <1>11 DEF RecoveryInv

-----------------------------------------------------------------------------
(* The invariant holds throughout.                                         *)

LEMMA RecoveryStarts ==
  ASSUME RecoveryInit
  PROVE  RecoveryInv
<1>1. /\ head = Start /\ retain_from = Start /\ newest = None /\ fallback = None /\ run = <<>>
      /\ lost = 0 /\ log = <<>> /\ sent = 0 /\ sending = <<>> /\ next = None /\ toV = <<>>
      /\ toS = <<>> /\ v = Nobody /\ outs = <<>> /\ opens = 0 /\ ~missed /\ stranded = FALSE
      /\ rang = [r \in 0..MaxRecords - 1 |-> 0] /\ replied = [r \in 0..MaxRecords - 1 |-> 0]
  BY DEF RecoveryInit, LogInit
<1>2. /\ Start \in Cursor /\ Start.rseq = 0
      /\ {MaxRecords, MaxOpens, Lane} \subseteq Nat
  BY RecoveryAssumption DEF Start, Cursor
<1>3. IsLog(<<>>, Start) /\ IsEnd(<<>>, <<>>) /\ BoundaryIn(<<>>, Start, 0) = Start
  BY <1>2 DEF IsLog, IsEnd, BoundaryIn
<1>4. LogFine
  BY <1>1, <1>2, <1>3 DEF LogFine, SettledHead
<1>5. Reach(0) /\ Reach(Base) /\ Done(0) /\ Base = 0
  BY <1>1 DEF Reach, Done, Base
<1>6. RunFine
  BY <1>1, <1>3, <1>5 DEF RunFine
<1>7. StoredFine
  <2>1. IsBoundary(Start)
    BY <1>1, <1>2, <1>3 DEF IsBoundary
  <2>2. Held(Start)
    BY <1>2, <1>5, <2>1 DEF Held
  <2>3. \A c : c = Start => Held(c)
    BY <2>2
  <2>4. Held(retain_from)
    BY <1>1, <2>3
  <2> QED  BY <1>1, <2>4 DEF StoredFine
<1>8. LinkFine
  BY <1>1 DEF LinkFine
<1>9. WireFine
  BY <1>1, <1>2 DEF WireFine, Among
<1>10. ActorFine
  <2>1. /\ Nobody \in Actor /\ Nobody.best = None /\ Nobody.term.size = 0 /\ Nobody.phase = "down"
    BY DEF Nobody, Actor, Fresh, Term, Start, Cursor
  <2>2. ActorTyped(Nobody)
    BY <1>1, <2>1 DEF ActorTyped
  <2>3. \A a : a = Nobody => ActorTyped(a) /\ a.phase = "down"
    BY <2>1, <2>2
  <2>4. ActorTyped(v) /\ v.phase = "down"
    BY <1>1, <2>3
  <2> QED  BY <2>4 DEF ActorFine
<1>11. v.phase = "down"
  BY <1>1 DEF Nobody
<1>12. OutsFine /\ OnePending /\ WantedFine
  BY <1>1, <1>11 DEF OutsFine, OnePending, One, Asked, Answered, WantedFine
<1>13. EffectsFine
  BY <1>1 DEF EffectsFine
<1>14. Steady /\ First
  BY <1>11 DEF Steady, First
<1>15. NoVornd
  BY <1>1 DEF NoVornd
<1>16. opens \in 0..MaxOpens /\ opens = 0
  BY <1>1, <1>2
<1>17. ~missed /\ stranded \in BOOLEAN
  BY <1>1
<1> QED  BY <1>4, <1>6, <1>7, <1>8, <1>9, <1>10, <1>12, <1>13, <1>14, <1>15, <1>16, <1>17
         DEF RecoveryInv

LEMMA RecoveryStutters ==
  ASSUME RecoveryInv, UNCHANGED recoveryVars
  PROVE  RecoveryInv'
<1>1. /\ log' = log /\ sent' = sent /\ next' = next /\ sending' = sending /\ toV' = toV /\ toS' = toS
      /\ v' = v /\ outs' = outs /\ opens' = opens /\ open' = open /\ notified' = notified
      /\ rang' = rang /\ replied' = replied /\ missed' = missed /\ stranded' = stranded
      /\ head' = head /\ lost' = lost /\ overflow' = overflow /\ run' = run /\ newest' = newest
      /\ fallback' = fallback /\ retain_from' = retain_from
  BY DEF recoveryVars, recordLogVars, linkVars, vorndVars, effectVars
<1>2. LogFine /\ RunFine /\ StoredFine /\ LinkFine /\ WireFine /\ sent \in Nat
  BY DEF RecoveryInv, LinkFine
<1>3. Grows /\ LogFine' /\ Reaches
  BY <1>1, <1>2, SameLog, SameReach
<1>4. RunFine'
  <2>1. Droppable(Len(log) - Len(run)) /\ IsEnd(run, log)
    BY <1>2, LogTypes DEF RunFine, IsEnd, Droppable, Base
  <2> QED  BY <1>1, <1>2, <1>3, <2>1, RunGrows
<1>5. StoredFine' /\ LinkFine' /\ WireFine'
  BY <1>1, <1>2, <1>3, StoredStays, LinkStays, WireStays DEF Retains, linkVars
<1>6. ActorFine' /\ OutsFine' /\ EffectsFine' /\ (opens # 0 => OpenFine')
  BY <1>1, <1>2, <1>3, FarSide DEF vorndVars, effectVars
<1>7. OnePending' /\ WantedFine' /\ Steady' /\ First'
  BY <1>1, SameWire
<1>8. opens = 0 => NoVornd'
  BY <1>1 DEF RecoveryInv, NoVornd
<1> QED  BY <1>1, <1>3, <1>4, <1>5, <1>6, <1>7, <1>8 DEF RecoveryInv

(* Whatever the number of records, of vornds and of frames in flight, the   *)
(* invariant holds: of the log, the stored checkpoints, what is on its way  *)
(* either way and what is not done yet.                                    *)
THEOREM RecoveryInvariant == RecoverySpec => []RecoveryInv
<1>1. RecoveryInit => RecoveryInv
  BY RecoveryStarts
<1>2. RecoveryInv /\ [RecoveryNext]_recoveryVars => RecoveryInv'
  <2> SUFFICES ASSUME RecoveryInv, [RecoveryNext]_recoveryVars PROVE RecoveryInv'
    OBVIOUS
  <2>1. CASE Appends
    BY <2>1, AppendsStep
  <2>2. CASE ServesAttach
    BY <2>2, ServesAttachStep
  <2>3. CASE ServesCheckpoint
    BY <2>3, ServesCheckpointStep
  <2>4. CASE SendsAttached
    BY <2>4, SendsAttachedStep
  <2>5. CASE Pumps
    BY <2>5, PumpsStep
  <2>6. CASE OpensSpawned
    BY <2>6, OpensSpawnedStep
  <2>7. CASE OpensWelcomed
    BY <2>7, OpensWelcomedStep
  <2>8. CASE HearsCheckpoint
    BY <2>8, HearsCheckpointStep
  <2>9. CASE HearsRefused
    BY <2>9, HearsRefusedStep
  <2>10. CASE HearsEntry
    BY <2>10, HearsEntryStep
  <2>11. CASE Ticks
    BY <2>11, TicksStep
  <2>12. CASE HostDoes
    BY <2>12, HostDoesStep
  <2>13. CASE ShutsDown
    BY <2>13, ShutsDownStep
  <2>14. CASE Dies
    BY <2>14, DiesStep
  <2>15. CASE UNCHANGED recoveryVars
    BY <2>15, RecoveryStutters
  <2> QED  BY <2>1, <2>2, <2>3, <2>4, <2>5, <2>6, <2>7, <2>8, <2>9, <2>10, <2>11, <2>12, <2>13,
              <2>14, <2>15 DEF RecoveryNext
<1> QED  BY <1>1, <1>2, PTL DEF RecoverySpec

LEMMA MissedTyped == RecoverySpec => [](missed \in BOOLEAN)
<1>1. RecoveryInit => missed \in BOOLEAN
  BY DEF RecoveryInit
<1>2. missed \in BOOLEAN /\ [RecoveryNext]_recoveryVars => (missed \in BOOLEAN)'
  <2> SUFFICES ASSUME missed \in BOOLEAN, [RecoveryNext]_recoveryVars PROVE missed' \in BOOLEAN
    OBVIOUS
  <2>1. CASE HearsEntry
    <3>1. missed' = missed \/ missed' = (missed \/ Before(Head(toV).e) # v.cursor)
      BY <2>1 DEF HearsEntry
    <3>2. (missed \/ Before(Head(toV).e) # v.cursor) \in BOOLEAN
      OBVIOUS
    <3> QED  BY <3>1, <3>2
  <2>2. CASE UNCHANGED missed
    BY <2>2
  <2>3. HearsEntry \/ UNCHANGED missed
    <3>1. CASE Appends \/ ServesAttach \/ ServesCheckpoint \/ SendsAttached \/ Pumps
      BY <3>1 DEF Appends, ServesAttach, ServesCheckpoint, SendsAttached, Pumps
    <3>2. CASE OpensSpawned \/ OpensWelcomed
      BY <3>2 DEF OpensSpawned, OpensWelcomed, Opens
    <3>3. CASE HearsCheckpoint \/ HearsRefused \/ HearsEntry
      BY <3>3 DEF HearsCheckpoint, HearsRefused
    <3>4. CASE Ticks \/ HostDoes \/ ShutsDown \/ Dies
      BY <3>4 DEF Ticks, HostDoes, ShutsDown, Dies
    <3>5. CASE UNCHANGED recoveryVars
      BY <3>5 DEF recoveryVars
    <3> QED  BY <3>1, <3>2, <3>3, <3>4, <3>5 DEF RecoveryNext
  <2> QED  BY <2>1, <2>2, <2>3
<1> QED  BY <1>1, <1>2, PTL DEF RecoverySpec

(* The actor, the connection and the log keep their types, and the lane    *)
(* its limit.                                                              *)
THEOREM RecoveryTypes == RecoverySpec => []TypeOK
<1>1. RecoveryInv /\ missed \in BOOLEAN => TypeOK
  <2> SUFFICES ASSUME RecoveryInv, missed \in BOOLEAN PROVE TypeOK
    OBVIOUS
  <2>1. v \in Actor /\ v.term.size <= Len(log)
    BY DEF RecoveryInv, ActorFine, ActorTyped
  <2>2. Len(log) \in Nat /\ Len(log) <= MaxRecords /\ MaxRecords \in Nat /\ head.rseq = Len(log)
    BY LogTypes, RecordsBound, RecoveryAssumption DEF RecoveryInv
  <2>3. /\ v.phase \in {"down", "attaching", "running", "lost"}
        /\ v.step \in {"none", "newest", "fallback"}
        /\ v.base \in {"none", "newest", "fallback", "start", "best", "oldest"}
        /\ v.cursor \in Cursor /\ {v.started, v.live, v.size_known, v.since} \subseteq BOOLEAN
        /\ v.term \in Term
    BY <2>1 DEF Actor
  <2>4. v.term.size \in 0..MaxRecords /\ {v.term.exact, v.term.right, v.term.blind} \subseteq BOOLEAN
    <3>1. v.term.size \in Nat
      BY <2>3 DEF Term
    <3>2. v.term.size \in 0..MaxRecords
      BY <2>1, <2>2, <3>1
    <3> QED  BY <2>3, <3>2 DEF Term
  <2>5. /\ sent \in 0..head.rseq /\ next \in Cursor \cup {None}
        /\ Len(toV) <= Lane /\ opens \in 0..MaxOpens
    BY <2>2 DEF RecoveryInv, LinkFine, WireFine
  <2>6. {missed, stranded} \subseteq BOOLEAN
    <3>1. stranded \in BOOLEAN
      BY DEF RecoveryInv
    <3> QED  BY <3>1
  <2> QED  BY <2>2, <2>3, <2>4, <2>5, <2>6 DEF TypeOK
<1> QED  BY <1>1, RecoveryInvariant, MissedTyped, PTL

(* A record replayed rings no second bell and answers no second question,   *)
(* however many vornds come and die: a bell is only asked for at or after   *)
(* what the last vornd was sent, an answer only at or after where the log   *)
(* ended when this one took the session on.                                *)
THEOREM DoneAtMostOnceHolds == RecoverySpec => []DoneAtMostOnce
<1>1. RecoveryInv => DoneAtMostOnce
  <2> SUFFICES ASSUME RecoveryInv, NEW r \in 0..MaxRecords - 1
               PROVE  rang[r] <= 1 /\ replied[r] <= 1
    BY DEF DoneAtMostOnce
  <2>1. rang[r] \in {0, 1} /\ replied[r] \in {0, 1}
    BY DEF RecoveryInv, EffectsFine
  <2> QED  BY <2>1
<1> QED  BY <1>1, RecoveryInvariant, PTL

(* Once a stored checkpoint covers a record of output, its notification     *)
(* was made: the host delivers effects before the checkpoint after them.    *)
THEOREM NotifiedBeforeCoveredHolds == RecoverySpec => []NotifiedBeforeCovered
<1>1. RecoveryInv => NotifiedBeforeCovered
  <2> SUFFICES ASSUME RecoveryInv, newest # None
               PROVE  \A r \in 0..newest.resume.rseq - 1 :
                        log[r + 1].kind = "data" => r \in notified
    BY DEF NotifiedBeforeCovered
  <2>1. Done(newest.resume.rseq)
    BY DEF RecoveryInv, StoredFine, Restorable, Usable, Held
  <2> QED  BY <2>1 DEF Done
<1> QED  BY <1>1, RecoveryInvariant, PTL

(* Replay never finds records missing, and what a live connection is sent   *)
(* next is held: what the log drops is behind a stored checkpoint, and no   *)
(* attach begins, nor pump stands, before what is held.                    *)
THEOREM NoHoleInReplayHolds == RecoverySpec => []NoHoleInReplay
<1>1. RecoveryInv => NoHoleInReplay
  <2> SUFFICES ASSUME RecoveryInv, sending = <<>>, next # None PROVE next \in Boundaries
    BY DEF RecoveryInv, NoHoleInReplay
  <2>1. IsLog(log, head) /\ IsEnd(run, log) /\ Len(log) \in Nat /\ Len(run) \in Nat
    BY LogTypes DEF RecoveryInv, RunFine, IsEnd
  <2>2. IsBoundary(next) /\ next.rseq \in Nat /\ next.rseq <= Len(log)
    BY BoundaryRange DEF RecoveryInv, LinkFine
  <2>3. Len(log) - Len(run) <= next.rseq
    <3>1. Base <= next.rseq + Len(sending) /\ Len(sending) = 0
      BY DEF RecoveryInv, RunFine, Reach
    <3> QED  BY <2>1, <2>2, <3>1 DEF Base
  <2>4. BoundaryIn(log, head, next.rseq) \in BoundariesOf(run, head)
    BY <2>1, <2>2, <2>3, RunBoundaries
  <2> QED  BY <2>2, <2>4 DEF IsBoundary, Boundaries
<1> QED  BY <1>1, RecoveryInvariant, PTL

(* A live terminal that calls itself exact has every record, at the size it *)
(* was printed at: were the spawn size still unknown, no resize came before *)
(* the cursor, so the size sessiond named is the spawn size.               *)
THEOREM ExactWhereSizeKnownHolds == RecoverySpec => []ExactWhereSizeKnown
<1>1. RecoveryInv => ExactWhereSizeKnown
  <2> SUFFICES ASSUME RecoveryInv, v.phase = "running", v.live, v.term.exact, ~v.term.blind
               PROVE  v.term.right
    BY DEF ExactWhereSizeKnown
  <2>1. RunningFine(v, open) /\ v.cursor.rseq \in Nat
    BY BoundaryRange DEF RecoveryInv, ActorFine, RunningFine
  <2>2. OpenFine /\ open.head \in Nat /\ open.size \in Nat
    <3>1. ~NoVornd
      BY DEF NoVornd, Nobody
    <3>2. OpenFine
      BY <3>1 DEF RecoveryInv
    <3> QED  BY <3>2 DEF OpenFine, Opened
  <2>3. CASE v.size_known
    BY <2>1, <2>3 DEF RunningFine, ViewFine, Sound
  <2>4. CASE ~v.size_known
    <3>1. /\ \A n \in 1..v.cursor.rseq : log[n].kind # "resize"
          /\ open.size = 0 => v.term.right
      BY <2>1, <2>4 DEF RunningFine, ViewFine
    <3>2. open.head <= v.cursor.rseq
      BY <2>1 DEF RunningFine
    <3>3. open.size <= open.head /\ (open.size # 0 => log[open.size].kind = "resize")
      BY <2>2 DEF OpenFine
    <3>4. open.size # 0 => open.size \in 1..v.cursor.rseq
      BY <2>1, <2>2, <3>2, <3>3
    <3> QED  BY <3>1, <3>3, <3>4
  <2> QED  BY <2>3, <2>4
<1> QED  BY <1>1, RecoveryInvariant, PTL
=============================================================================
