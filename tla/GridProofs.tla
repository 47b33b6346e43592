----------------------------- MODULE GridProofs -----------------------------
(***************************************************************************)
(* Theorems about Grid, for every number of clients, every cap and every   *)
(* height: a mirror is never refused a frame and shows what the grid       *)
(* holds, the grid holds what the terminal shows, and once nothing is on   *)
(* its way every client that watches shows the terminal.                   *)
(*                                                                         *)
(* Three facts carry the invariant.  A row the terminal has not marked     *)
(* dirty stands in the cache as far down as the viewport has scrolled      *)
(* since the last update (Faithful), so the rows an update does not read   *)
(* again are right when they are shifted.  A mirror at an earlier revision *)
(* has, shifted by what the log has scrolled since, every row whose        *)
(* revision is not later (Follows), so a delta brings the rest.  And the   *)
(* messages on their way to a client take its pane, one by one and none    *)
(* refused, to what the hub believes it holds (Walks).                     *)
(* (grid/src/grid.rs, lines.rs, tables.rs, hub.rs, term-mirror.)           *)
(***************************************************************************)
EXTENDS Grid, FiniteSetTheorems, SequenceTheorems, WellFoundedInduction, TLAPS

Cell    == {Blank} \cup Styles
Screens == {"Primary", "Alternate"}

-----------------------------------------------------------------------------
(* The terminal.                                                           *)

Terminal == [screen : Screens, prim : Seq(Cell), alt : Seq(Cell), hist : Seq(Cell),
             first : Nat, dirty : SUBSET Nat, clears : Nat]

Sound(t) ==
  /\ t \in Terminal
  /\ Len(t.prim) > 0 /\ Len(t.alt) = Len(t.prim) /\ t.dirty \subseteq 1..Len(t.prim)

(* The ordinal of the viewport's first row.                                *)
FirstRow(t) == t.first + Len(t.hist)

-----------------------------------------------------------------------------
(* The grid.                                                               *)

Row       == [line : Nat, cell : Nat]
Term      == [size : Nat, screen : Screens, epoch : Nat, top : Nat]
LineCount == [anchor : Nat \cup {Never}, h : Nat \cup {Never}, top : Nat, epoch : Nat,
              moved : [scrolled : Nat, newEpoch : BOOLEAN]]
Rendering == [gen : Nat, rev : Nat, rendered : BOOLEAN, tgen : Nat, styles : Seq(Cell),
              rows : Seq(Row), revs : Seq(Nat), log : Seq([rev : Nat, scrolled : Nat]),
              floor : Nat, term : Term, termRevs : [TermFields -> Nat],
              lines : LineCount, clears : Nat \cup {Never}, full : BOOLEAN]

Encodes(styles, rows) == \A y \in 1..Len(rows) : rows[y].cell < Len(styles)

(* The log goes back to floor, without a gap, and stamps are of the past.  *)
Logged(g) ==
  /\ Len(g.log) <= LogLen
  /\ \A i \in 1..Len(g.log) : g.floor < g.log[i].rev /\ g.log[i].rev <= g.rev
  /\ \A i, j \in 1..Len(g.log) : i < j => g.log[i].rev < g.log[j].rev

Dated(g) ==
  /\ g.floor <= g.rev
  /\ \A y \in 1..Len(g.revs) : g.revs[y] <= g.rev
  /\ \A f \in TermFields : g.termRevs[f] <= g.rev

(* Lines counted since the last update are those its frame will scroll.    *)
Counts(l, term, rendered) ==
  /\ IF l.moved.newEpoch THEN l.epoch > term.epoch ELSE l.epoch = term.epoch
  /\ rendered /\ term.screen = "Primary" /\ ~l.moved.newEpoch
       => l.h # Never /\ l.top = term.top + l.moved.scrolled

GridSane(g) ==
  /\ g \in Rendering
  /\ Len(g.rows) = g.term.size /\ Len(g.revs) = g.term.size
  /\ Len(g.styles) > 0 /\ Encodes(g.styles, g.rows)
  /\ Logged(g) /\ Dated(g) /\ Counts(g.lines, g.term, g.rendered)

GridFine(g) ==
  /\ GridSane(g)
  /\ (g.gen # None <=> g.rendered) /\ (~g.rendered => g = NewGrid(None))

CellOf(g, y) == g.styles[g.rows[y].cell + 1]

Shown(g, y, s) == y \in 1..Len(g.rows) /\ CellOf(g, y) = s

(* How far the viewport has scrolled since the last update.                *)
Drift(g, t) == g.lines.moved.scrolled + (FirstRow(t) - g.lines.anchor)

(* The cache can be carried on from, and has what is not marked dirty.     *)
Carries(g, t) ==
  g.rendered /\ ~g.full /\ t.screen = g.term.screen /\ ~g.lines.moved.newEpoch

Faithful(g, t) ==
  Carries(g, t) =>
    \A y \in (1..Height(t)) \ t.dirty :
      IF t.screen = "Primary"
      THEN /\ g.lines.anchor # Never /\ g.lines.anchor <= FirstRow(t)
           /\ Shown(g, y + Drift(g, t), t.prim[y])
      ELSE Shown(g, y, t.alt[y])

(* The grid is what the terminal shows.                                    *)
Shows(g, t) ==
  /\ g.rendered /\ g.term.screen = t.screen /\ Len(g.rows) = Height(t)
  /\ \A y \in 1..Height(t) : CellOf(g, y) = Viewport(t)[y]

-----------------------------------------------------------------------------
(* A mirror.                                                               *)

Starts(s, u) == Len(s) <= Len(u) /\ \A i \in 1..Len(s) : s[i] = u[i]

MirrorFine(m) ==
  /\ m \in [gen : Nat, rev : Nat, tgen : Nat, term : Term \cup {<<>>}, styles : Seq(Cell),
            rows : Seq(Row), history : {m.history}]
  /\ m.gen # None =>
       /\ m.term \in Term /\ Len(m.rows) = m.term.size
       /\ Len(m.styles) > 0 /\ Encodes(m.styles, m.rows)

(* The row that y of a mirror is, once it has scrolled by n.               *)
RowPast(rows, y, n) == IF y + n <= Len(rows) THEN rows[y + n] ELSE BlankRow

Owed(g, rev) ==
  IF g.term.screen = "Alternate" THEN 0 ELSE Least(ScrolledSince(g.log, rev), g.term.size)

Has(m, g) ==
  /\ m.term.size = g.term.size
  /\ \A y \in 1..g.term.size : g.revs[y] <= m.rev => g.rows[y] = RowPast(m.rows, y, Owed(g, m.rev))

Follows(m, g) ==
  m.gen = g.gen =>
    /\ m.tgen <= g.tgen /\ m.rev <= g.rev
    /\ m.tgen = g.tgen =>
         /\ Starts(m.styles, g.styles)
         /\ \A f \in TermFields : g.termRevs[f] <= m.rev => m.term[f] = g.term[f]
         /\ ~Reshaped(g, m.rev) /\ m.rev >= g.floor => Has(m, g)

-----------------------------------------------------------------------------
(* A client and what is on its way to it.                                  *)

Held       == [gen : Nat, tgen : Nat, rev : Nat, mark : Nat]
Attachment == [on : BOOLEAN, visible : BOOLEAN, held : Held, inFlight : Nat, note : BOOLEAN]
Request    == [kind : {"Ack"}] \cup [kind : {"SetVisible"}, visible : BOOLEAN]
                \cup [kind : {"FetchHistory"}, epoch : Nat, from : Nat]

PaneFine(p) ==
  /\ p \in [mirror : {p.mirror}, stale : BOOLEAN, refused : {FALSE}]
  /\ MirrorFine(p.mirror)

Sees(p, g, n) ==
  /\ PaneFine(p) /\ p.mirror.gen <= n
  /\ p.mirror.gen # None => Follows(p.mirror, g)

(* A pane is where the hub believes its client to be.                      *)
Stands(p, held) ==
  held.gen # None =>
    /\ ~p.stale /\ p.mirror.gen = held.gen /\ p.mirror.tgen = held.tgen
    /\ p.mirror.rev = held.rev /\ Len(p.mirror.styles) = held.mark

IsSeq(s) == \E M : s \in Seq(M)

(* The panes w that the messages ms make of the first of them.             *)
Walk(w, ms) ==
  /\ w = [i \in 1..Len(ms) + 1 |-> w[i]]
  /\ \A i \in 1..Len(ms) : w[i + 1] = Received(w[i], ms[i])

Walks(p, ms, held, g, n) ==
  \E w : /\ Walk(w, ms) /\ w[1] = p /\ Stands(w[Len(ms) + 1], held)
         /\ \A i \in 1..Len(ms) + 1 : Sees(w[i], g, n)

Frames(ms) == {i \in 1..Len(ms) : ms[i].kind \in {"Snapshot", "Delta"}}

AcksIn(us) == {i \in 1..Len(us) : us[i].kind = "Ack"}

Linked(a, p, ms, us, g, n, over) ==
  /\ a \in Attachment /\ IsSeq(ms) /\ us \in Seq(Request)
  /\ ~a.on => a = Gone /\ ms = <<>> /\ us = <<>>
  /\ Walks(p, ms, a.held, g, n)
  /\ ~over => a.inFlight <= Credits
              /\ a.inFlight <= Cardinality(Frames(ms)) + Cardinality(AcksIn(us))

Current(a, g) == a.held.gen = g.gen /\ a.held.tgen = g.tgen /\ a.held.rev = g.rev /\ ~a.note

(* Who watches has the last frame, or has frames to acknowledge.           *)
Caught(a, g, over) ==
  a.visible /\ g.rendered => Current(a, g) \/ (~over /\ a.inFlight >= Credits)

-----------------------------------------------------------------------------
(* The invariant.                                                          *)

ClientsFine ==
  \A c \in Clients : /\ Linked(atts[c], panes[c], out[c], up[c], grid, gens, ended)
                     /\ Caught(atts[c], grid, ended)

OverClients(f) == f = [c \in Clients |-> f[c]]

GridInv ==
  /\ Sound(em) /\ gens \in Nat /\ pending \in BOOLEAN /\ ended \in BOOLEAN
  /\ GridFine(grid) /\ grid.gen <= gens
  /\ Faithful(grid, em) /\ (~pending => Shows(grid, em))
  /\ OverClients(atts) /\ OverClients(out) /\ OverClients(up) /\ OverClients(panes)
  /\ ClientsFine

-----------------------------------------------------------------------------
(* Sequences.                                                              *)

LEMMA TailIs ==
  ASSUME NEW S, NEW s \in Seq(S), s # <<>>
  PROVE  /\ Head(s) \in S /\ Head(s) = s[1] /\ Tail(s) \in Seq(S)
         /\ Len(Tail(s)) = Len(s) - 1 /\ Len(s) \in Nat /\ Len(s) > 0
         /\ \A i \in 1..Len(s) - 1 : Tail(s)[i] = s[i + 1]
OBVIOUS

LEMMA AppendIs ==
  ASSUME NEW S, NEW s \in Seq(S), NEW m \in S
  PROVE  /\ Append(s, m) \in Seq(S) /\ Len(s) \in Nat /\ Len(Append(s, m)) = Len(s) + 1
         /\ Append(s, m)[Len(s) + 1] = m
         /\ \A i \in 1..Len(s) : Append(s, m)[i] = s[i]
OBVIOUS

LEMMA ConcatIs ==
  ASSUME NEW S, NEW s \in Seq(S), NEW u \in Seq(S)
  PROVE  /\ s \o u \in Seq(S) /\ Len(s) \in Nat /\ Len(u) \in Nat /\ Len(s \o u) = Len(s) + Len(u)
         /\ \A i \in 1..Len(s) : (s \o u)[i] = s[i]
         /\ \A i \in 1..Len(u) : (s \o u)[Len(s) + i] = u[i]
OBVIOUS

LEMMA PartIs ==
  ASSUME NEW S, NEW s \in Seq(S), NEW a \in Nat, NEW b \in Nat, a <= b, b <= Len(s)
  PROVE  /\ SubSeq(s, a + 1, b) \in Seq(S) /\ Len(SubSeq(s, a + 1, b)) = b - a
         /\ \A i \in 1..b - a : SubSeq(s, a + 1, b)[i] = s[a + i]
OBVIOUS

LEMMA ListIs ==
  ASSUME NEW S, NEW n \in Nat, NEW f, f = [i \in 1..n |-> f[i]], \A i \in 1..n : f[i] \in S
  PROVE  f \in Seq(S) /\ Len(f) = n
<1>1. f \in [1..n -> S]
  OBVIOUS
<1> QED  BY <1>1

LEMMA LeastIs ==
  ASSUME NEW a \in Nat, NEW b \in Nat
  PROVE  Least(a, b) \in Nat /\ Least(a, b) <= a /\ Least(a, b) <= b /\ Least(a, b) \in {a, b}
BY DEF Least

LEMMA MostIs ==
  ASSUME NEW a \in Nat, NEW b \in Int
  PROVE  Most(a, b) \in Nat /\ Most(a, b) >= a /\ Most(a, b) >= b /\ Most(a, b) \in {a, b}
BY DEF Most

LEMMA StartsTwice ==
  ASSUME NEW S, NEW s \in Seq(S), NEW u \in Seq(S), NEW v \in Seq(S), Starts(s, u), Starts(u, v)
  PROVE  Starts(s, v)
BY DEF Starts

LEMMA StartsSelf ==
  ASSUME NEW S, NEW s \in Seq(S)
  PROVE  Starts(s, s)
BY DEF Starts

LEMMA LeastExists ==
  ASSUME NEW T \in SUBSET Nat, T # {}
  PROVE  \E m \in T : \A k \in T : m <= k
<1>1. PICK m \in T : \A k \in T : <<k, m>> \notin OpToRel(<, Nat)
  BY NatLessThanWellFounded, WFMin
<1>2. ASSUME NEW k \in T PROVE m <= k
  <2>1. k \in Nat /\ m \in Nat
    OBVIOUS
  <2>2. k < m => <<k, m>> \in OpToRel(<, Nat)
    BY <2>1 DEF OpToRel
  <2>3. ~(k < m)
    BY <1>1, <2>2
  <2> QED  BY <2>1, <2>3
<1> QED  BY <1>2

(* What holds at 0 and is passed on holds up to n: the least number it      *)
(* fails at would have one before it where it holds.                        *)
LEMMA Inductive ==
  ASSUME NEW n \in Nat, NEW T, 0 \in T, \A k \in 1..n : k - 1 \in T => k \in T
  PROVE  \A k \in 0..n : k \in T
<1> DEFINE Bad == (0..n) \ T
<1> SUFFICES ASSUME Bad # {} PROVE FALSE
  OBVIOUS
<1>1. PICK m \in Bad : \A k \in Bad : m <= k
  <2>1. Bad \in SUBSET Nat
    OBVIOUS
  <2> HIDE DEF Bad
  <2> QED  BY <2>1, LeastExists
<1>2. m \in 1..n /\ m - 1 \in 0..n /\ m - 1 \notin Bad
  BY <1>1
<1> QED  BY <1>2

-----------------------------------------------------------------------------
(* The folds: that each has a value, and what it is.                       *)

MintsTo(styles, found, read, known, n) ==
  /\ known = [k \in 0..n |-> known[k]] /\ known[0] = styles
  /\ \A k \in 1..n :
       known[k] = IF k \notin read \/ Contains(known[k - 1], found[k]) THEN known[k - 1]
                  ELSE Append(known[k - 1], found[k])

LEMMA MintsExist ==
  ASSUME NEW styles, NEW found, NEW read, NEW n \in Nat
  PROVE  \E known : MintsTo(styles, found, read, known, n)
<1> DEFINE T == {k \in 0..n : \E known : MintsTo(styles, found, read, known, k)}
<1>1. 0 \in T
  <2>1. MintsTo(styles, found, read, [k \in 0..0 |-> styles], 0)
    BY DEF MintsTo
  <2> QED  BY <2>1
<1>2. ASSUME NEW k \in 1..n, k - 1 \in T PROVE k \in T
  <2>1. PICK g : MintsTo(styles, found, read, g, k - 1)
    BY <1>2
  <2> DEFINE last == IF k \notin read \/ Contains(g[k - 1], found[k]) THEN g[k - 1]
                     ELSE Append(g[k - 1], found[k])
             h == [i \in 0..k |-> IF i = k THEN last ELSE g[i]]
  <2>2. h[k] = last /\ \A i \in 0..k - 1 : h[i] = g[i]
    OBVIOUS
  <2>3. h = [i \in 0..k |-> h[i]]
    OBVIOUS
  <2> HIDE DEF h
  <2>4. h[0] = styles
    BY <2>1, <2>2 DEF MintsTo
  <2>5. ASSUME NEW i \in 1..k
        PROVE  h[i] = IF i \notin read \/ Contains(h[i - 1], found[i]) THEN h[i - 1]
                      ELSE Append(h[i - 1], found[i])
    <3>1. h[i - 1] = g[i - 1]
      BY <2>2
    <3>2. CASE i = k
      BY <2>2, <3>1, <3>2, Zenon
    <3>3. CASE i # k
      <4>1. i \in 1..k - 1 /\ h[i] = g[i]
        BY <2>2, <3>3
      <4> QED  BY <2>1, <3>1, <4>1, Zenon DEF MintsTo
    <3> QED  BY <3>2, <3>3
  <2>6. MintsTo(styles, found, read, h, k)
    BY <2>3, <2>4, <2>5, Zenon DEF MintsTo
  <2> QED  BY <2>6
<1> HIDE DEF T
<1>3. n \in T
  BY <1>1, <1>2, Inductive
<1> QED  BY <1>3 DEF T

(* The styles start with those there were, and have what was read.         *)
LEMMA MintedIs ==
  ASSUME NEW styles \in Seq(Cell), NEW found \in Seq(Cell), NEW read
  PROVE  /\ Minted(styles, found, read) \in Seq(Cell)
         /\ Starts(styles, Minted(styles, found, read))
         /\ \A i \in 1..Len(found) :
              i \in read => \E j \in 1..Len(Minted(styles, found, read)) :
                               Minted(styles, found, read)[j] = found[i]
<1> DEFINE n == Len(found)
           known[i \in 0..Len(found)] ==
             IF i = 0 THEN styles
             ELSE IF i \notin read \/ Contains(known[i - 1], found[i]) THEN known[i - 1]
             ELSE Append(known[i - 1], found[i])
<1>1. Minted(styles, found, read) = known[n]
  BY DEF Minted
<1>2. known = [i \in 0..n |->
                 IF i = 0 THEN styles
                 ELSE IF i \notin read \/ Contains(known[i - 1], found[i]) THEN known[i - 1]
                 ELSE Append(known[i - 1], found[i])]
  <2>1. n \in Nat
    OBVIOUS
  <2>2. PICK g : MintsTo(styles, found, read, g, n)
    BY <2>1, MintsExist
  <2>3. g = [i \in 0..n |->
               IF i = 0 THEN styles
               ELSE IF i \notin read \/ Contains(g[i - 1], found[i]) THEN g[i - 1]
               ELSE Append(g[i - 1], found[i])]
    <3>1. g = [i \in 0..n |-> g[i]] /\ g[0] = styles
      BY <2>2 DEF MintsTo
    <3>2. ASSUME NEW i \in 0..n
          PROVE  g[i] = IF i = 0 THEN styles
                        ELSE IF i \notin read \/ Contains(g[i - 1], found[i]) THEN g[i - 1]
                        ELSE Append(g[i - 1], found[i])
      <4>1. CASE i = 0
        BY <3>1, <4>1
      <4>2. CASE i # 0
        <5>1. i \in 1..n
          BY <4>2
        <5> QED  BY <2>2, <4>2, <5>1, Zenon DEF MintsTo
      <4> QED  BY <4>1, <4>2
    <3> QED  BY <3>1, <3>2, Zenon
  <2> QED  BY <2>3
<1> HIDE DEF known
<1> DEFINE Fine(u, k) == /\ u \in Seq(Cell) /\ Starts(styles, u)
                         /\ \A i \in 1..k : i \in read => \E j \in 1..Len(u) : u[j] = found[i]
           T == {k \in 0..n : Fine(known[k], k)}
<1>3. 0 \in T
  <2>1. known[0] = styles /\ 0 \in 0..n
    BY <1>2
  <2> QED  BY <2>1, StartsSelf
<1>4. ASSUME NEW k \in 1..n, k - 1 \in T PROVE k \in T
  <2> DEFINE u == known[k - 1]
  <2>1. Fine(u, k - 1) /\ found[k] \in Cell /\ k \in 0..n
    BY <1>4
  <2>2. known[k] = IF k \notin read \/ Contains(u, found[k]) THEN u ELSE Append(u, found[k])
    <3>1. known[k] = IF k = 0 THEN styles
                     ELSE IF k \notin read \/ Contains(known[k - 1], found[k]) THEN known[k - 1]
                     ELSE Append(known[k - 1], found[k])
      BY <1>2, <2>1, Zenon
    <3>2. k # 0
      BY <1>4
    <3> QED  BY <3>1, <3>2, Zenon
  <2> HIDE DEF u
  <2>3. CASE k \notin read
    <3>1. Fine(u, k)
      BY <2>1, <2>3
    <3> QED  BY <2>1, <2>2, <2>3, <3>1
  <2>4. CASE Contains(u, found[k])
    <3>1. Fine(u, k)
      BY <2>1, <2>4 DEF Contains
    <3> QED  BY <2>1, <2>2, <2>4, <3>1
  <2>5. CASE k \in read /\ ~Contains(u, found[k])
    <3> DEFINE v == Append(u, found[k])
    <3>1. known[k] = v
      BY <2>2, <2>5
    <3>2. v \in Seq(Cell) /\ Len(u) \in Nat /\ Len(v) = Len(u) + 1 /\ v[Len(u) + 1] = found[k]
          /\ \A i \in 1..Len(u) : v[i] = u[i]
      BY <2>1, AppendIs
    <3> HIDE DEF v
    <3>3. Starts(u, v)
      BY <3>2 DEF Starts
    <3>4. Starts(styles, v)
      BY <2>1, <3>2, <3>3, StartsTwice
    <3>5. ASSUME NEW i \in 1..k, i \in read PROVE \E j \in 1..Len(v) : v[j] = found[i]
      <4>1. CASE i = k
        BY <3>2, <4>1
      <4>2. CASE i # k
        <5>1. PICK j \in 1..Len(u) : u[j] = found[i]
          BY <2>1, <3>5, <4>2
        <5> QED  BY <3>2, <5>1
      <4> QED  BY <4>1, <4>2
    <3> QED  BY <2>1, <3>1, <3>2, <3>4, <3>5
  <2> QED  BY <2>3, <2>4, <2>5
<1>5. n \in Nat /\ n \in 0..n
  OBVIOUS
<1>6. n \in T
  <2> HIDE DEF T
  <2> QED  BY <1>3, <1>4, <1>5, Inductive
<1> QED  BY <1>1, <1>6

SumsTo(log, base, sum, n) ==
  /\ sum = [k \in 0..n |-> sum[k]] /\ sum[0] = 0
  /\ \A k \in 1..n : sum[k] = sum[k - 1] + (IF log[k].rev > base THEN log[k].scrolled ELSE 0)

LEMMA SumsExist ==
  ASSUME NEW log, NEW base, NEW n \in Nat
  PROVE  \E sum : SumsTo(log, base, sum, n)
<1> DEFINE T == {k \in 0..n : \E sum : SumsTo(log, base, sum, k)}
<1>1. 0 \in T
  <2>1. SumsTo(log, base, [k \in 0..0 |-> 0], 0)
    BY DEF SumsTo
  <2> QED  BY <2>1
<1>2. ASSUME NEW k \in 1..n, k - 1 \in T PROVE k \in T
  <2>1. PICK g : SumsTo(log, base, g, k - 1)
    BY <1>2
  <2> DEFINE last == g[k - 1] + (IF log[k].rev > base THEN log[k].scrolled ELSE 0)
             h == [i \in 0..k |-> IF i = k THEN last ELSE g[i]]
  <2>2. h[k] = last /\ \A i \in 0..k - 1 : h[i] = g[i]
    OBVIOUS
  <2>3. h = [i \in 0..k |-> h[i]]
    OBVIOUS
  <2> HIDE DEF h
  <2>4. h[0] = 0
    BY <2>1, <2>2 DEF SumsTo
  <2>5. ASSUME NEW i \in 1..k
        PROVE  h[i] = h[i - 1] + (IF log[i].rev > base THEN log[i].scrolled ELSE 0)
    <3>1. h[i - 1] = g[i - 1]
      BY <2>2
    <3>2. CASE i = k
      BY <2>2, <3>1, <3>2, Zenon
    <3>3. CASE i # k
      <4>1. i \in 1..k - 1 /\ h[i] = g[i]
        BY <2>2, <3>3
      <4> QED  BY <2>1, <3>1, <4>1, Zenon DEF SumsTo
    <3> QED  BY <3>2, <3>3
  <2>6. SumsTo(log, base, h, k)
    BY <2>3, <2>4, <2>5, Zenon DEF SumsTo
  <2> QED  BY <2>6
<1> HIDE DEF T
<1>3. n \in T
  BY <1>1, <1>2, Inductive
<1> QED  BY <1>3 DEF T

Entries == [rev : Nat, scrolled : Nat]

LEMMA EntryIs ==
  ASSUME NEW log \in Seq(Entries), NEW k \in 1..Len(log)
  PROVE  log[k] \in Entries /\ log[k].rev \in Nat /\ log[k].scrolled \in Nat
<1>1. log[k] \in Entries
  OBVIOUS
<1> QED  BY <1>1 DEF Entries

LEMMA SumUnique ==
  ASSUME NEW log \in Seq(Entries), NEW base \in Nat, NEW n \in Nat, n <= Len(log),
         NEW f, NEW g, SumsTo(log, base, f, n), SumsTo(log, base, g, n)
  PROVE  \A k \in 0..n : f[k] = g[k] /\ g[k] \in Nat
<1> DEFINE T == {k \in 0..n : f[k] = g[k] /\ g[k] \in Nat}
<1>1. 0 \in T
  BY DEF SumsTo
<1>2. ASSUME NEW k \in 1..n, k - 1 \in T PROVE k \in T
  <2>1. log[k].rev \in Nat /\ log[k].scrolled \in Nat
    <3>1. k \in 1..Len(log)
      OBVIOUS
    <3> QED  BY <3>1, EntryIs
  <2>2. f[k - 1] = g[k - 1] /\ g[k - 1] \in Nat
    BY <1>2
  <2>3. /\ f[k] = f[k - 1] + (IF log[k].rev > base THEN log[k].scrolled ELSE 0)
        /\ g[k] = g[k - 1] + (IF log[k].rev > base THEN log[k].scrolled ELSE 0)
    BY <1>2, Zenon DEF SumsTo
  <2>4. f[k] = g[k] /\ g[k] \in Nat
    BY <2>1, <2>2, <2>3
  <2> QED  BY <2>4
<1> HIDE DEF T
<1>3. \A k \in 0..n : k \in T
  BY <1>1, <1>2, Inductive
<1> QED  BY <1>3 DEF T

(* ScrolledSince is the last of the sums, whichever list of them is at hand. *)
LEMMA ScrolledIs ==
  ASSUME NEW log \in Seq(Entries), NEW base \in Nat, NEW g, SumsTo(log, base, g, Len(log))
  PROVE  ScrolledSince(log, base) = g[Len(log)] /\ ScrolledSince(log, base) \in Nat
<1> DEFINE n == Len(log)
           sum[i \in 0..Len(log)] ==
             IF i = 0 THEN 0
             ELSE sum[i - 1] + (IF log[i].rev > base THEN log[i].scrolled ELSE 0)
<1>1. ScrolledSince(log, base) = sum[n]
  BY DEF ScrolledSince
<1>2. sum = [i \in 0..n |->
               IF i = 0 THEN 0
               ELSE sum[i - 1] + (IF log[i].rev > base THEN log[i].scrolled ELSE 0)]
  <2>1. g = [i \in 0..n |->
               IF i = 0 THEN 0
               ELSE g[i - 1] + (IF log[i].rev > base THEN log[i].scrolled ELSE 0)]
    <3>1. g = [i \in 0..n |-> g[i]] /\ g[0] = 0
      BY DEF SumsTo
    <3>2. ASSUME NEW i \in 0..n
          PROVE  g[i] = IF i = 0 THEN 0
                        ELSE g[i - 1] + (IF log[i].rev > base THEN log[i].scrolled ELSE 0)
      <4>1. CASE i = 0
        BY <3>1, <4>1
      <4>2. CASE i # 0
        <5>1. i \in 1..n
          BY <4>2
        <5> QED  BY <4>2, <5>1, Zenon DEF SumsTo
      <4> QED  BY <4>1, <4>2
    <3> QED  BY <3>1, <3>2, Zenon
  <2> QED  BY <2>1
<1> HIDE DEF sum
<1>3. SumsTo(log, base, sum, n)
  <2>1. sum = [i \in 0..n |-> sum[i]] /\ sum[0] = 0
    BY <1>2
  <2>2. ASSUME NEW k \in 1..n
        PROVE  sum[k] = sum[k - 1] + (IF log[k].rev > base THEN log[k].scrolled ELSE 0)
    <3>1. k \in 0..n /\ k # 0
      OBVIOUS
    <3>2. sum[k] = IF k = 0 THEN 0
                   ELSE sum[k - 1] + (IF log[k].rev > base THEN log[k].scrolled ELSE 0)
      BY <1>2, <3>1, Zenon
    <3> QED  BY <3>1, <3>2, Zenon
  <2> QED  BY <2>1, <2>2, Zenon DEF SumsTo
<1>4. n \in Nat /\ n \in 0..n /\ n <= Len(log)
  OBVIOUS
<1>5. sum[n] = g[n] /\ g[n] \in Nat
  <2> HIDE DEF n
  <2>1. SumsTo(log, base, g, n)
    BY DEF n
  <2> QED  BY <1>3, <1>4, <2>1, SumUnique
<1> QED  BY <1>1, <1>5

LEMMA ScrolledNat ==
  ASSUME NEW log \in Seq(Entries), NEW base \in Nat
  PROVE  ScrolledSince(log, base) \in Nat
<1>1. Len(log) \in Nat
  OBVIOUS
<1> QED  BY <1>1, SumsExist, ScrolledIs

(* Nothing is owed past the log's last entry.                              *)
LEMMA NothingSince ==
  ASSUME NEW log \in Seq(Entries), NEW base \in Nat, \A i \in 1..Len(log) : log[i].rev <= base
  PROVE  ScrolledSince(log, base) = 0
<1> DEFINE g == [k \in 0..Len(log) |-> 0]
<1>1. SumsTo(log, base, g, Len(log))
  <2>1. ASSUME NEW k \in 1..Len(log)
        PROVE  g[k] = g[k - 1] + (IF log[k].rev > base THEN log[k].scrolled ELSE 0)
    <3>1. ~(log[k].rev > base)
      BY EntryIs
    <3> QED  BY <3>1
  <2> QED  BY <2>1 DEF SumsTo
<1> QED  BY <1>1, ScrolledIs

LEMMA OneMoreSince ==
  ASSUME NEW log \in Seq(Entries), NEW base \in Nat, NEW e \in Entries
  PROVE  ScrolledSince(Append(log, e), base)
           = ScrolledSince(log, base) + (IF e.rev > base THEN e.scrolled ELSE 0)
<1> DEFINE n == Len(log)
           u == Append(log, e)
           more == IF e.rev > base THEN e.scrolled ELSE 0
<1>1. u \in Seq(Entries) /\ n \in Nat /\ Len(u) = n + 1 /\ u[n + 1] = e
      /\ \A i \in 1..n : u[i] = log[i]
  BY AppendIs
<1>2. PICK g : SumsTo(log, base, g, n)
  BY <1>1, SumsExist
<1> DEFINE h == [k \in 0..n + 1 |-> IF k = n + 1 THEN g[n] + more ELSE g[k]]
<1>3. h = [k \in 0..n + 1 |-> h[k]] /\ h[n + 1] = g[n] + more /\ \A k \in 0..n : h[k] = g[k]
  BY <1>1
<1> HIDE DEF n, u, h, more
<1>4. ASSUME NEW k \in 1..n + 1
      PROVE  h[k] = h[k - 1] + (IF u[k].rev > base THEN u[k].scrolled ELSE 0)
  <2>1. h[k - 1] = g[k - 1]
    <3>1. k - 1 \in 0..n
      BY <1>1
    <3> QED  BY <1>3, <3>1
  <2>2. CASE k = n + 1
    <3>1. k - 1 = n /\ u[k] = e
      BY <1>1, <2>2
    <3> QED  BY <1>3, <2>1, <2>2, <3>1, Zenon DEF more
  <2>3. CASE k # n + 1
    <3>1. k \in 1..n /\ k \in 0..n
      BY <1>1, <2>3
    <3>2. h[k] = g[k] /\ u[k] = log[k]
      BY <1>1, <1>3, <3>1
    <3>3. g[k] = g[k - 1] + (IF log[k].rev > base THEN log[k].scrolled ELSE 0)
      BY <1>2, <3>1, Zenon DEF SumsTo
    <3> QED  BY <2>1, <3>2, <3>3, Zenon
  <2> QED  BY <2>2, <2>3
<1>5. h[0] = 0
  <2>1. 0 \in 0..n
    BY <1>1
  <2>2. h[0] = g[0] /\ g[0] = 0
    BY <1>2, <1>3, <2>1, Zenon DEF SumsTo
  <2> QED  BY <2>2
<1>6. SumsTo(u, base, h, Len(u))
  BY <1>1, <1>3, <1>4, <1>5, Zenon DEF SumsTo
<1>7. ScrolledSince(u, base) = h[n + 1] /\ ScrolledSince(log, base) = g[n]
  BY <1>1, <1>2, <1>6, ScrolledIs DEF n
<1> QED  BY <1>3, <1>7 DEF u, more

(* What is dropped was not owed.                                           *)
LEMMA DroppedSince ==
  ASSUME NEW log \in Seq(Entries), NEW base \in Nat, log # <<>>, Head(log).rev <= base
  PROVE  ScrolledSince(Tail(log), base) = ScrolledSince(log, base)
<1> DEFINE n == Len(log)
           u == Tail(log)
<1>1. u \in Seq(Entries) /\ n \in Nat /\ n > 0 /\ Len(u) = n - 1 /\ Head(log) = log[1]
      /\ \A i \in 1..n - 1 : u[i] = log[i + 1]
  BY TailIs
<1>2. PICK g : SumsTo(log, base, g, n)
  BY <1>1, SumsExist
<1> DEFINE h == [k \in 0..n - 1 |-> g[k + 1]]
<1>3. h = [k \in 0..n - 1 |-> h[k]] /\ \A k \in 0..n - 1 : h[k] = g[k + 1]
  OBVIOUS
<1> HIDE DEF u, h
<1>4. g[0] = 0 /\ g[1] = g[0] + (IF log[1].rev > base THEN log[1].scrolled ELSE 0)
  <2>1. 1 \in 1..n /\ 1 - 1 = 0
    BY <1>1
  <2>2. g[1] = g[1 - 1] + (IF log[1].rev > base THEN log[1].scrolled ELSE 0)
    BY <1>2, <2>1, Zenon DEF SumsTo
  <2> QED  BY <1>2, <2>2 DEF SumsTo
<1>5. h[0] = 0
  <2>1. 1 \in 1..Len(log)
    BY <1>1
  <2>2. log[1].rev \in Nat /\ log[1].rev <= base
    BY <1>1, <2>1, EntryIs
  <2> QED  BY <1>1, <1>3, <1>4, <2>2
<1>6. ASSUME NEW k \in 1..n - 1
      PROVE  h[k] = h[k - 1] + (IF u[k].rev > base THEN u[k].scrolled ELSE 0)
  <2>1. h[k] = g[k + 1] /\ h[k - 1] = g[k] /\ u[k] = log[k + 1] /\ k + 1 \in 1..n /\ (k + 1) - 1 = k
    BY <1>1, <1>3
  <2> DEFINE i == k + 1
  <2>2. g[i] = g[i - 1] + (IF log[i].rev > base THEN log[i].scrolled ELSE 0)
    BY <1>2, <2>1, Zenon DEF SumsTo
  <2> QED  BY <2>1, <2>2, Zenon
<1>7. SumsTo(u, base, h, Len(u))
  BY <1>1, <1>3, <1>5, <1>6, Zenon DEF SumsTo
<1>8. ScrolledSince(u, base) = h[n - 1] /\ ScrolledSince(log, base) = g[n]
  BY <1>1, <1>2, <1>7, ScrolledIs
<1>9. h[n - 1] = g[n]
  BY <1>1, <1>3
<1> QED  BY <1>8, <1>9 DEF u

-----------------------------------------------------------------------------
(* What a record does to the terminal.                                     *)

LEMMA TerminalIs ==
  ASSUME NEW t, Sound(t)
  PROVE  /\ t \in Terminal /\ t.screen \in Screens /\ t.prim \in Seq(Cell) /\ t.alt \in Seq(Cell)
         /\ t.hist \in Seq(Cell) /\ t.first \in Nat /\ t.clears \in Nat
         /\ Len(t.prim) \in Nat /\ Len(t.prim) > 0 /\ Len(t.alt) = Len(t.prim)
         /\ Len(t.hist) \in Nat /\ t.dirty \subseteq 1..Len(t.prim)
         /\ Height(t) = Len(t.prim) /\ FirstRow(t) \in Nat /\ FirstRow(t) = t.first + Len(t.hist)
         /\ Viewport(t) \in Seq(Cell) /\ Len(Viewport(t)) = Height(t)
<1>1. /\ t \in Terminal /\ t.screen \in Screens /\ t.prim \in Seq(Cell) /\ t.alt \in Seq(Cell)
      /\ t.hist \in Seq(Cell) /\ t.first \in Nat /\ t.clears \in Nat
  BY DEF Sound, Terminal
<1>2. /\ Len(t.prim) \in Nat /\ Len(t.prim) > 0 /\ Len(t.alt) = Len(t.prim)
      /\ Len(t.hist) \in Nat /\ t.dirty \subseteq 1..Len(t.prim)
  BY <1>1 DEF Sound
<1> QED  BY <1>1, <1>2 DEF Height, FirstRow, Viewport

LEMMA BlanksAre ==
  ASSUME NEW n \in Nat
  PROVE  Blanks(n) \in Seq(Cell) /\ Len(Blanks(n)) = n
<1> DEFINE f == Blanks(n)
<1>1. f = [i \in 1..n |-> f[i]] /\ \A i \in 1..n : f[i] \in Cell
  BY DEF Blanks, Cell
<1> HIDE DEF f
<1>2. f \in Seq(Cell) /\ Len(f) = n
  BY <1>1, ListIs
<1> QED  BY <1>2 DEF f

LEMMA NewIsSound ==
  ASSUME NEW n \in Nat \ {0}
  PROVE  Sound(NewTerminal(n)) /\ Height(NewTerminal(n)) = n
<1> DEFINE b == Blanks(n)
<1>1. b \in Seq(Cell) /\ Len(b) = n
  BY BlanksAre
<1>2. NewTerminal(n) = [screen |-> "Primary", prim |-> b, alt |-> b, hist |-> <<>>,
                        first |-> 0, dirty |-> 1..n, clears |-> 0]
  BY DEF NewTerminal
<1> HIDE DEF b
<1>3. 1..n \in SUBSET Nat /\ <<>> \in Seq(Cell)
  OBVIOUS
<1> QED  BY <1>1, <1>2, <1>3 DEF Sound, Terminal, Screens, Height

LEMMA PushedIs ==
  ASSUME NEW t, Sound(t), NEW rows \in Seq(Cell)
  PROVE  /\ Pushed(t, rows) \in Terminal /\ Pushed(t, rows).screen = t.screen
         /\ Pushed(t, rows).prim = t.prim /\ Pushed(t, rows).alt = t.alt
         /\ Pushed(t, rows).dirty = t.dirty
         /\ FirstRow(Pushed(t, rows)) = FirstRow(t) + Len(rows)
<1> DEFINE all == t.hist \o rows
           over == Most(0, Len(all) - HistCap)
           kept == SubSeq(all, over + 1, Len(all))
<1>1. all \in Seq(Cell) /\ Len(all) = Len(t.hist) + Len(rows) /\ Len(rows) \in Nat /\ Len(all) \in Nat
  BY TerminalIs, ConcatIs
<1> HIDE DEF all
<1>2. HistCap \in Nat
  BY GridAssumption
<1>3. over \in Nat /\ over <= Len(all)
  BY <1>1, <1>2 DEF Most
<1> HIDE DEF over
<1>4. kept \in Seq(Cell) /\ Len(kept) = Len(all) - over
  BY <1>1, <1>3, PartIs
<1> HIDE DEF kept
<1>5. Pushed(t, rows) = [t EXCEPT !.hist = kept, !.first = t.first + over]
  BY DEF Pushed, all, over, kept
<1>6. t \in Terminal /\ t.first \in Nat /\ Len(t.hist) \in Nat
  BY TerminalIs
<1>7. FirstRow(Pushed(t, rows)) = (t.first + over) + (Len(all) - over)
  BY <1>4, <1>5, <1>6 DEF FirstRow, Terminal
<1>8. FirstRow(Pushed(t, rows)) = FirstRow(t) + Len(rows)
  BY <1>1, <1>3, <1>6, <1>7 DEF FirstRow
<1>9. t.first + over \in Nat
  BY <1>3, <1>6
<1> DEFINE u == Pushed(t, rows)
<1>10. /\ u \in Terminal /\ u.screen = t.screen /\ u.prim = t.prim /\ u.alt = t.alt
       /\ u.dirty = t.dirty
  BY <1>4, <1>5, <1>6, <1>9 DEF Terminal
<1> QED  BY <1>8, <1>10

(* All that was dirty still is, and the rest stands where it stood.         *)
LEMMA StaysFaithful ==
  ASSUME NEW g, NEW t, NEW u, Faithful(g, t), u.screen = t.screen, Height(u) = Height(t),
         FirstRow(u) = FirstRow(t), t.dirty \subseteq u.dirty,
         \A y \in (1..Height(t)) \ u.dirty : u.prim[y] = t.prim[y] /\ u.alt[y] = t.alt[y]
  PROVE  Faithful(g, u)
<1> SUFFICES ASSUME Carries(g, u), NEW y \in (1..Height(u)) \ u.dirty
             PROVE  IF u.screen = "Primary"
                    THEN /\ g.lines.anchor # Never /\ g.lines.anchor <= FirstRow(u)
                         /\ Shown(g, y + Drift(g, u), u.prim[y])
                    ELSE Shown(g, y, u.alt[y])
  BY DEF Faithful
<1>1. Carries(g, t) /\ y \in (1..Height(t)) \ t.dirty /\ Drift(g, u) = Drift(g, t)
  BY DEF Carries, Drift
<1>2. u.prim[y] = t.prim[y] /\ u.alt[y] = t.alt[y]
  BY <1>1
<1> QED  BY <1>1, <1>2, Zenon DEF Faithful

LEMMA RedrawnFaithful ==
  ASSUME NEW g, NEW u, u.dirty = 1..Height(u)
  PROVE  Faithful(g, u)
BY DEF Faithful

LEMMA RedrawnIs ==
  ASSUME NEW g, NEW u \in Terminal, Len(u.prim) > 0, Len(u.alt) = Len(u.prim)
  PROVE  Sound(Redrawn(u)) /\ Faithful(g, Redrawn(u))
<1> DEFINE v == Redrawn(u)
<1>1. 1..Height(u) \in SUBSET Nat /\ u.prim \in Seq(Cell) /\ Len(u.prim) \in Nat
  BY DEF Height, Terminal
<1>2. v \in Terminal /\ v.prim = u.prim /\ v.alt = u.alt /\ v.dirty = 1..Height(v)
  BY <1>1 DEF Redrawn, Height, Terminal
<1> HIDE DEF v
<1>3. Sound(v) /\ Faithful(g, v)
  BY <1>2, RedrawnFaithful DEF Sound, Height
<1> QED  BY <1>3 DEF v

LEMMA WritesFine ==
  ASSUME NEW g, NEW t, Sound(t), Faithful(g, t), NEW y \in 1..Height(t), NEW s \in Styles
  PROVE  Sound(Writes(t, y, s)) /\ Faithful(g, Writes(t, y, s))
<1> DEFINE u == Writes(t, y, s)
<1>1. t \in Terminal /\ t.dirty \cup {y} \in SUBSET Nat /\ s \in Cell /\ t.screen \in Screens
      /\ y \in 1..Len(t.prim) /\ Len(t.alt) = Len(t.prim) /\ Len(t.prim) \in Nat
      /\ t.prim \in Seq(Cell) /\ t.alt \in Seq(Cell) /\ t.dirty \subseteq 1..Len(t.prim)
  BY TerminalIs DEF Cell, Terminal
<1> DEFINE p == [t.prim EXCEPT ![y] = s]
           a == [t.alt EXCEPT ![y] = s]
<1>2. /\ p \in Seq(Cell) /\ Len(p) = Len(t.prim) /\ a \in Seq(Cell) /\ Len(a) = Len(t.prim)
      /\ \A z \in 1..Len(t.prim) : z # y => p[z] = t.prim[z] /\ a[z] = t.alt[z]
  BY <1>1
<1>3. u = IF t.screen = "Primary" THEN [t EXCEPT !.dirty = t.dirty \cup {y}, !.prim = p]
                                   ELSE [t EXCEPT !.dirty = t.dirty \cup {y}, !.alt = a]
  BY <1>1 DEF Writes, Terminal
<1> HIDE DEF p, a, u
<1>4. /\ u \in Terminal /\ u.screen = t.screen /\ u.dirty = t.dirty \cup {y}
      /\ u.first = t.first /\ u.hist = t.hist
      /\ u.prim \in {t.prim, p} /\ u.alt \in {t.alt, a}
  <2>1. CASE t.screen = "Primary"
    BY <1>1, <1>2, <1>3, <2>1 DEF Terminal
  <2>2. CASE t.screen # "Primary"
    BY <1>1, <1>2, <1>3, <2>2 DEF Terminal
  <2> QED  BY <2>1, <2>2
<1>5. Len(u.prim) = Len(t.prim) /\ Len(u.alt) = Len(u.prim)
  BY <1>1, <1>2, <1>4
<1>6. Sound(u)
  BY <1>1, <1>4, <1>5, TerminalIs DEF Sound
<1>7. \A z \in (1..Height(t)) \ u.dirty : u.prim[z] = t.prim[z] /\ u.alt[z] = t.alt[z]
  BY <1>2, <1>4 DEF Height
<1>8. Height(u) = Height(t) /\ FirstRow(u) = FirstRow(t) /\ t.dirty \subseteq u.dirty
  BY <1>4, <1>5 DEF Height, FirstRow
<1>9. Faithful(g, u)
  BY <1>4, <1>7, <1>8, StaysFaithful
<1> QED  BY <1>6, <1>9 DEF u

LEMMA ClearsFine ==
  ASSUME NEW g, NEW t, Sound(t), Faithful(g, t)
  PROVE  Sound(ClearsHistory(t)) /\ Faithful(g, ClearsHistory(t))
<1> DEFINE u == ClearsHistory(t)
<1>1. u = [t EXCEPT !.hist = <<>>, !.first = t.first + Len(t.hist), !.clears = t.clears + 1]
  BY TerminalIs DEF ClearsHistory, Terminal
<1>2. t \in Terminal /\ <<>> \in Seq(Cell) /\ t.first + Len(t.hist) \in Nat /\ t.clears + 1 \in Nat
      /\ t.dirty \subseteq 1..Len(t.prim)
  BY TerminalIs
<1> HIDE DEF u
<1>3. /\ u \in Terminal /\ u.screen = t.screen /\ u.dirty = t.dirty /\ u.prim = t.prim
      /\ u.alt = t.alt /\ u.hist = <<>> /\ u.first = t.first + Len(t.hist)
  BY <1>1, <1>2 DEF Terminal
<1>4. Sound(u)
  BY <1>2, <1>3, TerminalIs DEF Sound
<1>5. FirstRow(u) = FirstRow(t) /\ Height(u) = Height(t)
  BY <1>2, <1>3, TerminalIs DEF FirstRow, Height
<1>6. Faithful(g, u)
  BY <1>3, <1>5, StaysFaithful
<1> QED  BY <1>4, <1>6 DEF u

LEMMA SwitchesFine ==
  ASSUME NEW g, NEW t, Sound(t)
  PROVE  Sound(Switches(t)) /\ Faithful(g, Switches(t))
<1> DEFINE b == Blanks(Height(t))
           u == IF t.screen = "Primary"
                THEN [t EXCEPT !.screen = "Alternate", !.alt = b]
                ELSE [t EXCEPT !.screen = "Primary"]
<1>1. b \in Seq(Cell) /\ Len(b) = Len(t.prim)
  BY TerminalIs, BlanksAre
<1> HIDE DEF b
<1>2. u \in Terminal /\ Len(u.prim) > 0 /\ Len(u.alt) = Len(u.prim)
  <2>1. CASE t.screen = "Primary"
    BY <1>1, <2>1, TerminalIs DEF Terminal, Screens
  <2>2. CASE t.screen # "Primary"
    BY <1>1, <2>2, TerminalIs DEF Terminal, Screens
  <2> QED  BY <2>1, <2>2
<1>3. Switches(t) = Redrawn(u)
  BY DEF Switches, b
<1> HIDE DEF u
<1> QED  BY <1>2, <1>3, RedrawnIs

LEMMA HeadOff ==
  ASSUME NEW S, NEW s \in Seq(S), s # <<>>, NEW x \in S
  PROVE  /\ Append(Tail(s), x) \in Seq(S) /\ Len(Append(Tail(s), x)) = Len(s)
         /\ \A i \in 1..Len(s) - 1 : Append(Tail(s), x)[i] = s[i + 1]
<1> DEFINE u == Tail(s)
<1>1. u \in Seq(S) /\ Len(u) = Len(s) - 1 /\ Len(s) \in Nat /\ Len(s) > 0
      /\ \A i \in 1..Len(s) - 1 : u[i] = s[i + 1]
  BY TailIs
<1> HIDE DEF u
<1>2. /\ Append(u, x) \in Seq(S) /\ Len(Append(u, x)) = Len(u) + 1
      /\ \A i \in 1..Len(u) : Append(u, x)[i] = u[i]
  BY <1>1, AppendIs
<1> QED  BY <1>1, <1>2 DEF u

(* The viewport scrolls by one: what is not dirty was not dirty a row down, *)
(* and the row that comes in is.                                           *)
LEMMA ScrollsFine ==
  ASSUME NEW g, GridFine(g), NEW t, Sound(t), Faithful(g, t)
  PROVE  Sound(Scrolls(t)) /\ Faithful(g, Scrolls(t))
<1> DEFINE h == Len(t.prim)
<1>1. /\ t \in Terminal /\ t.prim \in Seq(Cell) /\ t.alt \in Seq(Cell) /\ h \in Nat /\ h > 0
      /\ t.prim # <<>> /\ t.alt # <<>> /\ Len(t.alt) = h /\ t.dirty \subseteq 1..h /\ Blank \in Cell
      /\ Height(t) = h
  BY TerminalIs DEF Cell
<1>2. CASE t.screen = "Primary"
  <2> DEFINE one == <<Head(t.prim)>>
             push == Pushed(t, one)
             p == Append(Tail(t.prim), Blank)
             d == {y - 1 : y \in t.dirty \ {1}} \cup {h}
             u == [push EXCEPT !.prim = p, !.dirty = d]
  <2>1. one \in Seq(Cell) /\ Len(one) = 1
    BY <1>1, TailIs
  <2> HIDE DEF one
  <2>2. /\ push \in Terminal /\ push.screen = t.screen /\ push.prim = t.prim /\ push.alt = t.alt
        /\ FirstRow(push) = FirstRow(t) + 1
    BY <2>1, PushedIs
  <2>3. Scrolls(t) = u
    BY <1>1, <1>2, <2>2 DEF Scrolls, one
  <2> HIDE DEF push
  <2>4. p \in Seq(Cell) /\ Len(p) = h /\ \A i \in 1..h - 1 : p[i] = t.prim[i + 1]
    BY <1>1, HeadOff
  <2> HIDE DEF p
  <2>5. d \subseteq 1..h /\ d \in SUBSET Nat /\ h \in d
    BY <1>1
  <2>6. \A y \in (1..h) \ d : y + 1 \in (1..h) \ t.dirty /\ y \in 1..h - 1
    <3> SUFFICES ASSUME NEW y \in (1..h) \ d PROVE y + 1 \in (1..h) \ t.dirty /\ y \in 1..h - 1
      OBVIOUS
    <3>1. y # h /\ y \in 1..h - 1 /\ y + 1 \in 1..h /\ y + 1 # 1 /\ (y + 1) - 1 = y
      BY <1>1, <2>5
    <3>2. y + 1 \notin t.dirty
      BY <3>1
    <3> QED  BY <3>1, <3>2
  <2> HIDE DEF d
  <2>7. /\ u \in Terminal /\ u.screen = t.screen /\ u.prim = p /\ u.alt = t.alt /\ u.dirty = d
        /\ u.first = push.first /\ u.hist = push.hist
    BY <2>2, <2>4, <2>5 DEF Terminal
  <2> HIDE DEF u
  <2>8. Sound(u) /\ Height(u) = h /\ FirstRow(u) = FirstRow(t) + 1
    BY <1>1, <2>2, <2>4, <2>5, <2>7 DEF Sound, Height, FirstRow
  <2>9. Faithful(g, u)
    <3> SUFFICES ASSUME Carries(g, u), NEW y \in (1..h) \ d
                 PROVE  /\ g.lines.anchor # Never /\ g.lines.anchor <= FirstRow(u)
                        /\ Shown(g, y + Drift(g, u), u.prim[y])
      BY <1>2, <2>7, <2>8 DEF Faithful
    <3>1. Carries(g, t)
      BY <2>7 DEF Carries
    <3>2. y + 1 \in (1..Height(t)) \ t.dirty /\ u.prim[y] = t.prim[y + 1]
      BY <1>1, <2>4, <2>6, <2>7
    <3>3. /\ g.lines.anchor # Never /\ g.lines.anchor <= FirstRow(t)
          /\ Shown(g, (y + 1) + Drift(g, t), t.prim[y + 1])
      BY <1>2, <3>1, <3>2, Zenon DEF Faithful
    <3>4. g.lines.anchor \in Nat /\ g.lines.moved.scrolled \in Nat /\ FirstRow(t) \in Nat
      BY <3>3, TerminalIs DEF GridFine, GridSane, Rendering, LineCount
    <3>5. y + Drift(g, u) = (y + 1) + Drift(g, t)
      <4>1. y \in Nat /\ Drift(g, u) = g.lines.moved.scrolled + ((FirstRow(t) + 1) - g.lines.anchor)
        BY <1>1, <2>8 DEF Drift
      <4>2. Drift(g, t) = g.lines.moved.scrolled + (FirstRow(t) - g.lines.anchor)
        BY DEF Drift
      <4> DEFINE m == g.lines.moved.scrolled
                 f == FirstRow(t)
                 w == g.lines.anchor
      <4>3. m \in Int /\ f \in Int /\ w \in Int
        BY <3>4
      <4> HIDE DEF m, f, w
      <4>4. y + (m + ((f + 1) - w)) = (y + 1) + (m + (f - w))
        BY <4>1, <4>3
      <4> QED  BY <4>1, <4>2, <4>4 DEF m, f, w
    <3>6. g.lines.anchor <= FirstRow(u)
      BY <2>8, <3>3, <3>4
    <3>7. Shown(g, y + Drift(g, u), u.prim[y])
      BY <3>2, <3>3, <3>5, Zenon
    <3> QED  BY <3>3, <3>6, <3>7
  <2> QED  BY <2>3, <2>8, <2>9
<1>3. CASE t.screen # "Primary"
  <2> DEFINE a == Append(Tail(t.alt), Blank)
             u == [t EXCEPT !.alt = a]
  <2>1. a \in Seq(Cell) /\ Len(a) = h
    BY <1>1, HeadOff
  <2>2. Scrolls(t) = Redrawn(u)
    BY <1>1, <1>3 DEF Scrolls, Terminal
  <2> HIDE DEF a
  <2>3. u \in Terminal /\ Len(u.prim) > 0 /\ Len(u.alt) = Len(u.prim)
    BY <1>1, <2>1 DEF Terminal
  <2> HIDE DEF u
  <2> QED  BY <2>2, <2>3, RedrawnIs
<1> QED  BY <1>2, <1>3

LEMMA ResizesFine ==
  ASSUME NEW g, NEW t, Sound(t), NEW n \in Heights \ {Height(t)}
  PROVE  Sound(Resizes(t, n)) /\ Faithful(g, Resizes(t, n))
<1> DEFINE h == Len(t.prim)
           back == Least(n - h, Len(t.hist))
           kept == Len(t.hist) - back
<1>1. /\ t \in Terminal /\ t.prim \in Seq(Cell) /\ t.alt \in Seq(Cell) /\ t.hist \in Seq(Cell)
      /\ h \in Nat /\ h > 0 /\ Len(t.alt) = h /\ Len(t.hist) \in Nat /\ Height(t) = h
      /\ n \in Nat /\ n > 0 /\ n # h
  BY TerminalIs, GridAssumption
<1>2. CASE n < h
  <2> DEFINE top == SubSeq(t.prim, 1, h - n)
             push == Pushed(t, top)
             p == SubSeq(t.prim, h - n + 1, h)
             a == SubSeq(t.alt, 1, n)
             u == [push EXCEPT !.prim = p, !.alt = a]
  <2>1. top \in Seq(Cell) /\ p \in Seq(Cell) /\ Len(p) = n /\ a \in Seq(Cell) /\ Len(a) = n
    BY <1>1, <1>2
  <2>2. push \in Terminal /\ push.prim = t.prim /\ push.alt = t.alt
    <3> HIDE DEF top
    <3> QED  BY <2>1, PushedIs
  <2>3. Resizes(t, n) = Redrawn(u)
    BY <1>1, <1>2, <2>2 DEF Resizes
  <2> HIDE DEF push, p, a
  <2>4. u \in Terminal /\ Len(u.prim) > 0 /\ Len(u.alt) = Len(u.prim)
    BY <1>1, <2>1, <2>2 DEF Terminal
  <2> HIDE DEF u
  <2> QED  BY <2>3, <2>4, RedrawnIs
<1>3. CASE ~(n < h)
  <2>1. back \in Nat /\ back <= n - h /\ back <= Len(t.hist) /\ kept \in Nat /\ kept <= Len(t.hist)
        /\ kept = Len(t.hist) - back
    <3>1. n - h \in Nat
      BY <1>1, <1>3
    <3>2. back \in Nat /\ back <= n - h /\ back <= Len(t.hist)
      BY <1>1, <3>1, LeastIs
    <3> HIDE DEF back
    <3> QED  BY <1>1, <3>2
  <2> DEFINE q == SubSeq(t.hist, 1, kept)
             r == SubSeq(t.hist, kept + 1, Len(t.hist))
             b == Blanks(n - h - back)
             c == Blanks(n - h)
             p == r \o t.prim \o b
             a == t.alt \o c
             u == [t EXCEPT !.hist = q, !.prim = p, !.alt = a]
  <2>2. Resizes(t, n) = Redrawn(u)
    BY <1>1, <1>3 DEF Resizes, Terminal
  <2> HIDE DEF back, kept
  <2>3. q \in Seq(Cell) /\ r \in Seq(Cell) /\ Len(r) = back
    BY <1>1, <2>1
  <2>4. b \in Seq(Cell) /\ Len(b) = n - h - back /\ c \in Seq(Cell) /\ Len(c) = n - h
    <3>1. n - h - back \in Nat /\ n - h \in Nat
      BY <1>1, <1>3, <2>1
    <3> QED  BY <3>1, BlanksAre
  <2> HIDE DEF h, q, r, b, c
  <2>5. p \in Seq(Cell) /\ Len(p) = n /\ a \in Seq(Cell) /\ Len(a) = n
    <3>1. r \o t.prim \in Seq(Cell) /\ Len(r \o t.prim) = Len(r) + Len(t.prim)
      BY <1>1, <2>3, ConcatIs
    <3>2. p \in Seq(Cell) /\ Len(p) = Len(r \o t.prim) + Len(b)
      <4> DEFINE w == r \o t.prim
      <4>1. w \in Seq(Cell) /\ b \in Seq(Cell)
        BY <2>4, <3>1
      <4> HIDE DEF w, u, a
      <4>2. w \o b \in Seq(Cell) /\ Len(w \o b) = Len(w) + Len(b)
        BY <4>1, ConcatIs
      <4> QED  BY <4>2 DEF w
    <3>3. a \in Seq(Cell) /\ Len(a) = Len(t.alt) + Len(c)
      <4> HIDE DEF u, p
      <4>1. t.alt \in Seq(Cell) /\ c \in Seq(Cell)
        BY <1>1, <2>4
      <4> QED  BY <4>1, ConcatIs
    <3> HIDE DEF p, a
    <3>4. Len(p) = back + h + (n - h - back) /\ Len(a) = h + (n - h)
      BY <1>1, <2>3, <2>4, <3>1, <3>2, <3>3 DEF h
    <3>5. back + h + (n - h - back) = n /\ h + (n - h) = n
      <4>1. \A x, y, z \in Int : x + y + (z - y - x) = z /\ y + (z - y) = z
        OBVIOUS
      <4>2. back \in Int /\ h \in Int /\ n \in Int
        BY <1>1, <2>1 DEF h
      <4> QED  BY <4>1, <4>2
    <3> QED  BY <3>2, <3>3, <3>4, <3>5
  <2> HIDE DEF p, a
  <2>6. u \in Terminal /\ Len(u.prim) > 0 /\ Len(u.alt) = Len(u.prim)
    BY <1>1, <2>3, <2>5 DEF Terminal
  <2> HIDE DEF u
  <2> QED  BY <2>2, <2>6, RedrawnIs
<1> QED  BY <1>2, <1>3

(* Whatever a record does.                                                 *)
LEMMA ChangedFine ==
  ASSUME NEW g, GridFine(g), NEW t, Sound(t), Faithful(g, t), NEW u \in Changed(t)
  PROVE  Sound(u) /\ Faithful(g, u)
<1>1. CASE \E y \in 1..Height(t), s \in Styles : u = Writes(t, y, s)
  BY <1>1, WritesFine
<1>2. CASE u = Scrolls(t)
  BY <1>2, ScrollsFine
<1>3. CASE u = Switches(t)
  BY <1>3, SwitchesFine
<1>4. CASE \E n \in Heights \ {Height(t)} : u = Resizes(t, n)
  BY <1>4, ResizesFine
<1>5. CASE u = ClearsHistory(t)
  BY <1>5, ClearsFine
<1> QED  BY <1>1, <1>2, <1>3, <1>4, <1>5 DEF Changed

-----------------------------------------------------------------------------
(* Lines are counted.                                                      *)

Lost == [scrolled |-> 0, newEpoch |-> TRUE]

(* What counting against the terminal's primary screen makes of l: what it  *)
(* was, where the count only starts; a new epoch; or the rows scrolled.     *)
Recounted(l, r, t) ==
  LET s == Most(0, FirstRow(t) - l.anchor)
  IN  \/ /\ l.h = Never \/ l.anchor = Never
         /\ r.moved = l.moved /\ r.epoch = l.epoch /\ (l.h # Never => r.top = l.top)
      \/ r.moved = Lost /\ r.epoch = l.epoch + 1
      \/ /\ l.anchor # Never /\ r.top = l.top + s /\ r.epoch = l.epoch
         /\ r.moved.scrolled = l.moved.scrolled + s /\ r.moved.newEpoch = l.moved.newEpoch

Aligned(r, t) == r.anchor = FirstRow(t) /\ r.h = Len(t.hist)

LEMMA AnchoredIs ==
  ASSUME NEW t, Sound(t), NEW l \in LineCount
  PROVE  /\ Anchored(l, t) \in LineCount /\ Aligned(Anchored(l, t), t)
         /\ Anchored(l, t).top = l.top /\ Anchored(l, t).epoch = l.epoch
         /\ Anchored(l, t).moved = l.moved
<1>1. Len(t.hist) \in Nat /\ t.first \in Nat /\ FirstRow(t) = t.first + Len(t.hist)
  BY TerminalIs
<1>2. Anchored(l, t) = [l EXCEPT !.h = Len(t.hist), !.anchor = t.first + Len(t.hist)]
  BY DEF Anchored
<1>3. t.first + Len(t.hist) \in Nat
  BY <1>1
<1> QED  BY <1>1, <1>2, <1>3 DEF LineCount, Aligned

LEMMA LoseIs ==
  ASSUME NEW l \in LineCount, NEW h \in Nat
  PROVE  /\ Lose(l, h) \in LineCount /\ Lose(l, h).moved = Lost /\ Lose(l, h).epoch = l.epoch + 1
         /\ Lose(l, h).anchor = l.anchor /\ Lose(l, h).h = l.h
<1>1. Lose(l, h) = [l EXCEPT !.epoch = l.epoch + 1, !.top = h, !.moved = Lost]
  BY DEF Lose, Lost, LineCount
<1>2. Lost \in [scrolled : Nat, newEpoch : BOOLEAN] /\ l.epoch + 1 \in Nat
  BY DEF Lost, LineCount
<1> QED  BY <1>1, <1>2 DEF LineCount

LEMMA SettleLinesIs ==
  ASSUME NEW t, Sound(t), NEW l \in LineCount
  PROVE  /\ SettleLines(l, t) \in LineCount
         /\ t.screen # "Primary" => SettleLines(l, t) = l
         /\ t.screen = "Primary" =>
              Recounted(l, SettleLines(l, t), t) /\ Aligned(SettleLines(l, t), t)
<1> DEFINE h == Len(t.hist)
           s == Most(0, h - (l.anchor - t.first))
           counted ==
             CASE l.h = Never       -> [l EXCEPT !.top = h]
               [] l.h # Never /\ l.anchor = Never -> IF l.h = h THEN l ELSE Lose(l, h)
               [] OTHER ->
                    IF l.anchor < t.first \/ (h = 0 /\ l.h + s > 0)
                    THEN Lose(l, h)
                    ELSE [l EXCEPT !.top = @ + s, !.moved.scrolled = @ + s]
<1>1. SettleLines(l, t) = IF t.screen = "Primary" THEN Anchored(counted, t) ELSE l
  BY DEF SettleLines
<1>2. /\ h \in Nat /\ t.first \in Nat /\ FirstRow(t) = t.first + h
      /\ l.h \in Nat \cup {Never} /\ l.anchor \in Nat \cup {Never} /\ l.top \in Nat /\ l.epoch \in Nat
      /\ l.moved.scrolled \in Nat /\ l.moved.newEpoch \in BOOLEAN /\ Never \in Int
  BY TerminalIs DEF LineCount, Never
<1>3. s = Most(0, FirstRow(t) - l.anchor) /\ s \in Nat
  <2>1. h - (l.anchor - t.first) = FirstRow(t) - l.anchor /\ FirstRow(t) - l.anchor \in Int
    BY <1>2
  <2>2. s = Most(0, FirstRow(t) - l.anchor)
    BY <2>1
  <2> QED  BY <2>1, <2>2, MostIs
<1> HIDE DEF s, h
<1>4. counted \in LineCount /\ Recounted(l, counted, t)
  <2>1. CASE l.h = Never
    <3>1. counted = [l EXCEPT !.top = h]
      BY <2>1
    <3> QED  BY <1>2, <2>1, <3>1 DEF LineCount, Recounted
  <2>2. CASE l.h # Never /\ l.anchor = Never
    <3>1. counted = IF l.h = h THEN l ELSE Lose(l, h)
      BY <2>2
    <3>2. CASE l.h = h
      BY <2>2, <3>1, <3>2 DEF Recounted
    <3>3. CASE l.h # h
      <4> HIDE DEF counted
      <4>1. /\ counted \in LineCount /\ counted.moved = Lost /\ counted.epoch = l.epoch + 1
        BY <1>2, <3>1, <3>3, LoseIs
      <4> QED  BY <4>1 DEF Recounted
    <3> QED  BY <3>2, <3>3
  <2>3. CASE l.h # Never /\ l.anchor # Never
    <3> DEFINE far == l.anchor < t.first \/ (h = 0 /\ l.h + s > 0)
               r == [l EXCEPT !.top = @ + s, !.moved.scrolled = @ + s]
    <3>1. counted = IF far THEN Lose(l, h) ELSE r
      BY <2>3
    <3>2. CASE far
      <4> HIDE DEF counted
      <4>1. /\ counted \in LineCount /\ counted.moved = Lost /\ counted.epoch = l.epoch + 1
        BY <1>2, <3>1, <3>2, LoseIs
      <4> QED  BY <4>1 DEF Recounted
    <3>3. CASE ~far
      <4>1. counted = r
        BY <3>1, <3>3
      <4>2. /\ r \in LineCount /\ r.top = l.top + s /\ r.epoch = l.epoch
            /\ r.moved.scrolled = l.moved.scrolled + s /\ r.moved.newEpoch = l.moved.newEpoch
        <5> DEFINE v == [l.moved EXCEPT !.scrolled = l.moved.scrolled + s]
        <5>1. l.moved \in [scrolled : Nat, newEpoch : BOOLEAN] /\ l.moved.scrolled + s \in Nat
              /\ l.top + s \in Nat
          BY <1>2, <1>3 DEF LineCount
        <5>2. v \in [scrolled : Nat, newEpoch : BOOLEAN] /\ v.scrolled = l.moved.scrolled + s
              /\ v.newEpoch = l.moved.newEpoch
          BY <5>1
        <5>3. r = [l EXCEPT !.top = l.top + s, !.moved = v]
          BY DEF LineCount
        <5> HIDE DEF v, r
        <5> QED  BY <5>1, <5>2, <5>3 DEF LineCount
      <4> HIDE DEF counted, r
      <4> QED  BY <1>3, <2>3, <4>1, <4>2 DEF Recounted
    <3> QED  BY <3>2, <3>3
  <2> QED  BY <2>1, <2>2, <2>3
<1> HIDE DEF counted
<1>5. Recounted(l, Anchored(counted, t), t)
  BY <1>4, AnchoredIs DEF Recounted
<1> QED  BY <1>1, <1>4, <1>5, AnchoredIs

LEMMA NewEpochIs ==
  ASSUME NEW t, Sound(t), NEW l \in LineCount
  PROVE  /\ NewEpoch(l, t) \in LineCount /\ NewEpoch(l, t).moved = Lost
         /\ NewEpoch(l, t).epoch = l.epoch + 1
         /\ t.screen = "Primary" => Aligned(NewEpoch(l, t), t)
<1>1. Len(t.hist) \in Nat
  BY TerminalIs
<1>2. Most(0, l.h) \in Nat
  BY DEF Most, LineCount, Never
<1>3. CASE t.screen = "Primary"
  <2>1. NewEpoch(l, t) = Anchored(Lose(l, Len(t.hist)), t)
    BY <1>3 DEF NewEpoch
  <2> DEFINE k == Lose(l, Len(t.hist))
  <2>2. k \in LineCount /\ k.moved = Lost /\ k.epoch = l.epoch + 1
    BY <1>1, LoseIs
  <2> HIDE DEF k
  <2>3. /\ Anchored(k, t) \in LineCount /\ Aligned(Anchored(k, t), t)
        /\ Anchored(k, t).epoch = k.epoch /\ Anchored(k, t).moved = k.moved
    BY <2>2, AnchoredIs
  <2>4. NewEpoch(l, t) = Anchored(k, t)
    BY <2>1 DEF k
  <2> QED  BY <2>2, <2>3, <2>4
<1>4. CASE t.screen # "Primary"
  <2>1. NewEpoch(l, t) = Lose(l, Most(0, l.h))
    BY <1>4 DEF NewEpoch
  <2> QED  BY <1>2, <1>4, <2>1, LoseIs
<1> QED  BY <1>3, <1>4

LEMMA LostCounts ==
  ASSUME NEW l \in LineCount, NEW r \in LineCount, NEW term \in Term, NEW on, Counts(l, term, on),
         r.moved = Lost, r.epoch = l.epoch + 1
  PROVE  Counts(r, term, on)
<1>1. l.epoch \in Nat /\ term.epoch \in Nat /\ l.epoch >= term.epoch
  BY DEF Counts, LineCount, Term
<1> QED  BY <1>1 DEF Counts, Lost

LEMMA RecountedCounts ==
  ASSUME NEW t, Sound(t), NEW l \in LineCount, NEW r \in LineCount, NEW term \in Term,
         NEW on \in BOOLEAN, Counts(l, term, on), Recounted(l, r, t), Aligned(r, t)
  PROVE  Counts(r, term, on)
<1> DEFINE s == Most(0, FirstRow(t) - l.anchor)
<1>1. r.h # Never
  BY TerminalIs DEF Aligned, Never
<1>2. CASE r.moved = Lost /\ r.epoch = l.epoch + 1
  BY <1>2, LostCounts
<1>3. CASE /\ l.h = Never \/ l.anchor = Never
           /\ r.moved = l.moved /\ r.epoch = l.epoch /\ (l.h # Never => r.top = l.top)
  BY <1>1, <1>3 DEF Counts
<1>4. CASE /\ l.anchor # Never /\ r.top = l.top + s /\ r.epoch = l.epoch
           /\ r.moved.scrolled = l.moved.scrolled + s /\ r.moved.newEpoch = l.moved.newEpoch
  <2>1. s \in Nat /\ l.top \in Nat /\ term.top \in Nat /\ l.moved.scrolled \in Nat
    <3>1. FirstRow(t) - l.anchor \in Int
      BY TerminalIs DEF LineCount, Never
    <3> QED  BY <3>1, MostIs DEF LineCount, Term
  <2> HIDE DEF s
  <2> QED  BY <1>1, <1>4, <2>1 DEF Counts
<1> QED  BY <1>2, <1>3, <1>4 DEF Recounted

-----------------------------------------------------------------------------
(* A grid that only counted lines, or minted styles.                       *)

Grown(g, h) ==
  /\ h = [g EXCEPT !.styles = h.styles, !.lines = h.lines, !.clears = h.clears]
  /\ Starts(g.styles, h.styles) /\ h.styles \in Seq(Cell)
  /\ h.lines \in LineCount /\ h.clears \in Nat \cup {Never}

LEMMA GrownIs ==
  ASSUME NEW g, GridSane(g), NEW h, Grown(g, h)
  PROVE  /\ h \in Rendering /\ h.gen = g.gen /\ h.rev = g.rev /\ h.rendered = g.rendered
         /\ h.tgen = g.tgen /\ h.rows = g.rows /\ h.revs = g.revs /\ h.log = g.log
         /\ h.floor = g.floor /\ h.term = g.term /\ h.termRevs = g.termRevs /\ h.full = g.full
BY DEF Grown, GridSane, Rendering

LEMMA CellStays ==
  ASSUME NEW g, GridSane(g), NEW h, Grown(g, h), NEW y \in 1..Len(g.rows)
  PROVE  CellOf(h, y) = CellOf(g, y)
<1> DEFINE i == g.rows[y].cell + 1
<1>1. g.rows[y] \in Row /\ g.rows[y].cell < Len(g.styles) /\ Len(g.styles) \in Nat
  BY DEF GridSane, Rendering, Encodes
<1>2. i \in 1..Len(g.styles)
  BY <1>1 DEF Row
<1>3. h.rows = g.rows /\ h.styles[i] = g.styles[i]
  BY <1>2, GrownIs DEF Grown, Starts
<1> QED  BY <1>3 DEF CellOf

LEMMA GrownSane ==
  ASSUME NEW g, GridSane(g), NEW h, Grown(g, h), Counts(h.lines, g.term, g.rendered)
  PROVE  GridSane(h)
<1>1. h \in Rendering /\ h.rev = g.rev /\ h.rendered = g.rendered /\ h.rows = g.rows
      /\ h.revs = g.revs /\ h.log = g.log /\ h.floor = g.floor /\ h.term = g.term
      /\ h.termRevs = g.termRevs
  BY GrownIs
<1>2. Len(h.rows) = h.term.size /\ Len(h.revs) = h.term.size /\ Logged(h) /\ Dated(h)
      /\ Counts(h.lines, h.term, h.rendered)
  BY <1>1 DEF GridSane, Logged, Dated
<1>3. Len(h.styles) >= Len(g.styles) /\ Len(g.styles) \in Nat /\ Len(h.styles) \in Nat
      /\ g.rows \in Seq(Row)
  BY DEF Grown, Starts, GridSane, Rendering
<1>4. Len(h.styles) > 0
  BY <1>3 DEF GridSane
<1>5. Encodes(h.styles, h.rows)
  <2> SUFFICES ASSUME NEW y \in 1..Len(g.rows) PROVE g.rows[y].cell < Len(h.styles)
    BY <1>1 DEF Encodes
  <2>1. g.rows[y].cell < Len(g.styles) /\ g.rows[y] \in Row
    BY <1>3 DEF GridSane, Encodes
  <2> QED  BY <1>3, <2>1 DEF Row
<1> QED  BY <1>1, <1>2, <1>4, <1>5 DEF GridSane

LEMMA GrownShows ==
  ASSUME NEW g, GridSane(g), NEW h, Grown(g, h), NEW t, Shows(g, t)
  PROVE  Shows(h, t)
<1>1. h.rendered = g.rendered /\ h.term = g.term /\ h.rows = g.rows
  BY GrownIs
<1>2. \A y \in 1..Height(t) : CellOf(h, y) = CellOf(g, y)
  BY CellStays DEF Shows
<1> QED  BY <1>1, <1>2 DEF Shows

LEMMA GrownTwice ==
  ASSUME NEW g, GridSane(g), NEW h, Grown(g, h), NEW k, Grown(h, k)
  PROVE  Grown(g, k)
<1>1. g.styles \in Seq(Cell) /\ g \in Rendering /\ h \in Rendering
  BY GrownIs DEF GridSane, Rendering
<1>2. Starts(g.styles, k.styles)
  BY <1>1, StartsTwice DEF Grown
<1>3. k = [g EXCEPT !.styles = k.styles, !.lines = k.lines, !.clears = k.clears]
  BY <1>1 DEF Grown, Rendering
<1> QED  BY <1>2, <1>3 DEF Grown

LEMMA GrownSelf ==
  ASSUME NEW g, GridSane(g)
  PROVE  Grown(g, g)
<1>1. g \in Rendering /\ g.styles \in Seq(Cell) /\ g.lines \in LineCount
      /\ g.clears \in Nat \cup {Never}
  BY DEF GridSane, Rendering
<1>2. g = [g EXCEPT !.styles = g.styles, !.lines = g.lines, !.clears = g.clears]
  BY <1>1 DEF Rendering
<1> QED  BY <1>1, <1>2, StartsSelf DEF Grown

(* What counting lines for an update finds, where no epoch has begun.      *)
Continues(l, r, t) ==
  ~r.moved.newEpoch => IF t.screen = "Primary" THEN Recounted(l, r, t) ELSE r = l

LinesFine(l, r, t, term, on) ==
  /\ r \in LineCount /\ Counts(r, term, on) /\ Continues(l, r, t)
  /\ t.screen = "Primary" => Aligned(r, t)

LEMMA SettleLinesFine ==
  ASSUME NEW t, Sound(t), NEW l \in LineCount, NEW term \in Term, NEW on \in BOOLEAN,
         Counts(l, term, on)
  PROVE  LinesFine(l, SettleLines(l, t), t, term, on)
<1> DEFINE r == SettleLines(l, t)
<1>1. /\ r \in LineCount /\ (t.screen # "Primary" => r = l)
      /\ t.screen = "Primary" => Recounted(l, r, t) /\ Aligned(r, t)
  BY SettleLinesIs
<1> HIDE DEF r
<1>2. CASE t.screen = "Primary"
  <2>1. Counts(r, term, on)
    BY <1>1, <1>2, RecountedCounts
  <2> QED  BY <1>1, <1>2, <2>1 DEF LinesFine, Continues, r
<1>3. CASE t.screen # "Primary"
  BY <1>1, <1>3 DEF LinesFine, Continues, r
<1> QED  BY <1>2, <1>3

LEMMA NewEpochFine ==
  ASSUME NEW t, Sound(t), NEW l, NEW r \in LineCount, NEW term \in Term, NEW on,
         Counts(r, term, on)
  PROVE  LinesFine(l, NewEpoch(r, t), t, term, on)
<1> DEFINE k == NewEpoch(r, t)
<1>1. /\ k \in LineCount /\ k.moved = Lost /\ k.epoch = r.epoch + 1
      /\ t.screen = "Primary" => Aligned(k, t)
  BY NewEpochIs
<1> HIDE DEF k
<1>2. Counts(k, term, on)
  BY <1>1, LostCounts
<1>3. LinesFine(l, k, t, term, on)
  BY <1>1, <1>2 DEF LinesFine, Continues, Lost
<1> QED  BY <1>3 DEF k

LEMMA SettleIs ==
  ASSUME NEW t, Sound(t), NEW g, GridSane(g)
  PROVE  /\ LinesFine(g.lines, Settle(g, t).lines, t, g.term, g.rendered)
         /\ Grown(g, Settle(g, t)) /\ Settle(g, t).styles = g.styles
<1> DEFINE l == SettleLines(g.lines, t)
           r == IF g.clears \in {Never, t.clears} THEN l ELSE NewEpoch(l, t)
           s == Settle(g, t)
<1>1. g \in Rendering /\ g.lines \in LineCount /\ g.term \in Term /\ g.rendered \in BOOLEAN
      /\ g.styles \in Seq(Cell) /\ Counts(g.lines, g.term, g.rendered)
  BY DEF GridSane, Rendering
<1>2. LinesFine(g.lines, l, t, g.term, g.rendered)
  BY <1>1, SettleLinesFine
<1>3. s = [g EXCEPT !.lines = r, !.clears = t.clears]
  BY DEF Settle
<1> HIDE DEF l, s
<1>4. LinesFine(g.lines, r, t, g.term, g.rendered)
  <2>1. LinesFine(g.lines, NewEpoch(l, t), t, g.term, g.rendered)
    BY <1>1, <1>2, NewEpochFine DEF LinesFine
  <2> QED  BY <1>2, <2>1
<1> HIDE DEF r
<1>5. r \in LineCount /\ t.clears \in Nat
  BY <1>4, TerminalIs DEF LinesFine
<1>6. s.lines = r /\ s.clears = t.clears /\ s.styles = g.styles
  BY <1>1, <1>3 DEF Rendering
<1>7. s = [g EXCEPT !.styles = s.styles, !.lines = s.lines, !.clears = s.clears]
  BY <1>1, <1>3, <1>6 DEF Rendering
<1>8. Grown(g, s)
  BY <1>1, <1>5, <1>6, <1>7, StartsSelf DEF Grown
<1> QED  BY <1>4, <1>6, <1>8 DEF s

(* Counting lines moves nothing in the cache.                              *)
LEMMA CountedFaithful ==
  ASSUME NEW t, Sound(t), NEW g, GridSane(g), NEW h, Grown(g, h), Faithful(g, t),
         LinesFine(g.lines, h.lines, t, g.term, g.rendered)
  PROVE  Faithful(h, t)
<1> DEFINE s == Most(0, FirstRow(t) - g.lines.anchor)
<1>1. /\ h.rendered = g.rendered /\ h.full = g.full /\ h.term = g.term /\ h.rows = g.rows
      /\ g.lines \in LineCount /\ h.lines \in LineCount /\ FirstRow(t) \in Nat
  BY GrownIs, TerminalIs DEF GridSane, Rendering, Grown
<1> SUFFICES ASSUME Carries(h, t), NEW y \in (1..Height(t)) \ t.dirty
             PROVE  IF t.screen = "Primary"
                    THEN /\ h.lines.anchor # Never /\ h.lines.anchor <= FirstRow(t)
                         /\ Shown(h, y + Drift(h, t), t.prim[y])
                    ELSE Shown(h, y, t.alt[y])
  BY DEF Faithful
<1>2. ASSUME NEW k, NEW x, Shown(g, k, x) PROVE Shown(h, k, x)
  <2>1. k \in 1..Len(g.rows) /\ CellOf(g, k) = x
    BY <1>2 DEF Shown
  <2>2. CellOf(h, k) = CellOf(g, k)
    BY <2>1, CellStays
  <2> QED  BY <1>1, <2>1, <2>2 DEF Shown
<1>3. CASE t.screen = "Primary"
  <2>1. Recounted(g.lines, h.lines, t) /\ Aligned(h.lines, t)
    BY <1>3 DEF LinesFine, Continues, Carries
  <2>2. CASE h.lines.moved = Lost
    BY <2>2 DEF Carries, Lost
  <2>3. CASE /\ g.lines.h = Never \/ g.lines.anchor = Never
             /\ h.lines.moved = g.lines.moved
    <3>1. Carries(g, t)
      BY <1>1, <2>3 DEF Carries
    <3>2. g.lines.anchor # Never
      BY <1>3, <3>1, Zenon DEF Faithful
    <3>3. g.lines.h # Never
      BY <1>3, <3>1 DEF GridSane, Counts, Carries
    <3> QED  BY <2>3, <3>2, <3>3
  <2>4. CASE /\ g.lines.anchor # Never /\ h.lines.moved.scrolled = g.lines.moved.scrolled + s
             /\ h.lines.moved.newEpoch = g.lines.moved.newEpoch
    <3>1. Carries(g, t)
      BY <1>1, <2>4 DEF Carries
    <3>2. g.lines.anchor <= FirstRow(t) /\ Shown(g, y + Drift(g, t), t.prim[y])
      BY <1>3, <3>1, Zenon DEF Faithful
    <3>3. s = FirstRow(t) - g.lines.anchor /\ g.lines.anchor \in Nat
          /\ g.lines.moved.scrolled \in Nat
      BY <1>1, <2>4, <3>2 DEF Most, LineCount
    <3>4. h.lines.anchor = FirstRow(t)
      BY <2>1 DEF Aligned
    <3>5. Drift(h, t) = Drift(g, t)
      BY <1>1, <2>4, <3>3, <3>4 DEF Drift
    <3>6. h.lines.anchor # Never /\ h.lines.anchor <= FirstRow(t)
      BY <1>1, <3>4 DEF Never
    <3> QED  BY <1>2, <1>3, <3>2, <3>5, <3>6
  <2> QED  BY <2>1, <2>2, <2>3, <2>4 DEF Recounted
<1>4. CASE t.screen # "Primary"
  <2>1. h.lines = g.lines
    BY <1>4 DEF LinesFine, Continues, Carries
  <2>2. Carries(g, t)
    BY <1>1, <2>1 DEF Carries
  <2>3. Shown(g, y, t.alt[y])
    BY <1>4, <2>2, Zenon DEF Faithful
  <2> QED  BY <1>2, <1>4, <2>3
<1> QED  BY <1>3, <1>4

LEMMA MintedFaithful ==
  ASSUME NEW t, NEW g, GridSane(g), NEW h, Grown(g, h), Faithful(g, t), h.lines = g.lines
  PROVE  Faithful(h, t)
<1>1. /\ h.rendered = g.rendered /\ h.full = g.full /\ h.term = g.term /\ h.rows = g.rows
  BY GrownIs
<1>2. ASSUME NEW k, NEW x, Shown(g, k, x) PROVE Shown(h, k, x)
  <2>1. k \in 1..Len(g.rows) /\ CellOf(g, k) = x
    BY <1>2 DEF Shown
  <2>2. CellOf(h, k) = CellOf(g, k)
    BY <2>1, CellStays
  <2> QED  BY <1>1, <2>1, <2>2 DEF Shown
<1>3. (Carries(h, t) <=> Carries(g, t)) /\ Drift(h, t) = Drift(g, t)
  BY <1>1 DEF Carries, Drift
<1> QED  BY <1>2, <1>3, Zenon DEF Faithful

LEMMA SettleFine ==
  ASSUME NEW t, Sound(t), NEW g, GridFine(g), g.rendered, Faithful(g, t)
  PROVE  GridFine(Settle(g, t)) /\ Faithful(Settle(g, t), t) /\ Grown(g, Settle(g, t))
<1> DEFINE s == Settle(g, t)
<1>1. LinesFine(g.lines, s.lines, t, g.term, g.rendered) /\ Grown(g, s) /\ GridSane(g)
  BY SettleIs DEF GridFine
<1> HIDE DEF s
<1>2. GridSane(s) /\ Faithful(s, t)
  BY <1>1, GrownSane, CountedFaithful DEF LinesFine
<1>3. s.rendered = g.rendered /\ s.gen = g.gen
  BY <1>1, GrownIs
<1>4. GridFine(s)
  BY <1>2, <1>3 DEF GridFine
<1> QED  BY <1>1, <1>2, <1>4 DEF s

-----------------------------------------------------------------------------
(* An update.                                                              *)

RowAt(rows, y) == IF y <= Len(rows) THEN rows[y] ELSE BlankRow

LEMMA BlankRowIs == BlankRow \in Row /\ BlankRow.cell = 0
BY DEF BlankRow, Row

LEMMA ResizedIs ==
  ASSUME NEW S, NEW s \in Seq(S), NEW n \in Nat, NEW x \in S
  PROVE  /\ Resized(s, n, x) \in Seq(S) /\ Len(Resized(s, n, x)) = n
         /\ \A y \in 1..n : Resized(s, n, x)[y] = IF y <= Len(s) THEN s[y] ELSE x
<1> DEFINE r == Resized(s, n, x)
<1>1. \A y \in 1..n : r[y] = IF y <= Len(s) THEN s[y] ELSE x
  BY DEF Resized
<1>2. r = [y \in 1..n |-> r[y]] /\ \A y \in 1..n : r[y] \in S
  <2>1. r = [y \in 1..n |-> r[y]]
    BY DEF Resized
  <2>2. ASSUME NEW y \in 1..n PROVE r[y] \in S
    BY <1>1
  <2> QED  BY <2>1, <2>2
<1> HIDE DEF r
<1>3. r \in Seq(S) /\ Len(r) = n
  BY <1>2, ListIs
<1> QED  BY <1>1, <1>3 DEF r

LEMMA ShiftedIs ==
  ASSUME NEW s \in Seq(Row), NEW k \in Nat
  PROVE  /\ Shifted(s, k) \in Seq(Row) /\ Len(Shifted(s, k)) = Len(s)
         /\ \A y \in 1..Len(s) : Shifted(s, k)[y] = RowPast(s, y, k)
<1> DEFINE r == Shifted(s, k)
           n == Len(s)
<1>1. DOMAIN s = 1..n /\ n \in Nat
  OBVIOUS
<1>2. r = [y \in 1..n |-> RowPast(s, y, k)]
  BY <1>1 DEF Shifted, RowPast
<1>3. ASSUME NEW y \in 1..n PROVE r[y] = RowPast(s, y, k) /\ r[y] \in Row
  <2>1. RowPast(s, y, k) \in Row
    <3>1. CASE y + k <= n
      <4>1. y + k \in 1..n
        BY <1>1, <3>1
      <4> QED  BY <3>1, <4>1 DEF RowPast
    <3>2. CASE ~(y + k <= n)
      BY <3>2, BlankRowIs DEF RowPast
    <3> QED  BY <3>1, <3>2
  <2> QED  BY <1>2, <2>1
<1>4. r = [y \in 1..n |-> r[y]]
  BY <1>2
<1> HIDE DEF r
<1>5. r \in Seq(Row) /\ Len(r) = n
  BY <1>1, <1>3, <1>4, ListIs
<1> QED  BY <1>3, <1>5 DEF r

LEMMA RotatedIs ==
  ASSUME NEW s \in Seq(Nat), NEW k \in Nat, k <= Len(s)
  PROVE  /\ Rotated(s, k) \in Seq(Nat) /\ Len(Rotated(s, k)) = Len(s)
         /\ \A y \in 1..Len(s) : y + k <= Len(s) => Rotated(s, k)[y] = s[y + k]
         /\ \A y \in 1..Len(s) : \E z \in 1..Len(s) : Rotated(s, k)[y] = s[z]
<1> DEFINE n == Len(s)
           a == SubSeq(s, k + 1, n)
           b == SubSeq(s, 1, k)
<1>1. n \in Nat /\ a \in Seq(Nat) /\ Len(a) = n - k /\ \A i \in 1..n - k : a[i] = s[k + i]
  BY PartIs
<1>2. b \in Seq(Nat) /\ Len(b) = k /\ \A i \in 1..k : b[i] = s[i]
  OBVIOUS
<1>3. Rotated(s, k) = a \o b
  BY DEF Rotated
<1> HIDE DEF a, b
<1> DEFINE c == a \o b
<1>4. /\ c \in Seq(Nat) /\ Len(c) = Len(a) + Len(b)
      /\ \A i \in 1..Len(a) : c[i] = a[i]
      /\ \A i \in 1..Len(b) : c[Len(a) + i] = b[i]
  <2>1. a \in Seq(Nat) /\ b \in Seq(Nat)
    BY <1>1, <1>2
  <2> QED  BY <2>1, ConcatIs
<1> HIDE DEF c
<1>5. ASSUME NEW y \in 1..n
      PROVE  (y + k <= n => c[y] = s[y + k]) /\ \E z \in 1..n : c[y] = s[z]
  <2>1. CASE y <= n - k
    <3>1. y \in 1..Len(a) /\ y \in 1..n - k /\ y + k \in 1..n /\ k + y = y + k
      BY <1>1, <2>1
    <3>2. c[y] = s[y + k]
      BY <1>1, <1>4, <3>1
    <3> QED  BY <3>1, <3>2
  <2>2. CASE y > n - k
    <3> DEFINE i == y - (n - k)
    <3>1. i \in 1..k /\ i \in 1..n /\ Len(a) + i = y /\ i \in 1..Len(b)
      BY <1>1, <1>2, <2>2
    <3>2. c[y] = s[i]
      BY <1>2, <1>4, <3>1, Zenon
    <3>3. ~(y + k <= n)
      BY <1>1, <2>2
    <3> QED  BY <3>1, <3>2, <3>3
  <2> QED  BY <1>1, <2>1, <2>2
<1>6. Len(c) = n
  BY <1>1, <1>2, <1>4
<1>7. Rotated(s, k) = c
  BY <1>3 DEF c
<1> QED  BY <1>4, <1>5, <1>6, <1>7

(* What an update encodes: a row it reads stands as the terminal shows it,  *)
(* and the others as they were shifted.                                    *)
LEMMA EncodedIs ==
  ASSUME NEW g, g.styles \in Seq(Cell), NEW t, Sound(t), NEW l \in LineCount,
         NEW shifted \in Seq(Row), Len(shifted) = Height(t), Len(g.styles) > 0,
         NEW full \in BOOLEAN, full \/ Encodes(g.styles, shifted)
  PROVE  LET made == Encoded(g, t, l, shifted, full)
         IN  /\ made.styles \in Seq(Cell) /\ Starts(g.styles, made.styles)
             /\ made.rows \in Seq(Row) /\ Len(made.rows) = Height(t)
             /\ Encodes(made.styles, made.rows)
             /\ \A y \in 1..Height(t) :
                  \/ made.styles[made.rows[y].cell + 1] = Viewport(t)[y]
                  \/ made.rows[y] = shifted[y] /\ ~full /\ y \notin t.dirty
<1> DEFINE made       == Encoded(g, t, l, shifted, full)
           n          == Height(t)
           shown      == Viewport(t)
           LineOf(y)  == IF t.screen = "Primary" THEN l.top + y - 1 ELSE 0
           Visited(y) == full \/ y \in t.dirty \/ shifted[y].line # LineOf(y)
           styles     == Minted(g.styles, shown, {y \in DOMAIN shown : Visited(y)})
           rows       == [y \in DOMAIN shown |->
                            IF Visited(y) THEN [line |-> LineOf(y), cell |-> IdOf(styles, shown[y])]
                                          ELSE shifted[y]]
<1>1. made = [styles |-> styles, rows |-> rows]
  BY DEF Encoded
<1>2. n \in Nat /\ shown \in Seq(Cell) /\ Len(shown) = n /\ DOMAIN shown = 1..n
  BY TerminalIs
<1>3. /\ styles \in Seq(Cell) /\ Starts(g.styles, styles)
      /\ \A y \in 1..n : Visited(y) => \E j \in 1..Len(styles) : styles[j] = shown[y]
  <2> DEFINE read == {y \in DOMAIN shown : Visited(y)}
  <2>1. \A y \in 1..n : Visited(y) => y \in read
    BY <1>2
  <2>2. styles = Minted(g.styles, shown, read)
    OBVIOUS
  <2> HIDE DEF read, styles, shown, n, Visited
  <2>3. /\ styles \in Seq(Cell) /\ Starts(g.styles, styles)
        /\ \A y \in 1..Len(shown) : y \in read => \E j \in 1..Len(styles) : styles[j] = shown[y]
    <3>1. shown \in Seq(Cell) /\ g.styles \in Seq(Cell)
      BY <1>2
    <3>2. styles \in Seq(Cell) /\ Starts(g.styles, styles)
      BY <2>2, <3>1, MintedIs
    <3>3. ASSUME NEW y \in 1..Len(shown), y \in read
          PROVE  \E j \in 1..Len(styles) : styles[j] = shown[y]
      BY <2>2, <3>1, <3>3, MintedIs
    <3> QED  BY <3>2, <3>3
  <2>4. \A y \in 1..n : Visited(y) => \E j \in 1..Len(styles) : styles[j] = shown[y]
    BY <1>2, <2>1, <2>3
  <2> QED  BY <2>3, <2>4
<1>4. l.top \in Nat
  BY DEF LineCount
<1>5. \A y \in 1..n : LineOf(y) \in Nat
  BY <1>4
<1>6. rows = [y \in 1..n |-> rows[y]]
      /\ \A y \in 1..n : rows[y] = IF Visited(y) THEN [line |-> LineOf(y), cell |-> IdOf(styles, shown[y])]
                                   ELSE shifted[y]
  BY <1>2
<1>7. \A y \in 1..n : ~Visited(y) => ~full /\ y \notin t.dirty
  OBVIOUS
<1> HIDE DEF made, styles, rows, Visited, LineOf, shown, n
<1>8. ASSUME NEW y \in 1..n, Visited(y)
      PROVE  /\ rows[y] \in Row /\ rows[y].cell < Len(styles)
             /\ styles[rows[y].cell + 1] = shown[y]
  <2> DEFINE i == CHOOSE j \in DOMAIN styles : styles[j] = shown[y]
  <2>1. i \in DOMAIN styles /\ styles[i] = shown[y]
    <3>1. \E j \in DOMAIN styles : styles[j] = shown[y]
      BY <1>3, <1>8
    <3> QED  BY <3>1
  <2>2. rows[y] = [line |-> LineOf(y), cell |-> i - 1]
    BY <1>6, <1>8 DEF IdOf
  <2> HIDE DEF i
  <2>3. i \in 1..Len(styles) /\ Len(styles) \in Nat
    BY <1>3, <2>1
  <2>4. i - 1 \in Nat /\ i - 1 < Len(styles) /\ (i - 1) + 1 = i
    BY <2>3
  <2>5. rows[y] \in Row /\ rows[y].cell = i - 1
    BY <1>5, <2>2, <2>4 DEF Row
  <2> QED  BY <2>1, <2>4, <2>5
<1>9. ASSUME NEW y \in 1..n, ~Visited(y)
      PROVE  rows[y] = shifted[y] /\ rows[y] \in Row /\ rows[y].cell < Len(styles)
  <2>1. rows[y] = shifted[y] /\ shifted[y] \in Row /\ shifted[y].cell < Len(g.styles)
    BY <1>6, <1>7, <1>9 DEF Encodes, n
  <2>2. Len(g.styles) <= Len(styles) /\ Len(g.styles) \in Nat /\ Len(styles) \in Nat
    BY <1>3 DEF Starts
  <2> QED  BY <2>1, <2>2 DEF Row
<1>10. rows \in Seq(Row) /\ Len(rows) = n
  <2>1. \A y \in 1..n : rows[y] \in Row
    BY <1>8, <1>9
  <2>2. rows = [y \in 1..n |-> rows[y]]
    BY <1>6
  <2> QED  BY <1>2, <2>1, <2>2, ListIs
<1>11. Encodes(styles, rows)
  BY <1>8, <1>9, <1>10 DEF Encodes
<1>12. \A y \in 1..n : \/ styles[rows[y].cell + 1] = shown[y]
                       \/ rows[y] = shifted[y] /\ ~full /\ y \notin t.dirty
  BY <1>7, <1>8, <1>9
<1>13. made.styles = styles /\ made.rows = rows
  BY <1>1
<1> QED  BY <1>3, <1>10, <1>11, <1>12, <1>13 DEF made, n, shown

(* A grid an update may start from: its tables kept, or started again.      *)
Ready(g) ==
  /\ g \in Rendering
  /\ Len(g.rows) = g.term.size /\ Len(g.revs) = g.term.size
  /\ Len(g.styles) > 0 /\ (g.full \/ Encodes(g.styles, g.rows))
  /\ Logged(g) /\ Dated(g)

SameBut(g, o) ==
  /\ o.gen = g.gen /\ o.rev = g.rev /\ o.rendered = g.rendered /\ o.rows = g.rows
  /\ o.revs = g.revs /\ o.log = g.log /\ o.floor = g.floor /\ o.term = g.term
  /\ o.termRevs = g.termRevs /\ o.lines = g.lines

Readied(g, t) == [Compacted(g) EXCEPT !.clears = t.clears]

LEMMA ReadiedIs ==
  ASSUME NEW t, Sound(t), NEW g, GridSane(g)
  PROVE  LET o == Readied(g, t)
         IN  /\ Ready(o) /\ SameBut(g, o)
             /\ \/ o = [g EXCEPT !.clears = t.clears]
                \/ o.tgen = g.tgen + 1 /\ o.full
<1> DEFINE o == Readied(g, t)
<1>1. g \in Rendering /\ t.clears \in Nat
  BY TerminalIs DEF GridSane
<1>2. CASE Len(g.styles) > MaxStyles
  <2> DEFINE c == [g EXCEPT !.styles = <<Blank>>, !.tgen = g.tgen + 1, !.full = TRUE]
  <2>1. Compacted(g) = c
    BY <1>2 DEF Compacted
  <2>2. <<Blank>> \in Seq(Cell) /\ Len(<<Blank>>) = 1
    BY DEF Cell
  <2>3. o = [c EXCEPT !.clears = t.clears]
    BY <2>1 DEF Readied
  <2>4. /\ c \in Rendering /\ c.styles = <<Blank>> /\ c.full /\ c.tgen = g.tgen + 1
        /\ SameBut(g, c)
    <3> DEFINE blank == <<Blank>>
    <3>1. c = [g EXCEPT !.styles = blank, !.tgen = g.tgen + 1, !.full = TRUE] /\ blank \in Seq(Cell)
      BY <2>2
    <3>2. c.styles = <<Blank>>
      BY <1>1 DEF Rendering
    <3> HIDE DEF blank, c
    <3>3. g.tgen + 1 \in Nat
      BY <1>1 DEF Rendering
    <3>4. c \in Rendering
      BY <1>1, <3>1, <3>3 DEF Rendering
    <3>5. c.full /\ c.tgen = g.tgen + 1
      BY <1>1, <3>1 DEF Rendering
    <3>6. SameBut(g, c)
      BY <1>1, <3>1 DEF Rendering, SameBut
    <3> QED  BY <3>2, <3>4, <3>5, <3>6
  <2> HIDE DEF c
  <2>5. /\ o \in Rendering /\ o.styles = c.styles /\ o.full = c.full /\ o.tgen = c.tgen
        /\ SameBut(c, o)
    BY <1>1, <2>3, <2>4 DEF Rendering, SameBut
  <2> HIDE DEF o
  <2>6. SameBut(g, o)
    BY <2>4, <2>5 DEF SameBut
  <2>7. Logged(o) /\ Dated(o) /\ Len(o.rows) = o.term.size /\ Len(o.revs) = o.term.size
    BY <2>6 DEF SameBut, GridSane, Logged, Dated
  <2>8. Ready(o)
    BY <2>2, <2>4, <2>5, <2>7 DEF Ready
  <2> QED  BY <2>4, <2>5, <2>6, <2>8 DEF o
<1>3. CASE ~(Len(g.styles) > MaxStyles)
  <2>1. o = [g EXCEPT !.clears = t.clears]
    BY <1>3 DEF Readied, Compacted
  <2> HIDE DEF o
  <2>2. o \in Rendering /\ o.styles = g.styles /\ o.full = g.full /\ SameBut(g, o)
    BY <1>1, <2>1 DEF Rendering, SameBut
  <2>3. Logged(o) /\ Dated(o) /\ Len(o.rows) = o.term.size /\ Len(o.revs) = o.term.size
        /\ Encodes(o.styles, o.rows) /\ Len(o.styles) > 0
    BY <2>2 DEF SameBut, GridSane, Logged, Dated
  <2>4. Ready(o)
    BY <2>2, <2>3 DEF Ready
  <2> QED  BY <2>1, <2>2, <2>4 DEF o
<1> QED  BY <1>2, <1>3

LEMMA LinesAtIs ==
  ASSUME NEW t, Sound(t), NEW g, GridSane(g)
  PROVE  /\ LinesFine(g.lines, LinesAt(g, t), t, g.term, g.rendered)
         /\ g.rendered /\ Height(t) # g.term.size => LinesAt(g, t).moved.newEpoch
<1> DEFINE l == Settle(g, t).lines
           r == LinesAt(g, t)
<1>1. LinesFine(g.lines, l, t, g.term, g.rendered)
  BY SettleIs
<1>2. r = IF g.rendered /\ Height(t) # g.term.size THEN NewEpoch(l, t) ELSE l
  BY DEF LinesAt
<1> HIDE DEF l, r
<1>3. l \in LineCount /\ Counts(l, g.term, g.rendered) /\ g.term \in Term
  BY <1>1 DEF LinesFine, GridSane, Rendering
<1>4. LinesFine(g.lines, NewEpoch(l, t), t, g.term, g.rendered)
  BY <1>3, NewEpochFine
<1>5. NewEpoch(l, t).moved.newEpoch
  BY <1>3, NewEpochIs DEF Lost
<1>6. LinesFine(g.lines, r, t, g.term, g.rendered)
  BY <1>1, <1>2, <1>4
<1>7. g.rendered /\ Height(t) # g.term.size => r.moved.newEpoch
  BY <1>2, <1>5
<1> QED  BY <1>6, <1>7 DEF r

(* The parts of an update.                                                 *)
TermAt(t, l) == [size |-> Height(t), screen |-> t.screen, epoch |-> l.epoch, top |-> l.top]
ShiftAt(g, t, l) == Least(ScrolledBy(g, t, l), Height(t))
RowsAt(g, t, l) == Shifted(Resized(g.rows, Height(t), BlankRow), ShiftAt(g, t, l))
StampsAt(g, t, l) == Rotated(Resized(g.revs, Height(t), 0), ShiftAt(g, t, l))
FullAt(g, t, l) == g.full \/ Len(g.rows) # Height(t) \/ ~ShiftKnown(g, t, l)
MadeAt(g, t, l) == Encoded(g, t, l, RowsAt(g, t, l), FullAt(g, t, l))

LEMMA UpdateAtIs ==
  ASSUME NEW g, NEW t, NEW l
  PROVE  UpdateAt(g, t, l) = Stamped(g, l, ScrolledBy(g, t, l), TermAt(t, l), RowsAt(g, t, l),
                                     StampsAt(g, t, l), MadeAt(g, t, l))
BY DEF UpdateAt, TermAt, ShiftAt, RowsAt, StampsAt, FullAt, MadeAt

LEMMA ScrolledByIs ==
  ASSUME NEW g \in Rendering, NEW t, Sound(t), NEW l \in LineCount
  PROVE  /\ ScrolledBy(g, t, l) \in Nat /\ ShiftAt(g, t, l) \in Nat
         /\ ShiftAt(g, t, l) <= Height(t) /\ ShiftAt(g, t, l) <= ScrolledBy(g, t, l)
         /\ ShiftAt(g, t, l) \in {ScrolledBy(g, t, l), Height(t)}
         /\ Height(t) \in Nat /\ Height(t) > 0
         /\ ScrolledBy(g, t, l) = 0 \/ (ShiftKnown(g, t, l) /\ t.screen = "Primary"
                                         /\ ScrolledBy(g, t, l) = l.moved.scrolled)
<1>1. Height(t) \in Nat /\ Height(t) > 0
  BY DEF Sound, Terminal, Height
<1>2. l.moved.scrolled \in Nat
  BY DEF LineCount
<1>3. /\ ScrolledBy(g, t, l) \in Nat
      /\ ScrolledBy(g, t, l) = 0 \/ (ShiftKnown(g, t, l) /\ t.screen = "Primary"
                                         /\ ScrolledBy(g, t, l) = l.moved.scrolled)
  BY <1>2 DEF ScrolledBy
<1> QED  BY <1>1, <1>3, LeastIs DEF ShiftAt

LEMMA RowsAtAre ==
  ASSUME NEW g, Ready(g), NEW t, Sound(t), NEW l \in LineCount
  PROVE  /\ RowsAt(g, t, l) \in Seq(Row) /\ Len(RowsAt(g, t, l)) = Height(t)
         /\ \A y \in 1..Height(t) :
              RowsAt(g, t, l)[y] = IF y + ShiftAt(g, t, l) <= Height(t)
                                   THEN RowAt(g.rows, y + ShiftAt(g, t, l)) ELSE BlankRow
         /\ FullAt(g, t, l) \/ Encodes(g.styles, RowsAt(g, t, l))
<1> DEFINE n == Height(t)
           k == ShiftAt(g, t, l)
           u == Resized(g.rows, n, BlankRow)
           r == RowsAt(g, t, l)
<1>1. g \in Rendering /\ g.rows \in Seq(Row) /\ Len(g.styles) \in Nat /\ Len(g.styles) > 0
  BY DEF Ready, Rendering
<1>2. n \in Nat /\ k \in Nat
  BY <1>1, ScrolledByIs
<1>3. r = Shifted(u, k)
  BY DEF RowsAt
<1> HIDE DEF n, k, r, u
<1>4. u \in Seq(Row) /\ Len(u) = n /\ \A y \in 1..n : u[y] = RowAt(g.rows, y)
  <2>1. u = Resized(g.rows, n, BlankRow)
    BY DEF u
  <2>2. g.rows \in Seq(Row) /\ n \in Nat /\ BlankRow \in Row
    BY <1>1, <1>2, BlankRowIs
  <2>3. /\ Resized(g.rows, n, BlankRow) \in Seq(Row) /\ Len(Resized(g.rows, n, BlankRow)) = n
        /\ \A y \in 1..n : Resized(g.rows, n, BlankRow)[y]
                            = IF y <= Len(g.rows) THEN g.rows[y] ELSE BlankRow
    <3>1. Resized(g.rows, n, BlankRow) \in Seq(Row)
      BY <2>2, ResizedIs
    <3>2. Len(Resized(g.rows, n, BlankRow)) = n
      BY <2>2, ResizedIs
    <3>3. ASSUME NEW y \in 1..n
          PROVE  Resized(g.rows, n, BlankRow)[y] = IF y <= Len(g.rows) THEN g.rows[y] ELSE BlankRow
      BY DEF Resized
    <3> QED  BY <3>1, <3>2, <3>3
  <2> QED  BY <2>1, <2>3 DEF RowAt
<1>5. r \in Seq(Row) /\ Len(r) = n /\ \A y \in 1..n : r[y] = RowPast(u, y, k)
  BY <1>2, <1>3, <1>4, ShiftedIs
<1>6. ASSUME NEW y \in 1..n
      PROVE  r[y] = IF y + k <= n THEN RowAt(g.rows, y + k) ELSE BlankRow
  <2>1. y + k <= n => y + k \in 1..n
    BY <1>2
  <2> QED  BY <1>4, <1>5, <2>1 DEF RowPast
<1>7. ASSUME ~FullAt(g, t, l) PROVE Encodes(g.styles, r)
  <2>1. ~g.full /\ Len(g.rows) = n
    BY <1>7 DEF FullAt, n
  <2> SUFFICES ASSUME NEW y \in 1..n PROVE r[y].cell < Len(g.styles)
    BY <1>5 DEF Encodes
  <2>2. CASE y + k <= n
    <3>1. y + k \in 1..Len(g.rows)
      BY <1>2, <2>1, <2>2
    <3>2. r[y] = g.rows[y + k]
      BY <1>6, <2>1, <2>2 DEF RowAt
    <3> QED  BY <2>1, <3>1, <3>2 DEF Ready, Encodes
  <2>3. CASE ~(y + k <= n)
    BY <1>1, <1>6, <2>3, BlankRowIs
  <2> QED  BY <2>2, <2>3
<1> QED  BY <1>5, <1>6, <1>7 DEF n, k, r

LEMMA StampsAtAre ==
  ASSUME NEW g, Ready(g), NEW t, Sound(t), NEW l \in LineCount
  PROVE  /\ StampsAt(g, t, l) \in Seq(Nat) /\ Len(StampsAt(g, t, l)) = Height(t)
         /\ \A y \in 1..Height(t) :
              /\ StampsAt(g, t, l)[y] <= g.rev
              /\ y + ShiftAt(g, t, l) <= Height(t) /\ Len(g.revs) = Height(t)
                   => StampsAt(g, t, l)[y] = g.revs[y + ShiftAt(g, t, l)]
<1> DEFINE n == Height(t)
           k == ShiftAt(g, t, l)
           u == Resized(g.revs, n, 0)
           r == StampsAt(g, t, l)
<1>1. g \in Rendering /\ g.revs \in Seq(Nat) /\ g.rev \in Nat
      /\ \A y \in 1..Len(g.revs) : g.revs[y] <= g.rev
  BY DEF Ready, Rendering, Dated
<1>2. n \in Nat /\ k \in Nat /\ k <= n
  BY <1>1, ScrolledByIs
<1>3. r = Rotated(u, k)
  BY DEF StampsAt
<1> HIDE DEF n, k, r, u
<1>4. u \in Seq(Nat) /\ Len(u) = n /\ \A y \in 1..n : u[y] = IF y <= Len(g.revs) THEN g.revs[y] ELSE 0
  <2>1. u = Resized(g.revs, n, 0)
    BY DEF u
  <2>2. g.revs \in Seq(Nat) /\ n \in Nat /\ 0 \in Nat
    BY <1>1, <1>2
  <2>3. /\ Resized(g.revs, n, 0) \in Seq(Nat) /\ Len(Resized(g.revs, n, 0)) = n
        /\ \A y \in 1..n : Resized(g.revs, n, 0)[y] = IF y <= Len(g.revs) THEN g.revs[y] ELSE 0
    <3>1. Resized(g.revs, n, 0) \in Seq(Nat)
      BY <2>2, ResizedIs
    <3>2. Len(Resized(g.revs, n, 0)) = n
      BY <2>2, ResizedIs
    <3>3. ASSUME NEW y \in 1..n
          PROVE  Resized(g.revs, n, 0)[y] = IF y <= Len(g.revs) THEN g.revs[y] ELSE 0
      BY DEF Resized
    <3> QED  BY <3>1, <3>2, <3>3
  <2> QED  BY <2>1, <2>3
<1>5. \A y \in 1..n : u[y] <= g.rev
  BY <1>1, <1>4
<1>6. /\ r \in Seq(Nat) /\ Len(r) = n
      /\ \A y \in 1..n : y + k <= n => r[y] = u[y + k]
      /\ \A y \in 1..n : \E z \in 1..n : r[y] = u[z]
  <2>1. u \in Seq(Nat) /\ k \in Nat /\ k <= Len(u)
    BY <1>2, <1>4
  <2>2. Rotated(u, k) \in Seq(Nat) /\ Len(Rotated(u, k)) = Len(u)
    BY <2>1, RotatedIs
  <2>3. \A y \in 1..Len(u) : y + k <= Len(u) => Rotated(u, k)[y] = u[y + k]
    BY <2>1, RotatedIs
  <2>4. \A y \in 1..Len(u) : \E z \in 1..Len(u) : Rotated(u, k)[y] = u[z]
    BY <2>1, RotatedIs
  <2>5. Len(u) = n
    BY <1>4
  <2> QED  BY <1>3, <2>2, <2>3, <2>4, <2>5
<1>7. \A y \in 1..n : r[y] <= g.rev
  BY <1>5, <1>6
<1>8. ASSUME NEW y \in 1..n, y + k <= n, Len(g.revs) = n PROVE r[y] = g.revs[y + k]
  <2>1. y + k \in 1..n
    BY <1>2, <1>8
  <2> QED  BY <1>4, <1>6, <1>8, <2>1
<1> QED  BY <1>6, <1>7, <1>8 DEF n, k, r

LEMMA MadeAtIs ==
  ASSUME NEW g, Ready(g), NEW t, Sound(t), NEW l \in LineCount
  PROVE  /\ MadeAt(g, t, l).styles \in Seq(Cell) /\ Starts(g.styles, MadeAt(g, t, l).styles)
         /\ Len(MadeAt(g, t, l).styles) > 0
         /\ MadeAt(g, t, l).rows \in Seq(Row) /\ Len(MadeAt(g, t, l).rows) = Height(t)
         /\ Encodes(MadeAt(g, t, l).styles, MadeAt(g, t, l).rows)
         /\ \A y \in 1..Height(t) :
              \/ MadeAt(g, t, l).styles[MadeAt(g, t, l).rows[y].cell + 1] = Viewport(t)[y]
              \/ /\ MadeAt(g, t, l).rows[y] = RowsAt(g, t, l)[y]
                 /\ ~FullAt(g, t, l) /\ y \notin t.dirty
<1> DEFINE shifted == RowsAt(g, t, l)
           full    == FullAt(g, t, l)
<1>1. g.styles \in Seq(Cell) /\ Len(g.styles) > 0 /\ Len(g.styles) \in Nat
  BY DEF Ready, Rendering
<1>2. shifted \in Seq(Row) /\ Len(shifted) = Height(t) /\ (full \/ Encodes(g.styles, shifted))
  BY RowsAtAre
<1>3. full \in BOOLEAN
  BY DEF FullAt, Ready, Rendering
<1>4. MadeAt(g, t, l) = Encoded(g, t, l, shifted, full)
  BY DEF MadeAt
<1> DEFINE made == MadeAt(g, t, l)
<1> HIDE DEF shifted, full, made
<1>5. /\ made.styles \in Seq(Cell) /\ Starts(g.styles, made.styles)
      /\ made.rows \in Seq(Row) /\ Len(made.rows) = Height(t)
      /\ Encodes(made.styles, made.rows)
      /\ \A y \in 1..Height(t) :
           \/ made.styles[made.rows[y].cell + 1] = Viewport(t)[y]
           \/ made.rows[y] = shifted[y] /\ ~full /\ y \notin t.dirty
  BY <1>1, <1>2, <1>3, <1>4, EncodedIs DEF made
<1>6. Len(made.styles) > 0
  BY <1>1, <1>5 DEF Starts
<1> QED  BY <1>5, <1>6 DEF made, shifted, full

Change(g, term, shifted, made) == made.rows # shifted \/ term # g.term

StampedLog(g, logged, scrolled) ==
  IF logged
  THEN Append(IF Len(g.log) = LogLen THEN Tail(g.log) ELSE g.log,
              [rev |-> g.rev + 1, scrolled |-> scrolled])
  ELSE g.log

(* What an update leaves of the grid, field by field.                      *)
Updated(g, h, l, scrolled, term, shifted, stamps, made) ==
  LET changed == Change(g, term, shifted, made)
      logged  == changed /\ scrolled > 0
  IN  /\ h.gen = g.gen /\ h.tgen = g.tgen /\ h.rendered = TRUE
      /\ h.rev = IF changed THEN g.rev + 1 ELSE g.rev
      /\ h.styles = made.styles /\ h.rows = made.rows /\ h.term = term
      /\ h.revs = [y \in DOMAIN made.rows |->
                     IF made.rows[y] # shifted[y] THEN g.rev + 1 ELSE stamps[y]]
      /\ h.log = StampedLog(g, logged, scrolled)
      /\ h.floor = IF logged /\ Len(g.log) = LogLen THEN Head(g.log).rev ELSE g.floor
      /\ h.termRevs = [f \in TermFields |-> IF term[f] # g.term[f] THEN g.rev + 1 ELSE g.termRevs[f]]
      /\ h.lines = [l EXCEPT !.moved = NotMoved] /\ h.full = FALSE /\ h.clears = g.clears
      /\ h = [gen |-> h.gen, rev |-> h.rev, rendered |-> h.rendered, tgen |-> h.tgen,
              styles |-> h.styles, rows |-> h.rows, revs |-> h.revs, log |-> h.log,
              floor |-> h.floor, term |-> h.term, termRevs |-> h.termRevs,
              lines |-> h.lines, clears |-> h.clears, full |-> h.full]

LEMMA StampedIs ==
  ASSUME NEW g \in Rendering, NEW l, NEW scrolled, NEW term, NEW shifted, NEW stamps, NEW made
  PROVE  Updated(g, Stamped(g, l, scrolled, term, shifted, stamps, made),
                 l, scrolled, term, shifted, stamps, made)
<1> DEFINE changed == Change(g, term, shifted, made)
           logged  == changed /\ scrolled > 0
           rev     == IF changed THEN g.rev + 1 ELSE g.rev
           revs    == [y \in DOMAIN made.rows |->
                         IF made.rows[y] # shifted[y] THEN g.rev + 1 ELSE stamps[y]]
           log     == StampedLog(g, logged, scrolled)
           floor   == IF logged /\ Len(g.log) = LogLen THEN Head(g.log).rev ELSE g.floor
           tr      == [f \in TermFields |-> IF term[f] # g.term[f] THEN g.rev + 1 ELSE g.termRevs[f]]
           lines   == [l EXCEPT !.moved = NotMoved]
           h       == Stamped(g, l, scrolled, term, shifted, stamps, made)
<1>1. h = [g EXCEPT !.rev = rev, !.rendered = TRUE, !.styles = made.styles, !.rows = made.rows,
                    !.revs = revs, !.log = log, !.floor = floor, !.term = term,
                    !.termRevs = tr, !.lines = lines, !.full = FALSE]
  <2>1. g = [gen |-> g.gen, rev |-> g.rev, rendered |-> g.rendered, tgen |-> g.tgen,
              styles |-> g.styles, rows |-> g.rows, revs |-> g.revs, log |-> g.log,
              floor |-> g.floor, term |-> g.term, termRevs |-> g.termRevs,
              lines |-> g.lines, clears |-> g.clears, full |-> g.full]
    BY DEF Rendering
  <2> QED  BY <2>1 DEF Stamped, StampedLog, Change
<1> HIDE DEF rev, revs, log, floor, tr, lines, h
<1>2. /\ h.gen = g.gen /\ h.tgen = g.tgen /\ h.rendered = TRUE /\ h.rev = rev
      /\ h.styles = made.styles /\ h.rows = made.rows /\ h.term = term /\ h.revs = revs
      /\ h.log = log /\ h.floor = floor /\ h.termRevs = tr /\ h.lines = lines
      /\ h.full = FALSE /\ h.clears = g.clears
  BY <1>1 DEF Rendering
<1>3. h = [gen |-> h.gen, rev |-> h.rev, rendered |-> h.rendered, tgen |-> h.tgen,
              styles |-> h.styles, rows |-> h.rows, revs |-> h.revs, log |-> h.log,
              floor |-> h.floor, term |-> h.term, termRevs |-> h.termRevs,
              lines |-> h.lines, clears |-> h.clears, full |-> h.full]
  BY <1>1 DEF Rendering
<1> QED  BY <1>2, <1>3 DEF Updated, h, rev, revs, log, floor, tr, lines

FloorOf(g, logged) == IF logged /\ Len(g.log) = LogLen THEN Head(g.log).rev ELSE g.floor

(* The entries of the log that stay.                                       *)
Kept(g) == IF Len(g.log) = LogLen THEN Tail(g.log) ELSE g.log

LEMMA KeptIs ==
  ASSUME NEW g, Ready(g)
  PROVE  /\ Kept(g) \in Seq(Entries) /\ Len(Kept(g)) < LogLen /\ Len(Kept(g)) \in Nat
         /\ FloorOf(g, TRUE) \in Nat /\ g.floor <= FloorOf(g, TRUE) /\ FloorOf(g, TRUE) <= g.rev
         /\ \A i \in 1..Len(Kept(g)) :
              FloorOf(g, TRUE) < Kept(g)[i].rev /\ Kept(g)[i].rev <= g.rev
         /\ \A i, j \in 1..Len(Kept(g)) : i < j => Kept(g)[i].rev < Kept(g)[j].rev
         /\ \A base \in Nat : base >= FloorOf(g, TRUE)
                                => ScrolledSince(Kept(g), base) = ScrolledSince(g.log, base)
<1>1. /\ g.log \in Seq(Entries) /\ Len(g.log) \in Nat /\ Len(g.log) <= LogLen /\ LogLen \in Nat
      /\ LogLen > 0 /\ g.floor \in Nat /\ g.rev \in Nat /\ g.floor <= g.rev
      /\ \A i \in 1..Len(g.log) : g.floor < g.log[i].rev /\ g.log[i].rev <= g.rev
      /\ \A i, j \in 1..Len(g.log) : i < j => g.log[i].rev < g.log[j].rev
  <2>1. g.log \in Seq(Entries) /\ g.floor \in Nat /\ g.rev \in Nat
    BY DEF Ready, Rendering, Entries
  <2>2. /\ Len(g.log) <= LogLen
        /\ \A i \in 1..Len(g.log) : g.floor < g.log[i].rev /\ g.log[i].rev <= g.rev
        /\ \A i, j \in 1..Len(g.log) : i < j => g.log[i].rev < g.log[j].rev
    BY DEF Ready, Logged
  <2>3. g.floor <= g.rev
    BY DEF Ready, Dated
  <2>4. LogLen \in Nat /\ LogLen > 0 /\ Len(g.log) \in Nat
    BY <2>1, GridAssumption
  <2> QED  BY <2>1, <2>2, <2>3, <2>4
<1>2. CASE Len(g.log) = LogLen
  <2> DEFINE u == Tail(g.log)
             f == Head(g.log).rev
  <2>1. Kept(g) = u /\ FloorOf(g, TRUE) = f
    BY <1>2 DEF Kept, FloorOf
  <2>2. g.log # <<>>
    BY <1>1, <1>2
  <2>3. /\ Head(g.log) = g.log[1] /\ u \in Seq(Entries) /\ Len(u) = Len(g.log) - 1
        /\ \A i \in 1..Len(g.log) - 1 : u[i] = g.log[i + 1]
    BY <1>1, <2>2, TailIs
  <2>4. g.log[1] \in Entries /\ 1 \in 1..Len(g.log)
    BY <1>1, <1>2
  <2>5. f \in Nat /\ g.floor <= f /\ f <= g.rev
    BY <1>1, <2>3, <2>4 DEF Entries
  <2>6. ASSUME NEW i \in 1..Len(u)
        PROVE  u[i] = g.log[i + 1] /\ i + 1 \in 1..Len(g.log) /\ f < u[i].rev /\ u[i].rev <= g.rev
    <3>1. u[i] = g.log[i + 1] /\ i + 1 \in 1..Len(g.log) /\ 1 < i + 1
      BY <1>1, <2>3
    <3> QED  BY <1>1, <2>3, <2>4, <3>1
  <2>7. ASSUME NEW i \in 1..Len(u), NEW j \in 1..Len(u), i < j PROVE u[i].rev < u[j].rev
    <3>1. i + 1 < j + 1
      BY <1>1, <2>3, <2>7
    <3> QED  BY <1>1, <2>6, <3>1
  <2>8. ASSUME NEW base \in Nat, base >= f PROVE ScrolledSince(u, base) = ScrolledSince(g.log, base)
    BY <1>1, <2>2, <2>5, <2>8, DroppedSince
  <2>9. Len(u) < LogLen /\ Len(u) \in Nat
    BY <1>1, <1>2, <2>3
  <2> HIDE DEF u, f
  <2> QED  BY <2>1, <2>3, <2>5, <2>6, <2>7, <2>8, <2>9
<1>3. CASE Len(g.log) # LogLen
  <2>1. Kept(g) = g.log /\ FloorOf(g, TRUE) = g.floor
    BY <1>3 DEF Kept, FloorOf
  <2>2. Len(g.log) < LogLen
    BY <1>1, <1>3
  <2>3. /\ g.floor <= g.floor
        /\ \A base \in Nat : base >= g.floor => ScrolledSince(g.log, base) = ScrolledSince(g.log, base)
    BY <1>1
  <2> QED  BY <1>1, <2>1, <2>2, <2>3, Zenon
<1> QED  BY <1>2, <1>3

LEMMA StampedLogIs ==
  ASSUME NEW g, Ready(g), NEW logged \in BOOLEAN, NEW scrolled \in Nat
  PROVE  LET log   == StampedLog(g, logged, scrolled)
             floor == FloorOf(g, logged)
             rev   == IF logged THEN g.rev + 1 ELSE g.rev
         IN  /\ log \in Seq(Entries) /\ Len(log) <= LogLen
             /\ floor \in Nat /\ g.floor <= floor /\ floor <= g.rev
             /\ \A i \in 1..Len(log) : floor < log[i].rev /\ log[i].rev <= rev
             /\ \A i, j \in 1..Len(log) : i < j => log[i].rev < log[j].rev
             /\ \A base \in Nat : base >= floor /\ base <= g.rev
                  => ScrolledSince(log, base)
                       = ScrolledSince(g.log, base) + (IF logged THEN scrolled ELSE 0)
<1>0. g.rev \in Nat /\ g.log \in Seq(Entries)
  BY DEF Ready, Rendering, Entries
<1>1. CASE logged
  <2> DEFINE u == Kept(g)
             f == FloorOf(g, TRUE)
             e == [rev |-> g.rev + 1, scrolled |-> scrolled]
             log == Append(u, e)
  <2>1. StampedLog(g, logged, scrolled) = log /\ FloorOf(g, logged) = f
    BY <1>1 DEF StampedLog, Kept
  <2>2. e \in Entries /\ e.rev = g.rev + 1 /\ e.scrolled = scrolled
    BY <1>0 DEF Entries
  <2> HIDE DEF u, e, f
  <2>3. /\ u \in Seq(Entries) /\ Len(u) < LogLen /\ Len(u) \in Nat /\ LogLen \in Nat
        /\ f \in Nat /\ g.floor <= f /\ f <= g.rev
        /\ \A i \in 1..Len(u) : f < u[i].rev /\ u[i].rev <= g.rev
        /\ \A i, j \in 1..Len(u) : i < j => u[i].rev < u[j].rev
        /\ \A base \in Nat : base >= f => ScrolledSince(u, base) = ScrolledSince(g.log, base)
    BY KeptIs, GridAssumption DEF u, f
  <2>4. log \in Seq(Entries) /\ Len(log) = Len(u) + 1 /\ log[Len(u) + 1] = e
        /\ \A i \in 1..Len(u) : log[i] = u[i]
    BY <2>2, <2>3, AppendIs
  <2>5. ASSUME NEW base \in Nat, base >= f, base <= g.rev
        PROVE  ScrolledSince(log, base) = ScrolledSince(g.log, base) + scrolled
    <3>1. ScrolledSince(log, base) = ScrolledSince(u, base) + (IF e.rev > base THEN e.scrolled ELSE 0)
      BY <2>2, <2>3, OneMoreSince
    <3>2. e.rev > base
      BY <1>0, <2>2, <2>5
    <3> QED  BY <2>2, <2>3, <2>5, <3>1, <3>2
  <2> HIDE DEF log
  <2>6. Len(log) <= LogLen
    BY <2>3, <2>4
  <2>7. ASSUME NEW i \in 1..Len(log) PROVE f < log[i].rev /\ log[i].rev <= g.rev + 1
    <3>1. CASE i = Len(u) + 1
      BY <1>0, <2>2, <2>3, <2>4, <3>1
    <3>2. CASE i \in 1..Len(u)
      <4>1. log[i] = u[i] /\ u[i].rev \in Nat
        BY <2>3, <2>4, <3>2, EntryIs
      <4> QED  BY <1>0, <2>3, <3>2, <4>1
    <3> QED  BY <2>3, <2>4, <3>1, <3>2
  <2>8. ASSUME NEW i \in 1..Len(log), NEW j \in 1..Len(log), i < j PROVE log[i].rev < log[j].rev
    <3>0. i \in 1..Len(u) /\ i \in Int /\ j \in Int
      BY <2>3, <2>4, <2>8
    <3>1. log[i] = u[i] /\ u[i].rev \in Nat /\ u[i].rev <= g.rev
      BY <2>3, <2>4, <3>0, EntryIs
    <3>2. CASE j = Len(u) + 1
      BY <1>0, <2>2, <2>4, <3>1, <3>2
    <3>3. CASE j \in 1..Len(u)
      BY <2>3, <2>4, <2>8, <3>0, <3>1, <3>3
    <3> QED  BY <2>3, <2>4, <3>2, <3>3
  <2> QED  BY <1>1, <2>1, <2>3, <2>4, <2>5, <2>6, <2>7, <2>8
<1>2. CASE ~logged
  <2>1. StampedLog(g, logged, scrolled) = g.log /\ FloorOf(g, logged) = g.floor
    BY <1>2 DEF StampedLog, FloorOf
  <2>2. /\ g.floor \in Nat /\ g.floor <= g.rev /\ Len(g.log) <= LogLen
        /\ \A i \in 1..Len(g.log) : g.floor < g.log[i].rev /\ g.log[i].rev <= g.rev
        /\ \A i, j \in 1..Len(g.log) : i < j => g.log[i].rev < g.log[j].rev
    BY DEF Ready, Rendering, Logged, Dated
  <2>3. \A base \in Nat : ScrolledSince(g.log, base) = ScrolledSince(g.log, base) + 0
    <3>1. \A base \in Nat : ScrolledSince(g.log, base) \in Nat
      BY <1>0, ScrolledNat
    <3> QED  BY <3>1
  <2>4. g.floor <= g.floor
    BY <2>2
  <2> QED  BY <1>0, <1>2, <2>1, <2>2, <2>3, <2>4, Zenon
<1> QED  BY <1>1, <1>2

(* Where an update starts: the grid, and the lines counted against t.      *)
Drawing(g, t, l) ==
  /\ Ready(g) /\ Sound(t) /\ l \in LineCount /\ Counts(l, g.term, g.rendered)
  /\ t.screen = "Primary" => Aligned(l, t)
  /\ g.rendered /\ Height(t) # g.term.size => l.moved.newEpoch

ChangeAt(g, t, l) == Change(g, TermAt(t, l), RowsAt(g, t, l), MadeAt(g, t, l))
LoggedAt(g, t, l) == ChangeAt(g, t, l) /\ ScrolledBy(g, t, l) > 0

LEMMA TermAtIs ==
  ASSUME NEW t, Sound(t), NEW l \in LineCount
  PROVE  /\ TermAt(t, l) \in Term /\ TermAt(t, l).size = Height(t) /\ TermAt(t, l).screen = t.screen
         /\ TermAt(t, l).epoch = l.epoch /\ TermAt(t, l).top = l.top
<1>1. Height(t) \in Nat /\ t.screen \in Screens
  BY DEF Sound, Terminal, Height
<1> QED  BY <1>1 DEF TermAt, Term, LineCount

LEMMA UpdateAtFields ==
  ASSUME NEW g, NEW t, NEW l, Drawing(g, t, l)
  PROVE  Updated(g, UpdateAt(g, t, l), l, ScrolledBy(g, t, l), TermAt(t, l), RowsAt(g, t, l),
                 StampsAt(g, t, l), MadeAt(g, t, l))
BY UpdateAtIs, StampedIs DEF Drawing, Ready

LEMMA UpdateAtLog ==
  ASSUME NEW g, NEW t, NEW l, Drawing(g, t, l)
  PROVE  LET h == UpdateAt(g, t, l)
         IN  /\ h.log = StampedLog(g, LoggedAt(g, t, l), ScrolledBy(g, t, l))
             /\ h.floor = FloorOf(g, LoggedAt(g, t, l))
             /\ h.rev = IF ChangeAt(g, t, l) THEN g.rev + 1 ELSE g.rev
<1>1. Updated(g, UpdateAt(g, t, l), l, ScrolledBy(g, t, l), TermAt(t, l), RowsAt(g, t, l),
              StampsAt(g, t, l), MadeAt(g, t, l))
  BY UpdateAtFields
<1> QED  BY <1>1, Zenon DEF Updated, FloorOf, LoggedAt, ChangeAt

LEMMA StillIs ==
  ASSUME NEW l \in LineCount
  PROVE  LET k == [l EXCEPT !.moved = NotMoved]
         IN  /\ k \in LineCount /\ k.moved = NotMoved /\ k.h = l.h /\ k.anchor = l.anchor
             /\ k.top = l.top /\ k.epoch = l.epoch
             /\ k.moved.scrolled = 0 /\ ~k.moved.newEpoch
BY DEF LineCount, NotMoved

LEMMA UpdateAtRevs ==
  ASSUME NEW g, NEW t, NEW l, Drawing(g, t, l)
  PROVE  LET h == UpdateAt(g, t, l)
         IN  /\ h.rows = MadeAt(g, t, l).rows /\ h.rows \in Seq(Row) /\ Len(h.rows) = Height(t)
             /\ h.revs \in Seq(Nat) /\ Len(h.revs) = Height(t)
             /\ \A y \in 1..Height(t) :
                  \/ h.rows[y] # RowsAt(g, t, l)[y] /\ h.revs[y] = g.rev + 1 /\ ChangeAt(g, t, l)
                  \/ h.rows[y] = RowsAt(g, t, l)[y] /\ h.revs[y] = StampsAt(g, t, l)[y]
                     /\ h.revs[y] <= g.rev
<1> DEFINE h       == UpdateAt(g, t, l)
           n       == Height(t)
           made    == MadeAt(g, t, l)
           shifted == RowsAt(g, t, l)
           stamps  == StampsAt(g, t, l)
<1>1. h.rows = made.rows /\ h.revs = [y \in DOMAIN made.rows |->
                                        IF made.rows[y] # shifted[y] THEN g.rev + 1 ELSE stamps[y]]
  <2>1. Updated(g, h, l, ScrolledBy(g, t, l), TermAt(t, l), RowsAt(g, t, l), StampsAt(g, t, l),
              MadeAt(g, t, l))
    BY UpdateAtFields
  <2> QED  BY <2>1, Zenon DEF Updated
<1>2. Ready(g) /\ Sound(t) /\ l \in LineCount /\ g.rev \in Nat /\ g \in Rendering
  BY DEF Drawing, Ready, Rendering
<1>3. made.rows \in Seq(Row) /\ Len(made.rows) = n /\ n \in Nat
  BY <1>2, MadeAtIs, ScrolledByIs
<1>4. stamps \in Seq(Nat) /\ Len(stamps) = n /\ \A y \in 1..n : stamps[y] <= g.rev
  BY <1>2, StampsAtAre
<1>5. made.rows # shifted => ChangeAt(g, t, l)
  BY DEF ChangeAt, Change
<1> HIDE DEF h, n, made, shifted, stamps
<1>6. DOMAIN made.rows = 1..n
  BY <1>3
<1>7. \A y \in 1..n : h.revs[y] = IF made.rows[y] # shifted[y] THEN g.rev + 1 ELSE stamps[y]
  BY <1>1, <1>6
<1>8. ASSUME NEW y \in 1..n
      PROVE  /\ h.revs[y] \in Nat
             /\ \/ h.rows[y] # shifted[y] /\ h.revs[y] = g.rev + 1 /\ ChangeAt(g, t, l)
                \/ h.rows[y] = shifted[y] /\ h.revs[y] = stamps[y] /\ h.revs[y] <= g.rev
  <2>1. stamps[y] \in Nat /\ g.rev + 1 \in Nat
    BY <1>2, <1>4
  <2>2. CASE made.rows[y] # shifted[y]
    BY <1>1, <1>5, <1>7, <2>1, <2>2
  <2>3. CASE made.rows[y] = shifted[y]
    BY <1>1, <1>4, <1>7, <2>1, <2>3
  <2> QED  BY <2>2, <2>3
<1>9. h.revs = [y \in 1..n |-> h.revs[y]]
  BY <1>1, <1>6
<1>10. h.revs \in Seq(Nat) /\ Len(h.revs) = n
  BY <1>3, <1>8, <1>9, ListIs
<1> QED  BY <1>1, <1>3, <1>8, <1>10 DEF h, n, made, shifted, stamps

LEMMA UpdateAtTerm ==
  ASSUME NEW g, NEW t, NEW l, Drawing(g, t, l)
  PROVE  LET h == UpdateAt(g, t, l)
         IN  /\ h.term = TermAt(t, l) /\ h.term \in Term /\ h.termRevs \in [TermFields -> Nat]
             /\ \A f \in TermFields :
                  \/ h.term[f] # g.term[f] /\ h.termRevs[f] = g.rev + 1 /\ ChangeAt(g, t, l)
                  \/ h.term[f] = g.term[f] /\ h.termRevs[f] = g.termRevs[f]
                     /\ h.termRevs[f] <= g.rev
<1> DEFINE h    == UpdateAt(g, t, l)
           term == TermAt(t, l)
<1>1. h.term = term /\ h.termRevs = [f \in TermFields |->
                                       IF term[f] # g.term[f] THEN g.rev + 1 ELSE g.termRevs[f]]
  <2>1. Updated(g, h, l, ScrolledBy(g, t, l), TermAt(t, l), RowsAt(g, t, l), StampsAt(g, t, l),
              MadeAt(g, t, l))
    BY UpdateAtFields
  <2> QED  BY <2>1, Zenon DEF Updated
<1>2. Sound(t) /\ l \in LineCount /\ g.rev \in Nat /\ g.termRevs \in [TermFields -> Nat]
      /\ \A f \in TermFields : g.termRevs[f] <= g.rev
  BY DEF Drawing, Ready, Rendering, Dated
<1>3. term \in Term
  BY <1>2, TermAtIs
<1>4. term # g.term => ChangeAt(g, t, l)
  BY DEF ChangeAt, Change
<1> HIDE DEF h, term
<1>5. ASSUME NEW f \in TermFields
      PROVE  /\ h.termRevs[f] \in Nat
             /\ \/ h.term[f] # g.term[f] /\ h.termRevs[f] = g.rev + 1 /\ ChangeAt(g, t, l)
                \/ h.term[f] = g.term[f] /\ h.termRevs[f] = g.termRevs[f]
                   /\ h.termRevs[f] <= g.rev
  <2>1. g.termRevs[f] \in Nat /\ g.rev + 1 \in Nat
    BY <1>2
  <2>2. CASE term[f] # g.term[f]
    BY <1>1, <1>4, <2>1, <2>2
  <2>3. CASE term[f] = g.term[f]
    BY <1>1, <1>2, <2>1, <2>3
  <2> QED  BY <2>2, <2>3
<1>6. h.termRevs = [f \in TermFields |-> h.termRevs[f]]
  BY <1>1
<1>7. h.termRevs \in [TermFields -> Nat]
  BY <1>5, <1>6
<1> QED  BY <1>1, <1>3, <1>5, <1>7 DEF h, term

LEMMA UpdateAtSane ==
  ASSUME NEW g, NEW t, NEW l, Drawing(g, t, l)
  PROVE  LET h == UpdateAt(g, t, l)
         IN  /\ GridSane(h) /\ h.rendered /\ h.gen = g.gen /\ h.tgen = g.tgen
             /\ h.lines = [l EXCEPT !.moved = NotMoved]
             /\ Starts(g.styles, h.styles)
<1> DEFINE h      == UpdateAt(g, t, l)
           change == ChangeAt(g, t, l)
<1>0. Updated(g, h, l, ScrolledBy(g, t, l), TermAt(t, l), RowsAt(g, t, l), StampsAt(g, t, l),
              MadeAt(g, t, l))
  BY UpdateAtFields
<1>1. /\ h.gen = g.gen /\ h.tgen = g.tgen /\ h.rendered = TRUE /\ h.styles = MadeAt(g, t, l).styles
      /\ h.rows = MadeAt(g, t, l).rows
      /\ h.lines = [l EXCEPT !.moved = NotMoved] /\ h.full = FALSE /\ h.clears = g.clears
  BY <1>0, Zenon DEF Updated
<1>2. h = [gen |-> h.gen, rev |-> h.rev, rendered |-> h.rendered, tgen |-> h.tgen,
           styles |-> h.styles, rows |-> h.rows, revs |-> h.revs, log |-> h.log,
           floor |-> h.floor, term |-> h.term, termRevs |-> h.termRevs,
           lines |-> h.lines, clears |-> h.clears, full |-> h.full]
  BY <1>0, Zenon DEF Updated
<1>3. Ready(g) /\ Sound(t) /\ l \in LineCount /\ g \in Rendering /\ g.rev \in Nat
      /\ g.gen \in Nat /\ g.tgen \in Nat /\ g.clears \in Nat \cup {Never}
  BY DEF Drawing, Ready, Rendering
<1>4. /\ h.log = StampedLog(g, LoggedAt(g, t, l), ScrolledBy(g, t, l))
      /\ h.floor = FloorOf(g, LoggedAt(g, t, l))
      /\ h.rev = IF change THEN g.rev + 1 ELSE g.rev
  BY UpdateAtLog
<1>5. /\ h.rows \in Seq(Row) /\ Len(h.rows) = Height(t)
      /\ h.revs \in Seq(Nat) /\ Len(h.revs) = Height(t)
      /\ \A y \in 1..Height(t) : (h.revs[y] = g.rev + 1 /\ change) \/ h.revs[y] <= g.rev
  BY UpdateAtRevs
<1>6. /\ h.term = TermAt(t, l) /\ h.term \in Term /\ h.termRevs \in [TermFields -> Nat]
      /\ \A f \in TermFields : (h.termRevs[f] = g.rev + 1 /\ change) \/ h.termRevs[f] <= g.rev
  BY UpdateAtTerm
<1>7. /\ h.styles \in Seq(Cell) /\ Starts(g.styles, h.styles) /\ Len(h.styles) > 0
      /\ Encodes(h.styles, h.rows)
  BY <1>1, <1>3, MadeAtIs
<1>8. LoggedAt(g, t, l) \in BOOLEAN /\ (LoggedAt(g, t, l) => change) /\ change \in BOOLEAN
      /\ ScrolledBy(g, t, l) \in Nat
  BY <1>3, ScrolledByIs DEF LoggedAt, ChangeAt, Change
<1>9. h.lines \in LineCount /\ h.lines.moved = NotMoved /\ h.lines.h = l.h
      /\ h.lines.top = l.top /\ h.lines.epoch = l.epoch
      /\ h.lines.moved.scrolled = 0 /\ ~h.lines.moved.newEpoch
  BY <1>1, <1>3, StillIs
<1>10. h.term.size = Height(t) /\ h.term.screen = t.screen /\ h.term.epoch = l.epoch
       /\ h.term.top = l.top
  BY <1>3, <1>6, TermAtIs
<1>11. t.screen = "Primary" => l.h # Never
  BY TerminalIs DEF Drawing, Aligned, Never
<1> HIDE DEF h, change
<1>12. h.rev \in Nat /\ g.rev <= h.rev /\ (change => h.rev = g.rev + 1)
  BY <1>3, <1>4
<1> DEFINE logged == LoggedAt(g, t, l)
           rev    == IF logged THEN g.rev + 1 ELSE g.rev
<1>13. /\ h.log \in Seq(Entries) /\ Len(h.log) <= LogLen
       /\ h.floor \in Nat /\ h.floor <= g.rev
       /\ \A i \in 1..Len(h.log) : h.floor < h.log[i].rev /\ h.log[i].rev <= rev
       /\ \A i, j \in 1..Len(h.log) : i < j => h.log[i].rev < h.log[j].rev
  BY <1>3, <1>4, <1>8, StampedLogIs
<1>14. rev \in Nat /\ rev <= h.rev
  BY <1>3, <1>8, <1>12
<1> HIDE DEF rev, logged
<1>15. Logged(h)
  <2> SUFFICES ASSUME NEW i \in 1..Len(h.log) PROVE h.log[i].rev <= h.rev
    BY <1>13 DEF Logged
  <2>1. h.log[i].rev \in Nat /\ h.log[i].rev <= rev
    BY <1>13, EntryIs
  <2> QED  BY <1>12, <1>14, <2>1
<1>16. Dated(h)
  <2>1. h.floor <= h.rev
    BY <1>3, <1>12, <1>13
  <2>2. ASSUME NEW y \in 1..Len(h.revs) PROVE h.revs[y] <= h.rev
    <3>1. h.revs[y] \in Nat /\ ((h.revs[y] = g.rev + 1 /\ change) \/ h.revs[y] <= g.rev)
      BY <1>5
    <3> QED  BY <1>3, <1>12, <3>1
  <2>3. ASSUME NEW f \in TermFields PROVE h.termRevs[f] <= h.rev
    <3>1. h.termRevs[f] \in Nat /\ ((h.termRevs[f] = g.rev + 1 /\ change) \/ h.termRevs[f] <= g.rev)
      BY <1>6
    <3> QED  BY <1>3, <1>12, <3>1
  <2> QED  BY <2>1, <2>2, <2>3 DEF Dated
<1>17. Counts(h.lines, h.term, h.rendered)
  <2>1. l.top \in Nat /\ h.lines.top = h.term.top + h.lines.moved.scrolled
    BY <1>3, <1>9, <1>10 DEF LineCount
  <2> QED  BY <1>9, <1>10, <1>11, <2>1 DEF Counts
<1>18. h \in Rendering
  <2>1. h.log \in Seq([rev : Nat, scrolled : Nat])
    BY <1>13 DEF Entries
  <2> QED  BY <1>1, <1>2, <1>3, <1>5, <1>6, <1>7, <1>9, <1>12, <1>13, <2>1 DEF Rendering
<1>19. GridSane(h)
  BY <1>5, <1>7, <1>10, <1>15, <1>16, <1>17, <1>18 DEF GridSane
<1> QED  BY <1>1, <1>7, <1>19 DEF h

LEMMA UpdateAtKeeps ==
  ASSUME NEW g, NEW t, NEW l, Drawing(g, t, l)
  PROVE  /\ GridSane(UpdateAt(g, t, l)) /\ UpdateAt(g, t, l).gen = g.gen
         /\ UpdateAt(g, t, l).tgen = g.tgen /\ Starts(g.styles, UpdateAt(g, t, l).styles)
<1>1. GridSane(UpdateAt(g, t, l))
  BY UpdateAtSane, Zenon
<1>2. Updated(g, UpdateAt(g, t, l), l, ScrolledBy(g, t, l), TermAt(t, l), RowsAt(g, t, l),
              StampsAt(g, t, l), MadeAt(g, t, l))
  BY UpdateAtFields
<1>3. UpdateAt(g, t, l).gen = g.gen /\ UpdateAt(g, t, l).tgen = g.tgen
  BY <1>2, Zenon DEF Updated
<1>4. Starts(g.styles, UpdateAt(g, t, l).styles)
  BY UpdateAtSane, Zenon
<1> QED  BY <1>1, <1>2, <1>3, <1>4

LEMMA UpdateDraws ==
  ASSUME NEW t, Sound(t), NEW g, GridSane(g)
  PROVE  /\ Update(g, t) = UpdateAt(Readied(g, t), t, LinesAt(g, t))
         /\ Drawing(Readied(g, t), t, LinesAt(g, t))
<1> DEFINE o == Readied(g, t)
           l == LinesAt(g, t)
<1>1. Update(g, t) = UpdateAt(o, t, l)
  BY DEF Update, Readied
<1>2. Ready(o) /\ SameBut(g, o)
  BY ReadiedIs
<1>3. LinesFine(g.lines, l, t, g.term, g.rendered)
      /\ (g.rendered /\ Height(t) # g.term.size => l.moved.newEpoch)
  BY LinesAtIs
<1> HIDE DEF o, l
<1>4. o.term = g.term /\ o.rendered = g.rendered
  BY <1>2 DEF SameBut
<1>5. Drawing(o, t, l)
  BY <1>2, <1>3, <1>4 DEF Drawing, LinesFine
<1> QED  BY <1>1, <1>5 DEF o, l

(* A row an update does not read stands in the cache as the terminal shows  *)
(* it, as far down as the cache is shifted.                                 *)
LEMMA UnreadStands ==
  ASSUME NEW t, Sound(t), NEW g, GridSane(g), Faithful(g, t),
         ~FullAt(Readied(g, t), t, LinesAt(g, t)),
         NEW y \in 1..Height(t), y \notin t.dirty
  PROVE  LET o == Readied(g, t)
             k == ShiftAt(o, t, LinesAt(g, t))
         IN  /\ y + k <= Height(t) /\ y + k \in 1..Len(o.rows) /\ Len(o.rows) = Height(t)
             /\ o.rows[y + k].cell + 1 \in 1..Len(o.styles)
             /\ o.styles[o.rows[y + k].cell + 1] = Viewport(t)[y]
<1> DEFINE o == Readied(g, t)
           l == LinesAt(g, t)
           k == ShiftAt(o, t, l)
           n == Height(t)
           h == [g EXCEPT !.lines = l, !.clears = t.clears]
<1>1. /\ ~o.full /\ Len(o.rows) = n /\ o.rendered /\ ~l.moved.newEpoch /\ t.screen = o.term.screen
      /\ ShiftKnown(o, t, l)
  BY DEF FullAt, ShiftKnown
<1>2. Ready(o) /\ o = [g EXCEPT !.clears = t.clears]
  BY <1>1, ReadiedIs
<1>3. LinesFine(g.lines, l, t, g.term, g.rendered)
  BY LinesAtIs
<1> HIDE DEF l, o
<1>4. g \in Rendering /\ t.clears \in Nat /\ l \in LineCount
  BY <1>3, TerminalIs DEF GridSane, LinesFine
<1>5. /\ h.styles = g.styles /\ h.lines = l /\ h.clears = t.clears /\ h.rows = g.rows
      /\ h.rendered = g.rendered /\ h.full = g.full /\ h.term = g.term
  BY <1>4 DEF Rendering
<1>6. Grown(g, h)
  <2>1. h = [g EXCEPT !.styles = h.styles, !.lines = h.lines, !.clears = h.clears]
    BY <1>4, <1>5 DEF Rendering
  <2>2. g.styles \in Seq(Cell)
    BY <1>4 DEF Rendering
  <2> HIDE DEF h
  <2> QED  BY <1>4, <1>5, <2>1, <2>2, StartsSelf DEF Grown
<1>7. /\ o.rows = g.rows /\ o.styles = g.styles /\ o.rendered = g.rendered /\ o.full = g.full
      /\ o.term = g.term
  BY <1>2, <1>4 DEF Rendering
<1> HIDE DEF h
<1>8. Faithful(h, t)
  <2>1. LinesFine(g.lines, h.lines, t, g.term, g.rendered)
    BY <1>3, <1>5
  <2> QED  BY <1>6, <2>1, CountedFaithful
<1>9. Carries(h, t)
  BY <1>1, <1>5, <1>7 DEF Carries
<1>10. /\ k \in Nat /\ k <= n /\ n \in Nat /\ k <= ScrolledBy(o, t, l) /\ k \in {ScrolledBy(o, t, l), n}
       /\ ScrolledBy(o, t, l) \in Nat
  BY <1>2, <1>4, ScrolledByIs DEF Ready
<1> HIDE DEF k
<1>11. Shown(h, y + k, Viewport(t)[y])
  <2>1. CASE t.screen = "Primary"
    <3>1. Aligned(l, t) /\ FirstRow(t) \in Nat
      BY <1>3, <2>1, TerminalIs DEF LinesFine
    <3>2. ScrolledBy(o, t, l) = l.moved.scrolled
      BY <1>1, <2>1 DEF ScrolledBy
    <3>3. Drift(h, t) = ScrolledBy(o, t, l)
      BY <1>5, <1>10, <3>1, <3>2 DEF Drift, Aligned
    <3>4. Shown(h, y + ScrolledBy(o, t, l), t.prim[y])
      BY <1>8, <1>9, <2>1, <3>3, Zenon DEF Faithful, n
    <3>5. y + ScrolledBy(o, t, l) <= n
      <4>1. y + ScrolledBy(o, t, l) \in 1..Len(h.rows)
        BY <3>4 DEF Shown
      <4> QED  BY <1>1, <1>5, <1>7, <1>10, <4>1
    <3>6. k = ScrolledBy(o, t, l)
      BY <1>10, <3>5
    <3>7. Viewport(t)[y] = t.prim[y]
      BY <2>1 DEF Viewport
    <3> QED  BY <3>4, <3>6, <3>7
  <2>2. CASE t.screen # "Primary"
    <3>1. ScrolledBy(o, t, l) = 0
      BY <2>2 DEF ScrolledBy
    <3>2. k = 0
      BY <1>10, <3>1
    <3>3. Shown(h, y, t.alt[y])
      BY <1>8, <1>9, <2>2, Zenon DEF Faithful, n
    <3>4. Viewport(t)[y] = t.alt[y] /\ y + k = y
      BY <2>2, <3>2 DEF Viewport
    <3> QED  BY <3>3, <3>4
  <2> QED  BY <2>1, <2>2
<1>12. y + k \in 1..Len(g.rows) /\ CellOf(h, y + k) = Viewport(t)[y]
  BY <1>5, <1>11 DEF Shown
<1>13. o.styles[o.rows[y + k].cell + 1] = Viewport(t)[y]
  BY <1>5, <1>7, <1>12 DEF CellOf
<1>14. o.rows[y + k].cell + 1 \in 1..Len(o.styles)
  <2>1. g.rows[y + k] \in Row /\ g.rows[y + k].cell < Len(g.styles) /\ Len(g.styles) \in Nat
    BY <1>4, <1>12 DEF GridSane, Rendering, Encodes
  <2> QED  BY <1>7, <2>1 DEF Row
<1>15. y + k <= n
  BY <1>1, <1>7, <1>10, <1>12
<1> QED  BY <1>1, <1>7, <1>12, <1>13, <1>14, <1>15 DEF n, k, l, o

LEMMA UpdateShows ==
  ASSUME NEW t, Sound(t), NEW g, GridSane(g), Faithful(g, t)
  PROVE  Shows(Update(g, t), t)
<1> DEFINE o    == Readied(g, t)
           l    == LinesAt(g, t)
           n    == Height(t)
           h    == Update(g, t)
           made == MadeAt(o, t, l)
<1>1. h = UpdateAt(o, t, l) /\ Drawing(o, t, l)
  BY UpdateDraws
<1>2. h.rendered /\ h.rows = made.rows /\ h.styles = made.styles /\ h.term = TermAt(t, l)
  <2>1. Updated(o, UpdateAt(o, t, l), l, ScrolledBy(o, t, l), TermAt(t, l), RowsAt(o, t, l),
                StampsAt(o, t, l), MadeAt(o, t, l))
    BY <1>1, UpdateAtFields
  <2> QED  BY <1>1, <2>1, Zenon DEF Updated
<1>3. Ready(o) /\ l \in LineCount
  BY <1>1 DEF Drawing
<1>4. /\ made.styles \in Seq(Cell) /\ Starts(o.styles, made.styles)
      /\ made.rows \in Seq(Row) /\ Len(made.rows) = n
      /\ \A y \in 1..n :
           \/ made.styles[made.rows[y].cell + 1] = Viewport(t)[y]
           \/ made.rows[y] = RowsAt(o, t, l)[y] /\ ~FullAt(o, t, l) /\ y \notin t.dirty
  BY <1>3, MadeAtIs
<1>5. ASSUME NEW y \in 1..n PROVE made.styles[made.rows[y].cell + 1] = Viewport(t)[y]
  <2>1. SUFFICES ASSUME made.rows[y] = RowsAt(o, t, l)[y], ~FullAt(o, t, l), y \notin t.dirty
                 PROVE  made.styles[made.rows[y].cell + 1] = Viewport(t)[y]
    BY <1>4
  <2> DEFINE k == ShiftAt(o, t, l)
             i == o.rows[y + k].cell + 1
  <2>2. /\ y + k <= n /\ y + k \in 1..Len(o.rows) /\ Len(o.rows) = n
        /\ i \in 1..Len(o.styles) /\ o.styles[i] = Viewport(t)[y]
    BY <2>1, UnreadStands
  <2>3. RowsAt(o, t, l)[y] = RowAt(o.rows, y + k)
    BY <1>3, <2>2, RowsAtAre
  <2> HIDE DEF k, o, l, n, made
  <2>4. RowAt(o.rows, y + k) = o.rows[y + k]
    BY <2>2 DEF RowAt
  <2>5. made.styles[i] = o.styles[i]
    BY <1>4, <2>2 DEF Starts
  <2> QED  BY <2>1, <2>2, <2>3, <2>4, <2>5
<1>6. TermAt(t, l).screen = t.screen
  BY <1>3, TermAtIs
<1> HIDE DEF h, made, o, l
<1>7. \A y \in 1..n : CellOf(h, y) = Viewport(t)[y]
  BY <1>2, <1>5 DEF CellOf
<1>8. Shows(h, t)
  BY <1>2, <1>4, <1>6, <1>7 DEF Shows
<1> QED  BY <1>8 DEF h

LEMMA CleanIs ==
  ASSUME NEW t, Sound(t)
  PROVE  /\ Sound(Clean(t)) /\ Clean(t).dirty = {} /\ Clean(t).screen = t.screen
         /\ Clean(t).prim = t.prim /\ Clean(t).alt = t.alt /\ Clean(t).hist = t.hist
         /\ Clean(t).first = t.first /\ Clean(t).clears = t.clears
         /\ Height(Clean(t)) = Height(t) /\ Viewport(Clean(t)) = Viewport(t)
         /\ FirstRow(Clean(t)) = FirstRow(t)
<1>1. Clean(t) = [t EXCEPT !.dirty = {}] /\ t \in Terminal
  BY DEF Clean, Sound
<1>2. /\ Clean(t) \in Terminal /\ Clean(t).dirty = {} /\ Clean(t).screen = t.screen
      /\ Clean(t).prim = t.prim /\ Clean(t).alt = t.alt /\ Clean(t).hist = t.hist
      /\ Clean(t).first = t.first /\ Clean(t).clears = t.clears
  BY <1>1 DEF Terminal
<1>3. Sound(Clean(t))
  BY <1>2 DEF Sound
<1> QED  BY <1>2, <1>3 DEF Height, Viewport, FirstRow

LEMMA ShowsClean ==
  ASSUME NEW t, Sound(t), NEW g, Shows(g, t)
  PROVE  Shows(g, Clean(t))
BY CleanIs DEF Shows

(* A grid that shows the terminal, its lines counted, is faithful to it.    *)
LEMMA ShowsFaithful ==
  ASSUME NEW t, Sound(t), NEW g, GridSane(g), Shows(g, t), g.lines.moved.scrolled = 0,
         t.screen = "Primary" => Aligned(g.lines, t)
  PROVE  Faithful(g, t)
<1> SUFFICES ASSUME NEW y \in (1..Height(t)) \ t.dirty
             PROVE  IF t.screen = "Primary"
                    THEN /\ g.lines.anchor # Never /\ g.lines.anchor <= FirstRow(t)
                         /\ Shown(g, y + Drift(g, t), t.prim[y])
                    ELSE Shown(g, y, t.alt[y])
  BY DEF Faithful
<1>1. y \in 1..Len(g.rows) /\ CellOf(g, y) = Viewport(t)[y]
  BY DEF Shows
<1>2. Shown(g, y, Viewport(t)[y])
  BY <1>1 DEF Shown
<1>3. CASE t.screen = "Primary"
  <2>1. g.lines.anchor = FirstRow(t) /\ FirstRow(t) \in Nat
    BY <1>3, TerminalIs DEF Aligned
  <2>2. Drift(g, t) = 0
    BY <2>1 DEF Drift
  <2>3. g.lines.anchor # Never /\ g.lines.anchor <= FirstRow(t)
    BY <2>1 DEF Never
  <2>4. y + Drift(g, t) = y
    BY <2>2
  <2>5. Viewport(t)[y] = t.prim[y]
    BY <1>3 DEF Viewport
  <2> QED  BY <1>2, <1>3, <2>3, <2>4, <2>5
<1>4. CASE t.screen # "Primary"
  <2>1. Viewport(t)[y] = t.alt[y]
    BY <1>4 DEF Viewport
  <2> QED  BY <1>2, <1>4, <2>1
<1> QED  BY <1>3, <1>4

(* An update leaves the grid at what the terminal shows.                   *)
LEMMA UpdateFine ==
  ASSUME NEW t, Sound(t), NEW g, GridSane(g), Faithful(g, t)
  PROVE  /\ GridSane(Update(g, t)) /\ Update(g, t).rendered /\ Update(g, t).gen = g.gen
         /\ Shows(Update(g, t), Clean(t)) /\ Faithful(Update(g, t), Clean(t))
<1> DEFINE o == Readied(g, t)
           l == LinesAt(g, t)
           h == Update(g, t)
           e == Clean(t)
<1>1. h = UpdateAt(o, t, l) /\ Drawing(o, t, l)
  BY UpdateDraws
<1>2. GridSane(h) /\ h.rendered /\ h.gen = o.gen /\ h.lines = [l EXCEPT !.moved = NotMoved]
  BY <1>1, UpdateAtSane
<1>3. o.gen = g.gen
  BY ReadiedIs DEF SameBut
<1>4. Shows(h, e)
  BY UpdateShows, ShowsClean
<1>5. l \in LineCount /\ (t.screen = "Primary" => Aligned(l, t))
  BY <1>1 DEF Drawing
<1>6. h.lines.moved.scrolled = 0 /\ h.lines.h = l.h /\ h.lines.anchor = l.anchor
  BY <1>2, <1>5, StillIs
<1>7. Sound(e) /\ e.screen = t.screen /\ FirstRow(e) = FirstRow(t) /\ e.hist = t.hist
  BY CleanIs
<1>8. e.screen = "Primary" => Aligned(h.lines, e)
  BY <1>5, <1>6, <1>7 DEF Aligned
<1> HIDE DEF h, e
<1>9. Faithful(h, e)
  BY <1>2, <1>4, <1>6, <1>7, <1>8, ShowsFaithful
<1> QED  BY <1>2, <1>3, <1>4, <1>9 DEF h, e

LEMMA NewGridFine ==
  ASSUME NEW n \in Nat
  PROVE  /\ GridSane(NewGrid(n)) /\ NewGrid(n).gen = n /\ ~NewGrid(n).rendered
         /\ \A t : Faithful(NewGrid(n), t)
<1> DEFINE g == NewGrid(n)
<1>1. /\ g.gen = n /\ g.rendered = FALSE /\ g.rev = 0 /\ g.floor = 0 /\ g.rows = <<>> /\ g.revs = <<>>
      /\ g.log = <<>> /\ g.styles = <<Blank>> /\ g.lines = NewLines
      /\ g.termRevs = [f \in TermFields |-> 0]
      /\ g.term = [size |-> 0, screen |-> "Primary", epoch |-> 0, top |-> 0]
  BY DEF NewGrid
<1>2. g.term \in Term /\ g.term.size = 0 /\ g.term.epoch = 0
  BY <1>1 DEF Term, Screens
<1>3. g.lines \in LineCount /\ ~g.lines.moved.newEpoch /\ g.lines.epoch = 0
  BY <1>1 DEF NewLines, LineCount, NotMoved, Never
<1>4. <<Blank>> \in Seq(Cell) /\ Len(<<Blank>>) = 1
  BY DEF Cell
<1>5. g \in Rendering
  <2>1. g.termRevs \in [TermFields -> Nat]
    BY <1>1
  <2>2. g = [gen |-> g.gen, rev |-> g.rev, rendered |-> g.rendered, tgen |-> g.tgen,
              styles |-> g.styles, rows |-> g.rows, revs |-> g.revs, log |-> g.log,
              floor |-> g.floor, term |-> g.term, termRevs |-> g.termRevs,
              lines |-> g.lines, clears |-> g.clears, full |-> g.full]
    BY DEF NewGrid
  <2>7. g.tgen = 0 /\ g.clears = Never /\ g.full = TRUE
    BY DEF NewGrid
  <2>3. <<>> \in Seq(Row) /\ <<>> \in Seq(Nat) /\ <<>> \in Seq([rev : Nat, scrolled : Nat])
    OBVIOUS
  <2>4. g.styles \in Seq(Cell) /\ g.rows \in Seq(Row) /\ g.revs \in Seq(Nat)
        /\ g.log \in Seq([rev : Nat, scrolled : Nat])
    BY <1>1, <1>4, <2>3
  <2> HIDE DEF g
  <2>5. /\ g.gen \in Nat /\ g.rev \in Nat /\ g.rendered \in BOOLEAN /\ g.tgen \in Nat
        /\ g.floor \in Nat /\ g.clears \in Nat \cup {Never} /\ g.full \in BOOLEAN
    <3>1. g.gen = n /\ g.rev = 0 /\ g.rendered = FALSE /\ g.floor = 0
      BY <1>1
    <3>2. g.rendered \in BOOLEAN /\ g.full \in BOOLEAN
      BY <2>7, <3>1
    <3>3. g.clears \in Nat \cup {Never}
      BY <2>7
    <3>4. g.gen \in Nat /\ g.rev \in Nat /\ g.floor \in Nat /\ g.tgen \in Nat
      BY <2>7, <3>1
    <3> QED  BY <3>2, <3>3, <3>4
  <2>6. g.term \in Term /\ g.lines \in LineCount
    BY <1>2, <1>3
  <2> QED  BY <2>1, <2>2, <2>4, <2>5, <2>6, Zenon DEF Rendering
<1> HIDE DEF g
<1>6. Len(g.rows) = g.term.size /\ Len(g.revs) = g.term.size /\ Len(g.styles) > 0
      /\ Encodes(g.styles, g.rows)
  BY <1>1, <1>2, <1>4 DEF Encodes
<1>7. Logged(g)
  BY <1>1, GridAssumption DEF Logged
<1>8. Dated(g)
  BY <1>1 DEF Dated
<1>9. Counts(g.lines, g.term, g.rendered)
  BY <1>1, <1>2, <1>3 DEF Counts
<1>10. GridSane(g)
  BY <1>5, <1>6, <1>7, <1>8, <1>9 DEF GridSane
<1>11. \A t : Faithful(g, t)
  BY <1>1 DEF Faithful, Carries
<1> QED  BY <1>1, <1>10, <1>11 DEF g

-----------------------------------------------------------------------------
(* A mirror follows the grid.                                              *)

LEMMA PastTwice ==
  ASSUME NEW rows \in Seq(Row), NEW n \in Nat, Len(rows) = n, NEW s \in Nat, NEW c \in Nat,
         NEW y \in 1..n
  PROVE  /\ y + Least(c, n) <= n
              => RowPast(rows, y + Least(c, n), Least(s, n)) = RowPast(rows, y, Least(s + c, n))
         /\ ~(y + Least(c, n) <= n) => RowPast(rows, y, Least(s + c, n)) = BlankRow
<1> DEFINE k == Least(c, n)
           a == Least(s, n)
           b == Least(s + c, n)
<1>1. /\ k \in Nat /\ k <= c /\ k <= n /\ k \in {c, n}
      /\ a \in Nat /\ a <= s /\ a <= n /\ a \in {s, n}
      /\ b \in Nat /\ b <= s + c /\ b <= n /\ b \in {s + c, n}
  <2>1. s + c \in Nat
    OBVIOUS
  <2> QED  BY <2>1, LeastIs
<1> HIDE DEF k, a, b
<1>2. CASE y + k <= n
  <2>1. k = c
    BY <1>1, <1>2
  <2>2. CASE (y + k) + a <= n
    <3>1. a = s /\ b = s + c /\ y + b = (y + k) + a /\ y + b <= n
      BY <1>1, <2>1, <2>2
    <3> QED  BY <1>2, <2>2, <3>1 DEF RowPast, k, a, b
  <2>3. CASE ~((y + k) + a <= n)
    <3>1. ~(y + b <= n)
      BY <1>1, <2>1, <2>3
    <3> QED  BY <1>2, <2>3, <3>1 DEF RowPast, k, a, b
  <2> QED  BY <2>2, <2>3
<1>3. CASE ~(y + k <= n)
  <2>1. ~(y + b <= n)
    BY <1>1, <1>3
  <2> QED  BY <1>3, <2>1 DEF RowPast, k, b
<1> QED  BY <1>2, <1>3

LEMMA PastNone ==
  ASSUME NEW rows \in Seq(Row), NEW y \in 1..Len(rows)
  PROVE  RowPast(rows, y, 0) = rows[y]
BY DEF RowPast

LEMMA OwedIs ==
  ASSUME NEW g, GridSane(g), NEW rev \in Nat
  PROVE  /\ ScrolledSince(g.log, rev) \in Nat /\ Owed(g, rev) \in Nat /\ g.term.size \in Nat
         /\ rev >= g.rev => Owed(g, rev) = 0
<1>1. g.log \in Seq(Entries) /\ g.term.size \in Nat /\ g.rev \in Nat
  BY DEF GridSane, Rendering, Entries, Term
<1>2. ScrolledSince(g.log, rev) \in Nat
  BY <1>1, ScrolledNat
<1>3. Least(ScrolledSince(g.log, rev), g.term.size) \in Nat
  BY <1>1, <1>2, LeastIs
<1>4. ASSUME rev >= g.rev PROVE Owed(g, rev) = 0
  <2>1. ASSUME NEW i \in 1..Len(g.log) PROVE g.log[i].rev <= rev
    <3>1. g.log[i].rev <= g.rev /\ g.log[i].rev \in Nat
      BY <1>1, EntryIs DEF GridSane, Logged
    <3> QED  BY <1>1, <1>4, <3>1
  <2>2. ScrolledSince(g.log, rev) = 0
    BY <1>1, <2>1, NothingSince
  <2> QED  BY <1>1, <2>2 DEF Owed, Least
<1> QED  BY <1>1, <1>2, <1>3, <1>4 DEF Owed

(* What an update logs a mirror is owed besides.                           *)
LEMMA UpdateOwes ==
  ASSUME NEW g, NEW t, NEW l, Drawing(g, t, l), NEW rev \in Nat, rev <= g.rev, g.rendered,
         rev >= UpdateAt(g, t, l).floor, ~Reshaped(UpdateAt(g, t, l), rev)
  PROVE  /\ rev >= g.floor /\ ~Reshaped(g, rev)
         /\ g.term.size = Height(t) /\ g.term.screen = t.screen /\ ShiftKnown(g, t, l)
         /\ UpdateAt(g, t, l).term.size = Height(t) /\ UpdateAt(g, t, l).term.screen = t.screen
         /\ ScrolledSince(UpdateAt(g, t, l).log, rev)
              = ScrolledSince(g.log, rev) + ScrolledBy(g, t, l)
<1> DEFINE h  == UpdateAt(g, t, l)
           sc == ScrolledBy(g, t, l)
<1>1. /\ h.log = StampedLog(g, LoggedAt(g, t, l), sc)
      /\ h.floor = FloorOf(g, LoggedAt(g, t, l))
  BY UpdateAtLog
<1>2. Ready(g) /\ Sound(t) /\ l \in LineCount /\ g \in Rendering /\ g.rev \in Nat
      /\ Counts(l, g.term, g.rendered) /\ g.term \in Term /\ g.floor \in Nat
      /\ g.log \in Seq(Entries)
  BY DEF Drawing, Ready, Rendering, Entries
<1>3. /\ sc \in Nat
      /\ sc = 0 \/ (ShiftKnown(g, t, l) /\ t.screen = "Primary" /\ sc = l.moved.scrolled)
  BY <1>2, ScrolledByIs
<1>4. /\ h.term = TermAt(t, l) /\ h.term.size = Height(t) /\ h.term.screen = t.screen
      /\ h.term.epoch = l.epoch /\ h.term.top = l.top
      /\ \A f \in TermFields : h.termRevs[f] <= rev
           => h.term[f] = g.term[f] /\ h.termRevs[f] = g.termRevs[f]
  <2>1. /\ h.term = TermAt(t, l) /\ h.termRevs \in [TermFields -> Nat]
        /\ \A f \in TermFields :
             \/ h.termRevs[f] = g.rev + 1
             \/ h.term[f] = g.term[f] /\ h.termRevs[f] = g.termRevs[f]
    BY UpdateAtTerm
  <2> HIDE DEF h
  <2>2. ~(g.rev + 1 <= rev)
    BY <1>2
  <2>3. \A f \in TermFields : h.termRevs[f] <= rev
           => h.term[f] = g.term[f] /\ h.termRevs[f] = g.termRevs[f]
    BY <2>1, <2>2
  <2> QED  BY <1>2, <2>1, <2>3, TermAtIs
<1>5. ASSUME NEW f \in {"size", "screen", "epoch"}
      PROVE  h.term[f] = g.term[f] /\ ~(g.termRevs[f] > rev)
  <2>1. f \in TermFields
    BY DEF TermFields
  <2>2. ~(h.termRevs[f] > rev) /\ h.termRevs[f] \in Nat
    BY <2>1, UpdateAtTerm DEF Reshaped
  <2> HIDE DEF h
  <2>3. h.termRevs[f] <= rev
    BY <2>2
  <2> QED  BY <1>4, <2>1, <2>2, <2>3
<1>6. g.term.size = Height(t) /\ g.term.screen = t.screen /\ g.term.epoch = l.epoch
  BY <1>4, <1>5
<1>7. ~l.moved.newEpoch
  BY <1>2, <1>6 DEF Counts, Term
<1>8. ShiftKnown(g, t, l)
  BY <1>6, <1>7 DEF ShiftKnown
<1>9. sc > 0 => LoggedAt(g, t, l)
  <2> SUFFICES ASSUME sc > 0 PROVE ChangeAt(g, t, l)
    BY DEF LoggedAt
  <2>1. t.screen = "Primary" /\ sc = l.moved.scrolled
    BY <1>3
  <2>2. l.top = g.term.top + sc /\ g.term.top \in Nat
    BY <1>2, <1>6, <1>7, <2>1 DEF Counts, Term
  <2>3. TermAt(t, l).top # g.term.top
    BY <1>2, <1>3, <2>2, TermAtIs
  <2> QED  BY <2>3 DEF ChangeAt, Change
<1>10. LoggedAt(g, t, l) \in BOOLEAN /\ (LoggedAt(g, t, l) => sc > 0)
  BY DEF LoggedAt, ChangeAt, Change
<1> HIDE DEF h, sc
<1>11. /\ FloorOf(g, LoggedAt(g, t, l)) \in Nat /\ g.floor <= FloorOf(g, LoggedAt(g, t, l))
       /\ \A base \in Nat : base >= FloorOf(g, LoggedAt(g, t, l)) /\ base <= g.rev
            => ScrolledSince(StampedLog(g, LoggedAt(g, t, l), sc), base)
                 = ScrolledSince(g.log, base) + (IF LoggedAt(g, t, l) THEN sc ELSE 0)
  BY <1>2, <1>3, <1>10, StampedLogIs
<1>12. rev >= FloorOf(g, LoggedAt(g, t, l))
  BY <1>1 DEF h
<1>13. rev >= g.floor
  BY <1>2, <1>11, <1>12
<1>14. ScrolledSince(h.log, rev) = ScrolledSince(g.log, rev) + (IF LoggedAt(g, t, l) THEN sc ELSE 0)
  BY <1>1, <1>11, <1>12
<1>15. (IF LoggedAt(g, t, l) THEN sc ELSE 0) = sc
  BY <1>3, <1>9, <1>10
<1>16. ~Reshaped(g, rev)
  BY <1>5 DEF Reshaped
<1> QED  BY <1>4, <1>6, <1>8, <1>13, <1>14, <1>15, <1>16 DEF h, sc

LEMMA MirrorIs ==
  ASSUME NEW m, MirrorFine(m), m.gen # None
  PROVE  /\ m.rev \in Nat /\ m.tgen \in Nat /\ m.gen \in Nat /\ m.term \in Term
         /\ m.rows \in Seq(Row) /\ Len(m.rows) = m.term.size /\ m.styles \in Seq(Cell)
         /\ Len(m.styles) > 0 /\ Encodes(m.styles, m.rows)
BY DEF MirrorFine

LEMMA HasUpdate ==
  ASSUME NEW m, MirrorFine(m), m.gen # None, NEW g, NEW t, NEW l, Drawing(g, t, l), GridSane(g),
         m.rev <= g.rev, g.rendered, Has(m, g),
         m.rev >= UpdateAt(g, t, l).floor, ~Reshaped(UpdateAt(g, t, l), m.rev)
  PROVE  Has(m, UpdateAt(g, t, l))
<1> DEFINE h  == UpdateAt(g, t, l)
           n  == Height(t)
           c  == ScrolledBy(g, t, l)
           k  == ShiftAt(g, t, l)
           s  == ScrolledSince(g.log, m.rev)
           p  == Owed(g, m.rev)
           q  == Owed(h, m.rev)
<1>1. /\ m.rev \in Nat /\ m.rows \in Seq(Row) /\ Len(m.rows) = m.term.size
  BY MirrorIs
<1>2. Ready(g) /\ Sound(t) /\ l \in LineCount /\ g \in Rendering /\ g.rev \in Nat
      /\ g.revs \in Seq(Nat) /\ g.rows \in Seq(Row)
  BY DEF Drawing, Ready, Rendering
<1>3. /\ g.term.size = n /\ g.term.screen = t.screen /\ h.term.size = n /\ h.term.screen = t.screen
      /\ ScrolledSince(h.log, m.rev) = s + c
  BY <1>1, UpdateOwes
<1>4. /\ n \in Nat /\ c \in Nat /\ k \in Nat /\ k = Least(c, n)
      /\ c = 0 \/ t.screen = "Primary"
  BY <1>2, ScrolledByIs DEF ShiftAt
<1>5. s \in Nat
  BY <1>1, OwedIs
<1>6. /\ h.rows \in Seq(Row)
      /\ \A y \in 1..n : \/ h.revs[y] = g.rev + 1
                         \/ h.rows[y] = RowsAt(g, t, l)[y] /\ h.revs[y] = StampsAt(g, t, l)[y]
  BY UpdateAtRevs
<1>7. /\ \A y \in 1..n : RowsAt(g, t, l)[y] = IF y + k <= n THEN RowAt(g.rows, y + k) ELSE BlankRow
      /\ Len(g.rows) = n
  BY <1>2, <1>3, RowsAtAre DEF Ready
<1>8. /\ \A y \in 1..n : y + k <= n => StampsAt(g, t, l)[y] = g.revs[y + k]
      /\ Len(g.revs) = n
  <2>1. Len(g.revs) = n
    BY <1>2, <1>3 DEF Ready
  <2> QED  BY <1>2, <2>1, StampsAtAre
<1>9. /\ m.term.size = n
      /\ \A y \in 1..n : g.revs[y] <= m.rev => g.rows[y] = RowPast(m.rows, y, p)
  BY <1>3 DEF Has
<1>10. IF t.screen = "Alternate" THEN p = 0 /\ q = 0 /\ k = 0
       ELSE p = Least(s, n) /\ q = Least(s + c, n)
  <2>1. t.screen = "Alternate" => k = 0
    BY <1>4 DEF Least
  <2> QED  BY <1>3, <2>1 DEF Owed
<1> HIDE DEF h, n, c, k, s, p, q
<1>11. ASSUME NEW y \in 1..n, h.revs[y] <= m.rev PROVE h.rows[y] = RowPast(m.rows, y, q)
  <2>1. h.rows[y] = RowsAt(g, t, l)[y] /\ h.revs[y] = StampsAt(g, t, l)[y]
    <3>1. ~(g.rev + 1 <= m.rev)
      BY <1>1, <1>2
    <3> QED  BY <1>6, <1>11, <3>1
  <2>2. CASE y + k <= n
    <3>1. y + k \in 1..n
      BY <1>4, <2>2
    <3>2. g.revs[y + k] <= m.rev
      BY <1>8, <1>11, <2>1, <2>2
    <3>3. h.rows[y] = g.rows[y + k]
      BY <1>7, <2>1, <2>2, <3>1 DEF RowAt
    <3>4. h.rows[y] = RowPast(m.rows, y + k, p)
      BY <1>9, <3>1, <3>2, <3>3
    <3>5. RowPast(m.rows, y + k, p) = RowPast(m.rows, y, q)
      <4>1. CASE t.screen = "Alternate"
        <5>1. p = 0 /\ q = 0 /\ y + k = y
          BY <1>10, <4>1
        <5> QED  BY <5>1
      <4>2. CASE t.screen # "Alternate"
        <5>1. p = Least(s, n) /\ q = Least(s + c, n)
          BY <1>10, <4>2
        <5> QED  BY <1>1, <1>4, <1>5, <1>9, <2>2, <5>1, PastTwice
      <4> QED  BY <4>1, <4>2
    <3> QED  BY <3>4, <3>5
  <2>3. CASE ~(y + k <= n)
    <3>1. h.rows[y] = BlankRow
      BY <1>7, <2>1, <2>3
    <3>2. t.screen # "Alternate"
      BY <1>4, <1>10, <2>3
    <3>3. q = Least(s + c, n)
      BY <1>10, <3>2
    <3>4. RowPast(m.rows, y, q) = BlankRow
      <4>1. Len(m.rows) = n /\ ~(y + Least(c, n) <= n)
        BY <1>1, <1>4, <1>9, <2>3
      <4>2. RowPast(m.rows, y, Least(s + c, n)) = BlankRow
        <5>1. m.rows \in Seq(Row) /\ n \in Nat /\ s \in Nat /\ c \in Nat
          BY <1>1, <1>4, <1>5
        <5> HIDE DEF n, s, c
        <5>2. y \in Nat /\ s + c \in Nat
          BY <1>11, <5>1
        <5>3. Least(c, n) <= Least(s + c, n) /\ Least(c, n) \in Nat /\ Least(s + c, n) \in Nat
          BY <5>1, <5>2 DEF Least
        <5>4. ~(y + Least(s + c, n) <= n)
          BY <4>1, <5>2, <5>3
        <5> QED  BY <4>1, <5>4 DEF RowPast
      <4> QED  BY <3>3, <4>2
    <3> QED  BY <3>1, <3>4
  <2> QED  BY <2>2, <2>3
<1>12. h.term.size = n /\ m.term.size = n
  BY <1>3, <1>9 DEF h, n
<1> QED  BY <1>11, <1>12 DEF Has, h, q

LEMMA FollowsAt ==
  ASSUME NEW m, MirrorFine(m), m.gen # None, NEW g, NEW t, NEW l, Drawing(g, t, l), GridSane(g),
         g.rendered, Follows(m, g)
  PROVE  Follows(m, UpdateAt(g, t, l))
<1> DEFINE h == UpdateAt(g, t, l)
<1>1. h.gen = g.gen /\ h.tgen = g.tgen /\ Starts(g.styles, h.styles) /\ GridSane(h)
  BY UpdateAtKeeps
<1>2. h.rev = IF ChangeAt(g, t, l) THEN g.rev + 1 ELSE g.rev
  BY UpdateAtLog
<1>3. m.rev \in Nat /\ g.rev \in Nat /\ m.styles \in Seq(Cell) /\ g.styles \in Seq(Cell)
      /\ h.styles \in Seq(Cell)
  BY <1>1, MirrorIs DEF GridSane, Rendering
<1>4. /\ h.termRevs \in [TermFields -> Nat]
      /\ \A f \in TermFields : \/ h.termRevs[f] = g.rev + 1
                               \/ h.term[f] = g.term[f] /\ h.termRevs[f] = g.termRevs[f]
  BY UpdateAtTerm
<1> SUFFICES ASSUME m.gen = h.gen
             PROVE  /\ m.tgen <= h.tgen /\ m.rev <= h.rev
                    /\ m.tgen = h.tgen =>
                         /\ Starts(m.styles, h.styles)
                         /\ \A f \in TermFields : h.termRevs[f] <= m.rev => m.term[f] = h.term[f]
                         /\ ~Reshaped(h, m.rev) /\ m.rev >= h.floor => Has(m, h)
  BY DEF Follows
<1>5. /\ m.tgen <= g.tgen /\ m.rev <= g.rev
      /\ m.tgen = g.tgen =>
           /\ Starts(m.styles, g.styles)
           /\ \A f \in TermFields : g.termRevs[f] <= m.rev => m.term[f] = g.term[f]
           /\ ~Reshaped(g, m.rev) /\ m.rev >= g.floor => Has(m, g)
  BY <1>1 DEF Follows
<1>6. m.tgen <= h.tgen /\ m.rev <= h.rev
  BY <1>1, <1>2, <1>3, <1>5
<1>7. ASSUME m.tgen = h.tgen PROVE Starts(m.styles, h.styles)
  BY <1>1, <1>3, <1>5, <1>7, StartsTwice
<1>8. ASSUME m.tgen = h.tgen, NEW f \in TermFields, h.termRevs[f] <= m.rev
      PROVE  m.term[f] = h.term[f]
  <2>1. ~(g.rev + 1 <= m.rev)
    BY <1>3, <1>5
  <2>2. h.term[f] = g.term[f] /\ h.termRevs[f] = g.termRevs[f]
    BY <1>4, <1>8, <2>1
  <2> QED  BY <1>1, <1>5, <1>8, <2>2
<1>9. ASSUME m.tgen = h.tgen, ~Reshaped(h, m.rev), m.rev >= h.floor PROVE Has(m, h)
  <2>1. m.rev >= g.floor /\ ~Reshaped(g, m.rev)
    BY <1>3, <1>5, <1>9, UpdateOwes
  <2>2. Has(m, g)
    BY <1>1, <1>5, <1>9, <2>1
  <2> QED  BY <1>5, <1>9, <2>2, HasUpdate
<1> QED  BY <1>6, <1>7, <1>8, <1>9

LEMMA FollowsUpdate ==
  ASSUME NEW m, MirrorFine(m), m.gen # None, NEW t, Sound(t), NEW g, GridSane(g), g.rendered,
         Follows(m, g)
  PROVE  Follows(m, Update(g, t))
<1> DEFINE o == Readied(g, t)
           l == LinesAt(g, t)
           h == Update(g, t)
<1>1. h = UpdateAt(o, t, l) /\ Drawing(o, t, l)
  BY UpdateDraws
<1>2. /\ Ready(o) /\ SameBut(g, o)
      /\ \/ o = [g EXCEPT !.clears = t.clears]
         \/ o.tgen = g.tgen + 1 /\ o.full
  BY ReadiedIs
<1>3. g \in Rendering /\ g.tgen \in Nat /\ g.rev \in Nat /\ m.tgen \in Nat /\ m.rev \in Nat
  BY MirrorIs DEF GridSane, Rendering
<1>4. o.gen = g.gen /\ o.rev = g.rev /\ o.rendered = g.rendered
  BY <1>2 DEF SameBut
<1> HIDE DEF o, l, h
<1>5. CASE o.tgen = g.tgen + 1
  <2>1. h.gen = o.gen /\ h.tgen = g.tgen + 1
    <3>1. UpdateAt(o, t, l).gen = o.gen /\ UpdateAt(o, t, l).tgen = o.tgen
      BY <1>1, UpdateAtKeeps
    <3> QED  BY <1>1, <1>5, <3>1
  <2>2. g.rev <= h.rev
    <3>1. h.rev = IF ChangeAt(o, t, l) THEN o.rev + 1 ELSE o.rev
      BY <1>1, UpdateAtLog
    <3> QED  BY <1>3, <1>4, <3>1
  <2>3. ASSUME m.gen = h.gen PROVE m.tgen < h.tgen /\ m.rev <= h.rev
    <3>1. m.tgen <= g.tgen /\ m.rev <= g.rev
      BY <1>4, <2>1, <2>3 DEF Follows
    <3>2. h.rev \in Nat
      BY <1>1, UpdateAtSane DEF GridSane, Rendering
    <3> QED  BY <1>3, <2>1, <2>2, <3>1, <3>2
  <2>4. m.gen = h.gen => m.tgen # h.tgen /\ m.tgen <= h.tgen /\ m.rev <= h.rev
    BY <1>3, <2>1, <2>3
  <2>5. Follows(m, h)
    BY <2>4, Zenon DEF Follows
  <2> QED  BY <2>5 DEF h
<1>6. CASE o = [g EXCEPT !.clears = t.clears]
  <2>1. /\ o.tgen = g.tgen /\ o.styles = g.styles /\ o.lines = g.lines /\ o \in Rendering
    BY <1>2, <1>3, <1>6 DEF Rendering, Ready
  <2>2. GridSane(o)
    <3>1. Encodes(o.styles, o.rows) /\ Counts(o.lines, o.term, o.rendered)
      BY <1>2, <2>1 DEF GridSane, SameBut
    <3> QED  BY <1>2, <2>1, <3>1 DEF GridSane, Ready
  <2>3. Follows(m, o)
    BY <1>2, <2>1 DEF Follows, SameBut, Reshaped, Has, Owed
  <2>4. Follows(m, UpdateAt(o, t, l))
    BY <1>1, <1>4, <2>2, <2>3, FollowsAt
  <2> QED  BY <1>1, <2>4 DEF h
<1> QED  BY <1>2, <1>5, <1>6

(* A grid that differs by what no mirror follows.                          *)
Alike(g, h) ==
  /\ h.gen = g.gen /\ h.rev = g.rev /\ h.tgen = g.tgen /\ h.rows = g.rows /\ h.revs = g.revs
  /\ h.log = g.log /\ h.floor = g.floor /\ h.term = g.term /\ h.termRevs = g.termRevs
  /\ Starts(g.styles, h.styles) /\ h.styles \in Seq(Cell)

LEMMA GrownAlike ==
  ASSUME NEW g, GridSane(g), NEW h, Grown(g, h)
  PROVE  Alike(g, h)
BY GrownIs DEF Grown, Alike

LEMMA FollowsAlike ==
  ASSUME NEW m, MirrorFine(m), m.gen # None, NEW g, GridSane(g), NEW h, Alike(g, h), Follows(m, g)
  PROVE  Follows(m, h)
<1>1. m.styles \in Seq(Cell) /\ g.styles \in Seq(Cell) /\ h.styles \in Seq(Cell)
  BY MirrorIs DEF GridSane, Rendering, Alike
<1>2. Starts(m.styles, g.styles) => Starts(m.styles, h.styles)
  BY <1>1, StartsTwice DEF Alike
<1>3. Has(m, g) => Has(m, h)
  BY DEF Alike, Has, Owed
<1>4. Reshaped(g, m.rev) <=> Reshaped(h, m.rev)
  BY DEF Alike, Reshaped
<1> QED  BY <1>2, <1>3, <1>4 DEF Follows, Alike

(* A mirror at the grid's revision is what it holds.                       *)
Exact(m, g) ==
  /\ m.gen = g.gen /\ m.tgen = g.tgen /\ m.rev = g.rev
  /\ m.term = g.term /\ m.rows = g.rows /\ m.styles = g.styles

LEMMA ExactFollows ==
  ASSUME NEW m, NEW g, GridSane(g), Exact(m, g)
  PROVE  Follows(m, g)
<1>1. /\ g.rows \in Seq(Row) /\ g.rev \in Nat /\ g.tgen \in Nat /\ g.styles \in Seq(Cell)
      /\ Len(g.rows) = g.term.size /\ g.term.size \in Nat
  BY DEF GridSane, Rendering, Term
<1>2. Owed(g, g.rev) = 0
  <2>1. g.rev >= g.rev
    BY <1>1
  <2> QED  BY <1>1, <2>1, OwedIs
<1>3. ASSUME NEW y \in 1..g.term.size PROVE g.rows[y] = RowPast(g.rows, y, 0)
  BY <1>1, PastNone
<1>4. Has(m, g)
  BY <1>2, <1>3 DEF Has, Exact
<1>5. Starts(m.styles, g.styles)
  BY <1>1, StartsSelf DEF Exact
<1> QED  BY <1>1, <1>4, <1>5 DEF Follows, Exact

LEMMA SameSeq ==
  ASSUME NEW S, NEW s \in Seq(S), NEW u \in Seq(S), Len(s) = Len(u),
         \A i \in 1..Len(s) : s[i] = u[i]
  PROVE  s = u
OBVIOUS

(* The definitions past those a client has make its styles the grid's.      *)
LEMMA ExtendedIs ==
  ASSUME NEW s \in Seq(Cell), NEW u \in Seq(Cell), Starts(s, u)
  PROVE  Extended(s, From(u, Len(s))) = u /\ From(u, Len(s)).mark = Len(s)
<1> DEFINE a == Len(s)
           b == Len(u)
           d == SubSeq(u, a + 1, b)
           e == SubSeq(d, 0 + 1, Len(d))
           c == s \o e
<1>1. a \in Nat /\ b \in Nat /\ a <= b /\ \A i \in 1..a : s[i] = u[i]
  BY DEF Starts
<1>2. From(u, a).mark = a /\ From(u, a).defs = d
  BY DEF From
<1>3. d \in Seq(Cell) /\ Len(d) = b - a /\ \A i \in 1..b - a : d[i] = u[a + i]
  BY <1>1, PartIs
<1>4. Extended(s, From(u, a)) = c
  <2>1. Extended(s, From(u, a)) = s \o SubSeq(d, a - a + 1, Len(d))
    BY <1>2 DEF Extended
  <2>2. a - a + 1 = 0 + 1
    BY <1>1
  <2> QED  BY <2>1, <2>2
<1> HIDE DEF d
<1>5. e \in Seq(Cell) /\ Len(e) = b - a /\ \A i \in 1..b - a : e[i] = d[i]
  <2>1. Len(d) \in Nat /\ 0 \in Nat /\ 0 <= Len(d) /\ Len(d) - 0 = b - a
    BY <1>1, <1>3
  <2>2. e \in Seq(Cell) /\ Len(e) = Len(d) - 0 /\ \A i \in 1..Len(d) - 0 : e[i] = d[0 + i]
    BY <1>3, <2>1, PartIs
  <2>3. \A i \in 1..b - a : 0 + i = i
    BY <1>1
  <2> QED  BY <2>1, <2>2, <2>3
<1> HIDE DEF e
<1>6. /\ c \in Seq(Cell) /\ Len(c) = a + Len(e)
      /\ \A i \in 1..a : c[i] = s[i]
      /\ \A i \in 1..Len(e) : c[a + i] = e[i]
  BY <1>5, ConcatIs
<1> HIDE DEF c
<1>7. ASSUME NEW i \in 1..Len(c) PROVE c[i] = u[i]
  <2>1. CASE i <= a
    BY <1>1, <1>6, <2>1
  <2>2. CASE i > a
    <3>1. i - a \in 1..b - a /\ a + (i - a) = i
      BY <1>1, <1>5, <1>6, <2>2
    <3>2. c[a + (i - a)] = e[i - a]
      BY <1>5, <1>6, <3>1
    <3>3. e[i - a] = u[a + (i - a)]
      BY <1>3, <1>5, <3>1
    <3> QED  BY <3>1, <3>2, <3>3
  <2> QED  BY <1>1, <2>1, <2>2
<1>8. Len(c) = b
  BY <1>1, <1>5, <1>6
<1>9. c = u
  BY <1>6, <1>7, <1>8, SameSeq
<1> QED  BY <1>2, <1>4, <1>9

LEMMA OverIs ==
  ASSUME NEW f, NEW u
  PROVE  /\ Over(f, u) = [x \in DOMAIN f \cup DOMAIN u |-> Over(f, u)[x]]
         /\ \A x \in DOMAIN f : Over(f, u)[x] = f[x]
         /\ \A x \in DOMAIN u : x \notin DOMAIN f => Over(f, u)[x] = u[x]
BY DEF Over

LEMMA TermIs ==
  ASSUME NEW v, v = [f \in TermFields |-> v[f]], NEW term \in Term,
         \A f \in TermFields : v[f] = term[f]
  PROVE  v = term
BY DEF Term, TermFields

LEMMA TermOver ==
  ASSUME NEW old \in Term, NEW new \in Term, NEW ys \in SUBSET TermFields,
         \A f \in TermFields \ ys : old[f] = new[f]
  PROVE  Over(Picked(new, ys), old) = new
<1> DEFINE d == Picked(new, ys)
           v == Over(d, old)
<1>1. DOMAIN old = TermFields
  BY DEF Term, TermFields
<1>2. DOMAIN d = ys /\ \A f \in ys : d[f] = new[f]
  BY DEF Picked
<1> HIDE DEF d
<1>3. v = [x \in DOMAIN d \cup DOMAIN old |-> v[x]]
  BY OverIs
<1>4. \A x \in DOMAIN d : v[x] = d[x]
  <2>1. ASSUME NEW x \in DOMAIN d PROVE Over(d, old)[x] = d[x]
    BY <2>1 DEF Over
  <2> QED  BY <2>1
<1>5. \A x \in DOMAIN old : x \notin DOMAIN d => v[x] = old[x]
  <2>1. ASSUME NEW x \in DOMAIN old, x \notin DOMAIN d PROVE Over(d, old)[x] = old[x]
    BY <2>1 DEF Over
  <2> QED  BY <2>1
<1> HIDE DEF v
<1>6. DOMAIN d \cup DOMAIN old = TermFields
  BY <1>1, <1>2
<1>7. v = [x \in TermFields |-> v[x]]
  BY <1>3, <1>6
<1>8. \A f \in TermFields : v[f] = new[f]
  BY <1>1, <1>2, <1>4, <1>5
<1>9. v = new
  BY <1>7, <1>8, TermIs
<1> QED  BY <1>9 DEF v, d

(* The mirror is at what the hub holds of it.                              *)
Matches(m, held) ==
  /\ m.gen = held.gen /\ m.tgen = held.tgen /\ m.rev = held.rev /\ Len(m.styles) = held.mark

(* A delta is cut for a mirror that is where the hub believes it to be.     *)
Fits(m, g, held) ==
  /\ GridSane(g) /\ g.gen # None /\ MirrorFine(m) /\ m.gen # None /\ Follows(m, g)
  /\ Matches(m, held) /\ CanCut(g, held)

LEMMA FitsIs ==
  ASSUME NEW m, NEW g, NEW held, Fits(m, g, held)
  PROVE  /\ m.gen = g.gen /\ m.tgen = g.tgen /\ held.rev = m.rev /\ held.mark = Len(m.styles)
         /\ m.rev \in Nat /\ g.rev \in Nat /\ g.floor \in Nat /\ m.rev >= g.floor /\ m.rev <= g.rev
         /\ m.styles \in Seq(Cell) /\ g.styles \in Seq(Cell) /\ Starts(m.styles, g.styles)
         /\ m.term \in Term /\ g.term \in Term /\ m.rows \in Seq(Row) /\ g.rows \in Seq(Row)
         /\ g.revs \in Seq(Nat) /\ g.termRevs \in [TermFields -> Nat]
         /\ Len(m.rows) = m.term.size /\ Len(g.rows) = g.term.size
         /\ \A f \in TermFields : g.termRevs[f] <= m.rev => m.term[f] = g.term[f]
         /\ ~Reshaped(g, m.rev) => Has(m, g)
<1>1. /\ m.rev \in Nat /\ m.styles \in Seq(Cell) /\ m.term \in Term /\ m.rows \in Seq(Row)
      /\ Len(m.rows) = m.term.size
  BY MirrorIs DEF Fits
<1>2. /\ g.rev \in Nat /\ g.floor \in Nat /\ g.styles \in Seq(Cell) /\ g.term \in Term
      /\ g.rows \in Seq(Row) /\ g.revs \in Seq(Nat) /\ g.termRevs \in [TermFields -> Nat]
      /\ Len(g.rows) = g.term.size
  BY DEF Fits, GridSane, Rendering
<1>3. /\ m.gen = g.gen /\ m.tgen = g.tgen /\ held.rev = m.rev /\ held.mark = Len(m.styles)
      /\ m.rev \in g.floor..g.rev
  BY DEF Fits, Matches, CanCut
<1>4. m.rev >= g.floor /\ m.rev <= g.rev
  BY <1>1, <1>2, <1>3
<1>5. /\ Starts(m.styles, g.styles)
      /\ \A f \in TermFields : g.termRevs[f] <= m.rev => m.term[f] = g.term[f]
      /\ ~Reshaped(g, m.rev) /\ m.rev >= g.floor => Has(m, g)
  BY <1>3 DEF Fits, Follows
<1> QED  BY <1>1, <1>2, <1>3, <1>4, <1>5

LEMMA DeltaIs ==
  ASSUME NEW m, NEW g, NEW held, Fits(m, g, held)
  PROVE  LET d == Delta(g, held)
         IN  /\ d.kind = "Delta" /\ d.gen = g.gen /\ d.tgen = g.tgen /\ d.base = m.rev /\ d.rev = g.rev
             /\ d.scrolled = IF Reshaped(g, m.rev) THEN 0 ELSE ScrolledSince(g.log, m.rev)
             /\ Over(d.term, m.term) = g.term
             /\ d.styles = From(g.styles, Len(m.styles))
             /\ Extended(m.styles, d.styles) = g.styles /\ d.styles.mark = Len(m.styles)
             /\ DOMAIN d.rows \subseteq 1..g.term.size
             /\ \A y \in DOMAIN d.rows : d.rows[y] = g.rows[y]
             /\ \A y \in 1..g.term.size :
                  y \in DOMAIN d.rows \/ (~Reshaped(g, m.rev) /\ g.revs[y] <= m.rev)
<1> DEFINE d  == Delta(g, held)
           ts == {f \in TermFields : g.termRevs[f] > m.rev}
           ys == IF Reshaped(g, m.rev) THEN DOMAIN g.rows ELSE RowsSince(g, m.rev)
<1>1. /\ held.rev = m.rev /\ held.mark = Len(m.styles) /\ m.rev \in Nat
      /\ m.styles \in Seq(Cell) /\ g.styles \in Seq(Cell) /\ Starts(m.styles, g.styles)
      /\ m.term \in Term /\ g.term \in Term /\ g.termRevs \in [TermFields -> Nat]
      /\ \A f \in TermFields : g.termRevs[f] <= m.rev => m.term[f] = g.term[f]
      /\ g.rows \in Seq(Row) /\ g.revs \in Seq(Nat) /\ Len(g.rows) = g.term.size
      /\ g.term.size \in Nat
  BY FitsIs DEF Term
<1>2. d = [kind |-> "Delta", gen |-> g.gen, tgen |-> g.tgen, base |-> m.rev, rev |-> g.rev,
           scrolled |-> IF Reshaped(g, m.rev) THEN 0 ELSE ScrolledSince(g.log, m.rev),
           term |-> Picked(g.term, ts), styles |-> From(g.styles, Len(m.styles)),
           rows |-> Picked(g.rows, ys)]
  BY <1>1 DEF Delta
<1>3. d.kind = "Delta" /\ d.gen = g.gen /\ d.tgen = g.tgen /\ d.base = m.rev /\ d.rev = g.rev
      /\ d.scrolled = (IF Reshaped(g, m.rev) THEN 0 ELSE ScrolledSince(g.log, m.rev))
      /\ d.term = Picked(g.term, ts) /\ d.styles = From(g.styles, Len(m.styles))
      /\ d.rows = Picked(g.rows, ys)
  BY <1>2
<1> HIDE DEF d
<1>4. Over(Picked(g.term, ts), m.term) = g.term
  <2>1. ts \in SUBSET TermFields
    OBVIOUS
  <2>2. ASSUME NEW f \in TermFields \ ts PROVE m.term[f] = g.term[f]
    <3>1. ~(g.termRevs[f] > m.rev) /\ g.termRevs[f] \in Nat
      BY <1>1
    <3>2. g.termRevs[f] <= m.rev
      BY <1>1, <3>1
    <3> QED  BY <1>1, <3>2
  <2> HIDE DEF ts
  <2>3. m.term \in Term /\ g.term \in Term
    BY <1>1
  <2> QED  BY <2>1, <2>2, <2>3, TermOver, Zenon
<1>5. Extended(m.styles, From(g.styles, Len(m.styles))) = g.styles
      /\ From(g.styles, Len(m.styles)).mark = Len(m.styles)
  BY <1>1, ExtendedIs
<1>6. DOMAIN g.rows = 1..g.term.size
  BY <1>1
<1>7. ys \subseteq 1..g.term.size
  BY <1>6 DEF RowsSince
<1>8. ASSUME NEW y \in 1..g.term.size PROVE y \in ys \/ (~Reshaped(g, m.rev) /\ g.revs[y] <= m.rev)
  <2>1. g.revs[y] \in Nat
    <3>1. Len(g.revs) = g.term.size
      BY DEF Fits, GridSane
    <3> QED  BY <1>1, <3>1
  <2>2. g.revs[y] > m.rev \/ g.revs[y] <= m.rev
    BY <1>1, <2>1
  <2> QED  BY <1>6, <2>2 DEF RowsSince
<1> HIDE DEF ys, ts
<1>9. DOMAIN d.rows = ys /\ \A y \in ys : d.rows[y] = g.rows[y]
  BY <1>3 DEF Picked
<1> QED  BY <1>3, <1>4, <1>5, <1>7, <1>8, <1>9 DEF d

LEMMA RowsApplied ==
  ASSUME NEW m, NEW g, NEW held, Fits(m, g, held), NEW d, d = Delta(g, held)
  PROVE  LET rows    == Resized(m.rows, g.term.size, BlankRow)
             n       == IF g.term.screen = "Alternate" THEN 0 ELSE Least(d.scrolled, Len(rows))
             shifted == Shifted(rows, n)
         IN  [y \in DOMAIN rows |-> IF y \in DOMAIN d.rows THEN d.rows[y] ELSE shifted[y]] = g.rows
<1> DEFINE size    == g.term.size
           rows    == Resized(m.rows, size, BlankRow)
           n       == IF g.term.screen = "Alternate" THEN 0 ELSE Least(d.scrolled, Len(rows))
           shifted == Shifted(rows, n)
           new     == [y \in DOMAIN rows |-> IF y \in DOMAIN d.rows THEN d.rows[y] ELSE shifted[y]]
<1>1. /\ m.rows \in Seq(Row) /\ g.rows \in Seq(Row) /\ Len(g.rows) = size /\ size \in Nat
      /\ Len(m.rows) = m.term.size /\ m.rev \in Nat /\ (~Reshaped(g, m.rev) => Has(m, g))
  BY FitsIs DEF Term
<1>2. /\ d.scrolled = IF Reshaped(g, m.rev) THEN 0 ELSE ScrolledSince(g.log, m.rev)
      /\ \A y \in DOMAIN d.rows : d.rows[y] = g.rows[y]
      /\ \A y \in 1..size : y \in DOMAIN d.rows \/ (~Reshaped(g, m.rev) /\ g.revs[y] <= m.rev)
  BY DeltaIs
<1>3. ScrolledSince(g.log, m.rev) \in Nat
  BY <1>1, OwedIs DEF Fits
<1> HIDE DEF rows, size
<1>4. rows \in Seq(Row) /\ Len(rows) = size
      /\ \A y \in 1..size : rows[y] = IF y <= Len(m.rows) THEN m.rows[y] ELSE BlankRow
  <2>1. m.rows \in Seq(Row) /\ size \in Nat /\ BlankRow \in Row
    BY <1>1, BlankRowIs
  <2>2. /\ Resized(m.rows, size, BlankRow) \in Seq(Row) /\ Len(Resized(m.rows, size, BlankRow)) = size
        /\ \A y \in 1..size : Resized(m.rows, size, BlankRow)[y]
                               = IF y <= Len(m.rows) THEN m.rows[y] ELSE BlankRow
    <3>1. Resized(m.rows, size, BlankRow) \in Seq(Row)
      BY <2>1, ResizedIs
    <3>2. Len(Resized(m.rows, size, BlankRow)) = size
      BY <2>1, ResizedIs
    <3>3. ASSUME NEW y \in 1..size
          PROVE  Resized(m.rows, size, BlankRow)[y] = IF y <= Len(m.rows) THEN m.rows[y] ELSE BlankRow
      BY DEF Resized
    <3> QED  BY <3>1, <3>2, <3>3
  <2>3. rows = Resized(m.rows, size, BlankRow)
    BY DEF rows, size
  <2> QED  BY <2>2, <2>3
<1>5. n \in Nat
  BY <1>1, <1>2, <1>3, <1>4, LeastIs
<1> HIDE DEF n
<1>6. Len(shifted) = size /\ \A y \in 1..size : shifted[y] = RowPast(rows, y, n)
  BY <1>4, <1>5, ShiftedIs
<1> HIDE DEF shifted
<1>7. ASSUME NEW y \in 1..size, y \notin DOMAIN d.rows PROVE shifted[y] = g.rows[y]
  <2>1. ~Reshaped(g, m.rev) /\ g.revs[y] <= m.rev
    BY <1>2, <1>7
  <2>2. m.term.size = size /\ g.rows[y] = RowPast(m.rows, y, Owed(g, m.rev))
    BY <1>1, <2>1 DEF Has, size
  <2>3. \A z \in 1..size : rows[z] = m.rows[z]
    BY <1>1, <1>4, <2>2
  <2>4. rows = m.rows
    BY <1>1, <1>4, <2>2, <2>3, SameSeq
  <2>5. n = Owed(g, m.rev)
    BY <1>2, <1>4, <2>1 DEF n, Owed, size
  <2> QED  BY <1>6, <2>2, <2>4, <2>5
<1>8. DOMAIN rows = 1..size
  BY <1>1, <1>4
<1>9. \A y \in 1..size : new[y] = g.rows[y]
  BY <1>2, <1>7, <1>8
<1>10. new = [y \in 1..size |-> new[y]]
  BY <1>8
<1>11. g.rows = [y \in 1..size |-> g.rows[y]]
  BY <1>1
<1> HIDE DEF new
<1>12. new = g.rows
  BY <1>9, <1>10, <1>11
<1> QED  BY <1>12 DEF new, shifted, n, rows, size

(* The fields of a mirror, whatever its history.                           *)
LEMMA MirrorRecord ==
  ASSUME NEW g, GridSane(g), NEW m, Exact(m, g), g.gen # None,
         m = [gen |-> m.gen, rev |-> m.rev, tgen |-> m.tgen, term |-> m.term,
              styles |-> m.styles, rows |-> m.rows, history |-> m.history]
  PROVE  MirrorFine(m) /\ m.gen # None /\ Follows(m, g)
<1>1. /\ g.gen \in Nat /\ g.rev \in Nat /\ g.tgen \in Nat /\ g.term \in Term
      /\ g.styles \in Seq(Cell) /\ g.rows \in Seq(Row) /\ Len(g.rows) = g.term.size
      /\ Len(g.styles) > 0 /\ Encodes(g.styles, g.rows)
  BY DEF GridSane, Rendering
<1>2. /\ m.gen \in Nat /\ m.rev \in Nat /\ m.tgen \in Nat /\ m.term \in Term \cup {<<>>}
      /\ m.styles \in Seq(Cell) /\ m.rows \in Seq(Row) /\ m.history \in {m.history}
  BY <1>1 DEF Exact
<1>3. m \in [gen : Nat, rev : Nat, tgen : Nat, term : Term \cup {<<>>}, styles : Seq(Cell),
             rows : Seq(Row), history : {m.history}]
  BY <1>2, Zenon
<1>4. MirrorFine(m)
  BY <1>1, <1>3 DEF MirrorFine, Exact
<1>5. m.gen # None
  BY DEF Exact
<1> QED  BY <1>4, <1>5, ExactFollows

LEMMA AppliesIs ==
  ASSUME NEW m, NEW g, NEW held, Fits(m, g, held)
  PROVE  LET a == Applies(m, Delta(g, held))
         IN  Exact(a, g) /\ MirrorFine(a) /\ a.gen # None /\ Follows(a, g)
<1> DEFINE d        == Delta(g, held)
           a        == Applies(m, d)
           term     == Over(d.term, m.term)
           rows     == Resized(m.rows, term.size, BlankRow)
           newEpoch == term.epoch # m.term.epoch
           keep     == ~newEpoch /\ term.screen = m.term.screen
           n        == IF term.screen = "Alternate" THEN 0 ELSE Least(d.scrolled, Len(rows))
           off      == IF keep THEN {y \in 1..n : TRUE} ELSE {}
           gone     == [line \in {rows[y].line : y \in off} |->
                          rows[CHOOSE y \in off : rows[y].line = line].cell]
           cached   == IF newEpoch THEN <<>> ELSE m.history
           shifted  == Shifted(rows, n)
           new      == [y \in DOMAIN rows |-> IF y \in DOMAIN d.rows THEN d.rows[y] ELSE shifted[y]]
           styles   == Extended(m.styles, d.styles)
           history  == Over(gone, cached)
<1>1. a = [m EXCEPT !.rev = d.rev, !.term = term, !.styles = styles, !.rows = new,
                    !.history = history]
  BY Zenon DEF Applies
<1>2. term = g.term /\ d.rev = g.rev /\ styles = g.styles
  BY DeltaIs
<1>3. new = g.rows
  <2>1. rows = Resized(m.rows, g.term.size, BlankRow)
    BY <1>2
  <2>2. n = IF g.term.screen = "Alternate" THEN 0 ELSE Least(d.scrolled, Len(rows))
    BY <1>2
  <2> HIDE DEF term
  <2> QED  BY <2>1, <2>2, RowsApplied
<1> HIDE DEF d, a, term, new, styles, history
<1>4. m.gen = g.gen /\ m.tgen = g.tgen
  BY FitsIs
<1>5. m \in [gen : Nat, rev : Nat, tgen : Nat, term : Term \cup {<<>>}, styles : Seq(Cell),
             rows : Seq(Row), history : {m.history}]
  BY DEF Fits, MirrorFine
<1>6. a = [gen |-> m.gen, rev |-> d.rev, tgen |-> m.tgen, term |-> term,
           styles |-> styles, rows |-> new, history |-> history]
  BY <1>1, <1>5
<1>7. /\ a.gen = m.gen /\ a.rev = d.rev /\ a.tgen = m.tgen /\ a.term = term
      /\ a.styles = styles /\ a.rows = new /\ a.history = history
  BY <1>6
<1>8. Exact(a, g)
  BY <1>2, <1>3, <1>4, <1>7 DEF Exact
<1>9. MirrorFine(a) /\ a.gen # None /\ Follows(a, g)
  <2>1. a = [gen |-> a.gen, rev |-> a.rev, tgen |-> a.tgen, term |-> a.term,
             styles |-> a.styles, rows |-> a.rows, history |-> a.history]
    BY <1>6, <1>7
  <2>2. GridSane(g) /\ g.gen # None
    BY DEF Fits
  <2> QED  BY <1>8, <2>1, <2>2, MirrorRecord
<1> QED  BY <1>8, <1>9 DEF a, d

LEMMA NotRefused ==
  ASSUME NEW p, NEW g, NEW held, Fits(p.mirror, g, held), ~p.stale
  PROVE  ~Refuses(p, Delta(g, held))
<1> DEFINE m == p.mirror
           d == Delta(g, held)
<1>1. /\ d.gen = g.gen /\ d.tgen = g.tgen /\ d.base = m.rev
      /\ Over(d.term, m.term) = g.term
      /\ Extended(m.styles, d.styles) = g.styles /\ d.styles.mark = Len(m.styles)
      /\ DOMAIN d.rows \subseteq 1..g.term.size
      /\ \A y \in DOMAIN d.rows : d.rows[y] = g.rows[y]
  BY DeltaIs
<1>2. /\ m.gen = g.gen /\ m.tgen = g.tgen /\ m.gen # None /\ m.styles \in Seq(Cell)
      /\ g.term \in Term /\ Len(g.rows) = g.term.size /\ g.rows \in Seq(Row)
  BY FitsIs DEF Fits
<1> HIDE DEF d, m
<1>3. ASSUME NEW y \in DOMAIN d.rows PROVE d.rows[y].cell < Len(g.styles)
  <2>1. d.rows[y] = g.rows[y] /\ y \in 1..Len(g.rows)
    BY <1>1, <1>2
  <2> QED  BY <2>1 DEF Fits, GridSane, Encodes
<1>4. Known(m.styles, d.styles, Cells(d.rows))
  <2>1. d.styles.mark <= Len(m.styles)
    BY <1>1, <1>2
  <2>2. ASSUME NEW id \in Cells(d.rows) PROVE id < Len(Extended(m.styles, d.styles))
    BY <1>1, <1>3 DEF Cells
  <2> QED  BY <2>1, <2>2 DEF Known
<1>5. ASSUME NEW y \in DOMAIN d.rows PROVE ~(y > Over(d.term, m.term).size)
  BY <1>1, <1>2 DEF Term
<1>6. ~Refuses(p, d)
  BY <1>1, <1>2, <1>4, <1>5 DEF Refuses, m
<1> QED  BY <1>6 DEF d

-----------------------------------------------------------------------------
(* History rows.                                                           *)

LEMMA HistoryIs ==
  ASSUME NEW t, Sound(t), NEW g, GridSane(g), NEW from \in Nat, NEW count \in Nat
  PROVE  LET f == History(g, t, from, count)
         IN  /\ Grown(g, f.grid) /\ f.grid.lines = g.lines /\ f.grid.styles \in Seq(Cell)
             /\ \A line \in DOMAIN f.rows : f.rows[line] < Len(f.grid.styles)
<1> DEFINE oldest   == OldestLine(g.lines)
           screen   == t.hist \o t.prim
           last     == Least(from + count, oldest + Len(screen)) - 1
           asked    == IF t.screen = "Primary" THEN Most(from, oldest)..last ELSE {}
           read     == {line - oldest + 1 : line \in asked}
           styles   == Minted(g.styles, screen, read)
           h        == [g EXCEPT !.styles = styles]
           rows     == [line \in asked |-> IdOf(styles, screen[line - oldest + 1])]
           f        == History(g, t, from, count)
<1>1. f = [grid |-> h, rows |-> rows]
  BY DEF History
<1>2. g \in Rendering /\ g.styles \in Seq(Cell) /\ g.lines \in LineCount
      /\ g.clears \in Nat \cup {Never}
  BY DEF GridSane, Rendering
<1>3. t.hist \in Seq(Cell) /\ t.prim \in Seq(Cell)
  BY DEF Sound, Terminal
<1>4. screen \in Seq(Cell) /\ Len(screen) \in Nat
  BY <1>3, ConcatIs
<1>5. oldest \in Nat
  <2>1. Most(0, g.lines.h) \in Nat /\ g.lines.top - Most(0, g.lines.h) \in Int
    BY <1>2 DEF Most, LineCount, Never
  <2> QED  BY <2>1, MostIs DEF OldestLine
<1> HIDE DEF screen, oldest
<1>6. ASSUME NEW line \in asked
      PROVE  line - oldest + 1 \in 1..Len(screen) /\ line - oldest + 1 \in read
  <2>1. from + count \in Nat /\ oldest + Len(screen) \in Nat
    BY <1>4, <1>5
  <2>2. last + 1 <= oldest + Len(screen) /\ last \in Int
    <3> DEFINE b == Least(from + count, oldest + Len(screen))
    <3>1. b \in Nat /\ b <= oldest + Len(screen)
      BY <2>1, LeastIs
    <3>2. last = b - 1
      OBVIOUS
    <3> HIDE DEF b, last
    <3> QED  BY <1>4, <1>5, <3>1, <3>2
  <2>3. Most(from, oldest) \in Nat /\ Most(from, oldest) >= oldest
    BY <1>5, MostIs
  <2> HIDE DEF last
  <2>4. line \in Int /\ line >= oldest /\ line <= last
    BY <1>5, <1>6, <2>2, <2>3
  <2>5. line - oldest + 1 \in 1..Len(screen)
    BY <1>4, <1>5, <2>2, <2>4
  <2> QED  BY <1>6, <2>5
<1> HIDE DEF asked
<1>7. /\ styles \in Seq(Cell) /\ Starts(g.styles, styles)
      /\ \A i \in 1..Len(screen) : i \in read => \E j \in 1..Len(styles) : styles[j] = screen[i]
  <2> HIDE DEF read
  <2> QED  BY <1>2, <1>4, MintedIs
<1> HIDE DEF read, styles
<1>8. ASSUME NEW line \in asked PROVE rows[line] < Len(styles)
  <2> DEFINE s == screen[line - oldest + 1]
             i == CHOOSE j \in DOMAIN styles : styles[j] = s
  <2>1. i \in DOMAIN styles
    <3>1. \E j \in DOMAIN styles : styles[j] = s
      BY <1>6, <1>7
    <3> QED  BY <3>1
  <2>2. rows[line] = i - 1
    BY DEF IdOf
  <2> HIDE DEF i
  <2>3. i \in 1..Len(styles) /\ Len(styles) \in Nat
    BY <1>7, <2>1
  <2> HIDE DEF rows
  <2> QED  BY <2>2, <2>3
<1>9. h.styles = styles /\ h.lines = g.lines /\ h.clears = g.clears
  BY <1>2 DEF Rendering
<1>10. h = [g EXCEPT !.styles = h.styles, !.lines = h.lines, !.clears = h.clears]
  BY <1>2, <1>9 DEF Rendering
<1>11. DOMAIN rows = asked
  OBVIOUS
<1> HIDE DEF h, rows
<1>12. Grown(g, h)
  BY <1>2, <1>7, <1>9, <1>10 DEF Grown
<1>13. f.grid = h /\ f.rows = rows
  BY <1>1
<1> QED  BY <1>7, <1>8, <1>9, <1>11, <1>12, <1>13 DEF f

LEMMA MintedFine ==
  ASSUME NEW t, Sound(t), NEW g, GridFine(g), g.rendered, Faithful(g, t),
         NEW h, Grown(g, h), h.lines = g.lines
  PROVE  GridFine(h) /\ Faithful(h, t)
<1>1. GridSane(g) /\ Counts(h.lines, g.term, g.rendered)
  BY DEF GridFine, GridSane
<1>2. GridSane(h) /\ Faithful(h, t)
  BY <1>1, GrownSane, MintedFaithful
<1>3. h.rendered = g.rendered /\ h.gen = g.gen
  BY <1>1, GrownIs
<1> QED  BY <1>2, <1>3 DEF GridFine

(* What a snapshot's history leaves of the grid.                           *)
LEMMA TailOfIs ==
  ASSUME NEW t, Sound(t), NEW g, GridFine(g), g.rendered, Faithful(g, t)
  PROVE  /\ GridFine(TailOf(g, t).grid) /\ Faithful(TailOf(g, t).grid, t)
         /\ Grown(g, TailOf(g, t).grid) /\ GridSane(TailOf(g, t).grid)
<1> DEFINE s == Settle(g, t)
           n == Least(HistoryTail, s.term.top)
           f == History(s, t, s.term.top - n, n)
           r == TailOf(g, t)
<1>1. r = IF HistoryTail = 0 THEN [grid |-> g, rows |-> <<>>]
          ELSE IF s.lines.epoch # s.term.epoch THEN [grid |-> s, rows |-> <<>>] ELSE f
  BY DEF TailOf, Above
<1>2. GridFine(s) /\ Faithful(s, t) /\ Grown(g, s)
  BY SettleFine
<1> HIDE DEF s
<1>3. GridSane(g) /\ GridSane(s) /\ s.term.top \in Nat
  BY <1>2 DEF GridFine, GridSane, Rendering, Term
<1>4. n \in Nat /\ s.term.top - n \in Nat
  <2>1. HistoryTail \in Nat
    BY GridAssumption
  <2>2. n \in Nat /\ n <= s.term.top
    BY <1>3, <2>1, LeastIs
  <2> QED  BY <1>3, <2>2
<1> HIDE DEF n
<1>5. Grown(s, f.grid) /\ f.grid.lines = s.lines
  BY <1>3, <1>4, HistoryIs
<1> HIDE DEF f, r
<1>6. GridFine(f.grid) /\ Faithful(f.grid, t) /\ Grown(g, f.grid)
  <2>1. s.rendered
    BY <1>2, <1>3, GrownIs
  <2> QED  BY <1>2, <1>3, <1>5, <2>1, MintedFine, GrownTwice
<1>7. Grown(g, g)
  BY <1>3, GrownSelf
<1>8. r.grid \in {g, s, f.grid}
  BY <1>1
<1>9. GridFine(r.grid) /\ Faithful(r.grid, t) /\ Grown(g, r.grid)
  BY <1>2, <1>6, <1>7, <1>8
<1> QED  BY <1>9 DEF GridFine, r

-----------------------------------------------------------------------------
(* What is on its way to a client.                                         *)

(* The messages take the pane p to q.                                      *)
Ends(p, ms, q, g, n) ==
  \E w : /\ Walk(w, ms) /\ w[1] = p /\ w[Len(ms) + 1] = q
         /\ \A i \in 1..Len(ms) + 1 : Sees(w[i], g, n)

LEMMA WalksEnds ==
  ASSUME NEW p, NEW ms, NEW held, NEW g, NEW n
  PROVE  Walks(p, ms, held, g, n) <=> \E q : Ends(p, ms, q, g, n) /\ Stands(q, held)
<1>1. ASSUME Walks(p, ms, held, g, n) PROVE \E q : Ends(p, ms, q, g, n) /\ Stands(q, held)
  <2>1. PICK w : /\ Walk(w, ms) /\ w[1] = p /\ Stands(w[Len(ms) + 1], held)
                 /\ \A i \in 1..Len(ms) + 1 : Sees(w[i], g, n)
    BY <1>1 DEF Walks
  <2>2. Ends(p, ms, w[Len(ms) + 1], g, n)
    BY <2>1 DEF Ends
  <2> QED  BY <2>1, <2>2
<1>2. ASSUME NEW q, Ends(p, ms, q, g, n), Stands(q, held) PROVE Walks(p, ms, held, g, n)
  <2>1. PICK w : /\ Walk(w, ms) /\ w[1] = p /\ w[Len(ms) + 1] = q
                 /\ \A i \in 1..Len(ms) + 1 : Sees(w[i], g, n)
    BY <1>2 DEF Ends
  <2> QED  BY <1>2, <2>1 DEF Walks
<1> QED  BY <1>1, <1>2

LEMMA SeqIs ==
  ASSUME NEW s, IsSeq(s)
  PROVE  Len(s) \in Nat /\ \A x : IsSeq(Append(s, x))
<1>1. PICK S : s \in Seq(S)
  BY DEF IsSeq
<1>2. ASSUME NEW x PROVE IsSeq(Append(s, x))
  <2>1. s \in Seq(S \cup {x}) /\ x \in S \cup {x}
    BY <1>1
  <2>2. Append(s, x) \in Seq(S \cup {x})
    BY <2>1, AppendIs
  <2> QED  BY <2>2 DEF IsSeq
<1> QED  BY <1>1, <1>2

LEMMA LastIs ==
  ASSUME NEW s, IsSeq(s), NEW x
  PROVE  /\ Len(Append(s, x)) = Len(s) + 1 /\ Append(s, x)[Len(s) + 1] = x
         /\ \A i \in 1..Len(s) : Append(s, x)[i] = s[i]
<1>1. PICK S : s \in Seq(S)
  BY DEF IsSeq
<1>2. s \in Seq(S \cup {x}) /\ x \in S \cup {x}
  BY <1>1
<1> QED  BY <1>2, AppendIs

LEMMA FirstIs ==
  ASSUME NEW s, IsSeq(s), s # <<>>
  PROVE  /\ IsSeq(Tail(s)) /\ Len(Tail(s)) = Len(s) - 1 /\ Len(s) > 0 /\ Head(s) = s[1]
         /\ \A i \in 1..Len(s) - 1 : Tail(s)[i] = s[i + 1]
<1>1. PICK S : s \in Seq(S)
  BY DEF IsSeq
<1> QED  BY <1>1, TailIs DEF IsSeq

LEMMA EndsNone ==
  ASSUME NEW p, NEW g, NEW n, Sees(p, g, n)
  PROVE  Ends(p, <<>>, p, g, n) /\ IsSeq(<<>>)
<1> DEFINE w == [i \in 1..1 |-> p]
<1>1. Len(<<>>) = 0 /\ w[1] = p
  OBVIOUS
<1>2. Walk(w, <<>>)
  BY <1>1 DEF Walk
<1>3. \A i \in 1..Len(<<>>) + 1 : Sees(w[i], g, n)
  BY <1>1
<1>4. w[Len(<<>>) + 1] = p
  BY <1>1
<1> HIDE DEF w
<1>5. Ends(p, <<>>, p, g, n)
  BY <1>1, <1>2, <1>3, <1>4 DEF Ends
<1>6. <<>> \in Seq({})
  OBVIOUS
<1> QED  BY <1>5, <1>6 DEF IsSeq

LEMMA EndsAppend ==
  ASSUME NEW p, NEW ms, IsSeq(ms), NEW q, NEW g, NEW n, Ends(p, ms, q, g, n), NEW x,
         Sees(Received(q, x), g, n)
  PROVE  Ends(p, Append(ms, x), Received(q, x), g, n)
<1> DEFINE k == Len(ms)
           u == Append(ms, x)
<1>1. PICK w : /\ Walk(w, ms) /\ w[1] = p /\ w[k + 1] = q
               /\ \A i \in 1..k + 1 : Sees(w[i], g, n)
  BY DEF Ends
<1>2. k \in Nat /\ Len(u) = k + 1 /\ u[k + 1] = x /\ \A i \in 1..k : u[i] = ms[i]
  BY SeqIs, LastIs
<1> DEFINE v == [i \in 1..k + 2 |-> IF i = k + 2 THEN Received(q, x) ELSE w[i]]
<1> HIDE DEF k, u
<1>3. /\ v = [i \in 1..k + 2 |-> v[i]] /\ v[k + 2] = Received(q, x)
      /\ \A i \in 1..k + 1 : v[i] = w[i]
  BY <1>2
<1> HIDE DEF v
<1>4. (k + 1) + 1 = k + 2 /\ Len(u) + 1 = k + 2
  BY <1>2
<1>5. ASSUME NEW i \in 1..Len(u) PROVE v[i + 1] = Received(v[i], u[i])
  <2>1. CASE i = k + 1
    <3>1. v[i] = q /\ u[i] = x /\ i + 1 = k + 2
      <4>1. k + 1 \in 1..k + 1
        BY <1>2
      <4>2. v[k + 1] = w[k + 1] /\ w[k + 1] = q /\ u[k + 1] = x
        BY <1>1, <1>2, <1>3, <4>1
      <4> QED  BY <1>2, <2>1, <4>2
    <3> QED  BY <1>3, <3>1
  <2>2. CASE i # k + 1
    <3>1. i \in 1..k /\ i \in 1..k + 1 /\ i + 1 \in 1..k + 1
      BY <1>2, <2>2
    <3>2. w[i + 1] = Received(w[i], ms[i])
      BY <1>1, <3>1 DEF Walk, k
    <3> QED  BY <1>2, <1>3, <3>1, <3>2
  <2> QED  BY <2>1, <2>2
<1>6. Walk(v, u)
  BY <1>3, <1>4, <1>5 DEF Walk
<1>7. ASSUME NEW i \in 1..Len(u) + 1 PROVE Sees(v[i], g, n)
  <2>1. CASE i = k + 2
    BY <1>3, <2>1
  <2>2. CASE i # k + 2
    <3>1. i \in 1..k + 1
      BY <1>2, <1>4, <2>2
    <3> QED  BY <1>1, <1>3, <3>1
  <2> QED  BY <2>1, <2>2
<1>8. v[1] = p /\ v[Len(u) + 1] = Received(q, x)
  <2>1. 1 \in 1..k + 1
    BY <1>2
  <2> QED  BY <1>1, <1>3, <1>4, <2>1
<1> QED  BY <1>6, <1>7, <1>8 DEF Ends, u

LEMMA EndsHead ==
  ASSUME NEW p, NEW ms, IsSeq(ms), ms # <<>>, NEW q, NEW g, NEW n, Ends(p, ms, q, g, n)
  PROVE  /\ Ends(Received(p, Head(ms)), Tail(ms), q, g, n)
         /\ Sees(p, g, n) /\ Sees(Received(p, Head(ms)), g, n)
<1> DEFINE k == Len(ms)
           u == Tail(ms)
<1>1. PICK w : /\ Walk(w, ms) /\ w[1] = p /\ w[k + 1] = q
               /\ \A i \in 1..k + 1 : Sees(w[i], g, n)
  BY DEF Ends
<1>2. /\ k \in Nat /\ k > 0 /\ Len(u) = k - 1 /\ Head(ms) = ms[1]
      /\ \A i \in 1..k - 1 : u[i] = ms[i + 1]
  BY SeqIs, FirstIs
<1>3. w = [i \in 1..k + 1 |-> w[i]] /\ \A i \in 1..k : w[i + 1] = Received(w[i], ms[i])
  BY <1>1 DEF Walk
<1> DEFINE v == [i \in 1..k |-> w[i + 1]]
<1> HIDE DEF k, u
<1>4. v = [i \in 1..k |-> v[i]] /\ \A i \in 1..k : v[i] = w[i + 1]
  OBVIOUS
<1> HIDE DEF v
<1>5. Len(u) + 1 = k
  BY <1>2
<1>6. ASSUME NEW i \in 1..Len(u) PROVE v[i + 1] = Received(v[i], u[i])
  <2>1. i \in 1..k - 1 /\ i \in 1..k /\ i + 1 \in 1..k
    BY <1>2
  <2>2. v[i] = w[i + 1] /\ v[i + 1] = w[(i + 1) + 1]
    BY <1>4, <2>1
  <2>3. w[(i + 1) + 1] = Received(w[i + 1], ms[i + 1])
    BY <1>3, <2>1
  <2> QED  BY <1>2, <2>1, <2>2, <2>3
<1>7. Walk(v, u)
  BY <1>4, <1>5, <1>6 DEF Walk
<1>8. ASSUME NEW i \in 1..Len(u) + 1 PROVE Sees(v[i], g, n)
  <2>1. i \in 1..k /\ i + 1 \in 1..k + 1
    BY <1>2, <1>5
  <2> QED  BY <1>1, <1>4, <2>1
<1>9. 1 \in 1..k /\ 1 \in 1..k + 1 /\ k \in 1..k
  BY <1>2
<1>10. v[1] = Received(p, Head(ms)) /\ v[Len(u) + 1] = q
  <2>1. w[1 + 1] = Received(w[1], ms[1])
    BY <1>3, <1>9
  <2> QED  BY <1>1, <1>2, <1>4, <1>5, <1>9, <2>1
<1>11. Sees(p, g, n) /\ Sees(Received(p, Head(ms)), g, n)
  <2>1. 1 \in 1..Len(u) + 1
    BY <1>5, <1>9
  <2> QED  BY <1>1, <1>8, <1>9, <1>10, <2>1
<1>12. Ends(Received(p, Head(ms)), u, q, g, n)
  BY <1>7, <1>8, <1>10 DEF Ends
<1> QED  BY <1>11, <1>12 DEF u

LEMMA EndsFirst ==
  ASSUME NEW p, NEW ms, IsSeq(ms), NEW q, NEW g, NEW n, Ends(p, ms, q, g, n)
  PROVE  Sees(p, g, n) /\ Sees(q, g, n) /\ (ms = <<>> => q = p)
<1>1. PICK w : /\ Walk(w, ms) /\ w[1] = p /\ w[Len(ms) + 1] = q
               /\ \A i \in 1..Len(ms) + 1 : Sees(w[i], g, n)
  BY DEF Ends
<1>2. Len(ms) \in Nat
  BY SeqIs
<1>3. 1 \in 1..Len(ms) + 1 /\ Len(ms) + 1 \in 1..Len(ms) + 1
  BY <1>2
<1>4. ms = <<>> => Len(ms) + 1 = 1
  OBVIOUS
<1> QED  BY <1>1, <1>3, <1>4

(* The panes on the way see another grid as they saw the one before.        *)
LEMMA EndsSees ==
  ASSUME NEW p, NEW ms, NEW q, NEW g, NEW n, Ends(p, ms, q, g, n), NEW h, NEW k,
         \A x : Sees(x, g, n) => Sees(x, h, k)
  PROVE  Ends(p, ms, q, h, k)
<1>1. PICK w : /\ Walk(w, ms) /\ w[1] = p /\ w[Len(ms) + 1] = q
               /\ \A i \in 1..Len(ms) + 1 : Sees(w[i], g, n)
  BY DEF Ends
<1>2. \A i \in 1..Len(ms) + 1 : Sees(w[i], h, k)
  BY <1>1
<1> QED  BY <1>1, <1>2 DEF Ends

LEMMA SeesAlike ==
  ASSUME NEW g, GridSane(g), NEW h, Alike(g, h), NEW n \in Nat, NEW k \in Nat, n <= k,
         NEW x, Sees(x, g, n)
  PROVE  Sees(x, h, k)
<1>1. PaneFine(x) /\ x.mirror.gen <= n /\ x.mirror.gen \in Nat
  BY DEF Sees, PaneFine, MirrorFine
<1>2. x.mirror.gen # None => Follows(x.mirror, h)
  BY FollowsAlike DEF Sees, PaneFine
<1> QED  BY <1>1, <1>2 DEF Sees

LEMMA SeesUpdate ==
  ASSUME NEW t, Sound(t), NEW g, GridSane(g), g.rendered, NEW n, NEW x, Sees(x, g, n)
  PROVE  Sees(x, Update(g, t), n)
BY FollowsUpdate DEF Sees, PaneFine

LEMMA SeesOther ==
  ASSUME NEW g, NEW h, NEW n \in Nat, NEW k \in Nat, n <= k, NEW x, Sees(x, g, n),
         x.mirror.gen # None => h.gen # x.mirror.gen
  PROVE  Sees(x, h, k)
<1>1. PaneFine(x) /\ x.mirror.gen <= n /\ x.mirror.gen \in Nat
  BY DEF Sees, PaneFine, MirrorFine
<1> QED  BY <1>1 DEF Sees, Follows

LEMMA PaneIs ==
  ASSUME NEW p, NEW g, NEW n, Sees(p, g, n)
  PROVE  /\ p \in [mirror : {p.mirror}, stale : BOOLEAN, refused : {FALSE}]
         /\ MirrorFine(p.mirror) /\ p.refused = FALSE /\ p.stale \in BOOLEAN
         /\ p.mirror.gen \in Nat /\ p.mirror.gen <= n
         /\ p = [mirror |-> p.mirror, stale |-> p.stale, refused |-> FALSE]
<1>1. p \in [mirror : {p.mirror}, stale : BOOLEAN, refused : {FALSE}] /\ MirrorFine(p.mirror)
      /\ p.mirror.gen <= n
  BY DEF Sees, PaneFine
<1>2. p.mirror.gen \in Nat
  BY <1>1 DEF MirrorFine
<1> QED  BY <1>1, <1>2

LEMMA PaneWith ==
  ASSUME NEW p, p \in [mirror : {p.mirror}, stale : BOOLEAN, refused : {FALSE}], NEW m, NEW stale
  PROVE  /\ [p EXCEPT !.mirror = m, !.stale = stale]
              = [mirror |-> m, stale |-> stale, refused |-> FALSE]
         /\ [p EXCEPT !.stale = stale]
              = [mirror |-> p.mirror, stale |-> stale, refused |-> FALSE]
         /\ [p EXCEPT !.mirror = m]
              = [mirror |-> m, stale |-> p.stale, refused |-> FALSE]
<1>1. p = [mirror |-> p.mirror, stale |-> p.stale, refused |-> p.refused] /\ p.refused = FALSE
  OBVIOUS
<1>2. [p EXCEPT !.mirror = m, !.stale = stale] = [mirror |-> m, stale |-> stale, refused |-> FALSE]
  <2> DEFINE q == [p EXCEPT !.mirror = m, !.stale = stale]
  <2>1. q = [p EXCEPT !.mirror = m, !.stale = stale]
    OBVIOUS
  <2> HIDE DEF q
  <2>2. q.mirror = m /\ q.stale = stale /\ q.refused = FALSE
    BY <1>1, <2>1
  <2>3. q = [mirror |-> q.mirror, stale |-> q.stale, refused |-> q.refused]
    BY <1>1, <2>1
  <2> QED  BY <2>2, <2>3 DEF q
<1>3. [p EXCEPT !.stale = stale] = [mirror |-> p.mirror, stale |-> stale, refused |-> FALSE]
  <2> DEFINE q == [p EXCEPT !.stale = stale]
  <2>1. q = [p EXCEPT !.stale = stale]
    OBVIOUS
  <2> HIDE DEF q
  <2>2. q.mirror = p.mirror /\ q.stale = stale /\ q.refused = FALSE
    BY <1>1, <2>1
  <2>3. q = [mirror |-> q.mirror, stale |-> q.stale, refused |-> q.refused]
    BY <1>1, <2>1
  <2> QED  BY <2>2, <2>3 DEF q
<1>4. [p EXCEPT !.mirror = m] = [mirror |-> m, stale |-> p.stale, refused |-> FALSE]
  <2> DEFINE q == [p EXCEPT !.mirror = m]
  <2>1. q = [p EXCEPT !.mirror = m]
    OBVIOUS
  <2> HIDE DEF q
  <2>2. q.mirror = m /\ q.stale = p.stale /\ q.refused = FALSE
    BY <1>1, <2>1
  <2>3. q = [mirror |-> q.mirror, stale |-> q.stale, refused |-> q.refused]
    BY <1>1, <2>1
  <2> QED  BY <2>2, <2>3 DEF q
<1> QED  BY <1>2, <1>3, <1>4

LEMMA PaneFrom ==
  ASSUME NEW p, NEW m, NEW stale \in BOOLEAN, MirrorFine(m),
         p = [mirror |-> m, stale |-> stale, refused |-> FALSE]
  PROVE  PaneFine(p) /\ p.mirror = m /\ p.stale = stale /\ p.refused = FALSE
<1>1. p.mirror = m /\ p.stale = stale /\ p.refused = FALSE
  OBVIOUS
<1>2. p \in [mirror : {p.mirror}, stale : BOOLEAN, refused : {FALSE}]
  OBVIOUS
<1> QED  BY <1>1, <1>2 DEF PaneFine

(* A pane whose mirror is what the grid holds.                             *)
LEMMA ExactPane ==
  ASSUME NEW g, GridSane(g), g.gen # None, NEW n, g.gen <= n, NEW p, NEW m, Exact(m, g),
         MirrorFine(m), p = [mirror |-> m, stale |-> FALSE, refused |-> FALSE]
  PROVE  Sees(p, g, n) /\ Stands(p, Holds(g)) /\ p.refused = FALSE
<1>1. PaneFine(p) /\ p.mirror = m /\ p.stale = FALSE /\ p.refused = FALSE
  BY PaneFrom
<1>2. Follows(m, g)
  BY ExactFollows
<1>3. m.gen = g.gen
  BY DEF Exact
<1>4. Sees(p, g, n)
  BY <1>1, <1>2, <1>3 DEF Sees
<1>5. Holds(g) = [gen |-> g.gen, tgen |-> g.tgen, rev |-> g.rev, mark |-> Len(g.styles)]
  BY DEF Holds
<1>6. Stands(p, Holds(g))
  BY <1>1, <1>5 DEF Stands, Exact
<1> QED  BY <1>1, <1>4, <1>6

LEMMA SnapshotTaken ==
  ASSUME NEW g, GridSane(g), g.gen # None, NEW n, g.gen <= n, NEW rows, NEW f, NEW p, Sees(p, f, n)
  PROVE  LET q == Received(p, Snapshot(g, rows))
         IN  Sees(q, g, n) /\ Stands(q, Holds(g)) /\ q.refused = FALSE
<1> DEFINE s == Snapshot(g, rows)
           q == Received(p, s)
           m == p.mirror
           new == IF m.gen = None THEN FromSnapshot(s) ELSE Resnapshot(m, s)
<1>1. s = [kind |-> "Snapshot", gen |-> g.gen, tgen |-> g.tgen, rev |-> g.rev, term |-> g.term,
           styles |-> g.styles, rows |-> g.rows, history |-> rows]
  BY DEF Snapshot
<1>2. s.kind = "Snapshot"
  BY <1>1
<1>3. q = [p EXCEPT !.mirror = new, !.stale = FALSE]
  BY <1>2 DEF Received
<1>4. p \in [mirror : {p.mirror}, stale : BOOLEAN, refused : {FALSE}]
  BY PaneIs
<1>5. FromSnapshot(s) = [gen |-> g.gen, rev |-> g.rev, tgen |-> g.tgen, term |-> g.term,
                         styles |-> g.styles, rows |-> g.rows, history |-> rows]
  BY <1>1 DEF FromSnapshot
<1> HIDE DEF s
<1>6. /\ new.gen = g.gen /\ new.rev = g.rev /\ new.tgen = g.tgen /\ new.term = g.term
      /\ new.styles = g.styles /\ new.rows = g.rows
      /\ new = [gen |-> new.gen, rev |-> new.rev, tgen |-> new.tgen, term |-> new.term,
                styles |-> new.styles, rows |-> new.rows, history |-> new.history]
  <2> DEFINE b == FromSnapshot(s)
             history == Over(b.history, m.history)
             c == [b EXCEPT !.history = history]
  <2>1. new \in {b, c}
    BY DEF Resnapshot
  <2> HIDE DEF new, history
  <2>2. b.gen = g.gen /\ b.rev = g.rev /\ b.tgen = g.tgen /\ b.term = g.term
        /\ b.styles = g.styles /\ b.rows = g.rows /\ b.history = rows
    BY <1>5
  <2>3. b = [gen |-> b.gen, rev |-> b.rev, tgen |-> b.tgen, term |-> b.term,
             styles |-> b.styles, rows |-> b.rows, history |-> b.history]
    BY <1>5
  <2> HIDE DEF b
  <2>4. c.gen = b.gen /\ c.rev = b.rev /\ c.tgen = b.tgen /\ c.term = b.term
        /\ c.styles = b.styles /\ c.rows = b.rows
    BY <2>3
  <2>5. c = [gen |-> c.gen, rev |-> c.rev, tgen |-> c.tgen, term |-> c.term,
             styles |-> c.styles, rows |-> c.rows, history |-> c.history]
    BY <2>3
  <2> HIDE DEF c
  <2>6. CASE new = b
    BY <2>2, <2>3, <2>6
  <2>7. CASE new = c
    BY <2>2, <2>4, <2>5, <2>7
  <2> QED  BY <2>1, <2>6, <2>7
<1> HIDE DEF new
<1>7. q = [mirror |-> new, stale |-> FALSE, refused |-> FALSE]
  BY <1>3, <1>4, PaneWith
<1>8. Exact(new, g)
  BY <1>6 DEF Exact
<1>9. MirrorFine(new)
  BY <1>6, <1>8, MirrorRecord
<1> HIDE DEF q
<1>10. Sees(q, g, n) /\ Stands(q, Holds(g)) /\ q.refused = FALSE
  BY <1>7, <1>8, <1>9, ExactPane
<1> QED  BY <1>10 DEF q, s

LEMMA ResetTaken ==
  ASSUME NEW g, NEW n, NEW p, Sees(p, g, n)
  PROVE  Sees(Received(p, [kind |-> "ResetTables"]), g, n)
<1> DEFINE x == [kind |-> "ResetTables"]
           q == Received(p, x)
<1>1. x.kind = "ResetTables"
  OBVIOUS
<1>2. q = [p EXCEPT !.stale = TRUE]
  BY <1>1 DEF Received
<1>3. p \in [mirror : {p.mirror}, stale : BOOLEAN, refused : {FALSE}] /\ MirrorFine(p.mirror)
  BY PaneIs
<1> HIDE DEF q
<1>4. q = [mirror |-> p.mirror, stale |-> TRUE, refused |-> FALSE]
  BY <1>2, <1>3, PaneWith
<1>5. PaneFine(q) /\ q.mirror = p.mirror
  BY <1>3, <1>4, PaneFrom
<1>6. Sees(q, g, n)
  BY <1>5 DEF Sees
<1> QED  BY <1>6 DEF q

LEMMA DeltaTaken ==
  ASSUME NEW g, GridSane(g), g.gen # None, NEW n, NEW p, Sees(p, g, n), NEW held,
         Stands(p, held), held.gen # None, CanCut(g, held)
  PROVE  LET q == Received(p, Delta(g, held))
         IN  Sees(q, g, n) /\ Stands(q, Holds(g)) /\ q.refused = FALSE
<1> DEFINE d == Delta(g, held)
           m == p.mirror
           q == Received(p, d)
           a == Applies(m, d)
<1>1. ~p.stale /\ Matches(m, held)
  BY DEF Stands, Matches
<1>2. MirrorFine(m) /\ m.gen # None /\ Follows(m, g) /\ m.gen = g.gen /\ m.gen <= n
  BY <1>1, PaneIs DEF Sees, Matches, CanCut
<1>3. Fits(m, g, held)
  BY <1>1, <1>2 DEF Fits
<1>4. d.kind = "Delta"
  BY <1>3, DeltaIs
<1>5. ~Refuses(p, d)
  BY <1>1, <1>3, NotRefused
<1>6. q = [p EXCEPT !.mirror = a]
  BY <1>4, <1>5 DEF Received
<1>7. p \in [mirror : {p.mirror}, stale : BOOLEAN, refused : {FALSE}] /\ p.stale = FALSE
  BY <1>1, PaneIs
<1>8. Exact(a, g) /\ MirrorFine(a)
  BY <1>3, AppliesIs
<1> HIDE DEF a, q
<1>9. q = [mirror |-> a, stale |-> FALSE, refused |-> FALSE]
  <2>1. [p EXCEPT !.mirror = a] = [mirror |-> a, stale |-> p.stale, refused |-> FALSE]
    BY <1>7, PaneWith
  <2> QED  BY <1>6, <1>7, <2>1
<1>10. Sees(q, g, n) /\ Stands(q, Holds(g)) /\ q.refused = FALSE
  BY <1>2, <1>8, <1>9, ExactPane
<1> QED  BY <1>10 DEF q
(* A mirror that has more styles, and is otherwise as it was.              *)
Restyled(m, q) ==
  /\ q.gen = m.gen /\ q.rev = m.rev /\ q.tgen = m.tgen /\ q.term = m.term /\ q.rows = m.rows
  /\ q.styles \in Seq(Cell) /\ Starts(m.styles, q.styles)
  /\ q = [gen |-> q.gen, rev |-> q.rev, tgen |-> q.tgen, term |-> q.term,
          styles |-> q.styles, rows |-> q.rows, history |-> q.history]

LEMMA RestyledFine ==
  ASSUME NEW m, MirrorFine(m), m.gen # None, NEW q, Restyled(m, q)
  PROVE  MirrorFine(q)
<1>1. /\ m.rev \in Nat /\ m.tgen \in Nat /\ m.gen \in Nat /\ m.term \in Term
      /\ m.rows \in Seq(Row) /\ Len(m.rows) = m.term.size /\ m.styles \in Seq(Cell)
      /\ Len(m.styles) > 0 /\ Encodes(m.styles, m.rows)
  BY MirrorIs
<1>2. /\ q.gen = m.gen /\ q.rev = m.rev /\ q.tgen = m.tgen /\ q.term = m.term /\ q.rows = m.rows
      /\ q.styles \in Seq(Cell) /\ Starts(m.styles, q.styles)
      /\ q = [gen |-> q.gen, rev |-> q.rev, tgen |-> q.tgen, term |-> q.term,
              styles |-> q.styles, rows |-> q.rows, history |-> q.history]
  BY DEF Restyled
<1>3. Len(q.styles) > 0
  BY <1>1, <1>2 DEF Starts
<1>4. Encodes(q.styles, q.rows)
  <2>1. ASSUME NEW y \in 1..Len(m.rows) PROVE m.rows[y].cell < Len(q.styles)
    <3>1. m.rows[y].cell < Len(m.styles) /\ m.rows[y].cell \in Nat
      <4>1. m.rows[y] \in Row
        BY <1>1
      <4> QED  BY <1>1, <4>1 DEF Encodes, Row
    <3>2. Len(m.styles) <= Len(q.styles) /\ Len(m.styles) \in Nat /\ Len(q.styles) \in Nat
      BY <1>1, <1>2 DEF Starts
    <3> QED  BY <3>1, <3>2
  <2> QED  BY <1>2, <2>1 DEF Encodes
<1>5. q.gen \in Nat /\ q.rev \in Nat /\ q.tgen \in Nat /\ q.term \in Term /\ q.rows \in Seq(Row)
      /\ Len(q.rows) = q.term.size
  BY <1>1, <1>2
<1>6. q \in [gen : Nat, rev : Nat, tgen : Nat, term : Term \cup {<<>>}, styles : Seq(Cell),
             rows : Seq(Row), history : {q.history}]
  <2> DEFINE A == q.gen
             B == q.rev
             C == q.tgen
             D == q.term
             E == q.styles
             F == q.rows
             H == q.history
  <2>1. A \in Nat /\ B \in Nat /\ C \in Nat /\ D \in Term \cup {<<>>} /\ E \in Seq(Cell)
        /\ F \in Seq(Row) /\ H \in {H}
    BY <1>2, <1>5
  <2>2. q = [gen |-> A, rev |-> B, tgen |-> C, term |-> D, styles |-> E, rows |-> F, history |-> H]
    BY <1>2
  <2> HIDE DEF A, B, C, D, E, F, H
  <2>3. q \in [gen : Nat, rev : Nat, tgen : Nat, term : Term \cup {<<>>}, styles : Seq(Cell),
             rows : Seq(Row), history : {H}]
    BY <2>1, <2>2
  <2> QED  BY <2>3 DEF H
<1> QED  BY <1>2, <1>3, <1>4, <1>5, <1>6 DEF MirrorFine

LEMMA RestyledFollows ==
  ASSUME NEW m, NEW q, Restyled(m, q), NEW g, Follows(m, g),
         m.gen = g.gen /\ m.tgen = g.tgen => Starts(q.styles, g.styles)
  PROVE  Follows(q, g)
<1>1. /\ q.gen = m.gen /\ q.rev = m.rev /\ q.tgen = m.tgen /\ q.term = m.term /\ q.rows = m.rows
  BY DEF Restyled
<1>2. Has(m, g) => Has(q, g)
  BY <1>1, Zenon DEF Has
<1> QED  BY <1>1, <1>2, Zenon DEF Follows

LEMMA RestyledPane ==
  ASSUME NEW g, NEW n, NEW p, Sees(p, g, n), p.mirror.gen # None, NEW q, NEW m,
         Restyled(p.mirror, m), q = [mirror |-> m, stale |-> p.stale, refused |-> FALSE],
         p.mirror.gen = g.gen /\ p.mirror.tgen = g.tgen => Starts(m.styles, g.styles)
  PROVE  Sees(q, g, n) /\ q.mirror = m /\ q.stale = p.stale /\ q.refused = FALSE
<1>1. MirrorFine(p.mirror) /\ p.stale \in BOOLEAN /\ p.mirror.gen <= n
  BY PaneIs
<1>2. MirrorFine(m)
  BY <1>1, RestyledFine
<1>3. PaneFine(q) /\ q.mirror = m /\ q.stale = p.stale /\ q.refused = FALSE
  BY <1>1, <1>2, PaneFrom
<1>4. Follows(p.mirror, g)
  BY DEF Sees
<1>5. Follows(m, g)
  BY <1>4, RestyledFollows
<1>6. m.gen = p.mirror.gen
  BY DEF Restyled
<1> QED  BY <1>1, <1>3, <1>5, <1>6 DEF Sees

LEMMA AppliesHistoryIs ==
  ASSUME NEW m, MirrorFine(m), m.gen # None, NEW x, NEW styles \in Seq(Cell),
         Extended(m.styles, x.styles) = styles, Starts(m.styles, styles)
  PROVE  Restyled(m, AppliesHistory(m, x)) /\ AppliesHistory(m, x).styles = styles
<1> DEFINE history == IF x.epoch = m.term.epoch THEN Over(x.rows, m.history) ELSE m.history
           q == AppliesHistory(m, x)
<1>1. m = [gen |-> m.gen, rev |-> m.rev, tgen |-> m.tgen, term |-> m.term,
           styles |-> m.styles, rows |-> m.rows, history |-> m.history]
  BY DEF MirrorFine
<1>2. q = [m EXCEPT !.styles = styles, !.history = history]
  <2>1. q = [m EXCEPT !.styles = Extended(m.styles, x.styles), !.history = history]
    BY <1>1 DEF AppliesHistory
  <2> QED  BY <2>1
<1> HIDE DEF q, history
<1>3. q.gen = m.gen /\ q.rev = m.rev /\ q.tgen = m.tgen /\ q.term = m.term /\ q.rows = m.rows
      /\ q.styles = styles
  BY <1>1, <1>2
<1>4. q = [gen |-> q.gen, rev |-> q.rev, tgen |-> q.tgen, term |-> q.term,
           styles |-> q.styles, rows |-> q.rows, history |-> q.history]
  BY <1>1, <1>2
<1>5. Restyled(m, q)
  BY <1>3, <1>4 DEF Restyled
<1> QED  BY <1>3, <1>5 DEF q

(* The reply of a hub whose tables the client holds a start of.            *)
LEMMA HistoryTaken ==
  ASSUME NEW g, GridSane(g), NEW n, NEW p, Sees(p, g, n), NEW held, Stands(p, held),
         held.gen # None, held.gen = g.gen, held.tgen = g.tgen,
         NEW x, x.kind = "History", x.styles = From(g.styles, held.mark),
         \A line \in DOMAIN x.rows : x.rows[line] < Len(g.styles),
         NEW after, after.gen = held.gen, after.tgen = held.tgen, after.rev = held.rev,
         after.mark = Len(g.styles)
  PROVE  Sees(Received(p, x), g, n) /\ Stands(Received(p, x), after)
<1> DEFINE m == p.mirror
           a == AppliesHistory(m, x)
           q == Received(p, x)
<1>1. ~p.stale /\ m.gen = held.gen /\ m.tgen = held.tgen /\ m.rev = held.rev
      /\ Len(m.styles) = held.mark /\ m.gen # None
  BY DEF Stands
<1>2. MirrorFine(m) /\ Follows(m, g)
  BY <1>1, PaneIs DEF Sees
<1>3. m.styles \in Seq(Cell) /\ g.styles \in Seq(Cell)
  BY <1>1, <1>2, MirrorIs DEF GridSane, Rendering
<1>4. Starts(m.styles, g.styles)
  BY <1>1, <1>2 DEF Follows
<1>5. Extended(m.styles, x.styles) = g.styles /\ x.styles.mark = Len(m.styles)
  BY <1>1, <1>3, <1>4, ExtendedIs
<1>6. Known(m.styles, x.styles, Range(x.rows))
  <2>1. x.styles.mark <= Len(m.styles)
    BY <1>3, <1>5
  <2>2. \A id \in Range(x.rows) : id < Len(g.styles)
    BY DEF Range
  <2> QED  BY <1>5, <2>1, <2>2 DEF Known
<1>7. q = [p EXCEPT !.mirror = a]
  BY <1>1, <1>6 DEF Received
<1>8. Restyled(m, a) /\ a.styles = g.styles
  BY <1>1, <1>2, <1>3, <1>4, <1>5, AppliesHistoryIs
<1> HIDE DEF a, q
<1>9. q = [mirror |-> a, stale |-> p.stale, refused |-> FALSE]
  <2>1. p \in [mirror : {p.mirror}, stale : BOOLEAN, refused : {FALSE}]
    BY PaneIs
  <2> QED  BY <1>7, <2>1, PaneWith
<1>10. Starts(a.styles, g.styles)
  BY <1>3, <1>8, StartsSelf
<1>11. Sees(q, g, n) /\ q.mirror = a /\ q.stale = p.stale
  BY <1>1, <1>8, <1>9, <1>10, RestyledPane
<1>12. a.gen = m.gen /\ a.rev = m.rev /\ a.tgen = m.tgen
  BY <1>8 DEF Restyled
<1>13. Stands(q, after)
  BY <1>1, <1>8, <1>11, <1>12 DEF Stands
<1> QED  BY <1>11, <1>13 DEF q

LEMMA NothingAdded ==
  ASSUME NEW s \in Seq(Cell)
  PROVE  Extended(s, From(<<>>, 0)) = s /\ From(<<>>, 0).mark = 0
<1>1. From(<<>>, 0).mark = 0 /\ From(<<>>, 0).defs = SubSeq(<<>>, 1, 0)
  <2>1. Len(<<>>) = 0 /\ 0 + 1 = 1
    OBVIOUS
  <2> QED  BY <2>1 DEF From
<1>2. \A k \in Nat : SubSeq(<<>>, k + 1, 0) = <<>>
  OBVIOUS
<1>3. SubSeq(<<>>, 1, 0) = <<>>
  OBVIOUS
<1>4. From(<<>>, 0).defs = <<>>
  BY <1>1, <1>3, Zenon
<1>5. Extended(s, From(<<>>, 0)) = s \o <<>>
  <2> DEFINE f == From(<<>>, 0)
  <2>1. Extended(s, f) = s \o SubSeq(f.defs, Len(s) - f.mark + 1, Len(f.defs))
    BY DEF Extended
  <2>2. f.defs = <<>> /\ f.mark = 0
    BY <1>1, <1>4
  <2> HIDE DEF f
  <2>3. Len(<<>>) = 0 /\ Len(s) \in Nat /\ Len(s) - 0 = Len(s)
    OBVIOUS
  <2>4. SubSeq(f.defs, Len(s) - f.mark + 1, Len(f.defs)) = SubSeq(<<>>, Len(s) + 1, 0)
    BY <2>2, <2>3
  <2>5. SubSeq(<<>>, Len(s) + 1, 0) = <<>>
    BY <1>2, <2>3
  <2> QED  BY <2>1, <2>4, <2>5 DEF f
<1>6. s \o <<>> = s
  OBVIOUS
<1> QED  BY <1>1, <1>5, <1>6

(* The reply that brings nothing.                                          *)
LEMMA NothingTaken ==
  ASSUME NEW g, NEW n, NEW p, Sees(p, g, n), NEW held, Stands(p, held),
         NEW x, x.kind = "History", x.styles = From(<<>>, 0), x.rows = <<>>
  PROVE  Sees(Received(p, x), g, n) /\ Stands(Received(p, x), held)
<1> DEFINE m == p.mirror
           a == AppliesHistory(m, x)
           q == Received(p, x)
<1>1. MirrorFine(m) /\ p \in [mirror : {p.mirror}, stale : BOOLEAN, refused : {FALSE}]
  BY PaneIs
<1>2. CASE m.gen = None \/ p.stale
  <2>1. q = p
    BY <1>2 DEF Received
  <2> QED  BY <2>1
<1>3. CASE m.gen # None /\ ~p.stale
  <2>1. m.styles \in Seq(Cell) /\ Len(m.styles) \in Nat
    BY <1>1, <1>3, MirrorIs
  <2>2. Extended(m.styles, x.styles) = m.styles /\ x.styles.mark = 0
    BY <2>1, NothingAdded
  <2>3. Range(x.rows) = {}
    BY DEF Range
  <2>4. Known(m.styles, x.styles, Range(x.rows))
    BY <2>1, <2>2, <2>3 DEF Known
  <2>5. q = [p EXCEPT !.mirror = a]
    BY <1>3, <2>4 DEF Received
  <2>6. Restyled(m, a) /\ a.styles = m.styles
    <3>1. Starts(m.styles, m.styles)
      BY <2>1, StartsSelf
    <3> QED  BY <1>1, <1>3, <2>1, <2>2, <3>1, AppliesHistoryIs
  <2> HIDE DEF a, q
  <2>7. q = [mirror |-> a, stale |-> p.stale, refused |-> FALSE]
    BY <1>1, <2>5, PaneWith
  <2>8. m.gen = g.gen /\ m.tgen = g.tgen => Starts(a.styles, g.styles)
    BY <1>3, <2>6 DEF Sees, Follows
  <2>9. Sees(q, g, n) /\ q.mirror = a /\ q.stale = p.stale
    BY <1>3, <2>6, <2>7, <2>8, RestyledPane
  <2>10. Stands(q, held)
    BY <2>6, <2>9 DEF Stands, Restyled
  <2> QED  BY <2>9, <2>10 DEF q
<1> QED  BY <1>2, <1>3


-----------------------------------------------------------------------------
(* Frames on their way, and acknowledgements on theirs.                    *)

(* The places of Tail are the places of the sequence, one less.            *)
LEMMA OneLess ==
  ASSUME NEW n \in Nat, NEW K \in SUBSET (1..n), NEW J \in SUBSET (1..n),
         \A i \in K : i # 1 => i - 1 \in J
  PROVE  /\ IsFiniteSet(K) /\ IsFiniteSet(J) /\ Cardinality(K) \in Nat /\ Cardinality(J) \in Nat
         /\ Cardinality(K) <= Cardinality(J) + (IF 1 \in K THEN 1 ELSE 0)
<1>1. IsFiniteSet(1..n)
  BY FS_Interval
<1>2. IsFiniteSet(K) /\ IsFiniteSet(J)
  BY <1>1, FS_Subset
<1>3. Cardinality(K) \in Nat /\ Cardinality(J) \in Nat
  BY <1>2, FS_CardinalityType
<1> DEFINE R == K \ {1}
<1>4. IsFiniteSet(R) /\ Cardinality(R) = IF 1 \in K THEN Cardinality(K) - 1 ELSE Cardinality(K)
  BY <1>2, FS_RemoveElement
<1> DEFINE f == [i \in R |-> i - 1]
<1>5. f \in [R -> J]
  OBVIOUS
<1>6. \A i, j \in R : f[i] = f[j] => i = j
  <2>1. \A i \in R : i \in Nat /\ f[i] = i - 1
    OBVIOUS
  <2> HIDE DEF f, R
  <2> QED  BY <2>1
<1> HIDE DEF f, R
<1>7. f \in Injection(R, J)
  BY <1>5, <1>6 DEF Injection, IsInjective
<1>9. Cardinality(R) <= Cardinality(J)
  BY <1>2, <1>7, FS_Injection
<1> QED  BY <1>2, <1>3, <1>4, <1>9

IsFrame(x) == x.kind \in {"Snapshot", "Delta"}

LEMMA FramesNat ==
  ASSUME NEW ms, IsSeq(ms)
  PROVE  Frames(ms) \subseteq 1..Len(ms) /\ IsFiniteSet(Frames(ms)) /\ Cardinality(Frames(ms)) \in Nat
<1>1. Len(ms) \in Nat
  BY SeqIs
<1>2. Frames(ms) \in SUBSET (1..Len(ms))
  BY DEF Frames
<1>3. IsFiniteSet(1..Len(ms))
  BY <1>1, FS_Interval
<1>4. IsFiniteSet(Frames(ms))
  BY <1>2, <1>3, FS_Subset
<1> QED  BY <1>2, <1>4, FS_CardinalityType

LEMMA AcksNat ==
  ASSUME NEW us, IsSeq(us)
  PROVE  AcksIn(us) \subseteq 1..Len(us) /\ IsFiniteSet(AcksIn(us)) /\ Cardinality(AcksIn(us)) \in Nat
<1>1. Len(us) \in Nat
  BY SeqIs
<1>2. AcksIn(us) \in SUBSET (1..Len(us))
  BY DEF AcksIn
<1>3. IsFiniteSet(1..Len(us))
  BY <1>1, FS_Interval
<1>4. IsFiniteSet(AcksIn(us))
  BY <1>2, <1>3, FS_Subset
<1> QED  BY <1>2, <1>4, FS_CardinalityType

LEMMA FramesAppend ==
  ASSUME NEW ms, IsSeq(ms), NEW x
  PROVE  Cardinality(Frames(Append(ms, x)))
           = Cardinality(Frames(ms)) + (IF IsFrame(x) THEN 1 ELSE 0)
<1>1. /\ Len(ms) \in Nat /\ Len(Append(ms, x)) = Len(ms) + 1 /\ Append(ms, x)[Len(ms) + 1] = x
      /\ \A i \in 1..Len(ms) : Append(ms, x)[i] = ms[i]
  BY SeqIs, LastIs
<1>2. Frames(ms) \subseteq 1..Len(ms) /\ IsFiniteSet(Frames(ms)) /\ Cardinality(Frames(ms)) \in Nat
  BY FramesNat
<1>3. CASE IsFrame(x)
  <2>1. Frames(Append(ms, x)) = Frames(ms) \cup {Len(ms) + 1}
    BY <1>1, <1>3 DEF Frames, IsFrame
  <2>2. Len(ms) + 1 \notin Frames(ms)
    BY <1>1, <1>2
  <2> QED  BY <1>2, <1>3, <2>1, <2>2, FS_AddElement
<1>4. CASE ~IsFrame(x)
  <2>1. Frames(Append(ms, x)) = Frames(ms)
    BY <1>1, <1>4 DEF Frames, IsFrame
  <2> QED  BY <1>2, <1>4, <2>1
<1> QED  BY <1>3, <1>4

LEMMA FramesTail ==
  ASSUME NEW ms, IsSeq(ms), ms # <<>>
  PROVE  Cardinality(Frames(ms))
           <= Cardinality(Frames(Tail(ms))) + (IF IsFrame(Head(ms)) THEN 1 ELSE 0)
<1>1. /\ Len(ms) \in Nat /\ IsSeq(Tail(ms)) /\ Len(Tail(ms)) = Len(ms) - 1 /\ Len(ms) > 0
      /\ Head(ms) = ms[1] /\ \A i \in 1..Len(ms) - 1 : Tail(ms)[i] = ms[i + 1]
  BY SeqIs, FirstIs
<1>2. Frames(ms) \in SUBSET (1..Len(ms)) /\ Frames(Tail(ms)) \in SUBSET (1..Len(ms))
  BY <1>1 DEF Frames
<1>3. ASSUME NEW i \in Frames(ms), i # 1 PROVE i - 1 \in Frames(Tail(ms))
  <2>1. i - 1 \in 1..Len(ms) - 1 /\ (i - 1) + 1 = i /\ i \in 1..Len(ms)
    BY <1>1, <1>2, <1>3
  <2>2. Tail(ms)[i - 1] = ms[i]
    BY <1>1, <2>1
  <2> QED  BY <1>1, <1>3, <2>1, <2>2 DEF Frames
<1>4. 1 \in Frames(ms) => IsFrame(Head(ms))
  BY <1>1 DEF Frames, IsFrame
<1>5. /\ Cardinality(Frames(ms)) \in Nat /\ Cardinality(Frames(Tail(ms))) \in Nat
      /\ Cardinality(Frames(ms)) <= Cardinality(Frames(Tail(ms))) + (IF 1 \in Frames(ms) THEN 1 ELSE 0)
  BY <1>1, <1>2, <1>3, OneLess
<1> QED  BY <1>4, <1>5

LEMMA AcksAppend ==
  ASSUME NEW us, IsSeq(us), NEW x
  PROVE  Cardinality(AcksIn(Append(us, x)))
           = Cardinality(AcksIn(us)) + (IF x.kind = "Ack" THEN 1 ELSE 0)
<1>1. /\ Len(us) \in Nat /\ Len(Append(us, x)) = Len(us) + 1 /\ Append(us, x)[Len(us) + 1] = x
      /\ \A i \in 1..Len(us) : Append(us, x)[i] = us[i]
  BY SeqIs, LastIs
<1>2. AcksIn(us) \subseteq 1..Len(us) /\ IsFiniteSet(AcksIn(us)) /\ Cardinality(AcksIn(us)) \in Nat
  BY AcksNat
<1>3. CASE x.kind = "Ack"
  <2>1. AcksIn(Append(us, x)) = AcksIn(us) \cup {Len(us) + 1}
    BY <1>1, <1>3 DEF AcksIn
  <2>2. Len(us) + 1 \notin AcksIn(us)
    BY <1>1, <1>2
  <2> QED  BY <1>2, <1>3, <2>1, <2>2, FS_AddElement
<1>4. CASE x.kind # "Ack"
  <2>1. AcksIn(Append(us, x)) = AcksIn(us)
    BY <1>1, <1>4 DEF AcksIn
  <2> QED  BY <1>2, <1>4, <2>1
<1> QED  BY <1>3, <1>4

LEMMA AcksTail ==
  ASSUME NEW us, IsSeq(us), us # <<>>
  PROVE  Cardinality(AcksIn(us))
           <= Cardinality(AcksIn(Tail(us))) + (IF Head(us).kind = "Ack" THEN 1 ELSE 0)
<1>1. /\ Len(us) \in Nat /\ IsSeq(Tail(us)) /\ Len(Tail(us)) = Len(us) - 1 /\ Len(us) > 0
      /\ Head(us) = us[1] /\ \A i \in 1..Len(us) - 1 : Tail(us)[i] = us[i + 1]
  BY SeqIs, FirstIs
<1>2. AcksIn(us) \in SUBSET (1..Len(us)) /\ AcksIn(Tail(us)) \in SUBSET (1..Len(us))
  BY <1>1 DEF AcksIn
<1>3. ASSUME NEW i \in AcksIn(us), i # 1 PROVE i - 1 \in AcksIn(Tail(us))
  <2>1. i - 1 \in 1..Len(us) - 1 /\ (i - 1) + 1 = i /\ i \in 1..Len(us)
    BY <1>1, <1>2, <1>3
  <2>2. Tail(us)[i - 1] = us[i]
    BY <1>1, <2>1
  <2> QED  BY <1>1, <1>3, <2>1, <2>2 DEF AcksIn
<1>4. 1 \in AcksIn(us) => Head(us).kind = "Ack"
  BY <1>1 DEF AcksIn
<1>5. /\ Cardinality(AcksIn(us)) \in Nat /\ Cardinality(AcksIn(Tail(us))) \in Nat
      /\ Cardinality(AcksIn(us)) <= Cardinality(AcksIn(Tail(us))) + (IF 1 \in AcksIn(us) THEN 1 ELSE 0)
  BY <1>1, <1>2, <1>3, OneLess
<1> QED  BY <1>4, <1>5

-----------------------------------------------------------------------------
(* One attachment's turn.                                                  *)

DeltaDue(a, g) == a.held.gen # None /\ ~a.note /\ CanCut(g, a.held)

AfterTurn(a, g, t) == IF DeltaDue(a, g) THEN g ELSE TailOf(g, t).grid

Reset == [kind |-> "ResetTables"]

Resets(a, g) == IF a.held.gen = g.gen /\ a.held.tgen # g.tgen THEN <<Reset>> ELSE <<>>

Whole(g, t) == Snapshot(TailOf(g, t).grid, TailOf(g, t).rows)

SentTo(a, g, t) ==
  IF DeltaDue(a, g) THEN <<Delta(g, a.held)>> ELSE Resets(a, g) \o <<Whole(g, t)>>

Served(a, g) == [a EXCEPT !.held = Holds(g), !.inFlight = @ + 1, !.note = FALSE]

Idle(a, g, credits) == ~a.visible \/ a.inFlight >= credits \/ Current(a, g)

LEMMA PumpedIs ==
  ASSUME NEW hub, NEW c, NEW t, NEW credits
  PROVE  LET a == hub.atts[c]
             g == hub.grid
         IN  Pumped(hub, c, t, credits)
               = IF Idle(a, g, credits) THEN hub
                 ELSE [grid |-> AfterTurn(a, g, t),
                       atts |-> [hub.atts EXCEPT ![c] = Served(@, AfterTurn(a, g, t))],
                       out  |-> [hub.out EXCEPT ![c] = @ \o SentTo(a, g, t)]]
<1> DEFINE a      == hub.atts[c]
           g      == hub.grid
           delta  == a.held.gen # None /\ ~a.note /\ CanCut(g, a.held)
           tail   == TailOf(g, t)
           after  == IF delta THEN g ELSE tail.grid
           frames == IF delta THEN <<Delta(g, a.held)>>
                     ELSE (IF a.held.gen = g.gen /\ a.held.tgen # g.tgen
                           THEN <<[kind |-> "ResetTables"]>> ELSE <<>>)
                            \o <<Snapshot(tail.grid, tail.rows)>>
           idle   == \/ ~a.visible \/ a.inFlight >= credits
                     \/ a.held.gen = g.gen /\ a.held.tgen = g.tgen /\ a.held.rev = g.rev /\ ~a.note
           served == [a EXCEPT !.held = Holds(after), !.inFlight = @ + 1, !.note = FALSE]
           puts   == [hub.atts EXCEPT ![c] = served]
<1>1. Pumped(hub, c, t, credits)
        = IF idle THEN hub
          ELSE [grid |-> after, atts |-> puts, out |-> [hub.out EXCEPT ![c] = @ \o frames]]
  BY DEF Pumped
<1>2. after = AfterTurn(a, g, t)
  BY DEF AfterTurn, DeltaDue
<1>3. frames = SentTo(a, g, t)
  BY DEF SentTo, DeltaDue, Resets, Reset, Whole
<1>4. idle <=> Idle(a, g, credits)
  BY DEF Idle, Current
<1>5. puts = [hub.atts EXCEPT ![c] = Served(@, after)]
  <2>1. served = Served(a, after)
    <3> HIDE DEF after
    <3> QED  BY DEF Served
  <2> HIDE DEF served
  <2> QED  BY <2>1
<1> HIDE DEF after, frames, idle, puts
<1>6. puts = [hub.atts EXCEPT ![c] = Served(@, AfterTurn(a, g, t))]
  BY <1>2, <1>5
<1>7. CASE idle
  BY <1>1, <1>4, <1>7
<1>8. CASE ~idle
  <2>1. Pumped(hub, c, t, credits)
          = [grid |-> after, atts |-> puts, out |-> [hub.out EXCEPT ![c] = @ \o frames]]
    BY <1>1, <1>8
  <2> QED  BY <1>2, <1>3, <1>4, <1>6, <1>8, <2>1
<1> QED  BY <1>7, <1>8

LEMMA JoinedIs ==
  ASSUME NEW s, IsSeq(s), NEW x, NEW y
  PROVE  /\ s \o <<x>> = Append(s, x) /\ s \o (<<x>> \o <<y>>) = Append(Append(s, x), y)
         /\ <<>> \o <<x>> = <<x>>
<1>1. PICK S : s \in Seq(S)
  BY DEF IsSeq
<1> DEFINE T == S \cup {x, y}
<1>2. s \in Seq(T) /\ x \in T /\ y \in T
  BY <1>1
<1> HIDE DEF T
<1>3. s \o <<x>> = Append(s, x)
  BY <1>2
<1>4. <<>> \o <<x>> = <<x>>
  BY <1>2
<1>5. s \o (<<x>> \o <<y>>) = Append(Append(s, x), y)
  BY <1>2
<1> QED  BY <1>3, <1>4, <1>5

LEMMA FrameKinds ==
  ASSUME NEW g, NEW held, NEW rows
  PROVE  /\ IsFrame(Delta(g, held)) /\ IsFrame(Snapshot(g, rows)) /\ ~IsFrame(Reset)
         /\ Delta(g, held).kind = "Delta" /\ Snapshot(g, rows).kind = "Snapshot"
<1>1. Delta(g, held).kind = "Delta"
  BY DEF Delta
<1>2. Snapshot(g, rows).kind = "Snapshot"
  BY DEF Snapshot
<1>3. Reset.kind = "ResetTables"
  BY DEF Reset
<1> QED  BY <1>1, <1>2, <1>3 DEF IsFrame

(* What is sent takes the client to what the hub holds it to have.         *)
LEMMA SentTaken ==
  ASSUME NEW t, Sound(t), NEW g, GridFine(g), g.rendered, Faithful(g, t), NEW n \in Nat, g.gen <= n,
         NEW a, NEW p, NEW ms, IsSeq(ms), NEW q, Ends(p, ms, q, g, n), Stands(q, a.held)
  PROVE  LET h == AfterTurn(a, g, t)
             u == ms \o SentTo(a, g, t)
         IN  /\ Grown(g, h) /\ GridFine(h) /\ Faithful(h, t) /\ h.rendered /\ h.gen <= n
             /\ \E r : Ends(p, u, r, h, n) /\ Stands(r, Holds(h))
             /\ IsSeq(u) /\ Cardinality(Frames(u)) = Cardinality(Frames(ms)) + 1
<1> DEFINE h == AfterTurn(a, g, t)
           u == ms \o SentTo(a, g, t)
<1>1. GridSane(g) /\ g.gen # None /\ Cardinality(Frames(ms)) \in Nat
  BY FramesNat DEF GridFine
<1>2. CASE DeltaDue(a, g)
  <2> DEFINE d == Delta(g, a.held)
  <2>1. h = g /\ u = Append(ms, d)
    BY <1>2, JoinedIs DEF AfterTurn, SentTo
  <2>2. Sees(q, g, n)
    BY EndsFirst
  <2>3. Sees(Received(q, d), g, n) /\ Stands(Received(q, d), Holds(g))
    BY <1>1, <1>2, <2>2, DeltaTaken DEF DeltaDue
  <2>4. Ends(p, Append(ms, d), Received(q, d), g, n)
    <3> HIDE DEF d
    <3> QED  BY <2>3, EndsAppend
  <2>5. Grown(g, g)
    BY <1>1, GrownSelf
  <2>6. IsFrame(d)
    BY FrameKinds
  <2> HIDE DEF h, u, d
  <2>7. IsSeq(u)
    BY <2>1, SeqIs
  <2>8. Cardinality(Frames(u)) = Cardinality(Frames(ms)) + 1
    BY <2>1, <2>6, FramesAppend
  <2>9. Ends(p, u, Received(q, d), h, n) /\ Stands(Received(q, d), Holds(h))
    BY <2>1, <2>3, <2>4
  <2> QED  BY <2>1, <2>5, <2>7, <2>8, <2>9 DEF h, u
<1>3. CASE ~DeltaDue(a, g)
  <2> DEFINE s == Whole(g, t)
  <2>1. h = TailOf(g, t).grid /\ u = ms \o (Resets(a, g) \o <<s>>)
    BY <1>3 DEF AfterTurn, SentTo
  <2>2. GridFine(h) /\ Faithful(h, t) /\ Grown(g, h) /\ GridSane(h)
    BY <2>1, TailOfIs
  <2>3. h.gen = g.gen /\ h.rendered = g.rendered
    BY <1>1, <2>2, GrownIs
  <2>4. Alike(g, h)
    BY <1>1, <2>2, GrownAlike
  <2>5. \A x : Sees(x, g, n) => Sees(x, h, n)
    BY <1>1, <2>4, SeesAlike
  <2>6. s = Snapshot(h, TailOf(g, t).rows)
    BY <2>1 DEF Whole
  <2> DEFINE rows == TailOf(g, t).rows
  <2>7. \A x : Sees(x, h, n) => Sees(Received(x, s), h, n) /\ Stands(Received(x, s), Holds(h))
    <3> HIDE DEF h, s, rows
    <3>1. s = Snapshot(h, rows)
      BY <2>6 DEF rows
    <3>2. h.gen # None /\ h.gen <= n
      BY <1>1, <2>3
    <3> SUFFICES ASSUME NEW x, Sees(x, h, n)
                 PROVE  Sees(Received(x, s), h, n) /\ Stands(Received(x, s), Holds(h))
      OBVIOUS
    <3> QED  BY <2>2, <3>1, <3>2, SnapshotTaken
  <2>8. IsFrame(s)
    BY <2>6, FrameKinds
  <2> HIDE DEF h, s, rows
  <2>9. Ends(p, ms, q, h, n)
    BY <2>5, EndsSees
  <2>10. Sees(q, h, n)
    BY <2>9, EndsFirst
  <2>11. \E r : /\ Ends(p, u, r, h, n) /\ Stands(r, Holds(h)) /\ IsSeq(u)
                /\ Cardinality(Frames(u)) = Cardinality(Frames(ms)) + 1
    <3>1. CASE Resets(a, g) = <<Reset>>
      <4> DEFINE ms1 == Append(ms, Reset)
                 q1  == Received(q, Reset)
      <4>1. u = Append(ms1, s)
        <5>1. u = ms \o (<<Reset>> \o <<s>>)
          BY <2>1, <3>1
        <5> HIDE DEF u
        <5> QED  BY <5>1, JoinedIs
      <4>2. Sees(q1, h, n)
        BY <2>10, ResetTaken DEF Reset
      <4>3. Ends(p, ms1, q1, h, n) /\ IsSeq(ms1)
        BY <2>9, <4>2, EndsAppend, SeqIs
      <4>4. Cardinality(Frames(ms1)) = Cardinality(Frames(ms))
        BY <1>1, FrameKinds, FramesAppend
      <4> HIDE DEF ms1, q1, u
      <4>5. Sees(Received(q1, s), h, n) /\ Stands(Received(q1, s), Holds(h))
        BY <2>7, <4>2
      <4>6. Ends(p, Append(ms1, s), Received(q1, s), h, n) /\ IsSeq(Append(ms1, s))
        BY <4>3, <4>5, EndsAppend, SeqIs
      <4>7. Cardinality(Frames(Append(ms1, s))) = Cardinality(Frames(ms)) + 1
        BY <2>8, <4>3, <4>4, FramesAppend
      <4> QED  BY <4>1, <4>5, <4>6, <4>7
    <3>2. CASE Resets(a, g) = <<>>
      <4>1. u = Append(ms, s)
        <5>1. u = ms \o (<<>> \o <<s>>)
          BY <2>1, <3>2
        <5> HIDE DEF u
        <5> QED  BY <5>1, JoinedIs
      <4> HIDE DEF u
      <4>2. Sees(Received(q, s), h, n) /\ Stands(Received(q, s), Holds(h))
        BY <2>7, <2>10
      <4>3. Ends(p, Append(ms, s), Received(q, s), h, n) /\ IsSeq(Append(ms, s))
        BY <2>9, <4>2, EndsAppend, SeqIs
      <4>4. Cardinality(Frames(Append(ms, s))) = Cardinality(Frames(ms)) + 1
        BY <2>8, FramesAppend
      <4> QED  BY <4>1, <4>2, <4>3, <4>4
    <3> QED  BY <3>1, <3>2 DEF Resets
  <2> QED  BY <2>2, <2>3, <2>11 DEF h
<1> QED  BY <1>2, <1>3

Window(over) == IF over THEN 255 ELSE Credits

LEMMA LinkedIs ==
  ASSUME NEW a, NEW p, NEW ms, NEW us, NEW g, NEW n, NEW over, Linked(a, p, ms, us, g, n, over)
  PROVE  /\ a \in Attachment /\ IsSeq(ms) /\ us \in Seq(Request) /\ IsSeq(us)
         /\ ~a.on => a = Gone /\ ms = <<>> /\ us = <<>>
         /\ a.visible => a.on
         /\ \E q : Ends(p, ms, q, g, n) /\ Stands(q, a.held)
         /\ ~over => a.inFlight <= Credits
                     /\ a.inFlight <= Cardinality(Frames(ms)) + Cardinality(AcksIn(us))
         /\ Cardinality(Frames(ms)) \in Nat /\ Cardinality(AcksIn(us)) \in Nat
<1>1. /\ a \in Attachment /\ IsSeq(ms) /\ us \in Seq(Request)
      /\ ~a.on => a = Gone /\ ms = <<>> /\ us = <<>>
      /\ Walks(p, ms, a.held, g, n)
      /\ ~over => a.inFlight <= Credits
                  /\ a.inFlight <= Cardinality(Frames(ms)) + Cardinality(AcksIn(us))
  BY DEF Linked
<1>2. IsSeq(us)
  BY <1>1 DEF IsSeq
<1>3. \E q : Ends(p, ms, q, g, n) /\ Stands(q, a.held)
  BY <1>1, WalksEnds
<1>4. a.visible => a.on
  <2>1. Gone.visible = FALSE
    BY DEF Gone
  <2> QED  BY <1>1, <2>1 DEF Attachment
<1>5. Cardinality(Frames(ms)) \in Nat /\ Cardinality(AcksIn(us)) \in Nat
  BY <1>1, <1>2, FramesNat, AcksNat
<1> QED  BY <1>1, <1>2, <1>3, <1>4, <1>5

LEMMA LinkedSees ==
  ASSUME NEW a, NEW p, NEW ms, NEW us, NEW g, NEW n, NEW over, Linked(a, p, ms, us, g, n, over),
         NEW h, NEW k, \A x : Sees(x, g, n) => Sees(x, h, k)
  PROVE  Linked(a, p, ms, us, h, k, over)
<1>1. PICK q : Ends(p, ms, q, g, n) /\ Stands(q, a.held)
  BY LinkedIs
<1>2. Ends(p, ms, q, h, k)
  BY <1>1, EndsSees
<1>3. Walks(p, ms, a.held, h, k)
  BY <1>1, <1>2, WalksEnds
<1> QED  BY <1>3 DEF Linked

LEMMA LinkedOver ==
  ASSUME NEW a, NEW p, NEW ms, NEW us, NEW g, NEW n, NEW over, Linked(a, p, ms, us, g, n, over)
  PROVE  Linked(a, p, ms, us, g, n, TRUE)
BY DEF Linked

LEMMA CaughtAlike ==
  ASSUME NEW a, NEW over, NEW g, NEW h, Caught(a, g, over), h.gen = g.gen, h.rev = g.rev,
         h.tgen = g.tgen, h.rendered = g.rendered
  PROVE  Caught(a, h, over)
BY DEF Caught, Current

LEMMA HoldsIs ==
  ASSUME NEW g, GridSane(g)
  PROVE  /\ Holds(g) \in Held /\ Holds(g).gen = g.gen /\ Holds(g).tgen = g.tgen
         /\ Holds(g).rev = g.rev /\ Holds(g).mark = Len(g.styles)
<1>1. g.gen \in Nat /\ g.tgen \in Nat /\ g.rev \in Nat /\ Len(g.styles) \in Nat
  BY DEF GridSane, Rendering
<1> QED  BY <1>1 DEF Holds, Held

LEMMA ServedIs ==
  ASSUME NEW a \in Attachment, NEW g, GridSane(g)
  PROVE  /\ Served(a, g) \in Attachment /\ Served(a, g).on = a.on
         /\ Served(a, g).visible = a.visible /\ Served(a, g).held = Holds(g)
         /\ Served(a, g).inFlight = a.inFlight + 1 /\ Served(a, g).note = FALSE
         /\ Current(Served(a, g), g)
<1> DEFINE held == Holds(g)
           s == [a EXCEPT !.held = held, !.inFlight = @ + 1, !.note = FALSE]
<1>1. held \in Held /\ held.gen = g.gen /\ held.tgen = g.tgen /\ held.rev = g.rev
  BY HoldsIs
<1> HIDE DEF held
<1>2. s \in Attachment /\ s.on = a.on /\ s.visible = a.visible /\ s.held = held
      /\ s.inFlight = a.inFlight + 1 /\ s.note = FALSE
  <2>1. a.inFlight + 1 \in Nat /\ a.on \in BOOLEAN /\ a.visible \in BOOLEAN
    BY DEF Attachment
  <2>2. a = [on |-> a.on, visible |-> a.visible, held |-> a.held, inFlight |-> a.inFlight,
             note |-> a.note]
    BY DEF Attachment
  <2> DEFINE k  == a.inFlight + 1
             no == FALSE
             a1 == [a EXCEPT !.held = held]
             a2 == [a1 EXCEPT !.inFlight = k]
  <2>7. a1 = [on |-> a1.on, visible |-> a1.visible, held |-> a1.held, inFlight |-> a1.inFlight,
              note |-> a1.note]
        /\ a1.inFlight = a.inFlight
    BY <2>2
  <2>8. s = [a2 EXCEPT !.note = no]
    BY <2>7
  <2> HIDE DEF a1, k, no
  <2>9. a2 = [on |-> a2.on, visible |-> a2.visible, held |-> a2.held, inFlight |-> a2.inFlight,
              note |-> a2.note]
    BY <2>7
  <2> HIDE DEF a2, s
  <2>3. s = [on |-> s.on, visible |-> s.visible, held |-> s.held, inFlight |-> s.inFlight,
             note |-> s.note]
    BY <2>8, <2>9
  <2> USE DEF s, a1, a2, k, no
  <2>4. s.on = a.on /\ s.visible = a.visible /\ s.held = held
        /\ s.inFlight = a.inFlight + 1 /\ s.note = FALSE
    BY <2>2
  <2> HIDE DEF s
  <2>5. s.inFlight \in Nat /\ s.on \in BOOLEAN /\ s.visible \in BOOLEAN /\ s.held \in Held
        /\ s.note \in BOOLEAN
    BY <1>1, <2>1, <2>4
  <2>6. s \in Attachment
    BY <2>3, <2>5 DEF Attachment
  <2> QED  BY <2>4, <2>6
<1>3. Served(a, g) = s
  BY DEF Served, held
<1> HIDE DEF s
<1>4. Current(Served(a, g), g)
  BY <1>1, <1>2, <1>3 DEF Current
<1> QED  BY <1>2, <1>3, <1>4 DEF held

LEMMA TurnLinked ==
  ASSUME NEW t, Sound(t), NEW g, GridFine(g), g.rendered, Faithful(g, t), NEW n \in Nat, g.gen <= n,
         NEW over \in BOOLEAN, NEW a, NEW p, NEW ms, NEW us, Linked(a, p, ms, us, g, n, over),
         ~Idle(a, g, Window(over))
  PROVE  LET h == AfterTurn(a, g, t)
         IN  /\ Linked(Served(a, h), p, ms \o SentTo(a, g, t), us, h, n, over)
             /\ Current(Served(a, h), h)
             /\ Grown(g, h) /\ GridFine(h) /\ Faithful(h, t) /\ h.rendered /\ h.gen <= n
<1> DEFINE h == AfterTurn(a, g, t)
           u == ms \o SentTo(a, g, t)
           s == Served(a, h)
<1>1. a.visible /\ ~(a.inFlight >= Window(over))
  BY DEF Idle
<1>2. a \in Attachment /\ IsSeq(ms) /\ us \in Seq(Request) /\ a.on
  BY <1>1, LinkedIs
<1>3. PICK q : Ends(p, ms, q, g, n) /\ Stands(q, a.held)
  BY LinkedIs
<1>4. /\ Grown(g, h) /\ GridFine(h) /\ Faithful(h, t) /\ h.rendered /\ h.gen <= n
      /\ \E r : Ends(p, u, r, h, n) /\ Stands(r, Holds(h))
      /\ IsSeq(u) /\ Cardinality(Frames(u)) = Cardinality(Frames(ms)) + 1
  BY <1>2, <1>3, SentTaken
<1> HIDE DEF h, u
<1>5. GridSane(h)
  BY <1>4 DEF GridFine
<1>6. /\ s \in Attachment /\ s.on = a.on /\ s.held = Holds(h) /\ s.inFlight = a.inFlight + 1
      /\ Current(s, h)
  BY <1>2, <1>5, ServedIs
<1> HIDE DEF s
<1>7. Walks(p, u, s.held, h, n)
  BY <1>4, <1>6, WalksEnds
<1>8. ~over => s.inFlight <= Credits
               /\ s.inFlight <= Cardinality(Frames(u)) + Cardinality(AcksIn(us))
  <2> SUFFICES ASSUME ~over
               PROVE  s.inFlight <= Credits
                      /\ s.inFlight <= Cardinality(Frames(u)) + Cardinality(AcksIn(us))
    OBVIOUS
  <2>1. a.inFlight <= Cardinality(Frames(ms)) + Cardinality(AcksIn(us))
        /\ Cardinality(Frames(ms)) \in Nat /\ Cardinality(AcksIn(us)) \in Nat
    BY LinkedIs
  <2>2. a.inFlight \in Nat /\ Credits \in Nat
    BY <1>2, GridAssumption DEF Attachment
  <2>3. a.inFlight < Credits
    BY <1>1, <2>2 DEF Window
  <2> QED  BY <1>4, <1>6, <2>1, <2>2, <2>3
<1>9. Linked(s, p, u, us, h, n, over)
  BY <1>2, <1>4, <1>6, <1>7, <1>8 DEF Linked
<1> QED  BY <1>4, <1>6, <1>9 DEF h, u, s

(* The hub, while the clients `done` have had their turns.                 *)
HubFine(hub, ps, us, g, t, n, over, done) ==
  /\ GridFine(hub.grid) /\ hub.grid.rendered /\ Faithful(hub.grid, t) /\ hub.grid.gen <= n
  /\ Grown(g, hub.grid)
  /\ OverClients(hub.atts) /\ OverClients(hub.out)
  /\ \A c \in Clients :
       /\ Linked(hub.atts[c], ps[c], hub.out[c], us[c], hub.grid, n, over)
       /\ hub.atts[c].inFlight <= Credits \/ Caught(hub.atts[c], hub.grid, over)
  /\ \A c \in done : Caught(hub.atts[c], hub.grid, over)

LEMMA PumpedFine ==
  ASSUME NEW g, GridSane(g), NEW t, Sound(t), NEW n \in Nat, NEW over \in BOOLEAN, NEW ps, NEW us,
         NEW done \in SUBSET Clients, NEW hub, HubFine(hub, ps, us, g, t, n, over, done), NEW c \in Clients
  PROVE  HubFine(Pumped(hub, c, t, Window(over)), ps, us, g, t, n, over, done \cup {c})
<1> DEFINE a == hub.atts[c]
           f == hub.grid
           h == AfterTurn(a, f, t)
           s == Served(a, h)
           u == hub.out[c] \o SentTo(a, f, t)
           new == Pumped(hub, c, t, Window(over))
<1>1. /\ GridFine(f) /\ f.rendered /\ Faithful(f, t) /\ f.gen <= n /\ Grown(g, f) /\ GridSane(f)
      /\ OverClients(hub.atts) /\ OverClients(hub.out)
      /\ \A d \in Clients :
           /\ Linked(hub.atts[d], ps[d], hub.out[d], us[d], f, n, over)
           /\ hub.atts[d].inFlight <= Credits \/ Caught(hub.atts[d], f, over)
      /\ \A d \in done : Caught(hub.atts[d], f, over)
  BY DEF HubFine, GridFine
<1>2. CASE Idle(a, f, Window(over))
  <2>1. new = hub
    BY <1>2, PumpedIs, Zenon
  <2>2. Caught(a, f, over)
    <3>1. a \in Attachment
      BY <1>1, LinkedIs
    <3>2. a.inFlight \in Nat /\ Credits \in 1..254
      BY <3>1, GridAssumption DEF Attachment
    <3>3. CASE over
      <4>1. a.inFlight <= Credits \/ Caught(a, f, over)
        BY <1>1
      <4> QED  BY <1>2, <3>2, <3>3, <4>1 DEF Idle, Window, Caught
    <3>4. CASE ~over
      BY <1>2, <3>2, <3>4 DEF Idle, Window, Caught
    <3> QED  BY <3>3, <3>4
  <2> HIDE DEF new
  <2>3. \A d \in done \cup {c} : Caught(hub.atts[d], f, over)
    BY <1>1, <2>2
  <2> QED  BY <1>1, <2>1, <2>3 DEF HubFine, new
<1>3. CASE ~Idle(a, f, Window(over))
  <2>1. new = [grid |-> h, atts |-> [hub.atts EXCEPT ![c] = s], out |-> [hub.out EXCEPT ![c] = u]]
    BY <1>3, PumpedIs, Zenon
  <2>2. /\ Linked(s, ps[c], u, us[c], h, n, over) /\ Current(s, h)
        /\ Grown(f, h) /\ GridFine(h) /\ Faithful(h, t) /\ h.rendered /\ h.gen <= n
    BY <1>1, <1>3, TurnLinked
  <2> HIDE DEF new, s, u, h
  <2>3. Grown(g, h)
    BY <1>1, <2>2, GrownTwice
  <2>4. Alike(f, h) /\ h.gen = f.gen /\ h.rev = f.rev /\ h.tgen = f.tgen /\ h.rendered = f.rendered
    BY <1>1, <2>2, GrownAlike, GrownIs
  <2>5. \A x : Sees(x, f, n) => Sees(x, h, n)
    BY <1>1, <2>4, SeesAlike
  <2>6. new.grid = h /\ OverClients(new.atts) /\ OverClients(new.out)
        /\ new.atts[c] = s /\ new.out[c] = u
        /\ \A d \in Clients : d # c => new.atts[d] = hub.atts[d] /\ new.out[d] = hub.out[d]
    BY <1>1, <2>1 DEF OverClients
  <2>7. Caught(s, h, over)
    BY <2>2 DEF Caught
  <2>8. ASSUME NEW d \in Clients
        PROVE  /\ Linked(new.atts[d], ps[d], new.out[d], us[d], h, n, over)
               /\ new.atts[d].inFlight <= Credits \/ Caught(new.atts[d], h, over)
               /\ d \in done \/ d = c => Caught(new.atts[d], h, over)
    <3>1. CASE d = c
      BY <2>2, <2>6, <2>7, <3>1
    <3>2. CASE d # c
      <4>1. Linked(hub.atts[d], ps[d], hub.out[d], us[d], h, n, over)
        BY <1>1, <2>5, LinkedSees
      <4>2. Caught(hub.atts[d], f, over) => Caught(hub.atts[d], h, over)
        BY <2>4, CaughtAlike
      <4> QED  BY <1>1, <2>6, <3>2, <4>1, <4>2
    <3> QED  BY <3>1, <3>2
  <2>9. \A d \in done \cup {c} : Caught(new.atts[d], new.grid, over)
    BY <2>8, <2>6
  <2>10. \A d \in Clients :
           /\ Linked(new.atts[d], ps[d], new.out[d], us[d], new.grid, n, over)
           /\ new.atts[d].inFlight <= Credits \/ Caught(new.atts[d], new.grid, over)
    BY <2>8, <2>6
  <2>11. GridFine(new.grid) /\ new.grid.rendered /\ Faithful(new.grid, t) /\ new.grid.gen <= n
         /\ Grown(g, new.grid)
    BY <2>2, <2>3, <2>6
  <2>12. HubFine(new, ps, us, g, t, n, over, done \cup {c})
    BY <2>6, <2>9, <2>10, <2>11 DEF HubFine
  <2> QED  BY <2>12 DEF new
<1> QED  BY <1>2, <1>3

(* What is dirty has no part in what is above the viewport.                *)
LEMMA CleanTail ==
  ASSUME NEW t, Sound(t), NEW g
  PROVE  TailOf(g, Clean(t)) = TailOf(g, t)
<1> DEFINE u == Clean(t)
<1>1. u.screen = t.screen /\ u.prim = t.prim /\ u.hist = t.hist /\ u.first = t.first
      /\ u.clears = t.clears
  BY CleanIs
<1> HIDE DEF u
<1>2. \A l : Anchored(l, u) = Anchored(l, t)
  BY <1>1, Zenon DEF Anchored
<1>3. \A l : SettleLines(l, u) = SettleLines(l, t)
  BY <1>1, <1>2, Zenon DEF SettleLines
<1>4. \A l : NewEpoch(l, u) = NewEpoch(l, t)
  BY <1>1, <1>2, Zenon DEF NewEpoch
<1>5. \A f : Settle(f, u) = Settle(f, t)
  BY <1>1, <1>3, <1>4, Zenon DEF Settle
<1>6. \A f, from, count : History(f, u, from, count) = History(f, t, from, count)
  BY <1>1 DEF History
<1>7. \A f : Above(f, u) = Above(f, t)
  BY <1>6, Zenon DEF Above
<1>8. TailOf(g, u) = TailOf(g, t)
  BY <1>5, <1>7, Zenon DEF TailOf
<1> QED  BY <1>8 DEF u

LEMMA CleanPumped ==
  ASSUME NEW t, Sound(t), NEW hub, NEW c, NEW credits
  PROVE  Pumped(hub, c, Clean(t), credits) = Pumped(hub, c, t, credits)
<1>1. \A g : TailOf(g, Clean(t)) = TailOf(g, t)
  BY CleanTail
<1> DEFINE u == Clean(t)
<1> HIDE DEF u
<1>2. \A g : TailOf(g, u) = TailOf(g, t)
  BY <1>1 DEF u
<1>3. \A a, g : AfterTurn(a, g, u) = AfterTurn(a, g, t)
  BY <1>2, Zenon DEF AfterTurn
<1>4. \A g : Whole(g, u) = Whole(g, t)
  BY <1>2, Zenon DEF Whole
<1>5. \A a, g : SentTo(a, g, u) = SentTo(a, g, t)
  BY <1>4, Zenon DEF SentTo
<1> DEFINE a == hub.atts[c]
           g == hub.grid
<1>6. Pumped(hub, c, u, credits)
        = IF Idle(a, g, credits) THEN hub
          ELSE [grid |-> AfterTurn(a, g, u),
                atts |-> [hub.atts EXCEPT ![c] = Served(@, AfterTurn(a, g, u))],
                out  |-> [hub.out EXCEPT ![c] = @ \o SentTo(a, g, u)]]
  BY PumpedIs
<1>7. Pumped(hub, c, t, credits)
        = IF Idle(a, g, credits) THEN hub
          ELSE [grid |-> AfterTurn(a, g, t),
                atts |-> [hub.atts EXCEPT ![c] = Served(@, AfterTurn(a, g, t))],
                out  |-> [hub.out EXCEPT ![c] = @ \o SentTo(a, g, t)]]
  BY PumpedIs
<1>8. AfterTurn(a, g, u) = AfterTurn(a, g, t) /\ SentTo(a, g, u) = SentTo(a, g, t)
  BY <1>3, <1>5
<1>9. Pumped(hub, c, u, credits) = Pumped(hub, c, t, credits)
  BY <1>6, <1>7, <1>8
<1> QED  BY <1>9 DEF u

LEMMA OrderIs ==
  LET order == SetToSeq(Clients)
  IN  /\ Len(order) \in Nat /\ \A i \in 1..Len(order) : order[i] \in Clients
      /\ \A c \in Clients : \E i \in 1..Len(order) : order[i] = c
<1> DEFINE S == Clients
           n == Cardinality(S)
           f == CHOOSE f \in [1..n -> S] : IsInjective(f)
<1>1. n \in Nat /\ ExistsBijection(1..n, S)
  BY GridAssumption, FS_CardinalityType
<1>2. \E g \in [1..n -> S] : IsInjective(g)
  BY <1>1 DEF ExistsBijection, Bijection, Injection
<1>3. f \in [1..n -> S] /\ IsInjective(f)
  BY <1>2
<1>4. SetToSeq(S) = f
  BY DEF SetToSeq
<1> HIDE DEF f
<1>5. f \in Injection(1..n, S)
  BY <1>3 DEF Injection, IsInjective
<1>6. Cardinality(1..n) = Cardinality(S)
  <2> HIDE DEF n
  <2>1. Cardinality(1..n) = n
    BY <1>1, FS_Interval
  <2> QED  BY <2>1 DEF n
<1>7. f \in Surjection(1..n, S)
  BY <1>5, <1>6, GridAssumption, FS_Injection
<1>8. \A c \in S : \E i \in 1..n : f[i] = c
  BY <1>7 DEF Surjection
<1> HIDE DEF n
<1>9. Len(f) = n /\ \A i \in 1..n : f[i] \in S
  BY <1>1, <1>3
<1> QED  BY <1>1, <1>4, <1>8, <1>9

(* The turns taken in order: that there is such a function, as the pump     *)
(* defines it, and what it leaves.                                          *)
TurnsTo(hubs, first, order, t, credits, n) ==
  /\ hubs = [k \in 0..n |-> hubs[k]] /\ hubs[0] = first
  /\ \A k \in 1..n : hubs[k] = Pumped(hubs[k - 1], order[k], t, credits)

LEMMA TurnsExist ==
  ASSUME NEW first, NEW order, NEW t, NEW credits, NEW n \in Nat
  PROVE  \E hubs : TurnsTo(hubs, first, order, t, credits, n)
<1> DEFINE T == {k \in 0..n : \E hubs : TurnsTo(hubs, first, order, t, credits, k)}
<1>1. 0 \in T
  <2>1. TurnsTo([k \in 0..0 |-> first], first, order, t, credits, 0)
    BY DEF TurnsTo
  <2> QED  BY <2>1
<1>2. ASSUME NEW k \in 1..n, k - 1 \in T PROVE k \in T
  <2>1. PICK g : TurnsTo(g, first, order, t, credits, k - 1)
    BY <1>2
  <2> DEFINE last == Pumped(g[k - 1], order[k], t, credits)
             h == [i \in 0..k |-> IF i = k THEN last ELSE g[i]]
  <2> HIDE DEF last
  <2>2. h[k] = last /\ \A i \in 0..k - 1 : h[i] = g[i]
    OBVIOUS
  <2>3. h = [i \in 0..k |-> h[i]]
    OBVIOUS
  <2> HIDE DEF h
  <2>4. h[0] = first
    BY <2>1, <2>2 DEF TurnsTo
  <2>5. ASSUME NEW i \in 1..k PROVE h[i] = Pumped(h[i - 1], order[i], t, credits)
    <3>1. h[i - 1] = g[i - 1]
      BY <2>2
    <3>2. CASE i = k
      BY <2>2, <3>1, <3>2, Zenon DEF last
    <3>3. CASE i # k
      <4>1. i \in 1..k - 1 /\ h[i] = g[i]
        BY <2>2, <3>3
      <4> QED  BY <2>1, <3>1, <4>1, Zenon DEF TurnsTo
    <3> QED  BY <3>2, <3>3
  <2>6. TurnsTo(h, first, order, t, credits, k)
    BY <2>3, <2>4, <2>5, Zenon DEF TurnsTo
  <2> QED  BY <2>6
<1> HIDE DEF T
<1>3. n \in T
  BY <1>1, <1>2, Inductive
<1> QED  BY <1>3 DEF T

LEMMA PumpTurns ==
  ASSUME NEW g, NEW as, NEW t, NEW credits
  PROVE  \E hubs : /\ TurnsTo(hubs, [grid |-> g, atts |-> as, out |-> out], SetToSeq(Clients),
                              t, credits, Len(SetToSeq(Clients)))
                   /\ Pump(g, as, t, credits)
                        = IF g.rendered THEN hubs[Len(SetToSeq(Clients))] ELSE hubs[0]
<1> DEFINE order == SetToSeq(Clients)
           n     == Len(order)
           first == [grid |-> g, atts |-> as, out |-> out]
           hubs[i \in 0..Len(order)] ==
             IF i = 0 THEN [grid |-> g, atts |-> as, out |-> out]
             ELSE Pumped(hubs[i - 1], order[i], t, credits)
<1>1. Pump(g, as, t, credits) = IF g.rendered THEN hubs[n] ELSE hubs[0]
  BY Zenon DEF Pump
<1>2. n \in Nat
  BY OrderIs
<1>3. PICK h : TurnsTo(h, first, order, t, credits, n)
  <2> HIDE DEF n, order, first
  <2> QED  BY <1>2, TurnsExist
<1>4. h = [i \in 0..Len(order) |->
             IF i = 0 THEN [grid |-> g, atts |-> as, out |-> out]
             ELSE Pumped(h[i - 1], order[i], t, credits)]
  <2>1. h = [i \in 0..n |-> h[i]] /\ h[0] = first
        /\ \A i \in 1..n : h[i] = Pumped(h[i - 1], order[i], t, credits)
    <3> HIDE DEF n, order, first
    <3> QED  BY <1>3 DEF TurnsTo
  <2> HIDE DEF order
  <2>2. ASSUME NEW i \in 0..n
        PROVE  h[i] = IF i = 0 THEN [grid |-> g, atts |-> as, out |-> out]
                      ELSE Pumped(h[i - 1], order[i], t, credits)
    <3>1. CASE i = 0
      BY <2>1, <3>1, Zenon
    <3>2. CASE i # 0
      <4>1. i \in 1..n
        BY <1>2, <3>2
      <4> QED  BY <2>1, <3>2, <4>1, Zenon
    <3> QED  BY <3>1, <3>2
  <2> QED  BY <2>1, <2>2, Zenon
<1>5. hubs = [i \in 0..Len(order) |->
                IF i = 0 THEN [grid |-> g, atts |-> as, out |-> out]
                ELSE Pumped(hubs[i - 1], order[i], t, credits)]
  BY <1>4
<1> HIDE DEF hubs, order
<1>6. hubs = [i \in 0..n |-> hubs[i]] /\ hubs[0] = first
      /\ \A i \in 1..n : hubs[i] = Pumped(hubs[i - 1], order[i], t, credits)
  <2>1. 0 \in 0..n /\ \A i \in 1..n : i \in 0..n /\ i # 0
    BY <1>2
  <2>2. hubs[0] = first
    BY <1>5, <2>1, Zenon
  <2>3. ASSUME NEW i \in 1..n PROVE hubs[i] = Pumped(hubs[i - 1], order[i], t, credits)
    <3>1. i \in 0..n /\ i # 0
      BY <2>1
    <3>2. hubs[i] = IF i = 0 THEN [grid |-> g, atts |-> as, out |-> out]
                    ELSE Pumped(hubs[i - 1], order[i], t, credits)
      BY <1>5, <3>1, Zenon
    <3> QED  BY <3>1, <3>2, Zenon
  <2>4. hubs = [i \in 0..n |-> hubs[i]]
    BY <1>5
  <2> QED  BY <2>2, <2>3, <2>4
<1>7. TurnsTo(hubs, first, order, t, credits, n)
  BY <1>6 DEF TurnsTo
<1> QED  BY <1>1, <1>7 DEF order

(* After the turns of all, everyone who watches is caught up.              *)
LEMMA PumpFine ==
  ASSUME NEW g, GridSane(g), g.rendered, NEW t, Sound(t), NEW n \in Nat, NEW over \in BOOLEAN,
         NEW ps, NEW us, NEW as, NEW s, Sound(s), t = s \/ t = Clean(s),
         HubFine([grid |-> g, atts |-> as, out |-> out], ps, us, g, t, n, over, {})
  PROVE  HubFine(Pump(g, as, s, Window(over)), ps, us, g, t, n, over, Clients)
<1> DEFINE order == SetToSeq(Clients)
           k == Len(order)
           first == [grid |-> g, atts |-> as, out |-> out]
           Done(i) == {order[j] : j \in 1..i}
<1>1. PICK hubs : /\ TurnsTo(hubs, first, order, s, Window(over), k)
                  /\ Pump(g, as, s, Window(over)) = hubs[k]
  BY PumpTurns, Zenon
<1>2. /\ k \in Nat /\ \A i \in 1..k : order[i] \in Clients
      /\ \A c \in Clients : \E i \in 1..k : order[i] = c
  BY OrderIs
<1> HIDE DEF order, k
<1>3. HubFine(first, ps, us, g, t, n, over, {})
  OBVIOUS
<1> HIDE DEF first
<1>4. hubs[0] = first /\ \A i \in 1..k : hubs[i] = Pumped(hubs[i - 1], order[i], s, Window(over))
  BY <1>1 DEF TurnsTo
<1> DEFINE T == {i \in 0..k : HubFine(hubs[i], ps, us, g, t, n, over, Done(i))}
<1>5. 0 \in T
  <2>1. Done(0) = {}
    OBVIOUS
  <2> HIDE DEF Done
  <2>2. HubFine(hubs[0], ps, us, g, t, n, over, {})
    BY <1>3, <1>4, Zenon
  <2>3. HubFine(hubs[0], ps, us, g, t, n, over, Done(0))
    BY <2>1, <2>2, Zenon
  <2>4. 0 \in 0..k
    BY <1>2
  <2> QED  BY <2>3, <2>4
<1>6. ASSUME NEW i \in 1..k, i - 1 \in T PROVE i \in T
  <2>1. HubFine(hubs[i - 1], ps, us, g, t, n, over, Done(i - 1)) /\ order[i] \in Clients
    BY <1>2, <1>6
  <2>2. Pumped(hubs[i - 1], order[i], s, Window(over)) = Pumped(hubs[i - 1], order[i], t, Window(over))
    BY CleanPumped
  <2>3. Done(i) = Done(i - 1) \cup {order[i]} /\ Done(i - 1) \in SUBSET Clients
    <3>1. \A j : j \in 1..i <=> j \in 1..i - 1 \/ j = i
      BY <1>2
    <3>2. \A j \in 1..i - 1 : order[j] \in Clients
      BY <1>2
    <3> QED  BY <3>1, <3>2
  <2> HIDE DEF Done
  <2>4. HubFine(Pumped(hubs[i - 1], order[i], t, Window(over)), ps, us, g, t, n, over,
                Done(i - 1) \cup {order[i]})
    BY <2>1, <2>3, PumpedFine
  <2>5. hubs[i] = Pumped(hubs[i - 1], order[i], t, Window(over))
    BY <1>4, <2>2
  <2> QED  BY <2>3, <2>4, <2>5
<1> HIDE DEF T
<1>7. k \in T
  BY <1>2, <1>5, <1>6, Inductive
<1>8. Done(k) = Clients
  BY <1>2
<1> HIDE DEF Done
<1> QED  BY <1>1, <1>7, <1>8 DEF T

LEMMA NothingPumped ==
  ASSUME NEW g, NEW as, NEW t, NEW credits, ~g.rendered
  PROVE  Pump(g, as, t, credits) = [grid |-> g, atts |-> as, out |-> out]
<1>1. PICK hubs : /\ TurnsTo(hubs, [grid |-> g, atts |-> as, out |-> out], SetToSeq(Clients),
                             t, credits, Len(SetToSeq(Clients)))
                  /\ Pump(g, as, t, credits)
                       = IF g.rendered THEN hubs[Len(SetToSeq(Clients))] ELSE hubs[0]
  BY PumpTurns
<1>2. Pump(g, as, t, credits) = hubs[0]
  BY <1>1, Zenon
<1>3. hubs[0] = [grid |-> g, atts |-> as, out |-> out]
  BY <1>1 DEF TurnsTo
<1> QED  BY <1>2, <1>3

-----------------------------------------------------------------------------
(* Sending what the attachments lack.                                      *)

(* The hub as a step finds it once it has done what the step is about.     *)
SendReady(t, as, ps, us) ==
  /\ Sound(t) /\ GridFine(grid) /\ Faithful(grid, t) /\ gens \in Nat /\ grid.gen <= gens
  /\ OverClients(as) /\ OverClients(out)
  /\ \A c \in Clients : Linked(as[c], ps[c], out[c], us[c], grid, gens, FALSE)

Sent(ps, us, over) ==
  /\ Sound(em') /\ gens' \in Nat /\ GridFine(grid') /\ grid'.gen <= gens' /\ Faithful(grid', em')
  /\ pending' \in BOOLEAN /\ (~pending' => Shows(grid', em'))
  /\ OverClients(atts') /\ OverClients(out')
  /\ \A c \in Clients : /\ Linked(atts'[c], ps[c], out'[c], us[c], grid', gens', over)
                        /\ Caught(atts'[c], grid', over)

LEMMA PumpSends ==
  ASSUME NEW g, GridFine(g), g.rendered, NEW t, Sound(t), NEW s, Sound(s), t = s \/ t = Clean(s),
         Faithful(g, t), NEW n \in Nat, g.gen <= n, NEW over \in BOOLEAN, NEW ps, NEW us, NEW as,
         OverClients(as), OverClients(out),
         \A c \in Clients : Linked(as[c], ps[c], out[c], us[c], g, n, FALSE)
  PROVE  HubFine(Pump(g, as, s, Window(over)), ps, us, g, t, n, over, Clients)
<1> DEFINE hub == [grid |-> g, atts |-> as, out |-> out]
<1>1. hub.grid = g /\ hub.atts = as /\ hub.out = out
  OBVIOUS
<1>2. GridSane(g) /\ Grown(g, g)
  BY GrownSelf DEF GridFine
<1>3. ASSUME NEW c \in Clients
      PROVE  Linked(as[c], ps[c], out[c], us[c], g, n, over) /\ as[c].inFlight <= Credits
  <2>1. Linked(as[c], ps[c], out[c], us[c], g, n, FALSE)
    OBVIOUS
  <2>2. Linked(as[c], ps[c], out[c], us[c], g, n, TRUE)
    BY <2>1, LinkedOver
  <2>3. as[c].inFlight <= Credits
    BY <2>1, LinkedIs
  <2>4. over = TRUE \/ over = FALSE
    OBVIOUS
  <2> QED  BY <2>1, <2>2, <2>3, <2>4, Zenon
<1> HIDE DEF hub
<1>4. HubFine(hub, ps, us, g, t, n, over, {})
  BY <1>1, <1>2, <1>3 DEF HubFine
<1> QED  BY <1>2, <1>4, PumpFine DEF hub

LEMMA SendsFine ==
  ASSUME NEW t, NEW as, NEW ps, NEW us, SendReady(t, as, ps, us), NEW fresh \in BOOLEAN,
         NEW waiting \in BOOLEAN, NEW over \in BOOLEAN, Sends(t, as, fresh, waiting, Window(over)),
         ~fresh /\ ~waiting => Shows(grid, t)
  PROVE  Sent(ps, us, over)
<1> DEFINE made == fresh /\ grid.gen = None
           old  == IF made THEN NewGrid(gens + 1) ELSE grid
           g    == IF ~fresh THEN grid ELSE Update(old, t)
           hub  == Pump(g, as, t, Window(over))
           s    == IF fresh THEN Clean(t) ELSE t
           n    == IF made THEN gens + 1 ELSE gens
<1>1. /\ em' = s /\ grid' = hub.grid /\ atts' = hub.atts /\ out' = hub.out
      /\ gens' = n /\ pending' = (waiting /\ ~fresh)
  BY Zenon DEF Sends
<1>2. /\ Sound(t) /\ GridFine(grid) /\ Faithful(grid, t) /\ gens \in Nat /\ grid.gen <= gens
      /\ OverClients(as) /\ OverClients(out)
      /\ \A c \in Clients : Linked(as[c], ps[c], out[c], us[c], grid, gens, FALSE)
  BY DEF SendReady
<1>3. GridSane(grid) /\ grid.gen \in Nat
  BY <1>2 DEF GridFine, GridSane, Rendering
<1>4. n \in Nat /\ gens <= n
  BY <1>2
<1>5. Sound(s) /\ (s = t \/ s = Clean(t))
  BY <1>2, CleanIs
<1>6. /\ GridFine(g) /\ Faithful(g, s) /\ g.gen <= n
      /\ \A c \in Clients : Linked(as[c], ps[c], out[c], us[c], g, n, FALSE)
      /\ (~(waiting /\ ~fresh) => Shows(g, s))
  <2>1. CASE ~fresh
    <3>1. g = grid /\ s = t /\ n = gens
      BY <2>1
    <3> HIDE DEF g, s, n
    <3> QED  BY <1>2, <2>1, <3>1
  <2>2. CASE fresh
    <3>1. g = Update(old, t) /\ s = Clean(t)
      BY <2>2
    <3>2. GridSane(old) /\ Faithful(old, t) /\ old.gen = IF made THEN gens + 1 ELSE grid.gen
      <4>1. CASE made
        <5>1. old = NewGrid(gens + 1) /\ gens + 1 \in Nat
          BY <1>2, <4>1
        <5> QED  BY <4>1, <5>1, NewGridFine
      <4>2. CASE ~made
        <5>1. old = grid
          BY <4>2
        <5> HIDE DEF old
        <5> QED  BY <1>2, <1>3, <4>2, <5>1
      <4> QED  BY <4>1, <4>2
    <3>3. old.gen # None /\ old.gen <= n
      <4>1. CASE made
        BY <1>2, <3>2, <4>1
      <4>2. CASE ~made
        BY <1>2, <2>2, <3>2, <4>2
      <4> QED  BY <4>1, <4>2
    <3>4. \A x : Sees(x, grid, gens) => Sees(x, g, n)
      <4> SUFFICES ASSUME NEW x, Sees(x, grid, gens) PROVE Sees(x, g, n)
        OBVIOUS
      <4>1. CASE made
        <5>1. n = gens + 1 /\ old.gen = gens + 1 /\ old = NewGrid(gens + 1)
          BY <3>2, <4>1
        <5>2. g.gen = gens + 1
          <6> HIDE DEF old
          <6>1. Update(old, t).gen = old.gen
            BY <1>2, <3>2, UpdateFine
          <6> QED  BY <3>1, <5>1, <6>1
        <5>3. x.mirror.gen \in Nat /\ x.mirror.gen <= gens
          BY PaneIs
        <5> HIDE DEF g, n, old
        <5> QED  BY <1>2, <1>4, <5>1, <5>2, <5>3, SeesOther
      <4>2. CASE ~made
        <5>1. n = gens /\ old = grid /\ grid.rendered
          BY <1>2, <2>2, <4>2 DEF GridFine
        <5> HIDE DEF n, old
        <5>2. g = Update(grid, t)
          BY <3>1, <5>1
        <5> HIDE DEF g
        <5> QED  BY <1>2, <1>3, <5>1, <5>2, SeesUpdate
      <4> QED  BY <4>1, <4>2
    <3> HIDE DEF old, n, made
    <3>5. /\ GridSane(g) /\ g.rendered /\ g.gen = old.gen
          /\ Shows(g, s) /\ Faithful(g, s)
      BY <1>2, <3>1, <3>2, UpdateFine
    <3> HIDE DEF g, s
    <3>6. GridFine(g) /\ g.gen <= n
      BY <3>3, <3>5 DEF GridFine
    <3>7. \A c \in Clients : Linked(as[c], ps[c], out[c], us[c], g, n, FALSE)
      BY <1>2, <3>4, LinkedSees
    <3> QED  BY <3>5, <3>6, <3>7
  <2> QED  BY <2>1, <2>2
<1> HIDE DEF g, n, s
<1>7. CASE g.rendered
  <2>1. HubFine(hub, ps, us, g, s, n, over, Clients)
    BY <1>2, <1>4, <1>5, <1>6, <1>7, PumpSends
  <2> HIDE DEF hub
  <2>2. /\ GridFine(hub.grid) /\ hub.grid.rendered /\ Faithful(hub.grid, s) /\ hub.grid.gen <= n
        /\ Grown(g, hub.grid) /\ OverClients(hub.atts) /\ OverClients(hub.out)
        /\ \A c \in Clients : Linked(hub.atts[c], ps[c], hub.out[c], us[c], hub.grid, n, over)
        /\ \A c \in Clients : Caught(hub.atts[c], hub.grid, over)
    BY <2>1 DEF HubFine
  <2>3. Shows(g, s) => Shows(hub.grid, s)
    BY <1>6, <2>2, GrownShows DEF GridFine
  <2>4. pending' \in BOOLEAN /\ (~pending' => Shows(hub.grid, s))
    BY <1>1, <1>6, <2>3
  <2>5. /\ Sound(em') /\ gens' \in Nat /\ GridFine(grid') /\ grid'.gen <= gens' /\ Faithful(grid', em')
        /\ OverClients(atts') /\ OverClients(out') /\ (~pending' => Shows(grid', em'))
    BY <1>1, <1>4, <1>5, <2>2, <2>4
  <2>6. \A c \in Clients : /\ Linked(atts'[c], ps[c], out'[c], us[c], grid', gens', over)
                           /\ Caught(atts'[c], grid', over)
    BY <1>1, <2>2
  <2> QED  BY <2>4, <2>5, <2>6 DEF Sent
<1>8. CASE ~g.rendered
  <2>1. hub = [grid |-> g, atts |-> as, out |-> out]
    BY <1>8, NothingPumped
  <2> HIDE DEF hub
  <2>2. grid' = g /\ atts' = as /\ out' = out
    BY <1>1, <2>1
  <2>3. ~Shows(g, s)
    BY <1>8 DEF Shows
  <2>4. pending' \in BOOLEAN /\ pending'
    BY <1>1, <1>6, <2>3
  <2>5. \A c \in Clients : /\ Linked(as[c], ps[c], out[c], us[c], g, n, over)
                           /\ Caught(as[c], g, over)
    <3> SUFFICES ASSUME NEW c \in Clients
                 PROVE  Linked(as[c], ps[c], out[c], us[c], g, n, over) /\ Caught(as[c], g, over)
      OBVIOUS
    <3>1. Linked(as[c], ps[c], out[c], us[c], g, n, FALSE)
      BY <1>6
    <3>2. Linked(as[c], ps[c], out[c], us[c], g, n, TRUE)
      BY <3>1, LinkedOver
    <3>3. over = TRUE \/ over = FALSE
      OBVIOUS
    <3>4. Caught(as[c], g, over)
      BY <1>8 DEF Caught
    <3> QED  BY <3>1, <3>2, <3>3, <3>4, Zenon
  <2>6. /\ Sound(em') /\ gens' \in Nat /\ GridFine(grid') /\ grid'.gen <= gens' /\ Faithful(grid', em')
        /\ OverClients(atts') /\ OverClients(out')
    BY <1>1, <1>2, <1>4, <1>5, <1>6, <2>2
  <2>7. \A c \in Clients : /\ Linked(atts'[c], ps[c], out'[c], us[c], grid', gens', over)
                           /\ Caught(atts'[c], grid', over)
    BY <1>1, <2>2, <2>5
  <2> QED  BY <2>4, <2>6, <2>7 DEF Sent
<1> QED  BY <1>7, <1>8

-----------------------------------------------------------------------------
(* The actions.                                                            *)

LEMMA InvIs ==
  ASSUME GridInv
  PROVE  /\ SendReady(em, atts, panes, up) \/ ended
         /\ Sound(em) /\ gens \in Nat /\ pending \in BOOLEAN /\ ended \in BOOLEAN
         /\ GridFine(grid) /\ GridSane(grid) /\ grid.gen <= gens /\ grid.gen \in Nat
         /\ Faithful(grid, em) /\ (~pending => Shows(grid, em))
         /\ OverClients(atts) /\ OverClients(out) /\ OverClients(up) /\ OverClients(panes)
         /\ \A c \in Clients : /\ Linked(atts[c], panes[c], out[c], up[c], grid, gens, ended)
                               /\ Caught(atts[c], grid, ended)
<1>1. /\ Sound(em) /\ gens \in Nat /\ pending \in BOOLEAN /\ ended \in BOOLEAN
      /\ GridFine(grid) /\ grid.gen <= gens
      /\ Faithful(grid, em) /\ (~pending => Shows(grid, em))
      /\ OverClients(atts) /\ OverClients(out) /\ OverClients(up) /\ OverClients(panes)
  BY DEF GridInv
<1>2. \A c \in Clients : /\ Linked(atts[c], panes[c], out[c], up[c], grid, gens, ended)
                         /\ Caught(atts[c], grid, ended)
  BY DEF GridInv, ClientsFine
<1>3. GridSane(grid) /\ grid.gen \in Nat
  BY <1>1 DEF GridFine, GridSane, Rendering
<1>4. ~ended => SendReady(em, atts, panes, up)
  <2> SUFFICES ASSUME ~ended PROVE SendReady(em, atts, panes, up)
    OBVIOUS
  <2>1. ended = FALSE
    BY <1>1
  <2>2. \A c \in Clients : Linked(atts[c], panes[c], out[c], up[c], grid, gens, FALSE)
    BY <1>2, <2>1
  <2> QED  BY <1>1, <2>2 DEF SendReady
<1> QED  BY <1>1, <1>2, <1>3, <1>4

LEMMA SentInv ==
  ASSUME Sent(panes', up', ended'), ended' \in BOOLEAN, OverClients(up'), OverClients(panes')
  PROVE  GridInv'
<1>1. /\ Sound(em') /\ gens' \in Nat /\ GridFine(grid') /\ grid'.gen <= gens' /\ Faithful(grid', em')
      /\ pending' \in BOOLEAN /\ (~pending' => Shows(grid', em'))
      /\ OverClients(atts') /\ OverClients(out')
      /\ \A c \in Clients : /\ Linked(atts'[c], panes'[c], out'[c], up'[c], grid', gens', ended')
                            /\ Caught(atts'[c], grid', ended')
  BY DEF Sent
<1>2. ClientsFine'
  BY <1>1 DEF ClientsFine
<1> QED  BY <1>1, <1>2 DEF GridInv

LEMMA CatchUpFine ==
  ASSUME NEW as, NEW ps, NEW us, SendReady(em, as, ps, us), pending \in BOOLEAN,
         ~pending => Shows(grid, em), CatchUp(as)
  PROVE  Sent(ps, us, FALSE)
<1>1. PICK fresh \in BOOLEAN : (fresh => pending) /\ Sends(em, as, fresh, pending, Credits)
  BY DEF CatchUp
<1>2. Sends(em, as, fresh, pending, Window(FALSE))
  BY <1>1 DEF Window
<1> QED  BY <1>2, SendsFine

LEMMA RecordsFine ==
  ASSUME GridInv, Records
  PROVE  GridInv'
<1>1. /\ SendReady(em, atts, panes, up) /\ ended' = FALSE /\ panes' = panes /\ up' = up
      /\ OverClients(up) /\ OverClients(panes)
  BY InvIs DEF Records
<1>2. PICK t \in Changed(em), fresh \in BOOLEAN : Sends(t, atts, fresh, TRUE, Credits)
  BY DEF Records
<1>3. Sound(t) /\ Faithful(grid, t)
  BY InvIs, ChangedFine
<1>4. SendReady(t, atts, panes, up)
  BY <1>1, <1>3 DEF SendReady
<1>5. Sends(t, atts, fresh, TRUE, Window(FALSE))
  BY <1>2 DEF Window
<1>6. Sent(panes, up, FALSE)
  BY <1>4, <1>5, SendsFine
<1>7. Sent(panes', up', ended')
  BY <1>1, <1>6
<1> QED  BY <1>1, <1>7, SentInv

LEMMA TicksFine ==
  ASSUME GridInv, Ticks
  PROVE  GridInv'
<1>1. /\ SendReady(em, atts, panes, up) /\ ended' = FALSE /\ panes' = panes /\ up' = up
      /\ OverClients(up) /\ OverClients(panes)
  BY InvIs DEF Ticks
<1>2. Sends(em, atts, TRUE, TRUE, Window(FALSE))
  BY DEF Ticks, Window
<1>3. Sent(panes, up, FALSE)
  BY <1>1, <1>2, SendsFine
<1>4. Sent(panes', up', ended')
  BY <1>1, <1>3
<1> QED  BY <1>1, <1>4, SentInv

LEMMA FinishesFine ==
  ASSUME GridInv, Finishes
  PROVE  GridInv'
<1>1. /\ SendReady(em, atts, panes, up) /\ ended = FALSE /\ ended' = TRUE
      /\ panes' = panes /\ up' = up
  BY InvIs DEF Finishes
<1>2. /\ OverClients(atts) /\ OverClients(out) /\ OverClients(up) /\ OverClients(panes)
      /\ pending \in BOOLEAN /\ (~pending => Shows(grid, em))
  BY InvIs
<1>3. CASE Watched
  <2>1. Sends(em, atts, pending, pending, Window(TRUE))
    BY <1>3 DEF Finishes, Window
  <2>2. Sent(panes, up, TRUE)
    BY <1>1, <1>2, <2>1, SendsFine
  <2>3. Sent(panes', up', ended')
    BY <1>1, <2>2
  <2> QED  BY <1>1, <1>2, <2>3, SentInv
<1>4. CASE ~Watched
  <2>1. UNCHANGED <<em, grid, atts, out, gens, pending>>
    BY <1>4 DEF Finishes
  <2>2. ASSUME NEW c \in Clients
        PROVE  /\ Linked(atts[c], panes[c], out[c], up[c], grid, gens, TRUE)
               /\ Caught(atts[c], grid, TRUE)
    <3>1. Linked(atts[c], panes[c], out[c], up[c], grid, gens, ended)
      BY InvIs
    <3>2. Linked(atts[c], panes[c], out[c], up[c], grid, gens, TRUE)
      BY <3>1, LinkedOver
    <3>3. Caught(atts[c], grid, TRUE)
      BY <1>4 DEF Watched, Caught
    <3> QED  BY <3>2, <3>3
  <2>3. /\ Sound(em) /\ gens \in Nat /\ GridFine(grid) /\ grid.gen <= gens /\ Faithful(grid, em)
    BY InvIs
  <2>4. Sent(panes', up', ended')
    BY <1>1, <1>2, <2>1, <2>2, <2>3 DEF Sent
  <2> QED  BY <1>1, <1>2, <2>4, SentInv
<1> QED  BY <1>3, <1>4

(* What happens to one client leaves what is fine of the others.           *)
LEMMA OthersFine ==
  ASSUME NEW g, NEW n, NEW over, NEW c \in Clients, NEW as, NEW os, NEW ps, NEW us,
         NEW as1, NEW os1, NEW ps1, NEW us1,
         \A d \in Clients : Linked(as[d], ps[d], os[d], us[d], g, n, over),
         \A d \in Clients : d # c => /\ as1[d] = as[d] /\ os1[d] = os[d]
                                     /\ ps1[d] = ps[d] /\ us1[d] = us[d],
         Linked(as1[c], ps1[c], os1[c], us1[c], g, n, over)
  PROVE  \A d \in Clients : Linked(as1[d], ps1[d], os1[d], us1[d], g, n, over)
<1> SUFFICES ASSUME NEW d \in Clients PROVE Linked(as1[d], ps1[d], os1[d], us1[d], g, n, over)
  OBVIOUS
<1>1. CASE d = c
  BY <1>1
<1>2. CASE d # c
  <2>1. Linked(as[d], ps[d], os[d], us[d], g, n, over)
    OBVIOUS
  <2>2. as1[d] = as[d] /\ os1[d] = os[d] /\ ps1[d] = ps[d] /\ us1[d] = us[d]
    BY <1>2
  <2> QED  BY <2>1, <2>2
<1> QED  BY <1>1, <1>2

LEMMA PutIs ==
  ASSUME NEW f, OverClients(f), NEW c \in Clients, NEW x
  PROVE  /\ OverClients([f EXCEPT ![c] = x]) /\ [f EXCEPT ![c] = x][c] = x
         /\ \A d \in Clients : d # c => [f EXCEPT ![c] = x][d] = f[d]
BY DEF OverClients

IsPut(g, f, c, x) == g = [f EXCEPT ![c] = x]

LEMMA ChangedAt ==
  ASSUME NEW f, OverClients(f), NEW c \in Clients, NEW x, NEW g, IsPut(g, f, c, x)
  PROVE  OverClients(g) /\ g[c] = x /\ \A d \in Clients : d # c => g[d] = f[d]
BY DEF OverClients, IsPut

LEMMA ChangedAll ==
  ASSUME NEW c \in Clients, NEW a, NEW o, NEW p, NEW u,
         OverClients(atts), OverClients(out), OverClients(panes), OverClients(up),
         IsPut(atts', atts, c, a), IsPut(out', out, c, o), IsPut(panes', panes, c, p),
         IsPut(up', up, c, u)
  PROVE  /\ OverClients(atts') /\ OverClients(out') /\ OverClients(up') /\ OverClients(panes')
         /\ atts'[c] = a /\ out'[c] = o /\ up'[c] = u /\ panes'[c] = p
         /\ \A d \in Clients : d # c => /\ atts'[d] = atts[d] /\ out'[d] = out[d]
                                        /\ panes'[d] = panes[d] /\ up'[d] = up[d]
<1>1. OverClients(atts') /\ atts'[c] = a /\ \A d \in Clients : d # c => atts'[d] = atts[d]
  BY ChangedAt
<1>2. OverClients(out') /\ out'[c] = o /\ \A d \in Clients : d # c => out'[d] = out[d]
  BY ChangedAt
<1>3. OverClients(panes') /\ panes'[c] = p /\ \A d \in Clients : d # c => panes'[d] = panes[d]
  BY ChangedAt
<1>4. OverClients(up') /\ up'[c] = u /\ \A d \in Clients : d # c => up'[d] = up[d]
  BY ChangedAt
<1> QED  BY <1>1, <1>2, <1>3, <1>4

(* A step that sends nothing leaves everything fine if it does so for c.   *)
LEMMA GrownInv ==
  ASSUME GridInv, NEW c \in Clients, ended' = ended, UNCHANGED <<em, gens, pending>>,
         Grown(grid, grid'), GridFine(grid'), Faithful(grid', em),
         NEW a, NEW o, NEW p, NEW u,
         atts' = [atts EXCEPT ![c] = a], out' = [out EXCEPT ![c] = o],
         panes' = [panes EXCEPT ![c] = p], up' = [up EXCEPT ![c] = u],
         Linked(a, p, o, u, grid', gens, ended), Caught(a, grid', ended)
  PROVE  GridInv'
<1>1. /\ Sound(em) /\ gens \in Nat /\ pending \in BOOLEAN /\ ended \in BOOLEAN
      /\ GridFine(grid) /\ GridSane(grid) /\ grid.gen <= gens
      /\ Faithful(grid, em) /\ (~pending => Shows(grid, em))
      /\ OverClients(atts) /\ OverClients(out) /\ OverClients(up) /\ OverClients(panes)
  BY InvIs
<1>2. \A d \in Clients : Linked(atts[d], panes[d], out[d], up[d], grid, gens, ended)
  BY InvIs
<1>3. \A d \in Clients : Caught(atts[d], grid, ended)
  BY InvIs
<1>4. /\ OverClients(atts') /\ OverClients(out') /\ OverClients(up') /\ OverClients(panes')
      /\ atts'[c] = a /\ out'[c] = o /\ up'[c] = u /\ panes'[c] = p
      /\ \A d \in Clients : d # c => /\ atts'[d] = atts[d] /\ out'[d] = out[d]
                                     /\ panes'[d] = panes[d] /\ up'[d] = up[d]
  <2>1. /\ OverClients(atts) /\ OverClients(out) /\ OverClients(panes) /\ OverClients(up)
        /\ IsPut(atts', atts, c, a) /\ IsPut(out', out, c, o) /\ IsPut(panes', panes, c, p)
        /\ IsPut(up', up, c, u)
    BY <1>1 DEF IsPut
  <2> QED  BY <2>1, ChangedAll
<1>5. Linked(atts'[c], panes'[c], out'[c], up'[c], grid', gens, ended)
  BY <1>4
<1>6. /\ grid'.gen = grid.gen /\ grid'.rev = grid.rev /\ grid'.tgen = grid.tgen
      /\ grid'.rendered = grid.rendered
  BY <1>1, GrownIs
<1>7. \A x : Sees(x, grid, gens) => Sees(x, grid', gens)
  BY <1>1, GrownAlike, SeesAlike
<1>8. \A d \in Clients : Linked(atts[d], panes[d], out[d], up[d], grid', gens, ended)
  BY <1>2, <1>7, LinkedSees
<1>9. \A d \in Clients : Linked(atts'[d], panes'[d], out'[d], up'[d], grid', gens, ended)
  BY <1>4, <1>5, <1>8, OthersFine
<1>10. \A d \in Clients : Caught(atts[d], grid', ended)
  BY <1>3, <1>6, CaughtAlike
<1>11. \A d \in Clients : Caught(atts'[d], grid', ended)
  BY <1>4, <1>10
<1>12. ~pending => Shows(grid', em)
  BY <1>1, GrownShows
<1>13. /\ Sound(em') /\ gens' \in Nat /\ pending' \in BOOLEAN /\ ended' \in BOOLEAN
       /\ GridFine(grid') /\ grid'.gen <= gens'
       /\ Faithful(grid', em') /\ (~pending' => Shows(grid', em'))
  BY <1>1, <1>6, <1>12
<1>14. \A d \in Clients : Linked(atts'[d], panes'[d], out'[d], up'[d], grid', gens', ended')
                          /\ Caught(atts'[d], grid', ended')
  BY <1>9, <1>11
<1>15. Sent(panes', up', ended')
  BY <1>4, <1>13, <1>14 DEF Sent
<1> QED  BY <1>4, <1>13, <1>15, SentInv

LEMMA QuietInv ==
  ASSUME GridInv, NEW c \in Clients, ended' = ended, UNCHANGED <<em, grid, gens, pending>>,
         NEW a, NEW o, NEW p, NEW u,
         atts' = [atts EXCEPT ![c] = a], out' = [out EXCEPT ![c] = o],
         panes' = [panes EXCEPT ![c] = p], up' = [up EXCEPT ![c] = u],
         Linked(a, p, o, u, grid, gens, ended), Caught(a, grid, ended)
  PROVE  GridInv'
<1>1. GridFine(grid) /\ GridSane(grid) /\ Faithful(grid, em)
  BY InvIs
<1>2. Grown(grid, grid)
  BY <1>1, GrownSelf
<1>3. Grown(grid, grid') /\ GridFine(grid') /\ Faithful(grid', em)
  BY <1>1, <1>2
<1>4. Linked(a, p, o, u, grid', gens, ended) /\ Caught(a, grid', ended)
  OBVIOUS
<1> QED  BY <1>3, <1>4, GrownInv

LEMMA PutSame ==
  ASSUME NEW f, OverClients(f), NEW c \in Clients
  PROVE  f = [f EXCEPT ![c] = f[c]]
BY DEF OverClients

LEMMA GoneIs ==
  /\ Gone \in Attachment /\ Gone.on = FALSE /\ Gone.visible = FALSE /\ Gone.inFlight = 0
  /\ Gone.note = FALSE /\ Gone.held = NoHeld /\ NoHeld.gen = None /\ NoHeld \in Held
<1>1. NoHeld \in Held /\ NoHeld.gen = None
  BY DEF NoHeld, Held, None
<1>2. Gone.held = NoHeld /\ Gone.on = FALSE /\ Gone.visible = FALSE /\ Gone.inFlight = 0 /\ Gone.note = FALSE
  BY DEF Gone
<1>3. Gone \in Attachment
  BY <1>1 DEF Gone, Attachment
<1> QED  BY <1>1, <1>2, <1>3

(* A client nothing is on its way to or from.                              *)
LEMMA LinkedEmpty ==
  ASSUME NEW a \in Attachment, a.inFlight = 0, ~a.on => a = Gone, NEW p, NEW g, NEW n, Sees(p, g, n),
         Stands(p, a.held), NEW over
  PROVE  Linked(a, p, <<>>, <<>>, g, n, over)
<1>1. Ends(p, <<>>, p, g, n) /\ IsSeq(<<>>)
  BY EndsNone
<1>2. Walks(p, <<>>, a.held, g, n)
  BY <1>1, WalksEnds
<1>3. Cardinality(Frames(<<>>)) \in Nat /\ Cardinality(AcksIn(<<>>)) \in Nat
  BY <1>1, FramesNat, AcksNat
<1>4. a.inFlight <= Credits /\ a.inFlight <= Cardinality(Frames(<<>>)) + Cardinality(AcksIn(<<>>))
  BY <1>3, GridAssumption
<1>5. <<>> \in Seq(Request)
  OBVIOUS
<1> QED  BY <1>1, <1>2, <1>4, <1>5 DEF Linked

LEMMA DisconnectsFine ==
  ASSUME GridInv, NEW c \in Clients, Disconnects(c)
  PROVE  GridInv'
<1>1. /\ ended' = ended /\ UNCHANGED <<em, grid, gens, pending>>
      /\ atts' = [atts EXCEPT ![c] = Gone] /\ out' = [out EXCEPT ![c] = <<>>]
      /\ up' = [up EXCEPT ![c] = <<>>] /\ panes' = panes
  BY DEF Disconnects
<1>2. panes' = [panes EXCEPT ![c] = panes[c]]
  BY <1>1, InvIs, PutSame
<1>3. Linked(atts[c], panes[c], out[c], up[c], grid, gens, ended)
  BY InvIs
<1>4. Sees(panes[c], grid, gens)
  BY <1>3, LinkedIs, EndsFirst
<1>5. Stands(panes[c], Gone.held)
  BY GoneIs DEF Stands
<1>6. Linked(Gone, panes[c], <<>>, <<>>, grid, gens, ended)
  BY <1>4, <1>5, GoneIs, LinkedEmpty
<1>7. Caught(Gone, grid, ended)
  BY GoneIs DEF Caught
<1> QED  BY <1>1, <1>2, <1>6, <1>7, QuietInv

(* A client that is on asks for something.                                 *)
LEMMA SaysFine ==
  ASSUME GridInv, NEW c \in Clients, NEW x \in Request, Says(c, x)
  PROVE  GridInv'
<1> DEFINE u == Append(up[c], x)
<1>1. /\ ended' = ended /\ UNCHANGED <<em, grid, gens, pending>> /\ atts' = atts /\ out' = out
      /\ panes' = panes /\ up' = [up EXCEPT ![c] = u] /\ atts[c].on
  BY DEF Says
<1>2. atts' = [atts EXCEPT ![c] = atts[c]] /\ out' = [out EXCEPT ![c] = out[c]]
      /\ panes' = [panes EXCEPT ![c] = panes[c]]
  BY <1>1, InvIs, PutSame
<1>3. Linked(atts[c], panes[c], out[c], up[c], grid, gens, ended) /\ Caught(atts[c], grid, ended)
  BY InvIs
<1>4. up[c] \in Seq(Request) /\ IsSeq(up[c]) /\ Cardinality(Frames(out[c])) \in Nat
      /\ Cardinality(AcksIn(up[c])) \in Nat
  BY <1>3, LinkedIs
<1>5. u \in Seq(Request)
  BY <1>4, AppendIs
<1>6. Cardinality(AcksIn(u)) = Cardinality(AcksIn(up[c])) + (IF x.kind = "Ack" THEN 1 ELSE 0)
  BY <1>4, AcksAppend
<1>7. Cardinality(AcksIn(u)) >= Cardinality(AcksIn(up[c])) /\ Cardinality(AcksIn(u)) \in Nat
  BY <1>4, <1>6
<1> HIDE DEF u
<1>8. Linked(atts[c], panes[c], out[c], u, grid, gens, ended)
  <2>1. /\ atts[c] \in Attachment /\ IsSeq(out[c])
        /\ Walks(panes[c], out[c], atts[c].held, grid, gens)
        /\ ~ended => atts[c].inFlight <= Credits
                  /\ atts[c].inFlight <= Cardinality(Frames(out[c])) + Cardinality(AcksIn(up[c]))
    BY <1>3 DEF Linked
  <2>2. atts[c].inFlight \in Nat
    BY <2>1 DEF Attachment
  <2>3. ~ended => atts[c].inFlight <= Cardinality(Frames(out[c])) + Cardinality(AcksIn(u))
    BY <1>4, <1>7, <2>1, <2>2
  <2> QED  BY <1>1, <1>5, <2>1, <2>3 DEF Linked
<1> QED  BY <1>1, <1>2, <1>3, <1>8, QuietInv

LEMMA RequestIs ==
  /\ [kind |-> "Ack"] \in Request /\ [kind |-> "Ack"].kind = "Ack"
  /\ \A v \in BOOLEAN : [kind |-> "SetVisible", visible |-> v] \in Request
  /\ \A e \in Nat, l \in Nat : [kind |-> "FetchHistory", epoch |-> e, from |-> l] \in Request
BY DEF Request

LEMMA ShowsPaneFine ==
  ASSUME GridInv, NEW c \in Clients, ShowsPane(c)
  PROVE  GridInv'
<1> DEFINE v == ~atts[c].visible
           x == [kind |-> "SetVisible", visible |-> v]
<1>1. Says(c, x)
  BY DEF ShowsPane
<1>2. v \in BOOLEAN
  OBVIOUS
<1> HIDE DEF v
<1>3. x \in Request
  BY <1>2, RequestIs
<1> HIDE DEF x
<1> QED  BY <1>1, <1>3, SaysFine

LEMMA AsksHistoryFine ==
  ASSUME GridInv, NEW c \in Clients, AsksHistory(c)
  PROVE  GridInv'
<1> DEFINE m == panes[c].mirror
<1>1. m.gen # None
  BY DEF AsksHistory
<1>2. PICK line \in Gaps(m) : Says(c, [kind |-> "FetchHistory", epoch |-> m.term.epoch, from |-> line])
  BY DEF AsksHistory
<1>3. Linked(atts[c], panes[c], out[c], up[c], grid, gens, ended)
  BY InvIs
<1>4. Sees(panes[c], grid, gens)
  BY <1>3, LinkedIs, EndsFirst
<1>5. MirrorFine(m)
  BY <1>4, PaneIs
<1>6. m.term \in Term
  BY <1>1, <1>5, MirrorIs
<1>7. m.term.epoch \in Nat /\ m.term.top \in Nat
  BY <1>6 DEF Term
<1>8. line \in Nat
  BY <1>7 DEF Gaps
<1> DEFINE x == [kind |-> "FetchHistory", epoch |-> m.term.epoch, from |-> line]
<1>9. x \in Request
  BY <1>7, <1>8, RequestIs
<1>10. Says(c, x)
  BY <1>2
<1> HIDE DEF x
<1> QED  BY <1>9, <1>10, SaysFine

LEMMA ReceivesFine ==
  ASSUME GridInv, NEW c \in Clients, Receives(c)
  PROVE  GridInv'
<1> DEFINE ms  == out[c]
           x   == Head(ms)
           p   == Received(panes[c], x)
           ack == [kind |-> "Ack"]
           due == x.kind \in {"Snapshot", "Delta"} /\ ~p.refused /\ ~ended
           u   == IF due THEN Append(up[c], ack) ELSE up[c]
           a   == atts[c]
<1>1. /\ ms # <<>> /\ panes' = [panes EXCEPT ![c] = p] /\ out' = [out EXCEPT ![c] = Tail(ms)]
      /\ ended' = ended /\ UNCHANGED <<em, grid, gens, pending>> /\ atts' = atts
      /\ up' = IF due THEN [up EXCEPT ![c] = Append(up[c], ack)] ELSE up
  BY DEF Receives
<1>2. OverClients(atts) /\ OverClients(up)
  BY InvIs
<1>3. atts' = [atts EXCEPT ![c] = a]
  BY <1>1, <1>2, PutSame
<1>4. up' = [up EXCEPT ![c] = u]
  <2>1. CASE due
    BY <1>1, <2>1
  <2>2. CASE ~due
    <3>1. u = up[c] /\ up' = up
      BY <1>1, <2>2
    <3> HIDE DEF u
    <3> QED  BY <1>2, <3>1, PutSame
  <2> QED  BY <2>1, <2>2
<1>5. Linked(a, panes[c], ms, up[c], grid, gens, ended) /\ Caught(a, grid, ended)
  BY InvIs
<1>6. /\ a \in Attachment /\ IsSeq(ms) /\ up[c] \in Seq(Request) /\ IsSeq(up[c]) /\ a.on
      /\ ~ended => a.inFlight <= Credits
                   /\ a.inFlight <= Cardinality(Frames(ms)) + Cardinality(AcksIn(up[c]))
      /\ Cardinality(Frames(ms)) \in Nat /\ Cardinality(AcksIn(up[c])) \in Nat
  BY <1>1, <1>5, LinkedIs
<1>7. PICK q : Ends(panes[c], ms, q, grid, gens) /\ Stands(q, a.held)
  BY <1>5, LinkedIs
<1>8. Ends(p, Tail(ms), q, grid, gens) /\ Sees(p, grid, gens)
  BY <1>1, <1>6, <1>7, EndsHead
<1>9. p.refused = FALSE
  BY <1>8, PaneIs
<1>10. IsSeq(Tail(ms)) /\ Cardinality(Frames(Tail(ms))) \in Nat
  BY <1>1, <1>6, FirstIs, FramesNat
<1>11. Cardinality(Frames(ms)) <= Cardinality(Frames(Tail(ms))) + (IF IsFrame(x) THEN 1 ELSE 0)
  BY <1>1, <1>6, FramesTail
<1>12. Walks(p, Tail(ms), a.held, grid, gens)
  BY <1>7, <1>8, WalksEnds
<1>13. u \in Seq(Request)
         /\ (~ended => Cardinality(AcksIn(u))
                         = Cardinality(AcksIn(up[c])) + (IF IsFrame(x) THEN 1 ELSE 0))
  <2> HIDE DEF p, x
  <2>1. CASE due
    <3>1. u = Append(up[c], ack) /\ IsFrame(x)
      BY <2>1 DEF IsFrame
    <3>2. ack \in Request /\ ack.kind = "Ack"
      BY RequestIs
    <3> HIDE DEF ack, u, due
    <3>3. u \in Seq(Request)
      BY <1>6, <3>1, <3>2, AppendIs
    <3>4. Cardinality(AcksIn(u)) = Cardinality(AcksIn(up[c])) + 1
      BY <1>6, <3>1, <3>2, AcksAppend
    <3> QED  BY <3>1, <3>3, <3>4
  <2>2. CASE ~due
    <3>1. u = up[c] /\ (~ended => ~IsFrame(x))
      BY <1>9, <2>2 DEF IsFrame
    <3> HIDE DEF u, due
    <3> QED  BY <1>6, <3>1
  <2> QED  BY <2>1, <2>2
<1> HIDE DEF p, x, u, due, ack
<1>14. ~ended => a.inFlight <= Credits
                 /\ a.inFlight <= Cardinality(Frames(Tail(ms))) + Cardinality(AcksIn(u))
  <2>1. a.inFlight \in Nat
    BY <1>6 DEF Attachment
  <2> QED  BY <1>6, <1>10, <1>11, <1>13, <2>1
<1>15. Linked(a, p, Tail(ms), u, grid, gens, ended)
  BY <1>6, <1>10, <1>12, <1>13, <1>14 DEF Linked
<1> QED  BY <1>1, <1>3, <1>4, <1>5, <1>15, QuietInv

LEMMA ChangedReady ==
  ASSUME GridInv, ended = FALSE, NEW c \in Clients, NEW a, NEW p, NEW u,
         Linked(a, p, out[c], u, grid, gens, FALSE),
         NEW as, as = [atts EXCEPT ![c] = a], NEW ps, ps = [panes EXCEPT ![c] = p],
         NEW us, us = [up EXCEPT ![c] = u]
  PROVE  SendReady(em, as, ps, us)
<1>1. /\ Sound(em) /\ GridFine(grid) /\ Faithful(grid, em) /\ gens \in Nat /\ grid.gen <= gens
      /\ OverClients(out) /\ OverClients(atts) /\ OverClients(panes) /\ OverClients(up)
  BY InvIs
<1>2. \A d \in Clients : Linked(atts[d], panes[d], out[d], up[d], grid, gens, FALSE)
  BY InvIs
<1>3. OverClients(as) /\ as[c] = a /\ \A d \in Clients : d # c => as[d] = atts[d]
  BY <1>1 DEF OverClients
<1>4. ps[c] = p /\ \A d \in Clients : d # c => ps[d] = panes[d]
  BY <1>1 DEF OverClients
<1>5. us[c] = u /\ \A d \in Clients : d # c => us[d] = up[d]
  BY <1>1 DEF OverClients
<1>6. \A d \in Clients : d # c => /\ as[d] = atts[d] /\ out[d] = out[d]
                                  /\ ps[d] = panes[d] /\ us[d] = up[d]
  BY <1>3, <1>4, <1>5
<1>7. Linked(as[c], ps[c], out[c], us[c], grid, gens, FALSE)
  BY <1>3, <1>4, <1>5
<1>8. \A d \in Clients : Linked(as[d], ps[d], out[d], us[d], grid, gens, FALSE)
  BY <1>2, <1>6, <1>7, OthersFine
<1> QED  BY <1>1, <1>3, <1>8 DEF SendReady

LEMMA PartIsFine ==
  ASSUME NEW a \in Attachment, NEW k \in Nat, NEW v \in BOOLEAN
  PROVE  /\ [a EXCEPT !.inFlight = k] \in Attachment
         /\ [a EXCEPT !.inFlight = k].on = a.on /\ [a EXCEPT !.inFlight = k].held = a.held
         /\ [a EXCEPT !.inFlight = k].inFlight = k
         /\ [a EXCEPT !.visible = v] \in Attachment
         /\ [a EXCEPT !.visible = v].on = a.on /\ [a EXCEPT !.visible = v].held = a.held
         /\ [a EXCEPT !.visible = v].inFlight = a.inFlight /\ [a EXCEPT !.visible = v].visible = v
<1>1. [a EXCEPT !.inFlight = k] \in Attachment
  BY DEF Attachment
<1>2. [a EXCEPT !.visible = v] \in Attachment
  BY DEF Attachment
<1>3. /\ [a EXCEPT !.inFlight = k].on = a.on /\ [a EXCEPT !.inFlight = k].held = a.held
      /\ [a EXCEPT !.inFlight = k].inFlight = k
  BY DEF Attachment
<1>4. /\ [a EXCEPT !.visible = v].on = a.on /\ [a EXCEPT !.visible = v].held = a.held
      /\ [a EXCEPT !.visible = v].inFlight = a.inFlight /\ [a EXCEPT !.visible = v].visible = v
  BY DEF Attachment
<1> QED  BY <1>1, <1>2, <1>3, <1>4

(* What a client asked is taken: what is left of its requests.             *)
LEMMA TakesIs ==
  ASSUME GridInv, NEW c \in Clients, NEW kind, Takes(c, kind)
  PROVE  /\ ended = FALSE /\ ended' = ended /\ panes' = panes /\ up' = [up EXCEPT ![c] = Tail(up[c])]
         /\ OverClients(up') /\ OverClients(panes') /\ panes' = [panes EXCEPT ![c] = panes[c]]
         /\ Head(up[c]) \in Request /\ Head(up[c]).kind = kind /\ Tail(up[c]) \in Seq(Request)
         /\ Cardinality(AcksIn(Tail(up[c]))) \in Nat
         /\ Cardinality(AcksIn(up[c]))
              <= Cardinality(AcksIn(Tail(up[c]))) + (IF kind = "Ack" THEN 1 ELSE 0)
         /\ Linked(atts[c], panes[c], out[c], up[c], grid, gens, FALSE)
         /\ atts[c] \in Attachment /\ atts[c].on /\ IsSeq(out[c]) /\ atts[c].inFlight \in Nat
         /\ Cardinality(Frames(out[c])) \in Nat /\ Cardinality(AcksIn(up[c])) \in Nat
<1>1. /\ ~ended /\ up[c] # <<>> /\ Head(up[c]).kind = kind
      /\ up' = [up EXCEPT ![c] = Tail(up[c])] /\ UNCHANGED <<ended, panes, spent>>
  BY DEF Takes
<1>2. ended = FALSE /\ OverClients(up) /\ OverClients(panes) /\ panes = [panes EXCEPT ![c] = panes[c]]
  BY <1>1, InvIs, PutSame
<1>3. Linked(atts[c], panes[c], out[c], up[c], grid, gens, FALSE)
  BY <1>2, InvIs
<1>4. up[c] \in Seq(Request) /\ IsSeq(up[c]) /\ atts[c] \in Attachment /\ atts[c].on /\ IsSeq(out[c])
      /\ Cardinality(Frames(out[c])) \in Nat /\ Cardinality(AcksIn(up[c])) \in Nat
  <2>1. /\ atts[c] \in Attachment /\ IsSeq(out[c]) /\ up[c] \in Seq(Request) /\ IsSeq(up[c])
        /\ Cardinality(Frames(out[c])) \in Nat /\ Cardinality(AcksIn(up[c])) \in Nat
    BY <1>3, LinkedIs
  <2>2. ~atts[c].on => up[c] = <<>>
    BY <1>3 DEF Linked
  <2> QED  BY <1>1, <2>1, <2>2
<1>5. Head(up[c]) \in Request /\ Tail(up[c]) \in Seq(Request)
  BY <1>1, <1>4, TailIs
<1>6. Cardinality(AcksIn(Tail(up[c]))) \in Nat
  BY <1>5, AcksNat DEF IsSeq
<1>7. Cardinality(AcksIn(up[c]))
        <= Cardinality(AcksIn(Tail(up[c]))) + (IF kind = "Ack" THEN 1 ELSE 0)
  BY <1>1, <1>4, AcksTail
<1>8. OverClients(up')
  BY <1>1, <1>2 DEF OverClients
<1>9. atts[c].inFlight \in Nat
  BY <1>4 DEF Attachment
<1> QED  BY <1>1, <1>2, <1>3, <1>4, <1>5, <1>6, <1>7, <1>8, <1>9

LEMMA AcksFine ==
  ASSUME GridInv, NEW c \in Clients, Acks(c)
  PROVE  GridInv'
<1> DEFINE k  == Most(0, atts[c].inFlight - 1)
           a  == [atts[c] EXCEPT !.inFlight = k]
           as == [atts EXCEPT ![c].inFlight = Most(0, @ - 1)]
           u  == Tail(up[c])
<1>1. Takes(c, "Ack") /\ CatchUp(as)
  BY DEF Acks
<1>2. /\ ended = FALSE /\ ended' = ended /\ panes' = panes /\ up' = [up EXCEPT ![c] = u]
      /\ OverClients(up') /\ OverClients(panes') /\ panes' = [panes EXCEPT ![c] = panes[c]]
      /\ u \in Seq(Request) /\ Cardinality(AcksIn(u)) \in Nat
      /\ Cardinality(AcksIn(up[c])) <= Cardinality(AcksIn(u)) + 1
      /\ Linked(atts[c], panes[c], out[c], up[c], grid, gens, FALSE)
      /\ atts[c] \in Attachment /\ atts[c].on /\ IsSeq(out[c]) /\ atts[c].inFlight \in Nat
      /\ Cardinality(Frames(out[c])) \in Nat /\ Cardinality(AcksIn(up[c])) \in Nat
  BY <1>1, TakesIs
<1>3. as = [atts EXCEPT ![c] = a]
  OBVIOUS
<1>4. k \in Nat /\ (k = 0 \/ k = atts[c].inFlight - 1)
  BY <1>2 DEF Most
<1> HIDE DEF k
<1>5. a \in Attachment /\ a.on = atts[c].on /\ a.held = atts[c].held /\ a.inFlight = k
  BY <1>2, <1>4, PartIsFine
<1> HIDE DEF a, as
<1>6. Walks(panes[c], out[c], atts[c].held, grid, gens)
      /\ atts[c].inFlight <= Credits
      /\ atts[c].inFlight <= Cardinality(Frames(out[c])) + Cardinality(AcksIn(up[c]))
  BY <1>2 DEF Linked
<1>7. k <= Credits /\ k <= Cardinality(Frames(out[c])) + Cardinality(AcksIn(u))
  <2> DEFINE F == Cardinality(Frames(out[c]))
             A == Cardinality(AcksIn(u))
             B == Cardinality(AcksIn(up[c]))
             i == atts[c].inFlight
  <2>1. F \in Nat /\ A \in Nat /\ B \in Nat /\ i \in Nat /\ B <= A + 1 /\ i <= Credits /\ i <= F + B
        /\ k \in Nat /\ (k = 0 \/ k = i - 1)
    BY <1>2, <1>4, <1>6
  <2>2. Credits \in Nat
    BY GridAssumption
  <2> HIDE DEF F, A, B, i
  <2>3. k <= Credits /\ k <= F + A
    BY <2>1, <2>2
  <2> QED  BY <2>3 DEF F, A
<1>8. Linked(a, panes[c], out[c], u, grid, gens, FALSE)
  BY <1>2, <1>5, <1>6, <1>7 DEF Linked
<1>9. SendReady(em, as, panes', up')
  BY <1>2, <1>3, <1>8, ChangedReady
<1>10. pending \in BOOLEAN /\ (~pending => Shows(grid, em))
  BY InvIs
<1>11. Sent(panes', up', FALSE)
  BY <1>1, <1>9, <1>10, CatchUpFine
<1> QED  BY <1>2, <1>11, SentInv

LEMMA SetVisibleFine ==
  ASSUME GridInv, NEW c \in Clients, SetVisible(c)
  PROVE  GridInv'
<1> DEFINE v  == Head(up[c]).visible
           a  == [atts[c] EXCEPT !.visible = v]
           as == [atts EXCEPT ![c].visible = v]
           u  == Tail(up[c])
<1>1. Takes(c, "SetVisible")
      /\ IF v THEN CatchUp(as) ELSE atts' = as /\ UNCHANGED <<em, grid, gens, pending, out>>
  BY DEF SetVisible
<1>2. /\ ended = FALSE /\ ended' = ended /\ panes' = panes /\ up' = [up EXCEPT ![c] = u]
      /\ OverClients(up') /\ OverClients(panes') /\ panes' = [panes EXCEPT ![c] = panes[c]]
      /\ Head(up[c]) \in Request /\ Head(up[c]).kind = "SetVisible"
      /\ u \in Seq(Request) /\ Cardinality(AcksIn(u)) \in Nat
      /\ Cardinality(AcksIn(up[c])) <= Cardinality(AcksIn(u))
      /\ Linked(atts[c], panes[c], out[c], up[c], grid, gens, FALSE)
      /\ atts[c] \in Attachment /\ atts[c].on /\ IsSeq(out[c]) /\ atts[c].inFlight \in Nat
      /\ Cardinality(Frames(out[c])) \in Nat /\ Cardinality(AcksIn(up[c])) \in Nat
  <2> DEFINE kind == "SetVisible"
  <2>1. kind = "SetVisible" /\ kind # "Ack" /\ Takes(c, kind)
    BY <1>1
  <2> HIDE DEF kind
  <2>2. /\ ended = FALSE /\ ended' = ended /\ panes' = panes /\ up' = [up EXCEPT ![c] = u]
        /\ OverClients(up') /\ OverClients(panes') /\ panes' = [panes EXCEPT ![c] = panes[c]]
        /\ Head(up[c]) \in Request /\ Head(up[c]).kind = kind
        /\ u \in Seq(Request) /\ Cardinality(AcksIn(u)) \in Nat
        /\ Linked(atts[c], panes[c], out[c], up[c], grid, gens, FALSE)
        /\ atts[c] \in Attachment /\ atts[c].on /\ IsSeq(out[c]) /\ atts[c].inFlight \in Nat
        /\ Cardinality(Frames(out[c])) \in Nat /\ Cardinality(AcksIn(up[c])) \in Nat
    BY <2>1, TakesIs
  <2>3. Cardinality(AcksIn(up[c])) <= Cardinality(AcksIn(u)) + (IF kind = "Ack" THEN 1 ELSE 0)
    BY <2>1, TakesIs
  <2>4. Cardinality(AcksIn(up[c])) <= Cardinality(AcksIn(u))
    BY <2>1, <2>2, <2>3
  <2> QED  BY <2>1, <2>2, <2>4
<1>3. as = [atts EXCEPT ![c] = a]
  OBVIOUS
<1>4. v \in BOOLEAN
  BY <1>2 DEF Request
<1> HIDE DEF v
<1>5. /\ a \in Attachment /\ a.on = atts[c].on /\ a.held = atts[c].held
      /\ a.inFlight = atts[c].inFlight /\ a.visible = v
  <2>1. atts[c] \in Attachment /\ 0 \in Nat
    BY <1>2
  <2> QED  BY <1>4, <2>1, PartIsFine, Zenon
<1> HIDE DEF a, as
<1>6. Walks(panes[c], out[c], atts[c].held, grid, gens)
      /\ atts[c].inFlight <= Credits
      /\ atts[c].inFlight <= Cardinality(Frames(out[c])) + Cardinality(AcksIn(up[c]))
  BY <1>2 DEF Linked
<1>7. a.inFlight <= Credits /\ a.inFlight <= Cardinality(Frames(out[c])) + Cardinality(AcksIn(u))
  <2> DEFINE F == Cardinality(Frames(out[c]))
             A == Cardinality(AcksIn(u))
             B == Cardinality(AcksIn(up[c]))
             i == atts[c].inFlight
  <2>1. F \in Nat /\ A \in Nat /\ B \in Nat /\ i \in Nat /\ B <= A /\ i <= Credits /\ i <= F + B
        /\ a.inFlight = i
    BY <1>2, <1>5, <1>6
  <2> HIDE DEF F, A, B, i
  <2>2. a.inFlight <= Credits /\ a.inFlight <= F + A
    BY <2>1
  <2> QED  BY <2>2 DEF F, A
<1>8. Linked(a, panes[c], out[c], u, grid, gens, FALSE)
  BY <1>2, <1>5, <1>6, <1>7 DEF Linked
<1>9. CASE v
  <2>1. CatchUp(as)
    BY <1>1, <1>9
  <2>2. SendReady(em, as, panes', up')
    BY <1>2, <1>3, <1>8, ChangedReady
  <2>3. pending \in BOOLEAN /\ (~pending => Shows(grid, em))
    BY InvIs
  <2>4. Sent(panes', up', FALSE)
    BY <2>1, <2>2, <2>3, CatchUpFine
  <2> QED  BY <1>2, <2>4, SentInv
<1>10. CASE ~v
  <2>1. atts' = [atts EXCEPT ![c] = a] /\ out' = out /\ UNCHANGED <<em, grid, gens, pending>>
    BY <1>1, <1>3, <1>10
  <2>2. out' = [out EXCEPT ![c] = out[c]]
    BY <2>1, InvIs, PutSame
  <2>3. Linked(a, panes[c], out[c], u, grid, gens, ended)
    BY <1>2, <1>8
  <2>4. Caught(a, grid, ended)
    BY <1>5, <1>10 DEF Caught
  <2> QED  BY <1>2, <2>1, <2>2, <2>3, <2>4, QuietInv
<1> QED  BY <1>9, <1>10

LEMMA LosesOutputFine ==
  ASSUME GridInv, LosesOutput
  PROVE  GridInv'
<1>1. /\ ended = FALSE /\ ended' = ended /\ em' = NewTerminal(Height(em)) /\ grid' = NewGrid(None)
      /\ atts' = [c \in Clients |->
                    [atts[c] EXCEPT !.note = @ \/ (grid.gen # None /\ atts[c].held.gen # None)]]
      /\ pending' = TRUE /\ gens' = gens /\ out' = out /\ up' = up /\ panes' = panes
  BY InvIs DEF LosesOutput, wires
<1>2. /\ Sound(em) /\ gens \in Nat
      /\ OverClients(out) /\ OverClients(up) /\ OverClients(panes)
      /\ \A c \in Clients : Linked(atts[c], panes[c], out[c], up[c], grid, gens, FALSE)
  BY <1>1, InvIs
<1>3. Sound(em')
  <2>1. Height(em) \in Nat \ {0}
    BY <1>2, TerminalIs
  <2> QED  BY <1>1, <2>1, NewIsSound
<1>4. /\ GridSane(grid') /\ grid'.gen = None /\ ~grid'.rendered /\ Faithful(grid', em')
  <2>1. None \in Nat
    BY DEF None
  <2> QED  BY <1>1, <2>1, NewGridFine
<1>5. GridFine(grid') /\ grid'.gen <= gens'
  BY <1>1, <1>2, <1>4 DEF GridFine, None
<1>6. \A x : Sees(x, grid, gens) => Sees(x, grid', gens)
  BY <1>2, <1>4, SeesOther
<1>7. ASSUME NEW c \in Clients
      PROVE  /\ Linked(atts'[c], panes[c], out[c], up[c], grid', gens, FALSE)
             /\ Caught(atts'[c], grid', FALSE)
  <2> DEFINE a == atts[c]
             v == a.note \/ (grid.gen # None /\ a.held.gen # None)
             b == [a EXCEPT !.note = v]
  <2>1. atts'[c] = b
    BY <1>1
  <2>2. Linked(a, panes[c], out[c], up[c], grid', gens, FALSE)
    BY <1>2, <1>6, LinkedSees
  <2>3. a \in Attachment /\ (~a.on => a = Gone)
    BY <2>2 DEF Linked
  <2>4. v \in BOOLEAN
    BY <2>3 DEF Attachment
  <2>5. ~a.on => v = FALSE
    BY <2>3, GoneIs
  <2> HIDE DEF v
  <2>6. b \in Attachment /\ b.on = a.on /\ b.held = a.held /\ b.inFlight = a.inFlight
    BY <2>3, <2>4 DEF Attachment
  <2>7. ~a.on => b = Gone
    <3> SUFFICES ASSUME ~a.on PROVE b = Gone
      OBVIOUS
    <3>1. a = Gone /\ v = FALSE
      BY <2>3, <2>5
    <3>2. [Gone EXCEPT !.note = FALSE] = Gone
      <4>1. Gone \in Attachment /\ Gone.note = FALSE
        BY GoneIs
      <4>2. [Gone EXCEPT !.note = Gone.note] = Gone
        BY <4>1 DEF Attachment
      <4> QED  BY <4>1, <4>2
    <3>3. [a EXCEPT !.note = v] = [Gone EXCEPT !.note = FALSE]
      <4> HIDE DEF a
      <4> QED  BY <3>1, Zenon
    <3> QED  BY <3>2, <3>3
  <2> HIDE DEF b
  <2>8. Linked(b, panes[c], out[c], up[c], grid', gens, FALSE)
    BY <2>2, <2>6, <2>7 DEF Linked
  <2>9. Caught(b, grid', FALSE)
    BY <1>4 DEF Caught
  <2> QED  BY <2>1, <2>8, <2>9
<1>8. OverClients(atts')
  BY <1>1 DEF OverClients
<1>9. \A c \in Clients : /\ Linked(atts'[c], panes'[c], out'[c], up'[c], grid', gens', ended')
                         /\ Caught(atts'[c], grid', ended')
  BY <1>1, <1>7
<1>10. Sent(panes', up', ended')
  BY <1>1, <1>2, <1>3, <1>4, <1>5, <1>8, <1>9 DEF Sent
<1> QED  BY <1>1, <1>2, <1>10, SentInv

LEMMA CutLines ==
  ASSUME NEW t, Sound(t), NEW l \in LineCount, NEW term \in Term, NEW on \in BOOLEAN,
         Counts(l, term, on)
  PROVE  LET r == SettleLines([SettleLines(l, t) EXCEPT !.anchor = Never], t)
         IN  r \in LineCount /\ Counts(r, term, on)
<1> DEFINE k == SettleLines(l, t)
           m == [k EXCEPT !.anchor = Never]
<1>1. k \in LineCount /\ Counts(k, term, on)
  <2>1. LinesFine(l, k, t, term, on)
    BY SettleLinesFine
  <2> HIDE DEF k
  <2> QED  BY <2>1 DEF LinesFine
<1> HIDE DEF k
<1>2. m \in LineCount /\ m.moved = k.moved /\ m.h = k.h /\ m.top = k.top /\ m.epoch = k.epoch
  BY <1>1 DEF LineCount
<1> HIDE DEF m
<1>3. Counts(m, term, on)
  BY <1>1, <1>2 DEF Counts
<1>4. LinesFine(m, SettleLines(m, t), t, term, on)
  BY <1>2, <1>3, SettleLinesFine
<1>5. SettleLines(m, t) \in LineCount /\ Counts(SettleLines(m, t), term, on)
  BY <1>4 DEF LinesFine
<1> QED  BY <1>5 DEF m, k

LEMMA CutsFine ==
  ASSUME GridInv, Cuts
  PROVE  GridInv'
<1> DEFINE r == SettleLines([SettleLines(grid.lines, em) EXCEPT !.anchor = Never], em)
           h == [grid EXCEPT !.lines = r, !.full = TRUE]
<1>1. /\ ended = FALSE /\ ended' = ended /\ em' = Clean(em) /\ grid' = h /\ grid.gen # None
      /\ pending' = pending /\ gens' = gens /\ atts' = atts /\ out' = out /\ up' = up /\ panes' = panes
  BY InvIs DEF Cuts, wires
<1>2. /\ Sound(em) /\ gens \in Nat /\ pending \in BOOLEAN
      /\ GridFine(grid) /\ GridSane(grid) /\ grid.gen <= gens
      /\ (~pending => Shows(grid, em))
      /\ OverClients(atts) /\ OverClients(out) /\ OverClients(up) /\ OverClients(panes)
      /\ \A c \in Clients : /\ Linked(atts[c], panes[c], out[c], up[c], grid, gens, ended)
                            /\ Caught(atts[c], grid, ended)
  BY InvIs
<1>3. grid \in Rendering /\ grid.lines \in LineCount /\ grid.term \in Term /\ grid.rendered \in BOOLEAN
      /\ Counts(grid.lines, grid.term, grid.rendered) /\ grid.rendered
  BY <1>1, <1>2 DEF GridSane, GridFine, Rendering
<1>4. r \in LineCount /\ Counts(r, grid.term, grid.rendered)
  BY <1>2, <1>3, CutLines
<1> HIDE DEF r
<1>5. /\ h \in Rendering /\ h.gen = grid.gen /\ h.rev = grid.rev /\ h.rendered = grid.rendered
      /\ h.tgen = grid.tgen /\ h.rows = grid.rows /\ h.revs = grid.revs /\ h.log = grid.log
      /\ h.floor = grid.floor /\ h.term = grid.term /\ h.termRevs = grid.termRevs
      /\ h.styles = grid.styles /\ h.lines = r /\ h.full = TRUE
  BY <1>3, <1>4 DEF Rendering
<1> HIDE DEF h
<1>6. GridSane(h)
  <2>1. Logged(h)
    BY <1>2, <1>5, Zenon DEF GridSane, Logged
  <2>2. Dated(h)
    BY <1>2, <1>5, Zenon DEF GridSane, Dated
  <2>3. Counts(h.lines, h.term, h.rendered)
    BY <1>4, <1>5
  <2>4. Len(h.rows) = h.term.size /\ Len(h.revs) = h.term.size
        /\ Len(h.styles) > 0 /\ Encodes(h.styles, h.rows)
    BY <1>2, <1>5 DEF GridSane
  <2> QED  BY <1>5, <2>1, <2>2, <2>3, <2>4 DEF GridSane
<1>7. GridFine(h)
  BY <1>1, <1>3, <1>5, <1>6 DEF GridFine
<1>8. Alike(grid, h)
  <2>1. grid.styles \in Seq(Cell)
    BY <1>3 DEF Rendering
  <2>2. Starts(grid.styles, h.styles) /\ h.styles \in Seq(Cell)
    BY <1>5, <2>1, StartsSelf
  <2> QED  BY <1>5, <2>2 DEF Alike
<1>9. \A x : Sees(x, grid, gens) => Sees(x, h, gens)
  BY <1>2, <1>8, SeesAlike
<1>10. \A c \in Clients : /\ Linked(atts[c], panes[c], out[c], up[c], h, gens, ended)
                          /\ Caught(atts[c], h, ended)
  BY <1>2, <1>5, <1>9, LinkedSees, CaughtAlike
<1>11. Faithful(h, Clean(em))
  BY <1>5 DEF Faithful, Carries
<1>12. Sound(Clean(em))
  BY <1>2, CleanIs
<1>13. ~pending => Shows(h, Clean(em))
  <2> SUFFICES ASSUME ~pending PROVE Shows(h, Clean(em))
    OBVIOUS
  <2>1. Shows(grid, Clean(em))
    BY <1>2, ShowsClean
  <2>2. \A y : CellOf(h, y) = CellOf(grid, y)
    BY <1>5 DEF CellOf
  <2> QED  BY <1>5, <2>1, <2>2 DEF Shows
<1>14. Sent(panes', up', ended')
  BY <1>1, <1>2, <1>5, <1>7, <1>10, <1>11, <1>12, <1>13 DEF Sent
<1> QED  BY <1>1, <1>2, <1>14, SentInv


LEMMA ResumedIs ==
  ASSUME NEW m, MirrorFine(m)
  PROVE  LET h == [gen |-> m.gen, tgen |-> m.tgen, rev |-> m.rev, mark |-> Len(m.styles)]
         IN  /\ Resumed(m).held = h \/ Resumed(m).held = NoHeld
             /\ h \in Held /\ Resumed(m) \in Attachment /\ Resumed(m).inFlight = 0
<1> DEFINE h == [gen |-> m.gen, tgen |-> m.tgen, rev |-> m.rev, mark |-> Len(m.styles)]
           usable == grid.rendered /\ m.gen = grid.gen /\ (m.tgen # grid.tgen \/ CanCut(grid, h))
           held == IF usable THEN h ELSE NoHeld
           note == ~usable
<1>1. Resumed(m) = [Gone EXCEPT !.held = held, !.note = note]
  BY Zenon DEF Resumed
<1>2. h \in Held
  <2>1. m.gen \in Nat /\ m.tgen \in Nat /\ m.rev \in Nat /\ Len(m.styles) \in Nat
    BY DEF MirrorFine
  <2> QED  BY <2>1 DEF Held
<1>3. (held = h \/ held = NoHeld) /\ note \in BOOLEAN
  BY Zenon
<1> HIDE DEF held, note, usable, h
<1>4. held \in Held
  BY <1>2, <1>3, GoneIs
<1>5. Resumed(m) = [on |-> FALSE, visible |-> FALSE, held |-> held, inFlight |-> 0, note |-> note]
  BY <1>1 DEF Gone
<1>6. Resumed(m).held = held /\ Resumed(m).inFlight = 0 /\ Resumed(m) \in Attachment
  BY <1>3, <1>4, <1>5 DEF Attachment
<1> QED  BY <1>2, <1>3, <1>6 DEF h

LEMMA AttachedIs ==
  ASSUME NEW a \in Attachment, NEW v \in BOOLEAN
  PROVE  /\ [a EXCEPT !.on = TRUE, !.visible = v] \in Attachment
         /\ [a EXCEPT !.on = TRUE, !.visible = v].on = TRUE
         /\ [a EXCEPT !.on = TRUE, !.visible = v].held = a.held
         /\ [a EXCEPT !.on = TRUE, !.visible = v].inFlight = a.inFlight
<1> DEFINE b == TRUE
           q == [a EXCEPT !.on = b, !.visible = v]
<1>1. b = TRUE /\ b \in BOOLEAN
  OBVIOUS
<1> HIDE DEF b
<1> DEFINE r == [a EXCEPT !.on = b]
<1>2. r \in Attachment /\ r.on = b /\ r.held = a.held /\ r.inFlight = a.inFlight
  BY <1>1 DEF Attachment
<1>3. q = [r EXCEPT !.visible = v]
  OBVIOUS
<1> HIDE DEF q, r
<1>4. q \in Attachment /\ q.on = TRUE /\ q.held = a.held /\ q.inFlight = a.inFlight
  <2>1. /\ [r EXCEPT !.visible = v] \in Attachment /\ [r EXCEPT !.visible = v].on = r.on
        /\ [r EXCEPT !.visible = v].held = r.held
        /\ [r EXCEPT !.visible = v].inFlight = r.inFlight
    BY <1>2, PartIsFine
  <2> QED  BY <1>1, <1>2, <1>3, <2>1
<1> QED  BY <1>1, <1>4 DEF q

LEMMA NoPaneSees ==
  ASSUME NEW g, NEW n \in Nat
  PROVE  Sees(NoPane, g, n)
<1>1. MirrorFine(NoMirror)
  BY DEF MirrorFine, NoMirror, None
<1>2. NoPane = [mirror |-> NoMirror, stale |-> FALSE, refused |-> FALSE]
  BY DEF NoPane
<1>3. PaneFine(NoPane) /\ NoPane.mirror = NoMirror
  BY <1>1, <1>2, PaneFrom
<1>4. NoMirror.gen = None /\ None <= n
  BY DEF NoMirror, None
<1> QED  BY <1>3, <1>4 DEF Sees

LEMMA AttachesFine ==
  ASSUME GridInv, NEW c \in Clients, Attaches(c)
  PROVE  GridInv'
<1>1. PICK v \in BOOLEAN, resume \in BOOLEAN :
        /\ ~ended /\ ~atts[c].on
        /\ resume => panes[c].mirror.gen # None /\ ~panes[c].stale
        /\ CatchUp([atts EXCEPT ![c] = [(IF resume THEN Resumed(panes[c].mirror) ELSE Gone)
                                          EXCEPT !.on = TRUE, !.visible = v]])
        /\ panes' = IF resume THEN panes ELSE [panes EXCEPT ![c] = NoPane]
        /\ ended' = ended /\ up' = up
  BY Zenon DEF Attaches
<1> DEFINE b  == IF resume THEN Resumed(panes[c].mirror) ELSE Gone
           a  == [b EXCEPT !.on = TRUE, !.visible = v]
           as == [atts EXCEPT ![c] = a]
           p  == IF resume THEN panes[c] ELSE NoPane
<1>2. /\ OverClients(up) /\ OverClients(panes) /\ ended \in BOOLEAN /\ gens \in Nat
      /\ Linked(atts[c], panes[c], out[c], up[c], grid, gens, ended)
      /\ pending \in BOOLEAN /\ (~pending => Shows(grid, em))
  BY InvIs
<1>3. out[c] = <<>> /\ up[c] = <<>>
  BY <1>1, <1>2, LinkedIs
<1>4. Sees(panes[c], grid, gens)
  <2>1. PICK q : Ends(panes[c], out[c], q, grid, gens)
    BY <1>2, LinkedIs
  <2>2. IsSeq(out[c])
    BY <1>2, LinkedIs
  <2> QED  BY <2>1, <2>2, EndsFirst
<1>5. MirrorFine(panes[c].mirror)
  BY <1>4, PaneIs
<1>6. b \in Attachment /\ b.inFlight = 0 /\ Sees(p, grid, gens) /\ Stands(p, b.held)
  <2>1. CASE resume
    <3>1. b = Resumed(panes[c].mirror) /\ p = panes[c]
      BY <2>1
    <3> DEFINE m == panes[c].mirror
               h == [gen |-> m.gen, tgen |-> m.tgen, rev |-> m.rev, mark |-> Len(m.styles)]
    <3>2. (b.held = h \/ b.held = NoHeld) /\ b \in Attachment /\ b.inFlight = 0
      BY <1>5, <3>1, ResumedIs
    <3>3. Stands(p, h)
      BY <1>1, <2>1, <3>1 DEF Stands
    <3>4. Stands(p, NoHeld)
      BY GoneIs DEF Stands
    <3> HIDE DEF b, p, h
    <3> QED  BY <1>4, <3>1, <3>2, <3>3, <3>4
  <2>2. CASE ~resume
    <3>1. b = Gone /\ p = NoPane
      BY <2>2
    <3>2. Stands(p, NoHeld)
      BY GoneIs DEF Stands
    <3> HIDE DEF b, p
    <3> QED  BY <1>2, <3>1, <3>2, GoneIs, NoPaneSees
  <2> QED  BY <2>1, <2>2
<1>7. panes' = [panes EXCEPT ![c] = p]
  <2>1. CASE resume
    BY <1>1, <1>2, <2>1, PutSame
  <2>2. CASE ~resume
    BY <1>1, <2>2
  <2> QED  BY <2>1, <2>2
<1>8. CatchUp(as)
  BY <1>1
<1> HIDE DEF b, p
<1>9. a \in Attachment /\ a.on = TRUE /\ a.held = b.held /\ a.inFlight = 0
  BY <1>6, AttachedIs
<1>10. as = [atts EXCEPT ![c] = a]
  OBVIOUS
<1> HIDE DEF a, as
<1>11. Linked(a, p, <<>>, <<>>, grid, gens, FALSE)
  BY <1>6, <1>9, LinkedEmpty
<1>12. up' = [up EXCEPT ![c] = up[c]]
  BY <1>1, <1>2, PutSame
<1>13. Linked(a, p, out[c], up[c], grid, gens, FALSE)
  BY <1>3, <1>11
<1>14. ended = FALSE
  BY <1>1, <1>2
<1>15. SendReady(em, as, panes', up')
  BY <1>7, <1>10, <1>12, <1>13, <1>14, ChangedReady
<1>16. Sent(panes', up', FALSE)
  BY <1>2, <1>8, <1>15, CatchUpFine
<1>17. OverClients([panes EXCEPT ![c] = p])
  <2>1. OverClients(panes)
    BY <1>2
  <2> QED  BY <2>1, PutIs, Zenon
<1>18. OverClients(up') /\ OverClients(panes') /\ ended' = FALSE
  BY <1>1, <1>2, <1>7, <1>12, <1>14, <1>17
<1> QED  BY <1>16, <1>18, SentInv

(* A reply of history that the client can take where the hub has it.       *)
LEMMA RepliedFine ==
  ASSUME GridInv, NEW c \in Clients, Takes(c, "FetchHistory"), UNCHANGED <<em, gens, pending>>,
         Grown(grid, grid'), GridFine(grid'), Faithful(grid', em),
         NEW x, x.kind = "History", out' = [out EXCEPT ![c] = Append(out[c], x)],
         NEW a \in Attachment, atts' = [atts EXCEPT ![c] = a],
         a.on = atts[c].on, a.visible = atts[c].visible, a.inFlight = atts[c].inFlight,
         a.note = atts[c].note, a.held.gen = atts[c].held.gen, a.held.tgen = atts[c].held.tgen,
         a.held.rev = atts[c].held.rev,
         \A q : Sees(q, grid', gens) /\ Stands(q, atts[c].held)
                  => Sees(Received(q, x), grid', gens) /\ Stands(Received(q, x), a.held)
  PROVE  GridInv'
<1> DEFINE u == Tail(up[c])
           o == Append(out[c], x)
<1>1. /\ ended = FALSE /\ ended' = ended /\ up' = [up EXCEPT ![c] = u]
      /\ panes' = [panes EXCEPT ![c] = panes[c]]
      /\ u \in Seq(Request) /\ Cardinality(AcksIn(u)) \in Nat
      /\ Cardinality(AcksIn(up[c])) <= Cardinality(AcksIn(u))
      /\ Linked(atts[c], panes[c], out[c], up[c], grid, gens, FALSE)
      /\ atts[c].on /\ IsSeq(out[c]) /\ atts[c].inFlight \in Nat
      /\ Cardinality(Frames(out[c])) \in Nat /\ Cardinality(AcksIn(up[c])) \in Nat
  <2> DEFINE kind == "FetchHistory"
  <2>1. kind # "Ack" /\ Takes(c, kind)
    OBVIOUS
  <2> HIDE DEF kind
  <2>2. /\ ended = FALSE /\ ended' = ended /\ up' = [up EXCEPT ![c] = u]
        /\ panes' = [panes EXCEPT ![c] = panes[c]]
        /\ u \in Seq(Request) /\ Cardinality(AcksIn(u)) \in Nat
        /\ Linked(atts[c], panes[c], out[c], up[c], grid, gens, FALSE)
        /\ atts[c].on /\ IsSeq(out[c]) /\ atts[c].inFlight \in Nat
        /\ Cardinality(Frames(out[c])) \in Nat /\ Cardinality(AcksIn(up[c])) \in Nat
    BY <2>1, TakesIs
  <2>3. Cardinality(AcksIn(up[c])) <= Cardinality(AcksIn(u)) + (IF kind = "Ack" THEN 1 ELSE 0)
    BY <2>1, TakesIs
  <2>4. Cardinality(AcksIn(up[c])) <= Cardinality(AcksIn(u))
    BY <2>1, <2>2, <2>3
  <2> QED  BY <2>2, <2>4
<1>2. GridSane(grid) /\ gens \in Nat /\ grid.gen <= gens /\ Caught(atts[c], grid, ended)
  BY InvIs
<1>3. \A q : Sees(q, grid, gens) => Sees(q, grid', gens)
  BY <1>2, GrownAlike, SeesAlike
<1>4. Linked(atts[c], panes[c], out[c], up[c], grid', gens, FALSE)
  BY <1>1, <1>3, LinkedSees
<1>5. PICK q : Ends(panes[c], out[c], q, grid', gens) /\ Stands(q, atts[c].held)
  BY <1>4, LinkedIs
<1>6. Sees(q, grid', gens)
  BY <1>1, <1>5, EndsFirst
<1>7. Sees(Received(q, x), grid', gens) /\ Stands(Received(q, x), a.held)
  BY <1>5, <1>6
<1>8. Ends(panes[c], o, Received(q, x), grid', gens)
  BY <1>1, <1>5, <1>7, EndsAppend
<1>9. Walks(panes[c], o, a.held, grid', gens)
  BY <1>7, <1>8, WalksEnds
<1>10. IsSeq(o)
  BY <1>1, SeqIs
<1>11. Cardinality(Frames(o)) = Cardinality(Frames(out[c]))
  <2>1. ~IsFrame(x)
    BY DEF IsFrame
  <2>2. Cardinality(Frames(o)) = Cardinality(Frames(out[c])) + (IF IsFrame(x) THEN 1 ELSE 0)
    BY <1>1, FramesAppend
  <2> QED  BY <1>1, <2>1, <2>2
<1> HIDE DEF o
<1>12. a.inFlight <= Credits /\ a.inFlight <= Cardinality(Frames(o)) + Cardinality(AcksIn(u))
  <2> DEFINE F == Cardinality(Frames(out[c]))
             A == Cardinality(AcksIn(u))
             B == Cardinality(AcksIn(up[c]))
             i == atts[c].inFlight
  <2>1. i <= Credits /\ i <= F + B
    BY <1>1, LinkedIs
  <2>2. F \in Nat /\ A \in Nat /\ B \in Nat /\ i \in Nat /\ B <= A /\ a.inFlight = i
    BY <1>1
  <2> HIDE DEF F, A, B, i
  <2>3. a.inFlight <= Credits /\ a.inFlight <= F + A
    BY <2>1, <2>2
  <2> QED  BY <1>11, <2>3 DEF F, A
<1>13. Linked(a, panes[c], o, u, grid', gens, ended)
  BY <1>1, <1>9, <1>10, <1>12 DEF Linked
<1>14. Caught(a, grid', ended)
  <2>1. Caught(a, grid, ended)
    BY <1>2 DEF Caught, Current
  <2> QED  BY <1>2, <2>1, GrownIs, CaughtAlike
<1>15. out' = [out EXCEPT ![c] = o]
  BY DEF o
<1> QED  BY <1>1, <1>13, <1>14, <1>15, GrownInv

LEMMA MarkedIs ==
  ASSUME NEW a \in Attachment, NEW n \in Nat
  PROVE  /\ [a EXCEPT !.held = [@ EXCEPT !.mark = n]] \in Attachment
         /\ LET b == [a EXCEPT !.held = [@ EXCEPT !.mark = n]]
            IN  /\ b.on = a.on /\ b.visible = a.visible /\ b.inFlight = a.inFlight
                /\ b.note = a.note /\ b.held.gen = a.held.gen /\ b.held.tgen = a.held.tgen
                /\ b.held.rev = a.held.rev /\ b.held.mark = n
<1> DEFINE h == [a.held EXCEPT !.mark = n]
           b == [a EXCEPT !.held = h]
<1>1. a.held \in Held
  BY DEF Attachment
<1>2. h \in Held /\ h.gen = a.held.gen /\ h.tgen = a.held.tgen /\ h.rev = a.held.rev /\ h.mark = n
  BY <1>1 DEF Held
<1>3. [a EXCEPT !.held = [@ EXCEPT !.mark = n]] = b
  OBVIOUS
<1> HIDE DEF h
<1>4. /\ b \in Attachment /\ b.on = a.on /\ b.visible = a.visible /\ b.inFlight = a.inFlight
      /\ b.note = a.note /\ b.held = h
  BY <1>2 DEF Attachment
<1> HIDE DEF b
<1> QED  BY <1>2, <1>3, <1>4

(* What Fetch answers, on the grid `g`, to who holds `held`.               *)
Usable(held, g, epoch) ==
  grid.gen # None /\ held.gen = g.gen /\ held.tgen = g.tgen /\ g.lines.epoch = epoch
Reply(epoch, rows, styles) == [kind |-> "History", epoch |-> epoch, rows |-> rows, styles |-> styles]
Settled == IF grid.gen = None THEN grid ELSE Settle(grid, em)

LEMMA FetchIs ==
  ASSUME NEW c, Fetch(c)
  PROVE  LET ask   == Head(up[c])
             found == History(Settled, em, ask.from, 1)
             n     == Len(found.grid.styles)
         IN  /\ Takes(c, "FetchHistory") /\ UNCHANGED <<em, gens, pending>>
             /\ Usable(atts[c].held, Settled, ask.epoch) =>
                  /\ grid' = found.grid /\ atts' = [atts EXCEPT ![c].held.mark = n]
                  /\ out' = [out EXCEPT ![c] = Append(out[c],
                                Reply(ask.epoch, found.rows, From(found.grid.styles, atts[c].held.mark)))]
             /\ ~Usable(atts[c].held, Settled, ask.epoch) =>
                  /\ grid' = Settled /\ atts' = atts
                  /\ out' = [out EXCEPT ![c] = Append(out[c],
                                Reply(Settled.lines.epoch, <<>>, From(<<>>, 0)))]
<1> DEFINE ask   == Head(up[c])
           g     == Settled
           found == History(g, em, ask.from, 1)
           ok    == Usable(atts[c].held, g, ask.epoch)
           one   == Reply(ask.epoch, found.rows, From(found.grid.styles, atts[c].held.mark))
           none  == Reply(g.lines.epoch, <<>>, From(<<>>, 0))
           reply == IF ok THEN one ELSE none
<1>1. /\ Takes(c, "FetchHistory") /\ UNCHANGED <<em, gens, pending>>
      /\ grid' = IF ok THEN found.grid ELSE g
      /\ atts' = IF ok THEN [atts EXCEPT ![c].held.mark = Len(found.grid.styles)] ELSE atts
      /\ out' = [out EXCEPT ![c] = Append(@, reply)]
  BY Zenon DEF Fetch, Usable, Reply, Settled
<1> HIDE DEF one, none, found, g
<1>2. CASE ok
  BY <1>1, <1>2 DEF one, found, g
<1>3. CASE ~ok
  BY <1>1, <1>3 DEF none, g
<1> QED  BY <1>2, <1>3

LEMMA FetchFine ==
  ASSUME GridInv, NEW c \in Clients, Fetch(c)
  PROVE  GridInv'
<1> DEFINE ask   == Head(up[c])
           held  == atts[c].held
           g     == Settled
           found == History(g, em, ask.from, 1)
           n     == Len(found.grid.styles)
           ok    == Usable(held, g, ask.epoch)
           one   == Reply(ask.epoch, found.rows, From(found.grid.styles, held.mark))
           none  == Reply(g.lines.epoch, <<>>, From(<<>>, 0))
           a     == [atts[c] EXCEPT !.held = [@ EXCEPT !.mark = n]]
<1>1. /\ Takes(c, "FetchHistory") /\ UNCHANGED <<em, gens, pending>>
      /\ ok => /\ grid' = found.grid /\ atts' = [atts EXCEPT ![c].held.mark = n]
               /\ out' = [out EXCEPT ![c] = Append(out[c], one)]
      /\ ~ok => /\ grid' = g /\ atts' = atts /\ out' = [out EXCEPT ![c] = Append(out[c], none)]
  BY FetchIs, Zenon
<1>2. ask \in Request /\ ask.kind = "FetchHistory" /\ atts[c] \in Attachment
  <2>1. Takes(c, "FetchHistory")
    BY <1>1
  <2> QED  BY <2>1, TakesIs
<1>3. ask.from \in Nat
  BY <1>2 DEF Request
<1>4. /\ Sound(em) /\ GridFine(grid) /\ GridSane(grid) /\ Faithful(grid, em) /\ OverClients(atts)
      /\ (grid.gen # None <=> grid.rendered)
  BY InvIs DEF GridFine
<1>5. GridFine(g) /\ Faithful(g, em) /\ Grown(grid, g) /\ GridSane(g)
  <2>1. CASE grid.gen = None
    <3>1. g = grid
      BY <2>1 DEF Settled
    <3> QED  BY <1>4, <3>1, GrownSelf
  <2>2. CASE grid.gen # None
    <3>1. g = Settle(grid, em)
      BY <2>2 DEF Settled
    <3>2. GridFine(Settle(grid, em)) /\ Faithful(Settle(grid, em), em)
          /\ Grown(grid, Settle(grid, em))
      BY <1>4, <2>2, SettleFine
    <3> QED  BY <3>1, <3>2 DEF GridFine
  <2> QED  BY <2>1, <2>2
<1> HIDE DEF g, ask
<1>6. CASE ok
  <2> DEFINE h == found.grid
  <2>1. grid.gen # None /\ held.gen = g.gen /\ held.tgen = g.tgen
    BY <1>6 DEF Usable
  <2>2. /\ Grown(g, h) /\ h.lines = g.lines /\ h.styles \in Seq(Cell)
        /\ \A line \in DOMAIN found.rows : found.rows[line] < Len(h.styles)
    <3>1. Sound(em) /\ GridSane(g) /\ ask.from \in Nat /\ 1 \in Nat
      BY <1>3, <1>4, <1>5
    <3> QED  BY <3>1, HistoryIs, Zenon
  <2>3. g.gen = grid.gen /\ g.rendered = grid.rendered
    BY <1>4, <1>5, GrownIs
  <2> HIDE DEF found
  <2>4. GridFine(h) /\ Faithful(h, em)
    BY <1>4, <1>5, <2>1, <2>2, <2>3, MintedFine
  <2>5. Grown(grid, h) /\ GridSane(h)
    BY <1>4, <1>5, <2>2, <2>4, GrownTwice DEF GridFine
  <2>6. n \in Nat
    BY <2>2
  <2> HIDE DEF n
  <2>7. /\ a \in Attachment /\ a.on = atts[c].on /\ a.visible = atts[c].visible
        /\ a.inFlight = atts[c].inFlight /\ a.note = atts[c].note
        /\ a.held.gen = held.gen /\ a.held.tgen = held.tgen /\ a.held.rev = held.rev
        /\ a.held.mark = n
    BY <1>2, <2>6, MarkedIs, Zenon
  <2>8. grid' = h /\ out' = [out EXCEPT ![c] = Append(out[c], one)]
    BY <1>1, <1>6
  <2>9. atts' = [atts EXCEPT ![c] = a]
    BY <1>1, <1>6
  <2>10. one.kind = "History" /\ one.styles = From(h.styles, held.mark) /\ one.rows = found.rows
    BY DEF Reply
  <2> HIDE DEF a, one
  <2>11. h.gen = g.gen /\ h.tgen = g.tgen
    BY <1>5, <2>2, GrownIs
  <2> HIDE DEF h
  <2>12. ASSUME NEW q, Sees(q, h, gens), Stands(q, held)
         PROVE  Sees(Received(q, one), h, gens) /\ Stands(Received(q, one), a.held)
    <3>1. held.gen # None /\ held.gen = h.gen /\ held.tgen = h.tgen
      BY <2>1, <2>3, <2>11
    <3>2. \A line \in DOMAIN one.rows : one.rows[line] < Len(h.styles)
      BY <2>2, <2>10 DEF h
    <3>3. a.held.mark = Len(h.styles)
      BY <2>7 DEF n, h
    <3> QED  BY <2>5, <2>7, <2>10, <2>12, <3>1, <3>2, <3>3, HistoryTaken
  <2>13. \A q : Sees(q, grid', gens) /\ Stands(q, held)
                  => Sees(Received(q, one), grid', gens) /\ Stands(Received(q, one), a.held)
    BY <2>8, <2>12
  <2>14. Grown(grid, grid') /\ GridFine(grid') /\ Faithful(grid', em)
    BY <2>4, <2>5, <2>8 DEF h
  <2> QED  BY <1>1, <2>7, <2>8, <2>9, <2>10, <2>13, <2>14, RepliedFine
<1>7. CASE ~ok
  <2>1. grid' = g /\ atts' = atts /\ out' = [out EXCEPT ![c] = Append(out[c], none)]
    BY <1>1, <1>7
  <2>2. none.kind = "History" /\ none.styles = From(<<>>, 0) /\ none.rows = <<>>
    BY DEF Reply
  <2> HIDE DEF none
  <2>3. \A q : Sees(q, grid', gens) /\ Stands(q, held)
                 => Sees(Received(q, none), grid', gens) /\ Stands(Received(q, none), held)
    BY <2>2, NothingTaken
  <2>4. atts' = [atts EXCEPT ![c] = atts[c]]
    BY <1>4, <2>1, PutSame
  <2>5. Grown(grid, grid') /\ GridFine(grid') /\ Faithful(grid', em)
    BY <1>5, <2>1
  <2> QED  BY <1>1, <1>2, <2>1, <2>2, <2>3, <2>4, <2>5, RepliedFine
<1> QED  BY <1>6, <1>7

-----------------------------------------------------------------------------
(* The theorems.                                                           *)

LEMMA InitFine ==
  ASSUME Init
  PROVE  GridInv
<1>1. /\ em = NewTerminal(FirstHeight) /\ grid = NewGrid(None) /\ gens = 0 /\ pending = TRUE
      /\ ended = FALSE /\ atts = [c \in Clients |-> Gone]
      /\ out = [c \in Clients |-> <<>>] /\ up = [c \in Clients |-> <<>>]
      /\ panes = [c \in Clients |-> NoPane]
  BY DEF Init
<1>2. Sound(em)
  BY <1>1, GridAssumption, NewIsSound
<1>3. None \in Nat /\ None = 0
  BY DEF None
<1>4. GridSane(NewGrid(None)) /\ NewGrid(None).gen = None /\ ~NewGrid(None).rendered
      /\ \A t : Faithful(NewGrid(None), t)
  BY <1>3, NewGridFine
<1>5. GridFine(grid) /\ grid.gen <= gens /\ Faithful(grid, em) /\ grid.rendered = FALSE
  <2>1. GridFine(grid)
    BY <1>1, <1>4 DEF GridFine
  <2>2. grid.rendered = FALSE
    BY <1>1 DEF NewGrid
  <2> QED  BY <1>1, <1>3, <1>4, <2>1, <2>2
<1>6. OverClients(atts) /\ OverClients(out) /\ OverClients(up) /\ OverClients(panes)
  BY <1>1 DEF OverClients
<1>7. ASSUME NEW c \in Clients
      PROVE  /\ Linked(atts[c], panes[c], out[c], up[c], grid, gens, ended)
             /\ Caught(atts[c], grid, ended)
  <2>1. atts[c] = Gone /\ panes[c] = NoPane /\ out[c] = <<>> /\ up[c] = <<>>
    BY <1>1
  <2>2. Sees(NoPane, grid, gens)
    BY <1>1, NoPaneSees
  <2>3. Stands(NoPane, Gone.held)
    BY GoneIs DEF Stands
  <2>4. Linked(Gone, NoPane, <<>>, <<>>, grid, gens, ended)
    BY <2>2, <2>3, GoneIs, LinkedEmpty
  <2>5. Caught(Gone, grid, ended)
    BY GoneIs DEF Caught
  <2> QED  BY <2>1, <2>4, <2>5
<1> QED  BY <1>1, <1>2, <1>5, <1>6, <1>7 DEF GridInv, ClientsFine

LEMMA NextFine ==
  ASSUME GridInv, [Next]_vars
  PROVE  GridInv'
<1>1. CASE Records
  BY <1>1, RecordsFine
<1>2. CASE Ticks
  BY <1>2, TicksFine
<1>3. CASE Cuts
  BY <1>3, CutsFine
<1>4. CASE LosesOutput
  BY <1>4, LosesOutputFine
<1>5. CASE Finishes
  BY <1>5, FinishesFine
<1>6. ASSUME NEW c \in Clients,
             \/ Attaches(c) \/ Disconnects(c) \/ ShowsPane(c) \/ AsksHistory(c) \/ Receives(c)
             \/ Acks(c) \/ SetVisible(c) \/ Fetch(c)
      PROVE  GridInv'
  BY <1>6, AttachesFine, DisconnectsFine, ShowsPaneFine, AsksHistoryFine, ReceivesFine,
     AcksFine, SetVisibleFine, FetchFine
<1>7. CASE UNCHANGED vars
  BY <1>7 DEF vars, GridInv, ClientsFine
<1> QED  BY <1>1, <1>2, <1>3, <1>4, <1>5, <1>6, <1>7 DEF Next

(* The invariant: the grid's cache has every row the terminal has not      *)
(* marked dirty, every mirror follows the grid, and what is on its way to  *)
(* a client takes its mirror, with nothing refused, to what the hub        *)
(* believes it holds, with a frame or an ack out for every credit in use   *)
(* (grid.rs update, hub.rs pump and catch_up, term-mirror apply).          *)
THEOREM GridInvariant == Spec => []GridInv
<1>1. Init => GridInv
  BY InitFine
<1>2. GridInv /\ [Next]_vars => GridInv'
  BY NextFine
<1> QED  BY <1>1, <1>2, PTL DEF Spec

LEMMA DrawnAlike ==
  ASSUME NEW m, MirrorFine(m), m.gen # None, NEW g, GridSane(g), Follows(m, g),
         m.gen = g.gen, m.tgen = g.tgen, m.rev = g.rev
  PROVE  /\ m.term = g.term /\ m.rows = g.rows
         /\ Drawn(m.rows, m.styles) = Drawn(g.rows, g.styles)
<1>1. /\ Starts(m.styles, g.styles)
      /\ \A f \in TermFields : g.termRevs[f] <= m.rev => m.term[f] = g.term[f]
      /\ ~Reshaped(g, m.rev) /\ m.rev >= g.floor => Has(m, g)
  BY DEF Follows
<1>2. /\ m.rows \in Seq(Row) /\ Len(m.rows) = m.term.size /\ m.term \in Term
      /\ m.styles \in Seq(Cell) /\ Encodes(m.styles, m.rows) /\ m.rev \in Nat
  BY MirrorIs
<1>3. /\ g.rows \in Seq(Row) /\ Len(g.rows) = g.term.size /\ Len(g.revs) = g.term.size
      /\ g.term \in Term /\ g.styles \in Seq(Cell) /\ g.rev \in Nat /\ g.floor \in Nat
      /\ g.revs \in Seq(Nat) /\ g.termRevs \in [TermFields -> Nat]
  BY DEF GridSane, Rendering
<1>4. /\ g.floor <= g.rev /\ \A y \in 1..Len(g.revs) : g.revs[y] <= g.rev
      /\ \A f \in TermFields : g.termRevs[f] <= g.rev
  BY DEF GridSane, Dated
<1>5. ~Reshaped(g, m.rev)
  BY <1>3, <1>4 DEF Reshaped, TermFields
<1>6. Has(m, g)
  BY <1>1, <1>3, <1>4, <1>5
<1>7. m.term = g.term
  <2>1. \A f \in TermFields : m.term[f] = g.term[f]
    BY <1>1, <1>4
  <2>2. m.term = [f \in TermFields |-> m.term[f]]
    BY <1>2 DEF Term, TermFields
  <2> QED  BY <1>3, <2>1, <2>2, TermIs
<1>8. m.rows = g.rows
  <2>1. Owed(g, m.rev) = 0
    <3>1. m.rev \in Nat /\ m.rev >= g.rev
      BY <1>2, <1>3
    <3> QED  BY <3>1, OwedIs
  <2>2. ASSUME NEW y \in 1..g.term.size
        PROVE  g.rows[y] = m.rows[y]
    <3>1. g.rows[y] = RowPast(m.rows, y, 0)
      BY <1>3, <1>4, <1>6, <2>1 DEF Has
    <3>2. y \in 1..Len(m.rows)
      BY <1>2, <1>7
    <3> QED  BY <1>2, <3>1, <3>2, PastNone
  <2>3. Len(m.rows) = Len(g.rows) /\ \A y \in 1..Len(m.rows) : m.rows[y] = g.rows[y]
    BY <1>2, <1>3, <1>7, <2>2
  <2> QED  BY <1>2, <1>3, <2>3, SameSeq
<1>9. Drawn(m.rows, m.styles) = Drawn(g.rows, g.styles)
  <2> DEFINE rows == g.rows
             s == m.styles
             u == g.styles
  <2>1. ASSUME NEW y \in DOMAIN rows
        PROVE  s[rows[y].cell + 1] = u[rows[y].cell + 1]
    <3>1. y \in 1..Len(rows) /\ rows[y] \in Row
      BY <1>3
    <3>2. rows[y].cell \in Nat /\ rows[y].cell < Len(s)
      BY <1>2, <1>8, <3>1 DEF Encodes, Row
    <3>3. Len(s) \in Nat /\ \A i \in 1..Len(s) : s[i] = u[i]
      BY <1>1, <1>2 DEF Starts
    <3> QED  BY <3>2, <3>3
  <2> HIDE DEF s, u
  <2> QED  BY <1>8, <2>1 DEF Drawn, s, u
<1> QED  BY <1>7, <1>8, <1>9

LEMMA GridDrawn ==
  ASSUME NEW t, Sound(t), NEW g, GridSane(g), Shows(g, t)
  PROVE  Drawn(g.rows, g.styles) = Viewport(t) /\ g.term.screen = t.screen
<1>1. /\ g.term.screen = t.screen /\ Len(g.rows) = Height(t)
      /\ \A y \in 1..Height(t) : g.styles[g.rows[y].cell + 1] = Viewport(t)[y]
  BY DEF Shows, CellOf
<1>2. g.rows \in Seq(Row) /\ Viewport(t) \in Seq(Cell) /\ Len(Viewport(t)) = Height(t)
  BY TerminalIs DEF GridSane, Rendering
<1>3. DOMAIN g.rows = 1..Height(t)
  BY <1>1, <1>2
<1>4. Viewport(t) = [y \in 1..Height(t) |-> Viewport(t)[y]]
  BY <1>2
<1> QED  BY <1>1, <1>3, <1>4 DEF Drawn

LEMMA InvShows ==
  ASSUME GridInv
  PROVE  MirrorShowsGrid
<1>1. /\ Sound(em) /\ GridSane(grid) /\ (~pending => Shows(grid, em))
      /\ \A c \in Clients : Linked(atts[c], panes[c], out[c], up[c], grid, gens, ended)
  BY InvIs
<1>2. ASSUME NEW c \in Clients
      PROVE  LET m == panes[c].mirror
             IN  /\ ~panes[c].refused
                 /\ (m.gen = grid.gen /\ m.gen # None /\ ~panes[c].stale
                       /\ m.rev = grid.rev /\ m.tgen = grid.tgen)
                    => /\ m.term = grid.term
                       /\ \A y \in DOMAIN grid.rows : m.rows[y].line = grid.rows[y].line
                       /\ Drawn(m.rows, m.styles) = Drawn(grid.rows, grid.styles)
  <2> DEFINE m == panes[c].mirror
  <2>1. IsSeq(out[c]) /\ \E q : Ends(panes[c], out[c], q, grid, gens)
    BY <1>1, LinkedIs
  <2>2. Sees(panes[c], grid, gens)
    BY <2>1, EndsFirst
  <2>3. MirrorFine(m) /\ ~panes[c].refused /\ (m.gen # None => Follows(m, grid))
    BY <2>2, PaneIs DEF Sees
  <2> HIDE DEF m
  <2>4. ASSUME m.gen = grid.gen, m.gen # None, m.rev = grid.rev, m.tgen = grid.tgen
        PROVE  /\ m.term = grid.term /\ m.rows = grid.rows
               /\ Drawn(m.rows, m.styles) = Drawn(grid.rows, grid.styles)
    BY <1>1, <2>3, <2>4, DrawnAlike
  <2> QED  BY <2>3, <2>4 DEF m
<1>3. ~pending => /\ Drawn(grid.rows, grid.styles) = Viewport(em)
                  /\ grid.term.screen = em.screen
  BY <1>1, GridDrawn
<1> QED  BY <1>2, <1>3 DEF MirrorShowsGrid

(* A frame is never refused, a mirror at the grid's revision shows what    *)
(* the grid holds, and the grid, unless records wait, what the terminal    *)
(* shows.                                                                  *)
THEOREM MirrorAlwaysShowsGrid == Spec => []MirrorShowsGrid
<1>1. GridInv => MirrorShowsGrid
  BY InvShows
<1> QED  BY <1>1, GridInvariant, PTL

LEMMA InvCatchesUp ==
  ASSUME GridInv
  PROVE  GridCatchesUp
<1> SUFFICES ASSUME AtRest, NEW c \in Clients, atts[c].visible
             PROVE  LET m == panes[c].mirror
                    IN  /\ m.gen # None /\ ~panes[c].stale
                        /\ Drawn(m.rows, m.styles) = Viewport(em)
                        /\ m.term.screen = em.screen
  BY DEF GridCatchesUp
<1>1. out[c] = <<>> /\ up[c] = <<>> /\ ~pending
  BY DEF AtRest, Watched
<1>2. /\ Sound(em) /\ GridSane(grid) /\ GridFine(grid) /\ Shows(grid, em)
      /\ Linked(atts[c], panes[c], out[c], up[c], grid, gens, ended)
      /\ Caught(atts[c], grid, ended)
  BY <1>1, InvIs
<1>3. grid.rendered /\ grid.gen # None
  BY <1>2 DEF Shows, GridFine
<1>4. PICK q : Ends(panes[c], out[c], q, grid, gens) /\ Stands(q, atts[c].held)
  BY <1>2, LinkedIs
<1>5. q = panes[c] /\ Sees(q, grid, gens)
  <2>1. IsSeq(out[c])
    BY <1>2, LinkedIs
  <2> QED  BY <1>1, <1>4, <2>1, EndsFirst
<1>6. Current(atts[c], grid)
  <2>1. ~ended => atts[c].inFlight <= Cardinality(Frames(out[c])) + Cardinality(AcksIn(up[c]))
    BY <1>2, LinkedIs
  <2>2. Cardinality(Frames(out[c])) = 0 /\ Cardinality(AcksIn(up[c])) = 0
    <3>1. Frames(<<>>) = {} /\ AcksIn(<<>>) = {}
      BY DEF Frames, AcksIn
    <3> QED  BY <1>1, <3>1, FS_EmptySet
  <2>3. atts[c] \in Attachment
    BY <1>2, LinkedIs
  <2>4. ~ended => ~(atts[c].inFlight >= Credits)
    <3>1. atts[c].inFlight \in Nat
      BY <2>3 DEF Attachment
    <3> DEFINE i == atts[c].inFlight
    <3>2. ~ended => i <= 0
      BY <2>1, <2>2
    <3> HIDE DEF i
    <3>3. i \in Nat /\ Credits \in 1..254
      BY <3>1, GridAssumption DEF i
    <3>4. ~ended => ~(i >= Credits)
      BY <3>2, <3>3
    <3> QED  BY <3>4 DEF i
  <2> QED  BY <1>2, <1>3, <2>4 DEF Caught
<1> DEFINE m == panes[c].mirror
<1>7. /\ m.gen = grid.gen /\ m.tgen = grid.tgen /\ m.rev = grid.rev /\ ~panes[c].stale
      /\ m.gen # None
  BY <1>3, <1>4, <1>5, <1>6 DEF Current, Stands
<1>8. MirrorFine(m) /\ Follows(m, grid)
  BY <1>5, <1>7, PaneIs DEF Sees
<1> HIDE DEF m
<1>9. m.term = grid.term /\ Drawn(m.rows, m.styles) = Drawn(grid.rows, grid.styles)
  BY <1>2, <1>7, <1>8, DrawnAlike
<1>10. Drawn(grid.rows, grid.styles) = Viewport(em) /\ grid.term.screen = em.screen
  BY <1>2, GridDrawn
<1> QED  BY <1>7, <1>9, <1>10 DEF m

(* Once nothing is on its way and no frame is due, every client that       *)
(* watches shows the terminal as it is: no credit is lost, and no request  *)
(* that should send a frame fails to.                                      *)
THEOREM GridAlwaysCatchesUp == Spec => []GridCatchesUp
<1>1. GridInv => GridCatchesUp
  BY InvCatchesUp
<1> QED  BY <1>1, GridInvariant, PTL
=============================================================================
