-------------------------------- MODULE Grid --------------------------------
(***************************************************************************)
(* One session's grid clients: the terminal (libghostty, external), the    *)
(* grid's row cache and revisions (grid/src/grid.rs, lines.rs, tables.rs), *)
(* the hub that decides what each client is sent and when                  *)
(* (grid/src/hub.rs), and each client's mirror (grid-client, term-mirror). *)
(*                                                                         *)
(* A row is one cell whose content is its style, so a row's encoding is an *)
(* id in the style table and the table's limits, marks and compactions are *)
(* kept.  Rows are counted from 1.  The link table, which works as the     *)
(* style table does, the cursor, colours, images and the row flags are     *)
(* left out.                                                               *)
(***************************************************************************)
EXTENDS Integers, SequencesExt

CONSTANTS
    Clients,
    Styles,     \* what a row may hold, besides nothing
    FirstHeight,\* rows the terminal starts with
    Heights,    \* rows a resize may give it
    HistCap,    \* rows the scrollback holds
    LogLen,     \* scroll log entries kept
    MaxStyles,  \* past this many styles the table is compacted
    Credits,    \* frames in flight per attachment
    HistoryTail,\* history rows an attach asks for
    MaxOps,     \* bound: changes to the terminal
    MaxEvents   \* bound: attaches, requests of clients, checkpoint cuts, terminals lost

(* The terminal always has a row; LOG_LEN is 64, and credits, a u8, are 2:  *)
(* fewer than the 255 that the last frame may take.                         *)
ASSUME GridAssumption ==
    /\ IsFiniteSet(Clients)
    /\ FirstHeight \in Nat \ {0} /\ Heights \subseteq Nat \ {0}
    /\ {HistCap, MaxStyles, HistoryTail} \subseteq Nat
    /\ LogLen \in Nat \ {0} /\ Credits \in 1..254

VARIABLES
    em,         \* the terminal
    grid,       \* the grid; its gen is None while there is none
    gens,       \* grids made so far: fresh_state_gen
    pending,    \* records applied since the last render update
    atts,       \* the hub's attachments, by client
    ended,      \* the program ended and the session is leaving the engine
    out,        \* messages on their way to each client
    up,         \* requests on their way from each client
    panes,      \* each client's mirror
    spent       \* how much of each bound was used

vars == <<em, grid, gens, pending, atts, ended, out, up, panes, spent>>
wires == <<out, up>>

None  == 0
Never == -1
Blank == "blank"
Blanks(n) == [y \in 1..n |-> Blank]
Most(a, b) == IF a > b THEN a ELSE b
Least(a, b) == IF a < b THEN a ELSE b

\* The map `under`, with what `f` has instead where it has anything.
Over(f, under) ==
    [x \in DOMAIN f \cup DOMAIN under |-> IF x \in DOMAIN f THEN f[x] ELSE under[x]]

-----------------------------------------------------------------------------
(* The terminal.  `first` is the ordinal of its oldest row since it was    *)
(* made, which a tracked reference survives by.                            *)

NewTerminal(n) ==
    [screen |-> "Primary", prim |-> Blanks(n), alt |-> Blanks(n), hist |-> <<>>,
     first |-> 0, dirty |-> 1..n, clears |-> 0]

Viewport(t) == IF t.screen = "Primary" THEN t.prim ELSE t.alt
Height(t)   == Len(t.prim)
Redrawn(t)  == [t EXCEPT !.dirty = 1..Height(t)]
Clean(t)    == [t EXCEPT !.dirty = {}]

\* Rows enter the history, which lets its oldest go past the cap.
Pushed(t, rows) ==
    LET all  == t.hist \o rows
        over == Most(0, Len(all) - HistCap)
    IN  [t EXCEPT !.hist = SubSeq(all, over + 1, Len(all)), !.first = @ + over]

Writes(t, y, s) ==
    LET written == [t EXCEPT !.dirty = @ \cup {y}]
    IN  IF t.screen = "Primary" THEN [written EXCEPT !.prim[y] = s]
                                ELSE [written EXCEPT !.alt[y] = s]

Scrolls(t) ==
    IF t.screen = "Primary"
    THEN [Pushed(t, <<Head(t.prim)>>) EXCEPT
            !.prim  = Append(Tail(@), Blank),
            !.dirty = {y - 1 : y \in t.dirty \ {1}} \cup {Height(t)}]
    ELSE Redrawn([t EXCEPT !.alt = Append(Tail(@), Blank)])

ClearsHistory(t) ==
    [t EXCEPT !.hist = <<>>, !.first = @ + Len(t.hist), !.clears = @ + 1]

Switches(t) ==
    Redrawn(IF t.screen = "Primary"
            THEN [t EXCEPT !.screen = "Alternate", !.alt = Blanks(Height(t))]
            ELSE [t EXCEPT !.screen = "Primary"])

Resizes(t, n) ==
    LET h    == Height(t)
        back == Least(n - h, Len(t.hist))
        kept == Len(t.hist) - back
    IN  Redrawn(
          IF n < h
          THEN [Pushed(t, SubSeq(t.prim, 1, h - n)) EXCEPT
                  !.prim = SubSeq(@, h - n + 1, h), !.alt = SubSeq(@, 1, n)]
          ELSE [t EXCEPT
                  !.hist = SubSeq(@, 1, kept),
                  !.prim = SubSeq(t.hist, kept + 1, Len(t.hist)) \o @ \o Blanks(n - h - back),
                  !.alt  = @ \o Blanks(n - h)])

\* What a record may do to the terminal.
Changed(t) ==
    {Writes(t, y, s) : y \in 1..Height(t), s \in Styles}
      \cup {Scrolls(t), Switches(t)}
      \cup {Resizes(t, n) : n \in Heights \ {Height(t)}}
      \cup (IF t.screen = "Primary" THEN {ClearsHistory(t)} ELSE {})

-----------------------------------------------------------------------------
(* Absolute line numbers (lines.rs).                                       *)

NotMoved == [scrolled |-> 0, newEpoch |-> FALSE]
NewLines == [anchor |-> Never, h |-> Never, top |-> 0, epoch |-> 0, moved |-> NotMoved]

Lose(l, h) ==
    [l EXCEPT !.epoch = @ + 1, !.top = h, !.moved = [scrolled |-> 0, newEpoch |-> TRUE]]

\* The reference is put back on the first row of the viewport.
Anchored(l, t) == [l EXCEPT !.h = Len(t.hist), !.anchor = t.first + Len(t.hist)]

SettleLines(l, t) ==
    LET h        == Len(t.hist)
        scrolled == Most(0, h - (l.anchor - t.first))
        counted  ==
          CASE l.h = Never       -> [l EXCEPT !.top = h]
            [] l.h # Never /\ l.anchor = Never -> IF l.h = h THEN l ELSE Lose(l, h)
            [] OTHER ->
                 IF l.anchor < t.first \/ (h = 0 /\ l.h + scrolled > 0)
                 THEN Lose(l, h)
                 ELSE [l EXCEPT !.top = @ + scrolled, !.moved.scrolled = @ + scrolled]
    IN  IF t.screen = "Primary" THEN Anchored(counted, t) ELSE l

NewEpoch(l, t) ==
    IF t.screen = "Primary"
    THEN Anchored(Lose(l, Len(t.hist)), t)
    ELSE Lose(l, Most(0, l.h))

OldestLine(l) == Most(0, l.top - Most(0, l.h))

-----------------------------------------------------------------------------
(* Style tables (tables.rs): ids are places in the table, from 0.          *)

\* The styles with those of `found` at the places read added, each once.
Minted(styles, found, read) ==
    LET known[i \in 0..Len(found)] ==
          IF i = 0 THEN styles
          ELSE IF i \notin read \/ Contains(known[i - 1], found[i]) THEN known[i - 1]
          ELSE Append(known[i - 1], found[i])
    IN  known[Len(found)]
IdOf(styles, s) == (CHOOSE i \in DOMAIN styles : styles[i] = s) - 1
From(styles, mark) == [mark |-> mark, defs |-> SubSeq(styles, mark + 1, Len(styles))]

-----------------------------------------------------------------------------
(* The grid (grid.rs).                                                     *)

BlankRow == [line |-> 0, cell |-> 0]
TermFields == {"size", "screen", "epoch", "top"}

NewGrid(gen) ==
    [gen |-> gen, rev |-> 0, rendered |-> FALSE, tgen |-> 0, styles |-> <<Blank>>,
     rows |-> <<>>, revs |-> <<>>, log |-> <<>>, floor |-> 0,
     term |-> [size |-> 0, screen |-> "Primary", epoch |-> 0, top |-> 0],
     termRevs |-> [f \in TermFields |-> 0],
     lines |-> NewLines, clears |-> Never, full |-> TRUE]

Settle(g, t) ==
    LET l == SettleLines(g.lines, t)
    IN  [g EXCEPT
           !.lines  = IF g.clears \in {Never, t.clears} THEN l ELSE NewEpoch(l, t),
           !.clears = t.clears]

\* The cache at a new height: rows taken off the end, or added there as new.
Resized(rows, n, new) ==
    [y \in 1..n |-> IF y <= Len(rows) THEN rows[y] ELSE new]

\* The cache shifted as a client's scroll will shift its mirror.
Shifted(rows, k) ==
    [y \in DOMAIN rows |-> IF y + k <= Len(rows) THEN rows[y + k] ELSE BlankRow]

\* Rotated, so a row left blank keeps the revision of the one it stands for.
Rotated(s, k) == SubSeq(s, k + 1, Len(s)) \o SubSeq(s, 1, k)

\* The line count of an update: settled, and started again if the size changed.
LinesAt(g, t) ==
    LET l == Settle(g, t).lines
    IN  IF g.rendered /\ Height(t) # g.term.size THEN NewEpoch(l, t) ELSE l

\* Whether a client's mirror can be shifted as the cache is, and how far.
ShiftKnown(g, t, l) == g.rendered /\ ~l.moved.newEpoch /\ t.screen = g.term.screen
ScrolledBy(g, t, l) ==
    IF ShiftKnown(g, t, l) /\ t.screen = "Primary" THEN l.moved.scrolled ELSE 0

\* The rows that are dirty or not at their line are read again, or all of them.
Encoded(g, t, l, shifted, full) ==
    LET shown      == Viewport(t)
        LineOf(y)  == IF t.screen = "Primary" THEN l.top + y - 1 ELSE 0
        Visited(y) == full \/ y \in t.dirty \/ shifted[y].line # LineOf(y)
        styles     == Minted(g.styles, shown, {y \in DOMAIN shown : Visited(y)})
    IN  [styles |-> styles,
         rows   |-> [y \in DOMAIN shown |->
                       IF Visited(y) THEN [line |-> LineOf(y), cell |-> IdOf(styles, shown[y])]
                                     ELSE shifted[y]]]

\* The grid `g` with what an update made of it, stamped with the next revision.
Stamped(g, l, scrolled, term, shifted, stamps, made) ==
    LET next    == g.rev + 1
        changed == made.rows # shifted \/ term # g.term
        logged  == changed /\ scrolled > 0
        drops   == logged /\ Len(g.log) = LogLen
    IN  [g EXCEPT
           !.rev      = IF changed THEN next ELSE @,
           !.rendered = TRUE,
           !.styles   = made.styles,
           !.rows     = made.rows,
           !.revs     = [y \in DOMAIN made.rows |->
                           IF made.rows[y] # shifted[y] THEN next ELSE stamps[y]],
           !.log      = IF logged
                        THEN Append(IF drops THEN Tail(@) ELSE @,
                                    [rev |-> next, scrolled |-> scrolled])
                        ELSE @,
           !.floor    = IF drops THEN Head(g.log).rev ELSE @,
           !.term     = term,
           !.termRevs = [f \in TermFields |-> IF term[f] # g.term[f] THEN next ELSE @[f]],
           !.lines    = [l EXCEPT !.moved = NotMoved],
           !.full     = FALSE]

\* The tables are started again past their limit.
Compacted(g) ==
    IF Len(g.styles) > MaxStyles
    THEN [g EXCEPT !.styles = <<Blank>>, !.tgen = @ + 1, !.full = TRUE] ELSE g

UpdateAt(g, t, l) ==
    LET n        == Height(t)
        k        == Least(ScrolledBy(g, t, l), n)
        shifted  == Shifted(Resized(g.rows, n, BlankRow), k)
        full     == g.full \/ Len(g.rows) # n \/ ~ShiftKnown(g, t, l)
    IN  Stamped(g, l, ScrolledBy(g, t, l),
                [size |-> n, screen |-> t.screen, epoch |-> l.epoch, top |-> l.top],
                shifted, Rotated(Resized(g.revs, n, 0), k),
                Encoded(g, t, l, shifted, full))

Update(old, t) == UpdateAt([Compacted(old) EXCEPT !.clears = t.clears], t, LinesAt(old, t))

RowsSince(g, base) == {y \in DOMAIN g.rows : g.revs[y] > base}
Picked(rows, ys)   == [y \in ys |-> rows[y]]

\* What a client holds once it has applied a frame cut now.
Holds(g) == [gen |-> g.gen, tgen |-> g.tgen, rev |-> g.rev, mark |-> Len(g.styles)]

CanCut(g, held) ==
    /\ held.gen = g.gen /\ held.tgen = g.tgen
    /\ held.rev \in g.floor..g.rev
    /\ held.mark <= Len(g.styles)

ReshapedNever(g, base) == FALSE  (* fault: a delta over a reshaped viewport is cut as any other *)

Reshaped(g, base) == \E f \in {"size", "screen", "epoch"} : g.termRevs[f] > base

\* How far the log has the viewport scroll since a revision.
ScrolledSince(log, base) ==
    LET sum[i \in 0..Len(log)] ==
          IF i = 0 THEN 0
          ELSE sum[i - 1] + (IF log[i].rev > base THEN log[i].scrolled ELSE 0)
    IN  sum[Len(log)]

Delta(g, held) ==
    LET base     == held.rev
        reshaped == Reshaped(g, base)
    IN  [kind |-> "Delta", gen |-> g.gen, tgen |-> g.tgen, base |-> base, rev |-> g.rev,
         scrolled |-> IF reshaped THEN 0
                      ELSE ScrolledSince(g.log, base),
         term     |-> Picked(g.term, {f \in TermFields : g.termRevs[f] > base}),
         styles   |-> From(g.styles, held.mark),
         rows     |-> Picked(g.rows, IF reshaped THEN DOMAIN g.rows ELSE RowsSince(g, base))]

Snapshot(g, history) ==
    [kind |-> "Snapshot", gen |-> g.gen, tgen |-> g.tgen, rev |-> g.rev, term |-> g.term,
     styles |-> g.styles, rows |-> g.rows, history |-> history]

-----------------------------------------------------------------------------
(* History rows by absolute line (query.rs), on a grid settled against the *)
(* terminal: the grid, with the styles they minted, and the rows.          *)

History(g, t, from, count) ==
    LET oldest == OldestLine(g.lines)
        screen == t.hist \o t.prim
        last   == Least(from + count, oldest + Len(screen)) - 1
        asked  == IF t.screen = "Primary" THEN Most(from, oldest)..last ELSE {}
        At(line) == screen[line - oldest + 1]
        styles == Minted(g.styles, screen, {line - oldest + 1 : line \in asked})
    IN  [grid |-> [g EXCEPT !.styles = styles],
         rows |-> [line \in asked |-> IdOf(styles, At(line))]]

\* The history above a settled grid's last frame, for a snapshot (hub.rs tail).
Above(g, t) ==
    LET n == Least(HistoryTail, g.term.top)
    IN  IF g.lines.epoch # g.term.epoch THEN [grid |-> g, rows |-> <<>>]
                                        ELSE History(g, t, g.term.top - n, n)

TailOf(g, t) ==
    IF HistoryTail = 0 THEN [grid |-> g, rows |-> <<>>] ELSE Above(Settle(g, t), t)

-----------------------------------------------------------------------------
(* The hub (hub.rs).                                                       *)

NoHeld == [gen |-> None, tgen |-> 0, rev |-> 0, mark |-> 0]
Gone   == [on |-> FALSE, visible |-> FALSE, held |-> NoHeld, inFlight |-> 0, note |-> FALSE]

\* One attachment's turn of pump: what it is sent, if it has credit and lacks anything.
Pumped(hub, c, t, credits) ==
    LET a      == hub.atts[c]
        g      == hub.grid
        delta  == a.held.gen # None /\ ~a.note /\ CanCut(g, a.held)
        tail   == TailOf(g, t)
        after  == IF delta THEN g ELSE tail.grid
        resets == a.held.gen = g.gen /\ a.held.tgen # g.tgen
        frames == IF delta THEN <<Delta(g, a.held)>>
                  ELSE (IF resets THEN <<[kind |-> "ResetTables"]>> ELSE <<>>)
                         \o <<Snapshot(tail.grid, tail.rows)>>
        same   == a.held.gen = g.gen /\ a.held.tgen = g.tgen /\ a.held.rev = g.rev /\ ~a.note
    IN  IF ~a.visible \/ a.inFlight >= credits \/ same THEN hub
        ELSE [grid |-> after,
              atts |-> [hub.atts EXCEPT ![c] = [a EXCEPT !.held = Holds(after),
                                                         !.inFlight = @ + 1, !.note = FALSE]],
              out  |-> [hub.out EXCEPT ![c] = @ \o frames]]

Pump(g, as, t, credits) ==
    LET order == SetToSeq(Clients)
        hubs[i \in 0..Len(order)] ==
          IF i = 0 THEN [grid |-> g, atts |-> as, out |-> out]
          ELSE Pumped(hubs[i - 1], order[i], t, credits)
    IN  IF g.rendered THEN hubs[Len(order)] ELSE hubs[0]

\* Sends what the attachments `as` lack of the terminal `t`, after a render update
\* if `fresh`.  `waiting`: whether records wait for one.
Sends(t, as, fresh, waiting, credits) ==
    LET made == fresh /\ grid.gen = None
        g    == IF ~fresh THEN grid
                ELSE Update(IF made THEN NewGrid(gens + 1) ELSE grid, t)
        hub  == Pump(g, as, t, credits)
    IN  /\ em' = IF fresh THEN Clean(t) ELSE t
        /\ grid' = hub.grid /\ atts' = hub.atts /\ out' = hub.out
        /\ gens' = IF made THEN gens + 1 ELSE gens
        /\ pending' = (waiting /\ ~fresh)

\* Whether the clock allows an update now, or synchronized output holds one back,
\* is a choice.
CatchUp(as) == \E fresh \in BOOLEAN : (fresh => pending) /\ Sends(em, as, fresh, pending, Credits)

Watched == \E c \in Clients : atts[c].visible

Spends(bound, max) == spent[bound] < max /\ spent' = [spent EXCEPT ![bound] = @ + 1]

\* Records are applied, and rendered if a frame is due.
Records ==
    /\ ~ended /\ Spends("ops", MaxOps)
    /\ \E t \in Changed(em), fresh \in BOOLEAN :
         (fresh => Watched) /\ Sends(t, atts, fresh, TRUE, Credits)
    /\ UNCHANGED <<ended, up, panes>>

\* A frame that was due comes.
Ticks ==
    /\ ~ended /\ pending /\ Watched
    /\ Sends(em, atts, TRUE, TRUE, Credits)
    /\ UNCHANGED <<ended, up, panes, spent>>

\* A checkpoint cut reads the terminal's dirty rows and carries on from an exact rebuild.
Cuts ==
    /\ ~ended /\ grid.gen # None /\ Spends("events", MaxEvents)
    /\ em' = Clean(em)
    /\ grid' = [grid EXCEPT
                  !.lines = SettleLines([SettleLines(@, em) EXCEPT !.anchor = Never], em),
                  !.full  = TRUE]
    /\ UNCHANGED <<gens, pending, atts, ended, wires, panes>>

\* Output was lost: the terminal starts again blank, and the grid with it.
LosesOutput ==
    /\ ~ended /\ Spends("events", MaxEvents)
    /\ em' = NewTerminal(Height(em))
    /\ grid' = NewGrid(None)
    /\ atts' = [c \in Clients |->
                  [atts[c] EXCEPT !.note = @ \/ (grid.gen # None /\ atts[c].held.gen # None)]]
    /\ pending' = TRUE
    /\ UNCHANGED <<gens, ended, wires, panes>>

\* The exit is applied: the last frame goes whatever the clock, a hold or the credits say.
Finishes ==
    /\ ~ended /\ ended' = TRUE
    /\ IF Watched THEN Sends(em, atts, pending, pending, 255)
                  ELSE UNCHANGED <<em, grid, atts, out, gens, pending>>
    /\ UNCHANGED <<up, panes, spent>>

-----------------------------------------------------------------------------
(* Clients: the mirror (term-mirror) behind the framing (grid-client).     *)

NoMirror == [gen |-> None, rev |-> 0, tgen |-> 0, term |-> <<>>, styles |-> <<>>,
             rows |-> <<>>, history |-> <<>>]
NoPane   == [mirror |-> NoMirror, stale |-> FALSE, refused |-> FALSE]

\* The definitions past the ones held; a frame whose first is past them is refused.
Extended(styles, from) ==
    styles \o SubSeq(from.defs, Len(styles) - from.mark + 1, Len(from.defs))
Known(styles, from, ids) ==
    /\ from.mark <= Len(styles)
    /\ \A id \in ids : id < Len(Extended(styles, from))
Cells(rows) == {rows[y].cell : y \in DOMAIN rows}

FromSnapshot(s) ==
    [gen |-> s.gen, rev |-> s.rev, tgen |-> s.tgen, term |-> s.term, styles |-> s.styles,
     rows |-> s.rows, history |-> s.history]

Resnapshot(m, s) ==
    IF m.gen = s.gen /\ m.tgen = s.tgen /\ m.term.epoch = s.term.epoch
    THEN [FromSnapshot(s) EXCEPT !.history = Over(@, m.history)]
    ELSE FromSnapshot(s)

Applies(m, d) ==
    LET term     == Over(d.term, m.term)
        rows     == Resized(m.rows, term.size, BlankRow)
        newEpoch == term.epoch # m.term.epoch
        keep     == ~newEpoch /\ term.screen = m.term.screen
        n        == IF term.screen = "Alternate" THEN 0 ELSE Least(d.scrolled, Len(rows))
        off      == IF keep THEN {y \in 1..n : TRUE} ELSE {}
        gone     == [line \in {rows[y].line : y \in off} |->
                       rows[CHOOSE y \in off : rows[y].line = line].cell]
        cached   == IF newEpoch THEN <<>> ELSE m.history
        shifted  == Shifted(rows, n)
    IN  [m EXCEPT !.rev     = d.rev,
                  !.term    = term,
                  !.styles  = Extended(@, d.styles),
                  !.rows    = [y \in DOMAIN rows |-> IF y \in DOMAIN d.rows THEN d.rows[y]
                                                                           ELSE shifted[y]],
                  !.history = Over(gone, cached)]

AppliesHistory(m, r) ==
    [m EXCEPT !.styles  = Extended(@, r.styles),
              !.history = IF r.epoch = m.term.epoch THEN Over(r.rows, @) ELSE @]

Refuses(p, d) ==
    LET m == p.mirror
    IN  \/ m.gen = None \/ p.stale
        \/ d.gen # m.gen \/ d.tgen # m.tgen \/ d.base # m.rev
        \/ ~Known(m.styles, d.styles, Cells(d.rows))
        \/ \E y \in DOMAIN d.rows : y > Over(d.term, m.term).size

\* What one message makes of a pane.
Received(p, msg) ==
    LET m == p.mirror
    IN  CASE msg.kind = "Snapshot" ->
               [p EXCEPT !.mirror = IF m.gen = None THEN FromSnapshot(msg) ELSE Resnapshot(m, msg),
                         !.stale  = FALSE]
          [] msg.kind = "Delta" ->
               IF Refuses(p, msg) THEN [p EXCEPT !.refused = TRUE]
                                  ELSE [p EXCEPT !.mirror = Applies(m, msg)]
          [] msg.kind = "ResetTables" -> [p EXCEPT !.stale = TRUE]
          [] msg.kind = "History" ->
               IF m.gen = None \/ p.stale THEN p
               ELSE IF ~Known(m.styles, msg.styles, Range(msg.rows)) THEN [p EXCEPT !.refused = TRUE]
               ELSE [p EXCEPT !.mirror = AppliesHistory(m, msg)]

\* A client takes its next message, and acknowledges a frame it applied at once.
Receives(c) ==
    /\ out[c] # <<>>
    /\ LET msg == Head(out[c])
           p   == Received(panes[c], msg)
       IN  /\ panes' = [panes EXCEPT ![c] = p]
           /\ up' = IF msg.kind \in {"Snapshot", "Delta"} /\ ~p.refused /\ ~ended
                    THEN [up EXCEPT ![c] = Append(@, [kind |-> "Ack"])] ELSE up
    /\ out' = [out EXCEPT ![c] = Tail(@)]
    /\ UNCHANGED <<em, grid, gens, pending, atts, ended, spent>>

Says(c, msg) ==
    /\ ~ended /\ atts[c].on
    /\ up' = [up EXCEPT ![c] = Append(@, msg)]
    /\ UNCHANGED <<em, grid, gens, pending, atts, ended, out, panes>>

\* Lines above the viewport the history cache lacks.
Gaps(m) == (0..(m.term.top - 1)) \ DOMAIN m.history

\* A pane is shown or hidden.
ShowsPane(c) ==
    /\ Spends("events", MaxEvents)
    /\ Says(c, [kind |-> "SetVisible", visible |-> ~atts[c].visible])

AsksHistory(c) ==
    LET m == panes[c].mirror
    IN  /\ m.gen # None /\ ~panes[c].stale
        /\ \E line \in Gaps(m) :
             Spends("events", MaxEvents)
             /\ Says(c, [kind |-> "FetchHistory", epoch |-> m.term.epoch, from |-> line])

\* What a resuming client holds as far as the hub can use it.
Resumed(m) ==
    LET held   == [gen |-> m.gen, tgen |-> m.tgen, rev |-> m.rev, mark |-> Len(m.styles)]
        usable == grid.rendered /\ m.gen = grid.gen
                    /\ (m.tgen # grid.tgen \/ CanCut(grid, held))
    IN  [Gone EXCEPT !.held = IF usable THEN held ELSE NoHeld, !.note = ~usable]

Attaches(c) == \E v, resume \in BOOLEAN :
    /\ ~ended /\ ~atts[c].on /\ Spends("events", MaxEvents)
    /\ resume => panes[c].mirror.gen # None /\ ~panes[c].stale
    /\ LET a == IF resume THEN Resumed(panes[c].mirror) ELSE Gone
       IN  CatchUp([atts EXCEPT ![c] = [a EXCEPT !.on = TRUE, !.visible = v]])
    /\ panes' = IF resume THEN panes ELSE [panes EXCEPT ![c] = NoPane]
    /\ UNCHANGED <<ended, up>>

\* A connection is lost, with what was on its way; the client keeps its last frame.
Disconnects(c) ==
    /\ ~ended /\ atts[c].on
    /\ atts' = [atts EXCEPT ![c] = Gone]
    /\ out' = [out EXCEPT ![c] = <<>>] /\ up' = [up EXCEPT ![c] = <<>>]
    /\ UNCHANGED <<em, grid, gens, pending, ended, panes, spent>>

-----------------------------------------------------------------------------
(* The hub takes a client's next request.                                  *)

Takes(c, kind) ==
    /\ ~ended /\ up[c] # <<>> /\ Head(up[c]).kind = kind
    /\ up' = [up EXCEPT ![c] = Tail(@)]
    /\ UNCHANGED <<ended, panes, spent>>

\* fault: an ack returns the credit and sends nothing
AcksOnly(c) ==
    /\ Takes(c, "Ack")
    /\ atts' = [atts EXCEPT ![c].inFlight = Most(0, @ - 1)]
    /\ UNCHANGED <<em, grid, gens, pending, out>>

Acks(c) ==
    /\ Takes(c, "Ack")
    /\ CatchUp([atts EXCEPT ![c].inFlight = Most(0, @ - 1)])

SetVisible(c) ==
    /\ Takes(c, "SetVisible")
    /\ LET v  == Head(up[c]).visible
           as == [atts EXCEPT ![c].visible = v]
       IN  IF v THEN CatchUp(as)
                ELSE atts' = as /\ UNCHANGED <<em, grid, gens, pending, out>>

\* One line of history, encoded against the tables the client holds a prefix of.
Fetch(c) ==
    /\ Takes(c, "FetchHistory")
    /\ LET ask    == Head(up[c])
           held   == atts[c].held
           g      == IF grid.gen = None THEN grid ELSE Settle(grid, em)
           usable == grid.gen # None /\ held.gen = g.gen /\ held.tgen = g.tgen
                       /\ g.lines.epoch = ask.epoch
           found  == History(g, em, ask.from, 1)
           styles == found.grid.styles
           reply  == IF usable
                     THEN [kind |-> "History", epoch |-> ask.epoch, rows |-> found.rows,
                           styles |-> From(styles, held.mark)]
                     ELSE [kind |-> "History", epoch |-> g.lines.epoch, rows |-> <<>>,
                           styles |-> From(<<>>, 0)]
       IN  /\ grid' = IF usable THEN found.grid ELSE g
           /\ atts' = IF usable THEN [atts EXCEPT ![c].held.mark = Len(styles)] ELSE atts
           /\ out' = [out EXCEPT ![c] = Append(@, reply)]
    /\ UNCHANGED <<em, gens, pending>>

-----------------------------------------------------------------------------
Init ==
    /\ em = NewTerminal(FirstHeight)
    /\ grid = NewGrid(None) /\ gens = 0 /\ pending = TRUE /\ ended = FALSE
    /\ atts = [c \in Clients |-> Gone]
    /\ out = [c \in Clients |-> <<>>] /\ up = [c \in Clients |-> <<>>]
    /\ panes = [c \in Clients |-> NoPane]
    /\ spent = [b \in {"ops", "events"} |-> 0]

Next ==
    \/ Records \/ Ticks \/ Cuts \/ LosesOutput \/ Finishes
    \/ \E c \in Clients :
         \/ Attaches(c) \/ Disconnects(c) \/ ShowsPane(c) \/ AsksHistory(c) \/ Receives(c)
         \/ Acks(c) \/ SetVisible(c) \/ Fetch(c)

Spec == Init /\ [][Next]_vars

-----------------------------------------------------------------------------
Drawn(rows, styles) == [y \in DOMAIN rows |-> styles[rows[y].cell + 1]]

\* A frame is never refused; a mirror at the grid's revision shows, row by row and line
\* by line, what the grid holds, whatever deltas, table resets and History replies brought
\* it there; and the grid, unless records wait, holds what the terminal shows
\* (grid.rs update and delta, term-mirror apply).
MirrorShowsGrid ==
    /\ \A c \in Clients :
         LET m == panes[c].mirror
         IN  /\ ~panes[c].refused
             /\ (m.gen = grid.gen /\ m.gen # None /\ ~panes[c].stale
                   /\ m.rev = grid.rev /\ m.tgen = grid.tgen)
                => /\ m.term = grid.term
                   /\ \A y \in DOMAIN grid.rows : m.rows[y].line = grid.rows[y].line
                   /\ Drawn(m.rows, m.styles) = Drawn(grid.rows, grid.styles)
    /\ (grid.rendered /\ ~pending)
         => /\ Drawn(grid.rows, grid.styles) = Viewport(em)
            /\ grid.term.screen = em.screen

\* Nothing is on its way and no frame is due.
AtRest ==
    /\ \A c \in Clients : out[c] = <<>> /\ up[c] = <<>>
    /\ ~(pending /\ Watched)

\* Once nothing is on its way and no frame is due, every client that watches shows the
\* terminal as it is: no credit is lost, no request that should send a frame fails to
\* (hub.rs pump, catch_up, finish).
GridCatchesUp ==
    AtRest => \A c \in Clients : atts[c].visible =>
      LET m == panes[c].mirror
      IN  /\ m.gen # None /\ ~panes[c].stale
          /\ Drawn(m.rows, m.styles) = Viewport(em)
          /\ m.term.screen = em.screen

\* A line the history cache holds is the terminal's row at that line, once the mirror is
\* up to date (term-mirror row_at and history_line).
HistoryIsTrue ==
    \A c \in Clients :
      LET m      == panes[c].mirror
          screen == em.hist \o em.prim
          oldest == m.term.top - Len(em.hist)
      IN  (/\ m.gen = grid.gen /\ m.gen # None /\ ~panes[c].stale /\ m.rev = grid.rev
           /\ ~pending /\ em.screen = "Primary")
          => \A line \in DOMAIN m.history :
               line \in Most(0, oldest)..(m.term.top - 1)
                 => m.styles[m.history[line] + 1] = screen[line - oldest + 1]
=============================================================================
