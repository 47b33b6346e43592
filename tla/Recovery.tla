------------------------------ MODULE Recovery ------------------------------
(***************************************************************************)
(* One session across vornds that come and go: its log in sessiond, the    *)
(* connection that sends records and checkpoints, and vornd's actor for    *)
(* the session, which restores a terminal from a checkpoint that may not   *)
(* pass its check, replays the records after it, and asks its host for the *)
(* effects the records have.  (engine/src/session.rs, its host in          *)
(* vornd/src/engine.rs, and attach and pump in sessiond/src/server.rs.)    *)
(*                                                                         *)
(* A terminal is stood for by its size, whether it calls itself exact, and *)
(* whether it is: every record of the session was applied, at the size it  *)
(* was printed at.  Every record of output rings the bell, notifies and    *)
(* asks the terminal something.  The exit of the program, sleeping         *)
(* terminals, clients' own fetches and the flow-control window are left    *)
(* out; a frame of records is one record here.                             *)
(***************************************************************************)
EXTENDS RecordLog, FiniteSets

CONSTANTS
  Lane,        (* frames the record lane of a connection holds             *)
  MaxOuts,     (* bound: what the actor may be ahead of its host           *)
  MaxRecords,  (* bound: records appended                                  *)
  MaxOpens     (* bound: times a vornd takes the session on                *)

ASSUME RecoveryAssumption == {Lane, MaxRecords, MaxOpens} \subseteq Nat /\ None \notin Cursor

VARIABLES
  log,      (* history: every record ever appended, in order               *)
  (* sessiond *)
  sent,     (* after the last record written to a vornd                    *)
  sending,  (* what the attach being answered has left to send             *)
  next,     (* where the pump is, or None                                  *)
  (* the connection *)
  toV, toS,
  (* vornd *)
  open,     (* what it knew of the session when it took it on              *)
  v,        (* the session's actor                                         *)
  outs,     (* what the actor asked for, not yet done by its host          *)
  opens,
  (* history *)
  rang, replied, notified,   (* record |-> how often                       *)
  missed,   (* a started actor found records missing                       *)
  stranded  (* a started actor ignored that its attach was refused         *)

linkVars == <<sent, sending, next>>
vorndVars == <<open, v, outs, opens>>
effectVars == <<rang, replied, notified>>
recoveryVars == <<recordLogVars, log, linkVars, toV, toS, vorndVars, effectVars, missed, stranded>>

Largest(S) == CHOOSE n \in S : \A m \in S : m <= n

(* Sizes are named by the number of records up to the resize that set them. *)
SizeAt(n) == Largest({0} \cup {i \in 1..n : log[i].kind = "resize"})

Fresh(size) == [size |-> size, exact |-> TRUE, right |-> TRUE, blind |-> FALSE]

Blank(size) == [size |-> size, exact |-> FALSE, right |-> FALSE, blind |-> FALSE]

Nobody == [phase |-> "down", step |-> "none", steps |-> <<>>, best |-> None, base |-> "none",
           cursor |-> Start, started |-> FALSE, live |-> FALSE, size_known |-> FALSE,
           floor |-> None, since |-> FALSE, term |-> Fresh(0)]

TypeOK ==
  /\ v.phase \in {"down", "attaching", "running", "lost"}
  /\ v.step \in {"none", "newest", "fallback"}
  /\ v.base \in {"none", "newest", "fallback", "start", "best", "oldest"}
  /\ v.cursor \in Cursor /\ v.term.size \in 0..MaxRecords
  /\ {v.started, v.live, v.size_known, v.since} \subseteq BOOLEAN
  /\ {v.term.exact, v.term.right, v.term.blind} \subseteq BOOLEAN
  /\ sent \in 0..head.rseq /\ next \in Cursor \cup {None}
  /\ Len(toV) <= Lane /\ opens \in 0..MaxOpens
  /\ Len(log) = head.rseq
  /\ {missed, stranded} \subseteq BOOLEAN

(***************************************************************************)
(* The log, and the program and its size: a piped agent has none to change. *)
(***************************************************************************)
Numbered ==
  LET n == head'.rseq - head.rseq IN
  log' = log \o SubSeq(run', Len(run') - n + 1, Len(run'))

Appends ==
  /\ SettledHead.rseq < MaxRecords
  /\ \/ AppendKept("data", 1)
     \/ overflow = "Drop" /\ AppendKept("resize", 0)
     \/ lost = 0 /\ AppendDropped(1)
  /\ Numbered
  /\ UNCHANGED <<linkVars, toV, toS, vorndVars, effectVars, missed, stranded>>

(***************************************************************************)
(* sessiond's side of the connection.                                      *)
(***************************************************************************)
Oldest == IF run = <<>> THEN head ELSE Before(run[1])

(* What an attach reads from: a checkpoint's cursor, or the one it names.  *)
AttachedAt(from) ==
  CASE from.at = "newest" -> IF newest = None THEN None ELSE newest.resume
    [] from.at = "fallback" -> IF fallback = None THEN None ELSE fallback.resume
    [] from.at = "start" -> Start
    [] OTHER -> from.cursor

CheckpointOf(from) ==
  CASE from.at = "newest" -> <<[is |-> "checkpoint", cp |-> newest]>>
    [] from.at = "fallback" -> <<[is |-> "checkpoint", cp |-> fallback]>>
    [] OTHER -> <<>>

Serves(kind) == toS # <<>> /\ Head(toS).is = kind /\ sending = <<>>

(* attach: the old pump ends, and a refusal leaves none.                   *)
ServesAttach ==
  /\ Serves("attach") /\ Len(toV) < Lane
  /\ toS' = Tail(toS)
  /\ SettleGap /\ Numbered
  /\ LET at == AttachedAt(Head(toS)) IN
     IF at # None /\ at \in BoundariesOf(run', head')
     THEN /\ toV' = toV \o CheckpointOf(Head(toS))
          /\ sending' = Suffix(run', at)
          /\ next' = at
     ELSE /\ toV' = Append(toV, [is |-> "refused"])
          /\ next' = None
          /\ UNCHANGED sending
  /\ UNCHANGED <<sent, vorndVars, effectVars, missed, stranded>>

ServesCheckpoint ==
  /\ Serves("checkpoint")
  /\ toS' = Tail(toS)
  /\ IF Acceptable(Head(toS).cp) THEN PutCheckpoint(Head(toS).cp) ELSE UNCHANGED recordLogVars
  /\ UNCHANGED <<log, linkVars, toV, vorndVars, effectVars, missed, stranded>>

MarksNothing(e) == sent  (* fault: mark_sent forgotten *)

(* mark_sent, in the turn that queued the record.                          *)
Marks(e) == Largest({sent, e.rseq + 1})

SendsAnyway(e) ==  (* fault: the lane takes whatever it is given *)
  /\ toV' = Append(toV, [is |-> "entry", e |-> e])
  /\ sent' = Marks(e)
  /\ next' = After(e)

Sends(e) ==
  /\ Len(toV) < Lane
  /\ toV' = Append(toV, [is |-> "entry", e |-> e])
  /\ sent' = Marks(e)
  /\ next' = After(e)

SendsAttached ==
  /\ sending # <<>>
  /\ Sends(Head(sending)) /\ sending' = Tail(sending)
  /\ UNCHANGED <<recordLogVars, log, toS, vorndVars, effectVars, missed, stranded>>

Pumps ==
  /\ sending = <<>> /\ next \notin {None, SettledHead}
  /\ SettleGap /\ Numbered
  /\ IF next \in BoundariesOf(run', head') THEN Sends(Head(Suffix(run', next)))
     ELSE next' = None /\ UNCHANGED <<toV, sent>>
  /\ UNCHANGED <<sending, toS, vorndVars, effectVars, missed, stranded>>

(***************************************************************************)
(* The actor, as functions of its state a and of what it knew, o, when it  *)
(* took the session on: what it becomes and what it asks for.              *)
(***************************************************************************)
Turn(a, asked) == [actor |-> a, asked |-> asked]

Attach(at) == [is |-> "attach", at |-> at]

RunsFrom(a, o, term, at, base, size_known) ==
  [a EXCEPT !.phase = "running", !.term = term, !.cursor = at, !.base = base,
            !.started = FALSE, !.live = (at.rseq >= o.head), !.size_known = size_known,
            !.floor = o.newest, !.since = FALSE, !.step = "none"]

PastFloor(a) == a.floor # None => a.cursor.rseq > a.floor.rseq

(* History: a terminal is blind that goes through a checkpoint cut before  *)
(* the size it was spawned at was known.                                   *)
Cuts(a) ==
  LET saved == [a.term EXCEPT !.blind = @ \/ ~a.size_known]
  IN  [is |-> "checkpoint", cp |-> [resume |-> a.cursor, blob |-> saved]]

(* cut_due, where one is due.                                              *)
AfterCut(a) ==
  IF PastFloor(a) THEN Turn([a EXCEPT !.floor = a.cursor, !.since = FALSE], <<Cuts(a)>>)
  ELSE Turn(a, <<>>)

ApproximatesSilently(a, o) ==  (* fault: what was rebuilt keeps its fidelity *)
  LET at == IF a.best = None THEN o.oldest ELSE a.best.resume
      term == IF a.best = None THEN Blank(o.size) ELSE a.best.blob
      base == IF a.best = None THEN "oldest" ELSE "best"
  IN  Turn(RunsFrom([a EXCEPT !.best = None], o, term, at, base, TRUE),
           <<[is |-> "attach", at |-> "cursor", cursor |-> at]>>)

Approximates(a, o) ==
  LET at == IF a.best = None THEN o.oldest ELSE a.best.resume
      term == IF a.best = None THEN Blank(o.size) ELSE [a.best.blob EXCEPT !.exact = FALSE]
      base == IF a.best = None THEN "oldest" ELSE "best"
  IN  Turn(RunsFrom([a EXCEPT !.best = None], o, term, at, base, TRUE),
           <<[is |-> "attach", at |-> "cursor", cursor |-> at]>>)

(* next_step.                                                              *)
Asks(a, o) ==
  IF a.steps = <<>> THEN Approximates(a, o)
  ELSE LET b == [a EXCEPT !.steps = Tail(@)] step == Head(a.steps) IN
    IF step = "start"
    THEN LET started == RunsFrom(b, o, Fresh(o.size), Start, "start", o.size_known)
             cut == IF o.newest = None /\ o.size_known THEN AfterCut(started) ELSE Turn(started, <<>>)
         IN  Turn(cut.actor, <<Attach("start")>> \o cut.asked)
    ELSE Turn([b EXCEPT !.phase = "attaching", !.step = step], <<Attach(step)>>)

(* A checkpoint that passes its check, one that only rebuilds a terminal   *)
(* (and not the one that was saved), and one that does not.                *)
Offered(a, o, cp, check) ==
  CASE check = "passes" -> Turn(RunsFrom([a EXCEPT !.best = None], o, cp.blob, cp.resume, a.step, TRUE), <<>>)
    [] check = "rebuilds" ->
         Asks(IF a.best = None THEN [a EXCEPT !.best = [cp EXCEPT !.blob.right = FALSE]] ELSE a, o)
    [] OTHER -> Asks(a, o)

RefusedIgnored(a, o) ==  (* fault: only an attach being waited for is *)
  IF a.phase = "attaching" THEN Asks(a, o) ELSE Turn(a, <<>>)

Refused(a, o) ==
  CASE a.phase = "attaching" -> Asks(a, o)
    [] a.phase = "running" /\ ~a.started ->
         (CASE a.base = "start" -> Asks(a, o)
            [] a.base = "best" -> Approximates(a, o)
            [] OTHER -> Turn([a EXCEPT !.phase = "lost"], <<>>))
    [] OTHER -> Turn(a, <<>>)

(* The terminal after record e, applied at the size the terminal has.      *)
Shown(a, e) ==
  LET t == a.term IN
  CASE e.kind = "data" -> [t EXCEPT !.right = t.right /\ t.size = SizeAt(e.rseq)]
    [] e.kind = "gap" -> Blank(t.size)
    [] e.kind = "resize" -> [t EXCEPT !.size = e.rseq + 1, !.exact = @ /\ (a.size_known \/ a.live)]

(* What output asks of the host: a bell but for records the last vornd was *)
(* sent, a notification, and when live the answer to its question.         *)
Effects(a, o, e) ==
  <<[is |-> "effects", rseq |-> e.rseq, bell |-> e.rseq >= o.sent]>>
    \o (IF a.live THEN <<[is |-> "reply", rseq |-> e.rseq]>> ELSE <<>>)

AppliesStale(a, e) ==  (* fault: a refused attach's answer is applied *)
  a.phase = "running" /\ ~Includes(a.cursor, e)

(* Whether e is applied: what the terminal includes is not, nor, before    *)
(* anything was, what does not follow it (of an attach turned down).       *)
Applies(a, e) ==
  a.phase = "running" /\ ~Includes(a.cursor, e) /\ (a.started \/ Before(e) = a.cursor)

AppliedCutFirst(a, o, e, due) ==  (* fault: the checkpoint goes before the effects *)
  LET b == IF Before(e) = a.cursor THEN a ELSE [a EXCEPT !.term = Blank(@.size)]
      c == [b EXCEPT !.started = TRUE, !.cursor = After(e), !.term = Shown(b, e),
                     !.live = @ \/ e.rseq + 1 >= o.head,
                     !.size_known = @ \/ e.kind = "resize", !.since = @ \/ e.kind = "data"]
      asked == IF e.kind = "data" THEN Effects(a, o, e) ELSE <<>>
      cut == IF due /\ c.since THEN AfterCut(c) ELSE Turn(c, <<>>)
  IN  Turn(cut.actor, cut.asked \o asked)

(* apply and reach: effects, terminal, cursor, live; due: a cadence of     *)
(* output has gone by.  Missing records start a blank terminal, as a gap   *)
(* does.                                                                   *)
Applied(a, o, e, due) ==
  LET b == IF Before(e) = a.cursor THEN a ELSE [a EXCEPT !.term = Blank(@.size)]
      c == [b EXCEPT !.started = TRUE, !.cursor = After(e), !.term = Shown(b, e),
                     !.live = @ \/ e.rseq + 1 >= o.head,
                     !.size_known = @ \/ e.kind = "resize", !.since = @ \/ e.kind = "data"]
      asked == IF e.kind = "data" THEN Effects(a, o, e) ELSE <<>>
      cut == IF due /\ c.since THEN AfterCut(c) ELSE Turn(c, <<>>)
  IN  Turn(cut.actor, asked \o cut.asked)

(***************************************************************************)
(* vornd's steps.                                                          *)
(***************************************************************************)
Becomes(turn, before) ==
  v' = turn.actor /\ outs' = before \o turn.asked

(* Session::open, on a connection of its own: what the last one had on its *)
(* way is gone, in both directions.                                        *)
Opens(o) ==
  /\ v.phase = "down" /\ opens < MaxOpens
  /\ opens' = opens + 1 /\ open' = o
  /\ LET steps == IF o.newest = None THEN <<"start">> ELSE <<"newest", "fallback", "start">>
     IN  Becomes(Asks([Nobody EXCEPT !.steps = steps], o), <<>>)
  /\ toV' = <<>> /\ toS' = <<>> /\ sending' = <<>> /\ next' = None
  /\ UNCHANGED <<sent, effectVars, missed, stranded>>

(* The vornd that spawns the session knows its size from the start.        *)
OpensSpawned ==
  /\ opens = 0
  /\ Opens([head |-> 0, newest |-> None, sent |-> 0, size |-> 0, size_known |-> TRUE,
            oldest |-> Start])
  /\ UNCHANGED <<recordLogVars, log>>

(* A later one knows what sessiond's Welcome says of it.                   *)
OpensWelcomed ==
  /\ opens > 0
  /\ SettleGap /\ Numbered
  /\ Opens([head |-> SettledHead.rseq, sent |-> sent, size |-> SizeAt(head.rseq),
            newest |-> IF newest = None THEN None ELSE newest.resume,
            size_known |-> overflow = "Block",
            oldest |-> IF Settled(run) = <<>> THEN head ELSE Before(Settled(run)[1])])

Hears(kind) ==
  /\ v.phase # "down" /\ toV # <<>> /\ Head(toV).is = kind
  /\ Len(outs) < MaxOuts
  /\ toV' = Tail(toV)
  /\ UNCHANGED <<recordLogVars, log, linkVars, toS, open, opens, effectVars>>

HearsCheckpoint ==
  /\ Hears("checkpoint")
  /\ IF v.phase = "attaching"
     THEN \E check \in {"passes", "rebuilds", "fails"} :
            Becomes(Offered(v, open, Head(toV).cp, check), outs)
     ELSE UNCHANGED <<v, outs>>
  /\ UNCHANGED <<missed, stranded>>

HearsRefused ==
  /\ Hears("refused")
  /\ Becomes(Refused(v, open), outs)
  /\ stranded' = (stranded \/ (v.phase = "running" /\ v.started))
  /\ UNCHANGED missed

HearsEntry ==
  /\ Hears("entry")
  /\ LET e == Head(toV).e IN
     IF Applies(v, e)
     THEN /\ \E due \in BOOLEAN : Becomes(Applied(v, open, e, due), outs)
          /\ missed' = (missed \/ Before(e) # v.cursor)
     ELSE UNCHANGED <<v, outs, missed>>
  /\ UNCHANGED stranded

(* tick: output has gone quiet since the last checkpoint.                  *)
Ticks ==
  /\ v.phase = "running" /\ v.since /\ PastFloor(v) /\ Len(outs) < MaxOuts
  /\ Becomes(AfterCut(v), outs)
  /\ UNCHANGED <<recordLogVars, log, linkVars, toV, toS, open, opens, effectVars, missed, stranded>>

(* The host does the oldest of what was asked: an effect is delivered      *)
(* before a checkpoint after it is queued for sessiond.                    *)
HostDoes ==
  /\ outs # <<>>
  /\ outs' = Tail(outs)
  /\ LET o == Head(outs) IN
     CASE o.is = "effects" ->
            /\ notified' = notified \cup {o.rseq}
            /\ rang' = IF o.bell THEN [rang EXCEPT ![o.rseq] = @ + 1] ELSE rang
            /\ UNCHANGED <<replied, toS>>
       [] o.is = "reply" ->
            /\ replied' = [replied EXCEPT ![o.rseq] = @ + 1]
            /\ UNCHANGED <<rang, notified, toS>>
       [] OTHER -> toS' = Append(toS, o) /\ UNCHANGED effectVars
  /\ UNCHANGED <<recordLogVars, log, linkVars, toV, open, v, opens, missed, stranded>>

(* A clean shutdown cuts a last checkpoint, which may still go out.        *)
ShutsDown ==
  /\ v.phase # "down" /\ opens < MaxOpens
  /\ LET last == IF v.phase = "running" THEN AfterCut(v) ELSE Turn(v, <<>>)
     IN  Becomes(Turn(Nobody, last.asked), outs)
  /\ UNCHANGED <<recordLogVars, log, linkVars, toV, toS, open, opens, effectVars, missed, stranded>>

(* A crash: what the host had not done is never done.                      *)
Dies ==
  /\ (v.phase # "down" \/ outs # <<>>) /\ opens < MaxOpens
  /\ v' = Nobody /\ outs' = <<>>
  /\ UNCHANGED <<recordLogVars, log, linkVars, toV, toS, open, opens, effectVars, missed, stranded>>

RecoveryInit ==
  /\ LogInit /\ log = <<>>
  /\ sent = 0 /\ sending = <<>> /\ next = None
  /\ toV = <<>> /\ toS = <<>>
  /\ open = None /\ v = Nobody /\ outs = <<>> /\ opens = 0
  /\ rang = [r \in 0..MaxRecords - 1 |-> 0] /\ replied = [r \in 0..MaxRecords - 1 |-> 0]
  /\ notified = {}
  /\ missed = FALSE /\ stranded = FALSE

RecoveryNext ==
  \/ Appends
  \/ ServesAttach \/ ServesCheckpoint \/ SendsAttached \/ Pumps
  \/ OpensSpawned \/ OpensWelcomed
  \/ HearsCheckpoint \/ HearsRefused \/ HearsEntry
  \/ Ticks \/ HostDoes \/ ShutsDown \/ Dies

(* sessiond and vornd keep running their tasks; nothing else is promised.  *)
RecoverySpec ==
  /\ RecoveryInit /\ [][RecoveryNext]_recoveryVars
  /\ WF_recoveryVars(ServesAttach) /\ WF_recoveryVars(ServesCheckpoint)
  /\ WF_recoveryVars(SendsAttached) /\ WF_recoveryVars(Pumps)
  /\ WF_recoveryVars(HearsCheckpoint \/ HearsRefused \/ HearsEntry)
  /\ WF_recoveryVars(HostDoes)

-----------------------------------------------------------------------------
(* Properties.                                                             *)

(* However often a vornd dies and a record is replayed, it rings the bell  *)
(* once at most, and the question it asks the terminal is answered once at *)
(* most: never by a replay, after the program has stopped waiting.         *)
DoneAtMostOnce == \A r \in 0..MaxRecords - 1 : rang[r] <= 1 /\ replied[r] <= 1

(* A notification is never lost to a crash: once a stored checkpoint covers *)
(* a record, after which no vornd replays it, the notification was made.   *)
NotifiedBeforeCovered ==
  newest # None =>
    \A r \in 0..newest.resume.rseq - 1 : log[r + 1].kind = "data" => r \in notified

(* Replay never comes upon a hole: from whatever base, across attaches     *)
(* turned down and answers to them still on their way, every record comes  *)
(* in order, and what a live connection is sent next is always held.       *)
NoHoleInReplay ==
  ~missed /\ (v.phase = "running" /\ sending = <<>> /\ next # None => next \in Boundaries)

(* A terminal that calls itself exact has every record of the session, at  *)
(* the size it was printed at (but for what a checkpoint hands on that was *)
(* cut before the spawn size was known, which hands on that it is exact).  *)
ExactWhereSizeKnown ==
  v.phase = "running" /\ v.live /\ v.term.exact /\ ~v.term.blind => v.term.right

(* A vornd that takes a session on brings it live and to its last record,  *)
(* whatever the checkpoints and the log's start turn out to be, unless it  *)
(* dies or gives the session up (or the refusal of its attach comes after  *)
(* leftovers of the one before, is ignored and strands it).                *)
CatchesUp ==
  v.phase \in {"attaching", "running"} ~>
    \/ v.phase \in {"down", "lost"} \/ stranded
    \/ v.phase = "running" /\ v.live /\ v.cursor = head /\ lost = 0

=============================================================================
