------------------------------ MODULE Streams ------------------------------
(***************************************************************************)
(* One session's records on their way to its bytes clients: sessiond's     *)
(* pump, vornd's driver and actor, the streams hub with its tail, and each *)
(* connection's outbox and writer.  A client that attaches continues from  *)
(* the tail, from sessiond by a fetch, or from a snapshot.                 *)
(* (vornd/src/streams.rs, its driver in vornd/src/engine.rs, snapshots in  *)
(* engine/src/session.rs, attach and pump in sessiond/src/server.rs.)      *)
(*                                                                         *)
(* A record is its number and its kind: "data" stands for output and for   *)
(* resizes, which travel alike; one record makes one frame of size 1, and  *)
(* other messages are too short to count.  The hub's lock is held from a   *)
(* delivery to the store of `catching`, in which the writer, that takes no *)
(* lock, may run: `storing`.  Left out: epochs, reads without an attach,   *)
(* sessions that are expected but do not run, bells.                       *)
(***************************************************************************)
EXTENDS Integers, FiniteSets, SequencesExt

CONSTANTS
  Conns,        (* client connections                                      *)
  None,
  TailCap,      (* TAIL_BYTES: output the tail keeps                       *)
  QueueCap,     (* QUEUE_CAP: output a connection may have queued          *)
  MaxRecords,   (* bound: records printed                                  *)
  MaxAttaches,  (* bound: attaches asked for                               *)
  MaxLane,      (* bound: messages a lane between processes or tasks holds *)
  MaxBreaks     (* bound: times the actor or its connection is lost        *)

ASSUME ClientsAssumption ==
  /\ IsFiniteSet(Conns) /\ None \notin Int /\ None \notin Conns \cup {"gone"} /\ "gone" \notin Conns
  /\ {TailCap, QueueCap, MaxRecords, MaxAttaches, MaxLane, MaxBreaks} \subseteq Nat

VARIABLES
  (* sessiond *)
  log,       (* the kind of every record; record r is log[r + 1]           *)
  oldest,    (* the first record retained: where the newest checkpoint is  *)
  pump,      (* the next record to send, or None                           *)
  (* the driver's lanes *)
  toV, toS, commands, outs,
  repumping, (* an attach from the hub's head follows a refused fetch      *)
  linked,    (* the driver has its connection to sessiond                  *)
  actor,
  hub,
  conn,      (* each connection: its attachment, its outbox, its flags     *)
  (* clients *)
  rpcs,      (* attach |-> who asked: None nobody yet, "gone" one who left   *)
  at,        (* what each client has: the record it expects next, or None  *)
  breaks,
  (* history *)
  seen,      (* the furthest any client got                                *)
  answers,   (* attach |-> answers its client took                         *)
  told,      (* connections that heard of the exit                         *)
  torn,      (* a client got a record that was not the one it expected     *)
  overtaken, (* attaches whose attachment went, and nothing answers them   *)
  stalled    (* a refusal reached an actor that takes none                 *)

sessiondVars == <<log, oldest, pump>>
laneVars == <<toV, toS, commands, outs, repumping, linked>>
clientVars == <<rpcs, at, seen, answers, told, torn>>
streamVars == <<sessiondVars, laneVars, actor, hub, conn, clientVars, breaks, overtaken, stalled>>

Rpcs == 1..MaxAttaches

Kind(r) == log[r + 1]

Fits(lane) == Len(lane) < MaxLane

Modes == {"following", "behind", "fetching"}

(* Each connection has one attachment at most: where it is, how it goes    *)
(* on, and, while it is fetched for, the attach to answer.                 *)
Attachment(next, mode, rpc) == [next |-> next, mode |-> mode, rpc |-> rpc]

(* Option::None is not Some: no attachment is None.                        *)
ASSUME NoAttachmentAssumption == None \notin [next : Int, mode : Modes, rpc : Int]

Attached(k, modes) == k.att # None /\ k.att.mode \in modes

Fetching == {c \in Conns : Attached(conn[c], {"fetching"})}

Unconnected == [att |-> None, out |-> <<>>, catching |-> FALSE, storing |-> FALSE,
                wake |-> FALSE, missed |-> FALSE]

TypeOK ==
  /\ oldest \in 0..Len(log) /\ pump \in 0..Len(log) \cup {None}
  /\ \A i \in 1..Len(log) - 1 : log[i] # "exit"
  /\ hub.head \in 0..Len(log) /\ hub.tail \in 0..hub.head /\ hub.fetch \in 0..Len(log) \cup {None}
  /\ actor.phase \in {"attaching", "running", "down"} /\ actor.at \in 0..Len(log)
  /\ \A c \in Conns :
       /\ conn[c].att # None => conn[c].att.next \in 0..Len(log) /\ conn[c].att.mode \in Modes
       /\ hub.ended => ~Attached(conn[c], Modes)
       /\ at[c] \in 0..Len(log) \cup {None}
  /\ \A w \in hub.waiting \cup hub.early : rpcs[w.rpc] = w.conn
  /\ {torn, stalled, linked, repumping} \subseteq BOOLEAN

(***************************************************************************)
(* A connection's outbox.  Bytes of a replaced attachment become stale,    *)
(* are counted until the writer comes to them, and are never written.      *)
(***************************************************************************)
Message(is, rpc, n) == [is |-> is, rpc |-> rpc, at |-> n]

Note(is) == Message(is, None, None)

Push(k, msg) == [k EXCEPT !.out = Append(@, msg)]

Queued(k) == Cardinality({i \in DOMAIN k.out : k.out[i].is \in {"bytes", "stale"}})

(* The bytes of the attachment there is: those since the last resync, for  *)
(* an attachment that is lost leaves its own, and its resync, behind.      *)
Current(k) ==
  {i \in DOMAIN k.out :
     k.out[i].is = "bytes" /\ \A j \in i..Len(k.out) : k.out[j].is # "resync"}

Dropped(k) ==
  [k EXCEPT !.att = None,
            !.out = [i \in DOMAIN @ |-> IF i \in Current(k) THEN [@[i] EXCEPT !.is = "stale"] ELSE @[i]]]

(* prepare and queue: what records lo to hi - 1 are for an attachment that *)
(* stands at from.  Sending stops where the connection is full, at a Gap,  *)
(* or at once where the first new record is not the one expected.          *)
Feed(k, from, lo, hi) ==
  LET first == IF lo > from THEN lo ELSE from
      hole == first < hi /\ first # from
      gaps == {r \in first..hi - 1 : Kind(r) = "gap"}
      end == IF hole THEN from ELSE IF gaps = {} THEN hi ELSE Min(gaps)
      exits == {r \in from..end - 1 : Kind(r) = "exit"}
      wanted == Cardinality((from..end - 1) \ exits)
      room == IF Queued(k) > QueueCap THEN 0 ELSE QueueCap + 1 - Queued(k)
      sent == IF wanted > room THEN room ELSE wanted
      bytes == [i \in 1..sent |-> Message("bytes", None, from + i - 1)]
      full == sent < wanted
  IN  [conn |-> [k EXCEPT !.out = @ \o bytes \o (IF full \/ exits = {} THEN <<>> ELSE <<Note("exit")>>)],
       full |-> full,
       lost |-> ~full /\ (hole \/ gaps # {}),
       next |-> IF full THEN from + sent ELSE IF end > from THEN end ELSE from]

FallsBehind(k, next) ==
  [k EXCEPT !.att.next = next, !.att.mode = "behind", !.storing = TRUE, !.missed = FALSE]

(* catch_up: from the tail, until the connection is full, the head is      *)
(* reached, or it cannot go on and must resync.                            *)
CatchUp(k, h) ==
  LET fed == Feed(k, k.att.next, h.tail, h.head) IN
  IF k.att.next >= h.head \/ h.tail = h.head THEN [k EXCEPT !.att.mode = "following"]
  ELSE IF Queued(k) > QueueCap THEN FallsBehind(k, k.att.next)
  ELSE IF fed.full THEN FallsBehind(fed.conn, fed.next)
  ELSE IF fed.lost THEN Push([fed.conn EXCEPT !.att = None], Note("resync"))
  ELSE [fed.conn EXCEPT !.att.next = fed.next, !.att.mode = "following"]

(* deliver: a batch the actor applied, to one connection.                  *)
DeliversInOrder(k, lo, hi) ==
  LET fed == Feed(k, k.att.next, lo, hi) IN
  IF fed.full THEN FallsBehind(fed.conn, fed.next)
  ELSE IF fed.lost THEN Push([fed.conn EXCEPT !.att = None], Note("resync"))
  ELSE [fed.conn EXCEPT !.att.next = fed.next]

DeliversFetched(k, lo, hi) ==
  LET answered == Push(k, Message("continued", k.att.rpc, k.att.next))
      fed == Feed(answered, k.att.next, k.att.next, hi)
  IN  IF fed.full THEN Push(Dropped(fed.conn), Note("resync"))
      ELSE IF fed.lost THEN Push([fed.conn EXCEPT !.att = None], Note("resync"))
      ELSE [fed.conn EXCEPT !.att = Attachment(fed.next, "following", None)]

Delivers(k, lo, hi) ==
  CASE Attached(k, {"following"}) -> DeliversInOrder(k, lo, hi)
    [] Attached(k, {"fetching"}) /\ k.att.next \in lo..hi - 1 -> DeliversFetched(k, lo, hi)
    [] OTHER -> k

(***************************************************************************)
(* The hub under its lock, as turns: what it and the connections become,   *)
(* the snapshots it asks the actor for and the fetches it asks for.        *)
(***************************************************************************)
Turn(h, k) == [hub |-> h, conn |-> k, asks |-> <<>>, fetches |-> <<>>]

Tells(t, c, msg) == [t EXCEPT !.conn[c] = Push(@, msg)]

SnapshotFor(t, a) ==
  [t EXCEPT !.hub.waiting = @ \cup {[rpc |-> a.rpc, conn |-> a.conn]}, !.asks = Append(@, a.rpc)]

Covers(h, c) == c = h.head \/ c \in h.tail..h.head - 1

ContinuesFirst(t, a) ==  (* fault: the answer follows what it is the answer for *)
  LET k == CatchUp([t.conn[a.conn] EXCEPT !.att = Attachment(a.cursor, "following", None)], t.hub)
  IN  [t EXCEPT !.conn[a.conn] = Push(k, Message("continued", a.rpc, a.cursor))]

Continues(t, a) ==
  LET k == Push(t.conn[a.conn], Message("continued", a.rpc, a.cursor))
  IN  [t EXCEPT !.conn[a.conn] =
         CatchUp([k EXCEPT !.att = Attachment(a.cursor, "following", None)], t.hub)]

(* A fetch in flight from an older record serves this one as well.         *)
Fetches(t, a) ==
  LET asked == [t EXCEPT !.conn[a.conn].att = Attachment(a.cursor, "fetching", a.rpc)]
  IN  IF t.hub.fetch = None \/ a.cursor < t.hub.fetch
      THEN [asked EXCEPT !.hub.fetch = a.cursor, !.fetches = Append(@, a.cursor)]
      ELSE asked

ReplacesSilently(t, a) ==  (* fault: whoever waits for a fetch is not told *)
  [t EXCEPT !.conn[a.conn] = Dropped(@)]

(* A second attach on one connection replaces the first.                   *)
Replaces(t, a) ==
  LET k == t.conn[a.conn] gone == Dropped(k) IN
  IF Attached(k, {"fetching"})
  THEN [t EXCEPT !.conn[a.conn] = Push(gone, Message("refused", k.att.rpc, None))]
  ELSE [t EXCEPT !.conn[a.conn] = gone]

Attaches(t, a) ==
  LET h == t.hub r == Replaces(t, a) IN
  CASE ~h.holds -> Tells(t, a.conn, Message(IF h.ended THEN "ended" ELSE "refused", a.rpc, None))
    [] h.holds /\ ~h.live -> [r EXCEPT !.hub.early = @ \cup {a}]
    [] h.holds /\ h.live /\ a.cursor = None -> SnapshotFor(r, a)
    [] h.holds /\ h.live /\ a.cursor # None ->
         IF Covers(h, a.cursor)
         THEN IF \E x \in a.cursor..h.head - 1 : Kind(x) = "gap" THEN SnapshotFor(r, a)
              ELSE Continues(r, a)
         ELSE IF a.cursor > h.head THEN SnapshotFor(r, a)
         ELSE Fetches(r, a)

(* Stream::extend: what does not follow the head starts the tail again,    *)
(* and the oldest records go past the cap, though never the newest one.    *)
Extended(h, lo, hi) ==
  LET first == IF lo > h.head THEN lo ELSE h.head
      from == IF first = h.head THEN h.tail ELSE first
      fits == {f \in from..hi - 1 :
                 f = hi - 1 \/ Cardinality({x \in f..hi - 1 : Kind(x) = "data"}) <= TailCap}
  IN  IF first >= hi THEN h ELSE [h EXCEPT !.head = hi, !.tail = Min(fits)]

Applied(lo, hi) ==
  LET conns == [c \in Conns |-> Delivers(conn[c], lo, hi)]
      fetching == \E c \in Conns : Attached(conns[c], {"fetching"})
      h == Extended(hub, lo, hi)
  IN  Turn(IF fetching THEN h ELSE [h EXCEPT !.fetch = None], conns)

(* live: the attaches that came before are served now.                     *)
Live(n) ==
  LET h == [hub EXCEPT !.live = TRUE, !.early = {}, !.head = n,
                       !.tail = IF hub.head = n THEN @ ELSE n]
      after[i \in 0..MaxAttaches] ==
        IF i = 0 THEN Turn(h, conn)
        ELSE IF \E a \in hub.early : a.rpc = i
             THEN Attaches(after[i - 1], CHOOSE a \in hub.early : a.rpc = i)
             ELSE after[i - 1]
  IN  after[MaxAttaches]

Unwaited(rpc) == [hub EXCEPT !.waiting = {w \in @ : w.rpc # rpc}]

(* snapshot_ready: the client stands at n, whatever it stood at before.    *)
SnapshotAnswers(w, n) ==
  LET h == Unwaited(w.rpc)
      k == Push(conn[w.conn], Message("snapshot", w.rpc, n))
      there == [Dropped(k) EXCEPT !.att = Attachment(n, "following", None)]
  IN  Turn(h, [conn EXCEPT ![w.conn] = CatchUp(there, h)])

SnapshotReady(rpc, n) ==
  LET ws == {w \in hub.waiting : w.rpc = rpc}
      w == CHOOSE w \in ws : TRUE
  IN  IF ws = {} THEN Turn(hub, conn)
      ELSE IF n # None /\ hub.holds THEN SnapshotAnswers(w, n)
      ELSE Tells(Turn(Unwaited(rpc), conn), w.conn,
                 Message(IF hub.ended /\ n = None THEN "ended" ELSE "refused", rpc, None))

(* closed, with its exit: whoever waits is answered with it, whoever is    *)
(* not attached is told, and whoever is attached had it in the stream.     *)
Closed ==
  LET owed(c) == {w.rpc : w \in {x \in hub.early \cup hub.waiting : x.conn = c}}
                   \cup (IF Attached(conn[c], {"fetching"}) THEN {conn[c].att.rpc} ELSE {})
      ended(c) == SetToSeq({Message("ended", i, None) : i \in owed(c)})
  IN  Turn([hub EXCEPT !.holds = FALSE, !.ended = TRUE, !.live = FALSE, !.fetch = None,
                       !.early = {}, !.waiting = {}],
           [c \in Conns |->
              [conn[c] EXCEPT !.att = None,
                 !.out = @ \o ended(c) \o (IF conn[c].att = None THEN <<Note("exit")>> ELSE <<>>)]])

(* closed, without one: the session was lost, and a later connection may   *)
(* take it on again.                                                       *)
Loses ==
  Turn([hub EXCEPT !.live = FALSE],
       [c \in Conns |-> IF conn[c].att = None THEN conn[c] ELSE Push(Dropped(conn[c]), Note("resync"))])

(* fetch_refused: who waited for the fetch gets a snapshot instead.        *)
FetchRefused ==
  LET left == Turn([hub EXCEPT !.fetch = None],
                   [c \in Conns |-> IF c \in Fetching THEN [conn[c] EXCEPT !.att = None] ELSE conn[c]])
      refused == {[rpc |-> conn[c].att.rpc, conn |-> c] : c \in Fetching}
  IN  [left EXCEPT !.hub.waiting = @ \cup refused, !.asks = SetToSeq({w.rpc : w \in refused})]

(* asleep: the tail goes with the terminal, unless somebody came.          *)
Sleeps ==
  LET idle == hub.early = {} /\ hub.fetch = None /\ \A c \in Conns : conn[c].att = None
  IN  Turn(IF idle THEN [hub EXCEPT !.tail = hub.head] ELSE hub, conn)

(***************************************************************************)
(* sessiond: the program prints, a checkpoint lets the log be trimmed, and *)
(* attaches are served.  An attach ends the pump before it knows whether   *)
(* it can be served.                                                       *)
(***************************************************************************)
Ended == log # <<>> /\ Last(log) = "exit"

Prints ==
  /\ Len(log) < MaxRecords /\ ~Ended
  /\ \E kind \in {"data", "gap", "exit"} : log' = Append(log, kind)
  /\ UNCHANGED <<oldest, pump, laneVars, actor, hub, conn, clientVars, breaks, overtaken, stalled>>

Trims ==
  /\ actor.phase = "running"
  /\ \E n \in oldest + 1..actor.at : n <= hub.head /\ (Ended => n < Len(log)) /\ oldest' = n
  /\ UNCHANGED <<log, pump, laneVars, actor, hub, conn, clientVars, breaks, overtaken, stalled>>

Entries(lo, hi) == IF lo < hi THEN <<[is |-> "entries", lo |-> lo, hi |-> hi]>> ELSE <<>>

Checkpoint == [is |-> "checkpoint", at |-> oldest]

(* The attaches vornd asks sessiond for.                                   *)
FromCursor(n) == [is |-> "cursor", at |-> n]

FromNewest == [is |-> "newest", at |-> None]

ServesAttach ==
  /\ toS # <<>> /\ Fits(toV)
  /\ toS' = Tail(toS)
  /\ LET from == Head(toS) IN
     CASE from.is = "newest" ->
            toV' = toV \o <<Checkpoint>> \o Entries(oldest, Len(log)) /\ pump' = Len(log)
       [] from.is = "cursor" /\ from.at < oldest ->
            toV' = Append(toV, [is |-> "refused"]) /\ pump' = None
       [] from.is = "cursor" /\ from.at >= oldest ->
            toV' = toV \o Entries(from.at, Len(log)) /\ pump' = Len(log)
  /\ UNCHANGED <<log, oldest, commands, outs, repumping, linked, actor, hub, conn, clientVars,
                 breaks, overtaken, stalled>>

Pumps ==
  /\ pump # None /\ Fits(toV)
  /\ \E n \in pump + 1..Len(log) : toV' = toV \o Entries(pump, n) /\ pump' = n
  /\ UNCHANGED <<log, oldest, toS, commands, outs, repumping, linked, actor, hub, conn, clientVars,
                 breaks, overtaken, stalled>>

(***************************************************************************)
(* The actor.  A snapshot is cut where the terminal is between sequences:  *)
(* at once, at a later record, or after waiting too long.                  *)
(***************************************************************************)
Snapshots(rpcseq, n) == [i \in DOMAIN rpcseq |-> [is |-> "snapshot", rpc |-> rpcseq[i], at |-> n]]

(* The hub's turn t is taken, and what it asks for is asked; more is what   *)
(* the actor has already said.                                              *)
Performs(t, more) ==
  /\ hub' = t.hub /\ conn' = t.conn
  /\ commands' = IF linked THEN commands \o t.fetches ELSE commands
  /\ LET asked == actor.held \o t.asks IN
     CASE actor.phase = "down" \/ t.asks = <<>> -> outs' = more /\ UNCHANGED actor
       [] actor.phase = "attaching" /\ t.asks # <<>> ->
            outs' = more \o Snapshots(t.asks, None) /\ UNCHANGED actor
       [] actor.phase = "running" /\ t.asks # <<>> ->
            \/ outs' = more \o Snapshots(asked, actor.at) /\ actor' = [actor EXCEPT !.held = <<>>]
            \/ outs' = more /\ actor' = [actor EXCEPT !.held = asked]

(* apply_all, and Applied with every record of the batch, whether or not   *)
(* the terminal had it: snapshots cut on the way come before it.           *)
ActorTakes(lo, hi) ==
  LET n == IF hi > actor.at THEN hi ELSE actor.at
      live == n >= actor.live_at
      ended == Kind(n - 1) = "exit" /\ live
      gone == [actor EXCEPT !.phase = "down", !.at = n, !.held = <<>>]
      applied == <<[is |-> "applied", lo |-> lo, hi |-> hi]>>
      said == applied \o (IF live /\ ~actor.live THEN <<[is |-> "live", at |-> n]>> ELSE <<>>)
                \o (IF ended THEN <<[is |-> "closed"]>> ELSE <<>>)
      after == IF ended THEN gone ELSE [actor EXCEPT !.at = n, !.live = live]
  IN  CASE actor.phase = "down" -> UNCHANGED <<actor, outs>>
        [] actor.phase = "attaching" -> outs' = outs \o applied /\ UNCHANGED actor
        [] actor.phase = "running" ->
             \/ outs' = outs \o said /\ actor' = after
             \/ \E cut \in actor.at + 1..n :
                  /\ actor.held # <<>>
                  /\ outs' = outs \o Snapshots(actor.held, cut) \o said
                  /\ actor' = [after EXCEPT !.held = <<>>]

(* It restores a checkpoint, and is live where the log ended when its      *)
(* vornd connected.                                                        *)
ActorRestores(n) ==
  IF actor.phase # "attaching" THEN UNCHANGED <<actor, outs>>
  ELSE /\ actor' = [actor EXCEPT !.phase = "running", !.at = n, !.live = (n >= actor.live_at)]
       /\ outs' = IF n >= actor.live_at THEN Append(outs, [is |-> "live", at |-> n]) ELSE outs

HoldEnds ==
  /\ actor.phase = "running" /\ actor.held # <<>> /\ Fits(outs)
  /\ outs' = outs \o Snapshots(actor.held, actor.at)
  /\ actor' = [actor EXCEPT !.held = <<>>]
  /\ UNCHANGED <<sessiondVars, toV, toS, commands, repumping, linked, hub, conn, clientVars,
                 breaks, overtaken, stalled>>

(***************************************************************************)
(* The driver: messages from sessiond, what the actor said, commands.      *)
(***************************************************************************)
Unlocked == \A c \in Conns : ~conn[c].storing

Receives(is) == toV # <<>> /\ Head(toV).is = is /\ Fits(outs) /\ toV' = Tail(toV)

ReceivesEntries ==
  /\ Receives("entries")
  /\ repumping' = FALSE
  /\ ActorTakes(Head(toV).lo, Head(toV).hi)
  /\ UNCHANGED <<sessiondVars, toS, commands, linked, hub, conn, clientVars, breaks, overtaken, stalled>>

ReceivesCheckpoint ==
  /\ Receives("checkpoint")
  /\ ActorRestores(Head(toV).at)
  /\ UNCHANGED <<sessiondVars, toS, commands, repumping, linked, hub, conn, clientVars,
                 breaks, overtaken, stalled>>

RefusedFetchUnrepumped ==  (* fault: the session's stream is not started again *)
  /\ hub.holds /\ hub.fetch # None /\ Unlocked
  /\ Performs(FetchRefused, outs)
  /\ UNCHANGED <<toS, repumping, stalled>>

(* A fetch's refusal is the streams': sessiond has no pump left, and the   *)
(* driver attaches again at what the hub has.                              *)
RefusedFetch ==
  /\ hub.holds /\ hub.fetch # None /\ Unlocked
  /\ Performs(FetchRefused, outs)
  /\ toS' = Append(toS, FromCursor(hub.head)) /\ repumping' = TRUE
  /\ UNCHANGED stalled

RefusedRepump ==
  /\ ~(hub.holds /\ hub.fetch # None) /\ repumping
  /\ toS' = Append(toS, FromNewest) /\ repumping' = FALSE
  /\ UNCHANGED <<commands, outs, actor, hub, conn, stalled>>

(* Any other is the actor's, and a started one takes none.                 *)
RefusedActor ==
  /\ ~(hub.holds /\ hub.fetch # None) /\ ~repumping
  /\ stalled' = (stalled \/ actor.phase = "running")
  /\ UNCHANGED <<toS, commands, outs, repumping, actor, hub, conn>>

ReceivesRefusal ==
  /\ Receives("refused")
  /\ RefusedFetch \/ RefusedRepump \/ RefusedActor
  /\ UNCHANGED <<sessiondVars, linked, clientVars, breaks, overtaken>>

Hears(is) == outs # <<>> /\ Head(outs).is = is /\ Unlocked

HubTurn(t) ==
  /\ Performs(t, Tail(outs))
  /\ UNCHANGED <<sessiondVars, toV, toS, repumping, linked, clientVars, breaks, stalled>>

HearsApplied ==
  /\ Hears("applied")
  /\ HubTurn(IF hub.holds THEN Applied(Head(outs).lo, Head(outs).hi) ELSE Turn(hub, conn))
  /\ UNCHANGED overtaken

HearsLive ==
  /\ Hears("live")
  /\ HubTurn(IF hub.holds THEN Live(Head(outs).at) ELSE Turn(hub, conn))
  /\ UNCHANGED overtaken

HearsSnapshot ==
  /\ Hears("snapshot")
  /\ LET o == Head(outs)
         to == {c \in Fetching : [rpc |-> o.rpc, conn |-> c] \in hub.waiting /\ o.at # None}
     IN  /\ HubTurn(SnapshotReady(o.rpc, o.at))
         /\ overtaken' = overtaken \cup {conn[c].att.rpc : c \in to}

HearsEnd ==
  /\ Hears("closed") \/ Hears("lost") \/ Hears("asleep")
  /\ HubTurn(CASE ~hub.holds -> Turn(hub, conn)
               [] hub.holds /\ Head(outs).is = "closed" -> Closed
               [] hub.holds /\ Head(outs).is = "lost" -> Loses
               [] hub.holds /\ Head(outs).is = "asleep" -> Sleeps)
  /\ overtaken' = IF hub.holds /\ Head(outs).is = "lost"
                  THEN overtaken \cup {conn[c].att.rpc : c \in Fetching} ELSE overtaken

ForwardsFetch ==
  /\ commands # <<>> /\ Fits(toS)
  /\ toS' = Append(toS, FromCursor(Head(commands))) /\ commands' = Tail(commands)
  /\ UNCHANGED <<sessiondVars, toV, outs, repumping, linked, actor, hub, conn, clientVars,
                 breaks, overtaken, stalled>>

Viewed == hub.early # {} \/ \E c \in Conns : conn[c].att # None

(* sleep: the terminal is put away when nobody has viewed it for a while.  *)
(* A fetch in flight makes it no difference to the hub, so there is none.  *)
Dozes ==
  /\ actor.phase = "running" /\ actor.live /\ actor.held = <<>> /\ outs = <<>>
  /\ ~Viewed /\ hub.fetch = None /\ hub.tail < hub.head
  /\ outs' = <<[is |-> "asleep"]>>
  /\ UNCHANGED <<sessiondVars, toV, toS, commands, repumping, linked, actor, hub, conn, clientVars,
                 breaks, overtaken, stalled>>

(* The actor fails: the session waits for the next connection.             *)
Panics ==
  /\ actor.phase # "down" /\ breaks < MaxBreaks
  /\ breaks' = breaks + 1
  /\ actor' = [actor EXCEPT !.phase = "down", !.held = <<>>]
  /\ outs' = Append(outs, [is |-> "lost"])
  /\ UNCHANGED <<sessiondVars, toV, toS, commands, repumping, linked, hub, conn, clientVars,
                 overtaken, stalled>>

(* suspended: the connection to sessiond ends, and what was on its way in  *)
(* either direction, or between the driver's tasks, is gone.               *)
Suspends ==
  /\ linked /\ hub.holds /\ breaks < MaxBreaks /\ Unlocked
  /\ breaks' = breaks + 1 /\ linked' = FALSE
  /\ toV' = <<>> /\ toS' = <<>> /\ commands' = <<>> /\ outs' = <<>> /\ repumping' = FALSE
  /\ pump' = None
  /\ actor' = [actor EXCEPT !.phase = "down", !.held = <<>>]
  /\ hub' = [hub EXCEPT !.live = FALSE, !.fetch = None]
  /\ UNCHANGED <<log, oldest, conn, clientVars, overtaken, stalled>>

(* The next one: opened, and an actor that starts at the newest checkpoint.*)
Links ==
  /\ ~linked /\ Unlocked
  /\ linked' = TRUE
  /\ actor' = [phase |-> "attaching", at |-> 0, live_at |-> Len(log), live |-> FALSE, held |-> <<>>]
  /\ toS' = <<FromNewest>>
  /\ hub' = [hub EXCEPT !.live = FALSE]
  /\ UNCHANGED <<sessiondVars, toV, commands, outs, repumping, conn, clientVars, breaks,
                 overtaken, stalled>>

(***************************************************************************)
(* Clients and their writers.                                              *)
(***************************************************************************)
(* A client resumes from any place a client of the session has been at.    *)
Asks(c) ==
  /\ Unlocked
  /\ \E i \in Rpcs, cursor \in 0..seen \cup {None} :
       /\ rpcs[i] = None /\ \A j \in 1..i - 1 : rpcs[j] # None
       /\ rpcs' = [rpcs EXCEPT ![i] = c]
       /\ Performs(Attaches(Turn(hub, conn), [rpc |-> i, conn |-> c, cursor |-> cursor]), outs)
  /\ UNCHANGED <<sessiondVars, toV, toS, repumping, linked, at, seen, answers, told, torn,
                 breaks, overtaken, stalled>>

Got(c, msg) ==
  CASE msg.is = "bytes" ->
         /\ at' = [at EXCEPT ![c] = msg.at + 1]
         /\ torn' = (torn \/ at[c] # msg.at)
         /\ seen' = IF msg.at + 1 > seen THEN msg.at + 1 ELSE seen
    [] msg.is \in {"continued", "snapshot"} ->
         /\ at' = [at EXCEPT ![c] = msg.at]
         /\ seen' = IF msg.at > seen THEN msg.at ELSE seen
         /\ UNCHANGED torn
    [] msg.is = "resync" -> at' = [at EXCEPT ![c] = None] /\ UNCHANGED <<seen, torn>>
    [] OTHER -> UNCHANGED <<at, seen, torn>>

WakesBelow(k) == k.catching /\ Queued(k) < QueueCap \div 2  (* fault: off by one *)

(* written: the queue is half empty and somebody catches up.               *)
Wakes(k) == k.catching /\ Queued(k) <= QueueCap \div 2

(* The queue empties between the test that found it full and the flag that *)
(* asks to be woken.                                                       *)
Misses(k) == k.storing /\ Queued(k) <= QueueCap \div 2

(* next and written: a stale message is skipped.                           *)
Writes(c) ==
  /\ conn[c].out # <<>> /\ ~conn[c].wake
  /\ LET msg == Head(conn[c].out) k == [conn[c] EXCEPT !.out = Tail(@)] IN
     /\ conn' = [conn EXCEPT ![c] = [k EXCEPT !.wake = Wakes(k), !.missed = @ \/ Misses(k)]]
     /\ Got(c, msg)
     /\ answers' = IF msg.rpc # None THEN [answers EXCEPT ![msg.rpc] = @ + 1] ELSE answers
     /\ told' = IF msg.is \in {"exit", "ended"} THEN told \cup {c} ELSE told
  /\ UNCHANGED <<sessiondVars, laneVars, actor, hub, rpcs, breaks, overtaken, stalled>>

(* The store of `catching` that ends a delivery, and its lock with it.     *)
Stores(c) ==
  /\ conn[c].storing
  /\ conn' = [conn EXCEPT ![c].storing = FALSE, ![c].catching = TRUE]
  /\ UNCHANGED <<sessiondVars, laneVars, actor, hub, clientVars, breaks, overtaken, stalled>>

(* drained: the next step for an attachment that catches up.               *)
Drained(c) ==
  /\ conn[c].wake /\ Unlocked
  /\ LET k == IF Attached(conn[c], {"behind"}) THEN CatchUp(conn[c], hub) ELSE conn[c]
     IN  conn' = [conn EXCEPT ![c] = [k EXCEPT !.wake = FALSE, !.storing = FALSE,
                                               !.catching = Attached(k, {"behind"})]]
  /\ UNCHANGED <<sessiondVars, laneVars, actor, hub, clientVars, breaks, overtaken, stalled>>

DisconnectsLate(c) ==  (* fault: what it waits for is kept *)
  /\ Unlocked /\ \E i \in Rpcs : rpcs[i] = c
  /\ conn' = [conn EXCEPT ![c] = Unconnected]
  /\ rpcs' = [i \in Rpcs |-> IF rpcs[i] = c THEN "gone" ELSE rpcs[i]]
  /\ at' = [at EXCEPT ![c] = None]
  /\ UNCHANGED <<sessiondVars, laneVars, actor, hub, seen, answers, told, torn, breaks, overtaken,
                 stalled>>

(* disconnect: the next client of this name is another one.                *)
Disconnects(c) ==
  /\ Unlocked /\ \E i \in Rpcs : rpcs[i] = c
  /\ conn' = [conn EXCEPT ![c] = Unconnected]
  /\ hub' = [hub EXCEPT !.waiting = {w \in @ : w.conn # c},
                        !.early = {a \in @ : a.conn # c}]
  /\ rpcs' = [i \in Rpcs |-> IF rpcs[i] = c THEN "gone" ELSE rpcs[i]]
  /\ at' = [at EXCEPT ![c] = None]
  /\ told' = IF hub.ended THEN told \cup {c} ELSE told
  /\ UNCHANGED <<sessiondVars, laneVars, actor, seen, answers, torn, breaks, overtaken, stalled>>

(* expire: an attach that waited too long is answered with an error.       *)
ExpiresWaiting ==
  /\ Unlocked
  /\ \E w \in hub.waiting :
       LET t == Tells(Turn(Unwaited(w.rpc), conn), w.conn, Message("refused", w.rpc, None))
       IN  hub' = t.hub /\ conn' = t.conn
  /\ UNCHANGED <<sessiondVars, laneVars, actor, clientVars, breaks, overtaken, stalled>>

ExpiresFetching ==
  /\ Unlocked
  /\ \E c \in Conns :
       /\ Attached(conn[c], {"fetching"})
       /\ conn' = [conn EXCEPT ![c] = Push([@ EXCEPT !.att = None],
                                           Message("refused", conn[c].att.rpc, None))]
  /\ UNCHANGED <<sessiondVars, laneVars, actor, hub, clientVars, breaks, overtaken, stalled>>

ExpiresEarly ==
  /\ Unlocked
  /\ \E a \in hub.early :
     /\ \A b \in hub.early : a.rpc <= b.rpc
     /\ hub' = [hub EXCEPT !.early = @ \ {a}]
     /\ conn' = [conn EXCEPT ![a.conn] = Push(@, Message("refused", a.rpc, None))]
  /\ UNCHANGED <<sessiondVars, laneVars, actor, clientVars, breaks, overtaken, stalled>>

StreamInit ==
  /\ log = <<>> /\ oldest = 0 /\ pump = 0
  /\ toV = <<>> /\ toS = <<>> /\ commands = <<>> /\ outs = <<>>
  /\ repumping = FALSE /\ linked = TRUE
  /\ actor = [phase |-> "running", at |-> 0, live_at |-> 0, live |-> TRUE, held |-> <<>>]
  /\ hub = [holds |-> TRUE, ended |-> FALSE, live |-> TRUE, head |-> 0, tail |-> 0,
            fetch |-> None, early |-> {}, waiting |-> {}]
  /\ conn = [c \in Conns |-> Unconnected]
  /\ rpcs = [i \in Rpcs |-> None] /\ at = [c \in Conns |-> None]
  /\ breaks = 0 /\ seen = 0 /\ answers = [i \in Rpcs |-> 0] /\ told = {}
  /\ torn = FALSE /\ overtaken = {} /\ stalled = FALSE

(* What sessiond's and vornd's tasks, their timers, and the clients'       *)
(* sockets do.                                                             *)
System ==
  \/ ServesAttach \/ Pumps
  \/ ReceivesEntries \/ ReceivesCheckpoint \/ ReceivesRefusal
  \/ HearsApplied \/ HearsLive \/ HearsSnapshot \/ HearsEnd
  \/ ForwardsFetch \/ HoldEnds \/ Links
  \/ ExpiresWaiting \/ ExpiresFetching \/ ExpiresEarly
  \/ \E c \in Conns : Writes(c) \/ Stores(c) \/ Drained(c)

StreamNext ==
  \/ System
  \/ Prints \/ Trims \/ Dozes \/ Panics \/ Suspends
  \/ \E c \in Conns : Asks(c) \/ Disconnects(c)

(* The system's tasks run.  What each has to do is finite, so fairness of  *)
(* them together is enough.  The program, what clients ask for and what    *)
(* breaks have no fairness.                                                *)
StreamSpec == StreamInit /\ [][StreamNext]_streamVars /\ WF_streamVars(System)

-----------------------------------------------------------------------------
(* Properties.                                                             *)

(* Whatever a client gets after an answer follows it record by record,     *)
(* until the next answer or a resync: across attaches that replace each    *)
(* other, snapshots cut in the middle of a batch, fetches, a tail that is  *)
(* trimmed or put away, full queues and new connections to sessiond.       *)
ClientsSeeRuns == ~torn

(* The system has done all it can until something new happens: what the    *)
(* pump could send is sent, every lane and queue is empty, no wake-up is   *)
(* on its way, and no timer has anything to end.                           *)
AtRest ==
  /\ linked /\ toV = <<>> /\ toS = <<>> /\ commands = <<>> /\ outs = <<>>
  /\ pump \in {None, Len(log)} /\ actor.held = <<>>
  /\ hub.early = {} /\ hub.waiting = {} /\ Fetching = {}
  /\ \A c \in Conns : conn[c].out = <<>> /\ ~conn[c].storing /\ ~conn[c].wake

(* No attach is answered twice, though a snapshot, a fetch, a refusal, a   *)
(* timeout, a later attach and the session's end may all come to it.       *)
AnsweredAtMostOnce ==
  \A i \in Rpcs :
    LET queued(c) == {j \in DOMAIN conn[c].out : conn[c].out[j].rpc = i}
    IN  rpcs[i] \in Conns => answers[i] + Cardinality(queued(rpcs[i])) <= 1

(* Every attach is answered once: never twice, and in the end at all,      *)
(* unless its client leaves (or the attachment it waits with goes, with an *)
(* earlier attach's snapshot or with the actor, which answer nothing).     *)
AnsweredOnce ==
  /\ AnsweredAtMostOnce
  /\ AtRest => \A i \in Rpcs : rpcs[i] \in Conns => answers[i] = 1 \/ i \in overtaken

(* Whoever fell behind is woken: its queue is still more than half full,   *)
(* so that the write that empties it sees the flag, or its wake-up is on   *)
(* its way (unless the queue emptied before the flag was stored).          *)
BehindIsWoken ==
  \A c \in Conns :
    Attached(conn[c], {"behind"}) =>
      \/ conn[c].wake \/ conn[c].missed
      \/ (conn[c].storing \/ conn[c].catching) /\ Queued(conn[c]) > QueueCap \div 2

(* A client that fell behind, like one that did not, gets all the hub has, *)
(* or is told to resync, once it reads again (unless its wake-up was       *)
(* missed).                                                                *)
BehindCatchesUp ==
  /\ BehindIsWoken
  /\ AtRest => \A c \in Conns :
       Attached(conn[c], {"following", "behind"}) => conn[c].missed \/ conn[c].att.next >= hub.head

(* What the program prints reaches the hub, whatever clients fetch and     *)
(* sessiond refuses (unless a refusal is taken for the actor's).           *)
OutputReachesHub ==
  AtRest /\ hub.holds /\ actor.phase # "down" /\ ~stalled => hub.head = Len(log)

(* The same without the exception: "Starts the session's records flowing   *)
(* again after a refused fetch."                                           *)
OutputAlwaysReachesHub ==
  AtRest /\ hub.holds /\ actor.phase # "down" => hub.head = Len(log)
=============================================================================
