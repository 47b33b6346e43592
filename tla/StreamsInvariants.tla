------------------------- MODULE StreamsInvariants -------------------------
(***************************************************************************)
(* What StreamsProofs proves of a session's streams.                       *)
(*                                                                         *)
(* StreamsInv reads each outbox as a walk: the messages that move a client *)
(* (bytes, an answer, a resync) each leave it at a place, every bytes      *)
(* message starts at the place the one before it left (Steady), and an     *)
(* attachment goes on from where the walk ends (Reaches), unless it has    *)
(* passed the exit, which moves nobody and which nothing follows.  Beside  *)
(* it, an attach is early, awaited, fetched for, on its way or answered,   *)
(* and one of these at most (Once).                                        *)
(*                                                                         *)
(* FlowInv counts what is between sessiond and the hub as one line of      *)
(* places: the hub's head, raised by the batches on their way to it, is    *)
(* where the actor stands, and raised by those the lane from sessiond has  *)
(* as well, where the pump does (Levelled, Rising, Sent, Pumped), while a  *)
(* pump that stopped has a refusal or a new attach on its way (Asked), and *)
(* every attachment is at the head or can be brought there from the tail   *)
(* (Placed).  Accounted: whoever asked is answered, owed or overtaken.     *)
(* (vornd/src/streams.rs, vornd/src/engine.rs, sessiond/src/server.rs.)    *)
(***************************************************************************)
EXTENDS Streams

-----------------------------------------------------------------------------
(* The invariant.                                                          *)

(* A place in the log: the next record expected there.                     *)
Spot == 0..Len(log)

LogFine ==
  /\ log \in Seq({"data", "gap", "exit"})
  /\ \A i \in 1..Len(log) - 1 : log[i] # "exit"

MessageKinds ==
  {"bytes", "stale", "continued", "snapshot", "resync", "refused", "ended", "exit"}

Msg ==
  {m \in [is : MessageKinds, rpc : Rpcs \cup {None}, at : Spot \cup {None}] :
     /\ m.is = "bytes" => m.at \in Nat /\ m.at < Len(log)
     /\ m.is \in {"continued", "snapshot"} => m.at \in Spot
     /\ m.is = "resync" => m.at = None}

Att == [next : Spot, mode : Modes, rpc : Rpcs \cup {None}]

Conn ==
  [att : Att \cup {None}, out : Seq(Msg), catching : BOOLEAN, storing : BOOLEAN,
   wake : BOOLEAN, missed : BOOLEAN]

(* What a message makes of the place of the client that reads it.          *)
Moves(m) == m.is \in {"bytes", "continued", "snapshot", "resync"}

Leaves(m) == IF m.is = "bytes" THEN m.at + 1 ELSE m.at

(* A client at a that has read the messages before the i-th is at n.       *)
StandsAt(out, a, i, n) ==
  \/ \E j \in 1..i - 1 :
       Moves(out[j]) /\ Leaves(out[j]) = n /\ \A l \in j + 1..i - 1 : ~Moves(out[l])
  \/ (\A l \in 1..i - 1 : ~Moves(out[l])) /\ a = n

Ends(out, a, n) == StandsAt(out, a, Len(out) + 1, n)

(* Whatever bytes it reads are those it expects.                           *)
Steady(out, a) ==
  \A i \in 1..Len(out) : out[i].is = "bytes" => StandsAt(out, a, i, out[i].at)

(* An attachment is where its client will be, or past the exit, which      *)
(* moves no client, and nothing follows it.                                *)
Reaches(out, a, n) == Ends(out, a, n) \/ (n = Len(log) /\ Ended)

Woken(k) ==
  Attached(k, {"behind"}) =>
    \/ k.wake \/ k.missed
    \/ (k.storing \/ k.catching) /\ Queued(k) > QueueCap \div 2

ConnFine(k, a) ==
  /\ k \in Conn /\ Steady(k.out, a) /\ Woken(k)
  /\ Attached(k, {"following", "behind"}) => Reaches(k.out, a, k.att.next)

-----------------------------------------------------------------------------
(* What is queued.                                                         *)

Weighs(m) == m.is \in {"bytes", "stale"}

Queue(out) == {i \in DOMAIN out : out[i].is \in {"bytes", "stale"}}

(* The messages that carry an answer to attach i.                          *)
Carried(k, i) == {j \in DOMAIN k.out : k.out[j].rpc = i}

-----------------------------------------------------------------------------
(* Feed: bytes from where the attachment stands, without a break.          *)

(* The bytes, and the exit, and where they leave the attachment.           *)
Run(u, from) == \A i \in 1..Len(u) : u[i] = Message("bytes", None, from + i - 1)

-----------------------------------------------------------------------------
(* What the hub does to a connection.                                      *)

(* f is k with messages that answer nothing, and as many to write.         *)
Kept(k, f) ==
  /\ f \in Conn /\ Queued(k) <= Queued(f)
  /\ \A i \in Rpcs : Carried(f, i) = Carried(k, i)

(* f is k with the answer to attach r, and messages that answer nothing.   *)
Answered(k, f, r) ==
  /\ f \in Conn
  /\ \A i \in Rpcs : Carried(f, i) = Carried(k, i) \cup (IF i = r THEN {Len(k.out) + 1} ELSE {})

-----------------------------------------------------------------------------
(* The hub and its connections, as they are and as a turn leaves them: own *)
(* is who asked each attach, a what each client has, and ans the answers   *)
(* taken.                                                                  *)

Pending == [rpc : Rpcs, conn : Conns, cursor : Spot \cup {None}]

Awaited == [rpc : Rpcs, conn : Conns]

Hub ==
  [holds : BOOLEAN, ended : BOOLEAN, live : BOOLEAN, head : Spot, tail : Spot,
   fetch : Spot \cup {None}, early : SUBSET Pending, waiting : SUBSET Awaited]

HubFine(h) == h \in Hub /\ h.tail <= h.head /\ (h.ended => ~h.holds)

(* Where the answer to attach i may come from.                             *)
IsEarly(h, i) == \E x \in h.early : x.rpc = i

IsAwaited(h, i) == \E w \in h.waiting : w.rpc = i

IsFetched(ks, i) == \E c \in Conns : Attached(ks[c], {"fetching"}) /\ ks[c].att.rpc = i

IsQueued(ks, i) == \E c \in Conns : Carried(ks[c], i) # {}

Owed(h, ks, i) == IsEarly(h, i) \/ IsAwaited(h, i) \/ IsFetched(ks, i)

Nowhere(h, ks, i) == ~Owed(h, ks, i) /\ ~IsQueued(ks, i)

(* It comes from one place, once.                                          *)
Once(h, ks, ans, i) ==
  /\ ans[i] \in {0, 1}
  /\ \A x, y \in h.early : x.rpc = i /\ y.rpc = i => x = y
  /\ IsEarly(h, i) => ~IsAwaited(h, i) /\ ~IsFetched(ks, i)
  /\ IsAwaited(h, i) => ~IsFetched(ks, i)
  /\ Owed(h, ks, i) => ~IsQueued(ks, i) /\ ans[i] = 0
  /\ IsQueued(ks, i) => ans[i] = 0
  /\ \A c \in Conns : \A j, l \in Carried(ks[c], i) : j = l

(* And goes to who asked.                                                  *)
Owners(h, ks, own) ==
  /\ \A x \in h.early \cup h.waiting : own[x.rpc] = x.conn
  /\ \A c \in Conns : Attached(ks[c], {"fetching"}) => ks[c].att.rpc \in Rpcs /\ own[ks[c].att.rpc] = c
  /\ \A c \in Conns, i \in Rpcs : Carried(ks[c], i) # {} => own[i] = c

ConnsFine(ks, a) == ks \in [Conns -> Conn] /\ \A c \in Conns : ConnFine(ks[c], a[c])

TurnFine(h, ks, own, a, ans) ==
  /\ HubFine(h) /\ ConnsFine(ks, a)
  /\ h.ended => \A c \in Conns : ~Attached(ks[c], Modes)
  /\ Owners(h, ks, own) /\ \A i \in Rpcs : Once(h, ks, ans, i)

(* A connection k that becomes f: what it carries and fetches for.         *)
Quiet(k, f) ==
  /\ \A i \in Rpcs : Carried(f, i) = Carried(k, i)
  /\ Attached(f, {"fetching"}) => Attached(k, {"fetching"}) /\ f.att.rpc = k.att.rpc

(* Some attaches are answered, those in R, each at most once, to who asked *)
(* them.                                                                   *)
Answering(h, ks, own, a, ans, g, fs, R) ==
  /\ TurnFine(h, ks, own, a, ans) /\ HubFine(g) /\ ConnsFine(fs, a)
  /\ g.ended => \A c \in Conns : ~Attached(fs[c], Modes)
  /\ g.early \subseteq h.early /\ g.waiting \subseteq h.waiting
  /\ \A c \in Conns : Attached(fs[c], {"fetching"})
       => Attached(ks[c], {"fetching"}) /\ fs[c].att.rpc = ks[c].att.rpc
  /\ R \subseteq Rpcs
  /\ \A i \in R : own[i] \in Conns /\ ~Owed(g, fs, i) /\ ans[i] = 0 /\ ~IsQueued(ks, i)
  /\ \A c \in Conns, i \in Rpcs : i \in R /\ own[i] = c => \A j, l \in Carried(fs[c], i) : j = l
  /\ \A c \in Conns, i \in Rpcs : ~(i \in R /\ own[i] = c) => Carried(fs[c], i) = Carried(ks[c], i)

-----------------------------------------------------------------------------
(* Turns.                                                                  *)

Turns == [hub : Hub, conn : [Conns -> Conn], asks : Seq(Rpcs), fetches : Seq(Spot)]

TurnOk(t, own, a, ans) == t \in Turns /\ TurnFine(t.hub, t.conn, own, a, ans)

NowhereIn(t, i) == Nowhere(t.hub, t.conn, i)

(* Attach r is answered, at connection c, which becomes f.                 *)
AnsweringOne(h, ks, own, a, ans, g, c, f, r) ==
  /\ TurnFine(h, ks, own, a, ans) /\ HubFine(g) /\ ConnFine(f, a[c]) /\ c \in Conns /\ r \in Rpcs
  /\ g.early \subseteq h.early /\ g.waiting \subseteq h.waiting
  /\ g.ended => h.ended /\ ~Attached(f, Modes)
  /\ Answered(ks[c], f, r) /\ own[r] = c /\ ans[r] = 0 /\ ~IsQueued(ks, r)
  /\ Attached(f, {"fetching"}) =>
       Attached(ks[c], {"fetching"}) /\ f.att.rpc = ks[c].att.rpc /\ f.att.rpc # r
  /\ ~IsEarly(g, r) /\ ~IsAwaited(g, r)

(* A turn with one connection changed, which answers r at most.            *)
Proceeds(t, s, own, a, ans, r) ==
  /\ TurnOk(s, own, a, ans) /\ s.hub = t.hub /\ s.asks = t.asks
  /\ \A i \in Rpcs : i # r /\ NowhereIn(t, i) => NowhereIn(s, i)

Put(t, c, k) == [t EXCEPT !.conn[c] = k]

(* Attaches, those in R, that are now waited for in one place.             *)
Owing(h, ks, own, a, ans, g, fs, R) ==
  /\ TurnFine(h, ks, own, a, ans) /\ HubFine(g) /\ ConnsFine(fs, a)
  /\ g.ended => \A c \in Conns : ~Attached(fs[c], Modes)
  /\ \A x \in g.early : x \in h.early \/ (x.rpc \in R /\ own[x.rpc] = x.conn)
  /\ \A w \in g.waiting : w \in h.waiting \/ (w.rpc \in R /\ own[w.rpc] = w.conn)
  /\ \A c \in Conns : Attached(fs[c], {"fetching"}) =>
       \/ Attached(ks[c], {"fetching"}) /\ fs[c].att.rpc = ks[c].att.rpc
       \/ fs[c].att.rpc \in R /\ own[fs[c].att.rpc] = c
  /\ \A c \in Conns, i \in Rpcs : Carried(fs[c], i) = Carried(ks[c], i)
  /\ R \subseteq Rpcs
  /\ \A i \in R : ans[i] = 0 /\ ~IsQueued(ks, i)
  /\ \A i \in R :
       \/ ~IsEarly(g, i) /\ ~IsAwaited(g, i)
       \/ ~IsEarly(g, i) /\ ~IsFetched(fs, i)
       \/ ~IsAwaited(g, i) /\ ~IsFetched(fs, i) /\ \A x, y \in g.early : x.rpc = i /\ y.rpc = i => x = y

-----------------------------------------------------------------------------
(* An attach is served.                                                    *)

(* The turn s follows t, and attach r is served.                           *)
Serves(t, s, own, a, ans, r) ==
  TurnOk(s, own, a, ans) /\ \A i \in Rpcs : i # r /\ NowhereIn(t, i) => NowhereIn(s, i)

(* An attach that nothing knows of yet.                                    *)
Asking(t, own, a, ans, x) ==
  /\ TurnOk(t, own, a, ans) /\ x \in Pending /\ own[x.rpc] = x.conn /\ ans[x.rpc] = 0
  /\ NowhereIn(t, x.rpc)

-----------------------------------------------------------------------------
(* live: the attaches that came before are served in turn.                 *)

(* The turn after the attach i, if it came before.                         *)
Resumes(t, i) ==
  IF \E x \in hub.early : x.rpc = i
  THEN Attaches(t, CHOOSE x \in hub.early : x.rpc = i)
  ELSE t

(* The turns after each attach up to n.                                    *)
Resumed(base, n, f) ==
  f = [i \in 0..n |-> IF i = 0 THEN base ELSE Resumes(f[i - 1], i)]

(* What holds of the turns, and what is left for those to come.            *)
Resuming(t, own, a, ans, i) ==
  TurnOk(t, own, a, ans) /\ \A x \in hub.early : x.rpc > i => NowhereIn(t, x.rpc)

-----------------------------------------------------------------------------
(* The session ends, is lost, is refused a fetch, or sleeps.               *)

(* The answers of the attaches in O, and a note.                           *)
Ending(k, O, e) ==
  [k EXCEPT !.att = None, !.out = @ \o SetToSeq({Message("ended", i, None) : i \in O}) \o e]

-----------------------------------------------------------------------------
(* The invariant of the specification.                                     *)

FromSessiond ==
  {m \in [is : {"entries"}, lo : Spot, hi : Spot] : m.lo < m.hi}
    \cup [is : {"checkpoint"}, at : Spot] \cup [is : {"refused"}]

ToSessiond == [is : {"cursor"}, at : Spot] \cup [is : {"newest"}, at : {None}]

(* What the actor says.                                                    *)
Said ==
  {m \in [is : {"applied"}, lo : Spot, hi : Spot] : m.lo < m.hi}
    \cup [is : {"live"}, at : Spot]
    \cup [is : {"snapshot"}, rpc : Rpcs, at : Spot \cup {None}]
    \cup [is : {"closed", "lost", "asleep"}]

Actor ==
  [phase : {"attaching", "running", "down"}, at : Spot, live_at : Spot, live : BOOLEAN,
   held : Seq(Rpcs)]

LanesFine(tv, ts, cs, os) ==
  tv \in Seq(FromSessiond) /\ ts \in Seq(ToSessiond) /\ cs \in Seq(Spot) /\ os \in Seq(Said)

PlacesFine(old, sent, act, furthest) ==
  old \in Spot /\ sent \in Spot \cup {None} /\ act \in Actor /\ furthest \in Spot

ClientsFine(own, a, ans) ==
  /\ own \in [Rpcs -> Conns \cup {None, "gone"}] /\ a \in [Conns -> Spot \cup {None}]
  /\ ans \in [Rpcs -> Nat] /\ \A i \in Rpcs : own[i] = None => ans[i] = 0

FlagsFine(re, li, st, to) == {re, li, st} \subseteq BOOLEAN /\ to = FALSE

StreamsInv ==
  /\ LogFine
  /\ LanesFine(toV, toS, commands, outs)
  /\ PlacesFine(oldest, pump, actor, seen)
  /\ ClientsFine(rpcs, at, answers)
  /\ FlagsFine(repumping, linked, stalled, torn)
  /\ TurnFine(hub, conn, rpcs, at, answers)

(* The log only grows, and not after the exit.                             *)
Later == LogFine /\ LogFine' /\ (log' = log \/ (~Ended /\ Len(log) < Len(log')))

-----------------------------------------------------------------------------
(* The writer.                                                             *)

Moved(m, n) == IF Moves(m) THEN Leaves(m) ELSE n

(* A connection whose first message is written.                            *)
Written(k) ==
  LET f == [k EXCEPT !.out = Tail(@)] IN [f EXCEPT !.wake = Wakes(f), !.missed = @ \/ Misses(f)]

-----------------------------------------------------------------------------
(* No attach is forgotten.                                                 *)

(* A connection has an answer to attach i in its outbox, or fetches for it.*)
Has(k, i) == Carried(k, i) # {} \/ (Attached(k, {"fetching"}) /\ k.att.rpc = i)

(* An attach that somebody still owes an answer, or that is on its way.    *)
Holds(h, ks, i) == IsEarly(h, i) \/ IsAwaited(h, i) \/ \E c \in Conns : Has(ks[c], i)

Retains(k, f) == \A i \in Rpcs : Has(k, i) => Has(f, i)

Retained(h, ks, g, fs) == \A i \in Rpcs : Holds(h, ks, i) => Holds(g, fs, i)

RetainedIn(t, s) == Retained(t.hub, t.conn, s.hub, s.conn)

HoldsIn(t, i) == Holds(t.hub, t.conn, i)

-----------------------------------------------------------------------------
(* How far the records have come on their way.                             *)

Batch(m) == m.is \in {"applied", "entries"}

(* No batch before the i-th message of a lane goes past x, and one does.   *)
Under(lane, i, x) == \A j \in 1..i - 1 : Batch(lane[j]) => lane[j].hi <= x

Over(lane, i, x) == \E j \in 1..i - 1 : Batch(lane[j]) /\ lane[j].hi >= x

(* The hub that has heard what was said before the i-th message is at x at *)
(* most, or at least, where it is at n now.                                *)
AtMost(os, n, i, x) == n <= x /\ Under(os, i, x)

AtLeast(os, n, i, x) == n >= x \/ Over(os, i, x)

(* And the one that has heard everything.                                  *)
Upto(os, n, x) == AtMost(os, n, Len(os) + 1, x)

Beyond(os, n, x) == AtLeast(os, n, Len(os) + 1, x)

Speaks(m) == m.is \in {"applied", "live"} \/ (m.is = "snapshot" /\ m.at # None)

Place(m) == IF m.is = "applied" THEN m.hi ELSE m.at

(* What the actor says is never behind what the hub has when it hears it,  *)
(* and it says that it is live where the hub then is.                      *)
Voiced(os, n) ==
  \A i \in 1..Len(os) :
    /\ Speaks(os[i]) => AtMost(os, n, i, Place(os[i]))
    /\ os[i].is = "live" => AtLeast(os, n, i, os[i].at)

(* Nor is what sessiond sends behind what was sent before.                 *)
Rising(tv, os, n) ==
  \A i \in 1..Len(tv) :
    tv[i].is = "entries" => Upto(os, n, tv[i].hi) /\ Under(tv, i, tv[i].hi)

Sent(sent, tv, os, n) == sent # None => Upto(os, n, sent) /\ Under(tv, Len(tv) + 1, sent)

(* And everything it has sent is on its way or there, if the actor runs.   *)
Pumped(sent, tv, os, n) == sent # None => Beyond(os, n, sent) \/ Over(tv, Len(tv) + 1, sent)

(* An actor that starts has its checkpoint first.                          *)
Starting(tv, ts, sent) ==
  IF tv = <<>> THEN ts # <<>> /\ Head(ts).is = "newest" /\ sent = None
               ELSE Head(tv).is = "checkpoint"

Unbatched(os) == \A i \in 1..Len(os) : ~Batch(os[i])

(* The actor is where the hub will be, once it is live, and not past it    *)
(* before.                                                                 *)
Levelled(act, tv, ts, os, sent, n) ==
  /\ act.phase = "running" /\ act.live => Upto(os, n, act.at) /\ act.live_at <= act.at
  /\ act.phase = "running" /\ ~act.live => Upto(os, n, act.live_at) /\ Beyond(os, n, act.at)
  /\ act.phase = "attaching" => n <= act.live_at /\ Unbatched(os) /\ Starting(tv, ts, sent)

Announced(os) == \E i \in 1..Len(os) : os[i].is = "live"

(* Nothing is asked of an actor that is not live.                          *)
Living(h, act, os) ==
  h.live \/ h.fetch # None \/ act.held # <<>> \/ Announced(os)
    => act.phase = "down" \/ (act.phase = "running" /\ act.live)

(* What is asked for or restored is something the hub has had.             *)
Past(old, tv, ts, cs, n) ==
  /\ old <= n
  /\ \A i \in 1..Len(tv) : tv[i].is = "checkpoint" => tv[i].at <= n
  /\ \A i \in 1..Len(ts) : ts[i].is = "cursor" => ts[i].at <= n
  /\ \A i \in 1..Len(cs) : cs[i] <= n

Cut(li, tv, ts, cs, os, sent, act, h) ==
  ~li => /\ tv = <<>> /\ ts = <<>> /\ cs = <<>> /\ os = <<>> /\ sent = None
         /\ act.phase = "down" /\ h.fetch = None /\ ~h.live

(* A stream that sessiond does not send is asked for, or its refusal is on *)
(* its way.                                                                *)
Asked(li, act, st, sent, tv, ts) ==
  li /\ act.phase # "down" /\ ~st /\ sent = None
    => ts # <<>> \/ \E i \in 1..Len(tv) : tv[i].is = "refused"

(* Who follows has all the hub has, and who catches up finds it in the     *)
(* tail.                                                                   *)
Placing(k, h) ==
  /\ Attached(k, {"following"}) => h.head <= k.att.next
  /\ Attached(k, {"behind"}) => h.tail < h.head

Placed(h, ks) == \A c \in Conns : Placing(ks[c], h)

FlowInv ==
  /\ hub.holds \/ (hub.ended /\ hub.early = {} /\ hub.waiting = {})
  /\ hub.holds =>
       /\ Voiced(outs, hub.head) /\ Rising(toV, outs, hub.head) /\ Sent(pump, toV, outs, hub.head)
       /\ (actor.phase # "down" => Pumped(pump, toV, outs, hub.head))
       /\ Levelled(actor, toV, toS, outs, pump, hub.head) /\ Living(hub, actor, outs)
       /\ Past(oldest, toV, toS, commands, hub.head)
       /\ Cut(linked, toV, toS, commands, outs, pump, actor, hub)
       /\ Asked(linked, actor, stalled, pump, toV, toS)
       /\ Placed(hub, conn)

(* Every attach is in one of the places it is answered from, on its way to *)
(* its client, answered, or its attachment went with nothing to answer it. *)
Accounts(h, ks, own, ans, over) ==
  \A i \in Rpcs : own[i] \in Conns => Holds(h, ks, i) \/ ans[i] = 1 \/ i \in over

Accounted == Accounts(hub, conn, rpcs, answers, overtaken)

-----------------------------------------------------------------------------
(* A turn that serves an attach forgets none, and leaves the hub where it  *)
(* was.                                                                    *)

Backward(t) == \A i \in 1..Len(t.fetches) : t.fetches[i] <= t.hub.head

Wanting(t) == t.hub.live \/ t.hub.fetch # None \/ t.asks # <<>>

SameHub(h, g) ==
  /\ g.head = h.head /\ g.tail = h.tail /\ g.live = h.live /\ g.holds = h.holds /\ g.ended = h.ended

Moderate(t, s) ==
  /\ SameHub(t.hub, s.hub) /\ (Placed(t.hub, t.conn) => Placed(s.hub, s.conn))
  /\ Wanting(s) => Wanting(t)
  /\ Backward(t) => Backward(s)

Follows(t, s) == RetainedIn(t, s) /\ Moderate(t, s)

-----------------------------------------------------------------------------
(* live: every attach that came before is held from its turn on.           *)

Keeping(base, t, i) ==
  /\ Moderate(base, t)
  /\ \A j \in Rpcs : Holds(hub, conn, j) /\ (IsEarly(hub, j) => j <= i) => HoldsIn(t, j)

-----------------------------------------------------------------------------
(* Turns that the actor's words make.                                      *)

(* Whoever is owed an answer still is, or has it, but for those in O.      *)
Owes(h, ks, g, fs, O) == \A i \in Rpcs : Holds(h, ks, i) => Holds(g, fs, i) \/ i \in O

(* The turn asks for nothing.                                              *)
Calm(t) ==
  /\ t.asks = <<>> /\ t.fetches = <<>> /\ t.hub.holds = hub.holds
  /\ (t.hub.live => hub.live) /\ (t.hub.fetch # None => hub.fetch # None)

(* A snapshot overtakes the attach its connection fetches for.             *)
Overtaking(r, n) ==
  {conn[c].att.rpc : c \in {d \in Fetching : [rpc |-> r, conn |-> d] \in hub.waiting /\ n # None}}

Lost == {conn[c].att.rpc : c \in Fetching}

-----------------------------------------------------------------------------
(* Lanes that grow and shrink.                                             *)

(* What is on its way and what is there stay what they are, seen from the  *)
(* place x, from one lane and hub to another.                              *)
Carries(os, n, w, m) ==
  \A x \in Spot : (Upto(os, n, x) => Upto(w, m, x)) /\ (Beyond(os, n, x) => Beyond(w, m, x))

(* Where the hub is when it has heard one more message.                    *)
Heard(os, n) == IF Batch(Head(os)) THEN Head(os).hi ELSE n

(* A turn of the hub that takes it from hub.head to its own.               *)
Going(t, more) ==
  /\ t \in Turns /\ t.hub.holds /\ more \in Seq(Said)
  /\ Carries(outs, hub.head, more, t.hub.head) /\ Voiced(more, t.hub.head) /\ hub.head <= t.hub.head
  /\ Unbatched(outs) => t.hub.head = hub.head /\ Unbatched(more)
  /\ Announced(more) => Announced(outs)
  /\ Wanting(t) => actor.phase = "down" \/ (actor.phase = "running" /\ actor.live)
  /\ Backward(t) /\ Placed(t.hub, t.conn)
  /\ ~linked => more = <<>> /\ ~Wanting(t)

-----------------------------------------------------------------------------
(* What the actor takes and says.                                          *)

(* A batch, that the actor is live at x, that the session is over.         *)
Words(lo, hi, e1, e2) == <<[is |-> "applied", lo |-> lo, hi |-> hi]>> \o e1 \o e2

MayBe(e1, e2, x) == e1 \in {<<>>, <<[is |-> "live", at |-> x]>>} /\ e2 \in {<<>>, <<[is |-> "closed"]>>}

Spoken(os, n, hi, e1, w) ==
  /\ w \in Seq(Said) /\ Voiced(w, n)
  /\ \A y \in Spot : Upto(w, n, y) <=> Upto(os, n, y) /\ hi <= y
  /\ \A y \in Spot : Beyond(w, n, y) <=> Beyond(os, n, y) \/ hi >= y
  /\ Announced(w) => Announced(os) \/ e1 # <<>>

(* What leaves one lane is on the next, or is not a batch.                 *)
Passes(m, os, w, n) ==
  \A x \in Spot : /\ Upto(os, n, x) /\ (Batch(m) => m.hi <= x) => Upto(w, n, x)
                  /\ Beyond(os, n, x) \/ (Batch(m) /\ m.hi >= x) => Beyond(w, n, x)

=============================================================================
