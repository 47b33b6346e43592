------------------------------ MODULE Handoff ------------------------------
(***************************************************************************)
(* Sessions moving from an older sessiond, the donor, to a newer one, the  *)
(* adopter, over a socket: freeze, offer, Ready, Commit, Took, with either *)
(* process free to die or time out at every step, and chains of handoffs.  *)
(* (sessiond/src/server/handoff.rs, and what of server.rs it meets.)       *)
(*                                                                         *)
(* Sessions are names here; what a freeze, a thaw or an adoption does to   *)
(* one is Session's.  A process that died does not come back: the next one *)
(* is another.  Of the sockets (the kernel's): what was sent is read, in   *)
(* order, before the end of the stream, and a peer that dies with input    *)
(* unread may be heard as a reset instead of an end (Linux does so).       *)
(***************************************************************************)
EXTENDS Integers, Sequences, FiniteSets

CONSTANTS
  Procs,      (* sessionds, by number                                      *)
  HeldBy,     (* process |-> the sessions it starts out with               *)
  Later,      (* sessions vornd may start meanwhile                        *)
  VorndWaits, (* for what of one adoption before it asks for the next:     *)
              (* its "answer", the "close" of both ends too, or "nothing"  *)
  MaxAdopts   (* bound: adoptions asked for                                *)

ASSUME ProcsAssumption ==
  /\ Procs \subseteq Nat \ {0} /\ MaxAdopts \in Nat
  /\ VorndWaits \in {"answer", "close", "nothing"}

Sessions == Later \cup UNION {HeldBy[p] : p \in Procs}

VARIABLES
  up,       (* the processes running                                       *)
  map,      (* process |-> the sessions it holds                           *)
  frozen,   (* process |-> those of them frozen                            *)
  handing, handed,  (* the donor's flags, as sets of processes             *)
  conn,     (* adopter |-> its latest connection to a donor, both ends     *)
  adopts,   (* adoptions asked for                                         *)
  told,     (* process |-> what vornd was told its last adoption came to   *)
  born,     (* sessions there ever were                                    *)
  killed    (* of those, the ones that went with a process that held them  *)

handoffVars == <<up, map, frozen, handing, handed, conn, adopts, told, born, killed>>

(* d and a are where donate and adopt are; offered are the sessions donate *)
(* took from its map, passing those still to send, staged those that came. *)
(* shut: the adopter sends no more.  reset: see above.                     *)
Idle == [from |-> 0, d |-> "closed", a |-> "idle", toA |-> <<>>, toD |-> <<>>,
         shut |-> TRUE, reset |-> FALSE,
         offered |-> {}, passing |-> {}, staged |-> {}]

Words == {"Hello", "Ready", "Took", "Refuse", "Offer", "Done", "Commit"}

Messages == Words \cup Sessions

(* A session starts out in one process; its name is no other message.      *)
ASSUME SessionsAssumption ==
  /\ HeldBy \in [Procs -> SUBSET Sessions] /\ IsFiniteSet(Sessions) /\ Sessions \cap Words = {}
  /\ \A p, q \in Procs : p # q => HeldBy[p] \cap HeldBy[q] = {}

TypeOK ==
  /\ up \subseteq Procs /\ handing \subseteq up /\ handed \subseteq Procs
  /\ map \in [Procs -> SUBSET Sessions] /\ frozen \in [Procs -> SUBSET Sessions]
  /\ \A p \in Procs : frozen[p] \subseteq map[p]
  /\ \A a \in Procs :
       /\ conn[a].from \in Procs \cup {0}
       /\ conn[a].d \in {"asked", "freeze", "send", "ready", "commit", "took", "refuse", "close", "closed"}
       /\ conn[a].a \in {"idle", "offer", "stage", "ready", "commit", "took", "start", "drain"}
       /\ conn[a].toA \in Seq(Messages) /\ conn[a].toD \in Seq(Messages)
       /\ conn[a].passing \subseteq conn[a].offered
       /\ conn[a].staged \subseteq conn[a].offered
       /\ conn[a].shut \in BOOLEAN /\ conn[a].reset \in BOOLEAN
  /\ told \in [Procs -> {"nothing", "adopted", "failed", "stalled"}]
  /\ adopts \in 0..MaxAdopts
  /\ killed \subseteq born /\ born \subseteq Sessions

From(a) == conn[a].from

(* A step of the connection of adopter a that leaves the sessions alone.   *)
Goes(a, c) ==
  /\ conn' = [conn EXCEPT ![a] = c]
  /\ UNCHANGED <<up, map, frozen, handing, handed, adopts, told, born, killed>>

(* Whether a send reaches the other end, or is refused as closed.          *)
AdopterOpen(a) == conn[a].a # "idle"
DonorOpen(a) == conn[a].d # "closed"

(***************************************************************************)
(* The donor.                                                              *)
(***************************************************************************)
CallOffHanding(a, then) ==  (* fault: thawed, and closed to new ones still *)
  /\ frozen' = [frozen EXCEPT ![From(a)] = {}]
  /\ conn' = [conn EXCEPT ![a].d = then, ![a].passing = {}]
  /\ UNCHANGED <<up, map, handing, handed, adopts, told, born, killed>>

(* Dropping Thaw: every session frozen so far thaws, and handing ends, all *)
(* before the adopter is told or hung up on.                               *)
CallOff(a, then) ==
  /\ frozen' = [frozen EXCEPT ![From(a)] = {}]
  /\ handing' = handing \ {From(a)}
  /\ conn' = [conn EXCEPT ![a].d = then, ![a].passing = {}]
  /\ UNCHANGED <<up, map, handed, adopts, told, born, killed>>

HangsUp(a) ==
  /\ conn[a].d \in {"refuse", "close"}
  /\ Goes(a, [conn[a] EXCEPT !.d = "closed",
                !.toA = IF conn[a].d = "refuse" /\ AdopterOpen(a) THEN Append(@, "Refuse") ELSE @])

(* donate, up to the list of sessions, under the map's lock.               *)
Refuses(a) ==
  /\ conn[a].d = "asked" /\ From(a) \in handing
  /\ Goes(a, [conn[a] EXCEPT !.d = "refuse", !.toD = Tail(@)])

Lists(a) ==
  /\ conn[a].d = "asked" /\ From(a) \notin handing
  /\ conn' = [conn EXCEPT ![a].d = "freeze", ![a].toD = Tail(@), ![a].offered = map[From(a)]]
  /\ handing' = handing \cup {From(a)}
  /\ UNCHANGED <<up, map, frozen, handed, adopts, told, born, killed>>

Freezes(a, s) ==
  /\ conn[a].d = "freeze" /\ s \in conn[a].offered \ frozen[From(a)]
  /\ frozen' = [frozen EXCEPT ![From(a)] = @ \cup {s}]
  /\ UNCHANGED <<up, map, handing, handed, conn, adopts, told, born, killed>>

(* One cannot freeze yet: the others thaw and all is tried again, until    *)
(* FREEZE_WAIT is over.                                                    *)
FreezeRetries(a) ==
  /\ conn[a].d = "freeze" /\ frozen[From(a)] \notin {{}, conn[a].offered}
  /\ frozen' = [frozen EXCEPT ![From(a)] = {}]
  /\ UNCHANGED <<up, map, handing, handed, conn, adopts, told, born, killed>>

FreezeFails(a) ==
  /\ conn[a].d = "freeze" /\ conn[a].offered # frozen[From(a)]
  /\ CallOff(a, "refuse")

(* offer: the number of sessions, each session, Done; then Ready is waited *)
(* for, and Commit goes out.                                               *)
Offers(a) ==
  /\ conn[a].d = "freeze" /\ conn[a].offered = frozen[From(a)] /\ AdopterOpen(a)
  /\ Goes(a, [conn[a] EXCEPT !.toA = Append(@, "Offer"), !.d = "send", !.passing = conn[a].offered])

SendsSession(a, s) ==
  /\ conn[a].d = "send" /\ s \in conn[a].passing /\ AdopterOpen(a)
  /\ Goes(a, [conn[a] EXCEPT !.toA = Append(@, s), !.passing = @ \ {s}])

SendsDone(a) ==
  /\ conn[a].d = "send" /\ conn[a].passing = {} /\ AdopterOpen(a)
  /\ Goes(a, [conn[a] EXCEPT !.toA = Append(@, "Done"), !.d = "ready"])

HearsReady(a) ==
  /\ conn[a].d = "ready" /\ conn[a].toD # <<>>
  /\ Goes(a, [conn[a] EXCEPT !.toD = Tail(@), !.d = "commit"])

Commits(a) ==
  /\ conn[a].d = "commit" /\ AdopterOpen(a)
  /\ Goes(a, [conn[a] EXCEPT !.toA = Append(@, "Commit"), !.d = "took"])

(* Before Commit went out, a send that is refused, the adopter's end, or   *)
(* FRAME_WAIT without Ready.                                               *)
OfferFails(a) ==
  /\ \/ conn[a].d = "freeze" /\ conn[a].offered = frozen[From(a)] /\ ~AdopterOpen(a)
     \/ conn[a].d \in {"send", "commit"} /\ ~AdopterOpen(a)
     \/ conn[a].d = "ready" /\ conn[a].toD = <<>>
  /\ CallOff(a, "refuse")

(* The adopter has the sessions: they are handed off and leave the map.    *)
(* handed is set before handing ends.                                      *)
LeavesFrozen(a) ==  (* fault: the donor goes on counting them as frozen    *)
  map' = [map EXCEPT ![From(a)] = @ \ conn[a].offered] /\ UNCHANGED frozen

Leaves(a) ==
  /\ map' = [map EXCEPT ![From(a)] = @ \ conn[a].offered]
  /\ frozen' = [frozen EXCEPT ![From(a)] = @ \ conn[a].offered]

HearsTook(a) ==
  /\ conn[a].d = "took" /\ conn[a].toD # <<>>
  /\ Leaves(a)
  /\ handed' = handed \cup {From(a)} /\ handing' = handing \ {From(a)}
  /\ conn' = [conn EXCEPT ![a].d = "closed", ![a].toD = Tail(@)]
  /\ UNCHANGED <<up, adopts, told, born, killed>>

EndOrTimeout(a) == conn[a].toD = <<>>  (* fault: FRAME_WAIT here as well   *)

(* No time limit past Commit: only the end of the adopter's side counts.   *)
HeardEnd(a) == conn[a].toD = <<>> /\ conn[a].shut

HearsNoTook(a) == conn[a].d = "took" /\ HeardEnd(a) /\ CallOff(a, "close")

Freezing(a) ==
  From(a) \in up /\ (FreezeRetries(a) \/ \E s \in Sessions : Freezes(a, s))

DonatesOn(a) ==
  /\ From(a) \in up
  /\ \/ Refuses(a) \/ Lists(a) \/ FreezeFails(a)
     \/ Offers(a) \/ SendsDone(a) \/ HearsReady(a) \/ Commits(a) \/ OfferFails(a)
     \/ HearsTook(a) \/ HearsNoTook(a) \/ HangsUp(a)
     \/ \E s \in Sessions : SendsSession(a, s)

(***************************************************************************)
(* The adopter.                                                            *)
(***************************************************************************)
(* vornd asks a to adopt from d; a connects and says hello.                *)
Adopt(a, d) ==
  /\ a # d /\ a \in up \ (handing \cup handed) /\ d \in up
  /\ conn[a].a = "idle" /\ conn[a].d = "closed" /\ adopts < MaxAdopts
  /\ VorndWaits # "nothing" => \A b \in Procs : conn[b].a = "idle"
  /\ VorndWaits = "close" => \A b \in Procs : conn[b].d = "closed"
  /\ adopts' = adopts + 1
  /\ told' = [told EXCEPT ![a] = "nothing"]
  /\ conn' = [conn EXCEPT ![a] = [Idle EXCEPT !.from = d, !.d = "asked", !.a = "offer",
                                              !.toD = <<"Hello">>, !.shut = FALSE]]
  /\ UNCHANGED <<up, map, frozen, handing, handed, born, killed>>

Heard(a, msg) == conn[a].toA # <<>> /\ Head(conn[a].toA) = msg

HearsOffer(a) ==
  /\ conn[a].a = "offer" /\ Heard(a, "Offer")
  /\ Goes(a, [conn[a] EXCEPT !.toA = Tail(@), !.a = "stage"])

(* As many sessions as were offered, then Done.                            *)
Stages(a, s) ==
  /\ conn[a].a = "stage" /\ Heard(a, s) /\ s \notin conn[a].staged \cup map[a]
  /\ Goes(a, [conn[a] EXCEPT !.toA = Tail(@), !.staged = @ \cup {s}])

HearsDone(a) ==
  /\ conn[a].a = "stage" /\ Heard(a, "Done")
  /\ Cardinality(conn[a].staged) = Cardinality(conn[a].offered)
  /\ Goes(a, [conn[a] EXCEPT !.toA = Tail(@), !.a = "ready"])

SendsReady(a) ==
  /\ conn[a].a = "ready" /\ DonorOpen(a)
  /\ Goes(a, [conn[a] EXCEPT !.toD = Append(@, "Ready"), !.a = "commit"])

HearsCommit(a) ==
  /\ conn[a].a = "commit" /\ Heard(a, "Commit")
  /\ Goes(a, [conn[a] EXCEPT !.toA = Tail(@), !.a = "took"])

SendsTook(a) ==
  /\ conn[a].a = "took" /\ DonorOpen(a)
  /\ Goes(a, [conn[a] EXCEPT !.toD = Append(@, "Took"), !.a = "start"])

(* Nothing more to hear: the donor's end is closed, or hangs.              *)
HeardDonorEnd(a) == conn[a].toA = <<>> /\ ~DonorOpen(a)

(* donor_gone: the end of the stream, and of the process that had it.      *)
DonorGone(a) == HeardDonorEnd(a) /\ ~conn[a].reset /\ From(a) \notin up

HearsDonorGone(a) ==
  /\ conn[a].a = "commit" /\ DonorGone(a)
  /\ Goes(a, [conn[a] EXCEPT !.a = "start"])

(* What take returns an error for.  Before Ready that is a Refuse, a frame *)
(* it cannot stage, or FRAME_WAIT without one.                             *)
TakeFails(a) ==
  \/ conn[a].a \in {"offer", "stage"}
  \/ conn[a].a \in {"ready", "took"} /\ ~DonorOpen(a)
  \/ conn[a].a = "commit" /\ Heard(a, "Refuse")
  \/ conn[a].a = "commit" /\ conn[a].toA = <<>> /\ ~DonorGone(a)

(* What was staged is let go, and the adopter hangs up.                    *)
Fails(a) ==
  /\ TakeFails(a)
  /\ Goes(a, [conn[a] EXCEPT !.a = "drain", !.staged = {}, !.shut = TRUE])

DrainedAtOnce(a) == {"failed"}  (* fault: the donor's end is not waited for *)

(* drain: until the donor closes, or FRAME_WAIT passes without a frame of  *)
(* its.  A "stalled" donor is one vornd is told of as of a "failed" one.   *)
Drained(a) == IF DonorOpen(a) THEN {"stalled"} ELSE {"failed"}

Reports(a) ==
  /\ conn[a].a = "drain"
  /\ \E why \in Drained(a) : told' = [told EXCEPT ![a] = why]
  /\ conn' = [conn EXCEPT ![a].a = "idle", ![a].toA = <<>>]
  /\ UNCHANGED <<up, map, frozen, handing, handed, adopts, born, killed>>

(* The rest of adopt: the sessions run here, and vornd is told.            *)
Starts(a) ==
  /\ conn[a].a = "start"
  /\ map' = [map EXCEPT ![a] = @ \cup conn[a].staged]
  /\ conn' = [conn EXCEPT ![a].a = "idle", ![a].staged = {}, ![a].shut = TRUE, ![a].toA = <<>>]
  /\ told' = [told EXCEPT ![a] = "adopted"]
  /\ killed' = killed \ conn[a].staged
  /\ UNCHANGED <<up, frozen, handing, handed, adopts, born>>

Adopter(a) ==
  /\ a \in up
  /\ \/ HearsOffer(a) \/ \E s \in Sessions : Stages(a, s)
     \/ HearsDone(a) \/ SendsReady(a) \/ HearsCommit(a) \/ SendsTook(a)
     \/ HearsDonorGone(a) \/ Fails(a) \/ Reports(a) \/ Starts(a)

(***************************************************************************)
(* Around them: new sessions, and the ends of processes.                   *)
(***************************************************************************)
ClosedToNewHanded(p) == p \in handed  (* fault: handing is not asked       *)

ClosedToNew(p) == p \in handing \cup handed

(* spawn asks under the lock it inserts under, as Lists does.              *)
Spawns(p, s) ==
  /\ p \in up /\ s \in Later \ born /\ ~ClosedToNew(p)
  /\ map' = [map EXCEPT ![p] = @ \cup {s}]
  /\ born' = born \cup {s}
  /\ UNCHANGED <<up, frozen, handing, handed, conn, adopts, told, killed>>

(* p is gone, with what it held and both ends it had of connections.       *)
Gone(p, resets) ==
  /\ up' = up \ {p}
  /\ map' = [map EXCEPT ![p] = {}] /\ frozen' = [frozen EXCEPT ![p] = {}]
  /\ handing' = handing \ {p}
  /\ conn' = [a \in Procs |->
       CASE a = p -> [conn[a] EXCEPT !.a = "idle", !.staged = {}, !.shut = TRUE]
         [] a # p /\ From(a) = p /\ DonorOpen(a) ->
              [conn[a] EXCEPT !.d = "closed", !.passing = {},
                              !.reset = resets /\ conn[a].toD # <<>>]
         [] OTHER -> conn[a]]
  /\ UNCHANGED <<handed, adopts, told, born>>

Dies(p) ==
  /\ p \in up
  /\ \E resets \in BOOLEAN : Gone(p, resets)
  /\ killed' = killed \cup map[p] \cup conn[p].staged

(* Handed over, a sessiond takes no connections and exits once its programs *)
(* are reaped, and no handoff is under way on a thread of its own.         *)
Stops(p) ==
  /\ p \in up \cap handed /\ conn[p].a = "idle"
  /\ \A a \in Procs : From(a) = p => ~DonorOpen(a)
  /\ Gone(p, FALSE)
  /\ UNCHANGED killed

HandoffInit ==
  /\ up = Procs /\ handing = {} /\ handed = {} /\ adopts = 0
  /\ map = HeldBy /\ born = UNION {HeldBy[p] : p \in Procs} /\ killed = {}
  /\ frozen = [p \in Procs |-> {}]
  /\ conn = [p \in Procs |-> Idle]
  /\ told = [p \in Procs |-> "nothing"]

HandoffNext ==
  \/ \E a \in Procs : Freezing(a) \/ DonatesOn(a) \/ Adopter(a) \/ \E d \in Procs : Adopt(a, d)
  \/ \E p \in Procs : Dies(p) \/ Stops(p) \/ \E s \in Sessions : Spawns(p, s)

(* Threads run; and FREEZE_WAIT ends the freezing, as FRAME_WAIT the wait  *)
(* for a frame.                                                            *)
HandoffFairness ==
  \A a \in Procs :
    /\ WF_handoffVars(DonatesOn(a))
    /\ WF_handoffVars(Adopter(a))

HandoffSpec == HandoffInit /\ [][HandoffNext]_handoffVars /\ HandoffFairness

(***************************************************************************)
(* What is required of it.                                                 *)
(***************************************************************************)
(* A session runs in one process: never read and recorded by two, nor by a *)
(* donor whose adopter is past the point of letting it go.                 *)
Live(p) == map[p] \ frozen[p]

OneRunner ==
  \A p, a \in up : p # a =>
    /\ Live(p) \cap Live(a) = {}
    /\ conn[a].a = "start" => Live(p) \cap conn[a].staged = {}

(* No handoff loses a session: it is lost only with a process that held it. *)
NeverLost ==
  \A s \in born \ killed : \E p \in up : s \in map[p] \cup conn[p].staged

(* "All or nothing": what vornd is told is so.  Adopted: the adopter has    *)
(* all that was offered, until it hands them on, and a donor that has heard *)
(* of it has none.  Failed: a donor that runs has them all, live, until the *)
(* next handoff ("reported only once they are all live again"); one that   *)
(* stalled has them all too, live once it has closed.                      *)
NextHandoff(a) == \E b \in Procs \ {a} : From(b) = From(a) /\ DonorOpen(b)

ToldIsTrue ==
  \A a \in up :
    LET p == From(a) offered == conn[a].offered IN
    /\ told[a] = "adopted" =>
         /\ a \notin handing \cup handed => offered \subseteq Live(a)
         /\ p \in up /\ ~DonorOpen(a) => offered \cap map[p] = {}
    /\ told[a] \in {"failed", "stalled"} /\ p \in up \ handed /\ ~NextHandoff(a) =>
         /\ offered \subseteq map[p]
         /\ told[a] = "failed" \/ ~DonorOpen(a) => offered \subseteq Live(p)

(* A handoff is over some time, and with it the pause of every session: the *)
(* wait for Took has no limit, but an adopter always answers or hangs up.  *)
HandingEnds == \A p \in Procs : p \in handing ~> p \notin handing /\ frozen[p] = {}

=============================================================================
