----------------------------- MODULE Lifecycle -----------------------------
(***************************************************************************)
(* The services extensions run as: started on their first call, leased     *)
(* while they are used, stopped when idle, when one more would pass the    *)
(* cap, or when asked, and held back after too many crashes.               *)
(* (extensions/src/lifecycle.rs, with its use in extensions/src/router.rs.)*)
(*                                                                         *)
(* Callers are tasks that run between each other's steps wherever the code *)
(* awaits or lets go of a lock.  A slot is an object of its own, shared by *)
(* the map and whoever works with it: stop takes it out of the map, and    *)
(* the next call of that key makes another.  Left out: what a service is   *)
(* asked, services held as another type, and a change of policy.           *)
(***************************************************************************)
EXTENDS Integers, FiniteSets, SequencesExt

CONSTANTS
  Keys,        (* ServiceKey                                               *)
  Callers,     (* tasks that call, stop or reap                            *)
  None,
  Cap,         (* Policy.cap                                               *)
  MaxCrashes,  (* Policy.max_crashes                                       *)
  MaxSlots,    (* bound: slots made                                        *)
  MaxStarts,   (* bound: services started                                  *)
  MaxExits     (* bound: services that end on their own                    *)

ASSUME LifecycleAssumption ==
  Cap \in Nat \ {0} /\ MaxCrashes \in Nat \ {0} /\ MaxSlots \in Nat

VARIABLES
  slots,     (* key |-> its slot, or None                                  *)
  slot,      (* slot |-> what it holds, who counts on it, who starts it    *)
  svc,       (* service |-> what became of it                              *)
  lru,       (* slots, the one used longest ago first                      *)
  room,      (* make_room, holding the map: who, and what it still stops   *)
  caller,    (* caller |-> where it is, with which slot and service        *)
  exits,
  late,      (* history: services leased while make_room chose them        *)
  strays     (* history: services that go on, whose slot a stop took out   *)
             (* of the map after still_wanted and before it held them      *)

lifecycleVars == <<slots, slot, svc, lru, room, caller, exits, late, strays>>

Slots == 1..MaxSlots
Services == 1..MaxStarts

ASSUME NoneAssumption ==
  None \notin Slots \cup Services \cup Callers \cup Keys /\ IsFiniteSet(Callers)

(* Closed for the cap, for idling, or when asked.                          *)
Closing == {"evicted", "idled", "stopped"}

NewSlot == [held |-> None, in_flight |-> 0, gate |-> None, crashes |-> 0]

NoRoom == [who |-> None, stops |-> <<>>]

At(pc, key, s, v) == [pc |-> pc, key |-> key, slot |-> s, service |-> v]

Away == At("away", None, None, None)

Is(c, pc) == caller[c].pc = pc

Leased(s) == {c \in Callers : Is(c, "using") /\ caller[c].slot = s}

LifecycleTypeOK ==
  /\ \A k \in Keys : slots[k] \in Slots \cup {None}
  /\ \A s \in Slots : /\ slot[s].held \in Services \cup {None}
                      /\ slot[s].crashes \in 0..MaxCrashes
  /\ \A v \in Services : svc[v] \in {"none", "up", "orphaned", "ended"} \cup Closing
  /\ \A k, l \in Keys : k # l /\ slots[k] # None => slots[k] # slots[l]

MapFree == room.who = None

Runs(s) == slot[s].held # None /\ svc[slot[s].held] = "up"

Used(s) == Append(SelectSeq(lru, LAMBDA x : x # s), s)

InMap == {slots[k] : k \in Keys} \ {None}

(***************************************************************************)
(* A slot lives while the map or a caller has it; the last to let it go    *)
(* drops a service it still holds.  Nothing stops that one: dropping a     *)
(* Child does not, and its dispatch task keeps its input open while it     *)
(* runs, so it runs on, an orphan.                                         *)
(***************************************************************************)
Gone(s) == s \notin InMap /\ \A c \in Callers : caller'[c].slot # s

(* The slots and services are st and sv as a caller lets go of s.          *)
Releases(s, st, sv, order) ==
  IF Gone(s)
  THEN /\ slot' = [st EXCEPT ![s] = NewSlot]
       /\ lru' = SelectSeq(lru, LAMBDA x : x # s)
       /\ svc' = IF st[s].held # None /\ sv[st[s].held] = "up"
                 THEN [sv EXCEPT ![st[s].held] = "orphaned"] ELSE sv
  ELSE slot' = st /\ lru' = order /\ svc' = sv

(* What s holds is taken, and closed for the reason given.                 *)
Emptied(s) == [slot EXCEPT ![s].held = None]

Closes(s, why) == IF Runs(s) THEN [svc EXCEPT ![slot[s].held] = why] ELSE svc

LeavesGate(c, st) == [st EXCEPT ![caller[c].slot].gate = IF @ = c THEN None ELSE @]

Goes(c) == caller' = [caller EXCEPT ![c] = Away]

(* A lease of what the slot holds: counted under the slot's lock.          *)
LeaseUncounted(c) ==  (* fault: the lease is not counted *)
  /\ Runs(caller[c].slot)
  /\ LET s == caller[c].slot IN
     /\ slot' = [slot EXCEPT ![s].gate = IF @ = c THEN None ELSE @]
     /\ caller' = [caller EXCEPT ![c] = At("using", @.key, s, slot[s].held)]
     /\ late' = late
     /\ lru' = Used(s)
  /\ UNCHANGED <<slots, svc, room, exits, strays>>

Lease(c) ==
  /\ Runs(caller[c].slot)
  /\ LET s == caller[c].slot IN
     /\ slot' = [slot EXCEPT ![s].in_flight = @ + 1, ![s].gate = IF @ = c THEN None ELSE @]
     /\ caller' = [caller EXCEPT ![c] = At("using", @.key, s, slot[s].held)]
     /\ late' = IF s \in ToSet(room.stops) THEN late \cup {slot[s].held} ELSE late
     /\ lru' = Used(s)
  /\ UNCHANGED <<slots, svc, room, exits, strays>>

(* lease_of of a service that ended: a crash, counted.                     *)
Counts(s) ==
  IF slot[s].held # None /\ ~Runs(s)
  THEN [slot EXCEPT ![s].held = None, ![s].crashes = @ + 1] ELSE slot

(***************************************************************************)
(* get_or_start.                                                           *)
(***************************************************************************)
FreshSlots == Slots \ (InMap \cup {caller[c].slot : c \in Callers})

(* The map's slot, made if there is none.                                  *)
Calls(c, k) ==
  /\ Is(c, "away") /\ MapFree
  /\ \/ /\ slots[k] # None
        /\ caller' = [caller EXCEPT ![c] = At("waiting", k, slots[k], None)]
        /\ UNCHANGED <<slots, lru>>
     \/ /\ slots[k] = None /\ FreshSlots # {}
        /\ LET s == CHOOSE s \in FreshSlots : TRUE IN
           /\ slots' = [slots EXCEPT ![k] = s]
           /\ lru' = Append(lru, s)
           /\ caller' = [caller EXCEPT ![c] = At("waiting", k, s, None)]
  /\ UNCHANGED <<slot, svc, room, exits, late, strays>>

EntersAtOnce(c) ==  (* fault: starts are not serialised *)
  /\ Is(c, "waiting")
  /\ caller' = [caller EXCEPT ![c].pc = "looking"]
  /\ UNCHANGED <<slots, slot, svc, lru, room, exits, late, strays>>

Enters(c) ==
  /\ Is(c, "waiting") /\ slot[caller[c].slot].gate = None
  /\ slot' = [slot EXCEPT ![caller[c].slot].gate = c]
  /\ caller' = [caller EXCEPT ![c].pc = "looking"]
  /\ UNCHANGED <<slots, svc, lru, room, exits, late, strays>>

Finds(c) == Is(c, "looking") /\ Lease(c)

(* It lets go of the gate and the slot, with an error for its caller.      *)
Fails(c, st) ==
  /\ Goes(c) /\ Releases(caller[c].slot, LeavesGate(c, st), svc, lru)
  /\ UNCHANGED <<slots, room, exits, late, strays>>

(* Nothing runs: crashes count against the budget, then make_room takes    *)
(* the map and chooses, among the services that run, the idle ones used    *)
(* longest ago until one more fits.                                        *)
UsedBefore(s, t) == \E i, j \in DOMAIN lru : i < j /\ lru[i] = s /\ lru[j] = t

(* The n used longest ago of some slots, in that order.                    *)
Oldest(some, n) ==
  {q \in [1..n -> some] :
     \A i \in 1..n, s \in some : (\A j \in 1..i : q[j] # s) => UsedBefore(q[i], s)}

Others(key) == {s \in InMap : slots[key] # s /\ Runs(s)}

Over(key) == Cardinality(Others(key)) + 1 - Cap

VictimsInUse(key) ==  (* fault: those in use are chosen too *)
  Oldest(Others(key), IF Over(key) < 0 THEN 0 ELSE Over(key))

Victims(key) ==
  LET idle == {s \in Others(key) : slot[s].in_flight = 0} IN
  Oldest(idle, IF Over(key) < 0 THEN 0
               ELSE IF Over(key) > Cardinality(idle) THEN Cardinality(idle) ELSE Over(key))

WithinBudgetLate(s, st) == st[s].crashes <= MaxCrashes  (* fault: one crash too many *)

WithinBudget(s, st) == st[s].crashes < MaxCrashes

HeldBack(c) ==
  /\ Is(c, "looking") /\ ~Runs(caller[c].slot)
  /\ LET st == Counts(caller[c].slot) IN
     ~WithinBudget(caller[c].slot, st) /\ Fails(c, st)

MakesRoom(c) ==
  /\ Is(c, "looking") /\ ~Runs(caller[c].slot) /\ MapFree
  /\ LET st == Counts(caller[c].slot) IN
     WithinBudget(caller[c].slot, st) /\ slot' = st
  /\ \E q \in Victims(caller[c].key) : room' = [who |-> c, stops |-> q]
  /\ caller' = [caller EXCEPT ![c].pc = "starting"]
  /\ UNCHANGED <<slots, svc, lru, exits, late, strays>>

(* One of them, taken whatever it has become since.                        *)
Evicts ==
  /\ room.stops # <<>>
  /\ slot' = Emptied(Head(room.stops)) /\ svc' = Closes(Head(room.stops), "evicted")
  /\ room' = [room EXCEPT !.stops = Tail(@)]
  /\ UNCHANGED <<slots, lru, caller, exits, late, strays>>

MadeRoom ==
  /\ room.who # None /\ room.stops = <<>> /\ room' = NoRoom
  /\ UNCHANGED <<slots, slot, svc, lru, caller, exits, late, strays>>

Unstarted == {v \in Services : svc[v] = "none"}

Started(c) ==
  /\ Is(c, "starting") /\ room.who # c /\ Unstarted # {}
  /\ LET v == CHOOSE v \in Unstarted : TRUE IN
     /\ svc' = [svc EXCEPT ![v] = "up"]
     /\ caller' = [caller EXCEPT ![c].pc = "started", ![c].service = v]
  /\ UNCHANGED <<slots, slot, lru, room, exits, late, strays>>

StartFails(c) == Is(c, "starting") /\ room.who # c /\ Fails(c, slot)

(* Whether the map still has the slot: asked, and answered, before the     *)
(* slot is given the service.                                              *)
WantedUnasked(c) ==  (* fault: the map is not asked *)
  /\ Is(c, "started")
  /\ caller' = [caller EXCEPT ![c].pc = "wanted"]
  /\ UNCHANGED <<slots, slot, svc, lru, room, exits, late, strays>>

Wanted(c) ==
  /\ Is(c, "started") /\ MapFree /\ caller[c].slot \in InMap
  /\ caller' = [caller EXCEPT ![c].pc = "wanted"]
  /\ UNCHANGED <<slots, slot, svc, lru, room, exits, late, strays>>

Unwanted(c) ==
  /\ Is(c, "started") /\ MapFree /\ caller[c].slot \notin InMap
  /\ Goes(c)
  /\ Releases(caller[c].slot, LeavesGate(c, slot),
              [svc EXCEPT ![caller[c].service] = IF @ = "up" THEN "stopped" ELSE @], lru)
  /\ UNCHANGED <<slots, room, exits, late, strays>>

Holds(c) ==
  /\ Is(c, "wanted")
  /\ LET s == caller[c].slot IN
     /\ slot' = [slot EXCEPT ![s].held = caller[c].service, ![s].in_flight = @ + 1,
                             ![s].gate = IF @ = c THEN None ELSE @]
     /\ lru' = Used(s)
  /\ caller' = [caller EXCEPT ![c].pc = "using"]
  /\ UNCHANGED <<slots, svc, room, exits, late, strays>>

(***************************************************************************)
(* get: a lease if it runs.                                                *)
(***************************************************************************)
Peeks(c, k) ==
  /\ Is(c, "away") /\ MapFree /\ slots[k] # None
  /\ caller' = [caller EXCEPT ![c] = At("peeking", k, slots[k], None)]
  /\ UNCHANGED <<slots, slot, svc, lru, room, exits, late, strays>>

Gets(c) == Is(c, "peeking") /\ Lease(c)

GetsNone(c) ==
  /\ Is(c, "peeking") /\ ~Runs(caller[c].slot)
  /\ Fails(c, Counts(caller[c].slot))

(* The lease is dropped, with the slot.                                    *)
Drops(c) ==
  /\ Is(c, "using")
  /\ LET s == caller[c].slot IN
     /\ Goes(c)
     /\ Releases(s, [slot EXCEPT ![s].in_flight = IF @ > 0 THEN @ - 1 ELSE 0], svc, Used(s))
  /\ late' = {v \in late : \E d \in Callers : caller'[d].service = v}
  /\ UNCHANGED <<slots, room, exits, strays>>

(***************************************************************************)
(* stop_where, of one key: out of the map, then what it holds is taken.    *)
(* A call that timed out stops its service so.                             *)
(***************************************************************************)
Unmaps(c, k) ==
  /\ Is(c, "away") /\ MapFree /\ slots[k] # None
  /\ slots' = [slots EXCEPT ![k] = None]
  /\ caller' = [caller EXCEPT ![c] = At("stopping", k, slots[k], None)]
  /\ strays' = strays \cup {caller[d].service : d \in {e \in Callers : /\ Is(e, "wanted")
                                                                      /\ caller[e].slot = slots[k]}}
  /\ UNCHANGED <<slot, svc, lru, room, exits, late>>

Takes(c) ==
  /\ Is(c, "stopping") /\ Goes(c)
  /\ Releases(caller[c].slot, Emptied(caller[c].slot), Closes(caller[c].slot, "stopped"), lru)
  /\ UNCHANGED <<slots, room, exits, late, strays>>

(* reap: a service that has been idle for as long as the policy says.      *)
Reaps(s) ==
  /\ MapFree /\ s \in InMap /\ Runs(s) /\ slot[s].in_flight = 0
  /\ slot' = Emptied(s) /\ svc' = Closes(s, "idled")
  /\ UNCHANGED <<slots, lru, room, caller, exits, late, strays>>

(* A service ends on its own, as an orphan may too, or as it was closed; a *)
(* crash gets too old to count.                                            *)
Exits(v) ==
  /\ svc[v] \in {"up", "orphaned"} /\ exits < MaxExits
  /\ svc' = [svc EXCEPT ![v] = "ended"] /\ exits' = exits + 1 /\ strays' = strays \ {v}
  /\ UNCHANGED <<slots, slot, lru, room, caller, late>>

Ends(v) ==
  /\ svc[v] \in Closing /\ svc' = [svc EXCEPT ![v] = "ended"] /\ strays' = strays \ {v}
  /\ UNCHANGED <<slots, slot, lru, room, caller, exits, late>>

Forgets(s) ==
  /\ slot[s].crashes > 0 /\ slot' = [slot EXCEPT ![s].crashes = @ - 1]
  /\ UNCHANGED <<slots, svc, lru, room, caller, exits, late, strays>>

LifecycleInit ==
  /\ slots = [k \in Keys |-> None] /\ slot = [s \in Slots |-> NewSlot]
  /\ svc = [v \in Services |-> "none"] /\ lru = <<>> /\ room = NoRoom
  /\ caller = [c \in Callers |-> Away] /\ exits = 0 /\ late = {} /\ strays = {}

Proceeds(c) ==
  \/ Enters(c) \/ Finds(c) \/ HeldBack(c) \/ MakesRoom(c)
  \/ Started(c) \/ StartFails(c) \/ Wanted(c) \/ Unwanted(c) \/ Holds(c)
  \/ Gets(c) \/ GetsNone(c) \/ Drops(c) \/ Takes(c)

LifecycleNext ==
  \/ \E c \in Callers, k \in Keys : Calls(c, k) \/ Peeks(c, k) \/ Unmaps(c, k)
  \/ \E c \in Callers : Proceeds(c)
  \/ Evicts \/ MadeRoom
  \/ \E s \in Slots : Reaps(s) \/ Forgets(s)
  \/ \E v \in Services : Exits(v) \/ Ends(v)

LifecycleSpec == LifecycleInit /\ [][LifecycleNext]_lifecycleVars

(***************************************************************************)
(* What must hold.                                                         *)
(***************************************************************************)
(* While a service is leased its slot counts every lease, its idle time    *)
(* does not stop it, and no one who lets its slot go takes it along.       *)
LeaseHolds ==
  \A c \in Callers : Is(c, "using") =>
    /\ slot[caller[c].slot].in_flight = Cardinality(Leased(caller[c].slot))
    /\ svc[caller[c].service] \notin {"idled", "orphaned"}

(* The cap does not stop it either, unless make_room had chosen it before  *)
(* it was leased.                                                          *)
OnlyTheChosenEvicted ==
  \A c \in Callers : Is(c, "using") /\ svc[caller[c].service] = "evicted" =>
    caller[c].service \in late

(* As the code has it, though, a service in use is never evicted.          *)
LeasedNeverEvicted ==
  \A c \in Callers : Is(c, "using") => svc[caller[c].service] # "evicted"

Starting(s) ==
  {caller[c].service : c \in {d \in Callers : /\ caller[d].slot = s
                                              /\ Is(d, "started") \/ Is(d, "wanted")}}

(* A stop of what s holds can come, or is on its way.                      *)
Stoppable(s) == s \in InMap \/ \E c \in Callers : Is(c, "stopping") /\ caller[c].slot = s

(* A slot is behind one running program at most, and every program that    *)
(* runs is on its way to its slot or held where a stop, the reaper or the  *)
(* cap finds it.  None is left that nothing would ever stop, but for those *)
(* a stop overtook between still_wanted and the slot (lifecycle.rs:251).   *)
OneOwned ==
  LET behind(s) == {v \in Starting(s) \cup {slot[s].held} : v # None /\ svc[v] = "up"}
  IN  /\ \A s \in Slots : Cardinality(behind(s)) <= 1
      /\ \A v \in Services \ strays :
           /\ svc[v] = "up" => \E s \in Slots : v \in Starting(s) \/ (slot[s].held = v /\ Stoppable(s))
           /\ svc[v] # "orphaned"
=============================================================================
