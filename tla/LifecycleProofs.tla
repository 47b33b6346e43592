-------------------------- MODULE LifecycleProofs --------------------------
(***************************************************************************)
(* Proofs about Lifecycle, for any number of keys, callers, slots and      *)
(* services, any cap and any crash budget.                                 *)
(*                                                                         *)
(* The argument: a task between looking for a service and holding one has  *)
(* its slot's gate (GateHeld), and the slot is empty once it starts one    *)
(* (EmptyWhileStarting), so no service is in two places (Apart) and every  *)
(* one that runs is in one (NothingLost).  Steps are of four kinds, each   *)
(* shown once to keep the invariant: a task goes on (GoesOn), gets its     *)
(* lease (Serves), lets its slot go (LetsGo), or is not involved (Ebbs).   *)
(* A second invariant, OwnedInv, follows what a stop can still find, and a *)
(* third, ChoiceInv, whom make_room chose.                                 *)
(***************************************************************************)
EXTENDS Lifecycle, FiniteSetTheorems, TLAPS

States == {"none", "up", "orphaned", "ended"} \cup Closing

Steps == {"away", "waiting", "looking", "starting", "started", "wanted", "using",
          "peeking", "stopping"}

Gated == {"looking", "starting", "started", "wanted"}
Emptying == {"starting", "started", "wanted"}
Carrying == {"started", "wanted"}
Serving == {"started", "wanted", "using"}

Pc(c) == caller[c].pc
SlotOf(c) == caller[c].slot
Carried(c) == caller[c].service

Live == (InMap \cup {caller[c].slot : c \in Callers}) \ {None}

SlotType == [held : Services \cup {None}, in_flight : Nat,
             gate : Callers \cup {None}, crashes : 0..MaxCrashes]

TaskType == [pc : Steps, key : Keys \cup {None}, slot : Slots \cup {None},
             service : Services \cup {None}]

(* What the variables range over.                                          *)
Typed ==
  /\ slots \in [Keys -> Slots \cup {None}]
  /\ slot \in [Slots -> SlotType]
  /\ svc \in [Services -> States]
  /\ caller \in [Callers -> TaskType]

(* A task that works has a slot, and what it carries was started.          *)
Placed ==
  /\ \A c \in Callers : SlotOf(c) = None <=> Pc(c) = "away"
  /\ \A c \in Callers : Pc(c) \in Serving => Carried(c) \in Services /\ svc[Carried(c)] # "none"
  /\ \A s \in Slots : slot[s].held # None => svc[slot[s].held] # "none"

OneSlotEach == \A k, l \in Keys : k # l /\ slots[k] # None => slots[k] # slots[l]

(* Whoever starts a service holds its slot's gate; the slot is empty, and  *)
(* its crashes are within the budget.                                      *)
GateHeld == \A c \in Callers : Pc(c) \in Gated => slot[SlotOf(c)].gate = c

EmptyWhileStarting ==
  /\ \A c \in Callers : Pc(c) \in Emptying =>
       slot[SlotOf(c)].held = None /\ slot[SlotOf(c)].crashes < MaxCrashes
  /\ \A s \in Slots : slot[s].held # None => slot[s].crashes < MaxCrashes

(* No service is in two places.                                            *)
Apart ==
  /\ \A s, t \in Slots : s # t /\ slot[s].held # None => slot[s].held # slot[t].held
  /\ \A c, d \in Callers : c # d /\ Pc(c) \in Carrying /\ Pc(d) \in Carrying =>
       Carried(c) # Carried(d)
  /\ \A c \in Callers, s \in Slots : Pc(c) \in Carrying => slot[s].held # Carried(c)

(* A slot nobody has holds nothing, and a program that runs is held or     *)
(* being carried to its slot.                                              *)
NothingLost ==
  /\ \A s \in Slots : slot[s].held # None => s \in Live
  /\ \A v \in Services : svc[v] = "up" =>
       \/ \E s \in Slots : slot[s].held = v
       \/ \E c \in Callers : Pc(c) \in Carrying /\ Carried(c) = v

Counted == \A s \in Slots : slot[s].in_flight = Cardinality(Leased(s))

(* A leased service is its slot's, or was taken from it and ends.          *)
LeasedHeld ==
  /\ \A c \in Callers : Pc(c) = "using" =>
       slot[SlotOf(c)].held = Carried(c) \/ svc[Carried(c)] # "up"
  /\ \A c \in Callers : Pc(c) \in Serving => svc[Carried(c)] \notin {"idled", "orphaned"}

LifecycleInv ==
  /\ Typed /\ Placed /\ OneSlotEach /\ GateHeld /\ EmptyWhileStarting
  /\ Apart /\ NothingLost /\ Counted /\ LeasedHeld

USE LifecycleAssumption, NoneAssumption

LEMMA InitInv == LifecycleInit => LifecycleInv
<1> SUFFICES ASSUME LifecycleInit PROVE LifecycleInv
  OBVIOUS
<1> USE DEF LifecycleInit, NewSlot, Away, At, Pc, SlotOf, Carried
<1>1. Typed
  BY DEF Typed, SlotType, TaskType, States, Steps
<1>2. Placed /\ OneSlotEach /\ GateHeld /\ EmptyWhileStarting
  BY DEF Placed, Serving, OneSlotEach, GateHeld, Gated, EmptyWhileStarting, Emptying
<1>3. Apart /\ NothingLost /\ LeasedHeld
  BY DEF Apart, NothingLost, LeasedHeld, Carrying, Serving
<1>4. Counted
  <2>1. \A s \in Slots : Leased(s) = {}
    BY DEF Leased, Is
  <2> QED  BY <2>1, FS_EmptySet DEF Counted
<1> QED  BY <1>1, <1>2, <1>3, <1>4 DEF LifecycleInv

LEMMA LeasedFinite == \A s \in Slots : IsFiniteSet(Leased(s))
BY FS_Subset DEF Leased

(***************************************************************************)
(* A task lets go of its slot: what the slot holds may be taken, never     *)
(* while it runs on, and another's gate stays.                             *)
(***************************************************************************)
LetsGo(c, s) ==
  /\ InMap' = InMap /\ slots' = slots /\ Goes(c)
  /\ \A t \in Slots : t # s => slot'[t] = slot[t]
  /\ slot'[s].held = slot[s].held \/ (slot'[s].held = None /\ svc'[slot[s].held] # "up")
  /\ slot'[s].held # None => s \in Live'
  /\ \A d \in Callers : d # c /\ SlotOf(d) = s => /\ slot[s].gate = d => slot'[s].gate = d
                                                  /\ slot[s].held = None => slot'[s].crashes = slot[s].crashes
  /\ slot'[s].held # None => slot'[s].crashes = slot[s].crashes
  /\ slot'[s].in_flight = Cardinality(Leased(s) \ {c})
  /\ \A v \in Services :
       \/ svc'[v] = svc[v]
       \/ svc[v] = "up" /\ svc'[v] = "stopped"
       \/ svc[v] = "up" /\ svc'[v] = "orphaned" /\ v = slot[s].held
          /\ \A d \in Callers : d # c => SlotOf(d) # s
  /\ Pc(c) \in Carrying => svc'[Carried(c)] # "up"

LEMMA LetGo ==
  ASSUME LifecycleInv, Typed', NEW c \in Callers, NEW s \in Slots, SlotOf(c) = s, LetsGo(c, s)
  PROVE  LifecycleInv'
<1>a. Typed /\ Placed /\ OneSlotEach /\ GateHeld /\ EmptyWhileStarting /\ Apart /\ NothingLost
      /\ Counted /\ LeasedHeld
  BY DEF LifecycleInv
<1>c. /\ \A d \in Callers : d # c => caller'[d] = caller[d]
      /\ caller'[c] = Away
  BY <1>a DEF LetsGo, Goes, Typed
<1>d. caller'[c].pc = "away" /\ caller'[c].slot = None
  BY <1>c DEF Away, At
<1>f. /\ \A t \in Slots : t # s => slot'[t] = slot[t]
      /\ slot'[s].held = slot[s].held \/ (slot'[s].held = None /\ svc'[slot[s].held] # "up")
      /\ slot'[s].held # None => slot'[s].crashes = slot[s].crashes
  BY DEF LetsGo
<1>g. \A v \in Services : \/ svc'[v] = svc[v]
                          \/ svc[v] = "up" /\ svc'[v] \in {"stopped", "orphaned"}
  BY DEF LetsGo
<1>h. /\ \A d \in Callers : caller[d].slot \in Slots \cup {None} /\ caller[d].service \in Services \cup {None}
      /\ \A t \in Slots : slot[t].held \in Services \cup {None} /\ slot'[t].held \in Services \cup {None}
      /\ None \notin Slots /\ None \notin Services /\ None \notin Callers
  BY <1>a DEF Typed, SlotType, TaskType
<1> USE <1>c, <1>d, <1>f, <1>g, <1>h DEF Pc, SlotOf, Carried
<1>1. Placed'
  <2>1. \A d \in Callers : caller'[d].slot = None <=> caller'[d].pc = "away"
    BY <1>a DEF Placed
  <2>2. \A d \in Callers : caller'[d].pc \in Serving => caller'[d].service \in Services /\ svc'[caller'[d].service] # "none"
    BY <1>a DEF Placed, Serving
  <2>3. \A t \in Slots : slot'[t].held # None => svc'[slot'[t].held] # "none"
    BY <1>a DEF Placed
  <2> QED  BY <2>1, <2>2, <2>3 DEF Placed
<1>2. OneSlotEach'
  BY <1>a DEF LetsGo, OneSlotEach
<1>3. GateHeld'
  <2> SUFFICES ASSUME NEW d \in Callers, d # c, caller[d].pc \in Gated
               PROVE  slot'[caller[d].slot].gate = d
    BY DEF GateHeld, Gated
  <2>1. slot[caller[d].slot].gate = d /\ caller[d].slot \in Slots
    BY <1>a DEF GateHeld, Placed, Gated
  <2> QED  BY <2>1 DEF LetsGo
<1>4. EmptyWhileStarting'
  <2>1. ASSUME NEW d \in Callers, d # c, caller[d].pc \in Emptying
        PROVE  slot'[caller[d].slot].held = None /\ slot'[caller[d].slot].crashes < MaxCrashes
    <3>1. /\ slot[caller[d].slot].held = None /\ slot[caller[d].slot].crashes < MaxCrashes
          /\ caller[d].slot \in Slots
      BY <1>a, <2>1 DEF EmptyWhileStarting, Placed, Emptying
    <3> QED  BY <2>1, <3>1 DEF LetsGo
  <2>2. \A t \in Slots : slot'[t].held # None => slot'[t].crashes < MaxCrashes
    BY <1>a DEF EmptyWhileStarting
  <2> QED  BY <2>1, <2>2 DEF EmptyWhileStarting, Emptying
<1>5. Apart'
  <2>1. \A t, u \in Slots : t # u /\ slot'[t].held # None => slot'[t].held # slot'[u].held
    BY <1>a DEF Apart
  <2>2. /\ \A d, e \in Callers : d # e /\ caller'[d].pc \in Carrying /\ caller'[e].pc \in Carrying =>
             caller'[d].service # caller'[e].service
        /\ \A d \in Callers, t \in Slots : caller'[d].pc \in Carrying => slot'[t].held # caller'[d].service
    BY <1>a DEF Apart, Carrying, Placed, Serving
  <2> QED  BY <2>1, <2>2 DEF Apart
<1>6. NothingLost'
  <2>1. \A t \in Slots : slot'[t].held # None => t \in Live'
    <3> SUFFICES ASSUME NEW t \in Slots, t # s, slot'[t].held # None PROVE t \in Live'
      BY DEF LetsGo
    <3>1. t \in Live
      BY <1>a DEF NothingLost
    <3> QED  BY <3>1 DEF Live, LetsGo
  <2>2. ASSUME NEW v \in Services, svc'[v] = "up"
        PROVE  \/ \E t \in Slots : slot'[t].held = v
               \/ \E d \in Callers : caller'[d].pc \in Carrying /\ caller'[d].service = v
    <3>1. svc[v] = "up"
      BY <2>2
    <3>2. CASE \E t \in Slots : slot[t].held = v
      BY <2>2, <3>2
    <3>3. CASE \E d \in Callers : caller[d].pc \in Carrying /\ caller[d].service = v
      BY <2>2, <3>3 DEF LetsGo
    <3> QED  BY <1>a, <3>1, <3>2, <3>3 DEF NothingLost
  <2> QED  BY <2>1, <2>2 DEF NothingLost
<1>7. Counted'
  <2>1. \A t \in Slots : Leased(t)' = IF t = s THEN Leased(t) \ {c} ELSE Leased(t)
    BY DEF Leased, Is
  <2>2. slot'[s].in_flight = Cardinality(Leased(s) \ {c})
    BY DEF LetsGo
  <2>3. \A t \in Slots : slot[t].in_flight = Cardinality(Leased(t))
    BY <1>a DEF Counted
  <2>4. ASSUME NEW t \in Slots PROVE slot'[t].in_flight = Cardinality(Leased(t)')
    <3>1. CASE t = s   BY <2>1, <2>2, <3>1
    <3>2. CASE t # s   BY <2>1, <2>3, <3>2
    <3> QED  BY <3>1, <3>2
  <2> QED  BY <2>4 DEF Counted
<1>8. LeasedHeld'
  <2>1. ASSUME NEW d \in Callers, d # c, caller[d].pc = "using"
        PROVE  slot'[caller[d].slot].held = caller[d].service \/ svc'[caller[d].service] # "up"
    <3>1. /\ slot[caller[d].slot].held = caller[d].service \/ svc[caller[d].service] # "up"
          /\ caller[d].slot \in Slots /\ caller[d].service \in Services /\ svc[caller[d].service] # "none"
      BY <1>a, <2>1 DEF LeasedHeld, Placed, Serving
    <3> QED  BY <3>1
  <2>2. ASSUME NEW d \in Callers, d # c, caller[d].pc \in Serving
        PROVE  svc'[caller[d].service] \notin {"idled", "orphaned"}
    <3>1. /\ svc[caller[d].service] \notin {"idled", "orphaned"}
          /\ caller[d].slot \in Slots /\ caller[d].service \in Services
      BY <1>a, <2>2 DEF LeasedHeld, Placed, Serving
    <3>2. svc[caller[d].service] # "up" \/ caller[d].service # slot[s].held \/ caller[d].slot = s
      BY <1>a, <2>2, <3>1 DEF LeasedHeld, Apart, Serving, Carrying
    <3> QED  BY <2>2, <3>1, <3>2 DEF LetsGo
  <2> QED  BY <2>1, <2>2 DEF LeasedHeld, Serving
<1> QED  BY <1>1, <1>2, <1>3, <1>4, <1>5, <1>6, <1>7, <1>8 DEF LifecycleInv

(* What Releases is given: the slots and services as the task leaves them. *)
Left(c, s, st, sv) ==
  /\ st \in [Slots -> SlotType] /\ sv \in [Services -> States]
  /\ \A t \in Slots : t # s => st[t] = slot[t]
  /\ st[s].held = slot[s].held \/ (st[s].held = None /\ sv[slot[s].held] # "up")
  /\ st[s].gate = slot[s].gate \/ slot[s].gate = c
  /\ slot[s].held = None \/ st[s].held # None => st[s].crashes = slot[s].crashes
  /\ st[s].in_flight = Cardinality(Leased(s) \ {c})
  /\ \A v \in Services : sv[v] = svc[v] \/ (svc[v] = "up" /\ sv[v] = "stopped")
  /\ Pc(c) \in Carrying => sv[Carried(c)] # "up"

LEMMA ReleaseKeeps ==
  ASSUME LifecycleInv, NEW c \in Callers, NEW s \in Slots, SlotOf(c) = s,
         NEW st, NEW sv, NEW order, Left(c, s, st, sv), Releases(s, st, sv, order),
         Goes(c), slots' = slots
  PROVE  LifecycleInv'
<1>a. Typed /\ Placed
  BY DEF LifecycleInv
<1>b. /\ st \in [Slots -> SlotType] /\ sv \in [Services -> States]
      /\ None \notin Slots /\ None \notin Services /\ None \notin Callers
  BY DEF Left
<1>c. InMap' = InMap
  BY DEF InMap
<1>d. NewSlot \in SlotType
  BY DEF NewSlot, SlotType
<1>1. caller' \in [Callers -> TaskType]
  BY <1>a DEF Typed, Goes, Away, At, Steps, TaskType
<1>2. CASE Gone(s)
  <2>1. /\ slot' = [st EXCEPT ![s] = NewSlot]
        /\ svc' = IF st[s].held # None /\ sv[st[s].held] = "up"
                  THEN [sv EXCEPT ![st[s].held] = "orphaned"] ELSE sv
    BY <1>2 DEF Releases
  <2>2. \A d \in Callers : d # c => caller[d].slot # s
    BY <1>2, <1>a DEF Gone, Goes, Typed
  <2>3. Leased(s) \ {c} = {}
    BY <2>2 DEF Leased
  <2>4. /\ slot'[s] = NewSlot /\ \A t \in Slots : t # s => slot'[t] = slot[t]
        /\ slot' \in [Slots -> SlotType]
    BY <1>b, <1>d, <2>1 DEF Left
  <2>5. svc' \in [Services -> States]
    BY <1>b, <2>1 DEF States, Closing
  <2>6. /\ slot'[s].held = None /\ slot'[s].in_flight = Cardinality(Leased(s) \ {c})
    BY <2>3, <2>4, FS_EmptySet DEF NewSlot
  <2>7. slot[s].held # None => svc'[slot[s].held] # "up"
    BY <1>a, <1>b, <2>1 DEF Left, SlotType, Typed
  <2>8. \A v \in Services : \/ svc'[v] = svc[v]
                            \/ svc[v] = "up" /\ svc'[v] = "stopped"
                            \/ svc[v] = "up" /\ svc'[v] = "orphaned" /\ v = slot[s].held
    BY <1>a, <1>b, <2>1 DEF Left, SlotType, Typed
  <2>9. Pc(c) \in Carrying => svc'[Carried(c)] # "up"
    BY <1>a, <1>b, <2>1 DEF Left, Placed, Carrying, Serving
  <2>10. LetsGo(c, s)
    BY <1>c, <2>2, <2>4, <2>6, <2>7, <2>8, <2>9 DEF LetsGo, SlotOf
  <2> QED  BY <1>a, <1>1, <2>4, <2>5, <2>10, LetGo DEF Typed
<1>3. CASE ~Gone(s)
  <2>1. slot' = st /\ svc' = sv
    BY <1>3 DEF Releases
  <2>2. s \in Live'
    BY <1>3, <1>c DEF Gone, Live, SlotOf
  <2>3. LetsGo(c, s)
    BY <1>a, <1>c, <2>1, <2>2 DEF LetsGo, Left
  <2> QED  BY <1>a, <1>1, <1>b, <2>1, <2>3, LetGo DEF Typed
<1> QED  BY <1>2, <1>3

(***************************************************************************)
(* The actions in which a task lets go of its slot.                        *)
(***************************************************************************)
LEMMA CountsProperties ==
  ASSUME LifecycleInv, NEW s \in Slots
  PROVE  /\ Counts(s) \in [Slots -> SlotType]
         /\ \A t \in Slots : t # s => Counts(s)[t] = slot[t]
         /\ Counts(s)[s].held = slot[s].held \/ (Counts(s)[s].held = None /\ svc[slot[s].held] # "up")
         /\ slot[s].held = None \/ Counts(s)[s].held # None => Counts(s)[s].crashes = slot[s].crashes
         /\ Counts(s)[s].gate = slot[s].gate /\ Counts(s)[s].in_flight = slot[s].in_flight
         /\ ~Runs(s) => Counts(s)[s].held = None
<1>1. Typed /\ EmptyWhileStarting
  BY DEF LifecycleInv
<1>2. /\ slot \in [Slots -> SlotType]
      /\ slot[s].held # None => slot[s].crashes < MaxCrashes
  BY <1>1 DEF Typed, EmptyWhileStarting
<1>3. CASE slot[s].held # None /\ ~Runs(s)
  <2>1. /\ slot[s].crashes + 1 \in 0..MaxCrashes /\ svc[slot[s].held] # "up"
        /\ slot[s] \in SlotType /\ None \in Services \cup {None}
    BY <1>2, <1>3 DEF SlotType, Runs
  <2>2. Counts(s) = [slot EXCEPT ![s].held = None, ![s].crashes = @ + 1]
    BY <1>3 DEF Counts
  <2>3. /\ Counts(s)[s] = [slot[s] EXCEPT !.held = None, !.crashes = slot[s].crashes + 1]
        /\ \A t \in Slots : t # s => Counts(s)[t] = slot[t]
    BY <1>2, <2>2
  <2>4. /\ Counts(s)[s].held = None /\ Counts(s)[s].gate = slot[s].gate
        /\ Counts(s)[s].in_flight = slot[s].in_flight /\ Counts(s)[s] \in SlotType
    BY <2>1, <2>3 DEF SlotType
  <2>5. Counts(s) \in [Slots -> SlotType]
    BY <1>2, <2>2, <2>3, <2>4
  <2> QED  BY <1>3, <2>1, <2>3, <2>4, <2>5
<1>4. CASE ~(slot[s].held # None /\ ~Runs(s))
  BY <1>2, <1>4 DEF Counts
<1> QED  BY <1>3, <1>4

LEMMA LeavesGateProperties ==
  ASSUME NEW c \in Callers, NEW s \in Slots, SlotOf(c) = s, NEW st \in [Slots -> SlotType]
  PROVE  /\ LeavesGate(c, st) \in [Slots -> SlotType]
         /\ \A t \in Slots : t # s => LeavesGate(c, st)[t] = st[t]
         /\ LeavesGate(c, st)[s] = [st[s] EXCEPT !.gate = IF @ = c THEN None ELSE @]
BY DEF LeavesGate, SlotOf, SlotType

(* A task that is not using a service is not counted.                      *)
LEMMA NotLeased ==
  ASSUME LifecycleInv, NEW c \in Callers, NEW s \in Slots, Pc(c) # "using"
  PROVE  slot[s].in_flight = Cardinality(Leased(s) \ {c})
<1>1. Leased(s) \ {c} = Leased(s)
  BY DEF Leased, Is, Pc
<1> QED  BY <1>1 DEF LifecycleInv, Counted

LEMMA FailsKeeps ==
  ASSUME LifecycleInv, NEW c \in Callers, NEW s \in Slots, SlotOf(c) = s,
         Pc(c) \in {"looking", "starting", "peeking"},
         NEW st, st \in {slot, Counts(s)}, Fails(c, st)
  PROVE  LifecycleInv'
<1>1. Typed
  BY DEF LifecycleInv
<1>2. /\ st \in [Slots -> SlotType]
      /\ \A t \in Slots : t # s => st[t] = slot[t]
      /\ st[s].held = slot[s].held \/ (st[s].held = None /\ svc[slot[s].held] # "up")
      /\ slot[s].held = None \/ st[s].held # None => st[s].crashes = slot[s].crashes
      /\ st[s].gate = slot[s].gate /\ st[s].in_flight = slot[s].in_flight
  BY <1>1, CountsProperties DEF Typed
<1> DEFINE left == LeavesGate(c, st)
<1>3. /\ left \in [Slots -> SlotType] /\ \A t \in Slots : t # s => left[t] = slot[t]
      /\ left[s] = [st[s] EXCEPT !.gate = IF @ = c THEN None ELSE @]
  BY <1>2, LeavesGateProperties
<1>4. slot[s].in_flight = Cardinality(Leased(s) \ {c})
  BY NotLeased
<1> HIDE DEF left
<1>5. /\ left[s].held = st[s].held /\ left[s].crashes = st[s].crashes
      /\ left[s].in_flight = st[s].in_flight
      /\ left[s].gate = st[s].gate \/ st[s].gate = c
  BY <1>2, <1>3 DEF SlotType
<1>6. Left(c, s, left, svc)
  BY <1>1, <1>2, <1>3, <1>4, <1>5 DEF Left, Typed, Carrying
<1>7. Goes(c) /\ Releases(s, left, svc, lru) /\ slots' = slots
  BY DEF Fails, SlotOf, left
<1> QED  BY <1>6, <1>7, ReleaseKeeps

LEMMA HasSlot ==
  ASSUME LifecycleInv, NEW c \in Callers, Pc(c) # "away"
  PROVE  SlotOf(c) \in Slots
BY DEF LifecycleInv, Placed, Typed, SlotOf, Pc, TaskType

LEMMA HeldBackKeeps == ASSUME LifecycleInv, NEW c \in Callers, HeldBack(c) PROVE LifecycleInv'
BY HasSlot, FailsKeeps DEF HeldBack, Is, Pc, SlotOf

LEMMA StartFailsKeeps == ASSUME LifecycleInv, NEW c \in Callers, StartFails(c) PROVE LifecycleInv'
BY HasSlot, FailsKeeps DEF StartFails, Is, Pc, SlotOf

LEMMA GetsNoneKeeps == ASSUME LifecycleInv, NEW c \in Callers, GetsNone(c) PROVE LifecycleInv'
BY HasSlot, FailsKeeps DEF GetsNone, Is, Pc, SlotOf

LEMMA UnwantedKeeps == ASSUME LifecycleInv, NEW c \in Callers, Unwanted(c) PROVE LifecycleInv'
<1> DEFINE s == caller[c].slot
           sv == [svc EXCEPT ![caller[c].service] = IF @ = "up" THEN "stopped" ELSE @]
<1>1. Pc(c) = "started" /\ SlotOf(c) = s
  BY DEF Unwanted, Is, Pc, SlotOf
<1>2. s \in Slots
  BY <1>1, HasSlot
<1>3. Typed /\ Carried(c) \in Services
  BY <1>1 DEF LifecycleInv, Placed, Serving
<1>4. slot \in [Slots -> SlotType] /\ sv \in [Services -> States]
  BY <1>3 DEF Typed, States, Closing
<1>5. LeavesGate(c, slot)[s] = [slot[s] EXCEPT !.gate = IF @ = c THEN None ELSE @]
      /\ LeavesGate(c, slot) \in [Slots -> SlotType]
      /\ \A t \in Slots : t # s => LeavesGate(c, slot)[t] = slot[t]
  BY <1>1, <1>2, <1>4, LeavesGateProperties
<1>6. slot[s].in_flight = Cardinality(Leased(s) \ {c})
  BY <1>1, <1>2, NotLeased
<1>7. \A v \in Services : sv[v] = svc[v] \/ (svc[v] = "up" /\ sv[v] = "stopped")
  BY <1>3 DEF Typed
<1>8. sv[Carried(c)] # "up"
  BY <1>3 DEF Typed, Carried
<1>9. /\ LeavesGate(c, slot)[s].held = slot[s].held /\ LeavesGate(c, slot)[s].crashes = slot[s].crashes
      /\ LeavesGate(c, slot)[s].in_flight = slot[s].in_flight
      /\ LeavesGate(c, slot)[s].gate = slot[s].gate \/ slot[s].gate = c
  BY <1>2, <1>4, <1>5 DEF SlotType
<1> HIDE DEF sv
<1>10. Left(c, s, LeavesGate(c, slot), sv)
  BY <1>4, <1>5, <1>6, <1>7, <1>8, <1>9 DEF Left
<1>11. Goes(c) /\ Releases(s, LeavesGate(c, slot), sv, lru) /\ slots' = slots
  BY DEF Unwanted, sv
<1> QED  BY <1>1, <1>2, <1>10, <1>11, ReleaseKeeps

LEMMA DropsKeeps == ASSUME LifecycleInv, NEW c \in Callers, Drops(c) PROVE LifecycleInv'
<1> DEFINE s == caller[c].slot
           st == [slot EXCEPT ![s].in_flight = IF @ > 0 THEN @ - 1 ELSE 0]
<1>1. Pc(c) = "using" /\ SlotOf(c) = s
  BY DEF Drops, Is, Pc, SlotOf
<1>2. s \in Slots
  BY <1>1, HasSlot
<1>3. Typed /\ Counted
  BY DEF LifecycleInv
<1>4. slot \in [Slots -> SlotType] /\ svc \in [Services -> States]
  BY <1>3 DEF Typed
<1>5. /\ c \in Leased(s) /\ slot[s].in_flight = Cardinality(Leased(s))
      /\ Cardinality(Leased(s) \ {c}) = Cardinality(Leased(s)) - 1
      /\ Cardinality(Leased(s) \ {c}) \in Nat
  <2>1. c \in Leased(s) /\ IsFiniteSet(Leased(s))
    BY <1>1, <1>2, LeasedFinite DEF Leased, Is, Pc
  <2>2. IsFiniteSet(Leased(s) \ {c}) /\ Cardinality(Leased(s) \ {c}) = Cardinality(Leased(s)) - 1
    BY <2>1, FS_RemoveElement
  <2> QED  BY <1>2, <1>3, <2>1, <2>2, FS_CardinalityType DEF Counted
<1>6. /\ st \in [Slots -> SlotType] /\ \A t \in Slots : t # s => st[t] = slot[t]
      /\ st[s] = [slot[s] EXCEPT !.in_flight = Cardinality(Leased(s) \ {c})]
  BY <1>2, <1>4, <1>5 DEF SlotType
<1> HIDE DEF st
<1>7. /\ st[s].held = slot[s].held /\ st[s].gate = slot[s].gate /\ st[s].crashes = slot[s].crashes
      /\ st[s].in_flight = Cardinality(Leased(s) \ {c})
  <2>1. slot[s] \in SlotType
    BY <1>2, <1>4
  <2> QED  BY <1>6, <2>1 DEF SlotType
<1>8. Left(c, s, st, svc)
  BY <1>1, <1>4, <1>6, <1>7 DEF Left, Carrying
<1>9. Goes(c) /\ Releases(s, st, svc, Used(s)) /\ slots' = slots
  BY DEF Drops, st
<1> QED  BY <1>1, <1>2, <1>8, <1>9, ReleaseKeeps

(* What a slot holds is taken, and closed if it runs.                      *)
LEMMA EmptiedProperties ==
  ASSUME LifecycleInv, NEW s \in Slots, NEW why \in Closing
  PROVE  /\ Emptied(s) \in [Slots -> SlotType] /\ Closes(s, why) \in [Services -> States]
         /\ \A t \in Slots : t # s => Emptied(s)[t] = slot[t]
         /\ Emptied(s)[s].held = None /\ Emptied(s)[s].gate = slot[s].gate
         /\ Emptied(s)[s].crashes = slot[s].crashes /\ Emptied(s)[s].in_flight = slot[s].in_flight
         /\ slot[s].held # None => Closes(s, why)[slot[s].held] # "up"
         /\ \A v \in Services :
              \/ Closes(s, why)[v] = svc[v]
              \/ svc[v] = "up" /\ Closes(s, why)[v] = why /\ v = slot[s].held
<1>1. slot \in [Slots -> SlotType] /\ svc \in [Services -> States]
  BY DEF LifecycleInv, Typed
<1>2. slot[s].held \in Services \cup {None} /\ why \in States /\ why # "up"
  BY <1>1 DEF SlotType, States, Closing
<1>3. /\ Emptied(s)[s] = [slot[s] EXCEPT !.held = None]
      /\ \A t \in Slots : t # s => Emptied(s)[t] = slot[t]
      /\ Emptied(s) \in [Slots -> SlotType]
  BY <1>1 DEF Emptied, SlotType
<1>4. /\ Emptied(s)[s].held = None /\ Emptied(s)[s].gate = slot[s].gate
      /\ Emptied(s)[s].crashes = slot[s].crashes /\ Emptied(s)[s].in_flight = slot[s].in_flight
  BY <1>1, <1>3 DEF SlotType
<1>5. /\ Closes(s, why) \in [Services -> States]
      /\ slot[s].held # None => Closes(s, why)[slot[s].held] # "up"
      /\ \A v \in Services :
           \/ Closes(s, why)[v] = svc[v]
           \/ svc[v] = "up" /\ Closes(s, why)[v] = why /\ v = slot[s].held
  BY <1>1, <1>2 DEF Closes, Runs
<1> QED  BY <1>3, <1>4, <1>5

LEMMA TakesKeeps == ASSUME LifecycleInv, NEW c \in Callers, Takes(c) PROVE LifecycleInv'
<1> DEFINE s == caller[c].slot
<1>1. Pc(c) = "stopping" /\ SlotOf(c) = s
  BY DEF Takes, Is, Pc, SlotOf
<1>2. s \in Slots
  BY <1>1, HasSlot
<1>3. slot[s].in_flight = Cardinality(Leased(s) \ {c})
  BY <1>1, <1>2, NotLeased
<1>4. /\ Emptied(s) \in [Slots -> SlotType] /\ Closes(s, "stopped") \in [Services -> States]
      /\ \A t \in Slots : t # s => Emptied(s)[t] = slot[t]
      /\ Emptied(s)[s].held = None /\ Emptied(s)[s].gate = slot[s].gate
      /\ Emptied(s)[s].crashes = slot[s].crashes /\ Emptied(s)[s].in_flight = slot[s].in_flight
      /\ slot[s].held # None => Closes(s, "stopped")[slot[s].held] # "up"
      /\ \A v \in Services : Closes(s, "stopped")[v] = svc[v]
                             \/ (svc[v] = "up" /\ Closes(s, "stopped")[v] = "stopped")
  BY <1>2, EmptiedProperties DEF Closing
<1>5. Left(c, s, Emptied(s), Closes(s, "stopped"))
  BY <1>1, <1>3, <1>4 DEF Left, Carrying
<1>6. Goes(c) /\ Releases(s, Emptied(s), Closes(s, "stopped"), lru) /\ slots' = slots
  BY DEF Takes
<1> QED  BY <1>1, <1>2, <1>5, <1>6, ReleaseKeeps

(***************************************************************************)
(* Steps that no task takes: what slots hold may be taken, what runs may   *)
(* end, and crashes are forgotten.                                         *)
(***************************************************************************)
Ebbs ==
  /\ UNCHANGED <<slots, caller>>
  /\ slot' \in [Slots -> SlotType] /\ svc' \in [Services -> States]
  /\ \A t \in Slots :
       /\ slot'[t].gate = slot[t].gate /\ slot'[t].in_flight = slot[t].in_flight
       /\ slot'[t].crashes <= slot[t].crashes
       /\ slot'[t].held = slot[t].held \/ (slot'[t].held = None /\ svc'[slot[t].held] # "up")
  /\ \A v \in Services :
       \/ svc'[v] = svc[v]
       \/ svc[v] # "none" /\ svc'[v] \in {"evicted", "ended"}
       \/ svc[v] = "up" /\ svc'[v] = "idled"
          /\ (\E t \in Slots : slot[t].held = v)
          /\ \A c \in Callers : Pc(c) = "using" => slot[SlotOf(c)].held # v

LEMMA EbbsKeeps == LifecycleInv /\ Ebbs => LifecycleInv'
<1> SUFFICES ASSUME LifecycleInv, Ebbs PROVE LifecycleInv'
  OBVIOUS
<1>a. Typed /\ Placed /\ OneSlotEach /\ GateHeld /\ EmptyWhileStarting /\ Apart /\ NothingLost
      /\ Counted /\ LeasedHeld
  BY DEF LifecycleInv
<1>b. /\ caller' = caller /\ slots' = slots /\ InMap' = InMap /\ Live' = Live
      /\ \A t \in Slots : Leased(t)' = Leased(t)
  BY DEF Ebbs, InMap, Live, Leased, Is, SlotOf
<1>c. \A t \in Slots :
        /\ slot[t].held \in Services \cup {None} /\ slot'[t].held \in Services \cup {None}
        /\ slot[t].crashes \in Nat /\ slot'[t].crashes \in Nat
        /\ slot'[t].gate = slot[t].gate /\ slot'[t].in_flight = slot[t].in_flight
        /\ slot'[t].crashes <= slot[t].crashes
        /\ slot'[t].held = slot[t].held \/ (slot'[t].held = None /\ svc'[slot[t].held] # "up")
  BY <1>a DEF Ebbs, Typed, SlotType
<1>d. \A v \in Services : \/ svc'[v] = svc[v]
                          \/ svc[v] # "none" /\ svc'[v] \in {"evicted", "ended", "idled"}
  BY DEF Ebbs
<1> USE <1>b, <1>c, <1>d DEF Pc, SlotOf, Carried
<1>1. Typed'
  BY <1>a DEF Ebbs, Typed
<1>2. Placed'
  BY <1>a DEF Placed, Serving
<1>3. OneSlotEach' /\ GateHeld'
  BY <1>a DEF OneSlotEach, GateHeld, Gated, Placed, Typed, TaskType
<1>4. EmptyWhileStarting'
  <2>1. \A t \in Slots : slot[t].crashes < MaxCrashes => slot'[t].crashes < MaxCrashes
    BY LifecycleAssumption
  <2>2. ASSUME NEW c \in Callers, caller[c].pc \in Emptying
        PROVE  slot'[caller[c].slot].held = None /\ slot'[caller[c].slot].crashes < MaxCrashes
    BY <1>a, <2>1, <2>2 DEF EmptyWhileStarting, Placed, Typed, Emptying, TaskType
  <2>3. \A t \in Slots : slot'[t].held # None => slot'[t].crashes < MaxCrashes
    BY <1>a, <2>1 DEF EmptyWhileStarting
  <2> QED  BY <2>2, <2>3 DEF EmptyWhileStarting
<1>5. Apart'
  <2>1. \A t, u \in Slots : t # u /\ slot'[t].held # None => slot'[t].held # slot'[u].held
    BY <1>a DEF Apart
  <2>2. \A c \in Callers, t \in Slots : caller[c].pc \in Carrying => slot'[t].held # caller[c].service
    BY <1>a DEF Apart, Placed, Carrying, Serving
  <2> QED  BY <1>a, <2>1, <2>2 DEF Apart
<1>6. NothingLost'
  BY <1>a DEF NothingLost
<1>7. Counted'
  BY <1>a DEF Counted
<1>8. LeasedHeld'
  <2>1. ASSUME NEW d \in Callers, caller[d].pc = "using"
        PROVE  slot'[caller[d].slot].held = caller[d].service \/ svc'[caller[d].service] # "up"
    <3>1. /\ slot[caller[d].slot].held = caller[d].service \/ svc[caller[d].service] # "up"
          /\ caller[d].slot \in Slots /\ caller[d].service \in Services /\ svc[caller[d].service] # "none"
      BY <1>a, <2>1 DEF LeasedHeld, Placed, Typed, Serving, TaskType
    <3> QED  BY <3>1
  <2>2. ASSUME NEW d \in Callers, caller[d].pc \in Serving
        PROVE  svc'[caller[d].service] \notin {"idled", "orphaned"}
    <3>1. /\ svc[caller[d].service] \notin {"idled", "orphaned"}
          /\ caller[d].slot \in Slots /\ caller[d].service \in Services
      BY <1>a, <2>2 DEF LeasedHeld, Placed, Typed, Serving, TaskType
    <3>2. CASE caller[d].pc = "using"
      BY <1>a, <3>1, <3>2 DEF Ebbs, LeasedHeld
    <3>3. CASE caller[d].pc \in Carrying
      BY <1>a, <3>1, <3>3 DEF Ebbs, Apart
    <3> QED  BY <2>2, <3>2, <3>3 DEF Serving, Carrying
  <2> QED  BY <2>1, <2>2 DEF LeasedHeld
<1> QED  BY <1>1, <1>2, <1>3, <1>4, <1>5, <1>6, <1>7, <1>8 DEF LifecycleInv

LEMMA EvictsEbbs == LifecycleInv /\ Evicts => Ebbs
<1> SUFFICES ASSUME LifecycleInv, Evicts PROVE Ebbs
  OBVIOUS
<1> DEFINE s == Head(room.stops)
<1>1. slot \in [Slots -> SlotType] /\ svc \in [Services -> States]
  BY DEF LifecycleInv, Typed
<1>2. slot' = Emptied(s) /\ svc' = Closes(s, "evicted") /\ UNCHANGED <<slots, caller>>
  BY DEF Evicts
<1>3. CASE s \in Slots
  <2>1. /\ slot' \in [Slots -> SlotType] /\ svc' \in [Services -> States]
        /\ \A t \in Slots : t # s => slot'[t] = slot[t]
        /\ slot'[s].held = None /\ slot'[s].gate = slot[s].gate
        /\ slot'[s].crashes = slot[s].crashes /\ slot'[s].in_flight = slot[s].in_flight
        /\ slot[s].held # None => svc'[slot[s].held] # "up"
        /\ \A v \in Services : svc'[v] = svc[v] \/ (svc[v] = "up" /\ svc'[v] = "evicted")
    BY <1>2, <1>3, EmptiedProperties DEF Closing
  <2>2. \A t \in Slots : slot[t].crashes \in Nat
    BY <1>1 DEF SlotType
  <2> HIDE DEF s
  <2> QED  BY <1>2, <1>3, <2>1, <2>2 DEF Ebbs
<1>4. CASE s \notin Slots
  <2>1. slot' = slot
    BY <1>1, <1>2, <1>4 DEF Emptied
  <2>2. /\ svc' \in [Services -> States]
        /\ \A v \in Services : svc'[v] = svc[v] \/ (svc[v] = "up" /\ svc'[v] = "evicted")
    <3>1. svc' = svc \/ (\E w : svc' = [svc EXCEPT ![w] = "evicted"] /\ svc[w] = "up")
      BY <1>2 DEF Closes, Runs
    <3> HIDE DEF s
    <3> QED  BY <1>1, <3>1 DEF States, Closing
  <2>3. \A t \in Slots : slot[t].crashes \in Nat
    BY <1>1 DEF SlotType
  <2> HIDE DEF s
  <2> QED  BY <1>1, <1>2, <2>1, <2>2, <2>3 DEF Ebbs
<1> QED  BY <1>3, <1>4

LEMMA ReapsEbbs == ASSUME LifecycleInv, NEW s \in Slots, Reaps(s) PROVE Ebbs
<1>1. /\ slot' = Emptied(s) /\ svc' = Closes(s, "idled") /\ UNCHANGED <<slots, caller>>
      /\ slot[s].in_flight = 0 /\ Runs(s)
  BY DEF Reaps
<1>2. /\ slot' \in [Slots -> SlotType] /\ svc' \in [Services -> States]
      /\ \A t \in Slots : t # s => slot'[t] = slot[t]
      /\ slot'[s].held = None /\ slot'[s].gate = slot[s].gate
      /\ slot'[s].crashes = slot[s].crashes /\ slot'[s].in_flight = slot[s].in_flight
      /\ slot[s].held # None => svc'[slot[s].held] # "up"
      /\ \A v \in Services : svc'[v] = svc[v]
                             \/ (svc[v] = "up" /\ svc'[v] = "idled" /\ v = slot[s].held)
  BY <1>1, EmptiedProperties DEF Closing
<1>3. \A t \in Slots : slot[t].crashes \in Nat
  BY DEF LifecycleInv, Typed, SlotType
<1>4. Leased(s) = {}
  BY <1>1, LeasedFinite, FS_EmptySet DEF LifecycleInv, Counted
<1>5. ASSUME NEW c \in Callers, Pc(c) = "using" PROVE slot[SlotOf(c)].held # slot[s].held
  <2>1. SlotOf(c) \in Slots /\ SlotOf(c) # s
    BY <1>4, <1>5, HasSlot DEF Leased, Is, Pc, SlotOf
  <2>2. slot[s].held # None
    BY <1>1 DEF Runs
  <2> QED  BY <2>1, <2>2 DEF LifecycleInv, Apart
<1> QED  BY <1>1, <1>2, <1>3, <1>5 DEF Ebbs

LEMMA ExitsEbbs ==
  ASSUME LifecycleInv, NEW v \in Services, Exits(v) \/ Ends(v) PROVE Ebbs
<1>1. slot \in [Slots -> SlotType] /\ svc \in [Services -> States]
  BY DEF LifecycleInv, Typed
<1>2. \A t \in Slots : slot[t].crashes \in Nat
  BY <1>1 DEF SlotType
<1>3. svc[v] # "none" /\ svc' = [svc EXCEPT ![v] = "ended"] /\ UNCHANGED <<slots, slot, caller>>
  BY DEF Exits, Ends, Closing
<1> QED  BY <1>1, <1>2, <1>3 DEF Ebbs, States

LEMMA ForgetsEbbs == ASSUME LifecycleInv, NEW s \in Slots, Forgets(s) PROVE Ebbs
<1>1. slot \in [Slots -> SlotType] /\ svc \in [Services -> States]
  BY DEF LifecycleInv, Typed
<1>2. slot[s].crashes > 0 /\ slot' = [slot EXCEPT ![s].crashes = @ - 1] /\ UNCHANGED <<slots, svc, caller>>
  BY DEF Forgets
<1>3. /\ \A t \in Slots : t # s => slot'[t] = slot[t]
      /\ slot'[s] = [slot[s] EXCEPT !.crashes = @ - 1] /\ slot[s].crashes - 1 \in 0..MaxCrashes
      /\ \A t \in Slots : slot[t].crashes \in Nat
  BY <1>1, <1>2 DEF SlotType
<1>4. /\ slot'[s].held = slot[s].held /\ slot'[s].gate = slot[s].gate
      /\ slot'[s].in_flight = slot[s].in_flight /\ slot'[s].crashes = slot[s].crashes - 1
      /\ slot' \in [Slots -> SlotType]
  BY <1>1, <1>2, <1>3 DEF SlotType
<1> QED  BY <1>1, <1>2, <1>3, <1>4 DEF Ebbs

(***************************************************************************)
(* A task goes one step on towards a service, or sets out to stop one: it  *)
(* has a slot from its first step, whose gate it holds while it starts a   *)
(* service there, with the slot empty.                                     *)
(***************************************************************************)
GoesOn(c, s) ==
  /\ Pc(c) # "using" /\ Pc(c)' \notin {"away", "using"}
  /\ SlotOf(c)' = s /\ SlotOf(c) \in {s, None}
  /\ \A d \in Callers : d # c => caller'[d] = caller[d]
  /\ OneSlotEach' /\ Live \subseteq Live'
  /\ \A t \in Slots : t # s => slot'[t] = slot[t]
  /\ slot'[s].held = slot[s].held \/ (slot'[s].held = None /\ svc'[slot[s].held] # "up")
  /\ slot[s].held = None \/ slot'[s].held # None => slot'[s].crashes = slot[s].crashes
  /\ slot'[s].gate = slot[s].gate \/ slot[s].gate = None
  /\ slot'[s].in_flight = slot[s].in_flight
  /\ Pc(c)' \in Gated => slot'[s].gate = c
  /\ Pc(c)' \in Emptying => slot'[s].held = None /\ slot'[s].crashes < MaxCrashes
  /\ Pc(c) \in Carrying => Pc(c)' \in Carrying /\ Carried(c)' = Carried(c)
  /\ Pc(c)' \in Carrying => /\ Carried(c)' \in Services
                            /\ Pc(c) \in Carrying \/ svc[Carried(c)'] = "none"
  /\ \A v \in Services : \/ svc'[v] = svc[v]
                         \/ svc[v] = "none" /\ svc'[v] = "up" /\ Pc(c)' \in Carrying /\ Carried(c)' = v
  /\ Pc(c)' \in Carrying => svc'[Carried(c)'] # "none"

LEMMA GoesOnKeeps ==
  ASSUME LifecycleInv, Typed', NEW c \in Callers, NEW s \in Slots, GoesOn(c, s)
  PROVE  LifecycleInv'
<1>a. Typed /\ Placed /\ OneSlotEach /\ GateHeld /\ EmptyWhileStarting /\ Apart /\ NothingLost
      /\ Counted /\ LeasedHeld
  BY DEF LifecycleInv
<1> USE DEF Pc, SlotOf, Carried
<1>b. /\ \A d \in Callers : d # c => caller'[d] = caller[d]
      /\ caller'[c].slot = s /\ caller[c].slot \in {s, None}
      /\ caller[c].pc # "using" /\ caller'[c].pc \notin {"away", "using"}
  BY DEF GoesOn
<1>c. /\ \A t \in Slots : t # s => slot'[t] = slot[t]
      /\ slot'[s].held = slot[s].held \/ (slot'[s].held = None /\ svc'[slot[s].held] # "up")
      /\ slot[s].held = None \/ slot'[s].held # None => slot'[s].crashes = slot[s].crashes
  BY DEF GoesOn
<1>d. /\ \A d \in Callers : caller[d].slot \in Slots \cup {None} /\ caller[d].service \in Services \cup {None}
      /\ \A t \in Slots : slot[t].held \in Services \cup {None} /\ slot'[t].held \in Services \cup {None}
      /\ None \notin Slots /\ None \notin Services /\ None \notin Callers
  BY <1>a DEF Typed, SlotType, TaskType
<1>e. \A v \in Services : svc'[v] = svc[v] \/ (svc[v] = "none" /\ svc'[v] = "up")
  BY DEF GoesOn
<1> USE <1>b, <1>c, <1>d, <1>e
<1>1. Placed'
  <2>1. \A d \in Callers : caller'[d].slot = None <=> caller'[d].pc = "away"
    BY <1>a DEF Placed
  <2>2. \A d \in Callers : d # c /\ caller[d].pc \in Serving =>
          caller[d].service \in Services /\ svc'[caller[d].service] # "none"
    BY <1>a DEF Placed
  <2>3. caller'[c].pc \in Serving => caller'[c].service \in Services /\ svc'[caller'[c].service] # "none"
    BY DEF GoesOn, Serving, Carrying
  <2>4. \A t \in Slots : slot'[t].held # None => svc'[slot'[t].held] # "none"
    BY <1>a DEF Placed
  <2> QED  BY <2>1, <2>2, <2>3, <2>4 DEF Placed
<1>2. OneSlotEach'
  BY DEF GoesOn
<1>3. GateHeld'
  <2>1. ASSUME NEW d \in Callers, d # c, caller[d].pc \in Gated
        PROVE  slot'[caller[d].slot].gate = d
    <3>1. slot[caller[d].slot].gate = d /\ caller[d].slot \in Slots
      BY <1>a, <2>1 DEF GateHeld, Placed, Gated
    <3> QED  BY <3>1 DEF GoesOn
  <2>2. caller'[c].pc \in Gated => slot'[s].gate = c
    BY DEF GoesOn
  <2> QED  BY <2>1, <2>2 DEF GateHeld
<1>4. EmptyWhileStarting'
  <2>1. ASSUME NEW d \in Callers, d # c, caller[d].pc \in Emptying
        PROVE  slot'[caller[d].slot].held = None /\ slot'[caller[d].slot].crashes < MaxCrashes
    <3>1. /\ slot[caller[d].slot].held = None /\ slot[caller[d].slot].crashes < MaxCrashes
          /\ caller[d].slot \in Slots
      BY <1>a, <2>1 DEF EmptyWhileStarting, Placed, Emptying
    <3> QED  BY <3>1
  <2>2. caller'[c].pc \in Emptying => slot'[s].held = None /\ slot'[s].crashes < MaxCrashes
    BY DEF GoesOn
  <2>3. \A t \in Slots : slot'[t].held # None => slot'[t].crashes < MaxCrashes
    BY <1>a DEF EmptyWhileStarting
  <2> QED  BY <2>1, <2>2, <2>3 DEF EmptyWhileStarting
<1>5. Apart'
  <2>1. \A t, u \in Slots : t # u /\ slot'[t].held # None => slot'[t].held # slot'[u].held
    BY <1>a DEF Apart
  <2>2. ASSUME caller'[c].pc \in Carrying
        PROVE  /\ \A d \in Callers : d # c /\ caller[d].pc \in Carrying => caller[d].service # caller'[c].service
               /\ \A t \in Slots : slot[t].held # caller'[c].service
               /\ caller'[c].service \in Services
    <3>1. CASE caller[c].pc \in Carrying
      BY <1>a, <2>2, <3>1 DEF GoesOn, Apart
    <3>2. CASE svc[caller'[c].service] = "none"
      <4>1. \A d \in Callers : caller[d].pc \in Carrying => svc[caller[d].service] # "none"
        BY <1>a DEF Placed, Carrying, Serving
      <4>2. \A t \in Slots : slot[t].held # None => svc[slot[t].held] # "none"
        BY <1>a DEF Placed
      <4>3. caller'[c].service \in Services
        BY <2>2 DEF GoesOn
      <4> QED  BY <3>2, <4>1, <4>2, <4>3
    <3> QED  BY <2>2, <3>1, <3>2 DEF GoesOn
  <2>3. \A d, e \in Callers : d # e /\ caller'[d].pc \in Carrying /\ caller'[e].pc \in Carrying =>
          caller'[d].service # caller'[e].service
    BY <1>a, <2>2 DEF Apart
  <2>4. \A d \in Callers, t \in Slots : caller'[d].pc \in Carrying => slot'[t].held # caller'[d].service
    <3>1. \A d \in Callers, t \in Slots : d # c /\ caller[d].pc \in Carrying => slot'[t].held # caller[d].service
      BY <1>a DEF Apart, Placed, Carrying, Serving
    <3>2. \A t \in Slots : caller'[c].pc \in Carrying => slot'[t].held # caller'[c].service
      BY <2>2
    <3> QED  BY <3>1, <3>2
  <2> QED  BY <2>1, <2>3, <2>4 DEF Apart
<1>6. NothingLost'
  <2>1. \A t \in Slots : slot'[t].held # None => t \in Live'
    BY <1>a DEF NothingLost, GoesOn
  <2>2. ASSUME NEW v \in Services, svc'[v] = "up"
        PROVE  \/ \E t \in Slots : slot'[t].held = v
               \/ \E d \in Callers : caller'[d].pc \in Carrying /\ caller'[d].service = v
    <3>1. CASE svc[v] # "up"
      BY <2>2, <3>1 DEF GoesOn
    <3>2. CASE \E t \in Slots : slot[t].held = v
      BY <2>2, <3>2
    <3>3. CASE \E d \in Callers : caller[d].pc \in Carrying /\ caller[d].service = v
      BY <3>3 DEF GoesOn
    <3> QED  BY <1>a, <3>1, <3>2, <3>3 DEF NothingLost
  <2> QED  BY <2>1, <2>2 DEF NothingLost
<1>7. Counted'
  <2>1. \A t \in Slots : Leased(t)' = Leased(t)
    BY DEF Leased, Is
  <2>2. \A t \in Slots : slot'[t].in_flight = slot[t].in_flight
    BY DEF GoesOn
  <2> QED  BY <1>a, <2>1, <2>2 DEF Counted
<1>8. LeasedHeld'
  <2>1. ASSUME NEW d \in Callers, d # c, caller[d].pc = "using"
        PROVE  slot'[caller[d].slot].held = caller[d].service \/ svc'[caller[d].service] # "up"
    <3>1. /\ slot[caller[d].slot].held = caller[d].service \/ svc[caller[d].service] # "up"
          /\ caller[d].slot \in Slots /\ caller[d].service \in Services /\ svc[caller[d].service] # "none"
      BY <1>a, <2>1 DEF LeasedHeld, Placed, Serving
    <3> QED  BY <3>1
  <2>2. ASSUME NEW d \in Callers, d # c, caller[d].pc \in Serving
        PROVE  svc'[caller[d].service] \notin {"idled", "orphaned"}
    <3>1. svc[caller[d].service] \notin {"idled", "orphaned"} /\ caller[d].service \in Services
      BY <1>a, <2>2 DEF LeasedHeld, Placed
    <3> QED  BY <3>1
  <2>3. ASSUME caller'[c].pc \in Serving
        PROVE  svc'[caller'[c].service] \notin {"idled", "orphaned"}
    <3>1. caller'[c].pc \in Carrying /\ caller'[c].service \in Services
      BY <2>3 DEF GoesOn, Serving, Carrying
    <3>2. CASE caller[c].pc \in Carrying
      BY <1>a, <3>1, <3>2 DEF GoesOn, LeasedHeld, Carrying, Serving
    <3>3. CASE svc[caller'[c].service] = "none"
      BY <3>1, <3>3
    <3> QED  BY <3>1, <3>2, <3>3 DEF GoesOn
  <2> QED  BY <2>1, <2>2, <2>3 DEF LeasedHeld
<1> QED  BY <1>1, <1>2, <1>3, <1>4, <1>5, <1>6, <1>7, <1>8 DEF LifecycleInv

(* A task stays with its slot, and carries what it carried: where it goes  *)
(* must be a step of a task at work.                                       *)
LEMMA MapKept ==
  ASSUME LifecycleInv, NEW c \in Callers, NEW pc \in Steps, slots' = slots,
         Pc(c) # "away", caller' = [caller EXCEPT ![c].pc = pc]
  PROVE  /\ SlotOf(c) \in Slots /\ SlotOf(c)' = SlotOf(c) /\ Carried(c)' = Carried(c) /\ Pc(c)' = pc
         /\ \A d \in Callers : d # c => caller'[d] = caller[d]
         /\ OneSlotEach' /\ Live \subseteq Live'
         /\ caller' \in [Callers -> TaskType]
<1>1. SlotOf(c) \in Slots
  BY HasSlot
<1>2. Typed /\ OneSlotEach
  BY DEF LifecycleInv
<1>3. /\ \A d \in Callers : d # c => caller'[d] = caller[d]
      /\ caller'[c] = [caller[c] EXCEPT !.pc = pc]
  BY <1>2 DEF Typed
<1>4. /\ SlotOf(c)' = SlotOf(c) /\ Carried(c)' = Carried(c) /\ Pc(c)' = pc
      /\ caller' \in [Callers -> TaskType]
  BY <1>2, <1>3 DEF Typed, SlotOf, Carried, Pc, TaskType
<1>5. \A d \in Callers : caller'[d].slot = caller[d].slot
  BY <1>3, <1>4 DEF SlotOf
<1> QED  BY <1>1, <1>2, <1>3, <1>4, <1>5 DEF OneSlotEach, Live, InMap, SlotOf

LEMMA EntersKeeps == ASSUME LifecycleInv, NEW c \in Callers, Enters(c) PROVE LifecycleInv'
<1> DEFINE s == caller[c].slot
<1>1. /\ Pc(c) = "waiting" /\ slot[s].gate = None /\ slots' = slots /\ svc' = svc
      /\ slot' = [slot EXCEPT ![s].gate = c] /\ caller' = [caller EXCEPT ![c].pc = "looking"]
  BY DEF Enters, Is, Pc
<1>2. /\ s \in Slots /\ SlotOf(c) = s /\ SlotOf(c)' = s /\ Pc(c)' = "looking"
      /\ \A d \in Callers : d # c => caller'[d] = caller[d]
      /\ OneSlotEach' /\ Live \subseteq Live'
      /\ caller' \in [Callers -> TaskType]
  BY <1>1, MapKept DEF Steps, SlotOf
<1>3. Typed
  BY DEF LifecycleInv
<1>4. /\ slot' \in [Slots -> SlotType] /\ \A t \in Slots : t # s => slot'[t] = slot[t]
      /\ slot'[s].held = slot[s].held /\ slot'[s].crashes = slot[s].crashes
      /\ slot'[s].in_flight = slot[s].in_flight /\ slot'[s].gate = c
  BY <1>1, <1>2, <1>3 DEF Typed, SlotType
<1> HIDE DEF s
<1>5. Typed'
  BY <1>1, <1>2, <1>3, <1>4 DEF Typed
<1>6. GoesOn(c, s)
  BY <1>1, <1>2, <1>4 DEF GoesOn, Emptying, Carrying
<1> QED  BY <1>2, <1>5, <1>6, GoesOnKeeps

LEMMA WantedKeeps == ASSUME LifecycleInv, NEW c \in Callers, Wanted(c) PROVE LifecycleInv'
<1> DEFINE s == caller[c].slot
<1>1. /\ Pc(c) = "started" /\ slots' = slots /\ svc' = svc /\ slot' = slot
      /\ caller' = [caller EXCEPT ![c].pc = "wanted"]
  BY DEF Wanted, Is, Pc
<1>2. /\ s \in Slots /\ SlotOf(c) = s /\ SlotOf(c)' = s /\ Pc(c)' = "wanted"
      /\ Carried(c)' = Carried(c) /\ \A d \in Callers : d # c => caller'[d] = caller[d]
      /\ OneSlotEach' /\ Live \subseteq Live'
      /\ caller' \in [Callers -> TaskType]
  BY <1>1, MapKept DEF Steps, SlotOf
<1>3. /\ Typed /\ Carried(c) \in Services /\ svc[Carried(c)] # "none"
      /\ slot[s].gate = c /\ slot[s].held = None /\ slot[s].crashes < MaxCrashes
  BY <1>1, <1>2 DEF LifecycleInv, Placed, GateHeld, EmptyWhileStarting, Serving, Gated, Emptying
<1> HIDE DEF s
<1>4. Typed'
  BY <1>1, <1>2, <1>3 DEF Typed
<1>5. GoesOn(c, s)
  BY <1>1, <1>2, <1>3 DEF GoesOn, Carrying
<1> QED  BY <1>2, <1>4, <1>5, GoesOnKeeps

LEMMA MakesRoomKeeps == ASSUME LifecycleInv, NEW c \in Callers, MakesRoom(c) PROVE LifecycleInv'
<1> DEFINE s == caller[c].slot
<1>1. /\ Pc(c) = "looking" /\ ~Runs(s) /\ slots' = slots /\ svc' = svc
      /\ slot' = Counts(s) /\ Counts(s)[s].crashes < MaxCrashes
      /\ caller' = [caller EXCEPT ![c].pc = "starting"]
  BY DEF MakesRoom, Is, Pc, WithinBudget
<1>2. /\ s \in Slots /\ SlotOf(c) = s /\ SlotOf(c)' = s /\ Pc(c)' = "starting"
      /\ \A d \in Callers : d # c => caller'[d] = caller[d]
      /\ OneSlotEach' /\ Live \subseteq Live'
      /\ caller' \in [Callers -> TaskType]
  BY <1>1, MapKept DEF Steps, SlotOf
<1>3. Typed /\ slot[s].gate = c
  BY <1>1, <1>2 DEF LifecycleInv, GateHeld, Gated
<1> HIDE DEF s
<1>4. /\ slot' \in [Slots -> SlotType] /\ \A t \in Slots : t # s => slot'[t] = slot[t]
      /\ slot'[s].held = None /\ slot'[s].gate = slot[s].gate
      /\ slot[s].held = None => slot'[s].crashes = slot[s].crashes
      /\ slot[s].held # None => svc[slot[s].held] # "up"
      /\ slot'[s].in_flight = slot[s].in_flight /\ slot'[s].crashes < MaxCrashes
  BY <1>1, <1>2, CountsProperties DEF Runs
<1>5. Typed'
  BY <1>1, <1>2, <1>3, <1>4 DEF Typed
<1>6. GoesOn(c, s)
  BY <1>1, <1>2, <1>3, <1>4 DEF GoesOn, Carrying
<1> QED  BY <1>2, <1>5, <1>6, GoesOnKeeps

LEMMA StartedKeeps == ASSUME LifecycleInv, NEW c \in Callers, Started(c) PROVE LifecycleInv'
<1> DEFINE s == caller[c].slot
<1>1. PICK v \in Services :
        /\ svc[v] = "none" /\ svc' = [svc EXCEPT ![v] = "up"]
        /\ caller' = [caller EXCEPT ![c].pc = "started", ![c].service = v]
  BY DEF Started, Unstarted
<1>2. Pc(c) = "starting" /\ slots' = slots /\ slot' = slot
  BY DEF Started, Is, Pc
<1>3. /\ s \in Slots /\ Typed /\ OneSlotEach
      /\ slot[s].gate = c /\ slot[s].held = None /\ slot[s].crashes < MaxCrashes
  BY <1>2, HasSlot DEF LifecycleInv, GateHeld, EmptyWhileStarting, Gated, Emptying, SlotOf
<1>4. /\ \A d \in Callers : d # c => caller'[d] = caller[d]
      /\ caller'[c] = [caller[c] EXCEPT !.pc = "started", !.service = v]
      /\ \A w \in Services : w # v => svc'[w] = svc[w]
      /\ svc'[v] = "up"
  BY <1>1, <1>3 DEF Typed
<1>5. SlotOf(c) = s /\ SlotOf(c)' = s /\ Carried(c)' = v /\ Pc(c)' = "started"
  BY <1>3, <1>4 DEF Typed, SlotOf, Carried, Pc
<1>6. Typed'
  <2>1. caller \in [Callers -> TaskType] /\ svc' \in [Services -> States]
    BY <1>1, <1>3 DEF Typed, States
  <2>2. caller[c] \in TaskType /\ "started" \in Steps
    BY <2>1 DEF Steps
  <2>3. [caller[c] EXCEPT !.pc = "started", !.service = v] \in TaskType
    BY <2>2 DEF TaskType
  <2>4. caller' \in [Callers -> TaskType]
    BY <1>1, <1>4, <2>1, <2>3
  <2> QED  BY <1>2, <1>3, <2>1, <2>4 DEF Typed
<1>7. OneSlotEach' /\ Live \subseteq Live'
  <2>1. \A d \in Callers : SlotOf(d)' = SlotOf(d)
    BY <1>4, <1>5 DEF SlotOf
  <2> QED  BY <1>2, <1>3, <2>1 DEF OneSlotEach, Live, InMap, SlotOf
<1> HIDE DEF s
<1>8. GoesOn(c, s)
  BY <1>1, <1>2, <1>3, <1>4, <1>5, <1>7 DEF GoesOn, Carrying
<1> QED  BY <1>3, <1>5, <1>6, <1>8, GoesOnKeeps

(* A task sets out: with the map's slot of a key, or a new one.            *)
LEMMA SetsOut ==
  ASSUME LifecycleInv, NEW c \in Callers, Pc(c) = "away", NEW pc \in {"waiting", "peeking", "stopping"},
         NEW k \in Keys, NEW s \in Slots, caller' = [caller EXCEPT ![c] = At(pc, k, s, None)],
         slot' = slot, svc' = svc, OneSlotEach', slots' \in [Keys -> Slots \cup {None}],
         InMap \subseteq InMap' \cup {s}
  PROVE  LifecycleInv'
<1>1. Typed /\ SlotOf(c) = None
  BY DEF LifecycleInv, Placed
<1>2. /\ \A d \in Callers : d # c => caller'[d] = caller[d]
      /\ caller'[c] = At(pc, k, s, None)
  BY <1>1 DEF Typed
<1>3. SlotOf(c)' = s /\ Pc(c)' = pc
  BY <1>2 DEF SlotOf, Pc, At
<1>4. At(pc, k, s, None) \in TaskType
  BY DEF At, Steps, TaskType
<1>5. Typed'
  BY <1>1, <1>4 DEF Typed
<1>6. Live \subseteq Live'
  BY <1>1, <1>2, <1>3 DEF Live, SlotOf
<1>7. GoesOn(c, s)
  BY <1>1, <1>2, <1>3, <1>6 DEF GoesOn, Gated, Emptying, Carrying
<1> QED  BY <1>3, <1>5, <1>7, GoesOnKeeps

LEMMA CallsKeeps == ASSUME LifecycleInv, NEW c \in Callers, NEW k \in Keys, Calls(c, k) PROVE LifecycleInv'
<1>1. Pc(c) = "away" /\ slot' = slot /\ svc' = svc
  BY DEF Calls, Is, Pc
<1>2. Typed /\ OneSlotEach
  BY DEF LifecycleInv
<1>3. CASE slots[k] # None /\ slots' = slots /\ caller' = [caller EXCEPT ![c] = At("waiting", k, slots[k], None)]
  <2>1. slots[k] \in Slots /\ slots' \in [Keys -> Slots \cup {None}] /\ OneSlotEach' /\ InMap' = InMap
    BY <1>2, <1>3 DEF Typed, OneSlotEach, InMap
  <2> QED  BY <1>1, <1>3, <2>1, SetsOut
<1>4. ASSUME NEW s \in FreshSlots, slots[k] = None, slots' = [slots EXCEPT ![k] = s],
             caller' = [caller EXCEPT ![c] = At("waiting", k, s, None)]
      PROVE  LifecycleInv'
  <2>1. s \in Slots /\ s \notin InMap
    BY DEF FreshSlots
  <2>2. slots' \in [Keys -> Slots \cup {None}] /\ slots'[k] = s /\ \A l \in Keys : l # k => slots'[l] = slots[l]
    BY <1>2, <1>4, <2>1 DEF Typed
  <2>3. \A l \in Keys : slots[l] # s
    BY <2>1 DEF InMap
  <2>4. OneSlotEach'
    BY <1>2, <2>2, <2>3 DEF OneSlotEach
  <2>5. InMap \subseteq InMap' \cup {s}
    BY <1>4, <2>2 DEF InMap
  <2> QED  BY <1>1, <1>4, <2>1, <2>2, <2>4, <2>5, SetsOut
<1> QED  BY <1>3, <1>4 DEF Calls

LEMMA PeeksKeeps == ASSUME LifecycleInv, NEW c \in Callers, NEW k \in Keys, Peeks(c, k) PROVE LifecycleInv'
<1>1. /\ Pc(c) = "away" /\ slot' = slot /\ svc' = svc /\ slots' = slots /\ slots[k] # None
      /\ caller' = [caller EXCEPT ![c] = At("peeking", k, slots[k], None)]
  BY DEF Peeks, Is, Pc
<1>2. slots[k] \in Slots /\ slots' \in [Keys -> Slots \cup {None}] /\ OneSlotEach' /\ InMap' = InMap
  BY <1>1 DEF LifecycleInv, Typed, OneSlotEach, InMap
<1> QED  BY <1>1, <1>2, SetsOut

LEMMA UnmapsKeeps == ASSUME LifecycleInv, NEW c \in Callers, NEW k \in Keys, Unmaps(c, k) PROVE LifecycleInv'
<1>1. /\ Pc(c) = "away" /\ slot' = slot /\ svc' = svc /\ slots[k] # None
      /\ slots' = [slots EXCEPT ![k] = None]
      /\ caller' = [caller EXCEPT ![c] = At("stopping", k, slots[k], None)]
  BY DEF Unmaps, Is, Pc
<1>2. Typed /\ OneSlotEach
  BY DEF LifecycleInv
<1>3. slots[k] \in Slots /\ slots' \in [Keys -> Slots \cup {None}]
      /\ slots'[k] = None /\ \A l \in Keys : l # k => slots'[l] = slots[l]
  BY <1>1, <1>2 DEF Typed
<1>4. OneSlotEach'
  BY <1>2, <1>3 DEF OneSlotEach
<1>5. InMap \subseteq InMap' \cup {slots[k]}
  BY <1>3 DEF InMap
<1> QED  BY <1>1, <1>3, <1>4, <1>5, SetsOut

(***************************************************************************)
(* A task gets its lease: of what its slot holds, or of what it started.   *)
(***************************************************************************)
Serves(c, s, v) ==
  /\ UNCHANGED <<slots, svc>> /\ Pc(c) # "using" /\ SlotOf(c) = s
  /\ caller' \in [Callers -> TaskType] /\ \A d \in Callers : d # c => caller'[d] = caller[d]
  /\ caller'[c].pc = "using" /\ caller'[c].slot = s /\ caller'[c].service = v
  /\ slot' \in [Slots -> SlotType] /\ \A t \in Slots : t # s => slot'[t] = slot[t]
  /\ slot'[s].held = v /\ slot'[s].in_flight = slot[s].in_flight + 1
  /\ slot'[s].gate = (IF slot[s].gate = c THEN None ELSE slot[s].gate)
  /\ slot'[s].crashes = slot[s].crashes
  /\ \/ slot[s].held = v /\ svc[v] = "up" /\ Pc(c) \notin Carrying
     \/ Pc(c) \in Carrying /\ Carried(c) = v

LEMMA ServesKeeps ==
  ASSUME LifecycleInv, NEW c \in Callers, NEW s \in Slots, NEW v \in Services, Serves(c, s, v)
  PROVE  LifecycleInv'
<1>a. Typed /\ Placed /\ OneSlotEach /\ GateHeld /\ EmptyWhileStarting /\ Apart /\ NothingLost
      /\ Counted /\ LeasedHeld
  BY DEF LifecycleInv
<1> USE DEF Pc, SlotOf, Carried
<1>b. /\ caller[c].pc # "using" /\ caller[c].slot = s /\ svc' = svc /\ slots' = slots
      /\ \/ slot[s].held = v /\ caller[c].pc \notin Carrying
         \/ caller[c].pc \in Carrying /\ caller[c].service = v
  BY DEF Serves
<1>c. /\ \A d \in Callers : d # c => caller'[d] = caller[d]
      /\ caller'[c].pc = "using" /\ caller'[c].slot = s /\ caller'[c].service = v
  BY <1>a DEF Typed, Serves, At
<1>d. /\ \A t \in Slots : t # s => slot'[t] = slot[t]
      /\ slot'[s].held = v /\ slot'[s].in_flight = slot[s].in_flight + 1
      /\ slot'[s].gate = (IF slot[s].gate = c THEN None ELSE slot[s].gate)
      /\ slot'[s].crashes = slot[s].crashes
  BY <1>a DEF Typed, Serves
<1>e. /\ \A d \in Callers : caller[d].slot \in Slots \cup {None} /\ caller[d].service \in Services \cup {None}
      /\ \A t \in Slots : slot[t].held \in Services \cup {None}
      /\ None \notin Slots /\ None \notin Services /\ None \notin Callers
  BY <1>a DEF Typed, SlotType, TaskType
<1>f. \A d \in Callers : d # c /\ caller[d].pc \in Emptying /\ caller[d].slot = s => FALSE
  <2> SUFFICES ASSUME NEW d \in Callers, d # c, caller[d].pc \in Emptying, caller[d].slot = s PROVE FALSE
    OBVIOUS
  <2>1. slot[s].held = None /\ slot[s].gate = d
    BY <1>a DEF EmptyWhileStarting, GateHeld, Gated, Emptying
  <2>2. caller[c].pc \in Carrying => slot[s].gate = c
    BY <1>a, <1>b DEF GateHeld, Gated, Carrying
  <2> QED  BY <1>b, <1>e, <2>1, <2>2
<1>g. svc[v] \notin {"none", "idled", "orphaned"} /\ slot[s].crashes < MaxCrashes
  <2>1. CASE slot[s].held = v /\ svc[v] = "up"
    BY <1>a, <1>e, <2>1 DEF EmptyWhileStarting
  <2>2. CASE caller[c].pc \in Carrying /\ caller[c].service = v
    BY <1>a, <1>b, <2>2 DEF Placed, LeasedHeld, EmptyWhileStarting, Carrying, Serving, Emptying
  <2> QED  BY <2>1, <2>2 DEF Serves
<1>h. slot[s].held = v \/ slot[s].held = None
  BY <1>a, <1>b DEF EmptyWhileStarting, Carrying, Emptying
<1> USE <1>b, <1>c, <1>d, <1>e
<1>1. Typed'
  <2>1. caller[c].key \in Keys \cup {None} /\ slot[s] \in SlotType
    BY <1>a DEF Typed, TaskType
  <2>2. caller' \in [Callers -> TaskType]
    BY <1>a, <2>1 DEF Typed, Serves, At, Steps
  <2>3. slot' \in [Slots -> SlotType]
    BY DEF Serves
  <2> QED  BY <1>a, <2>2, <2>3 DEF Typed
<1>2. Placed'
  BY <1>a, <1>g DEF Placed, Serving
<1>3. OneSlotEach'
  BY <1>a DEF OneSlotEach
<1>4. GateHeld'
  BY <1>a DEF GateHeld, Gated, Placed
<1>5. EmptyWhileStarting'
  BY <1>a, <1>f, <1>g DEF EmptyWhileStarting, Emptying, Placed
<1>6. Apart'
  <2>1. \A t, u \in Slots : t # u /\ slot'[t].held # None => slot'[t].held # slot'[u].held
    BY <1>a DEF Apart
  <2>2. \A d, e \in Callers : d # e /\ caller'[d].pc \in Carrying /\ caller'[e].pc \in Carrying =>
          caller'[d].service # caller'[e].service
    BY <1>a DEF Apart, Carrying
  <2>3. \A d \in Callers, t \in Slots : caller'[d].pc \in Carrying => slot'[t].held # caller'[d].service
    <3> SUFFICES ASSUME NEW d \in Callers, d # c, caller[d].pc \in Carrying, NEW t \in Slots
                 PROVE  slot'[t].held # caller[d].service
      BY DEF Carrying
    <3>1. slot[t].held # caller[d].service
      BY <1>a DEF Apart
    <3>2. v # caller[d].service
      BY <1>a DEF Apart
    <3> QED  BY <3>1, <3>2
  <2> QED  BY <2>1, <2>2, <2>3 DEF Apart
<1>7. NothingLost'
  <2>1. Live' = Live
    <3>1. \A d \in Callers : caller'[d].slot = caller[d].slot
      OBVIOUS
    <3> QED  BY <3>1 DEF Live, InMap
  <2>2. s \in Live
    BY DEF Live
  <2>3. ASSUME NEW w \in Services, svc[w] = "up"
        PROVE  \/ \E t \in Slots : slot'[t].held = w
               \/ \E d \in Callers : caller'[d].pc \in Carrying /\ caller'[d].service = w
    <3>1. CASE \E t \in Slots : slot[t].held = w
      BY <1>h, <2>3, <3>1
    <3>2. CASE \E d \in Callers : caller[d].pc \in Carrying /\ caller[d].service = w
      BY <3>2
    <3> QED  BY <1>a, <2>3, <3>1, <3>2 DEF NothingLost
  <2>4. \A t \in Slots : slot'[t].held # None => t \in Live'
    BY <1>a, <2>1, <2>2 DEF NothingLost
  <2> QED  BY <2>3, <2>4 DEF NothingLost
<1>8. Counted'
  <2>1. \A t \in Slots : Leased(t)' = IF t = s THEN Leased(t) \cup {c} ELSE Leased(t)
    BY DEF Leased, Is
  <2>2. c \notin Leased(s)
    BY DEF Leased, Is
  <2>3. Cardinality(Leased(s) \cup {c}) = Cardinality(Leased(s)) + 1
    BY <2>2, LeasedFinite, FS_AddElement
  <2> QED  BY <1>a, <2>1, <2>3 DEF Counted
<1>9. LeasedHeld'
  <2>1. ASSUME NEW d \in Callers, d # c, caller[d].pc = "using"
        PROVE  slot'[caller[d].slot].held = caller[d].service \/ svc[caller[d].service] # "up"
    <3>1. /\ slot[caller[d].slot].held = caller[d].service \/ svc[caller[d].service] # "up"
          /\ caller[d].slot \in Slots /\ caller[d].service \in Services
      BY <1>a, <2>1 DEF LeasedHeld, Placed, Serving
    <3> QED  BY <1>h, <3>1
  <2>2. \A d \in Callers : d # c /\ caller[d].pc \in Serving => svc[caller[d].service] \notin {"idled", "orphaned"}
    BY <1>a DEF LeasedHeld
  <2> QED  BY <1>g, <2>1, <2>2 DEF LeasedHeld
<1> QED  BY <1>1, <1>2, <1>3, <1>4, <1>5, <1>6, <1>7, <1>8, <1>9 DEF LifecycleInv

LEMMA LeaseKeeps ==
  ASSUME LifecycleInv, NEW c \in Callers, Pc(c) \in {"looking", "peeking"}, Lease(c)
  PROVE  LifecycleInv'
<1> DEFINE s == caller[c].slot
           v == slot[s].held
<1>1. s \in Slots
  BY HasSlot DEF SlotOf
<1>2. Typed /\ slot[s] \in SlotType
  BY <1>1 DEF LifecycleInv, Typed
<1>3. v \in Services /\ svc[v] = "up" /\ UNCHANGED <<slots, svc>>
  BY <1>1, <1>2 DEF Lease, Runs, SlotType
<1>4. slot' = [slot EXCEPT ![s].in_flight = @ + 1, ![s].gate = IF @ = c THEN None ELSE @]
      /\ caller' = [caller EXCEPT ![c] = At("using", @.key, s, v)]
  BY DEF Lease
<1>5. /\ slot' \in [Slots -> SlotType] /\ \A t \in Slots : t # s => slot'[t] = slot[t]
      /\ slot'[s].held = v /\ slot'[s].in_flight = slot[s].in_flight + 1
      /\ slot'[s].gate = (IF slot[s].gate = c THEN None ELSE slot[s].gate)
      /\ slot'[s].crashes = slot[s].crashes
  <2> DEFINE g == IF slot[s].gate = c THEN None ELSE slot[s].gate
             new == [slot[s] EXCEPT !.in_flight = slot[s].in_flight + 1, !.gate = g]
  <2>0. g \in Callers \cup {None} /\ slot[s].in_flight + 1 \in Nat
    BY <1>2 DEF SlotType
  <2>1. /\ new \in SlotType /\ new.held = v /\ new.in_flight = slot[s].in_flight + 1
        /\ new.gate = g
        /\ new.crashes = slot[s].crashes
    <3> HIDE DEF g
    <3> QED  BY <1>2, <2>0 DEF SlotType
  <2>2. slot' = [slot EXCEPT ![s] = new]
    BY <1>2, <1>4 DEF Typed
  <2> HIDE DEF new
  <2>3. slot' \in [Slots -> SlotType] /\ slot'[s] = new /\ \A t \in Slots : t # s => slot'[t] = slot[t]
    BY <1>1, <1>2, <2>1, <2>2 DEF Typed
  <2> QED  BY <2>1, <2>3
<1>6. /\ caller' \in [Callers -> TaskType] /\ \A d \in Callers : d # c => caller'[d] = caller[d]
      /\ caller'[c].pc = "using" /\ caller'[c].slot = s /\ caller'[c].service = v
  <2>1. At("using", caller[c].key, s, v) \in TaskType
    BY <1>1, <1>2, <1>3 DEF At, TaskType, Steps, Typed
  <2>2. caller' = [caller EXCEPT ![c] = At("using", caller[c].key, s, v)]
    BY <1>4
  <2>3. caller'[c] = At("using", caller[c].key, s, v) /\ \A d \in Callers : d # c => caller'[d] = caller[d]
    BY <1>2, <2>2 DEF Typed
  <2> QED  BY <1>2, <2>1, <2>2, <2>3 DEF Typed, At
<1> HIDE DEF v
<1>7. Serves(c, s, v)
  BY <1>3, <1>5, <1>6 DEF Serves, v, SlotOf, Carrying
<1> QED  BY <1>1, <1>3, <1>7, ServesKeeps

LEMMA HoldsKeeps == ASSUME LifecycleInv, NEW c \in Callers, Holds(c) PROVE LifecycleInv'
<1> DEFINE s == caller[c].slot
           v == caller[c].service
<1>1. Pc(c) = "wanted" /\ UNCHANGED <<slots, svc>>
  BY DEF Holds, Is, Pc
<1>2. /\ s \in Slots /\ v \in Services /\ Typed /\ slot[s] \in SlotType
  BY <1>1, HasSlot DEF LifecycleInv, Placed, Typed, Serving, SlotOf, Carried
<1>3. slot' = [slot EXCEPT ![s].held = v, ![s].in_flight = @ + 1,
                           ![s].gate = IF @ = c THEN None ELSE @]
      /\ caller' = [caller EXCEPT ![c].pc = "using"]
  BY DEF Holds
<1>4. /\ slot' \in [Slots -> SlotType] /\ \A t \in Slots : t # s => slot'[t] = slot[t]
      /\ slot'[s].held = v /\ slot'[s].in_flight = slot[s].in_flight + 1
      /\ slot'[s].gate = (IF slot[s].gate = c THEN None ELSE slot[s].gate)
      /\ slot'[s].crashes = slot[s].crashes
  <2> DEFINE g == IF slot[s].gate = c THEN None ELSE slot[s].gate
             new == [slot[s] EXCEPT !.held = v, !.in_flight = slot[s].in_flight + 1, !.gate = g]
  <2>0. g \in Callers \cup {None} /\ slot[s].in_flight + 1 \in Nat
    BY <1>2 DEF SlotType
  <2>1. /\ new \in SlotType /\ new.held = v /\ new.in_flight = slot[s].in_flight + 1
        /\ new.gate = g
        /\ new.crashes = slot[s].crashes
    <3> HIDE DEF g
    <3> QED  BY <1>2, <2>0 DEF SlotType
  <2>2. slot' = [slot EXCEPT ![s] = new]
    BY <1>2, <1>3 DEF Typed
  <2> HIDE DEF new
  <2>3. slot' \in [Slots -> SlotType] /\ slot'[s] = new /\ \A t \in Slots : t # s => slot'[t] = slot[t]
    BY <1>1, <1>2, <2>1, <2>2 DEF Typed
  <2> QED  BY <2>1, <2>3
<1>5. /\ caller' \in [Callers -> TaskType] /\ \A d \in Callers : d # c => caller'[d] = caller[d]
      /\ caller'[c].pc = "using" /\ caller'[c].slot = s /\ caller'[c].service = v
  BY <1>2, <1>3 DEF Typed, TaskType, Steps
<1>6. Serves(c, s, v)
  BY <1>1, <1>4, <1>5 DEF Serves, SlotOf, Carried, Carrying
<1> QED  BY <1>2, <1>6, ServesKeeps

LEMMA StillEbbs == LifecycleInv /\ UNCHANGED <<slots, slot, svc, caller>> => Ebbs
<1> SUFFICES ASSUME LifecycleInv, UNCHANGED <<slots, slot, svc, caller>> PROVE Ebbs
  OBVIOUS
<1>1. slot \in [Slots -> SlotType] /\ svc \in [Services -> States]
  BY DEF LifecycleInv, Typed
<1>2. \A t \in Slots : slot[t].crashes \in Nat
  BY <1>1 DEF SlotType
<1> QED  BY <1>1, <1>2 DEF Ebbs

LEMMA NextInv == LifecycleInv /\ [LifecycleNext]_lifecycleVars => LifecycleInv'
<1> SUFFICES ASSUME LifecycleInv, [LifecycleNext]_lifecycleVars PROVE LifecycleInv'
  OBVIOUS
<1>1. ASSUME NEW c \in Callers, NEW k \in Keys, Calls(c, k) \/ Peeks(c, k) \/ Unmaps(c, k)
      PROVE  LifecycleInv'
  BY <1>1, CallsKeeps, PeeksKeeps, UnmapsKeeps
<1>2. ASSUME NEW c \in Callers, Proceeds(c) PROVE LifecycleInv'
  <2>1. CASE Enters(c)      BY <2>1, EntersKeeps
  <2>2. CASE Finds(c)       BY <2>2, LeaseKeeps DEF Finds, Is, Pc
  <2>3. CASE HeldBack(c)    BY <2>3, HeldBackKeeps
  <2>4. CASE MakesRoom(c)   BY <2>4, MakesRoomKeeps
  <2>5. CASE Started(c)     BY <2>5, StartedKeeps
  <2>6. CASE StartFails(c)  BY <2>6, StartFailsKeeps
  <2>7. CASE Wanted(c)      BY <2>7, WantedKeeps
  <2>8. CASE Unwanted(c)    BY <2>8, UnwantedKeeps
  <2>9. CASE Holds(c)       BY <2>9, HoldsKeeps
  <2>10. CASE Gets(c)       BY <2>10, LeaseKeeps DEF Gets, Is, Pc
  <2>11. CASE GetsNone(c)   BY <2>11, GetsNoneKeeps
  <2>12. CASE Drops(c)      BY <2>12, DropsKeeps
  <2>13. CASE Takes(c)      BY <2>13, TakesKeeps
  <2> QED  BY <1>2, <2>1, <2>2, <2>3, <2>4, <2>5, <2>6, <2>7, <2>8, <2>9, <2>10, <2>11, <2>12,
              <2>13 DEF Proceeds
<1>3. CASE Evicts
  BY <1>3, EvictsEbbs, EbbsKeeps
<1>4. CASE MadeRoom
  BY <1>4, StillEbbs, EbbsKeeps DEF MadeRoom
<1>5. ASSUME NEW s \in Slots, Reaps(s) \/ Forgets(s) PROVE LifecycleInv'
  BY <1>5, ReapsEbbs, ForgetsEbbs, EbbsKeeps
<1>6. ASSUME NEW v \in Services, Exits(v) \/ Ends(v) PROVE LifecycleInv'
  BY <1>6, ExitsEbbs, EbbsKeeps
<1>7. CASE UNCHANGED lifecycleVars
  BY <1>7, StillEbbs, EbbsKeeps DEF lifecycleVars
<1> QED  BY <1>1, <1>2, <1>3, <1>4, <1>5, <1>6, <1>7 DEF LifecycleNext

(* The inductive invariant holds of every behaviour.                       *)
THEOREM LifecycleInvariant == LifecycleSpec => []LifecycleInv
BY InitInv, NextInv, PTL DEF LifecycleSpec

-----------------------------------------------------------------------------
(* What a slot counts and holds stays in range: a service that ended is    *)
(* never counted past the crash budget, and no two keys share a slot.      *)
THEOREM LifecycleTypes == LifecycleSpec => []LifecycleTypeOK
<1>1. LifecycleInv => LifecycleTypeOK
  BY DEF LifecycleInv, Typed, SlotType, States, OneSlotEach, LifecycleTypeOK
<1> QED  BY <1>1, LifecycleInvariant, PTL

(* While a service is leased its slot counts every lease, and neither the  *)
(* reaper nor a task that lets its slot go ends it, for any number of keys *)
(* and tasks.                                                              *)
THEOREM LeasesHold == LifecycleSpec => []LeaseHolds
<1>1. LifecycleInv => LeaseHolds
  <2> SUFFICES ASSUME LifecycleInv, NEW c \in Callers, Is(c, "using")
               PROVE  /\ slot[caller[c].slot].in_flight = Cardinality(Leased(caller[c].slot))
                      /\ svc[caller[c].service] \notin {"idled", "orphaned"}
    BY DEF LeaseHolds
  <2>1. caller[c].slot \in Slots
    BY HasSlot DEF Is, Pc, SlotOf
  <2> QED  BY <2>1 DEF LifecycleInv, Counted, LeasedHeld, Serving, Is, Pc, Carried
<1> QED  BY <1>1, LifecycleInvariant, PTL

-----------------------------------------------------------------------------
(* A task lets its slot go: what of the slots and services it leaves.      *)
LateKept == \A v \in late : (\E d \in Callers : caller'[d].service = v) => v \in late'

Leaves(c, s) ==
  \E st \in [Slots -> SlotType], sv \in [Services -> States], order \in {lru, Used(s)} :
    /\ \A t \in Slots : st[t].held \in {slot[t].held, None}
    /\ \A v \in Services : sv[v] \in {svc[v], "stopped"}
    /\ Pc(c) = "stopping" => st[s].held = None
    /\ Releases(s, st, sv, order) /\ Goes(c) /\ UNCHANGED <<slots, room, strays>> /\ LateKept

LEMMA FailsLeaves ==
  ASSUME LifecycleInv, NEW c \in Callers, NEW s \in Slots, SlotOf(c) = s, Pc(c) # "stopping",
         NEW st, st \in {slot, Counts(s)}, Fails(c, st)
  PROVE  Leaves(c, s)
<1>1. slot \in [Slots -> SlotType] /\ svc \in [Services -> States]
  BY DEF LifecycleInv, Typed
<1>2. st \in [Slots -> SlotType] /\ \A t \in Slots : st[t].held \in {slot[t].held, None}
  BY <1>1, CountsProperties
<1> DEFINE left == LeavesGate(c, st)
<1>3. left \in [Slots -> SlotType] /\ \A t \in Slots : left[t].held = st[t].held
  <2>1. /\ left \in [Slots -> SlotType] /\ \A t \in Slots : t # s => left[t] = st[t]
        /\ left[s] = [st[s] EXCEPT !.gate = IF @ = c THEN None ELSE @]
    BY <1>2, LeavesGateProperties
  <2>2. left[s].held = st[s].held
    BY <1>2, <2>1 DEF SlotType
  <2> QED  BY <2>1, <2>2
<1>4. /\ Releases(s, left, svc, lru) /\ Goes(c) /\ UNCHANGED <<slots, room, strays>>
      /\ LateKept
  BY DEF Fails, SlotOf, LateKept
<1> HIDE DEF left
<1> QED  BY <1>1, <1>2, <1>3, <1>4 DEF Leaves

LEMMA Leaving ==
  ASSUME LifecycleInv, NEW c \in Callers,
         HeldBack(c) \/ StartFails(c) \/ GetsNone(c) \/ Unwanted(c) \/ Takes(c) \/ Drops(c)
  PROVE  SlotOf(c) \in Slots /\ Leaves(c, SlotOf(c))
<1> DEFINE s == caller[c].slot
<1>1. s \in Slots /\ s = SlotOf(c)
  BY HasSlot DEF HeldBack, StartFails, GetsNone, Unwanted, Takes, Drops, Is, Pc, SlotOf
<1>2. slot \in [Slots -> SlotType] /\ svc \in [Services -> States]
  BY DEF LifecycleInv, Typed
<1> SUFFICES Leaves(c, s)
  BY <1>1
<1>3. CASE HeldBack(c) \/ StartFails(c) \/ GetsNone(c)
  BY <1>1, <1>3, FailsLeaves DEF HeldBack, StartFails, GetsNone, SlotOf, Is, Pc
<1>4. CASE Unwanted(c)
  <2> DEFINE st == LeavesGate(c, slot)
             sv == [svc EXCEPT ![caller[c].service] = IF @ = "up" THEN "stopped" ELSE @]
  <2>1. sv \in [Services -> States] /\ \A v \in Services : sv[v] \in {svc[v], "stopped"}
    BY <1>2 DEF States, Closing
  <2>2. st \in [Slots -> SlotType] /\ \A t \in Slots : st[t].held = slot[t].held
    <3>1. /\ st \in [Slots -> SlotType] /\ \A t \in Slots : t # s => st[t] = slot[t]
          /\ st[s] = [slot[s] EXCEPT !.gate = IF @ = c THEN None ELSE @]
      BY <1>1, <1>2, LeavesGateProperties DEF SlotOf
    <3>2. st[s].held = slot[s].held
      BY <1>1, <1>2, <3>1 DEF SlotType
    <3> QED  BY <3>1, <3>2
  <2>3. Releases(s, st, sv, lru) /\ Goes(c) /\ UNCHANGED <<slots, room, strays>> /\ LateKept
    BY <1>4 DEF Unwanted, LateKept
  <2>4. Pc(c) # "stopping"
    BY <1>4 DEF Unwanted, Is, Pc
  <2> HIDE DEF st, sv, s
  <2> QED  BY <2>1, <2>2, <2>3, <2>4 DEF Leaves
<1>5. CASE Takes(c)
  <2>1. /\ Emptied(s) \in [Slots -> SlotType] /\ Emptied(s)[s].held = None
        /\ \A t \in Slots : Emptied(s)[t].held \in {slot[t].held, None}
    BY <1>1, <1>2 DEF Emptied, SlotType
  <2>2. /\ Closes(s, "stopped") \in [Services -> States]
        /\ \A v \in Services : Closes(s, "stopped")[v] \in {svc[v], "stopped"}
    BY <1>2 DEF Closes, States, Closing
  <2>3. /\ Releases(s, Emptied(s), Closes(s, "stopped"), lru) /\ Goes(c)
        /\ UNCHANGED <<slots, room, strays>> /\ LateKept
    BY <1>5 DEF Takes, LateKept
  <2> HIDE DEF s
  <2> QED  BY <2>1, <2>2, <2>3 DEF Leaves
<1>6. CASE Drops(c)
  <2> DEFINE n == IF slot[s].in_flight > 0 THEN slot[s].in_flight - 1 ELSE 0
             st == [slot EXCEPT ![s].in_flight = IF @ > 0 THEN @ - 1 ELSE 0]
  <2>1. st \in [Slots -> SlotType] /\ \A t \in Slots : st[t].held = slot[t].held
    <3>1. slot[s] \in SlotType /\ n \in Nat
      BY <1>1, <1>2 DEF SlotType
    <3>2. st = [slot EXCEPT ![s].in_flight = n]
      BY <1>1, <1>2
    <3> HIDE DEF n
    <3>3. st = [slot EXCEPT ![s] = [slot[s] EXCEPT !.in_flight = n]]
      BY <1>2, <3>2
    <3>4. [slot[s] EXCEPT !.in_flight = n] \in SlotType /\ [slot[s] EXCEPT !.in_flight = n].held = slot[s].held
      BY <3>1 DEF SlotType
    <3> HIDE DEF st
    <3> QED  BY <1>1, <1>2, <3>3, <3>4
  <2>2. Releases(s, st, svc, Used(s)) /\ Goes(c) /\ UNCHANGED <<slots, room, strays>> /\ LateKept
    BY <1>6 DEF Drops, LateKept
  <2>3. Pc(c) # "stopping"
    BY <1>6 DEF Drops, Is, Pc
  <2> HIDE DEF st, s
  <2> QED  BY <1>2, <2>1, <2>2, <2>3 DEF Leaves
<1> QED  BY <1>3, <1>4, <1>5, <1>6

-----------------------------------------------------------------------------
(***************************************************************************)
(* What nothing would ever stop.  A service that runs and is held is where *)
(* a stop finds it, for a slot is given a service only after the map was   *)
(* asked, and one that leaves the map has a stop at work on it; a stop     *)
(* between the two makes the service a stray.  Only strays are orphaned.   *)
(***************************************************************************)
OrphansStray == \A v \in Services : svc[v] = "orphaned" => v \in strays

HeldStoppable ==
  \A s \in Slots : slot[s].held # None /\ svc[slot[s].held] = "up" =>
    Stoppable(s) \/ slot[s].held \in strays

WantedMapped ==
  \A c \in Callers : Pc(c) = "wanted" /\ svc[Carried(c)] = "up" =>
    SlotOf(c) \in InMap \/ Carried(c) \in strays

OwnedInv == OrphansStray /\ HeldStoppable /\ WantedMapped

LEMMA InitOwned == LifecycleInit => OwnedInv
BY DEF LifecycleInit, NewSlot, Away, At, Pc, OwnedInv, OrphansStray, HeldStoppable, WantedMapped

(* Steps that give no slot a service and take none out of the map.         *)
Settles ==
  /\ InMap \subseteq InMap'
  /\ \A v \in Services :
       /\ svc'[v] = "up" => svc[v] \in {"none", "up"}
       /\ svc'[v] = "orphaned" => svc[v] = "orphaned" \/ v \in strays
       /\ v \in strays => v \in strays' \/ svc'[v] \notin {"up", "orphaned"}
  /\ \A s \in Slots : slot'[s].held \in {slot[s].held, None}
  /\ \A c \in Callers : Pc(c)' = "wanted" =>
       \/ SlotOf(c)' \in InMap'
       \/ Pc(c) = "wanted" /\ SlotOf(c)' = SlotOf(c) /\ Carried(c)' = Carried(c)
  /\ \A c \in Callers : Pc(c) = "stopping" =>
       \/ Pc(c)' = "stopping" /\ SlotOf(c)' = SlotOf(c)
       \/ slot'[SlotOf(c)].held = None

LEMMA SettlesKeeps == LifecycleInv /\ OwnedInv /\ Settles => OwnedInv'
<1> SUFFICES ASSUME LifecycleInv, OwnedInv, Settles PROVE OwnedInv'
  OBVIOUS
<1>a. Typed /\ Placed /\ OrphansStray /\ HeldStoppable /\ WantedMapped
  BY DEF LifecycleInv, OwnedInv
<1>1. OrphansStray'
  BY <1>a DEF OrphansStray, Settles
<1>2. ASSUME NEW s \in Slots, slot'[s].held # None, svc'[slot'[s].held] = "up"
      PROVE  Stoppable(s)' \/ slot'[s].held \in strays'
  <2> DEFINE v == slot[s].held
  <2>1. slot'[s].held = v /\ v \in Services /\ svc[v] = "up"
    BY <1>a, <1>2 DEF Settles, Typed, Placed, SlotType
  <2>2. CASE v \in strays
    BY <1>2, <2>1, <2>2 DEF Settles
  <2>3. CASE s \in InMap
    BY <2>3 DEF Settles, Stoppable
  <2>4. CASE \E c \in Callers : Is(c, "stopping") /\ caller[c].slot = s
    BY <1>2, <2>4 DEF Settles, Stoppable, Is, Pc, SlotOf
  <2> QED  BY <1>a, <1>2, <2>1, <2>2, <2>3, <2>4 DEF HeldStoppable, Stoppable
<1>3. ASSUME NEW c \in Callers, Pc(c)' = "wanted", svc'[Carried(c)'] = "up"
      PROVE  SlotOf(c)' \in InMap' \/ Carried(c)' \in strays'
  <2>1. CASE Pc(c) = "wanted" /\ SlotOf(c)' = SlotOf(c) /\ Carried(c)' = Carried(c)
    <3>1. Carried(c) \in Services /\ svc[Carried(c)] = "up"
      BY <1>a, <1>3, <2>1 DEF Settles, Placed, Serving
    <3>2. SlotOf(c) \in InMap \/ Carried(c) \in strays
      BY <1>a, <2>1, <3>1 DEF WantedMapped
    <3> QED  BY <1>3, <2>1, <3>1, <3>2 DEF Settles
  <2> QED  BY <1>3, <2>1 DEF Settles
<1> QED  BY <1>1, <1>2, <1>3 DEF OwnedInv, HeldStoppable, WantedMapped

LEMMA MovesSettles ==
  ASSUME LifecycleInv, NEW c \in Callers, NEW task,
         caller' = [caller EXCEPT ![c] = task], Pc(c) # "stopping", strays' = strays,
         InMap \subseteq InMap', task.pc = "wanted" => task.slot \in InMap',
         \A v \in Services : svc'[v] = svc[v] \/ (svc[v] = "none" /\ svc'[v] = "up"),
         \A s \in Slots : slot'[s].held \in {slot[s].held, None}
  PROVE  Settles
<1>1. caller'[c] = task /\ \A d \in Callers : d # c => caller'[d] = caller[d]
  BY DEF LifecycleInv, Typed
<1>2. ASSUME NEW d \in Callers, Pc(d)' = "wanted"
      PROVE  \/ SlotOf(d)' \in InMap'
             \/ Pc(d) = "wanted" /\ SlotOf(d)' = SlotOf(d) /\ Carried(d)' = Carried(d)
  BY <1>1, <1>2 DEF Pc, SlotOf, Carried
<1>3. \A d \in Callers : Pc(d) = "stopping" => Pc(d)' = "stopping" /\ SlotOf(d)' = SlotOf(d)
  BY <1>1 DEF Pc, SlotOf
<1> QED  BY <1>2, <1>3 DEF Settles

(* A slot let go while it still holds what runs held a stray.              *)
LEMMA LeavesSettles ==
  ASSUME LifecycleInv, OwnedInv, NEW c \in Callers, NEW s \in Slots, SlotOf(c) = s, Leaves(c, s)
  PROVE  Settles
<1>a. Typed /\ HeldStoppable
  BY DEF LifecycleInv, OwnedInv
<1>1. PICK st \in [Slots -> SlotType], sv \in [Services -> States], order \in {lru, Used(s)} :
        /\ \A t \in Slots : st[t].held \in {slot[t].held, None}
        /\ \A v \in Services : sv[v] \in {svc[v], "stopped"}
        /\ Pc(c) = "stopping" => st[s].held = None
        /\ Releases(s, st, sv, order) /\ Goes(c) /\ UNCHANGED <<slots, room, strays>> /\ LateKept
  BY DEF Leaves
<1>2. /\ caller'[c].pc = "away" /\ \A d \in Callers : d # c => caller'[d] = caller[d]
      /\ InMap' = InMap /\ strays' = strays
  BY <1>a, <1>1 DEF Typed, Goes, Away, At, InMap
<1>3. \A t \in Slots : slot'[t].held \in {slot[t].held, None, st[t].held}
  BY <1>1 DEF Releases, NewSlot
<1>4. ASSUME NEW v \in Services, svc'[v] = "orphaned" PROVE svc[v] = "orphaned" \/ v \in strays
  <2>1. CASE svc'[v] = sv[v]
    BY <1>1, <1>4, <2>1
  <2>2. CASE svc'[v] # sv[v]
    <3>1. Gone(s) /\ st[s].held = v /\ sv[v] = "up"
      BY <1>1, <2>2 DEF Releases
    <3>2. v # None /\ slot[s].held = v /\ svc[v] = "up" /\ Pc(c) # "stopping"
      BY <1>1, <3>1
    <3>3. ~Stoppable(s)
      BY <1>2, <3>1, <3>2 DEF Stoppable, Gone, Is, Pc
    <3> QED  BY <1>a, <3>2, <3>3 DEF HeldStoppable
  <2> QED  BY <2>1, <2>2
<1>5. \A v \in Services : svc'[v] = "up" => svc[v] = "up"
  BY <1>1 DEF Releases
<1>6. Pc(c) = "stopping" => slot'[s].held = None
  BY <1>1 DEF Releases, NewSlot
<1>7. \A d \in Callers : Pc(d)' = "wanted" =>
        Pc(d) = "wanted" /\ SlotOf(d)' = SlotOf(d) /\ Carried(d)' = Carried(d)
  BY <1>2 DEF Pc, SlotOf, Carried
<1>8. \A d \in Callers : Pc(d) = "stopping" =>
        (Pc(d)' = "stopping" /\ SlotOf(d)' = SlotOf(d)) \/ slot'[SlotOf(d)].held = None
  BY <1>2, <1>6 DEF Pc, SlotOf
<1> QED  BY <1>1, <1>2, <1>3, <1>4, <1>5, <1>7, <1>8 DEF Settles

LEMMA EbbsSettles ==
  ASSUME LifecycleInv, Ebbs,
         \A v \in strays : v \in strays' \/ svc'[v] = "ended"
  PROVE  Settles
<1>1. \A v \in Services : /\ svc'[v] = "up" => svc[v] = "up"
                          /\ svc'[v] = "orphaned" => svc[v] = "orphaned"
  BY DEF Ebbs
<1>2. UNCHANGED <<slots, caller>> /\ \A s \in Slots : slot'[s].held \in {slot[s].held, None}
  BY DEF Ebbs
<1> QED  BY <1>1, <1>2 DEF Settles, InMap, Pc, SlotOf, Carried

LEMMA OnwardSettles ==
  ASSUME LifecycleInv, NEW c \in Callers,
         \/ Enters(c) \/ Started(c) \/ Wanted(c) \/ MakesRoom(c) \/ Finds(c) \/ Gets(c)
         \/ \E k \in Keys : Calls(c, k) \/ Peeks(c, k)
  PROVE  Settles
<1>1. slot \in [Slots -> SlotType] /\ svc \in [Services -> States] /\ caller \in [Callers -> TaskType]
  BY DEF LifecycleInv, Typed
<1>2. CASE Enters(c)
  <2>1. \A s \in Slots : slot'[s].held = slot[s].held
    BY <1>1, <1>2 DEF Enters, SlotType
  <2> DEFINE task == [caller[c] EXCEPT !.pc = "looking"]
  <2>2. caller' = [caller EXCEPT ![c] = task] /\ task.pc # "wanted"
    BY <1>1, <1>2 DEF Enters, TaskType
  <2>3. svc' = svc /\ strays' = strays /\ InMap' = InMap /\ Pc(c) # "stopping"
    BY <1>2 DEF Enters, InMap, Is, Pc
  <2> HIDE DEF task
  <2> QED  BY <2>1, <2>2, <2>3, MovesSettles
<1>3. CASE Started(c)
  <2>1. PICK v \in Services : /\ svc' = [svc EXCEPT ![v] = "up"] /\ svc[v] = "none"
                              /\ caller' = [caller EXCEPT ![c].pc = "started", ![c].service = v]
    BY <1>3 DEF Started, Unstarted
  <2> DEFINE task == [caller[c] EXCEPT !.pc = "started", !.service = v]
  <2>2. caller' = [caller EXCEPT ![c] = task] /\ task.pc # "wanted"
    <3>1. caller[c] \in TaskType
      BY <1>1
    <3>2. task.pc = "started"
      BY <3>1 DEF TaskType
    <3> QED  BY <1>1, <2>1, <3>2
  <2>3. \A w \in Services : svc'[w] = svc[w] \/ (svc[w] = "none" /\ svc'[w] = "up")
    BY <1>1, <2>1
  <2>4. slot' = slot /\ strays' = strays /\ InMap' = InMap /\ Pc(c) # "stopping"
    BY <1>3 DEF Started, InMap, Is, Pc
  <2> HIDE DEF task
  <2> QED  BY <2>2, <2>3, <2>4, MovesSettles
<1>4. CASE Wanted(c)
  <2> DEFINE task == [caller[c] EXCEPT !.pc = "wanted"]
  <2>1. caller' = [caller EXCEPT ![c] = task] /\ task.slot \in InMap
    BY <1>1, <1>4 DEF Wanted, TaskType
  <2>2. slot' = slot /\ svc' = svc /\ strays' = strays /\ InMap' = InMap /\ Pc(c) # "stopping"
    BY <1>4 DEF Wanted, InMap, Is, Pc
  <2> HIDE DEF task
  <2> QED  BY <2>1, <2>2, MovesSettles
<1>5. CASE MakesRoom(c)
  <2> DEFINE s == caller[c].slot
             task == [caller[c] EXCEPT !.pc = "starting"]
  <2>1. s \in Slots /\ slot' = Counts(s) /\ Pc(c) # "stopping"
    BY <1>5, HasSlot DEF MakesRoom, Is, Pc, SlotOf
  <2>2. \A t \in Slots : slot'[t].held \in {slot[t].held, None}
    BY <2>1, CountsProperties
  <2>3. caller' = [caller EXCEPT ![c] = task] /\ task.pc # "wanted"
    BY <1>1, <1>5 DEF MakesRoom, TaskType
  <2>4. svc' = svc /\ strays' = strays /\ InMap' = InMap
    BY <1>5 DEF MakesRoom, InMap
  <2> HIDE DEF task
  <2> QED  BY <2>1, <2>2, <2>3, <2>4, MovesSettles
<1>6. CASE Finds(c) \/ Gets(c)
  <2> DEFINE s == caller[c].slot
             task == At("using", caller[c].key, s, slot[s].held)
  <2>1. Lease(c) /\ Pc(c) # "stopping" /\ s \in Slots
    BY <1>6, HasSlot DEF Finds, Gets, Is, Pc, SlotOf
  <2>2. \A t \in Slots : slot'[t].held = slot[t].held
    BY <1>1, <2>1 DEF Lease, SlotType
  <2>3. caller' = [caller EXCEPT ![c] = task] /\ task.pc # "wanted"
    BY <1>1, <2>1 DEF Lease, At
  <2>4. svc' = svc /\ strays' = strays /\ InMap' = InMap
    BY <2>1 DEF Lease, InMap
  <2> HIDE DEF task
  <2> QED  BY <2>1, <2>2, <2>3, <2>4, MovesSettles
<1>7. ASSUME NEW k \in Keys, Calls(c, k) \/ Peeks(c, k) PROVE Settles
  <2>1. slot' = slot /\ svc' = svc /\ strays' = strays /\ Pc(c) # "stopping"
    BY <1>7 DEF Calls, Peeks, Is, Pc
  <2>2. InMap \subseteq InMap'
    BY <1>7 DEF Calls, Peeks, InMap, LifecycleInv, Typed
  <2>3. \E pc \in {"waiting", "peeking"}, s \in Slots \cup {None} :
          caller' = [caller EXCEPT ![c] = At(pc, k, s, None)]
    <3>1. CASE Calls(c, k)  BY <3>1 DEF Calls, LifecycleInv, Typed, FreshSlots
    <3>2. CASE Peeks(c, k)  BY <3>2 DEF Peeks, LifecycleInv, Typed
    <3> QED  BY <1>7, <3>1, <3>2
  <2>a. \A pc \in {"waiting", "peeking"}, s \in Slots \cup {None} : At(pc, k, s, None).pc # "wanted"
    BY DEF At
  <2>4. PICK task : caller' = [caller EXCEPT ![c] = task] /\ task.pc # "wanted"
    BY <2>3, <2>a
  <2> QED  BY <2>1, <2>2, <2>4, MovesSettles
<1> QED  BY <1>2, <1>3, <1>4, <1>5, <1>6, <1>7

(* The slot leaves the map with a stop at work on it.                      *)
LEMMA UnmapsOwned ==
  ASSUME LifecycleInv, OwnedInv, NEW c \in Callers, NEW k \in Keys, Unmaps(c, k)
  PROVE  OwnedInv'
<1>a. Typed /\ OrphansStray /\ HeldStoppable /\ WantedMapped
  BY DEF LifecycleInv, OwnedInv
<1>1. /\ slots' = [slots EXCEPT ![k] = None] /\ slot' = slot /\ svc' = svc
      /\ strays' = strays \cup {caller[d].service : d \in {e \in Callers : /\ Is(e, "wanted")
                                                                      /\ caller[e].slot = slots[k]}}
      /\ Pc(c) = "away"
  BY DEF Unmaps, Is, Pc
<1>2. /\ caller'[c].pc = "stopping" /\ caller'[c].slot = slots[k]
      /\ \A d \in Callers : d # c => caller'[d] = caller[d]
  BY <1>a DEF Unmaps, Typed, At
<1>3. \A s \in InMap : s \in InMap' \/ s = slots[k]
  BY <1>a, <1>1 DEF Typed, InMap
<1>4. OrphansStray'
  BY <1>a, <1>1 DEF OrphansStray
<1>5. ASSUME NEW s \in Slots, Stoppable(s) PROVE Stoppable(s)'
  <2>1. CASE s \in InMap
    BY <1>2, <1>3, <2>1 DEF Stoppable, Is
  <2>2. CASE \E d \in Callers : Is(d, "stopping") /\ caller[d].slot = s
    <3>1. PICK d \in Callers : Is(d, "stopping") /\ caller[d].slot = s
      BY <2>2
    <3>2. d # c
      BY <1>1, <3>1 DEF Is, Pc
    <3> QED  BY <1>2, <3>1, <3>2 DEF Stoppable, Is
  <2> QED  BY <1>5, <2>1, <2>2 DEF Stoppable
<1>6. HeldStoppable'
  BY <1>a, <1>1, <1>5 DEF HeldStoppable
<1>7. ASSUME NEW d \in Callers, Pc(d)' = "wanted", svc'[Carried(d)'] = "up"
      PROVE  SlotOf(d)' \in InMap' \/ Carried(d)' \in strays'
  <2>1. caller'[d] = caller[d] /\ Pc(d) = "wanted" /\ svc[Carried(d)] = "up"
    BY <1>1, <1>2, <1>7 DEF Pc, Carried
  <2>2. caller[d].slot \in InMap \/ caller[d].service \in strays
    BY <1>a, <2>1 DEF WantedMapped, SlotOf, Carried
  <2>3. caller[d].slot = slots[k] => caller[d].service \in strays'
    BY <1>1, <2>1 DEF Is, Pc
  <2> QED  BY <1>1, <1>3, <2>1, <2>2, <2>3 DEF SlotOf, Carried
<1> QED  BY <1>4, <1>6, <1>7 DEF OwnedInv, WantedMapped

(* The slot is given what was wanted: it is in the map, or a stray.        *)
LEMMA HoldsOwned ==
  ASSUME LifecycleInv, OwnedInv, NEW c \in Callers, Holds(c)
  PROVE  OwnedInv'
<1>a. Typed /\ OrphansStray /\ HeldStoppable /\ WantedMapped
  BY DEF LifecycleInv, OwnedInv
<1> DEFINE s == caller[c].slot
<1>1. s \in Slots /\ Pc(c) = "wanted" /\ svc' = svc /\ strays' = strays /\ InMap' = InMap
  BY HasSlot DEF Holds, Is, Pc, SlotOf, InMap
<1>2. /\ slot'[s].held = caller[c].service
      /\ \A t \in Slots : t # s => slot'[t] = slot[t]
  BY <1>a, <1>1 DEF Holds, Typed, SlotType
<1>3. /\ caller'[c].pc = "using"
      /\ \A d \in Callers : d # c => caller'[d] = caller[d]
  BY <1>a DEF Holds, Typed, TaskType
<1>4. \A t \in Slots : Stoppable(t) => Stoppable(t)'
  BY <1>1, <1>3 DEF Stoppable, Is, Pc
<1>5. OrphansStray'
  BY <1>a, <1>1 DEF OrphansStray
<1>6. ASSUME NEW t \in Slots, slot'[t].held # None, svc'[slot'[t].held] = "up"
      PROVE  Stoppable(t)' \/ slot'[t].held \in strays'
  <2>1. CASE t = s
    <3>1. s \in InMap \/ caller[c].service \in strays
      BY <1>a, <1>1, <1>2, <1>6, <2>1 DEF WantedMapped, SlotOf, Carried
    <3> QED  BY <1>1, <1>2, <2>1, <3>1 DEF Stoppable
  <2>2. CASE t # s
    BY <1>a, <1>1, <1>2, <1>4, <1>6, <2>2 DEF HeldStoppable
  <2> QED  BY <2>1, <2>2
<1>7. WantedMapped'
  BY <1>a, <1>1, <1>3 DEF WantedMapped, Pc, SlotOf, Carried
<1> QED  BY <1>5, <1>6, <1>7 DEF OwnedInv, HeldStoppable

LEMMA NextOwned == LifecycleInv /\ OwnedInv /\ [LifecycleNext]_lifecycleVars => OwnedInv'
<1> SUFFICES ASSUME LifecycleInv, OwnedInv, [LifecycleNext]_lifecycleVars PROVE OwnedInv'
  OBVIOUS
<1>1. ASSUME NEW c \in Callers, NEW k \in Keys, Calls(c, k) \/ Peeks(c, k) \/ Unmaps(c, k)
      PROVE  OwnedInv'
  BY <1>1, OnwardSettles, SettlesKeeps, UnmapsOwned
<1>2. ASSUME NEW c \in Callers, Proceeds(c) PROVE OwnedInv'
  <2>1. CASE Enters(c) \/ Started(c) \/ Wanted(c) \/ MakesRoom(c) \/ Finds(c) \/ Gets(c)
    BY <2>1, OnwardSettles, SettlesKeeps
  <2>2. CASE Holds(c)
    BY <2>2, HoldsOwned
  <2>3. CASE HeldBack(c) \/ StartFails(c) \/ GetsNone(c) \/ Unwanted(c) \/ Takes(c) \/ Drops(c)
    BY <2>3, Leaving, LeavesSettles, SettlesKeeps
  <2> QED  BY <1>2, <2>1, <2>2, <2>3 DEF Proceeds
<1>3. CASE Evicts
  BY <1>3, EvictsEbbs, EbbsSettles, SettlesKeeps DEF Evicts
<1>4. CASE MadeRoom
  BY <1>4, StillEbbs, EbbsSettles, SettlesKeeps DEF MadeRoom
<1>5. ASSUME NEW s \in Slots, Reaps(s) \/ Forgets(s) PROVE OwnedInv'
  BY <1>5, ReapsEbbs, ForgetsEbbs, EbbsSettles, SettlesKeeps DEF Reaps, Forgets
<1>6. ASSUME NEW v \in Services, Exits(v) \/ Ends(v) PROVE OwnedInv'
  <2>1. strays' = strays \ {v} /\ svc' = [svc EXCEPT ![v] = "ended"]
    BY <1>6 DEF Exits, Ends
  <2>2. svc'[v] = "ended"
    BY <2>1 DEF LifecycleInv, Typed
  <2> QED  BY <1>6, <2>1, <2>2, ExitsEbbs, EbbsSettles, SettlesKeeps
<1>7. CASE UNCHANGED lifecycleVars
  BY <1>7, StillEbbs, EbbsSettles, SettlesKeeps DEF lifecycleVars
<1> QED  BY <1>1, <1>2, <1>3, <1>4, <1>5, <1>6, <1>7 DEF LifecycleNext

(* One running program to a slot, for starts are serialised by the slot's  *)
(* gate; and every program that runs is on its way to its slot or held     *)
(* where a stop finds it, but for those a stop overtook between            *)
(* still_wanted and the slot: only they can be left running as orphans.    *)
THEOREM ServicesOwned == LifecycleSpec => []OneOwned
<1> DEFINE behind(s) == {v \in Starting(s) \cup {slot[s].held} : v # None /\ svc[v] = "up"}
<1>1. ASSUME LifecycleInv, OwnedInv PROVE OneOwned
  <2>a. Typed /\ Placed /\ GateHeld /\ EmptyWhileStarting /\ NothingLost
    BY <1>1 DEF LifecycleInv
  <2>1. ASSUME NEW s \in Slots PROVE Cardinality(behind(s)) <= 1
    <3>1. ASSUME NEW v \in behind(s), NEW w \in behind(s) PROVE v = w
      <4>1. ASSUME NEW u \in behind(s)
            PROVE  \/ u = slot[s].held /\ u # None
                   \/ \E c \in Callers : Pc(c) \in Carrying /\ SlotOf(c) = s /\ Carried(c) = u
        BY DEF Starting, Is, Pc, SlotOf, Carried, Carrying
      <4>2. \A c \in Callers : Pc(c) \in Carrying /\ SlotOf(c) = s =>
              slot[s].gate = c /\ slot[s].held = None
        BY <2>a DEF GateHeld, EmptyWhileStarting, Gated, Emptying, Carrying
      <4> QED  BY <4>1, <4>2
    <3> HIDE DEF behind
    <3>2. CASE behind(s) = {}
      BY <3>2, FS_EmptySet
    <3>3. ASSUME NEW v \in behind(s) PROVE Cardinality(behind(s)) <= 1
      <4>1. behind(s) = {v}
        BY <3>1, <3>3
      <4> QED  BY <4>1, FS_Singleton
    <3> QED  BY <3>2, <3>3
  <2>2. ASSUME NEW v \in Services \ strays, svc[v] = "up"
        PROVE  \E s \in Slots : v \in Starting(s) \/ (slot[s].held = v /\ Stoppable(s))
    <3>1. CASE \E s \in Slots : slot[s].held = v
      <4>1. v # None
        BY NoneAssumption
      <4> QED  BY <1>1, <2>2, <3>1, <4>1 DEF OwnedInv, HeldStoppable
    <3>2. CASE \E c \in Callers : Pc(c) \in Carrying /\ Carried(c) = v
      <4>1. PICK c \in Callers : Pc(c) \in Carrying /\ Carried(c) = v
        BY <3>2
      <4>2. caller[c].slot \in Slots /\ v \in Starting(caller[c].slot)
        BY <1>1, <4>1, HasSlot DEF Starting, Is, Pc, SlotOf, Carried, Carrying
      <4> QED  BY <4>2
    <3> QED  BY <2>a, <2>2, <3>1, <3>2 DEF NothingLost
  <2>3. \A v \in Services \ strays : svc[v] # "orphaned"
    BY <1>1 DEF OwnedInv, OrphansStray
  <2> QED  BY <2>1, <2>2, <2>3 DEF OneOwned
<1>2. LifecycleSpec => []OwnedInv
  BY InitOwned, NextOwned, LifecycleInvariant, PTL DEF LifecycleSpec
<1> QED  BY <1>1, <1>2, LifecycleInvariant, PTL

-----------------------------------------------------------------------------
(***************************************************************************)
(* Whom make_room stops.  It chooses slots that nobody uses or starts a    *)
(* service for, and takes them one by one while others go on; so a service *)
(* it evicts in use was leased after it was chosen, and is in late.        *)
(***************************************************************************)
Chosen == ToSet(room.stops)

RoomTyped ==
  /\ room \in [who : Callers \cup {None}, stops : Seq(Slots)]
  /\ room.who = None => room.stops = <<>>

LateKnown ==
  /\ \A c \in Callers : Pc(c) = "using" /\ svc[Carried(c)] = "evicted" => Carried(c) \in late
  /\ \A c \in Callers : Pc(c) = "using" /\ slot[SlotOf(c)].held = Carried(c) /\ SlotOf(c) \in Chosen =>
       Carried(c) \in late

ChosenNotStarting ==
  /\ \A c \in Callers : Pc(c) \in Carrying => svc[Carried(c)] # "evicted"
  /\ \A c \in Callers : Pc(c) \in Emptying => SlotOf(c) \notin Chosen

ChoiceInv == RoomTyped /\ LateKnown /\ ChosenNotStarting

LEMMA InitChoice == LifecycleInit => ChoiceInv
<1> SUFFICES ASSUME LifecycleInit PROVE ChoiceInv
  OBVIOUS
<1>1. RoomTyped
  BY DEF LifecycleInit, NoRoom, RoomTyped
<1>2. LateKnown /\ ChosenNotStarting
  BY DEF LifecycleInit, Away, At, Pc, LateKnown, ChosenNotStarting, Carrying, Emptying
<1> QED  BY <1>1, <1>2 DEF ChoiceInv

(* Steps that lease nothing, choose nothing and evict nothing.             *)
Spares ==
  /\ \A c \in Callers : Pc(c)' = "using" =>
       Pc(c) = "using" /\ SlotOf(c)' = SlotOf(c) /\ Carried(c)' = Carried(c)
  /\ \A c \in Callers : Pc(c)' \in Emptying => Pc(c) \in Emptying /\ SlotOf(c)' = SlotOf(c)
  /\ \A c \in Callers : Pc(c)' \in Carrying =>
       svc'[Carried(c)'] = "up" \/ (Pc(c) \in Carrying /\ Carried(c)' = Carried(c))
  /\ \A v \in Services : svc'[v] = "evicted" => svc[v] = "evicted"
  /\ \A s \in Slots : slot'[s].held \in {slot[s].held, None}
  /\ room' = room
  /\ \A v \in late : (\E c \in Callers : Pc(c)' = "using" /\ Carried(c)' = v) => v \in late'

LEMMA SparesKeeps == LifecycleInv /\ ChoiceInv /\ Spares => ChoiceInv'
<1> SUFFICES ASSUME LifecycleInv, ChoiceInv, Spares PROVE ChoiceInv'
  OBVIOUS
<1>a. Placed /\ Typed /\ RoomTyped /\ LateKnown /\ ChosenNotStarting /\ Chosen' = Chosen
  BY DEF LifecycleInv, ChoiceInv, Spares, Chosen
<1>1. RoomTyped'
  BY <1>a DEF Spares, RoomTyped
<1>2. LateKnown'
  <2> SUFFICES ASSUME NEW c \in Callers, Pc(c)' = "using"
               PROVE  /\ svc'[Carried(c)'] = "evicted" => Carried(c)' \in late'
                      /\ slot'[SlotOf(c)'].held = Carried(c)' /\ SlotOf(c)' \in Chosen => Carried(c)' \in late'
    BY <1>a DEF LateKnown
  <2>1. /\ Pc(c) = "using" /\ SlotOf(c)' = SlotOf(c) /\ Carried(c)' = Carried(c)
        /\ SlotOf(c) \in Slots /\ Carried(c) \in Services
    BY <1>a, HasSlot DEF Spares, Placed, Serving
  <2>2. Carried(c) \in late => Carried(c)' \in late'
    BY <2>1 DEF Spares
  <2> QED  BY <1>a, <2>1, <2>2 DEF LateKnown, Spares
<1>3. ChosenNotStarting'
  <2>1. ASSUME NEW c \in Callers, Pc(c)' \in Carrying PROVE svc'[Carried(c)'] # "evicted"
    BY <1>a, <2>1 DEF Spares, ChosenNotStarting, Placed, Carrying, Serving
  <2>2. \A c \in Callers : Pc(c)' \in Emptying => SlotOf(c)' \notin Chosen'
    BY <1>a DEF Spares, ChosenNotStarting
  <2> QED  BY <2>1, <2>2 DEF ChosenNotStarting
<1> QED  BY <1>1, <1>2, <1>3 DEF ChoiceInv

(* A task moves on alone, and nothing else changes what was chosen.        *)
LEMMA MovesSpares ==
  ASSUME LifecycleInv, NEW c \in Callers, NEW task,
         caller' = [caller EXCEPT ![c] = task], room' = room, LateKept,
         task.pc # "using",
         task.pc \in Emptying => Pc(c) \in Emptying /\ task.slot = SlotOf(c),
         task.pc \in Carrying =>
           svc'[task.service] = "up" \/ (Pc(c) \in Carrying /\ task.service = Carried(c)),
         \A v \in Services : svc'[v] = "evicted" => svc[v] = "evicted",
         \A s \in Slots : slot'[s].held \in {slot[s].held, None}
  PROVE  Spares
<1>1. caller'[c] = task /\ \A d \in Callers : d # c => caller'[d] = caller[d]
  BY DEF LifecycleInv, Typed
<1> QED  BY <1>1 DEF Spares, LateKept, Pc, SlotOf, Carried, Carrying, Emptying

LEMMA ReleaseSpares ==
  ASSUME LifecycleInv, NEW c \in Callers, NEW s \in Slots,
         NEW st \in [Slots -> SlotType], NEW sv \in [Services -> States], NEW order,
         \A t \in Slots : st[t].held \in {slot[t].held, None},
         \A v \in Services : sv[v] = "evicted" => svc[v] = "evicted",
         Releases(s, st, sv, order), Goes(c), room' = room, LateKept
  PROVE  Spares
<1>1. \A t \in Slots : slot'[t].held \in {slot[t].held, None}
  BY DEF Releases, NewSlot
<1>2. \A v \in Services : svc'[v] = "evicted" => svc[v] = "evicted"
  BY DEF Releases
<1>3. Away.pc \notin {"using"} \cup Emptying \cup Carrying /\ caller' = [caller EXCEPT ![c] = Away]
  BY DEF Away, At, Emptying, Carrying, Goes
<1> HIDE DEF Away
<1> QED  BY <1>1, <1>2, <1>3, MovesSpares

LEMMA LeavingSpares ==
  ASSUME LifecycleInv, NEW c \in Callers,
         HeldBack(c) \/ StartFails(c) \/ GetsNone(c) \/ Unwanted(c) \/ Takes(c) \/ Drops(c)
  PROVE  Spares
<1> DEFINE s == SlotOf(c)
<1>1. s \in Slots /\ Leaves(c, s)
  BY Leaving
<1>2. PICK st \in [Slots -> SlotType], sv \in [Services -> States], order \in {lru, Used(s)} :
        /\ \A t \in Slots : st[t].held \in {slot[t].held, None}
        /\ \A v \in Services : sv[v] \in {svc[v], "stopped"}
        /\ Releases(s, st, sv, order) /\ Goes(c) /\ room' = room /\ LateKept
  BY <1>1 DEF Leaves
<1>3. \A v \in Services : sv[v] = "evicted" => svc[v] = "evicted"
  BY <1>2
<1> HIDE DEF s
<1> QED  BY <1>1, <1>2, <1>3, ReleaseSpares

LEMMA OnwardSpares ==
  ASSUME LifecycleInv, NEW c \in Callers,
         \/ Enters(c) \/ Started(c) \/ Wanted(c)
         \/ \E k \in Keys : Calls(c, k) \/ Peeks(c, k) \/ Unmaps(c, k)
  PROVE  Spares
<1>1. /\ slot \in [Slots -> SlotType] /\ svc \in [Services -> States] /\ caller \in [Callers -> TaskType]
      /\ \A s \in Slots : slot[s].held = slot[s].held
  BY DEF LifecycleInv, Typed
<1>2. CASE Enters(c)
  <2>1. \A s \in Slots : slot'[s].held = slot[s].held
    BY <1>1, <1>2 DEF Enters, SlotType
  <2> DEFINE task == [caller[c] EXCEPT !.pc = "looking"]
  <2>2. caller' = [caller EXCEPT ![c] = task] /\ task.pc \notin {"using"} \cup Emptying \cup Carrying
    BY <1>1, <1>2 DEF Enters, TaskType, Emptying, Carrying
  <2>3. svc' = svc /\ room' = room /\ LateKept
    BY <1>2 DEF Enters, LateKept
  <2> HIDE DEF task
  <2> QED  BY <2>1, <2>2, <2>3, MovesSpares
<1>3. CASE Started(c)
  <2>1. PICK v \in Services : /\ svc' = [svc EXCEPT ![v] = "up"]
                              /\ caller' = [caller EXCEPT ![c].pc = "started", ![c].service = v]
    BY <1>3 DEF Started, Unstarted
  <2> DEFINE task == [caller[c] EXCEPT !.pc = "started", !.service = v]
  <2>a. caller[c] \in TaskType
    BY <1>1
  <2>b. task.pc = "started" /\ task.service = v /\ task.slot = SlotOf(c)
    BY <2>a DEF TaskType, SlotOf
  <2>c. Pc(c) \in Emptying
    BY <1>3 DEF Started, Is, Pc, Emptying
  <2>d. [caller EXCEPT ![c].pc = "started", ![c].service = v] = [caller EXCEPT ![c] = task]
    BY <1>1
  <2> HIDE DEF task
  <2>2. /\ caller' = [caller EXCEPT ![c] = task] /\ Pc(c) \in Emptying
        /\ task.pc = "started" /\ task.service = v /\ task.slot = SlotOf(c)
    BY <2>1, <2>b, <2>c, <2>d
  <2>3. svc'[v] = "up" /\ \A w \in Services : svc'[w] = "evicted" => svc[w] = "evicted"
    BY <1>1, <2>1
  <2>4. slot' = slot /\ room' = room /\ LateKept
    BY <1>3 DEF Started, LateKept
  <2> QED  BY <2>2, <2>3, <2>4, MovesSpares
<1>4. CASE Wanted(c)
  <2> DEFINE task == [caller[c] EXCEPT !.pc = "wanted"]
  <2>1. /\ caller' = [caller EXCEPT ![c] = task] /\ Pc(c) \in Emptying /\ Pc(c) \in Carrying
        /\ task.pc = "wanted" /\ task.service = Carried(c) /\ task.slot = SlotOf(c)
    BY <1>1, <1>4 DEF Wanted, Is, Pc, SlotOf, Carried, Emptying, Carrying, TaskType
  <2>2. slot' = slot /\ svc' = svc /\ room' = room /\ LateKept
    BY <1>4 DEF Wanted, LateKept
  <2> HIDE DEF task
  <2> QED  BY <2>1, <2>2, MovesSpares
<1>5. ASSUME NEW k \in Keys, Calls(c, k) \/ Peeks(c, k) \/ Unmaps(c, k) PROVE Spares
  <2>1. slot' = slot /\ svc' = svc /\ room' = room /\ LateKept
    BY <1>5 DEF Calls, Peeks, Unmaps, LateKept
  <2>2. \E task : /\ caller' = [caller EXCEPT ![c] = task]
                  /\ task.pc \in {"waiting", "peeking", "stopping"}
    <3>1. \E pc \in {"waiting", "peeking", "stopping"} : \E s :
            caller' = [caller EXCEPT ![c] = At(pc, k, s, None)]
      <4>1. CASE Calls(c, k)   BY <4>1 DEF Calls
      <4>2. CASE Peeks(c, k)   BY <4>2 DEF Peeks
      <4>3. CASE Unmaps(c, k)  BY <4>3 DEF Unmaps
      <4> QED  BY <1>5, <4>1, <4>2, <4>3
    <3>2. \A pc, s : At(pc, k, s, None).pc = pc
      BY DEF At
    <3> HIDE DEF At
    <3> QED  BY <3>1, <3>2
  <2>3. PICK task : /\ caller' = [caller EXCEPT ![c] = task]
                    /\ task.pc \in {"waiting", "peeking", "stopping"}
    BY <2>2
  <2>4. task.pc \notin {"using"} \cup Emptying \cup Carrying
    BY <2>3 DEF Emptying, Carrying
  <2> QED  BY <2>1, <2>3, <2>4, MovesSpares
<1> QED  BY <1>2, <1>3, <1>4, <1>5

LEMMA StillSpares ==
  ASSUME LifecycleInv, UNCHANGED <<caller, room, late>>,
         \A v \in Services : svc'[v] = "evicted" => svc[v] = "evicted",
         \A s \in Slots : slot'[s].held \in {slot[s].held, None}
  PROVE  Spares
<1>1. \A c \in Callers : Pc(c) \in Carrying => Pc(c)' = Pc(c) /\ Carried(c)' = Carried(c)
  BY DEF Pc, Carried
<1> QED  BY <1>1 DEF Spares, Pc, SlotOf, Carried

LEMMA OtherSpares ==
  ASSUME LifecycleInv,
         \/ \E s \in Slots : Reaps(s) \/ Forgets(s)
         \/ \E v \in Services : Exits(v) \/ Ends(v)
         \/ UNCHANGED lifecycleVars
  PROVE  Spares
<1>1. slot \in [Slots -> SlotType] /\ svc \in [Services -> States]
  BY DEF LifecycleInv, Typed
<1>2. ASSUME NEW s \in Slots, Reaps(s) PROVE Spares
  <2>1. \A t \in Slots : slot'[t].held \in {slot[t].held, None}
    BY <1>1, <1>2 DEF Reaps, Emptied, SlotType
  <2>2. \A v \in Services : svc'[v] = "evicted" => svc[v] = "evicted"
    BY <1>1, <1>2 DEF Reaps, Closes
  <2> QED  BY <1>2, <2>1, <2>2, StillSpares DEF Reaps
<1>3. ASSUME NEW s \in Slots, Forgets(s) PROVE Spares
  <2>1. \A t \in Slots : slot'[t].held = slot[t].held
    BY <1>1, <1>3 DEF Forgets, SlotType
  <2> QED  BY <1>3, <2>1, StillSpares DEF Forgets
<1>4. ASSUME NEW v \in Services, Exits(v) \/ Ends(v) PROVE Spares
  <2>1. \A w \in Services : svc'[w] = "evicted" => svc[w] = "evicted"
    BY <1>1, <1>4 DEF Exits, Ends
  <2> QED  BY <1>4, <2>1, StillSpares DEF Exits, Ends
<1>5. CASE UNCHANGED lifecycleVars
  BY <1>5, StillSpares DEF lifecycleVars
<1> QED  BY <1>2, <1>3, <1>4, <1>5

-----------------------------------------------------------------------------
(* A lease of a service chosen by make_room is noted as late.              *)
LEMMA LeaseNotes ==
  ASSUME LifecycleInv, ChoiceInv, NEW c \in Callers, Lease(c), Pc(c) \in {"looking", "peeking"}
  PROVE  ChoiceInv'
<1>a. Typed /\ Placed /\ RoomTyped /\ LateKnown /\ ChosenNotStarting
  BY DEF LifecycleInv, ChoiceInv
<1> DEFINE s == caller[c].slot
           v == slot[s].held
<1>1. s \in Slots /\ Runs(s) /\ v \in Services /\ svc[v] = "up" /\ svc' = svc /\ room' = room
  BY <1>a, HasSlot DEF Lease, Runs, SlotOf, Typed, SlotType
<1>2. \A t \in Slots : slot'[t].held = slot[t].held
  BY <1>a, <1>1 DEF Lease, Typed, SlotType
<1>3. /\ caller'[c].pc = "using" /\ caller'[c].slot = s /\ caller'[c].service = v
      /\ \A d \in Callers : d # c => caller'[d] = caller[d]
  BY <1>a DEF Lease, Typed, At
<1>4. /\ late \subseteq late' /\ Chosen' = Chosen
      /\ s \in Chosen => v \in late'
  BY DEF Lease, Chosen
<1>5. LateKnown'
  <2> SUFFICES ASSUME NEW d \in Callers, caller'[d].pc = "using"
               PROVE  /\ svc[caller'[d].service] = "evicted" => caller'[d].service \in late'
                      /\ slot'[caller'[d].slot].held = caller'[d].service /\ caller'[d].slot \in Chosen =>
                         caller'[d].service \in late'
    BY <1>1, <1>4 DEF LateKnown, Pc, SlotOf, Carried
  <2>1. CASE d = c
    BY <1>1, <1>3, <1>4, <2>1
  <2>2. CASE d # c
    <3>1. caller'[d] = caller[d] /\ caller[d].slot \in Slots
      BY <1>3, <2>2, HasSlot DEF Pc, SlotOf
    <3> QED  BY <1>a, <1>2, <1>4, <3>1 DEF LateKnown, Pc, SlotOf, Carried
  <2> QED  BY <2>1, <2>2
<1>6. ChosenNotStarting'
  BY <1>a, <1>1, <1>3, <1>4 DEF ChosenNotStarting, Pc, SlotOf, Carried, Emptying, Carrying
<1> QED  BY <1>a, <1>1, <1>5, <1>6 DEF ChoiceInv, RoomTyped

LEMMA HoldsNotes ==
  ASSUME LifecycleInv, ChoiceInv, NEW c \in Callers, Holds(c)
  PROVE  ChoiceInv'
<1>a. Typed /\ Placed /\ RoomTyped /\ LateKnown /\ ChosenNotStarting
  BY DEF LifecycleInv, ChoiceInv
<1> DEFINE s == caller[c].slot
<1>1. s \in Slots /\ Pc(c) = "wanted" /\ svc' = svc /\ room' = room /\ late' = late /\ Chosen' = Chosen
  BY HasSlot DEF Holds, Is, Pc, SlotOf, Chosen
<1>2. \A t \in Slots : t # s => slot'[t] = slot[t]
  BY <1>a DEF Holds, Typed
<1>3. /\ caller'[c].pc = "using" /\ caller'[c].slot = s /\ caller'[c].service = caller[c].service
      /\ \A d \in Callers : d # c => caller'[d] = caller[d]
  BY <1>a DEF Holds, Typed, TaskType
<1>4. svc[Carried(c)] # "evicted" /\ s \notin Chosen
  BY <1>a, <1>1 DEF ChosenNotStarting, Carrying, Emptying, SlotOf
<1>5. LateKnown'
  <2> SUFFICES ASSUME NEW d \in Callers, caller'[d].pc = "using"
               PROVE  /\ svc[caller'[d].service] = "evicted" => caller'[d].service \in late
                      /\ slot'[caller'[d].slot].held = caller'[d].service /\ caller'[d].slot \in Chosen =>
                         caller'[d].service \in late
    BY <1>1 DEF LateKnown, Pc, SlotOf, Carried
  <2>1. CASE d = c
    BY <1>3, <1>4, <2>1 DEF Carried
  <2>2. CASE d # c
    <3>1. caller'[d] = caller[d] /\ caller[d].slot \in Slots
      BY <1>3, <2>2, HasSlot DEF Pc, SlotOf
    <3> QED  BY <1>a, <1>2, <1>4, <3>1 DEF LateKnown, Pc, SlotOf, Carried
  <2> QED  BY <2>1, <2>2
<1>6. ChosenNotStarting'
  BY <1>a, <1>1, <1>3 DEF ChosenNotStarting, Pc, SlotOf, Carried, Emptying, Carrying
<1> QED  BY <1>a, <1>1, <1>5, <1>6 DEF ChoiceInv, RoomTyped

(* What make_room chooses runs and is idle.                                *)
LEMMA VictimsIdle ==
  ASSUME LifecycleInv, NEW k, NEW q \in Victims(k)
  PROVE  q \in Seq(Slots) /\ \A s \in ToSet(q) : Runs(s) /\ slot[s].in_flight = 0
<1> DEFINE others == Others(k)
           idle == {s \in others : slot[s].in_flight = 0}
           n == IF Over(k) < 0 THEN 0
                ELSE IF Over(k) > Cardinality(idle) THEN Cardinality(idle) ELSE Over(k)
<1>1. others \subseteq Slots /\ \A s \in others : Runs(s)
  BY DEF Others, InMap, LifecycleInv, Typed
<1>2. IsFiniteSet(Slots)
  BY FS_Interval DEF Slots
<1>3. Cardinality(others) \in Nat /\ Cardinality(idle) \in Nat
  BY <1>1, <1>2, FS_Subset, FS_CardinalityType
<1>4. n \in Nat
  BY <1>3 DEF Over
<1>5. q \in [1..n -> idle]
  BY DEF Victims, Oldest
<1> HIDE DEF n, idle, others
<1>6. q \in Seq(idle) /\ \A s \in ToSet(q) : s \in idle
  BY <1>4, <1>5 DEF ToSet
<1> QED  BY <1>1, <1>6 DEF idle

LEMMA MakesRoomKeepsChoice ==
  ASSUME LifecycleInv, ChoiceInv, NEW c \in Callers, MakesRoom(c)
  PROVE  ChoiceInv'
<1>a. Typed /\ Placed /\ Counted /\ EmptyWhileStarting /\ LateKnown /\ ChosenNotStarting
  BY DEF LifecycleInv, ChoiceInv
<1> DEFINE s == caller[c].slot
<1>1. /\ s \in Slots /\ ~Runs(s) /\ Pc(c) = "looking" /\ slot' = Counts(s) /\ svc' = svc /\ late' = late
  BY HasSlot DEF MakesRoom, Is, Pc, SlotOf
<1>2. \A t \in Slots : t # s => slot'[t] = slot[t]
  BY <1>1, CountsProperties
<1>3. /\ \A d \in Callers : d # c => caller'[d] = caller[d]
      /\ caller'[c].pc = "starting" /\ caller'[c].slot = s
  BY <1>a DEF MakesRoom, Typed, TaskType
<1>4. PICK q \in Victims(caller[c].key) : room' = [who |-> c, stops |-> q]
  BY DEF MakesRoom
<1>5. /\ room'.who = c /\ c # None /\ room'.stops = q /\ q \in Seq(Slots)
      /\ \A t \in Chosen' : t \in Slots /\ Runs(t) /\ slot[t].in_flight = 0
  <2>1. q \in Seq(Slots) /\ \A t \in ToSet(q) : Runs(t) /\ slot[t].in_flight = 0
    BY VictimsIdle
  <2>2. \A t \in ToSet(q) : t \in Slots
    BY <2>1 DEF ToSet
  <2> QED  BY <1>4, <2>1, <2>2 DEF Chosen
<1>6. RoomTyped'
  BY <1>4, <1>5 DEF RoomTyped
<1>7. LateKnown'
  <2> SUFFICES ASSUME NEW d \in Callers, caller'[d].pc = "using"
               PROVE  /\ svc[caller'[d].service] = "evicted" => caller'[d].service \in late
                      /\ caller'[d].slot \notin Chosen'
    BY <1>1 DEF LateKnown, Pc, SlotOf, Carried
  <2>1. d # c /\ caller'[d] = caller[d] /\ caller[d].slot \in Slots
    BY <1>3, HasSlot DEF Pc, SlotOf
  <2>2. Leased(caller[d].slot) # {}
    BY <2>1 DEF Leased, Is
  <2>3. slot[caller[d].slot].in_flight # 0
    BY <1>a, <2>1, <2>2, LeasedFinite, FS_EmptySet DEF Counted
  <2> QED  BY <1>a, <1>5, <2>1, <2>3 DEF LateKnown, Pc, Carried
<1>8. ChosenNotStarting'
  <2>1. \A d \in Callers : caller'[d].pc \in Carrying => svc[caller'[d].service] # "evicted"
    BY <1>a, <1>3 DEF ChosenNotStarting, Pc, Carried, Carrying
  <2>2. ASSUME NEW d \in Callers, caller'[d].pc \in Emptying PROVE caller'[d].slot \notin Chosen'
    <3>1. CASE d = c
      BY <1>1, <1>3, <1>5, <3>1
    <3>2. CASE d # c
      <4>1. slot[caller[d].slot].held = None /\ caller'[d] = caller[d]
        BY <1>a, <1>3, <2>2, <3>2 DEF EmptyWhileStarting, Pc, SlotOf
      <4> QED  BY <1>5, <4>1 DEF Runs
    <3> QED  BY <3>1, <3>2
  <2> QED  BY <1>1, <2>1, <2>2 DEF ChosenNotStarting, Pc, SlotOf, Carried
<1> QED  BY <1>6, <1>7, <1>8 DEF ChoiceInv

(* What it takes was chosen: whoever uses it leased it since.              *)
LEMMA EvictsKeepsChoice ==
  ASSUME LifecycleInv, ChoiceInv, Evicts
  PROVE  ChoiceInv'
<1>a. Typed /\ Placed /\ Apart /\ LeasedHeld /\ RoomTyped /\ LateKnown /\ ChosenNotStarting
  BY DEF LifecycleInv, ChoiceInv
<1> DEFINE s == Head(room.stops)
<1>1. /\ s \in Slots /\ s \in Chosen /\ Tail(room.stops) \in Seq(Slots)
      /\ ToSet(Tail(room.stops)) \subseteq Chosen
  BY <1>a DEF Evicts, RoomTyped, Chosen, ToSet
<1>2. /\ slot' = Emptied(s) /\ svc' = Closes(s, "evicted") /\ UNCHANGED <<caller, late>>
      /\ room' = [room EXCEPT !.stops = Tail(room.stops)]
  BY DEF Evicts
<1>3. RoomTyped' /\ Chosen' \subseteq Chosen
  BY <1>a, <1>1, <1>2 DEF RoomTyped, Chosen, Evicts
<1>4. /\ \A t \in Slots : slot'[t].held \in {slot[t].held, None}
      /\ \A v \in Services : svc'[v] = "evicted" =>
           svc[v] = "evicted" \/ (v = slot[s].held /\ svc[v] = "up")
  BY <1>a, <1>1, <1>2 DEF Emptied, Closes, Runs, Typed, SlotType
<1> HIDE DEF s
<1>5. LateKnown'
  <2> SUFFICES ASSUME NEW c \in Callers, Pc(c) = "using"
               PROVE  /\ svc'[Carried(c)] = "evicted" => Carried(c) \in late
                      /\ slot'[SlotOf(c)].held = Carried(c) /\ SlotOf(c) \in Chosen' => Carried(c) \in late
    BY <1>2 DEF LateKnown, Pc, SlotOf, Carried
  <2>1. SlotOf(c) \in Slots /\ Carried(c) \in Services /\ Carried(c) # None
    BY <1>a, HasSlot DEF Placed, Serving
  <2>2. ASSUME svc'[Carried(c)] = "evicted" PROVE Carried(c) \in late
    <3>1. CASE svc[Carried(c)] = "evicted"
      BY <1>a, <3>1 DEF LateKnown
    <3>2. CASE Carried(c) = slot[s].held /\ svc[Carried(c)] = "up"
      <4>1. slot[SlotOf(c)].held = Carried(c) /\ SlotOf(c) = s
        BY <1>a, <1>1, <2>1, <3>2 DEF LeasedHeld, Apart
      <4> QED  BY <1>a, <1>1, <4>1 DEF LateKnown
    <3> QED  BY <1>4, <2>1, <2>2, <3>1, <3>2
  <2>3. ASSUME slot'[SlotOf(c)].held = Carried(c), SlotOf(c) \in Chosen' PROVE Carried(c) \in late
    BY <1>a, <1>3, <1>4, <2>1, <2>3 DEF LateKnown
  <2> QED  BY <2>2, <2>3
<1>6. ChosenNotStarting'
  <2>1. ASSUME NEW c \in Callers, Pc(c) \in Carrying PROVE svc'[Carried(c)] # "evicted"
    <3>1. /\ svc[Carried(c)] # "evicted" /\ Carried(c) \in Services /\ slot[s].held # Carried(c)
      BY <1>a, <1>1, <2>1 DEF ChosenNotStarting, Placed, Apart, Serving, Carrying
    <3> QED  BY <1>4, <3>1
  <2> QED  BY <1>a, <1>2, <1>3, <2>1 DEF ChosenNotStarting, Pc, SlotOf, Carried
<1> QED  BY <1>3, <1>5, <1>6 DEF ChoiceInv

LEMMA MadeRoomKeepsChoice == LifecycleInv /\ ChoiceInv /\ MadeRoom => ChoiceInv'
<1> SUFFICES ASSUME LifecycleInv, ChoiceInv, MadeRoom PROVE ChoiceInv'
  OBVIOUS
<1>1. UNCHANGED <<slot, svc, caller, late>> /\ room.stops = <<>> /\ room' = NoRoom
  BY DEF MadeRoom
<1>2. RoomTyped' /\ room'.stops = room.stops
  BY <1>1 DEF RoomTyped, NoRoom
<1>3. Chosen' = Chosen
  BY <1>2 DEF Chosen
<1> QED  BY <1>1, <1>2, <1>3 DEF ChoiceInv, LateKnown, ChosenNotStarting, Pc, SlotOf, Carried

LEMMA NextChoice == LifecycleInv /\ ChoiceInv /\ [LifecycleNext]_lifecycleVars => ChoiceInv'
<1> SUFFICES ASSUME LifecycleInv, ChoiceInv, [LifecycleNext]_lifecycleVars PROVE ChoiceInv'
  OBVIOUS
<1>1. ASSUME NEW c \in Callers, NEW k \in Keys, Calls(c, k) \/ Peeks(c, k) \/ Unmaps(c, k)
      PROVE  ChoiceInv'
  BY <1>1, OnwardSpares, SparesKeeps
<1>2. ASSUME NEW c \in Callers, Proceeds(c) PROVE ChoiceInv'
  <2>1. CASE Enters(c) \/ Started(c) \/ Wanted(c)
    BY <2>1, OnwardSpares, SparesKeeps
  <2>2. CASE Finds(c) \/ Gets(c)
    BY <2>2, LeaseNotes DEF Finds, Gets, Is, Pc
  <2>3. CASE MakesRoom(c)
    BY <2>3, MakesRoomKeepsChoice
  <2>4. CASE Holds(c)
    BY <2>4, HoldsNotes
  <2>5. CASE HeldBack(c) \/ StartFails(c) \/ GetsNone(c) \/ Unwanted(c) \/ Takes(c) \/ Drops(c)
    BY <2>5, LeavingSpares, SparesKeeps
  <2> QED  BY <1>2, <2>1, <2>2, <2>3, <2>4, <2>5 DEF Proceeds
<1>3. CASE Evicts
  BY <1>3, EvictsKeepsChoice
<1>4. CASE MadeRoom
  BY <1>4, MadeRoomKeepsChoice
<1>5. ASSUME NEW s \in Slots, Reaps(s) \/ Forgets(s) PROVE ChoiceInv'
  BY <1>5, OtherSpares, SparesKeeps
<1>6. ASSUME NEW v \in Services, Exits(v) \/ Ends(v) PROVE ChoiceInv'
  BY <1>6, OtherSpares, SparesKeeps
<1>7. CASE UNCHANGED lifecycleVars
  BY <1>7, OtherSpares, SparesKeeps
<1> QED  BY <1>1, <1>2, <1>3, <1>4, <1>5, <1>6, <1>7 DEF LifecycleNext

(* A service evicted in use was leased after make_room had chosen it: the  *)
(* cap never chooses what is leased, and no one starts a service in a slot *)
(* that make_room is about to empty.                                       *)
THEOREM EvictionsChosen == LifecycleSpec => []OnlyTheChosenEvicted
<1>1. LifecycleSpec => []ChoiceInv
  BY InitChoice, NextChoice, LifecycleInvariant, PTL DEF LifecycleSpec
<1>2. ChoiceInv => OnlyTheChosenEvicted
  BY DEF ChoiceInv, LateKnown, OnlyTheChosenEvicted, Is, Pc, Carried
<1> QED  BY <1>1, <1>2, PTL

=============================================================================
