--------------------------- MODULE DeliveryProofs ---------------------------
(***************************************************************************)
(* Proofs about Delivery, for any number of tasks, runs, claims, lapses,   *)
(* restarts and answers.                                                   *)
(*                                                                         *)
(* The argument: a row is recorded as done on the word of one copy of a    *)
(* run, and many copies are about: the store's, the writer's, what tasks   *)
(* and timers hold, what a claim or a start of vornd once read.  None of   *)
(* them says that the row is settled before a run has succeeded or a       *)
(* person has ended one (Vouched), and every step makes copies only from   *)
(* copies (Step, and StepKeeps).                                           *)
(***************************************************************************)
EXTENDS Delivery, FiniteSetTheorems, TLAPS

Tokens == Nat \cup {None}
Verdicts == {"processed", "retry"}
Dispositions == {"processed", "retry", "defer"}

(* Where a task works on a copy, walks its run, or settles its row.        *)
Busy == {"adopted", "look", "probe", "probed", "enter", "walking", "stepping", "parking",
         "closed", "answer", "decide", "stop"}
Walking == {"walking", "stepping", "parking"}
Leaving == {"settle", "close"}

Statuses == {"running", "success", "error", "cancelled"}
Marks == {"pending", "waiting", "running", "success", "error", "skipped"}
Decisions == {"approve", "reject", "timeout"} \cup Dispositions
Pcs == {"idle", "deliver", "adopt"} \cup Busy \cup Leaving

Copies == [status : Statuses, gate : Marks, step : Marks, token : Tokens,
           disp : Verdicts \cup {None}]
CopyOrNone == Copies \cup {None}

TaskType == [pc : Pcs, run : Runs \cup {None}, obj : Objects \cup {None}, old : CopyOrNone,
             token : Tokens, decision : Decisions \cup {None}, cancelled : BOOLEAN]

(* What the variables range over.                                          *)
Typed ==
  /\ stored \in [Runs -> CopyOrNone] /\ unsaved \in [Runs -> CopyOrNone]
  /\ obj \in [Objects -> CopyOrNone]
  /\ task \in [Tasks -> TaskType]
  /\ active \in [Runs -> Tasks \cup {None}]
  /\ timers \in [Runs -> Objects \cup {None}]
  /\ boot \in [release : BOOLEAN, read : BOOLEAN, runs : [Runs -> CopyOrNone]]

(* The row holds a token exactly while it is leased, and a lease counts as *)
(* an attempt.                                                             *)
RowTyped ==
  /\ row \in [status : {"pending", "leased", "processed", "dead"}, due : BOOLEAN,
              lapsed : BOOLEAN, token : Tokens, attempts : Nat]
  /\ count \in [claims : Nat, lapses : Nat, restarts : Nat, answers : Nat]
  /\ (row.status = "leased") = (row.token # None)
  /\ row.status = "leased" => row.attempts >= 1
  /\ row.attempts <= count.claims /\ count.claims <= MaxClaims

(* A copy that would have its row settled as done.                         *)
Done(c) == c.status \in {"success", "cancelled"} \/ c.disp = "processed"

(* A copy, and one that was decided if it is done.                         *)
Fine(c, d) == c \in Copies /\ (Done(c) => d)
MayBe(c, d) == c = None \/ Fine(c, d)

Vouched ==
  /\ \A r \in Runs : /\ MayBe(stored[r], decided) /\ MayBe(unsaved[r], decided)
                     /\ MayBe(boot.runs[r], decided)
  /\ \A o \in Objects : MayBe(obj[o], decided)
  /\ decisions # {} => decided
  /\ row.status = "processed" => decided

(* What a task counts on, with the copies in memory `mem`.                 *)
Fits(f, mem, d) ==
  /\ MayBe(f.old, d)
  /\ f.pc \in Busy => f.obj \in Objects /\ Fine(mem[f.obj], d) /\ f.run \in Runs
  /\ f.pc = "adopt" => f.run \in Runs
  /\ f.pc \in {"adopt", "adopted"} => f.old # None
  /\ f.pc = "deliver" /\ f.old # None => f.run \in Runs
  /\ f.pc \in Leaving => f.decision \in Dispositions /\ (f.decision = "processed" => d)

Fitting == \A t \in Tasks : Fits(task[t], obj, decided)

Timed == \A r \in Runs : timers[r] # None => Fine(obj[timers[r]], decided)

(* A run is walked by the one task that registered it.                     *)
Walks == \A t \in Tasks, r \in Runs :
           (active[r] = t) = (task[t].run = r /\ task[t].pc \in Walking)

DeliveryInv == Typed /\ RowTyped /\ Vouched /\ Fitting /\ Timed /\ Walks

USE DeliveryAssumption

(* There is always room for two copies nobody holds yet.                   *)
LEMMA Room ==
  ASSUME Typed
  PROVE  Fresh \in Objects /\ \E g \in Spare : g # Fresh
<1> DEFINE A == {task[t].obj : t \in Tasks}
           B == {timers[r] : r \in Runs}
           f == [t \in Tasks |-> task[t].obj]
<1>1. IsFiniteSet(A) /\ Cardinality(A) <= Cardinality(Tasks)
  <2>1. f \in Surjection(Tasks, A)
    BY DEF Surjection
  <2> QED  BY <2>1, FS_Surjection
<1>2. IsFiniteSet(Runs) /\ Cardinality(Runs) = MaxRuns
  BY FS_Interval DEF Runs
<1>3. IsFiniteSet(B) /\ Cardinality(B) <= MaxRuns
  <2>1. timers \in Surjection(Runs, B)
    BY DEF Surjection, Typed
  <2> QED  BY <2>1, <1>2, FS_Surjection
<1>4. Cardinality(Tasks) \in Nat /\ Cardinality(A) \in Nat /\ Cardinality(B) \in Nat
  BY <1>1, <1>3, FS_CardinalityType
<1>5. IsFiniteSet(Objects) /\ Cardinality(Objects) = Cardinality(Tasks) + MaxRuns + 2
  <2> DEFINE n == Cardinality(Tasks) + MaxRuns + 2
  <2>1. n \in Nat /\ n >= 1
    BY <1>4
  <2> HIDE DEF n
  <2>2. IsFiniteSet(1..n) /\ Cardinality(1..n) = n
    BY <2>1, FS_Interval
  <2> QED  BY <2>2 DEF n, Objects
<1>6. IsFiniteSet(A \cup B) /\ Cardinality(A \cup B) <= Cardinality(Tasks) + MaxRuns
  <2>1. IsFiniteSet(A \cap B) /\ Cardinality(A \cap B) \in Nat
    BY <1>1, FS_Intersection, FS_CardinalityType
  <2>2. /\ IsFiniteSet(A \cup B)
        /\ Cardinality(A \cup B) = Cardinality(A) + Cardinality(B) - Cardinality(A \cap B)
    BY <1>1, <1>3, FS_Union
  <2> HIDE DEF A, B
  <2> QED  BY <1>1, <1>3, <1>4, <2>1, <2>2
<1>7. Cardinality(Spare) >= 2 /\ IsFiniteSet(Spare)
  <2>1. Cardinality(Objects \cap (A \cup B)) <= Cardinality(A \cup B)
        /\ IsFiniteSet(Objects \cap (A \cup B))
    BY <1>6, FS_Intersection
  <2>2. Cardinality(Objects \cap (A \cup B)) \in Nat /\ Cardinality(A \cup B) \in Nat
    BY <2>1, <1>6, FS_CardinalityType
  <2>3. IsFiniteSet(Objects \ (A \cup B)) /\
        Cardinality(Objects \ (A \cup B)) = Cardinality(Objects) - Cardinality(Objects \cap (A \cup B))
    BY <1>5, FS_Difference
  <2> QED  BY <1>4, <1>5, <1>6, <2>1, <2>2, <2>3 DEF Spare
<1>8. Spare # {}
  BY <1>7, FS_EmptySet
<1>9. \E g \in Spare : g # Fresh
  <2> SUFFICES ASSUME \A g \in Spare : g = Fresh PROVE FALSE
    OBVIOUS
  <2>1. Spare = {Fresh}
    BY <1>8
  <2> QED  BY <2>1, <1>7, FS_Singleton
<1> QED  BY <1>8, <1>9 DEF Fresh, Spare

(***************************************************************************)
(* What one task's step may do: it copies, from what is there, into memory *)
(* (`mem`) and to the writer, arms and disarms timers, and becomes `f`.    *)
(***************************************************************************)
Copied(mem) ==
  /\ mem \in [Objects -> CopyOrNone]
  /\ \A o \in Objects : mem[o] = obj[o] \/ Fine(mem[o], decided')

Armed(mem, armed) ==
  /\ armed \in [Runs -> Objects \cup {None}]
  /\ \A r \in Runs : armed[r] # None => Fine(mem[armed[r]], decided')

Stores ==
  /\ stored' \in [Runs -> CopyOrNone] /\ unsaved' \in [Runs -> CopyOrNone]
  /\ boot' \in [release : BOOLEAN, read : BOOLEAN, runs : [Runs -> CopyOrNone]]
  /\ \A r \in Runs : /\ MayBe(stored'[r], decided') /\ MayBe(unsaved'[r], decided')
                     /\ MayBe(boot'.runs[r], decided')

Becomes(t, f) ==
  /\ f \in TaskType /\ task' \in [Tasks -> TaskType] /\ task'[t] = f
  /\ \A u \in Tasks \ {t} :
       /\ task'[u].pc = task[u].pc /\ task'[u].run = task[u].run /\ task'[u].obj = task[u].obj
       /\ task'[u].old = task[u].old /\ task'[u].decision = task[u].decision

Registers(t, f) ==
  /\ active' \in [Runs -> Tasks \cup {None}]
  /\ \A r \in Runs : /\ (active'[r] = t) = (f.run = r /\ f.pc \in Walking)
                     /\ \A u \in Tasks \ {t} : (active'[r] = u) = (active[r] = u)

Settled ==
  /\ decided => decided'
  /\ decisions' # {} => decided'
  /\ row'.status = "processed" => decided'

Step(t, f, mem, armed) ==
  /\ Becomes(t, f) /\ Copied(mem) /\ Armed(mem, armed) /\ HoldsAnd(mem, armed)
  /\ Fits(f, mem, decided') /\ Stores /\ Registers(t, f) /\ Settled /\ RowTyped'

LEMMA StepKeeps ==
  ASSUME DeliveryInv, NEW t \in Tasks, NEW f, NEW mem, NEW armed, Step(t, f, mem, armed)
  PROVE  DeliveryInv'
<1>a. /\ Becomes(t, f) /\ Copied(mem) /\ Armed(mem, armed) /\ HoldsAnd(mem, armed)
      /\ Fits(f, mem, decided') /\ Stores /\ Registers(t, f) /\ Settled /\ RowTyped'
  BY DEF Step
<1>b. Typed /\ Vouched /\ Fitting /\ Timed /\ Walks
  BY DEF DeliveryInv
<1>1. timers' = armed
  BY <1>a DEF HoldsAnd
<1>2. \A o \in Objects : obj'[o] = None \/ obj'[o] = mem[o]
  BY <1>a DEF HoldsAnd
<1>3. \A o \in Objects : (\E u \in Tasks : task'[u].obj = o) => obj'[o] = mem[o]
  BY <1>a DEF HoldsAnd
<1>4. \A o \in Objects : (\E r \in Runs : armed[r] = o) => obj'[o] = mem[o]
  BY <1>a DEF HoldsAnd
<1>5. Typed'
  <2>1. obj' \in [Objects -> CopyOrNone]
    BY <1>a DEF HoldsAnd, Copied, CopyOrNone
  <2> QED  BY <1>a, <1>1, <2>1 DEF Typed, Stores, Becomes, Registers, Armed
<1>6. Vouched'
  <2>1. \A o \in Objects : MayBe(obj[o], decided')
    BY <1>a, <1>b DEF Vouched, Settled, MayBe, Fine
  <2>2. \A o \in Objects : MayBe(obj'[o], decided')
    BY <2>1, <1>2, <1>a DEF Copied, MayBe
  <2> QED  BY <2>2, <1>a DEF Vouched, Stores, Settled
<1>7. Fitting'
  <2> SUFFICES ASSUME NEW u \in Tasks PROVE Fits(task'[u], obj', decided')
    BY DEF Fitting
  <2>1. Fits(task'[u], mem, decided')
    <3>1. CASE u = t
      BY <3>1, <1>a DEF Becomes
    <3>2. CASE u # t
      <4>1. Fits(task[u], obj, decided)
        BY <1>b DEF Fitting
      <4>2. Fits(task[u], mem, decided')
        BY <4>1, <1>a DEF Fits, MayBe, Fine, Copied, Settled
      <4> QED  BY <4>2, <3>2, <1>a DEF Becomes, Fits
    <3> QED  BY <3>1, <3>2
  <2>2. task'[u].obj \in Objects => obj'[task'[u].obj] = mem[task'[u].obj]
    BY <1>3
  <2> QED  BY <2>1, <2>2 DEF Fits
<1>8. Timed'
  <2> SUFFICES ASSUME NEW r \in Runs, timers'[r] # None PROVE Fine(obj'[timers'[r]], decided')
    BY DEF Timed
  <2>1. armed[r] # None /\ armed[r] \in Objects
    BY <1>1, <1>a DEF Armed
  <2> QED  BY <2>1, <1>1, <1>4, <1>a DEF Armed
<1>9. Walks'
  BY <1>a, <1>b DEF Becomes, Registers, Walks
<1> QED  BY <1>a, <1>5, <1>6, <1>7, <1>8, <1>9 DEF DeliveryInv

(***************************************************************************)
(* The parts of a step most actions share.                                 *)
(***************************************************************************)
LEMMA Later ==
  ASSUME decided => decided'
  PROVE  /\ \A c : Fine(c, decided) => Fine(c, decided')
         /\ \A c : MayBe(c, decided) => MayBe(c, decided')
BY DEF Fine, MayBe

LEMMA MemorySame ==
  ASSUME DeliveryInv PROVE Copied(obj)
BY DEF DeliveryInv, Typed, Copied

LEMMA MemorySet ==
  ASSUME NEW mem, Copied(mem), NEW o, NEW c, Fine(c, decided')
  PROVE  Copied([mem EXCEPT ![o] = c])
BY DEF Copied, Fine, CopyOrNone

LEMMA TimersSame ==
  ASSUME DeliveryInv, decided => decided', NEW mem, Copied(mem)
  PROVE  Armed(mem, timers)
<1>1. \A r \in Runs : timers[r] # None => timers[r] \in Objects /\ Fine(obj[timers[r]], decided')
  BY Later DEF DeliveryInv, Typed, Timed
<1> QED  BY <1>1 DEF Armed, Copied, DeliveryInv, Typed

LEMMA TimerOff ==
  ASSUME NEW mem, Armed(mem, timers), NEW r PROVE Armed(mem, Disarmed(r))
BY DEF Armed, Disarmed

LEMMA TimerOn ==
  ASSUME NEW mem, Armed(mem, timers), NEW r, NEW o \in Objects, Fine(mem[o], decided')
  PROVE  Armed(mem, [timers EXCEPT ![r] = o])
BY DEF Armed

LEMMA Own ==
  ASSUME DeliveryInv, NEW t \in Tasks, task[t].pc \in Busy
  PROVE  /\ Of(t) \in Copies /\ Fine(Of(t), decided)
         /\ task[t].obj \in Objects /\ RunOf(t) \in Runs
BY DEF DeliveryInv, Fitting, Fits, Fine, Of, RunOf

LEMMA FindsCopy ==
  ASSUME DeliveryInv, decided => decided', NEW r \in Runs, CanFind(r)
  PROVE  /\ Found(r) \in Objects /\ Fine(FoundIn(r)[Found(r)], decided)
         /\ Copied(FoundIn(r))
<1>1. CASE active[r] # None
  <2>1. active[r] \in Tasks /\ task[active[r]].pc \in Busy
    BY <1>1 DEF DeliveryInv, Typed, Walks, Walking, Busy
  <2> QED  BY <2>1, <1>1, Own, MemorySame DEF Found, FoundIn, Of
<1>2. CASE active[r] = None
  <2>1. Fine(stored[r], decided)
    BY <1>2 DEF CanFind, DeliveryInv, Vouched, MayBe
  <2>2. Fresh \in Objects
    BY Room DEF DeliveryInv
  <2>3. obj \in [Objects -> CopyOrNone]
    BY DEF DeliveryInv, Typed
  <2> QED  BY <2>1, <2>2, <2>3, <1>2, Later, MemorySame, MemorySet DEF Found, FoundIn
<1> QED  BY <1>1, <1>2

LEMMA StoresSame ==
  ASSUME DeliveryInv, decided => decided', UNCHANGED <<stored, unsaved, boot>> PROVE Stores
BY Later DEF DeliveryInv, Typed, Vouched, Stores

LEMMA StoresSaved ==
  ASSUME DeliveryInv, decided => decided', UNCHANGED <<stored, boot>>,
         NEW r, NEW c, Fine(c, decided'), unsaved' = [unsaved EXCEPT ![r] = c]
  PROVE  Stores
<1>1. \A q \in Runs : MayBe(unsaved'[q], decided')
  BY Later DEF DeliveryInv, Typed, Vouched, MayBe
<1>2. unsaved' \in [Runs -> CopyOrNone]
  BY DEF DeliveryInv, Typed, Fine, CopyOrNone
<1> QED  BY <1>1, <1>2, Later DEF DeliveryInv, Typed, Vouched, Stores

LEMMA Moved ==
  ASSUME DeliveryInv, NEW t \in Tasks, NEW f \in TaskType, Moves(t, f) PROVE Becomes(t, f)
BY DEF DeliveryInv, Typed, Becomes, Moves

LEMMA StaysOut ==
  ASSUME DeliveryInv, NEW t \in Tasks, NEW f, active' = active,
         task[t].pc \notin Walking, f.pc \notin Walking
  PROVE  Registers(t, f)
BY DEF DeliveryInv, Typed, Walks, Registers

LEMMA StaysIn ==
  ASSUME DeliveryInv, NEW t \in Tasks, NEW f, active' = active,
         task[t].pc \in Walking, f.pc \in Walking, f.run = RunOf(t)
  PROVE  Registers(t, f)
BY DEF DeliveryInv, Typed, Walks, Registers, RunOf

LEMMA GoesOut ==
  ASSUME DeliveryInv, NEW t \in Tasks, NEW f, task[t].pc \in Walking, f.pc \notin Walking,
         active' = [active EXCEPT ![RunOf(t)] = None]
  PROVE  Registers(t, f)
<1>1. RunOf(t) \in Runs /\ active[RunOf(t)] = t
  BY Own DEF DeliveryInv, Walks, Walking, Busy, RunOf
<1> QED  BY <1>1 DEF DeliveryInv, Typed, Walks, Registers, RunOf

LEMMA GoesIn ==
  ASSUME DeliveryInv, NEW t \in Tasks, NEW f, task[t].pc \notin Walking, f.pc \in Walking,
         f.run = RunOf(t), RunOf(t) \in Runs, active[RunOf(t)] = None,
         active' = [active EXCEPT ![RunOf(t)] = t]
  PROVE  Registers(t, f)
BY DEF DeliveryInv, Typed, Walks, Registers, RunOf

LEMMA Stays ==
  ASSUME DeliveryInv, UNCHANGED <<row, decisions, decided>> PROVE Settled
BY DEF DeliveryInv, Vouched, Settled

LEMMA RowSame ==
  ASSUME DeliveryInv, row' = row, count' = count \/ Called PROVE RowTyped'
BY DEF DeliveryInv, RowTyped, Called

LEMMA Types ==
  ASSUME DeliveryInv, NEW t \in Tasks
  PROVE  /\ Idle \in TaskType
         /\ \A pc \in Pcs : [task[t] EXCEPT !.pc = pc] \in TaskType
         /\ \A pc \in Leaving, d \in Dispositions : \A c :
              c.token \in Tokens => ToSettle(t, pc, c, d) \in TaskType
         /\ \A r \in Runs, o \in Objects : ToWalk(r, o) \in TaskType
<1>1. task[t] \in TaskType
  BY DEF DeliveryInv, Typed
<1>2. Idle \in TaskType
  BY DEF Idle, TaskType, CopyOrNone, Tokens, Pcs
<1>3. \A pc \in Pcs : [task[t] EXCEPT !.pc = pc] \in TaskType
  BY <1>1 DEF TaskType
<1>4. \A pc \in Leaving, d \in Dispositions : \A c :
         c.token \in Tokens => ToSettle(t, pc, c, d) \in TaskType
  BY <1>1 DEF ToSettle, Idle, TaskType, CopyOrNone, RunOf, Pcs, Decisions
<1>5. \A r \in Runs, o \in Objects : ToWalk(r, o) \in TaskType
  BY DEF ToWalk, Idle, TaskType, CopyOrNone, Tokens, Pcs, Busy
<1> QED  BY <1>2, <1>3, <1>4, <1>5

(* What the three kinds of new task are.                                   *)
LEMMA Fields ==
  /\ Idle.pc = "idle" /\ Idle.old = None /\ Idle.obj = None /\ Idle.run = None
  /\ \A t, pc, c, v : LET f == ToSettle(t, pc, c, v) IN
       f.pc = pc /\ f.old = None /\ f.run = RunOf(t) /\ f.decision = v
  /\ \A r, o : LET f == ToWalk(r, o) IN f.pc = "enter" /\ f.old = None /\ f.run = r /\ f.obj = o
BY DEF Idle, ToSettle, ToWalk

LEMMA IdleFits == \A mem, d : Fits(Idle, mem, d)
BY DEF Fits, Idle, MayBe, Busy, Leaving

LEMMA LeavingFits ==
  ASSUME NEW t, NEW pc \in Leaving, NEW c, NEW d, NEW mem, NEW v \in Dispositions,
         v = "processed" => d
  PROVE  Fits(ToSettle(t, pc, c, v), mem, d)
BY DEF Fits, ToSettle, Idle, MayBe, Busy, Leaving

(* A task goes on with the copy it has, in the memory `mem`.               *)
LEMMA GoesFits ==
  ASSUME DeliveryInv, NEW t \in Tasks, decided => decided', task[t].pc \in Busy,
         NEW pc \in Busy \ {"adopted"}, NEW mem, Fine(mem[task[t].obj], decided')
  PROVE  Fits([task[t] EXCEPT !.pc = pc], mem, decided')
<1>1. task[t] \in TaskType /\ MayBe(task[t].old, decided') /\ task[t].obj \in Objects
      /\ task[t].run \in Runs
  BY Later, Own DEF DeliveryInv, Typed, Fitting, Fits, RunOf
<1> DEFINE f == [task[t] EXCEPT !.pc = pc]
<1>2. f.pc = pc /\ f.old = task[t].old /\ f.obj = task[t].obj /\ f.run = task[t].run
  BY <1>1 DEF TaskType
<1> HIDE DEF f
<1>3. Fits(f, mem, decided')
  BY <1>1, <1>2 DEF Fits, Busy, Leaving
<1> QED  BY <1>3 DEF f

(* A step that settles nothing and counts no lease.                        *)
LEMMA Plain ==
  ASSUME DeliveryInv, NEW t \in Tasks, NEW f \in TaskType, NEW mem, NEW armed,
         Moves(t, f), Copied(mem), Armed(mem, armed), HoldsAnd(mem, armed),
         Fits(f, mem, decided'), Stores, Registers(t, f),
         UNCHANGED <<row, decisions, decided>>, count' = count \/ Called
  PROVE  DeliveryInv'
BY Moved, Stays, RowSame, StepKeeps DEF Step

(* One that only ends.                                                     *)
LEMMA PlainEnd ==
  ASSUME DeliveryInv, NEW t \in Tasks, NEW f \in TaskType, Moves(t, f), Holds(obj),
         Fits(f, obj, decided'), Stores, Registers(t, f),
         UNCHANGED <<row, decisions, decided>>, count' = count
  PROVE  DeliveryInv'
BY Plain, MemorySame, TimersSame DEF Holds

(* A task goes on with its copy changed to `c`, which is saved.            *)
LEMMA PlainSave ==
  ASSUME DeliveryInv, NEW t \in Tasks, NEW pc \in Busy \ {"adopted"}, NEW c,
         task[t].pc \in Busy, Goes(t, pc), Fine(c, decided),
         NEW armed, Armed(Changed(t, c), armed), PersistsAnd(t, c, armed),
         Registers(t, [task[t] EXCEPT !.pc = pc]),
         UNCHANGED <<row, decisions, decided, stored, boot, count>>
  PROVE  DeliveryInv'
<1>1. [task[t] EXCEPT !.pc = pc] \in TaskType
  BY Types DEF Pcs
<1>2. Copied(Changed(t, c))
  BY MemorySame, MemorySet DEF Changed
<1>3. Changed(t, c)[task[t].obj] = c
  BY Own DEF Changed, DeliveryInv, Typed
<1>4. Fits([task[t] EXCEPT !.pc = pc], Changed(t, c), decided')
  BY <1>3, GoesFits
<1>5. Stores
  BY StoresSaved DEF PersistsAnd
<1> QED  BY <1>1, <1>2, <1>4, <1>5, Plain DEF Goes, PersistsAnd

(***************************************************************************)
(* The inbox.                                                              *)
(***************************************************************************)
LEMMA DefersKeeps ==
  ASSUME DeliveryInv, NEW t \in Tasks, Defers(t) PROVE DeliveryInv'
<1> DEFINE f == ToSettle(t, "settle", task[t], "defer")
<1>1. f \in TaskType
  <2>1. task[t].token \in Tokens
    BY DEF DeliveryInv, Typed, TaskType
  <2> QED  BY <2>1, Types DEF Leaving, Dispositions
<1>2. Fits(f, obj, decided')
  BY LeavingFits DEF Leaving, Dispositions
<1>3. Registers(t, f)
  BY Fields, StaysOut DEF Defers, Is, Walking
<1> QED  BY <1>1, <1>2, <1>3, StoresSame, PlainEnd DEF Defers

LEMMA SettlesKeeps ==
  ASSUME DeliveryInv, NEW t \in Tasks, Settles(t) PROVE DeliveryInv'
<1>1. task[t].decision \in Dispositions /\ (task[t].decision = "processed" => decided)
  BY DEF DeliveryInv, Fitting, Fits, Settles, Is, Leaving
<1>2. RowTyped' /\ (row'.status = "processed" => decided)
  <2>1. RowTyped /\ (row.status = "processed" => decided)
    BY DEF DeliveryInv, Vouched
  <2>2. row' = Completed(task[t].token, task[t].decision) /\ count' = count
    BY DEF Settles
  <2>3. CASE row.status # "leased" \/ row.token # task[t].token
    BY <2>1, <2>2, <2>3 DEF Completed, RowTyped
  <2>4. CASE row.status = "leased" /\ task[t].decision = "processed" /\ row.token = task[t].token
    BY <1>1, <2>1, <2>2, <2>4 DEF Completed, RowTyped, Unleased, Tokens
  <2>5. CASE row.status = "leased" /\ task[t].decision = "retry" /\ row.token = task[t].token
    BY <1>1, <2>1, <2>2, <2>5 DEF Completed, RowTyped, Unleased, Tokens
  <2>6. CASE row.status = "leased" /\ task[t].decision = "defer" /\ row.token = task[t].token
    <3>1. row' = [Unleased("pending") EXCEPT !.attempts = @ - 1]
      BY <2>2, <2>6 DEF Completed
    <3>2. row' = [status |-> "pending", due |-> row.due, lapsed |-> FALSE, token |-> None,
                  attempts |-> row.attempts - 1]
      BY <3>1, <2>1 DEF Unleased, RowTyped
    <3>3. row.attempts - 1 \in Nat /\ row.attempts - 1 <= count.claims
      BY <2>1, <2>6 DEF RowTyped
    <3> QED  BY <3>2, <3>3, <2>1, <2>2 DEF RowTyped, Tokens
  <2>7. task[t].decision = "processed" \/ task[t].decision = "retry" \/ task[t].decision = "defer"
    BY <1>1 DEF Dispositions
  <2> QED  BY <2>3, <2>4, <2>5, <2>6, <2>7
<1>3. Settled
  BY <1>2 DEF Settles, DeliveryInv, Vouched, Settled
<1>4. Becomes(t, Idle)
  BY Types, Moved DEF Settles, Ends
<1>5. Registers(t, Idle)
  BY StaysOut DEF Settles, Is, Idle, Walking
<1>6. Stores /\ Copied(obj) /\ Armed(obj, timers)
  BY StoresSame, MemorySame, TimersSame DEF Settles
<1> QED  BY <1>2, <1>3, <1>4, <1>5, <1>6, IdleFits, StepKeeps DEF Settles, Holds, Step

LEMMA RewritesKeeps ==
  ASSUME DeliveryInv, NEW t \in Tasks, Rewrites(t) PROVE DeliveryInv'
<1> DEFINE f == [task[t] EXCEPT !.pc = "adopt"]
<1>1. /\ task[t] \in TaskType /\ MayBe(task[t].old, decided) /\ task[t].old # None
      /\ task[t].run \in Runs
  BY DEF DeliveryInv, Typed, Fitting, Fits, Rewrites, Is
<1>2. f \in TaskType
  BY Types DEF Pcs
<1>3. Fits(f, obj, decided')
  BY <1>1 DEF Fits, TaskType, Busy, Leaving, Rewrites
<1>4. Stores
  <2>1. \A r \in Runs : MayBe(stored'[r], decided)
    BY <1>1 DEF Rewrites, DeliveryInv, Typed, Vouched, RunOf
  <2>2. stored' \in [Runs -> CopyOrNone]
    BY <1>1 DEF Rewrites, DeliveryInv, Typed, TaskType
  <2> QED  BY <2>1, <2>2 DEF Rewrites, Stores, DeliveryInv, Typed, Vouched
<1>5. Registers(t, f)
  BY <1>1, StaysOut DEF Rewrites, Is, TaskType, Walking
<1> QED  BY <1>2, <1>3, <1>4, <1>5, PlainEnd DEF Rewrites, Goes

LEMMA StartsRunKeeps ==
  ASSUME DeliveryInv, NEW t \in Tasks, StartsRun(t) PROVE DeliveryInv'
<1>1. PICK r \in NewRuns :
        /\ \A q \in NewRuns : r <= q
        /\ Moves(t, ToWalk(r, Fresh))
        /\ Holds([obj EXCEPT ![Fresh] = Copy(task[t].token)])
        /\ unsaved' = [unsaved EXCEPT ![r] = Copy(task[t].token)]
  BY DEF StartsRun
<1> DEFINE f == ToWalk(r, Fresh)
           c == Copy(task[t].token)
           mem == [obj EXCEPT ![Fresh] = c]
<1>2. r \in Runs /\ Fresh \in Objects
  BY Room DEF NewRuns, DeliveryInv
<1>3. Fine(c, decided)
  <2>1. task[t].token \in Tokens
    BY DEF DeliveryInv, Typed, TaskType
  <2> QED  BY <2>1 DEF Fine, Copy, Copies, Done, Statuses, Marks
<1>4. decided' = decided /\ decisions' = decisions /\ row' = row /\ count' = count
      /\ stored' = stored /\ boot' = boot /\ active' = active /\ task[t].pc = "deliver"
  BY DEF StartsRun, Is
<1>5. Copied(mem) /\ mem[Fresh] = c
  BY <1>2, <1>3, <1>4, MemorySame, MemorySet DEF DeliveryInv, Typed
<1>6. Fits(f, mem, decided')
  BY <1>2, <1>3, <1>4, <1>5 DEF Fits, ToWalk, Idle, MayBe, Leaving, Busy
<1>7. Registers(t, f)
  BY <1>4, Fields, StaysOut DEF Walking
<1>8. Stores /\ Armed(mem, timers)
  BY <1>1, <1>3, <1>4, <1>5, StoresSaved, TimersSame
<1>9. f \in TaskType
  BY <1>2, Types
<1> QED  BY <1>1, <1>4, <1>5, <1>6, <1>7, <1>8, <1>9, Plain DEF Holds

(* A step that leaves memory and the tasks as they are.                    *)
LEMMA OutsideKeeps ==
  ASSUME DeliveryInv, UNCHANGED <<obj, task, active, timers, decided>>, Stores, Settled, RowTyped'
  PROVE  DeliveryInv'
<1>1. Typed'
  BY DEF DeliveryInv, Typed, Stores
<1>2. Vouched'
  BY DEF DeliveryInv, Vouched, Stores, Settled
<1>3. Fitting' /\ Timed' /\ Walks'
  BY DEF DeliveryInv, Fitting, Fits, Timed, Walks
<1> QED  BY <1>1, <1>2, <1>3 DEF DeliveryInv

LEMMA ClaimsKeeps ==
  ASSUME DeliveryInv, NEW t \in Tasks, Claims(t) PROVE DeliveryInv'
<1> DEFINE token == count.claims + 1
           leased == [status |-> "leased", due |-> FALSE, lapsed |-> FALSE,
                      token |-> token, attempts |-> row.attempts + 1]
<1>1. /\ count' = [count EXCEPT !.claims = @ + 1] /\ count.claims < MaxClaims
      /\ UNCHANGED <<stored, unsaved, active, beats, decisions, boot, decided>>
  BY DEF Claims
<1>2. /\ token \in Nat /\ token # None /\ token <= MaxClaims
      /\ row.attempts + 1 \in Nat /\ row.attempts + 1 <= token /\ row.attempts + 1 >= 1
      /\ count' \in [claims : Nat, lapses : Nat, restarts : Nat, answers : Nat]
      /\ count'.claims = token
  BY <1>1 DEF DeliveryInv, RowTyped
<1>3. Stores
  BY <1>1, StoresSame
<1>4. \A r \in Newest : r \in Runs /\ Fine(stored[r], decided)
  BY DEF Newest, DeliveryInv, Vouched, MayBe
<1> HIDE DEF token
<1>5. CASE /\ \E r \in Newest : Finished(stored[r])
           /\ row' = [leased EXCEPT !.status = "processed", !.token = None]
           /\ UNCHANGED <<obj, task, timers>>
  <2>1. decided
    <3>1. PICK r \in Newest : Finished(stored[r])
      BY <1>5
    <3>2. Fine(stored[r], decided)
      BY <1>4, <3>1
    <3>3. stored[r] # None
      BY <3>1 DEF Newest
    <3>4. Done(stored[r])
      BY <3>1, <3>3 DEF Finished, Running, Done
    <3> QED  BY <3>2, <3>4 DEF Fine
  <2>2. row' = [status |-> "processed", due |-> FALSE, lapsed |-> FALSE, token |-> None,
                attempts |-> row.attempts + 1]
    BY <1>5
  <2>3. RowTyped'
    BY <1>2, <2>2 DEF RowTyped, Tokens
  <2>4. Settled
    BY <1>1, <2>1 DEF Settled
  <2> QED  BY <1>1, <1>3, <1>5, <2>3, <2>4, OutsideKeeps
<1>6. CASE Is(t, "idle") /\ row' = leased /\ Holds(obj) /\ \E f \in TaskType :
             /\ Moves(t, f) /\ f.pc = "deliver" /\ MayBe(f.old, decided)
             /\ f.old # None => f.run \in Runs
  <2>1. PICK f \in TaskType :
             /\ Moves(t, f) /\ f.pc = "deliver" /\ MayBe(f.old, decided)
             /\ f.old # None => f.run \in Runs
    BY <1>6
  <2>2. Becomes(t, f)
    BY <2>1, Moved
  <2>3. Fits(f, obj, decided')
    BY <1>1, <2>1 DEF Fits, Busy, Leaving
  <2>4. Registers(t, f)
    BY <1>1, <1>6, <2>1, StaysOut DEF Is, Walking
  <2>5. row' = leased
    BY <1>6
  <2>6. RowTyped'
    BY <1>2, <2>5 DEF RowTyped, Tokens
  <2>7. Settled
    BY <1>1, <2>5 DEF Settled, DeliveryInv, Vouched
  <2>8. Copied(obj) /\ Armed(obj, timers)
    BY <1>1, MemorySame, TimersSame
  <2>9. HoldsAnd(obj, timers)
    BY <1>6 DEF Holds
  <2>10. Step(t, f, obj, timers)
    BY <1>3, <2>2, <2>3, <2>4, <2>6, <2>7, <2>8, <2>9 DEF Step
  <2> QED  BY <2>10, StepKeeps
<1>7. ASSUME NEW r \in Newest
      PROVE  LET f == [Idle EXCEPT !.pc = "deliver", !.run = r, !.old = stored[r], !.token = token]
             IN f \in TaskType /\ f.pc = "deliver" /\ f.old = stored[r] /\ f.run = r
  <2>1. r \in Runs /\ stored[r] \in CopyOrNone /\ token \in Tokens
    BY <1>2, <1>4 DEF Tokens, CopyOrNone, Fine, Newest
  <2> HIDE DEF token
  <2> QED  BY <2>1, Types DEF Idle, TaskType, Pcs
<1>8. LET f == [Idle EXCEPT !.pc = "deliver", !.token = token]
      IN f \in TaskType /\ f.pc = "deliver" /\ f.old = None
  <2>1. token \in Tokens
    BY <1>2 DEF Tokens
  <2> HIDE DEF token
  <2> QED  BY <2>1, Types DEF Idle, TaskType, CopyOrNone, Pcs
<1>9. CASE /\ Is(t, "idle") /\ row' = leased /\ Holds(obj)
           /\ \/ \E r \in Newest : Moves(t, [Idle EXCEPT !.pc = "deliver", !.run = r,
                                               !.old = stored[r], !.token = token])
              \/ Moves(t, [Idle EXCEPT !.pc = "deliver", !.token = token])
  <2>1. CASE \E r \in Newest : Moves(t, [Idle EXCEPT !.pc = "deliver", !.run = r,
                                               !.old = stored[r], !.token = token])
    <3>1. PICK r \in Newest : Moves(t, [Idle EXCEPT !.pc = "deliver", !.run = r,
                                               !.old = stored[r], !.token = token])
      BY <2>1
    <3> DEFINE f == [Idle EXCEPT !.pc = "deliver", !.run = r, !.old = stored[r], !.token = token]
    <3>2. f \in TaskType /\ f.pc = "deliver" /\ f.old = stored[r] /\ f.run = r
      BY <1>7
    <3>3. MayBe(f.old, decided) /\ f.run \in Runs
      BY <1>4, <3>2 DEF MayBe
    <3>4. Moves(t, f)
      BY <3>1
    <3> HIDE DEF f
    <3> QED  BY <1>6, <1>9, <3>2, <3>3, <3>4
  <2>2. CASE Moves(t, [Idle EXCEPT !.pc = "deliver", !.token = token])
    BY <1>6, <1>8, <1>9, <2>2 DEF MayBe
  <2> QED  BY <1>9, <2>1, <2>2
<1> QED  BY <1>5, <1>9 DEF Claims, token

LEMMA AdoptsKeeps ==
  ASSUME DeliveryInv, NEW t \in Tasks, Adopts(t) PROVE DeliveryInv'
<1> DEFINE r == RunOf(t)
           o == Found(r)
           old == FoundIn(r)[o]
           c == [old EXCEPT !.token = task[t].token]
           mem == [FoundIn(r) EXCEPT ![o] = c]
           f == [task[t] EXCEPT !.pc = "adopted", !.obj = o]
<1>1. /\ task[t].pc = "adopt" /\ CanFind(r) /\ Moves(t, f) /\ Holds(mem)
      /\ unsaved' = [unsaved EXCEPT ![r] = c]
      /\ UNCHANGED <<row, stored, active, decisions, boot, count, decided>>
  BY DEF Adopts, Is
<1>2. /\ task[t] \in TaskType /\ MayBe(task[t].old, decided) /\ task[t].old # None
      /\ r \in Runs /\ r = task[t].run
  BY <1>1 DEF DeliveryInv, Typed, Fitting, Fits, RunOf
<1>3. o \in Objects /\ Fine(old, decided) /\ Copied(FoundIn(r))
  BY <1>1, <1>2, FindsCopy
<1>4. Fine(c, decided)
  <2> HIDE DEF old
  <2>1. task[t].token \in Tokens
    BY <1>2 DEF TaskType
  <2> QED  BY <1>3, <2>1 DEF Fine, Copies, Done
<1> HIDE DEF c, o
<1>5. Copied(mem) /\ mem[o] = c
  BY <1>1, <1>3, <1>4, MemorySet DEF Copied
<1>6. f \in TaskType /\ f.pc = "adopted" /\ f.obj = o /\ f.old = task[t].old /\ f.run = r
  BY <1>2, <1>3 DEF TaskType, Pcs, Busy
<1> HIDE DEF f, mem
<1>7. Fits(f, mem, decided')
  BY <1>1, <1>2, <1>3, <1>4, <1>5, <1>6 DEF Fits, Leaving
<1>8. Registers(t, f)
  BY <1>1, <1>6, StaysOut DEF Walking
<1>9. Stores /\ Armed(mem, timers)
  BY <1>1, <1>4, <1>5, StoresSaved, TimersSame
<1> QED  BY <1>1, <1>5, <1>6, <1>7, <1>8, <1>9, Plain DEF Holds

LEMMA RearmsKeeps ==
  ASSUME DeliveryInv, NEW t \in Tasks, Rearms(t) PROVE DeliveryInv'
<1> DEFINE r == RunOf(t)
           f == [task[t] EXCEPT !.pc = "look"]
<1>1. /\ task[t].pc = "adopted" /\ Moves(t, f)
      /\ UNCHANGED <<row, stored, unsaved, active, decisions, boot, count, decided>>
  BY DEF Rearms, Is, Goes
<1>2. /\ task[t] \in TaskType /\ MayBe(task[t].old, decided) /\ task[t].old # None
      /\ r \in Runs /\ task[t].obj \in Objects /\ Fine(obj[task[t].obj], decided)
  BY <1>1, Own DEF DeliveryInv, Typed, Fitting, Fits, Busy, Of
<1>3. f \in TaskType /\ f.pc = "look"
  BY <1>2 DEF TaskType, Pcs, Busy
<1>4. Registers(t, f)
  BY <1>1, <1>3, StaysOut DEF Walking
<1>5. ASSUME NEW mem, Copied(mem) PROVE Fits(f, mem, decided')
  <2>1. Fine(mem[task[t].obj], decided')
    BY <1>1, <1>2, <1>5 DEF Copied
  <2> QED  BY <1>1, <2>1, GoesFits DEF Busy
<1>6. CASE Holds(obj)
  BY <1>1, <1>3, <1>4, <1>5, <1>6, MemorySame, StoresSame, PlainEnd
<1>7. CASE HoldsAnd([obj EXCEPT ![Fresh] = task[t].old], [timers EXCEPT ![r] = Fresh])
  <2> DEFINE mem == [obj EXCEPT ![Fresh] = task[t].old]
  <2>1. Fine(task[t].old, decided) /\ Fresh \in Objects
    BY <1>2, Room DEF MayBe, DeliveryInv
  <2>2. Copied(mem) /\ mem[Fresh] = task[t].old
    BY <1>1, <2>1, MemorySame, MemorySet DEF DeliveryInv, Typed
  <2> HIDE DEF mem
  <2>3. Armed(mem, timers)
    BY <1>1, <2>2, TimersSame
  <2>4. Armed(mem, [timers EXCEPT ![r] = Fresh])
    BY <1>1, <2>1, <2>2, <2>3, TimerOn
  <2>5. Fits(f, mem, decided') /\ Stores
    BY <1>1, <1>5, <2>2, StoresSame
  <2> HIDE DEF f
  <2> QED  BY <1>1, <1>3, <1>4, <1>7, <2>2, <2>4, <2>5, Plain DEF mem
<1> QED  BY <1>6, <1>7 DEF Rearms

LEMMA LooksKeeps ==
  ASSUME DeliveryInv, NEW t \in Tasks, Looks(t) PROVE DeliveryInv'
<1> DEFINE r == RunOf(t)
           c == FoundIn(r)[Found(r)]
           mem == [obj EXCEPT ![Fresh] = c]
           f == [Idle EXCEPT !.pc = "probe", !.run = r, !.obj = Fresh]
<1>1. /\ task[t].pc = "look" /\ CanFind(r) /\ Moves(t, f) /\ Holds(mem)
      /\ UNCHANGED <<row, stored, unsaved, active, decisions, boot, count, decided>>
  BY DEF Looks, Is
<1>2. r \in Runs /\ Fine(c, decided) /\ Fresh \in Objects
  BY <1>1, Own, FindsCopy, Room DEF Busy, DeliveryInv
<1> HIDE DEF c
<1>3. Copied(mem) /\ mem[Fresh] = c
  BY <1>1, <1>2, MemorySame, MemorySet DEF DeliveryInv, Typed
<1> HIDE DEF mem
<1>4. f \in TaskType /\ f.pc = "probe" /\ f.old = None /\ f.obj = Fresh /\ f.run = r
  BY <1>2, Types DEF Idle, TaskType, Pcs, Busy
<1> HIDE DEF f
<1>5. Fits(f, mem, decided')
  BY <1>1, <1>2, <1>3, <1>4 DEF Fits, Leaving, MayBe
<1>6. Registers(t, f)
  BY <1>1, <1>4, StaysOut DEF Walking
<1>7. Stores /\ Armed(mem, timers)
  BY <1>1, <1>3, StoresSame, TimersSame
<1> QED  BY <1>1, <1>3, <1>4, <1>5, <1>6, <1>7, Plain DEF Holds

(***************************************************************************)
(* reconcile_one and run_execution.                                        *)
(***************************************************************************)
LEMMA Verdict ==
  ASSUME NEW t, NEW c, NEW d, Fine(c, d)
  PROVE  \E v \in Dispositions : /\ Acknowledged(t, c) = ToSettle(t, "settle", c, v)
                                 /\ v = "processed" => d
<1> DEFINE v == IF c.disp # None THEN c.disp
                ELSE IF c.status = "success" THEN "processed" ELSE "retry"
<1>1. v \in Dispositions
  BY DEF Fine, Copies, Dispositions, Verdicts
<1>2. v = "processed" => d
  BY DEF Fine, Done
<1>3. Acknowledged(t, c) = ToSettle(t, "settle", c, v)
  BY DEF Acknowledged
<1> QED  BY <1>1, <1>2, <1>3

LEMMA AbandonedFine ==
  ASSUME NEW c, NEW d, Fine(c, d) PROVE Fine(Abandoned(c), d)
BY DEF Fine, Abandoned, Copies, Done, Statuses, Marks

LEMMA AcknowledgesKeeps ==
  ASSUME DeliveryInv, NEW t \in Tasks, task[t].pc \in Busy \ Walking,
         Moves(t, Acknowledged(t, Of(t))), Holds(obj),
         UNCHANGED <<row, stored, unsaved, active, decisions, boot, count, decided>>
  PROVE  DeliveryInv'
<1>1. Fine(Of(t), decided) /\ Of(t).token \in Tokens
  BY Own DEF Fine, Copies
<1>2. PICK v \in Dispositions : /\ Acknowledged(t, Of(t)) = ToSettle(t, "settle", Of(t), v)
                                /\ v = "processed" => decided
  BY <1>1, Verdict
<1> DEFINE f == ToSettle(t, "settle", Of(t), v)
<1>3. f \in TaskType /\ f.pc = "settle"
  BY <1>1, Types, Fields DEF Leaving
<1>4. Fits(f, obj, decided')
  BY <1>2, LeavingFits DEF Leaving
<1>5. Moves(t, f)
  BY <1>2
<1> HIDE DEF f
<1>6. Registers(t, f)
  BY <1>3, StaysOut DEF Walking
<1> QED  BY <1>3, <1>4, <1>5, <1>6, StoresSame, PlainEnd

LEMMA EndsKeeps ==
  ASSUME DeliveryInv, NEW t \in Tasks, task[t].pc \notin Walking, Ends(t), Holds(obj),
         UNCHANGED <<row, stored, unsaved, active, decisions, boot, count, decided>>
  PROVE  DeliveryInv'
<1>1. Registers(t, Idle)
  BY Fields, StaysOut DEF Walking
<1> QED  BY <1>1, Types, IdleFits, StoresSame, PlainEnd DEF Ends

LEMMA ProbesKeeps ==
  ASSUME DeliveryInv, NEW t \in Tasks, Probes(t) PROVE DeliveryInv'
<1> DEFINE c == Of(t)
<1>1. task[t].pc = "probe" /\ UNCHANGED <<row, stored, active, decisions, boot, count, decided>>
  BY DEF Probes, Is
<1>2. Fine(c, decided)
  BY <1>1, Own DEF Busy
<1>3. CASE Moves(t, Acknowledged(t, c)) /\ Holds(obj) /\ unsaved' = unsaved
  BY <1>1, <1>3, AcknowledgesKeeps DEF Busy, Walking
<1>4. CASE Ends(t) /\ Holds(obj) /\ unsaved' = unsaved
  BY <1>1, <1>4, EndsKeeps DEF Walking
<1>5. CASE Goes(t, "probed") /\ Persists(t, Abandoned(c))
  <2>1. Fine(Abandoned(c), decided)
    BY <1>2, AbandonedFine
  <2>2. Armed(Changed(t, Abandoned(c)), timers)
    BY <1>1, <2>1, MemorySame, MemorySet, TimersSame DEF Changed
  <2>3. Registers(t, [task[t] EXCEPT !.pc = "probed"])
    <3>1. [task[t] EXCEPT !.pc = "probed"].pc = "probed"
      BY DEF DeliveryInv, Typed, TaskType
    <3> QED  BY <1>1, <3>1, StaysOut DEF Walking
  <2> QED  BY <1>1, <1>5, <2>1, <2>2, <2>3, PlainSave DEF Busy, Persists
<1> QED  BY <1>3, <1>4, <1>5 DEF Probes

LEMMA ProbedKeeps ==
  ASSUME DeliveryInv, NEW t \in Tasks, Probed(t) PROVE DeliveryInv'
BY AcknowledgesKeeps DEF Probed, Is, Busy, Walking

LEMMA WalkedKeeps ==
  ASSUME DeliveryInv, NEW t \in Tasks, Walked(t) PROVE DeliveryInv'
BY EndsKeeps DEF Walked, Is, Walking

(* The fields of a task that goes on.                                      *)
LEMMA GoesFields ==
  ASSUME DeliveryInv, NEW t \in Tasks, NEW pc \in Pcs
  PROVE  LET f == [task[t] EXCEPT !.pc = pc] IN
           f \in TaskType /\ f.pc = pc /\ f.run = RunOf(t)
BY Types DEF DeliveryInv, Typed, TaskType, RunOf

LEMMA EntersKeeps ==
  ASSUME DeliveryInv, NEW t \in Tasks, Enters(t) PROVE DeliveryInv'
<1> DEFINE f == [task[t] EXCEPT !.pc = "walking"]
<1>1. /\ task[t].pc = "enter" /\ active[RunOf(t)] = None /\ Moves(t, f) /\ Holds(obj)
      /\ active' = [active EXCEPT ![RunOf(t)] = t]
      /\ UNCHANGED <<row, stored, unsaved, decisions, boot, count, decided>>
  BY DEF Enters, Is, Goes
<1>2. RunOf(t) \in Runs /\ Fine(obj[task[t].obj], decided)
  BY <1>1, Own DEF Busy, Of
<1>3. f \in TaskType /\ f.pc = "walking" /\ f.run = RunOf(t)
  BY GoesFields DEF Pcs, Busy
<1>4. Fits(f, obj, decided')
  BY <1>1, <1>2, GoesFits DEF Busy
<1> HIDE DEF f
<1>5. Registers(t, f)
  BY <1>1, <1>2, <1>3, GoesIn DEF Walking
<1> QED  BY <1>1, <1>3, <1>4, <1>5, StoresSame, PlainEnd

(* A walker changes its copy, and saves it.                                *)
LEMMA WalkerSaves ==
  ASSUME DeliveryInv, NEW t \in Tasks, task[t].pc \in Walking, NEW pc \in Walking, Goes(t, pc),
         NEW c, Fine(c, decided), NEW armed, PersistsAnd(t, c, armed),
         armed = timers \/ armed = [timers EXCEPT ![RunOf(t)] = task[t].obj],
         UNCHANGED <<row, stored, active, decisions, boot, count, decided>>
  PROVE  DeliveryInv'
<1>1. Copied(Changed(t, c)) /\ task[t].obj \in Objects /\ Changed(t, c)[task[t].obj] = c
  BY Own, MemorySame, MemorySet DEF Changed, Busy, Walking, DeliveryInv, Typed
<1>2. Armed(Changed(t, c), timers)
  BY <1>1, TimersSame
<1>3. Armed(Changed(t, c), armed)
  <2>1. Fine(c, decided')
    BY Later
  <2>2. CASE armed = timers
    BY <1>2, <2>2
  <2>3. CASE armed = [timers EXCEPT ![RunOf(t)] = task[t].obj]
    BY <1>1, <1>2, <2>1, <2>3, TimerOn
  <2> QED  BY <2>2, <2>3
<1>4. Registers(t, [task[t] EXCEPT !.pc = pc])
  <2> DEFINE f == [task[t] EXCEPT !.pc = pc]
  <2>1. f.pc = pc /\ f.run = RunOf(t)
    BY GoesFields DEF Walking, Pcs, Busy
  <2> HIDE DEF f
  <2>2. Registers(t, f)
    BY <2>1, StaysIn
  <2> QED  BY <2>2 DEF f
<1> QED  BY <1>3, <1>4, PlainSave DEF Walking, Busy

LEMMA OpensKeeps ==
  ASSUME DeliveryInv, NEW t \in Tasks, Opens(t) PROVE DeliveryInv'
<1>1. task[t].pc = "walking"
  BY DEF Opens, Goahead, Is
<1>2. Fine([Of(t) EXCEPT !.gate = "waiting"], decided)
  BY <1>1, Own DEF Busy, Fine, Copies, Done, Marks
<1> QED  BY <1>1, <1>2, WalkerSaves DEF Opens, Walking

LEMMA StartsKeeps ==
  ASSUME DeliveryInv, NEW t \in Tasks, Starts(t) PROVE DeliveryInv'
<1>1. task[t].pc = "walking"
  BY DEF Starts, Goahead, Is
<1>2. Fine([Of(t) EXCEPT !.step = "running"], decided)
  BY <1>1, Own DEF Busy, Fine, Copies, Done, Marks
<1> QED  BY <1>1, <1>2, WalkerSaves DEF Starts, Walking, Persists

LEMMA FinishesKeeps ==
  ASSUME DeliveryInv, NEW t \in Tasks, Finishes(t) PROVE DeliveryInv'
<1>1. task[t].pc = "stepping"
  BY DEF Finishes, Is
<1>2. PICK s \in {"success", "error"} : Persists(t, [Of(t) EXCEPT !.step = s])
  BY DEF Finishes
<1>3. Fine([Of(t) EXCEPT !.step = s], decided)
  BY <1>1, Own DEF Busy, Fine, Copies, Done, Marks
<1> QED  BY <1>1, <1>2, <1>3, WalkerSaves DEF Finishes, Walking, Persists

LEMMA WaitsKeeps ==
  ASSUME DeliveryInv, NEW t \in Tasks, Waits(t) PROVE DeliveryInv'
<1>1. task[t].pc = "walking"
  BY DEF Waits, NothingReady, Goahead, Is
<1>2. Fine(Of(t), decided)
  BY <1>1, Own DEF Busy
<1> QED  BY <1>1, <1>2, WalkerSaves DEF Waits, Walking, Persists

(* A walker lets its run go, and ends.                                     *)
LEMMA WalkerEnds ==
  ASSUME DeliveryInv, NEW t \in Tasks, task[t].pc \in Walking, Ends(t), Holds(obj),
         active' = [active EXCEPT ![RunOf(t)] = None],
         UNCHANGED <<row, stored, unsaved, decisions, boot, count, decided>>
  PROVE  DeliveryInv'
<1>1. Registers(t, Idle)
  <2>1. Idle.pc \notin Walking
    BY Fields DEF Walking
  <2> QED  BY <2>1, GoesOut
<1> QED  BY <1>1, Types, IdleFits, StoresSame, PlainEnd DEF Ends

LEMMA LeavesKeeps ==
  ASSUME DeliveryInv, NEW t \in Tasks, Leaves(t) PROVE DeliveryInv'
BY WalkerEnds DEF Leaves, Is, Walking

LEMMA ParksKeeps ==
  ASSUME DeliveryInv, NEW t \in Tasks, Parks(t) PROVE DeliveryInv'
BY WalkerEnds DEF Parks, Is, Walking

(* A run that ends well has succeeded; no other end makes its copy done.   *)
LEMMA ClosesKeeps ==
  ASSUME DeliveryInv, NEW t \in Tasks, Closes(t) PROVE DeliveryInv'
<1> DEFINE failed == "error" \in {Of(t).gate, Of(t).step}
           c == [Of(t) EXCEPT !.status = IF failed THEN "error" ELSE "success"]
           mem == Changed(t, c)
           f == [task[t] EXCEPT !.pc = "closed"]
<1>1. /\ task[t].pc = "walking" /\ Moves(t, f) /\ Holds(mem) /\ decided' = (decided \/ ~failed)
      /\ active' = [active EXCEPT ![RunOf(t)] = None]
      /\ UNCHANGED <<row, stored, unsaved, decisions, boot, count>>
  BY DEF Closes, Is, Goes
<1>2. /\ Fine(Of(t), decided) /\ task[t].obj \in Objects /\ RunOf(t) \in Runs
  BY <1>1, Own DEF Busy
<1>3. Fine(c, decided')
  BY <1>1, <1>2 DEF Fine, Copies, Done, Statuses
<1>4. decided => decided'
  BY <1>1
<1> HIDE DEF c, failed
<1>5. Copied(mem) /\ mem[task[t].obj] = c
  BY <1>2, <1>3, MemorySame, MemorySet DEF Changed, DeliveryInv, Typed
<1> HIDE DEF mem
<1>6. Fits(f, mem, decided')
  BY <1>1, <1>3, <1>4, <1>5, GoesFits DEF Busy
<1>7. f \in TaskType /\ f.pc = "closed" /\ f.run = RunOf(t)
  BY GoesFields DEF Pcs, Busy
<1> HIDE DEF f
<1>8. Registers(t, f)
  <2>1. task[t].pc \in Walking /\ f.pc \notin Walking
    BY <1>1, <1>7 DEF Walking
  <2> QED  BY <1>1, <2>1, GoesOut
<1>9. Stores /\ Armed(mem, timers) /\ Becomes(t, f)
  BY <1>1, <1>4, <1>5, <1>7, StoresSame, TimersSame, Moved
<1>10. Settled /\ RowTyped'
  BY <1>1, <1>4, RowSame DEF Settled, DeliveryInv, Vouched
<1> QED  BY <1>1, <1>5, <1>6, <1>8, <1>9, <1>10, StepKeeps DEF Step, Holds

LEMMA RecordsKeeps ==
  ASSUME DeliveryInv, NEW t \in Tasks, Records(t) PROVE DeliveryInv'
<1> DEFINE d == IF Of(t).status = "success" \/ RunOf(t) \in decisions THEN "processed" ELSE "retry"
           c == [Of(t) EXCEPT !.disp = d]
           mem == Changed(t, c)
           f == ToSettle(t, "close", Of(t), d)
<1>1. /\ task[t].pc = "closed" /\ Moves(t, f) /\ Persists(t, c)
      /\ UNCHANGED <<row, stored, active, decisions, boot, count, decided>>
  BY DEF Records, Is
<1>2. Fine(Of(t), decided) /\ task[t].obj \in Objects
  BY <1>1, Own DEF Busy
<1>3. d = "processed" => decided
  BY <1>2 DEF Fine, Done, DeliveryInv, Vouched
<1>4. Fine(c, decided)
  BY <1>2, <1>3 DEF Fine, Copies, Done, Verdicts
<1>5. Copied(mem)
  BY <1>1, <1>4, MemorySame, MemorySet DEF Changed
<1>6. d \in Dispositions /\ Of(t).token \in Tokens
  BY <1>2 DEF Dispositions, Fine, Copies
<1> HIDE DEF d, c, mem
<1>7. f \in TaskType /\ f.pc = "close"
  BY <1>6, Types, Fields DEF Leaving
<1>8. Fits(f, mem, decided')
  BY <1>1, <1>3, <1>6, LeavingFits DEF Leaving
<1> HIDE DEF f
<1>9. Registers(t, f)
  BY <1>1, <1>7, StaysOut DEF Walking
<1>10. Stores /\ Armed(mem, timers)
  BY <1>1, <1>4, <1>5, StoresSaved, TimersSame DEF Persists, PersistsAnd
<1> QED  BY <1>1, <1>5, <1>7, <1>8, <1>9, <1>10, Plain DEF Persists, PersistsAnd, mem

(***************************************************************************)
(* Answers, timeouts and stops.                                            *)
(***************************************************************************)
LEMMA AnswersKeeps ==
  ASSUME DeliveryInv, NEW t \in Tasks, NEW r \in Runs, Answers(t, r) PROVE DeliveryInv'
<1> DEFINE f(d) == [Idle EXCEPT !.pc = "answer", !.run = r, !.obj = Found(r), !.decision = d]
           mem == FoundIn(r)
<1>1. /\ task[t].pc = "idle" /\ CanFind(r) /\ Holds(mem) /\ Called
      /\ UNCHANGED <<row, stored, unsaved, active, decisions, boot, decided>>
  BY DEF Answers, Is
<1>2. PICK d \in {"approve", "reject"} : Moves(t, f(d))
  BY DEF Answers
<1>3. Found(r) \in Objects /\ Fine(mem[Found(r)], decided) /\ Copied(mem)
  BY <1>1, FindsCopy
<1> HIDE DEF mem
<1>4. f(d) \in TaskType /\ f(d).pc = "answer" /\ f(d).old = None /\ f(d).obj = Found(r) /\ f(d).run = r
  BY <1>2, <1>3, Types DEF Idle, TaskType, Pcs, Busy, Decisions
<1> HIDE DEF f
<1>5. Fits(f(d), mem, decided')
  BY <1>1, <1>3, <1>4 DEF Fits, Leaving, MayBe
<1>6. Registers(t, f(d))
  BY <1>1, <1>4, StaysOut DEF Walking
<1>7. Stores /\ Armed(mem, timers)
  BY <1>1, <1>3, StoresSame, TimersSame
<1> QED  BY <1>1, <1>2, <1>3, <1>4, <1>5, <1>6, <1>7, Plain DEF Holds

LEMMA TimesOutKeeps ==
  ASSUME DeliveryInv, NEW t \in Tasks, NEW r \in Runs, TimesOut(t, r) PROVE DeliveryInv'
<1> DEFINE f == [Idle EXCEPT !.pc = "answer", !.run = r, !.obj = timers[r], !.decision = "timeout"]
<1>1. /\ task[t].pc = "idle" /\ timers[r] # None /\ Moves(t, f) /\ HoldsAnd(obj, Disarmed(r)) /\ Called
      /\ UNCHANGED <<row, stored, unsaved, active, decisions, boot, decided>>
  BY DEF TimesOut, Is
<1>2. timers[r] \in Objects /\ Fine(obj[timers[r]], decided)
  BY <1>1 DEF DeliveryInv, Typed, Timed
<1>3. f \in TaskType /\ f.pc = "answer" /\ f.old = None /\ f.obj = timers[r] /\ f.run = r
  BY <1>2, Types DEF Idle, TaskType, Pcs, Busy, Decisions
<1> HIDE DEF f
<1>4. Fits(f, obj, decided')
  BY <1>1, <1>2, <1>3 DEF Fits, Leaving, MayBe
<1>5. Registers(t, f)
  BY <1>1, <1>3, StaysOut DEF Walking
<1>6. Stores /\ Copied(obj) /\ Armed(obj, Disarmed(r))
  BY <1>1, StoresSame, MemorySame, TimersSame, TimerOff
<1> QED  BY <1>1, <1>3, <1>4, <1>5, <1>6, Plain

LEMMA ResolvesKeeps ==
  ASSUME DeliveryInv, NEW t \in Tasks, Resolves(t) PROVE DeliveryInv'
<1> DEFINE f == [task[t] EXCEPT !.pc = "decide"]
           c == [Of(t) EXCEPT !.disp = "processed"]
<1>1. /\ task[t].pc = "answer" /\ Moves(t, f)
      /\ decided' = (decided \/ task[t].decision = "reject")
      /\ UNCHANGED <<row, stored, unsaved, active, boot, count>>
  BY DEF Resolves, Is, Goes
<1>2. Fine(Of(t), decided) /\ task[t].obj \in Objects /\ RunOf(t) \in Runs
  BY <1>1, Own DEF Busy
<1>3. decided => decided'
  BY <1>1
<1>4. f \in TaskType /\ f.pc = "decide" /\ f.run = RunOf(t)
  BY GoesFields DEF Pcs, Busy
<1>5. ASSUME NEW mem, Fine(mem[task[t].obj], decided') PROVE Fits(f, mem, decided')
  BY <1>1, <1>3, <1>5, GoesFits DEF Busy
<1> HIDE DEF f
<1>6. Registers(t, f)
  BY <1>1, <1>4, StaysOut DEF Walking
<1>7. Stores /\ Becomes(t, f) /\ RowTyped'
  BY <1>1, <1>3, <1>4, StoresSame, Moved, RowSame
<1>8. CASE /\ task[t].decision = "reject" /\ decisions' = decisions \cup {RunOf(t)}
           /\ HoldsAnd(Changed(t, c), Disarmed(RunOf(t)))
  <2>1. decided' /\ Fine(c, decided')
    BY <1>1, <1>2, <1>8 DEF Fine, Copies, Verdicts
  <2>2. Copied(Changed(t, c)) /\ Changed(t, c)[task[t].obj] = c
    BY <1>2, <2>1, MemorySame, MemorySet DEF Changed, DeliveryInv, Typed
  <2>3. Armed(Changed(t, c), Disarmed(RunOf(t)))
    BY <1>3, <2>2, TimersSame, TimerOff
  <2>4. Settled
    BY <2>1 DEF Settled
  <2>5. Fits(f, Changed(t, c), decided')
    BY <1>5, <2>1, <2>2
  <2> HIDE DEF c
  <2> QED  BY <1>6, <1>7, <1>8, <2>2, <2>3, <2>4, <2>5, StepKeeps DEF Step
<1>9. CASE decisions' = decisions /\ HoldsAnd(obj, Disarmed(RunOf(t)))
  <2>1. Settled
    BY <1>1, <1>9 DEF Settled, DeliveryInv, Vouched
  <2>2. Copied(obj) /\ Armed(obj, Disarmed(RunOf(t)))
    BY <1>3, MemorySame, TimersSame, TimerOff
  <2>3. Fits(f, obj, decided')
    <3>1. Fine(obj[task[t].obj], decided')
      BY <1>2, <1>3, Later DEF Of
    <3> QED  BY <1>5, <3>1
  <2> QED  BY <1>6, <1>7, <1>9, <2>1, <2>2, <2>3, StepKeeps DEF Step
<1> QED  BY <1>8, <1>9 DEF Resolves

LEMMA IgnoredKeeps ==
  ASSUME DeliveryInv, NEW t \in Tasks, Ignored(t) PROVE DeliveryInv'
BY EndsKeeps DEF Ignored, Is, Walking

LEMMA DecidesKeeps ==
  ASSUME DeliveryInv, NEW t \in Tasks, Decides(t) PROVE DeliveryInv'
<1> DEFINE c == IF task[t].decision = "approve" THEN [Of(t) EXCEPT !.gate = "success"]
                ELSE [Of(t) EXCEPT !.gate = "error",
                                   !.step = IF @ = "pending" THEN "skipped" ELSE @]
           mem == Changed(t, c)
           f == ToWalk(RunOf(t), task[t].obj)
<1>1. /\ task[t].pc = "decide" /\ Moves(t, f) /\ Persists(t, c)
      /\ UNCHANGED <<row, stored, active, decisions, boot, count, decided>>
  BY DEF Decides, Is
<1>2. Fine(Of(t), decided) /\ task[t].obj \in Objects /\ RunOf(t) \in Runs
  BY <1>1, Own DEF Busy
<1>3. Fine(c, decided)
  BY <1>2 DEF Fine, Copies, Done, Marks
<1> HIDE DEF c
<1>4. Copied(mem) /\ mem[task[t].obj] = c
  BY <1>1, <1>2, <1>3, MemorySame, MemorySet DEF Changed, DeliveryInv, Typed
<1> HIDE DEF mem
<1>5. f \in TaskType /\ f.pc = "enter" /\ f.old = None /\ f.run = RunOf(t) /\ f.obj = task[t].obj
  BY <1>2, Types, Fields
<1> HIDE DEF f
<1>6. Fits(f, mem, decided')
  BY <1>1, <1>2, <1>3, <1>4, <1>5 DEF Fits, Leaving, MayBe
<1>7. Registers(t, f)
  BY <1>1, <1>5, StaysOut DEF Walking
<1>8. Stores /\ Armed(mem, timers)
  BY <1>1, <1>3, <1>4, StoresSaved, TimersSame DEF Persists, PersistsAnd
<1> QED  BY <1>1, <1>4, <1>5, <1>6, <1>7, <1>8, Plain DEF Persists, PersistsAnd, mem

LEMMA StopsKeeps ==
  ASSUME DeliveryInv, NEW t \in Tasks, NEW r \in Runs, Stops(t, r) PROVE DeliveryInv'
<1> DEFINE f == [Idle EXCEPT !.pc = "stop", !.run = r, !.obj = Found(r)]
           mem == FoundIn(r)
<1>1. /\ task[t].pc = "idle" /\ CanFind(r) /\ Holds(mem) /\ Called
      /\ task' = [u \in Tasks |->
           IF u = t THEN f
           ELSE IF active[r] = u THEN [task[u] EXCEPT !.cancelled = TRUE] ELSE task[u]]
      /\ UNCHANGED <<row, stored, unsaved, active, beats, decisions, boot, decided>>
  BY DEF Stops, Is
<1>2. Found(r) \in Objects /\ Fine(mem[Found(r)], decided) /\ Copied(mem)
  BY <1>1, FindsCopy
<1> HIDE DEF mem
<1>3. f \in TaskType /\ f.pc = "stop" /\ f.old = None /\ f.obj = Found(r) /\ f.run = r
  BY <1>2, Types DEF Idle, TaskType, Pcs, Busy
<1> HIDE DEF f
<1>4. Becomes(t, f)
  <2>1. \A u \in Tasks : task[u] \in TaskType
    BY DEF DeliveryInv, Typed
  <2>2. \A u \in Tasks \ {t} : LET g == [task[u] EXCEPT !.cancelled = TRUE] IN
          /\ g \in TaskType /\ g.pc = task[u].pc /\ g.run = task[u].run
          /\ g.obj = task[u].obj /\ g.old = task[u].old /\ g.decision = task[u].decision
    BY <2>1 DEF TaskType
  <2>3. \A u \in Tasks \ {t} :
          task'[u] = task[u] \/ task'[u] = [task[u] EXCEPT !.cancelled = TRUE]
    BY <1>1
  <2>4. task'[t] = f /\ DOMAIN task' = Tasks
    BY <1>1
  <2>5. \A u \in Tasks : task'[u] \in TaskType
    BY <1>3, <2>1, <2>2, <2>3, <2>4
  <2>6. task' \in [Tasks -> TaskType]
    BY <1>1, <2>5
  <2>7. ASSUME NEW u \in Tasks \ {t}
        PROVE  /\ task'[u].pc = task[u].pc /\ task'[u].run = task[u].run
               /\ task'[u].obj = task[u].obj /\ task'[u].old = task[u].old
               /\ task'[u].decision = task[u].decision
    BY <2>2, <2>3
  <2> QED  BY <1>3, <2>4, <2>6, <2>7 DEF Becomes
<1>5. Fits(f, mem, decided')
  BY <1>1, <1>2, <1>3 DEF Fits, Leaving, MayBe
<1>6. Registers(t, f)
  BY <1>1, <1>3, StaysOut DEF Walking
<1>7. Stores /\ Armed(mem, timers) /\ Settled /\ RowTyped'
  BY <1>1, <1>2, StoresSame, TimersSame, Stays, RowSame
<1> QED  BY <1>1, <1>2, <1>4, <1>5, <1>6, <1>7, StepKeeps DEF Step, Holds

LEMMA StoppedKeeps ==
  ASSUME DeliveryInv, NEW t \in Tasks, Stopped(t) PROVE DeliveryInv'
<1> DEFINE c == [Of(t) EXCEPT !.status = "cancelled", !.disp = "processed",
                              !.gate = StoppedStep(@), !.step = StoppedStep(@)]
           mem == Changed(t, c)
           f == ToSettle(t, "settle", c, "processed")
<1>1. /\ task[t].pc = "stop" /\ Moves(t, f) /\ PersistsAnd(t, c, Disarmed(RunOf(t)))
      /\ decided' = TRUE
      /\ UNCHANGED <<row, stored, active, decisions, boot, count>>
  BY DEF Stopped, Is
<1>2. Fine(Of(t), decided) /\ task[t].obj \in Objects /\ RunOf(t) \in Runs
  BY <1>1, Own DEF Busy
<1>3. Fine(c, decided') /\ c.token \in Tokens
  <2>1. \A s \in Marks : StoppedStep(s) \in Marks
    BY DEF StoppedStep, Marks
  <2>2. Of(t) \in Copies
    BY <1>2 DEF Fine
  <2>3. c \in Copies
    BY <2>1, <2>2 DEF Copies, Statuses, Verdicts
  <2> HIDE DEF c
  <2> QED  BY <1>1, <2>3 DEF Fine, Copies
<1>4. decided'
  BY <1>1
<1> HIDE DEF c
<1>5. Copied(mem)
  BY <1>3, <1>4, MemorySame, MemorySet DEF Changed
<1>6. f \in TaskType /\ f.pc = "settle"
  BY <1>3, Types, Fields DEF Leaving, Dispositions
<1>7. Fits(f, mem, decided')
  BY <1>4, LeavingFits DEF Leaving, Dispositions
<1> HIDE DEF f
<1>8. Registers(t, f)
  BY <1>1, <1>6, StaysOut DEF Walking
<1>9. Stores /\ Armed(mem, timers) /\ Becomes(t, f)
  BY <1>1, <1>3, <1>4, <1>5, <1>6, StoresSaved, TimersSame, Moved DEF PersistsAnd
<1>10. Armed(mem, Disarmed(RunOf(t)))
  BY <1>9, TimerOff
<1>11. Settled /\ RowTyped'
  BY <1>1, <1>4, RowSame DEF Settled
<1> QED  BY <1>1, <1>5, <1>7, <1>8, <1>9, <1>10, <1>11, StepKeeps DEF Step, PersistsAnd, mem

(***************************************************************************)
(* The writer, time, and restarts.                                         *)
(***************************************************************************)
LEMMA WritesKeeps ==
  ASSUME DeliveryInv, NEW r \in Runs, Writes(r) PROVE DeliveryInv'
<1>1. Stores
  <2>1. unsaved[r] \in CopyOrNone /\ MayBe(unsaved[r], decided)
    BY DEF DeliveryInv, Typed, Vouched
  <2>2. stored' \in [Runs -> CopyOrNone] /\ unsaved' \in [Runs -> CopyOrNone]
    BY <2>1 DEF Writes, DeliveryInv, Typed, CopyOrNone
  <2>3. ASSUME NEW q \in Runs PROVE MayBe(stored'[q], decided') /\ MayBe(unsaved'[q], decided')
    <3>1. stored'[q] \in {stored[q], unsaved[r]} /\ unsaved'[q] \in {unsaved[q], None}
      BY DEF Writes, DeliveryInv, Typed
    <3> QED  BY <2>1, <3>1 DEF Writes, DeliveryInv, Vouched, MayBe
  <2> QED  BY <2>2, <2>3 DEF Stores, Writes, DeliveryInv, Typed, Vouched
<1>2. Settled /\ RowTyped'
  BY Stays, RowSame DEF Writes
<1> QED  BY <1>1, <1>2, OutsideKeeps DEF Writes

(* The row's own steps: nothing it was not already is recorded as done.    *)
LEMMA RowKeeps ==
  ASSUME DeliveryInv, RowTyped', row'.status = "processed" => row.status = "processed",
         UNCHANGED <<stored, unsaved, obj, task, active, timers, decisions, boot, decided>>
  PROVE  DeliveryInv'
<1>1. Settled
  BY DEF DeliveryInv, Vouched, Settled
<1> QED  BY <1>1, StoresSame, OutsideKeeps

LEMMA RenewsKeeps ==
  ASSUME DeliveryInv, NEW r \in Runs, Renews(r) PROVE DeliveryInv'
<1>1. RowTyped' /\ (row'.status = "processed" => row.status = "processed")
  BY DEF Renews, DeliveryInv, RowTyped
<1> QED  BY <1>1, RowKeeps DEF Renews

LEMMA RipensKeeps ==
  ASSUME DeliveryInv, Ripens PROVE DeliveryInv'
<1>1. RowTyped' /\ (row'.status = "processed" => row.status = "processed")
  BY DEF Ripens, DeliveryInv, RowTyped
<1> QED  BY <1>1, RowKeeps DEF Ripens

LEMMA LapsesKeeps ==
  ASSUME DeliveryInv, Lapses PROVE DeliveryInv'
<1>1. row' = [row EXCEPT !.lapsed = TRUE] /\ row.status = "leased"
      /\ (count' = count \/ count' = [count EXCEPT !.lapses = @ + 1])
  BY DEF Lapses
<1>2. RowTyped
  BY DEF DeliveryInv
<1>3. /\ row' \in [status : {"pending", "leased", "processed", "dead"}, due : BOOLEAN,
                   lapsed : BOOLEAN, token : Tokens, attempts : Nat]
      /\ row'.status = row.status /\ row'.token = row.token /\ row'.attempts = row.attempts
  BY <1>1, <1>2 DEF RowTyped
<1>4. /\ count' \in [claims : Nat, lapses : Nat, restarts : Nat, answers : Nat]
      /\ count'.claims = count.claims
  BY <1>1, <1>2 DEF RowTyped
<1>5. RowTyped' /\ (row'.status = "processed" => row.status = "processed")
  BY <1>2, <1>3, <1>4 DEF RowTyped
<1> QED  BY <1>5, RowKeeps DEF Lapses

LEMMA RestartsKeeps ==
  ASSUME DeliveryInv, Restarts PROVE DeliveryInv'
<1>1. /\ task' = [t \in Tasks |-> Idle] /\ obj' = [o \in Objects |-> None]
      /\ unsaved' = NoRuns /\ active' = NoRuns /\ timers' = NoRuns /\ decisions' = {}
      /\ boot' = [release |-> TRUE, read |-> TRUE, runs |-> NoRuns]
      /\ UNCHANGED <<row, stored, decided>> /\ count' = [count EXCEPT !.restarts = @ + 1]
  BY DEF Restarts
<1>2. Typed'
  <2>1. Idle \in TaskType
    BY DEF Idle, TaskType, CopyOrNone, Tokens, Pcs
  <2> QED  BY <1>1, <2>1 DEF Typed, DeliveryInv, NoRuns, CopyOrNone
<1>3. RowTyped'
  BY <1>1 DEF RowTyped, DeliveryInv
<1>4. Vouched'
  BY <1>1 DEF Vouched, DeliveryInv, NoRuns, MayBe
<1>5. Fitting'
  BY <1>1, IdleFits DEF Fitting
<1>6. Timed'
  BY <1>1 DEF Timed, NoRuns
<1>7. Walks'
  BY <1>1, Fields DEF Walks, NoRuns, Walking
<1> QED  BY <1>2, <1>3, <1>4, <1>5, <1>6, <1>7 DEF DeliveryInv

(* What a start of vornd has still to do changes, and the row with it.     *)
LEMMA ReleasesKeeps ==
  ASSUME DeliveryInv, Releases PROVE DeliveryInv'
<1> DEFINE R == [status : {"pending", "leased", "processed", "dead"}, due : BOOLEAN,
                 lapsed : BOOLEAN, token : Tokens, attempts : Nat]
           x == Unleased("pending")
<1>1. /\ boot' = [boot EXCEPT !.release = FALSE]
      /\ row' = IF row.status = "leased" THEN [x EXCEPT !.due = TRUE] ELSE row
      /\ UNCHANGED <<stored, unsaved, obj, task, active, timers, decisions, count, decided>>
  BY DEF Releases
<1>2. RowTyped /\ row \in R
  BY DEF DeliveryInv, RowTyped
<1>3. x \in R /\ x.status = "pending" /\ x.token = None /\ x.attempts = row.attempts
  BY <1>2 DEF Unleased, Tokens
<1> HIDE DEF x
<1>4. ASSUME row.status = "leased" PROVE RowTyped'
  <2>1. row' \in R /\ row'.status = "pending" /\ row'.token = None /\ row'.attempts = row.attempts
    BY <1>1, <1>3, <1>4
  <2> QED  BY <1>1, <1>2, <2>1 DEF RowTyped
<1>5. ASSUME row.status # "leased" PROVE RowTyped'
  BY <1>1, <1>2, <1>5 DEF RowTyped
<1>6. row'.status = "processed" => row.status = "processed"
  <2>1. row.status = "leased" => row'.status = "pending"
    BY <1>1, <1>3
  <2> QED  BY <1>1, <2>1
<1>7. Stores
  <2>1. boot' \in [release : BOOLEAN, read : BOOLEAN, runs : [Runs -> CopyOrNone]]
        /\ boot'.runs = boot.runs
    BY <1>1 DEF DeliveryInv, Typed
  <2> QED  BY <1>1, <2>1 DEF Stores, DeliveryInv, Typed, Vouched
<1>8. Settled
  BY <1>1, <1>6 DEF Settled, DeliveryInv, Vouched
<1>9. RowTyped'
  BY <1>4, <1>5
<1> QED  BY <1>1, <1>7, <1>8, <1>9, OutsideKeeps

LEMMA ReadsKeeps ==
  ASSUME DeliveryInv, Reads PROVE DeliveryInv'
<1>1. Stores
  <2> DEFINE runs == [r \in Runs |-> IF Running(stored[r]) THEN stored[r] ELSE None]
  <2>1. runs \in [Runs -> CopyOrNone] /\ \A r \in Runs : MayBe(runs[r], decided)
    BY DEF DeliveryInv, Typed, Vouched, MayBe, CopyOrNone
  <2>2. boot' = [boot EXCEPT !.read = FALSE, !.runs = runs]
    BY DEF Reads
  <2> HIDE DEF runs
  <2>3. boot' \in [release : BOOLEAN, read : BOOLEAN, runs : [Runs -> CopyOrNone]]
        /\ boot'.runs = runs
    BY <2>1, <2>2 DEF DeliveryInv, Typed
  <2> QED  BY <2>1, <2>3 DEF Reads, Stores, DeliveryInv, Typed, Vouched
<1>2. Settled /\ RowTyped'
  BY Stays, RowSame DEF Reads
<1> QED  BY <1>1, <1>2, OutsideKeeps DEF Reads

LEMMA ResumesKeeps ==
  ASSUME DeliveryInv, NEW t \in Tasks, NEW r \in Runs, Resumes(t, r) PROVE DeliveryInv'
<1> DEFINE c == boot.runs[r]
           o == Fresh
           g == CHOOSE x \in Spare : x # o
           mem == [obj EXCEPT ![o] = c, ![g] = c]
           f == [Idle EXCEPT !.pc = "probe", !.run = r, !.obj = o]
           armed == IF Asks(c) THEN [timers EXCEPT ![r] = g] ELSE timers
<1>1. /\ task[t].pc = "idle" /\ c # None /\ boot' = [boot EXCEPT !.runs[r] = None]
      /\ Moves(t, f) /\ HoldsAnd(mem, armed)
      /\ UNCHANGED <<row, stored, unsaved, active, decisions, count, decided>>
  BY DEF Resumes, Is
<1>2. Fine(c, decided)
  BY <1>1 DEF DeliveryInv, Vouched, MayBe
<1>3. o \in Objects /\ g \in Objects /\ g # o
  <2>1. o \in Objects /\ \E x \in Spare : x # o
    BY Room DEF DeliveryInv
  <2>2. g \in Spare /\ g # o
    BY <2>1
  <2> QED  BY <2>1, <2>2 DEF Spare
<1> HIDE DEF c, o, g
<1>4. Copied(mem) /\ mem[o] = c /\ mem[g] = c
  <2>1. obj \in [Objects -> CopyOrNone]
    BY DEF DeliveryInv, Typed
  <2>2. Copied([obj EXCEPT ![o] = c])
    BY <1>1, <1>2, MemorySame, MemorySet
  <2>3. Copied([[obj EXCEPT ![o] = c] EXCEPT ![g] = c])
    BY <1>1, <1>2, <2>2, MemorySet
  <2>4. mem = [[obj EXCEPT ![o] = c] EXCEPT ![g] = c]
    BY <2>1, <1>3
  <2> QED  BY <1>3, <2>1, <2>3, <2>4
<1> HIDE DEF mem
<1>5. f \in TaskType /\ f.pc = "probe" /\ f.old = None /\ f.obj = o /\ f.run = r
  BY <1>3, Types DEF Idle, TaskType, Pcs, Busy
<1> HIDE DEF f
<1>6. Fits(f, mem, decided')
  BY <1>1, <1>2, <1>3, <1>4, <1>5 DEF Fits, Leaving, MayBe
<1>7. Registers(t, f)
  BY <1>1, <1>5, StaysOut DEF Walking
<1>8. Armed(mem, armed)
  <2>1. Armed(mem, timers)
    BY <1>1, <1>4, TimersSame
  <2>2. Fine(mem[g], decided')
    BY <1>1, <1>2, <1>4
  <2>3. CASE Asks(c)
    BY <1>3, <2>1, <2>2, <2>3, TimerOn
  <2>4. CASE ~Asks(c)
    BY <2>1, <2>4
  <2> QED  BY <2>3, <2>4
<1> HIDE DEF armed
<1>9. Stores
  <2>1. boot' \in [release : BOOLEAN, read : BOOLEAN, runs : [Runs -> CopyOrNone]]
    BY <1>1 DEF DeliveryInv, Typed, CopyOrNone
  <2>2. \A q \in Runs : boot'.runs[q] = boot.runs[q] \/ boot'.runs[q] = None
    BY <1>1 DEF DeliveryInv, Typed
  <2>3. \A q \in Runs : MayBe(boot'.runs[q], decided')
    BY <1>1, <2>2 DEF DeliveryInv, Vouched, MayBe
  <2> QED  BY <1>1, <2>1, <2>3 DEF Stores, DeliveryInv, Typed, Vouched
<1> QED  BY <1>1, <1>4, <1>5, <1>6, <1>7, <1>8, <1>9, Plain

(***************************************************************************)
(* The invariant, and what follows from it.                                *)
(***************************************************************************)
LEMMA InitInv == DeliveryInit => DeliveryInv
<1> SUFFICES ASSUME DeliveryInit PROVE DeliveryInv
  OBVIOUS
<1>1. Typed
  <2>1. Idle \in TaskType
    BY DEF Idle, TaskType, CopyOrNone, Tokens, Pcs
  <2> QED  BY <2>1 DEF DeliveryInit, Typed, NoRuns, CopyOrNone
<1>2. RowTyped
  BY DEF DeliveryInit, RowTyped, Tokens
<1>3. Vouched
  BY DEF DeliveryInit, Vouched, NoRuns, MayBe
<1>4. Fitting
  BY IdleFits DEF DeliveryInit, Fitting
<1>5. Timed
  BY DEF DeliveryInit, Timed, NoRuns
<1>6. Walks
  BY Fields DEF DeliveryInit, Walks, NoRuns, Walking
<1> QED  BY <1>1, <1>2, <1>3, <1>4, <1>5, <1>6 DEF DeliveryInv

LEMMA StutterInv ==
  ASSUME DeliveryInv, UNCHANGED deliveryVars PROVE DeliveryInv'
<1>1. UNCHANGED <<row, stored, unsaved, obj, task, active, timers, decisions, boot, count, decided>>
  BY DEF deliveryVars
<1>2. RowTyped'
  BY <1>1, RowSame
<1> QED  BY <1>1, <1>2, RowKeeps

LEMMA NextInv ==
  ASSUME DeliveryInv, DeliveryNext PROVE DeliveryInv'
<1>1. CASE \E t \in Tasks : Works(t)
  <2>1. PICK t \in Tasks : Works(t)
    BY <1>1
  <2> QED
    BY <2>1, ClaimsKeeps, SettlesKeeps, DefersKeeps, StartsRunKeeps, RewritesKeeps, AdoptsKeeps,
       RearmsKeeps, LooksKeeps, ProbesKeeps, ProbedKeeps, WalkedKeeps, EntersKeeps, OpensKeeps,
       StartsKeeps, FinishesKeeps, LeavesKeeps, WaitsKeeps, ParksKeeps, ClosesKeeps, RecordsKeeps,
       ResolvesKeeps, IgnoredKeeps, DecidesKeeps, StoppedKeeps DEF Works
<1>2. CASE \E t \in Tasks, r \in Runs : Answers(t, r) \/ TimesOut(t, r) \/ Stops(t, r) \/ Resumes(t, r)
  BY <1>2, AnswersKeeps, TimesOutKeeps, StopsKeeps, ResumesKeeps
<1>3. CASE \E r \in Runs : Writes(r) \/ Renews(r)
  BY <1>3, WritesKeeps, RenewsKeeps
<1>4. CASE Ripens \/ Lapses \/ Restarts \/ Releases \/ Reads
  BY <1>4, RipensKeeps, LapsesKeeps, RestartsKeeps, ReleasesKeeps, ReadsKeeps
<1> QED  BY <1>1, <1>2, <1>3, <1>4 DEF DeliveryNext

(* No copy of a run anywhere - the store's, the writer's, a task's, a      *)
(* timer's, one a start of vornd read - says its row is done before a run  *)
(* succeeded or a person ended one, and tasks work on the copies they      *)
(* found.                                                                  *)
THEOREM DeliveryInvariant == DeliverySpec => []DeliveryInv
<1>1. DeliveryInv /\ [DeliveryNext]_deliveryVars => DeliveryInv'
  BY NextInv, StutterInv
<1> QED  BY InitInv, <1>1, PTL DEF DeliverySpec

(* A run is walked by the one task that registered it, and a row holds a   *)
(* token exactly while it is leased.                                       *)
THEOREM DeliveryTypes == DeliverySpec => []DeliveryTypeOK
<1>1. DeliveryInv => DeliveryTypeOK
  <2> SUFFICES ASSUME DeliveryInv PROVE DeliveryTypeOK
    OBVIOUS
  <2>1. row.status \in {"pending", "leased", "processed", "dead"}
        /\ (row.status = "leased") = (row.token # None) /\ row.attempts \in 0..MaxClaims
    BY DEF DeliveryInv, RowTyped
  <2>2. \A t \in Tasks, r \in Runs :
          (active[r] = t) = (RunOf(t) = r /\ task[t].pc \in {"walking", "stepping", "parking"})
    BY DEF DeliveryInv, Walks, Walking, RunOf
  <2> QED  BY <2>1, <2>2 DEF DeliveryTypeOK
<1> QED  BY <1>1, DeliveryInvariant, PTL

(* A row is recorded as processed only once a run of it succeeded or a     *)
(* person ended one.                                                       *)
THEOREM ProcessedOnlyIfDecided == DeliverySpec => []ProcessedWasDecided
<1>1. DeliveryInv => ProcessedWasDecided
  BY DEF DeliveryInv, Vouched, ProcessedWasDecided
<1> QED  BY <1>1, DeliveryInvariant, PTL

=============================================================================
