------------------------------ MODULE Delivery ------------------------------
(***************************************************************************)
(* A row of the connector inbox and the workflow runs it is delivered to:  *)
(* leased, renewed, settled, and delivered again after a lapse, a failure  *)
(* or a restart, while people answer the run's gate or stop it.            *)
(* (work/src/inbox.rs with store/src/connectors.rs under it;               *)
(* workflow/src/engine.rs, triggers.rs, steps.rs; vornd's deliver_inbox    *)
(* and resume.)                                                            *)
(*                                                                         *)
(* The workflow is a gate and then a step.  A run that is walked is one    *)
(* object its walker and whoever finds it share; a run that is parked is   *)
(* in the store alone, and each task that looks for it reads a copy of its *)
(* own.  Tasks run between each other's awaits.  Left out: rows that share *)
(* a batch, requests for changes, sign-in waits, loops, steps that run an  *)
(* agent, and the claim that keeps one trigger from starting two runs      *)
(* within ten seconds, which is less than any redelivery takes.            *)
(***************************************************************************)
EXTENDS Integers, FiniteSets

CONSTANTS
  Tasks,        (* the engine's tasks at work at one time                  *)
  None,
  MaxAttempts,  (* MAX_INBOX_ATTEMPTS                                      *)
  MaxRuns,      (* bound: runs of the row                                  *)
  MaxClaims,    (* bound: leases of the row                                *)
  MaxLapses,    (* bound: leases that lapse while somebody works           *)
  MaxRestarts,  (* bound: vornd restarts                                   *)
  MaxAnswers    (* bound: answers, timeouts and stops that reach a run     *)

ASSUME DeliveryAssumption ==
  /\ MaxAttempts \in Nat \ {0} /\ MaxRuns \in Nat /\ MaxClaims \in Nat
  /\ IsFiniteSet(Tasks) /\ None \notin Nat \cup Tasks \cup {"processed", "retry", "defer"}

VARIABLES
  row,       (* connector_inbox: status, due, lapsed, token, attempts      *)
  stored,    (* workflow_runs: run |-> the copy last written, or None      *)
  unsaved,   (* run |-> what the writer has still to write, or None        *)
  obj,       (* the copies tasks and timers hold                           *)
  task,      (* task |-> where it is, with which run and copy              *)
  active,    (* run |-> the task that walks it, or None                    *)
  timers,    (* run |-> the copy its gate's timeout will reject, or None   *)
  beats,     (* run |-> the token its heartbeat renews, or None            *)
  decisions, (* terminal_decisions                                         *)
  boot,      (* what a start of vornd has still to do                      *)
  count,     (* leases, lapses, restarts, answers so far                   *)
  decided    (* history: a run succeeded, or a person ended one            *)

deliveryVars == <<row, stored, unsaved, obj, task, active, timers, beats, decisions,
                  boot, count, decided>>

Runs == 1..MaxRuns
Objects == 1..Cardinality(Tasks) + MaxRuns + 2

(* A run's record: node states, the lease and what its row will come to.   *)
Copy(token) ==
  [status |-> "running", gate |-> "pending", step |-> "pending", token |-> token, disp |-> None]

Running(c) == c # None /\ c.status = "running"
Asks(c) == Running(c) /\ c.gate = "waiting"

Idle == [pc |-> "idle", run |-> None, obj |-> None, old |-> None, token |-> None,
         decision |-> None, cancelled |-> FALSE]

Is(t, pc) == task[t].pc = pc
Of(t) == obj[task[t].obj]
RunOf(t) == task[t].run

Spare == Objects \ ({task[t].obj : t \in Tasks} \cup {timers[r] : r \in Runs})
Fresh == CHOOSE o \in Spare : TRUE

(* What no task and no timer holds any more is gone.                       *)
HoldsAnd(mem, armed) ==
  /\ timers' = armed
  /\ obj' = [o \in Objects |->
               IF (\E t \in Tasks : task'[t].obj = o) \/ (\E r \in Runs : armed[r] = o)
               THEN mem[o] ELSE None]

Holds(mem) == HoldsAnd(mem, timers)

Disarmed(r) == [timers EXCEPT ![r] = None]

Moves(t, f) == task' = [task EXCEPT ![t] = f]
Ends(t) == Moves(t, Idle)
Goes(t, pc) == Moves(t, [task[t] EXCEPT !.pc = pc])

Changed(t, c) == [obj EXCEPT ![task[t].obj] = c]

(* persist: published, and left to the writer.                             *)
PersistsAnd(t, c, armed) ==
  HoldsAnd(Changed(t, c), armed) /\ unsaved' = [unsaved EXCEPT ![RunOf(t)] = c]

Persists(t, c) == PersistsAnd(t, c, timers)

Beats(r, token) == IF beats[r] = None THEN [beats EXCEPT ![r] = token] ELSE beats

(***************************************************************************)
(* The writer, and run_by_id: the run being walked, else the stored one    *)
(* once what was handed to the writer is written.                          *)
(***************************************************************************)
Writes(r) ==
  /\ unsaved[r] # None
  /\ stored' = [stored EXCEPT ![r] = unsaved[r]] /\ unsaved' = [unsaved EXCEPT ![r] = None]
  /\ UNCHANGED <<row, obj, task, active, timers, beats, decisions, boot, count, decided>>

CanFind(r) == active[r] # None \/ (unsaved[r] = None /\ stored[r] # None)

Found(r) == IF active[r] # None THEN task[active[r]].obj ELSE Fresh

FoundIn(r) == IF active[r] # None THEN obj ELSE [obj EXCEPT ![Fresh] = stored[r]]

(***************************************************************************)
(* The inbox: claim_due, complete and renew.                               *)
(***************************************************************************)
Claimable == \/ row.status = "pending" /\ row.due
             \/ row.status = "leased" /\ row.lapsed

Newest == {r \in Runs : stored[r] # None /\ \A q \in Runs : q > r => stored[q] = None}

Finished(c) == ~Running(c) /\ (c.disp = "processed" \/ c.status \in {"success", "cancelled"})

(* Rows are leased, and one whose run has finished is settled at once; the *)
(* others are delivered, each with the run that is still going on it.      *)
Claims(t) ==
  /\ ~boot.release /\ Claimable /\ count.claims < MaxClaims
  /\ count' = [count EXCEPT !.claims = @ + 1]
  /\ LET leased == [status |-> "leased", due |-> FALSE, lapsed |-> FALSE,
                    token |-> count.claims + 1, attempts |-> row.attempts + 1]
     IN \/ /\ \E r \in Newest : Finished(stored[r])
           /\ row' = [leased EXCEPT !.status = "processed", !.token = None]
           /\ UNCHANGED <<obj, task, timers>>
        \/ /\ \A r \in Newest : ~Finished(stored[r])
           /\ Is(t, "idle") /\ row' = leased
           /\ \/ \E r \in Newest :
                   /\ Running(stored[r])
                   /\ Moves(t, [Idle EXCEPT !.pc = "deliver", !.run = r, !.old = stored[r],
                                            !.token = leased.token])
              \/ /\ \A r \in Newest : ~Running(stored[r])
                 /\ Moves(t, [Idle EXCEPT !.pc = "deliver", !.token = leased.token])
           /\ Holds(obj)
  /\ UNCHANGED <<stored, unsaved, active, beats, decisions, boot, decided>>

Unleased(status) == [row EXCEPT !.status = status, !.token = None, !.lapsed = FALSE]

(* A lease that is no longer the row's settles nothing; a deferral is not  *)
(* an attempt.                                                             *)
Completed(token, disposition) ==
  IF row.status # "leased" \/ row.token # token THEN row
  ELSE CASE disposition = "processed" -> Unleased("processed")
         [] disposition = "retry" -> Unleased(IF row.attempts >= MaxAttempts THEN "dead"
                                              ELSE "pending")
         [] disposition = "defer" -> [Unleased("pending") EXCEPT !.attempts = @ - 1]

Settles(t) ==
  /\ Is(t, "settle") \/ Is(t, "close")
  /\ row' = Completed(task[t].token, task[t].decision)
  /\ decisions' = IF Is(t, "close") THEN decisions \ {RunOf(t)} ELSE decisions
  /\ Ends(t) /\ Holds(obj)
  /\ UNCHANGED <<stored, unsaved, active, beats, boot, count, decided>>

ToWalk(r, o) == [Idle EXCEPT !.pc = "enter", !.run = r, !.obj = o]

ToSettle(t, pc, c, decision) ==
  [Idle EXCEPT !.pc = pc, !.run = RunOf(t), !.token = c.token, !.decision = decision]

(* A heartbeat ends once the row is not the run's any more.                *)
Renews(r) ==
  /\ beats[r] # None
  /\ IF row.status = "leased" /\ row.token = beats[r]
     THEN row.lapsed /\ row' = [row EXCEPT !.lapsed = FALSE] /\ beats' = beats
     ELSE beats' = [beats EXCEPT ![r] = None] /\ row' = row
  /\ UNCHANGED <<stored, unsaved, obj, task, active, timers, decisions, boot, count, decided>>

(***************************************************************************)
(* run_connector_item.                                                     *)
(***************************************************************************)
Defers(t) ==
  /\ Is(t, "deliver")
  /\ Moves(t, ToSettle(t, "settle", task[t], "defer")) /\ Holds(obj)
  /\ UNCHANGED <<row, stored, unsaved, active, beats, decisions, boot, count, decided>>

NewRuns == {r \in Runs : stored[r] = None /\ unsaved[r] = None}

(* claim_new_run: the run is the writer's before it is walked.             *)
StartsRun(t) ==
  /\ Is(t, "deliver") /\ task[t].old = None
  /\ \E r \in NewRuns :
        /\ \A q \in NewRuns : r <= q
        /\ Moves(t, ToWalk(r, Fresh))
        /\ Holds([obj EXCEPT ![Fresh] = Copy(task[t].token)])
        /\ unsaved' = [unsaved EXCEPT ![r] = Copy(task[t].token)]
  /\ UNCHANGED <<row, stored, active, beats, decisions, boot, count, decided>>

(* adopt_lease_on: what claim_due read is written, unless the run is being *)
(* walked; adopt_lease: the run's copy gets the lease, and is written.     *)
Rewrites(t) ==
  /\ Is(t, "deliver") /\ task[t].old # None
  /\ stored' = IF active[RunOf(t)] = None
               THEN [stored EXCEPT ![RunOf(t)] = task[t].old] ELSE stored
  /\ Goes(t, "adopt") /\ Holds(obj)
  /\ UNCHANGED <<row, unsaved, active, beats, decisions, boot, count, decided>>

Adopts(t) ==
  /\ Is(t, "adopt") /\ CanFind(RunOf(t))
  /\ LET r == RunOf(t)
         o == Found(r)
         c == [FoundIn(r)[o] EXCEPT !.token = task[t].token]
     IN /\ Moves(t, [task[t] EXCEPT !.pc = "adopted", !.obj = o])
        /\ Holds([FoundIn(r) EXCEPT ![o] = c])
        /\ unsaved' = [unsaved EXCEPT ![r] = c]
        /\ beats' = [beats EXCEPT ![r] = None]
  /\ UNCHANGED <<row, stored, active, decisions, boot, count, decided>>

(* Once it is written: the heartbeat again, and rearm_gates, with the copy *)
(* claim_due read.                                                         *)
Rearms(t) ==
  /\ Is(t, "adopted") /\ unsaved[RunOf(t)] = None
  /\ LET r == RunOf(t) IN
     /\ beats' = Beats(r, Of(t).token)
     /\ Goes(t, "look")
     /\ IF Asks(task[t].old)
        THEN HoldsAnd([obj EXCEPT ![Fresh] = task[t].old],
                      [timers EXCEPT ![r] = Fresh])
        ELSE Holds(obj)
  /\ UNCHANGED <<row, stored, unsaved, active, decisions, boot, count, decided>>

(* reconcile, of what the run is now: a copy of its own.                   *)
Looks(t) ==
  /\ Is(t, "look") /\ CanFind(RunOf(t))
  /\ LET r == RunOf(t)
         o == Fresh
     IN /\ Moves(t, [Idle EXCEPT !.pc = "probe", !.run = r, !.obj = o])
        /\ Holds([obj EXCEPT ![o] = FoundIn(r)[Found(r)]])
  /\ UNCHANGED <<row, stored, unsaved, active, beats, decisions, boot, count, decided>>

(***************************************************************************)
(* reconcile_one: a run that ended is acknowledged, one that waits is left *)
(* waiting, and any other is taken for one an earlier process abandoned.   *)
(***************************************************************************)
(* Fault: a run that ended without a word about its row counts as done.    *)
AcknowledgedDone(t, c) ==
  ToSettle(t, "settle", c, IF c.disp # None THEN c.disp ELSE "processed")

Acknowledged(t, c) ==
  ToSettle(t, "settle", c, IF c.disp # None THEN c.disp
                           ELSE IF c.status = "success" THEN "processed" ELSE "retry")

Abandoned(c) ==
  [c EXCEPT !.status = "error", !.gate = IF @ = "pending" THEN "error" ELSE @,
            !.step = IF @ \in {"pending", "running"} THEN "error" ELSE @]

Probes(t) ==
  /\ Is(t, "probe")
  /\ LET c == Of(t)
         r == RunOf(t)
     IN \/ /\ ~Running(c)
           /\ Moves(t, Acknowledged(t, c)) /\ Holds(obj)
           /\ beats' = [beats EXCEPT ![r] = None] /\ unsaved' = unsaved
        \/ /\ Asks(c)
           /\ Ends(t) /\ Holds(obj) /\ beats' = Beats(r, c.token) /\ unsaved' = unsaved
        \/ /\ Running(c) /\ ~Asks(c)
           /\ Goes(t, "probed") /\ Persists(t, Abandoned(c))
           /\ beats' = Beats(r, c.token)
  /\ UNCHANGED <<row, stored, active, decisions, boot, count, decided>>

Probed(t) ==
  /\ Is(t, "probed") /\ unsaved[RunOf(t)] = None
  /\ beats' = [beats EXCEPT ![RunOf(t)] = None]
  /\ Moves(t, Acknowledged(t, Of(t))) /\ Holds(obj)
  /\ UNCHANGED <<row, stored, unsaved, active, decisions, boot, count, decided>>

(***************************************************************************)
(* run_execution.                                                          *)
(***************************************************************************)
Walked(t) ==
  /\ Is(t, "enter") /\ active[RunOf(t)] # None
  /\ Ends(t) /\ Holds(obj)
  /\ UNCHANGED <<row, stored, unsaved, active, beats, decisions, boot, count, decided>>

(* Fault: a run is walked without looking whether it already is.           *)
EntersAnyway(t) ==
  /\ Is(t, "enter")
  /\ active' = [active EXCEPT ![RunOf(t)] = t]
  /\ beats' = Beats(RunOf(t), Of(t).token)
  /\ Goes(t, "walking") /\ Holds(obj)
  /\ UNCHANGED <<row, stored, unsaved, decisions, boot, count, decided>>

Enters(t) ==
  /\ Is(t, "enter") /\ active[RunOf(t)] = None
  /\ active' = [active EXCEPT ![RunOf(t)] = t]
  /\ beats' = Beats(RunOf(t), Of(t).token)
  /\ Goes(t, "walking") /\ Holds(obj)
  /\ UNCHANGED <<row, stored, unsaved, decisions, boot, count, decided>>

Goahead(t) == Is(t, "walking") /\ ~task[t].cancelled

StepIsReady(c) == c.gate = "success" /\ c.step = "pending"

Opens(t) ==
  /\ Goahead(t) /\ Of(t).gate = "pending"
  /\ Goes(t, "walking")
  /\ PersistsAnd(t, [Of(t) EXCEPT !.gate = "waiting"],
                 [timers EXCEPT ![RunOf(t)] = task[t].obj])
  /\ UNCHANGED <<row, stored, active, beats, decisions, boot, count, decided>>

Starts(t) ==
  /\ Goahead(t) /\ StepIsReady(Of(t))
  /\ Goes(t, "stepping") /\ Persists(t, [Of(t) EXCEPT !.step = "running"])
  /\ UNCHANGED <<row, stored, active, beats, decisions, boot, count, decided>>

Finishes(t) ==
  /\ Is(t, "stepping")
  /\ Goes(t, "walking")
  /\ \E s \in {"success", "error"} : Persists(t, [Of(t) EXCEPT !.step = s])
  /\ UNCHANGED <<row, stored, active, beats, decisions, boot, count, decided>>

Leaves(t) ==
  /\ Is(t, "walking") /\ task[t].cancelled
  /\ active' = [active EXCEPT ![RunOf(t)] = None]
  /\ Ends(t) /\ Holds(obj)
  /\ UNCHANGED <<row, stored, unsaved, beats, decisions, boot, count, decided>>

NothingReady(t) == Goahead(t) /\ Of(t).gate # "pending" /\ ~StepIsReady(Of(t))

Waits(t) ==
  /\ NothingReady(t) /\ Of(t).gate = "waiting"
  /\ Goes(t, "parking") /\ Persists(t, Of(t))
  /\ UNCHANGED <<row, stored, active, beats, decisions, boot, count, decided>>

Parks(t) ==
  /\ Is(t, "parking")
  /\ active' = [active EXCEPT ![RunOf(t)] = None]
  /\ Ends(t) /\ Holds(obj)
  /\ UNCHANGED <<row, stored, unsaved, beats, decisions, boot, count, decided>>

(* It ended: by then an answer may have made a step ready nobody will run. *)
Closes(t) ==
  /\ Is(t, "walking") /\ ~task[t].cancelled /\ Of(t).gate # "waiting"
  /\ NothingReady(t)
  /\ Goes(t, "closed")
  /\ LET failed == "error" \in {Of(t).gate, Of(t).step} IN
     /\ Holds(Changed(t, [Of(t) EXCEPT !.status = IF failed THEN "error" ELSE "success"]))
     /\ decided' = (decided \/ ~failed)
  /\ active' = [active EXCEPT ![RunOf(t)] = None]
  /\ UNCHANGED <<row, stored, unsaved, beats, decisions, boot, count>>

Records(t) ==
  /\ Is(t, "closed")
  /\ LET d == IF Of(t).status = "success" \/ RunOf(t) \in decisions THEN "processed" ELSE "retry"
     IN /\ Moves(t, ToSettle(t, "close", Of(t), d))
        /\ Persists(t, [Of(t) EXCEPT !.disp = d])
  /\ beats' = [beats EXCEPT ![RunOf(t)] = None]
  /\ UNCHANGED <<row, stored, active, decisions, boot, count, decided>>

(***************************************************************************)
(* apply_gate_decision, a gate's timeout, and stop.                        *)
(***************************************************************************)
Called == count.answers < MaxAnswers /\ count' = [count EXCEPT !.answers = @ + 1]

Answers(t, r) ==
  /\ Called /\ Is(t, "idle") /\ CanFind(r) /\ Asks(FoundIn(r)[Found(r)])
  /\ \E d \in {"approve", "reject"} :
       Moves(t, [Idle EXCEPT !.pc = "answer", !.run = r, !.obj = Found(r), !.decision = d])
  /\ Holds(FoundIn(r))
  /\ UNCHANGED <<row, stored, unsaved, active, beats, decisions, boot, decided>>

TimesOut(t, r) ==
  /\ Called /\ Is(t, "idle") /\ timers[r] # None
  /\ Moves(t, [Idle EXCEPT !.pc = "answer", !.run = r, !.obj = timers[r], !.decision = "timeout"])
  /\ HoldsAnd(obj, Disarmed(r))
  /\ UNCHANGED <<row, stored, unsaved, active, beats, decisions, boot, decided>>

(* resolve_waiting; a person's no also settles the row.                    *)
Resolves(t) ==
  /\ Is(t, "answer") /\ Of(t).gate = "waiting"
  /\ Goes(t, "decide")
  /\ IF task[t].decision = "reject"
     THEN /\ decisions' = decisions \cup {RunOf(t)}
          /\ HoldsAnd(Changed(t, [Of(t) EXCEPT !.disp = "processed"]), Disarmed(RunOf(t)))
     ELSE decisions' = decisions /\ HoldsAnd(obj, Disarmed(RunOf(t)))
  /\ decided' = (decided \/ task[t].decision = "reject")
  /\ UNCHANGED <<row, stored, unsaved, active, beats, boot, count>>

Ignored(t) ==
  /\ Is(t, "answer") /\ Of(t).gate # "waiting"
  /\ Ends(t) /\ Holds(obj)
  /\ UNCHANGED <<row, stored, unsaved, active, beats, decisions, boot, count, decided>>

Decides(t) ==
  /\ Is(t, "decide") /\ Moves(t, ToWalk(RunOf(t), task[t].obj))
  /\ IF task[t].decision = "approve"
     THEN Persists(t, [Of(t) EXCEPT !.gate = "success"])
     ELSE Persists(t, [Of(t) EXCEPT !.gate = "error",
                                    !.step = IF @ = "pending" THEN "skipped" ELSE @])
  /\ UNCHANGED <<row, stored, active, beats, decisions, boot, count, decided>>

(* The walk is told; the run is cancelled once its agents were.            *)
Stops(t, r) ==
  /\ Called /\ Is(t, "idle") /\ CanFind(r) /\ Running(FoundIn(r)[Found(r)])
  /\ task' = [u \in Tasks |->
       IF u = t THEN [Idle EXCEPT !.pc = "stop", !.run = r, !.obj = Found(r)]
       ELSE IF active[r] = u THEN [task[u] EXCEPT !.cancelled = TRUE] ELSE task[u]]
  /\ Holds(FoundIn(r))
  /\ UNCHANGED <<row, stored, unsaved, active, beats, decisions, boot, decided>>

StoppedStep(s) == CASE s \in {"running", "waiting"} -> "error" [] s = "pending" -> "skipped"
                    [] OTHER -> s

Stopped(t) ==
  /\ Is(t, "stop")
  /\ LET c == [Of(t) EXCEPT !.status = "cancelled", !.disp = "processed",
                            !.gate = StoppedStep(@), !.step = StoppedStep(@)]
     IN Moves(t, ToSettle(t, "settle", c, "processed")) /\ PersistsAnd(t, c, Disarmed(RunOf(t)))
  /\ beats' = [beats EXCEPT ![RunOf(t)] = None]
  /\ decided' = TRUE
  /\ UNCHANGED <<row, stored, active, decisions, boot, count>>

(***************************************************************************)
(* Time: a row waits its turn, longer than a write takes; a lease lapses   *)
(* when nobody renews it, or while the machine sleeps, but not in the      *)
(* moment a delivery takes to start its run and a save to be written.      *)
(***************************************************************************)
Quiet == (\A t \in Tasks : Is(t, "idle")) /\ (\A r \in Runs : unsaved[r] = None)

Ripens ==
  /\ row.status = "pending" /\ ~row.due /\ \A r \in Runs : unsaved[r] = None
  /\ row' = [row EXCEPT !.due = TRUE]
  /\ UNCHANGED <<stored, unsaved, obj, task, active, timers, beats, decisions, boot, count, decided>>

Lapses ==
  /\ row.status = "leased" /\ ~row.lapsed
  /\ \A r \in Runs : unsaved[r] = None
  /\ \A t \in Tasks : ~Is(t, "deliver")
  /\ row' = [row EXCEPT !.lapsed = TRUE]
  /\ IF Quiet /\ \A r \in Runs : beats[r] # row.token THEN count' = count
     ELSE count.lapses < MaxLapses /\ count' = [count EXCEPT !.lapses = @ + 1]
  /\ UNCHANGED <<stored, unsaved, obj, task, active, timers, beats, decisions, boot, decided>>

(***************************************************************************)
(* A restart: what was in memory is gone.  deliver_inbox lets every lease  *)
(* go before it claims; resume, beside it, reads the runs left running and *)
(* rearms and reconciles what it read.                                     *)
(***************************************************************************)
NoRuns == [r \in Runs |-> None]

Restarts ==
  /\ count.restarts < MaxRestarts /\ count' = [count EXCEPT !.restarts = @ + 1]
  /\ task' = [t \in Tasks |-> Idle] /\ obj' = [o \in Objects |-> None]
  /\ unsaved' = NoRuns /\ active' = NoRuns /\ timers' = NoRuns /\ beats' = NoRuns
  /\ decisions' = {}
  /\ boot' = [release |-> TRUE, read |-> TRUE, runs |-> NoRuns]
  /\ UNCHANGED <<row, stored, decided>>

Releases ==
  /\ boot.release /\ boot' = [boot EXCEPT !.release = FALSE]
  /\ row' = IF row.status = "leased"
            THEN [Unleased("pending") EXCEPT !.due = TRUE]
            ELSE row
  /\ UNCHANGED <<stored, unsaved, obj, task, active, timers, beats, decisions, count, decided>>

Reads ==
  /\ boot.read
  /\ boot' = [boot EXCEPT !.read = FALSE,
                          !.runs = [r \in Runs |-> IF Running(stored[r]) THEN stored[r] ELSE None]]
  /\ UNCHANGED <<row, stored, unsaved, obj, task, active, timers, beats, decisions, count, decided>>

Resumes(t, r) ==
  /\ Is(t, "idle") /\ boot.runs[r] # None
  /\ boot' = [boot EXCEPT !.runs[r] = None]
  /\ LET c == boot.runs[r]
         o == Fresh
         gateCopy == CHOOSE g \in Spare : g # o
     IN /\ beats' = Beats(r, c.token)
        /\ Moves(t, [Idle EXCEPT !.pc = "probe", !.run = r, !.obj = o])
        /\ HoldsAnd([obj EXCEPT ![o] = c, ![gateCopy] = c],
                    IF Asks(c) THEN [timers EXCEPT ![r] = gateCopy] ELSE timers)
  /\ UNCHANGED <<row, stored, unsaved, active, decisions, count, decided>>

DeliveryInit ==
  /\ row = [status |-> "pending", due |-> TRUE, lapsed |-> FALSE, token |-> None, attempts |-> 0]
  /\ stored = NoRuns /\ unsaved = NoRuns /\ active = NoRuns /\ timers = NoRuns /\ beats = NoRuns
  /\ obj = [o \in Objects |-> None] /\ task = [t \in Tasks |-> Idle]
  /\ decisions = {} /\ boot = [release |-> FALSE, read |-> FALSE, runs |-> NoRuns]
  /\ count = [claims |-> 0, lapses |-> 0, restarts |-> 0, answers |-> 0] /\ decided = FALSE

Works(t) ==
  \/ Claims(t) \/ Settles(t) \/ Defers(t) \/ StartsRun(t) \/ Rewrites(t) \/ Adopts(t)
  \/ Rearms(t) \/ Looks(t) \/ Probes(t) \/ Probed(t) \/ Walked(t) \/ Enters(t) \/ Opens(t)
  \/ Starts(t) \/ Finishes(t) \/ Leaves(t) \/ Waits(t) \/ Parks(t) \/ Closes(t) \/ Records(t)
  \/ Resolves(t) \/ Ignored(t) \/ Decides(t) \/ Stopped(t)

DeliveryNext ==
  \/ \E t \in Tasks : Works(t)
  \/ \E t \in Tasks, r \in Runs : Answers(t, r) \/ TimesOut(t, r) \/ Stops(t, r) \/ Resumes(t, r)
  \/ \E r \in Runs : Writes(r) \/ Renews(r)
  \/ Ripens \/ Lapses \/ Restarts \/ Releases \/ Reads

DeliverySpec == DeliveryInit /\ [][DeliveryNext]_deliveryVars

(* A run is walked by one task, the one that registered it as active, and  *)
(* a row holds a token exactly while it is leased.  A walk that began over *)
(* a run already walked, or a settlement that left the token, breaks it.   *)
DeliveryTypeOK ==
  /\ row.status \in {"pending", "leased", "processed", "dead"}
  /\ (row.status = "leased") = (row.token # None)
  /\ row.attempts \in 0..MaxClaims
  /\ \A t \in Tasks, r \in Runs :
       (active[r] = t) = (RunOf(t) = r /\ task[t].pc \in {"walking", "stepping", "parking"})

(* A row is only taken off the inbox as processed once a run of it has     *)
(* succeeded or a person has ended one: whatever stale copies, lapsed      *)
(* leases and restarts come between, no failure, timeout or abandoned run  *)
(* is recorded as done.                                                    *)
ProcessedWasDecided == row.status = "processed" => decided

(* "a run already going takes the row's lease instead of a second run      *)
(* starting" (triggers.rs:117): no run of the row is created while another *)
(* is walked.                                                              *)
NoSecondRun ==
  [][(\E r \in Runs : r \in NewRuns /\ unsaved'[r] # None) => active = NoRuns]_deliveryVars
=============================================================================
