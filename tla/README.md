# Vorn's concurrent core in TLA+

A verification development for Vorn, a desktop and server application that runs
coding agents and terminals. Its Rust core (`packages/core/crates`) keeps every
terminal session in one process (`vorn-sessiond`) and everything else in another
(`vornd`), so that vornd can crash, be upgraded or restarted while programs run on.
What makes that work, and what a test hardly reaches, is what is modelled here:
the log of records a session keeps, the reading and draining of a program's output,
the handoff of sessions from one sessiond to a newer one, the recovery of a
session by the next vornd, the ways records and screens reach clients, the services
extensions run as, and the delivery of inbox rows to workflow runs.

Paths below are relative to `packages/core/crates` of the repository.

## The system

| Part | State it keeps | Operations | Hard because |
| --- | --- | --- | --- |
| sessiond's log (`sessiond/src/log.rs`, `spool.rs`) | a ring in memory, a spool on disk behind it, two checkpoints, `retain_from`, the output dropped since the last Gap | append, put_checkpoint, attach, read_batch, settle_gap | limits of three sizes at once, disk errors at every write, trimming what nobody may need again |
| sessiond's session (`session.rs`, `hub.rs`) | descriptors, held chunks, the exit, timers, `Live`/`Frozen`/`HandedOff` | read, retry, reap, drain, resize, put_checkpoint, freeze, thaw, stage, start | backpressure, background jobs that keep a stream open, timers, each handler racing a handoff |
| sessiond's server (`server.rs`) | connections by generation, pumps, the session map | Hello, attach, pump, spawn, release, adopt | a new vornd replaces a connection with records on their way |
| the handoff (`server/handoff.rs`, `fdpass.rs`) | who offers, what is staged | donate, adopt, take, call off | two processes, either dying or timing out at each message |
| vornd's session actor (`engine/src/session.rs`, host in `vornd/src/engine.rs`) | a terminal, its cursor, its restore ladder, its floor | open, input, tick, shutdown | replay after a crash: which effects were done, which checkpoint is good, what is stale |
| vornd's bytes clients (`vornd/src/streams.rs`) | a tail, attachments, outboxes, fetches under way | attach, deliver, fetch, refuse, write, detach | slow clients, refusals told apart only by what is pending, one lane shared by fetches and the actor |
| grid clients (`grid`, `term-mirror`, `grid-client`) | row cache, revisions, line numbers, style tables, credits, mirrors | records, tick, attach, ack, show, fetch, swap, rebuild | deltas from any revision, across scrolls, reshapes, table compactions and logs that forget |
| size arbitration (`size`, `vornd/src/size.rs`) | viewports, presence, an owner | events in, a decision out | several clients, resizes on their way |
| workflows and the inbox (`workflow`, `work`, `store`) | runs, gates, schedules, rows and their leases | claim, execute, stop, answer, reconcile, settle | restarts in the middle of a run, redelivery, several copies of one run |
| extensions (`extensions`) | services, leases, crash budgets | get_or_start, stop, reap | starts, idle stops and calls that race |
| pairing, hooks, claims (`reach`, `hooks`, `vornd/src/claims.rs`) | codes, owners, claims that lapse | redeem, approve, take | time and retries |
| store, vault, worktrees, connectors, MCP, CLI, user interfaces | files, SQL, the screen | calls | little concurrent state of their own |

A program writes to a pipe or a PTY; sessiond's hub thread reads it into the
session's log as numbered records. A vornd connects (`Hello`, `Welcome`), attaches
to each session at a cursor or a checkpoint, is sent the records from there (an
attach's own, then the pump's as they come), parses them into a terminal, and stores
a checkpoint of it in the log now and then: that is what lets the log be trimmed, and
what the next vornd starts from. The actor that holds the terminal passes the records
on to the clients that want bytes, and renders its terminal for those that want a grid.
A newer sessiond adopts an older one's sessions over a socket that passes their
descriptors. Beside the sessions, connectors put rows into an inbox whose delivery
starts workflow runs, and extensions answer calls from programs that are started on
demand.

`PROJECT.json` lists every component with its status and every hazard with the
properties that would catch it going wrong; hazards without one say why.

## Modules

| Module | Models | Built on |
| --- | --- | --- |
| `Records` | records, cursors, contiguous runs | |
| `SessionLog` | the log in full: ring, spool, pool, failing disk, both overflow policies | `Records` |
| `SessionLogProofs` | theorems about `SessionLog`, the last that it implements `RecordLog` | `SessionLog` |
| `RecordLog` | what the log promises to the parts on top, with nothing of where records are kept: the abstract specification `SessionLog` implements | `Records` |
| `Session` | one session's streams, held output, exit, drain, checkpoints, freeze, thaw, adoption | `RecordLog` |
| `SessionProofs` | theorems about `Session` | `Session` |
| `Handoff` | the protocol between sessionds | |
| `HandoffProofs` | theorems about `Handoff` | `Handoff` |
| `Recovery` | a log, a connection, and the actors of one vornd after another | `RecordLog` |
| `RecoveryProofs` | theorems about `Recovery` | `Recovery` |
| `Streams` | records from sessiond's pump to the bytes clients: actor, hub, tail, outboxes, fetches, snapshots | |
| `StreamsInvariants` | the inductive invariants of `Streams` | `Streams` |
| `StreamsProofs` | theorems about `Streams`: what a client gets, attaches, and what rest leaves | `StreamsInvariants` |
| `Grid` | a terminal's grid, the hub that sends frames of it, and the clients' mirrors | |
| `GridProofs` | theorems about `Grid` | `Grid` |
| `Lifecycle` | extension services: starts, leases, idle stops, the cap, crashes | |
| `LifecycleProofs` | theorems about `Lifecycle` | `Lifecycle` |
| `Delivery` | an inbox row and the workflow runs it is delivered to, with restarts | |
| `DeliveryProofs` | theorems about `Delivery` | `Delivery` |
| `MC*` | small instances for TLC | |

Two abstractions carry the composition. `SessionLog` refines `RecordLog!LogSpec`
(the property `KeepsContract`: checked for both policies, and proved): so `Session` and
`Recovery` put their streams and their replay on seven variables instead of twelve, and
what holds of them holds over the ring and the spool. And `Session` says what a freeze,
a thaw or an adoption does to one session, so `Handoff` can treat sessions as names.
`Streams` keeps of the log only what a pump and a fetch can tell: which records there
are, and the oldest one retained.

### How state and actions correspond to the code

`PROJECT.json`'s map names the lines of each definition. In short:

- **SessionLog.** `head`, `retain_from`, `newest`, `fallback`, `ring`, `spool`, `lost`
  are the fields of `SessionLog`; `torn` and `pool_used` are `Spool`'s and `SpoolPool`'s;
  `overflow` is the log's own, chosen at the start; `produced` and `others` are history and
  the other sessions. `AppendData`, `AppendControl`, `PutCheckpoint`, `SettleGap` are the
  public operations that change state, each with the whole of `make_room` inside: moving
  records to disk, giving the fallback up, trimming, and every place a write may fail.
  `EntriesFrom` and `ReadBatch` are what attach and the pump read, given how the spool's part
  of it went (`SpoolReads`: all that is due, an error, or less). Sizes are units (one
  per record and one per byte).
- **Session.** One action per handler run under the session's lock; a handler that takes
  the lock twice (`put_checkpoint`, the retry timer) is two actions, with `rooms` saying
  which calls are between their halves. A chunk is what one read returns.
  `open_streams` is a u8 and wraps.
- **Handoff.** `conn[a].d` and `conn[a].a` are where `donate` and `adopt` are; the two
  sequences are what the socket holds each way. A process that dies or hangs up closes
  its end, and on Linux a reset may be heard instead of the end of the stream.
- **Recovery.** `toV` and `toS` are the connection, `sending` what an attach has still
  to send, `next` the pump's place, `v` the actor, `outs` what it asked of its host and
  the host has not done. `next_step`, `offered`, `approximate`, `cut_due`, `apply` are
  functions from the actor's state to its next one and what it asks for, as in the code.
  A checkpoint `passes` its check, `rebuilds` a terminal that is not the one saved, or
  `fails`. A terminal is its size, whether it calls itself exact, and (history) whether
  it is. sessiond runs on one thread (`main.rs:93`), so queuing a record and `mark_sent`
  are one step and a replaced connection's messages are never handled after the new
  Hello; vornd does not, so its actor and its host are separate steps.
- **Streams.** `toV`, `toS`, `commands`, `outs` are the lanes of the driver, each bounded
  as in the code (by `MaxLane` messages here). `hub` is the tail with its head, and the
  fetch or repump under way; `conn[c]` is one connection's attachment, outbox and flags.
  An action is one message handled, one batch delivered, or one turn of a writer. The
  hub's lock is held from a delivery to the store of `catching`, in which the writer,
  which takes no lock, may run: that is `storing`. A record makes a frame of size one,
  and `TailCap` and `QueueCap` count frames of output. Attaches that came while the session
  was not live are a set, served in the order they were asked in.
- **Grid.** The terminal (libghostty) is its rows, its history and its dirty rows; a row
  is one cell whose content is its style, so its encoding is an id in the style table and
  the tables' marks, limit and compaction are kept. `Update` is `Grid::update`, `Delta`
  and `Snapshot` cut frames, `Pumped` is one attachment's turn of `pump_with`, and each
  request of a client is an action on the hub's thread. `panes` holds what `term-mirror`
  made of the frames. The clock and the hold of synchronized output are a choice:
  wherever the code may render or wait, both are tried.
- **Lifecycle.** A slot is an object that the map, and whoever works with it, share;
  `caller[c].pc` is where a task is between two awaits of `get_or_start`, `stop`,
  `make_room` or `reap_idle`; `room` is the one `make_room` that holds the map. A guard
  that is dropped is a step of its own.
- **Delivery.** `row` is the line of `connector_inbox`; `stored` and `unsaved` are a
  run's copy in the store and what the writer thread has still to write; `obj` are the
  copies in memory, so two tasks that each read a parked run have one each. `task[t].pc`
  is where a task is between two awaits of `deliver_inbox`, `run`, `finish`, `answer`,
  `stop` and `resume`; `boot` is the start of vornd, with its `reconcile`.

## Runs

| Run | Question | Instance | States |
| --- | --- | --- | --- |
| `log` | does a log, of either policy, stay a contiguous run, account for every byte, append in order, keep its recovery base and its limits, release its backpressure, read back only what it holds and implement `RecordLog`, with a disk that may fail at each write, trim and read? | ring 4, spool 6, shared pool 7 units, records of 1 and 4 bytes, up to 5 records and 9 bytes, failing disk, another session that takes and gives pool | 136,511 |
| `session` | piped agents and terminals: nothing lost or reordered, a true manifest, the exit recorded, held output taken | a piped agent with 3 chunks of stdout and stderr kept by a job with 1; or a terminal a job keeps with 2; one handoff | 388,947 |
| `handoff` | one runner, nothing lost, vornd told the truth, handing ends | three sessionds, one session and one spawned later, two adoptions, the second once the first is answered | 833,572 |
| `recovery` | bells and answers once at most, notifications once at least, no hole in a replay, exact is exact, the session comes live | 3 records, two vornds, a lane of 2 frames | 536,724 |
| `streams` | each client sees contiguous runs; each attach is answered, once; who fell behind catches up; output reaches the hub | 2 connections, 2 attaches, 2 records, a tail of 1 frame, a queue of 0, lanes of 1, one lost connection or actor | 3,526,170 |
| `streams_stall` | does a refused fetch always start the records again? | 1 connection, 3 records, lanes of 2 | violated |
| `lifecycle` | a leased service is not stopped for idling; one program to a slot, and none left that nothing would stop but where a stop overtook `still_wanted`; only a service chosen before it was leased is evicted | 2 keys, 2 callers, cap 1, one crash allowed, 4 slots, 3 starts, 2 exits | 5,628,659 |
| `lifecycle_evicts` | is a service in use never evicted? | as above | violated |
| `delivery` | is a row processed only because a run succeeded or a person decided? | 2 tasks, 2 attempts, 2 runs, 2 claims, a restart, 2 answers | 3,292,863 |
| `delivery_lapse` | does a run that goes on keep a second one from starting? | one lapse of a lease, 3 attempts and claims | violated |
| `grid` | is every frame applicable, a mirror at a revision the grid at that revision, and every watching client up to date at rest? | 1 client, 2 rows or 1, 2 styles, a scrollback of 2, a scroll log of 1, tables of 2, one credit, a history row with each snapshot; 3 changes of the terminal and 3 events | 2,164,845 |
| `grid_history` | is a line of the client's history the terminal's line? | 2 rows, 2 credits, one event | violated |

Deadlock is not checked: all of these systems may stop (a session ends, a row is
processed, the bounds on records, handoffs, claims or vornds are reached).

**Why the bounds are enough.** The log's ring holds two large records or a few small
ones and the spool the same, so spilling, a full spool, a full pool, a record larger
than the ring, giving the fallback up and a trim that fails halfway all happen, and
several in one behaviour. A piped session with two streams and a log that fills has
both callers of the retry, with a freeze between. Three sessionds are the fewest in
which a process both adopts and donates. Two vornds are the fewest with a replay;
three records let a base, an overlap with leftovers and a live record differ, and the
records can be output, a resize and a Gap in any order. The recovery run was also done
with three vornds and three records on a lane of one frame (2.8 million states, over
four minutes), with the same result.

A tail of one frame with two records is trimmed by the second, and a queue of nothing
makes a client fall behind at its first frame not yet written, so with two attaches all
three ways to continue, a refused fetch and an attach that replaces a fetch occur; two
connections are the fewest that can fetch at once. With two keys and a cap of one,
every start of the second evicts the first; two callers make each race of a start, a
lease and a stop possible, and four slots allow a key that was stopped to come back
while the old slot is still held. One row, two runs and a restart let a parked run, its
redelivery and an answer overlap, and two tasks are the fewest that can hold a copy
each; the second attempt is the last one allowed, so giving a row up happens. In the
grid, three changes are enough for two scrolls past a log of one entry, for a row
written before a scroll that keeps it, for two new styles and the update that compacts the
table, for a viewport that shrinks and grows back, and for a resize, a switch or a clear
between two frames; three events allow an attach, a loss
of the connection or the terminal, and a resume, a fetch or a cut; and with one credit a
client is behind as soon as anything changes. A second client shares no state with the
first but the tables, which a fetch of the first already moves.

**Mutants.** Each property of a passing run has a mutation of a mapped definition
(a definition marked `fault:` in the modules) that makes TLC find it violated.

## Fairness

- `Session`: weak fairness of the hub's event, timer and retry handlers (one thread that
  never blocks for long), of a handoff's end one way or the other (`Thaw \/ Adopts`), and
  of vornd's checkpoints past its cadence. Programs, jobs, resizes and the start of
  handoffs have none. `RoomAssumption`: a full blocking log holds more than the last two
  checkpoints leave, as 1 MiB of cadence against 8 MiB of budget does. It does not hold
  for records a few bytes long with no spool to be had: each costs the ring a fixed
  overhead, the cadence counts output alone, and such a session can then block for good.
- `Handoff`: weak fairness of both sides' threads; reads have the timeouts the code sets
  (and Took has none).
- `Recovery`: weak fairness of sessiond's handling, sending and pumping, of the actor's
  and of its host's queue. Output, crashes, shutdowns and new vornds have none.
  `CatchesUp` speaks of the last record, which the bound on records makes exist; in the
  code a session that prints for ever is only ever near it.
- `Streams`: weak fairness of `System`, all that the processes do by themselves. The
  promises that something happens at last (`AnsweredOnce`, `BehindCatchesUp`,
  `OutputReachesHub`) are stated where that leads: as invariants of the states `AtRest`, in
  which what the pump could send is sent, every lane and outbox is empty, and no wake-up or
  timer has anything to do. In the states the run reaches these are the ones in which no step
  of `System` is enabled and clients have read what they were sent; they are spelled out
  because the prover has no ENABLED. A run that never comes to rest would need something to
  go on for ever, and everything that can is bounded.
- `Grid`: no fairness. `GridCatchesUp` speaks of states in which nothing is on its way and
  no frame is due: that the clock comes and clients acknowledge what they apply is taken
  from `tick` and from vorn-app's loop.
- `Lifecycle`, `Delivery`: none; what they promise is safety.

## Findings

1. **`streams_stall`** (`vornd/src/engine.rs:1182`). A refusal whose fetch a batch has
   already ended is handed to the actor, which expects none: the records are not started
   again, and the session's output stands still for every client until vornd connects anew.
2. **`lifecycle_evicts`** (`extensions/src/lifecycle.rs:322`). `make_room` looks for idle
   services, lets go of their locks, and stops what it chose without looking again: a
   service leased in between is closed under its caller.
3. **`delivery_lapse`** (`workflow/src/triggers.rs:152`). A run whose lease lapsed while
   it is being walked is taken for abandoned: the row starts a second run beside it.
4. **`grid_history`** (`term-mirror/src/lib.rs:383`, `grid/src/grid.rs:292`). A row written
   and scrolled off between two frames goes into the client's history as it was at the
   first of them, and `gaps()` never asks for it.

Noticed while modelling, with no run of their own. The properties of the passing runs
exclude by name the ones they would meet.

- Log: a trim rewrites the spool from what it can read of it, and takes a frame that does
  not come back for the spool's end (`spool.rs:222`, `381`): every record behind it is
  dropped, retained ones too, where its comment says "On failure the spool is unchanged"
  (`spool.rs:216`). `TrimsAt` takes such a rewrite to read every frame it keeps.
- Session: after the drain cuts a piped agent off, the manifest's count of open streams and
  the descriptors passed differ, and nobody can stage the session (`session.rs:405`, `340`).
  A handoff called off just before the drain's timer leaves unread output cut off, since
  the time frozen counts as time waited. A checkpoint that reaches a frozen session is
  dropped while vornd's floor moves past it (the exception `ignored` of `ExitIsRecorded`
  and `HeldIsTaken`: without it a blocking session can wait for ever).
- Handoff: `handoff.rs:288` says of a failure that it "is reported only once they are all
  live again", and `drain` gives up waiting for that after `FRAME_WAIT`
  (`fdpass.rs:133-145`): a donor that stalls as long has its sessions frozen still when
  vornd is told, and gets Drain in that state. `ToldIsTrue` tells the two reports apart
  (`"failed"`, `"stalled"`; to vornd they are one) and promises for the second that they
  are live once the donor has closed. An adopter that has everything staged lets it go when it learns of the donor's
  death in any way but one (`handoff.rs:317-325`). A sessiond that hands over while it
  adopts loses what it then takes in (`VorndWaits = "nothing"`). One vornd asks for this only
  when an adoption takes longer than its `ADOPT_TIMEOUT` of a minute (`holder.rs:75`), which
  the run leaves out: there vornd has an answer before it asks for the next adoption.
- Recovery: a running actor that started on leftovers of an attach it had turned down
  ignores that its own attach was refused, and no pump serves it any more. A replay from
  the start at a guessed size may be checkpointed, as exact, before the Resize that would
  have marked it (`engine/src/session.rs:1549`). The last resort asks for the oldest
  record as of vornd's Hello, which overflow may have removed since (phase `lost`).
- Streams: a client that is behind when the session exits is not told of the exit
  (`streams.rs:1109`). An attach that waits with another's snapshot, or with an actor that
  is lost, may be answered by nobody (`overtaken`). A writer that sees its queue drain
  between a delivery and the store of `catching` misses its wake-up until the next output
  (`missed`).
- Lifecycle: a stop between `still_wanted` and `hold` leaves the new service in a slot the
  map no longer has. When its lease is dropped so is the slot, and with it the `Child`,
  which is not stopped by that (`child.rs:213`, `:267`); its input stays open too, for the
  task that answers its requests has a writer until its output ends (`router.rs:995`). It
  runs on as an orphan (`strays`, which `OneOwned` excepts). Services of different keys
  that start at once can pass the cap together.
- Delivery: an answer between a walker's look for waiting gates and its leaving `active`
  finds a run nobody will walk. A stop of a run that is claimed but not yet active is
  walked all the same. An answer after a restart that comes before `resume` has read the
  run takes it for abandoned. Two answers to a parked run each change a copy of their own.
  `adopt_lease_on` writes the copy `claim_due` read, past the writer. A row's attempts are
  not held against the limit when its lease lapses or is released.
- Grid: an update that fails after `lines.take()` loses the scroll it took
  (`hub.rs:635-640`). After a swap on the alternate screen, a scroll at full scrollback goes
  uncounted (the arm of `settle` without a reference).

## What is proved

Every theorem holds for every value of the constants that meets the module's assumptions,
and those say no more than the types of the constants, but for `VorndWaits`, below, and
`StreamsAssumption` of `Session`: a session has at most the 255 streams its u8 can count (the code has
one or two). `RoomAssumption` is `Session`'s too; only its liveness needs it.
`NoAttachmentAssumption` of `Streams` says that None is no attachment, as `Option::None` is
no `Some`. `GridAssumption` says that a terminal has a row, a log an entry, and that the
credits, of which the code has 2, are at least 1 and fewer than the 255 of a last frame.

| Module | Theorem | Says |
| --- | --- | --- |
| `SessionLogProofs` | `LogInvariant` | the inductive invariant |
| | `TypeCorrect` | the type invariant |
| | `RunNeverBroken` | spool and ring are one contiguous run that ends at head |
| | `RecoveryAlwaysHasABase` | an attach at a stored checkpoint, or at the start of a log never trimmed, is refused only when the disk does not give back what the spool holds, and is otherwise complete |
| | `NoSilentLoss` | every byte printed is a record, or in a Gap, or counted for the next |
| | `GapBeforeRecords` | no record is numbered while dropped output has no Gap |
| | `NothingAfterExit` | nothing follows the Exit |
| | `AppendOrder` | both together, as the run checks them |
| | `RecoveryBaseOnlyAdvances` | the newest checkpoint is never lost, and what is retained never moves back or past it |
| | `LimitsAlwaysKept` | ring, spool and the pool sessions share stay within their limits |
| | `CheckpointsAlwaysRelease` | both kept checkpoints at head let a full log take output again, and a second one stored there gets it to that |
| | `BatchesArePrefixes` | a batch that is sent is the first records held after its cursor, and never empty while there are some, also when the spool is read in part; it is refused only when the disk gave back less than it holds |
| | `ImplementsContract` | `SessionLog` implements `RecordLog` |
| `SessionProofs` | `SessionInvariant` | the inductive invariant |
| | `SessionTypes` | the type invariant: until the exit is recorded the count of open streams is their number, and so never wraps |
| | `NothingIsMislaid` | between pipe and log nothing is reordered, and of a piped agent nothing is missing |
| | `PipedOutputIsKept` | its exit comes after all it wrote, where no handoff was called off |
| | `ManifestHolds` | a frozen session is what its manifest says |
| `LifecycleProofs` | `LifecycleInvariant` | the inductive invariant |
| | `LifecycleTypes` | the type invariant |
| | `LeasesHold` | a leased service is counted, and nothing but `make_room`, a stop that was asked for or its own end takes it away |
| | `ServicesOwned` | no program shares a slot, and each that runs is on its way to its slot or held where a stop can come, but for those a stop overtook after `still_wanted` |
| | `EvictionsChosen` | a service the cap stops in use was leased after `make_room` chose it |
| `HandoffProofs` | `HandoffInvariant` | the inductive invariant |
| | `HandoffTypes` | the type invariant |
| | `OneRunnerHolds` | no session is run by two sessionds |
| | `NeverLostHolds` | no session is lost but with a process that held it |
| | `ToldIsTrueHolds` | what vornd is told an adoption came to is so at both ends |
| `DeliveryProofs` | `DeliveryInvariant` | the inductive invariant |
| | `DeliveryTypes` | the type invariant: one walker per run, a token exactly while the row is leased |
| | `ProcessedOnlyIfDecided` | a row is done only once a run succeeded or a person ended one |
| `RecoveryProofs` | `RecoveryInvariant` | the inductive invariant |
| | `RecoveryTypes` | the type invariant |
| | `DoneAtMostOnceHolds` | a record rings once and is answered once at most, through any number of replays |
| | `NotifiedBeforeCoveredHolds` | what a stored checkpoint covers was notified of |
| | `NoHoleInReplayHolds` | replay finds no record missing, and what is sent next is held |
| | `ExactWhereSizeKnownHolds` | a live terminal that calls itself exact is |
| `StreamsProofs` | `StreamsInvariant` | the inductive invariant |
| | `StreamsTypes` | the type invariant |
| | `ClientsAlwaysSeeRuns` | what a client gets after an answer follows it record by record |
| | `AttachesAnsweredAtMostOnce` | no attach is answered twice |
| | `BehindAlwaysWoken` | who fell behind has its wake-up to come, or missed it before it asked |
| | `StreamsFlow` | what is between sessiond and the hub adds up, and no attach is forgotten: the inductive invariant at rest |
| | `EveryAttachAnswered` | every attach is answered once, and at rest at all, unless it is overtaken or its client left |
| | `BehindAlwaysCatchesUp` | at rest who is attached has all the hub has, unless its wake-up was missed |
| | `OutputAlwaysComes` | at rest the hub has all that was printed, unless a refusal reached a running actor |
| `GridProofs` | `GridInvariant` | the inductive invariant |
| | `MirrorAlwaysShowsGrid` | no frame is refused, and a mirror at the grid's revision is the grid |
| | `GridAlwaysCatchesUp` | at rest every client that watches shows the terminal |

**The log.** None of its theorems is inductive alone. `RecoveryBaseHeld` needs to know
that both checkpoints and `retain_from` are boundaries of the run held, which a trim must
not remove; that needs the run to be contiguous, so that "includes" cuts it at one place;
and that needs every way `make_room` can end to leave either the same run (records moved
between its halves) or the run without a prefix that the *new* `retain_from` includes.
`LogInv` is the conjunction, `SpillsKeepHeld` and `TrimsDropPrefix` are the two facts
about stores, and there is one lemma per action. Whether a write failed never matters to
them: that a failed step stops the loop in a state that satisfies them already is the
point of the design the proof confirms. The refinement rests on the same invariant: with
the run held as the abstract log's records, `RoomAllowed` shows that any end of `make_room`
is a trim the contract allows, and `PushAllowed` that what follows it is one append; steps
of the disk and of other sessions change nothing it sees.

The size properties are about sums. `Total` is a recursive function, and what it adds up to
is shown from the least length at which it could fail (`LeastExists`, from the library's
well-founded order on the naturals): `SumsExist`, and `TotalJoin`, that the sum of two runs
is the sum of their sums. `LimitsKept` is then a fact about a store (`Limited`) that each
way of making room keeps (`SpillsLimited`, `TrimsLimited`, `MakeRoomLimited`), because room
is made for a record's cost before it is pushed and a trim returns to the pool exactly what
it took from the spool. `BatchesArePrefixes` compares two cuts of one run: where the spool's
part ends, the ring's begins, so what is read within the budget is the first `p` records
held after the cursor (`BatchTakes`, `BatchServed`), and a part that came back short ends
before the ring begins, so nothing of the ring follows it (`ReachedIs`, `ShortBatchTakes`).
For an attach the argument is a count: a run has as many records as lie between its ends
(`RunLength`), so one from which a read lost any is refused (`BoundaryServed`).

**Session.** Output is in three places: what the log took of a stream, what is held of it,
what its pipe has left. `Seen` puts the three together, and every handler either leaves it
as it was (a read, a hold, a retry, an adoption that carries the held chunk over), grows it
at its end (the program writes) or takes one chunk out of it where losing output is allowed
(`SeenFine`, by `GoodAppend` and `GoodCut`): that is `NothingMislaid`. The exit needs more.
It is recorded when no stream is left or when the drain cuts off. In the first case nothing
was left in any pipe, because a stream sessiond let go had reached its end
(`LetGoEmpty`) and `open_streams` counts exactly those it has (`Counted`). In the second, no
stream was kept from being read since the drain last looked, because being kept waiting
leaves a mark that only that look clears (`KeptWaitingKnown`, `HeldFine`), so each pipe was
read past what the program left in it. A manifest stays true since a frozen session's
handlers return early, and its `reaped` is only ever behind the session's.

**Services.** That a program is behind one slot is not kept by itself: a start holds its
program outside any slot, a stop takes a slot from the map first and the program from the
slot later, and a third task may make a new slot for the key meanwhile. `LifecycleInv` adds
that a slot's gate is held by the one task that starts in it (`GateHeld`), that a slot being
started in is empty (`EmptyWhileStarting`), that tasks which carry programs carry different
ones, which no slot holds (`Apart`), and that a running program is in a slot that can be
reached or carried by a task (`NothingLost`). The actions are of four kinds (`GoesOn`,
`Serves`, `LetsGo`, `Ebbs`), each with one lemma. That a stop still finds what is held takes
a second invariant, `OwnedInv`: a task that was told its slot is wanted has it in the map,
unless its service is a stray (`WantedMapped`); what a slot holds can be stopped, as the
slot is in the map or a stop is at work on it (`HeldStoppable`); so a slot dropped while it
holds a running service held a stray (`OrphansStray`). `EvictionsChosen` has an invariant of its
own on top, `ChoiceInv`: the slots `make_room` has yet to empty had no lease when it chose
them, so who uses one of them leased it since (`LateKnown`); and none of them is one a task
starts a service in (`ChosenNotStarting`), so that no new service is taken for an old one.

**Handoff.** Its theorems speak of two processes whose views differ while a message is on
its way, so the invariant says what each message on a socket implies about both ends
(`Came`, `InStep`, `Heeded`, `Backed`), that a session staged is one its donor has frozen
(`FrozenByDonor`), that a donor which let go holds nothing (`HandedEmpty`), and who may
share a session when (`Alone`, `Shared`, `Twice`). `ToldIsTrueHolds` adds what the words
told last mean once the connection is gone (`ToldInv`): the donor of a done adoption has
read Took or has it yet to read, and the donor of a failed one gave nothing away, whether
the adopter heard it close before it reported or timed out (`DonorKeeps`). All of it is
proved for `VorndWaits = "close"`: one adoption is over at both ends before vornd asks for
the next. The run checks what vornd does, `"answer"`, where a donor that stalls or has Took
yet to read is still at it when the next adoption starts; the theorems leave that to TLC
(`Alone`, one connection at work, is then no invariant). With `"nothing"`, two adoptions at
once, TLC finds `OneRunner`'s and `NeverLost`'s claims to fail.

**Delivery.** `ProcessedWasDecided` depends on copies: the store's, the writer's, those of
tasks and timers, what a claim or a start of vornd once read. A stale one may be written
back, walked on or acknowledged at any later time, so the invariant is about all of them:
no copy anywhere says that its row is done before a run succeeded or a person ended one
(`Vouched`), and a task or timer that counts on a copy holds one (`Fitting`, `Timed`). The
actions of a task differ in little else than which copies they make, so each is shown to be
a `Step`, which makes copies only out of copies, and `StepKeeps` is proved once. That there
is always a place for a new copy (`Room`) is a count of who can hold one.

**Recovery.** The theorems are about one log and several parties with a cursor in it: the
stored checkpoints, the pump, what is on its way each way, the actor, its best offer and the
cuts its host has yet to send. `log`, a history variable, is the log there ever was; every
cursor is a boundary of it (`IsBoundary`), the run held is its end (`IsEnd`), and what was
dropped is covered by a stored checkpoint and behind what the attach being answered will
have sent (`Reach`), so the pump never finds its place gone. That replay has no hole needs
what is on its way to be known: at most one attach is unanswered, in the host's queue, on
the wire or as its answer (`OnePending`), it is one the actor asked for in the phase it is
in (`Suits`), and so the messages to vornd are one stretch of the log after another, where a
new stretch begins no later than the cursor (`Steady`, `First`). An actor that has started
skips what it includes, and what it applies is then the next record. Effects hang on the
same cursor: what was asked for is behind it (`Past`), each is asked for once in a queue,
and the next vornd rings nothing the last one was sent and answers nothing from before it
took the session on (`EffectsFine`). A cut covers what was notified of or what comes before
it in the host's queue (`Covers`), so that it is true by the time it leaves. For exactness,
`ViewFine` says what a terminal shows while the spawn size is unknown: no resize came yet,
and the size it has is the one sessiond's Welcome named, which is the spawn size if no
resize is to come. Each message, and each step of the actor, is one lemma; what an actor
does when told to start over is shared by all of them (`Rested`, `RestsFine`).

**Streams.** `torn` becomes true when a client reads a record it does not expect, long after
the hub queued it. So the invariant reads an outbox as a walk: the messages that move a
client (bytes, an answer, a resync) each leave it at a place, the first bytes start where the
client is and each later one where the message before it left (`Steady`), and an attachment
goes on from where the walk ends (`Reaches`), or has passed the exit, which moves nobody and
which nothing follows. A replaced attachment's bytes become stale and move nobody, and only
those that no resync follows do, so the walk of what is left still holds (`DroppedFine`). The
hub does not have to be where the log is for any of this: what `Feed` queues starts at the
attachment's own place or is not queued. That an attach is answered once at most is about
where it is: early, awaited, fetched for, on its way or answered, one at a time (`Once`), and
with the connection that asked (`Owners`), which is what lets a timeout, a late snapshot and
the session's end each take it away from the others. Who fell behind has more than half its
queue to write when it is asked to be woken, and each write that leaves less either sees the
flag or is the one that is missed (`Woken`). Each operation of the hub is shown to keep all of
it as a turn (`TurnOk`): one connection at a time for most (`AnswerOne`, `QuietOne`), all of
them for a batch or the end (`AnsweringTurn`), one early attach after another for `Live`
(`ResumedFine`). The actions then only have to say which turn they take. Bounds do not matter:
the number of records, attaches and breaks is any, and so is every cap.

**Streams, at rest.** That nothing is left undone when the lanes are empty says something
about every state before. `FlowInv` says it of one line of places. A batch on its way to the
hub raises its head, so the head and the batches behind it together bound a place from above
(`Upto`) or from below (`Beyond`). The actor's place is both (`Levelled`); so is the pump's,
counting the lane from sessiond as well (`Sent`, `Pumped`); every batch reaches at least as far
as what went before (`Rising`), and a snapshot is cut no earlier than the head will be when
the hub hears of it (`Voiced`). With empty lanes the bounds meet, and a pump that sent all has
brought the hub all. A pump that stopped, after a fetch was refused, has its refusal or a new
attach on the way (`Asked`), which is where `stalled` comes in. Nobody asks the actor for
anything before it is live but over a new connection (`Living`), a checkpoint is never ahead of
the hub (`Past`), and nothing outlives the connection (`Cut`). An attachment follows at or past
the head, or is behind and has the tail to catch up from (`Placed`), so a wake-up brings it
there. `Accounted` follows each attach from one place to the next (`Follows`, `Owes`): what
an operation takes from where it waits it answers, or hands on, or overtakes. The hub's
operations are again turns (`Moderate`, `Calm`, `Going`), and what an action does to the lanes
is one lemma (`FlowTurnOn`).

**Grid.** That a client's mirror is the grid cannot be seen from one frame: a delta carries
only the rows whose revision is later than what the client holds, and trusts that the client
has the rest. Three facts make it so, each inductive only beside the others. The first is
between the terminal and the cache: a row the terminal has not marked dirty stands in the
cache as far down as the viewport has scrolled since the last update (`Faithful`, with
`Drift` counting from the anchor that `Settle` moves), so an update that shifts the cache and
reads only dirty rows is right (`UpdateDraws`, `UpdateAtKeeps`); after a swap, a resize, a
screen switched or a terminal lost nothing is claimed, and `full` has every row read. The
second is between two revisions: a mirror at revision r has, shifted by what the log says
has scrolled since r, every row stamped no later than r (`Has`, `Follows`), which an update
keeps because the shift of the cache and the log's new entry are one number, and every row
that is not shifted is stamped anew. `PastTwice` is why two shifts are one: each is cut off
at the height, and so is their sum. A log that forgot, a reshape or tables made anew take the
claim away, and the same conditions are why `CanCut` refuses a delta. The sum, the tables and
a pump over all clients are recursive functions over the numbers up to a length; that there
is such a function, and what it comes to, is shown by looking at the least number that is
missing from a set (`Inductive`, from `WFMin`), which needs no operator as a parameter. The third is
between the hub and the wire: the messages on their way to a client take its pane, one by
one, to what the hub believes it holds, and none of them is refused (`Walks`). A pump adds
to their end what brings the pane from there to the grid; a fetched reply moves the style
mark only, which rows refer to at most up to. Credits in flight are the frames not yet
received and the acks not yet taken, so that with empty lanes no attachment is out of
credit, and one that watches was served the last time the grid changed: with `Shows`, which
is the first fact with nothing pending, that is `GridCatchesUp`. Panes, attaches and credits
of different clients are independent, and `Pump` is taken one client at a time in whatever
order.

**Model-checked only.** `HandingEnds` of the handoff, `ExitIsRecorded` and `HeldIsTaken` of
`Session`, and `CatchesUp` of `Recovery`: liveness, which stays with TLC, since the prover
does neither fairness nor ENABLED. `HistoryIsTrue` of `Grid` is not so, which is its run.

## Not modelled, and what would come next

1. **Input.** `write`, `flush_input`, `close_stdin` and their reports, in `Session`; input
   events, selections, copies, searches and images in `Grid`.
2. **Flow.** The window of bytes in flight a connection's pumps share and what an Ack or
   an end returns to it; `Streams` has the bounded lanes only.
3. **Sizes.** The rule of `size`, and that what is decided is what is recorded.
4. **The rest of the engine.** Several gates, loops, waves that end just before the waiting
   check, agents' steps; schedules; rows that share a batch.
5. **Pairing, hooks, claims, the session pool.** Codes, owners, and claims that lapse.

Left out for good: wire encodings, terminal emulation (libghostty-vt's), the Windows
reader threads, SQL, git, ssh, the keychain, file formats, rendering and user interfaces,
which are most of the repository's lines.

Inside what is modelled: epochs of a log (it has one, and a cursor of another is refused),
damaged checkpoints on the way in (refused, nothing changes), outside `SessionLog` a read of
the log that fails (an attach refused, a stream closed and attached again), signals,
Release, a vornd that keeps its actors over a lost connection (it does not: they start
again), sleeping terminals (a checkpoint and a restore of the same state), the nudge to
redraw (a resize like any other). In `Streams`, reads without an attach, sessions expected
but not running, bells. In `Grid`, the link table, which works as the style table does, the
cursor, colours, row flags, the count of history lines, and reads of the terminal that fail;
a client may resume from its last frame, as the protocol and its tests do, though vorn-app
itself always attaches anew. In `Streams`, an attach's batches are one message, where the
server sends them with awaits between (`server.rs:756`), and an actor that is not live takes
no notice of a refusal that answers no fetch of its own, where the code has it try its next
base (`engine.rs:1195`, `session.rs:909`; `Recovery` models that): no property there tells
these apart. In `Lifecycle`, what a start does before it has its program, services held as
another type and a change of policy. In `Delivery`, requests for changes and sign-in waits;
a row waits at least as long as a write takes, and a lease does not lapse between its claim
and the start of its run.
