------------------------------ MODULE Session ------------------------------
(***************************************************************************)
(* One session in the sessiond that holds it: a terminal with one output   *)
(* stream, or a piped agent with two, read chunk by chunk on the hub's     *)
(* thread into the session's log; the reaping of its program; the drain    *)
(* that keeps a background job from holding the exit back; and the freeze, *)
(* the thaw and the adoption that a handoff to a newer sessiond puts it     *)
(* through.  (sessiond/src/session.rs on macOS and Linux; the log behind it *)
(* is RecordLog.)                                                          *)
(*                                                                         *)
(* Every handler runs under the session's state lock and is one action; one *)
(* that takes the lock twice is two.  A chunk is what one read returns.    *)
(* Input is left out: of it the freeze only asks that none is in flight.   *)
(* Registering and arming a descriptor with the hub is taken to succeed.   *)
(***************************************************************************)
EXTENDS RecordLog, FiniteSets

CONSTANTS
  StreamsOf,    (* policy |-> {pty}, or a piped agent's stdout and stderr  *)
  Jobs,         (* the streams a background job may keep open              *)
  Cadence,      (* output, in chunks, after which vornd cuts a checkpoint  *)
  Room,         (* output, in chunks, the log holds before it may be full  *)
  MaxChunks,    (* bound: stream |-> chunks written                        *)
  MaxRecords,   (* bound: no resize past so many records                   *)
  MaxHandoffs   (* bound: handoffs tried                                   *)

(* A blocking log that is full holds more than what the last two           *)
(* checkpoints leave. (Cadence::default's 1 MiB against Budget::PIPED's    *)
(* 8 MiB; not true of records a few bytes long when no spool is to be had.) *)
ASSUME RoomAssumption ==
  Cadence \in Nat \ {0} /\ Room \in Nat /\ Room >= 2 * Cadence

(* A session has streams enough for a u8 to count, and its own bounds.      *)
ASSUME StreamsAssumption ==
  /\ \A p \in Policies :
       /\ IsFiniteSet(StreamsOf[p]) /\ Cardinality(StreamsOf[p]) <= 255
       /\ \A s \in StreamsOf[p] : MaxChunks[s] \in Nat
  /\ MaxHandoffs \in Nat

VARIABLES
  (* The program's side. *)
  alive,        (* whether it runs                                         *)
  writers,      (* stream |-> who holds it open for writing                *)
  written,      (* stream |-> chunks written so far                        *)
  owed,         (* stream |-> of those, chunks written when it died        *)
  pipe,         (* stream |-> chunks in the kernel, oldest first           *)
  (* State and SessionIo. *)
  outs,         (* the streams sessiond holds                              *)
  armed,        (* those the hub waits for                                 *)
  held,         (* stream |-> the chunk a full log handed back, or 0       *)
  was_held,
  open_streams, (* a u8                                                    *)
  reaped,
  mode,         (* "Live" or "Frozen"; handed off is the adopter's Live    *)
  retrying,     (* a retry timer is set                                    *)
  draining,     (* the drain's timer is set                                *)
  rooms,        (* calls of retry_held under way, by who made them         *)
  floor,        (* vornd's: where it cut, or was told of, the newest      *)
  manifest,     (* what the freeze described, while frozen                 *)
  handoffs,
  (* History. *)
  taken,        (* stream |-> chunks the log kept, in order                *)
  kept_waiting, (* streams sessiond itself did not read at some time since *)
                (* the drain's timer was set                               *)
  thawed,       (* a handoff was called off                                *)
  ignored       (* a checkpoint came while frozen; vornd counts it as kept *)

programVars == <<alive, writers, written, owed>>
handoffVars == <<mode, manifest, handoffs, thawed, ignored>>
timerVars == <<retrying, draining, rooms, floor>>
sessionVars == <<recordLogVars, programVars, handoffVars, timerVars, pipe, outs, armed,
                 held, was_held, open_streams, reaped, taken, kept_waiting>>

Streams == StreamsOf[overflow]

AllStreams == UNION {StreamsOf[p] : p \in Policies}

Chunks == UNION {1..MaxChunks[s] : s \in Streams}

Holding == {s \in outs : held[s] # 0}

KeptFrom(S) == IF draining THEN kept_waiting \cup S ELSE {}

OneFewerSigned(n) == n - 1  (* fault: no u8 *)

(* u8 arithmetic: a release build wraps, a debug build stops the hub here. *)
OneFewer(n) == (n - 1) % 256

Typed ==
  /\ alive \in BOOLEAN /\ reaped \in BOOLEAN /\ was_held \in BOOLEAN
  /\ writers \in [Streams -> SUBSET {"program", "job"}]
  /\ written \in [Streams -> Nat] /\ owed \in [Streams -> Nat]
  /\ \A s \in Streams : owed[s] <= written[s] /\ written[s] <= MaxChunks[s]
  /\ pipe \in [Streams -> Seq(Chunks)] /\ taken \in [Streams -> Seq(Chunks)]
  /\ held \in [Streams -> Chunks \cup {0}]
  /\ armed \subseteq outs /\ outs \subseteq Streams
  /\ kept_waiting \subseteq Streams
  /\ open_streams \in 0..255
  /\ mode \in {"Live", "Frozen"} /\ handoffs \in 0..MaxHandoffs
  /\ retrying \in BOOLEAN /\ draining \in BOOLEAN
  /\ rooms \subseteq {"checkpoint", "timer"} /\ floor \in Cursor
  /\ manifest.open_streams \in 0..255 /\ manifest.outs \subseteq Streams

(* Until the exit is recorded open_streams is the number of streams the    *)
(* session has, so taking one off never wraps.                             *)
Counted == ~exited => open_streams = Cardinality(outs)

(* Type invariant: every variable in its type, and the count of streams,   *)
(* on which the exit hangs, exact through ends, cut-offs and adoptions.    *)
TypeOK == Typed /\ Counted

(* The program, and a job it left running, write, let streams go and end.  *)
(* A stream sessiond has closed takes nothing more.                        *)
Writes(s) ==
  /\ writers[s] # {} /\ s \in outs /\ written[s] < MaxChunks[s]
  /\ written' = [written EXCEPT ![s] = @ + 1]
  /\ pipe' = [pipe EXCEPT ![s] = Append(@, written[s] + 1)]
  /\ UNCHANGED <<recordLogVars, alive, writers, owed, handoffVars, timerVars, outs, armed,
                 held, was_held, open_streams, reaped, taken, kept_waiting>>

Closes(s, who) ==
  /\ who \in writers[s]
  /\ writers' = [writers EXCEPT ![s] = @ \ {who}]
  /\ UNCHANGED <<recordLogVars, alive, written, owed, handoffVars, timerVars, pipe, outs,
                 armed, held, was_held, open_streams, reaped, taken, kept_waiting>>

Dies ==
  /\ alive
  /\ alive' = FALSE
  /\ writers' = [s \in Streams |-> writers[s] \ {"program"}]
  /\ owed' = written
  /\ UNCHANGED <<recordLogVars, written, handoffVars, timerVars, pipe, outs, armed, held,
                 was_held, open_streams, reaped, taken, kept_waiting>>

Finish(open, info) ==
  IF open = 0 /\ info /\ ~exited THEN AppendKept("exit", 0) ELSE UNCHANGED recordLogVars

(* Output is handed back only while more than Room is newer than the older *)
(* checkpoint.                                                             *)
Full == AppendFull /\ head.off - retain_from.off >= Room

(* The hub's one-shot event for a stream with something to read, or at its *)
(* end: readable's early return, its end of stream, and its one read.      *)
Event(s) == s \in armed /\ (pipe[s] # <<>> \/ writers[s] = {})

IgnoresEvent(s) ==
  /\ Event(s) /\ mode # "Live"
  /\ armed' = armed \ {s}
  /\ UNCHANGED <<recordLogVars, programVars, handoffVars, timerVars, pipe, outs, held,
                 was_held, open_streams, reaped, taken, kept_waiting>>

StreamEnds(s) ==
  /\ Event(s) /\ mode = "Live" /\ held[s] = 0 /\ pipe[s] = <<>>
  /\ outs' = outs \ {s} /\ armed' = armed \ {s}
  /\ open_streams' = OneFewer(open_streams)
  /\ Finish(OneFewer(open_streams), reaped)
  /\ UNCHANGED <<programVars, handoffVars, timerVars, pipe, held, was_held, reaped,
                  taken, kept_waiting>>

ReadsLeaving(s) ==  (* fault: read, and left in the kernel too *)
  /\ Event(s) /\ mode = "Live" /\ held[s] = 0 /\ pipe[s] # <<>>
  /\ UNCHANGED <<pipe, programVars, handoffVars, draining, rooms, floor, open_streams, reaped>>

Reads(s) ==
  /\ Event(s) /\ mode = "Live" /\ held[s] = 0 /\ pipe[s] # <<>>
  /\ pipe' = [pipe EXCEPT ![s] = Tail(@)]
  /\ UNCHANGED <<programVars, handoffVars, draining, rooms, floor, open_streams, reaped>>

ReadsKept(s) ==
  /\ Reads(s)
  /\ AppendKept("data", 1)
  /\ taken' = [taken EXCEPT ![s] = Append(@, Head(pipe[s]))]
  /\ UNCHANGED <<outs, armed, held, was_held, retrying, kept_waiting>>

ReadsDropped(s) ==
  /\ Reads(s)
  /\ AppendDropped(1)
  /\ UNCHANGED <<outs, armed, held, was_held, retrying, taken, kept_waiting>>

ReadsHeld(s) ==
  /\ Reads(s)
  /\ Full
  /\ held' = [held EXCEPT ![s] = Head(pipe[s])]
  /\ armed' = armed \ {s}
  /\ was_held' = TRUE /\ retrying' = TRUE
  /\ kept_waiting' = KeptFrom({s})
  /\ UNCHANGED <<outs, taken>>

(* After the exit: the stream is let go, and open_streams left as it is.   *)
ReadsAfterExit(s) ==
  /\ Reads(s) /\ exited
  /\ outs' = outs \ {s} /\ armed' = armed \ {s}
  /\ UNCHANGED <<recordLogVars, held, was_held, retrying, taken, kept_waiting>>

(* A read appends one record; so does a turn of retry_held's loop, under   *)
(* the one lock, for each stream in turn.  Only a blocking log holds        *)
(* output, and it has no gap to settle.                                    *)
AppendsKept(n) ==
  /\ ~exited
  /\ run' = run \o [i \in 1..n |-> [rseq |-> head.rseq + (i - 1), off |-> head.off + (i - 1),
                                    kind |-> "data", len |-> 1]]
  /\ head' = [rseq |-> head.rseq + n, off |-> head.off + n]
  /\ UNCHANGED <<overflow, retain_from, newest, fallback, lost, exited>>

(* Whether a retry timer is set once S of what was held is taken.          *)
RetriesStill(S) == retrying \/ S # Holding

(* retry_held, for whichever of its callers: what the log takes of it is   *)
(* read on from, the rest waits for the retry timer.  No stream is held    *)
(* once the exit is in the log, so its Exited arm is never taken.          *)
RetryHeld(who) ==
  /\ who \in rooms
  /\ rooms' = rooms \ {who}
  /\ IF mode # "Live" \/ Holding = {} THEN UNCHANGED <<recordLogVars, taken, held, armed, retrying>>
     ELSE \E S \in SUBSET Holding :
            /\ S # Holding => head.off + Cardinality(S) - retain_from.off >= Room
            /\ AppendsKept(Cardinality(S))
            /\ taken' = [s \in Streams |-> IF s \in S THEN Append(taken[s], held[s]) ELSE taken[s]]
            /\ held' = [s \in Streams |-> IF s \in S THEN 0 ELSE held[s]]
            /\ armed' = armed \cup S
            /\ retrying' = RetriesStill(S)
  /\ UNCHANGED <<programVars, handoffVars, draining, floor, pipe, outs, was_held,
                 open_streams, reaped, kept_waiting>>

(* The retry timer lets retrying go in one section of the lock and retries *)
(* in the next.                                                            *)
RetryTimer ==
  /\ retrying
  /\ retrying' = FALSE
  /\ rooms' = rooms \cup {"timer"}
  /\ UNCHANGED <<recordLogVars, programVars, handoffVars, draining, floor, pipe, outs, armed, held,
                 was_held, open_streams, reaped, taken, kept_waiting>>

CheckpointTaken(cp) ==  (* fault: taken from under a handoff *)
  IF Acceptable(cp) THEN PutCheckpoint(cp) ELSE UNCHANGED recordLogVars

CheckpointIfLive(cp) ==
  IF mode = "Live" THEN CheckpointTaken(cp) ELSE UNCHANGED recordLogVars

(* vornd cuts a checkpoint past its floor, before a whole Cadence goes by; *)
(* a frozen session ignores it, which vornd is not told.  The retry is in  *)
(* the next section of the lock.  What a trim that failed leaves behind    *)
(* retain_from makes no difference here, so every trim is a full one.      *)
Checkpoints(cp) ==
  /\ cp.resume.rseq > floor.rseq /\ cp.resume.off - floor.off <= Cadence
  /\ CheckpointIfLive(cp)
  /\ run' = Suffix(run, retain_from')
  /\ floor' = cp.resume
  /\ rooms' = rooms \cup {"checkpoint"}
  /\ ignored' = (ignored \/ mode = "Frozen")
  /\ UNCHANGED <<programVars, mode, manifest, handoffs, thawed, retrying, draining, pipe, outs, armed, held,
                 was_held, open_streams, reaped, taken, kept_waiting>>

(* The program's exit is heard: reaped here, or, adopted, read where the   *)
(* sessiond that started it wrote it.  The drain's timer is set; the one   *)
(* of an earlier Reaped is not set twice, as only one is heard a sessiond. *)
Reaped ==
  /\ ~alive /\ ~reaped
  /\ reaped' = TRUE
  /\ IF mode = "Live" THEN Finish(open_streams, TRUE) ELSE UNCHANGED recordLogVars
  /\ draining' = TRUE
  /\ kept_waiting' = IF mode = "Live" THEN Holding ELSE outs
  /\ UNCHANGED <<programVars, handoffVars, retrying, rooms, floor, pipe, outs, armed, held,
                 was_held, open_streams, taken>>

(* DRAIN_AFTER_EXIT is long for the hub: a stream it could read all that   *)
(* while has been read past what the program left in it, and to its end if *)
(* only the program had it.                                                *)
Waited ==
  \A s \in outs \ kept_waiting :
    /\ s \in Jobs
    /\ \A i \in DOMAIN pipe[s] : pipe[s][i] > owed[s]

DrainTimer == draining /\ Waited

DrainNoLonger ==
  /\ DrainTimer /\ exited
  /\ draining' = FALSE /\ kept_waiting' = {}
  /\ UNCHANGED <<recordLogVars, programVars, handoffVars, retrying, rooms, floor, pipe, outs, armed,
                 held, was_held, open_streams, reaped, taken>>

MustLookAgainHeld == Holding # {}  (* fault: one just let go is forgotten *)

MustLookAgain == Holding # {} \/ was_held

DrainAgain ==
  /\ DrainTimer /\ ~exited /\ (mode = "Frozen" \/ MustLookAgain)
  /\ was_held' = (was_held /\ (mode = "Frozen" \/ Holding # {}))
  /\ kept_waiting' = IF mode = "Frozen" THEN outs ELSE Holding
  /\ UNCHANGED <<recordLogVars, programVars, handoffVars, timerVars, pipe, outs, armed, held,
                 open_streams, reaped, taken>>

DrainCutsOff ==
  /\ DrainTimer /\ ~exited /\ mode = "Live" /\ ~MustLookAgain
  /\ open_streams' = 0
  /\ Finish(0, reaped)
  /\ draining' = FALSE /\ kept_waiting' = {}
  /\ UNCHANGED <<programVars, handoffVars, retrying, rooms, floor, pipe, outs, armed, held,
                 was_held, reaped, taken>>

(* Only a terminal has a master to resize.                                 *)
Resize ==
  /\ mode = "Live" /\ overflow = "Drop" /\ head.rseq < MaxRecords
  /\ AppendKept("resize", 0)
  /\ UNCHANGED <<programVars, handoffVars, timerVars, pipe, outs, armed, held, was_held,
                 open_streams, reaped, taken, kept_waiting>>

NoManifest == [open_streams |-> 0, outs |-> {}, reaped |-> FALSE, head |-> Start,
               retain_from |-> Start, exited |-> FALSE]

MayFreezeHolding == mode = "Live"  (* fault: held output is not asked for *)

MayFreeze == mode = "Live" /\ Holding = {}

(* Describing the log settles its gap.                                     *)
Freeze ==
  /\ MayFreeze /\ handoffs < MaxHandoffs
  /\ mode' = "Frozen" /\ handoffs' = handoffs + 1
  /\ SettleGap
  /\ manifest' = [open_streams |-> open_streams, outs |-> outs, reaped |-> reaped,
                  head |-> SettledHead, retain_from |-> retain_from, exited |-> exited]
  /\ kept_waiting' = KeptFrom(outs)
  /\ UNCHANGED <<programVars, timerVars, pipe, outs, armed, held, was_held, open_streams,
                 reaped, taken, thawed, ignored>>

RearmedNone == {}  (* fault: a thaw that arms nothing *)

Rearmed == outs \ Holding

Thaw ==
  /\ mode = "Frozen"
  /\ mode' = "Live" /\ thawed' = TRUE
  /\ Finish(open_streams, reaped)
  /\ armed' = armed \cup Rearmed
  /\ manifest' = NoManifest
  /\ UNCHANGED <<handoffs, ignored, programVars, timerVars, pipe, outs, held, was_held,
                 open_streams, reaped, taken, kept_waiting>>

(* What stage accepts: a terminal passes its master, a piped agent one     *)
(* descriptor for each stream still held.                                  *)
Fits(m) ==
  IF overflow = "Drop" THEN m.open_streams <= 1
  ELSE m.open_streams = Cardinality(m.outs)

(* The handoff commits: the adopter, which staged the manifest, starts.    *)
(* What it did not describe starts afresh there, and an exit heard here     *)
(* since the freeze is heard there again, from the file it is written to.  *)
Adopts ==
  /\ mode = "Frozen" /\ Fits(manifest)
  /\ mode' = "Live"
  /\ outs' = IF manifest.open_streams = 0 THEN {} ELSE manifest.outs
  /\ armed' = outs'
  /\ open_streams' = manifest.open_streams
  /\ held' = [s \in Streams |-> 0] /\ was_held' = FALSE
  /\ reaped' = manifest.reaped
  /\ Finish(manifest.open_streams, manifest.reaped)
  /\ draining' = (manifest.reaped /\ ~exited)
  /\ retrying' = FALSE /\ rooms' = {} /\ kept_waiting' = {} /\ ignored' = FALSE
  /\ floor' = IF newest = None THEN Start ELSE newest.resume
  /\ manifest' = NoManifest
  /\ UNCHANGED <<handoffs, thawed, programVars, pipe, taken>>

SessionInit ==
  /\ LogInit
  /\ alive = TRUE
  /\ writers = [s \in Streams |-> IF s \in Jobs THEN {"program", "job"} ELSE {"program"}]
  /\ written = [s \in Streams |-> 0] /\ owed = written /\ held = written
  /\ pipe = [s \in Streams |-> <<>>] /\ taken = pipe
  /\ outs = Streams /\ armed = Streams /\ open_streams = Cardinality(Streams)
  /\ was_held = FALSE /\ reaped = FALSE
  /\ mode = "Live" /\ handoffs = 0
  /\ manifest = NoManifest
  /\ retrying = FALSE /\ draining = FALSE /\ rooms = {} /\ floor = Start
  /\ kept_waiting = {} /\ thawed = FALSE /\ ignored = FALSE

Outside ==
  \/ Dies
  \/ \E s \in Streams : Writes(s) \/ \E who \in {"program", "job"} : Closes(s, who)

Hub ==
  \/ \E s \in Streams :
       \/ IgnoresEvent(s) \/ StreamEnds(s)
       \/ ReadsKept(s) \/ ReadsDropped(s) \/ ReadsHeld(s) \/ ReadsAfterExit(s)
  \/ RetryTimer \/ Reaped
  \/ DrainNoLonger \/ DrainAgain \/ DrainCutsOff
  \/ \E who \in {"checkpoint", "timer"} : RetryHeld(who)

Handoff == Freeze \/ Thaw \/ Adopts

SessionNext ==
  \/ Outside \/ Hub \/ Handoff \/ Resize
  \/ \E c \in Boundaries, b \in Blobs : Checkpoints([resume |-> c, blob |-> b])

SessionSpec == SessionInit /\ [][SessionNext]_sessionVars
(***************************************************************************)
(* What is required of it.                                                 *)
(***************************************************************************)
Chunk(s) == IF held[s] = 0 THEN <<>> ELSE <<held[s]>>

(* Between the log and the kernel nothing of a stream is out of order, and *)
(* of a piped agent's, up to its exit, nothing is missing either: held     *)
(* output is offered again before anything read after it, across retries,  *)
(* freezes, thaws and adoptions.                                           *)
NothingMislaid ==
  \A s \in Streams :
    LET seen == taken[s] \o Chunk(s) \o pipe[s] IN
    /\ \A i, j \in 1..Len(seen) : i < j => seen[i] < seen[j]
    /\ overflow = "Block" /\ ~exited => Len(seen) = written[s]

(* A piped agent's exit comes after all it wrote: a full log only delays   *)
(* it (DRAIN_AFTER_EXIT and State::was_held).                              *)
PipedLosesNothing ==
  overflow = "Block" /\ exited =>
    \A s \in Streams : \A n \in 1..owed[s] : \E i \in DOMAIN taken[s] : taken[s][i] = n

(* The same where no handoff was called off, so also for sessions adopted. *)
PipedLosesNothingUnthawed == ~thawed => PipedLosesNothing

(* While frozen, the session stays as its manifest described it, whatever  *)
(* the program, the hub's events and vornd's checkpoints do.               *)
ManifestStaysTrue ==
  mode = "Frozen" =>
    /\ Holding = {}
    /\ manifest.open_streams = open_streams /\ manifest.outs = outs
    /\ manifest.head = head /\ manifest.retain_from = retain_from
    /\ manifest.exited = exited /\ lost = 0

(* The hub runs events, timers and retries; a handoff commits or is called *)
(* off; and vornd checkpoints what it has read.                            *)
Fairness ==
  /\ \A s \in AllStreams :
       /\ WF_sessionVars(IgnoresEvent(s) \/ StreamEnds(s))
       /\ WF_sessionVars(ReadsKept(s) \/ ReadsDropped(s) \/ ReadsHeld(s) \/ ReadsAfterExit(s))
  /\ WF_sessionVars(RetryTimer)
  /\ \A who \in {"checkpoint", "timer"} : WF_sessionVars(RetryHeld(who))
  /\ WF_sessionVars(Reaped)
  /\ WF_sessionVars(DrainNoLonger \/ DrainAgain \/ DrainCutsOff)
  /\ WF_sessionVars(Thaw \/ Adopts)
  /\ WF_sessionVars(\E c \in Boundaries, b \in Blobs : Checkpoints([resume |-> c, blob |-> b]))

FairSpec == SessionSpec /\ Fairness

(* An exit is recorded in the end, however full the log is and whatever    *)
(* keeps a stream open: no background job, no handoff holds it back, but   *)
(* where vornd's checkpoint was ignored.                                   *)
ExitIsRecorded == ~alive ~> exited \/ ignored

(* A stream held back by a full log (a terminal's drops instead) is read    *)
(* again, with the same exception.                                         *)
HeldIsTaken ==
  \A s \in StreamsOf["Block"] : s \in Holding ~> s \notin Holding \/ ignored
=============================================================================
