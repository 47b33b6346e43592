--------------------------- MODULE HandoffProofs ---------------------------
(***************************************************************************)
(* Proofs about Handoff, for any number of processes and sessions, while   *)
(* both ends of one adoption have closed before vornd asks for the next.   *)
(*                                                                         *)
(* The invariant says of the one connection at work how far its two ends   *)
(* can be apart, and who has the sessions for each pair of places:         *)
(*   Ends      each end is a running process's, open while it has a part;  *)
(*   Came      what is staged or on its way was offered, and all of it has *)
(*             come once the adopter is ready;                             *)
(*   InStep    Done and Commit are heard only after the donor sent them;   *)
(*   Heeded    a Took waits for the donor only if the adopter has started  *)
(*             the sessions, or is about to, or died with them;            *)
(*   Backed    until Took is heard the donor has all it offered, frozen,   *)
(*             and nobody but it and the adopter has any of it.            *)
(* Each step of the connection is shown to keep Good, and GoesKeeps and    *)
(* SoloKeeps carry that to the whole of HandoffInv.                        *)
(* What vornd is told is a second invariant, ToldInv: Untold says what the *)
(* steps that tell it nothing may do.                                      *)
(***************************************************************************)
EXTENDS Handoff, FiniteSetTheorems, TLAPS

InQ(m, q) == \E i \in 1..Len(q) : q[i] = m

Active(a) == conn[a].a # "idle" \/ conn[a].d # "closed"

(* Where donate is while it has the sessions frozen, or is freezing them;  *)
(* and where adopt is before it can no longer let them go.                 *)
Donating == {"freeze", "send", "ready", "commit", "took"}
Passing == {"send", "ready", "commit", "took"}
Taking == {"offer", "stage", "ready", "commit", "took"}

DonorSteps == {"asked", "refuse", "close", "closed"} \cup Donating
AdopterSteps == {"idle", "start", "drain"} \cup Taking

ConnType == [from : Procs \cup {0}, d : DonorSteps, a : AdopterSteps,
             toA : Seq(Messages), toD : Seq(Messages), shut : BOOLEAN, reset : BOOLEAN,
             offered : SUBSET Sessions, passing : SUBSET Sessions, staged : SUBSET Sessions]

Typed ==
  /\ up \subseteq Procs /\ handing \subseteq up /\ handed \subseteq Procs
  /\ map \in [Procs -> SUBSET Sessions] /\ frozen \in [Procs -> SUBSET Sessions]
  /\ conn \in [Procs -> ConnType]
  /\ told \in [Procs -> {"nothing", "adopted", "failed", "stalled"}]
  /\ adopts \in 0..MaxAdopts
  /\ born \subseteq Sessions /\ killed \subseteq born
  /\ \A p \in Procs : frozen[p] \subseteq map[p] /\ map[p] \subseteq born

(* The connection c of an adopter a.  Each of its two ends is a running    *)
(* process's.                                                              *)
Ends(a, c) ==
  /\ c.from \in Procs \ {a}
  /\ c.d # "closed" => c.from \in up
  /\ c.a # "idle" => a \in up \ (handing \cup handed)
  /\ c.d \in Donating => c.from \in handing
  /\ c.d = "close" => c.shut
  /\ c.shut <=> c.a \in {"idle", "drain"}

(* What came, and what is on its way, was offered; all of it once the      *)
(* adopter is ready.                                                       *)
Came(c) ==
  /\ c.offered \subseteq born /\ (c.d = "asked" => c.offered = {})
  /\ c.passing \subseteq c.offered /\ c.staged \subseteq c.offered
  /\ \A s \in Sessions : InQ(s, c.toA) => s \in c.offered
  /\ c.a \in {"idle", "offer", "drain"} => c.staged = {}
  /\ c.a \in {"ready", "commit", "took", "start"} => c.staged = c.offered

(* How far the adopter can be, with what it may still hear, for where the  *)
(* donor is.                                                               *)
InStep(c) ==
  /\ c.d \in {"asked", "freeze"} => c.a \in {"idle", "offer", "drain"} /\ c.toA = <<>>
  /\ \/ c.a \in {"ready", "commit", "took", "start"}
     \/ c.a \in Taking /\ InQ("Done", c.toA)
     => c.d \notin {"asked", "freeze", "send"}
  /\ c.a = "took" \/ (c.a \in Taking /\ InQ("Commit", c.toA)) =>
       c.d = "took" \/ (c.d = "closed" /\ c.from \notin up)

(* The donor hears Took only of an adopter that has the sessions, or had   *)
(* them when it died.                                                      *)
Delivered(a, c) ==
  \/ c.a = "start"
  \/ c.a = "idle" /\ a \in up /\ c.offered \subseteq map[a]
  \/ c.a = "idle" /\ a \notin up /\ c.offered \subseteq killed

Heeded(a, c) ==
  /\ c.d = "asked" => Len(c.toD) = 1
  /\ c.d \in {"freeze", "send", "commit"} => c.toD = <<>>
  /\ c.d = "ready" => \/ c.toD = <<>>
                      \/ Len(c.toD) = 1 /\ c.a \notin {"offer", "stage", "ready"}
  /\ c.d = "took" => \/ c.toD = <<>> /\ c.a # "start"
                     \/ Len(c.toD) = 1 /\ Delivered(a, c)
  /\ c.a = "start" => c.d \in {"took", "closed"}
  /\ c.a \in {"offer", "stage", "ready"} => c.d \notin {"commit", "took"}

(* Until the adopter has them the donor does, or they died with it.        *)
Backed(a, c) ==
  /\ c.d \in Donating => c.offered = map[c.from] /\ frozen[c.from] \subseteq c.offered
  /\ c.d \in Passing => frozen[c.from] = c.offered
  /\ c.a \in Taking => /\ c.from \in up => c.offered \subseteq map[c.from]
                       /\ c.from \notin up => c.offered \subseteq killed
  /\ \A q \in up, s \in c.offered : s \in map[q] => q \in {c.from, a}
  /\ c.a = "start" /\ c.d = "closed" /\ c.from \in up => c.offered \cap map[c.from] = {}

Good(a, c) == Ends(a, c) /\ Came(c) /\ InStep(c) /\ Heeded(a, c) /\ Backed(a, c)

ConnInv(a) ==
  /\ Active(a) => Good(a, conn[a])
  /\ ~Active(a) => conn[a].staged = {} /\ conn[a].passing \subseteq conn[a].offered

(* One connection at a time.                                               *)
Alone == \A a, b \in Procs : a # b /\ Active(a) => ~Active(b)

(* Two processes hold a session only when the adopter has started it and   *)
(* the donor has yet to hear.                                              *)
Twice(a, d, s) ==
  conn[a].from = d /\ conn[a].d = "took" /\ conn[a].a = "idle" /\ conn[a].toD # <<>> /\ s \in conn[a].offered

Shared ==
  \A p, q \in up : p # q => \A s \in map[p] \cap map[q] : Twice(p, q, s) \/ Twice(q, p, s)

HandedEmpty == \A p \in handed : map[p] = {}

(* Frozen by a donor only.                                                 *)
FrozenByDonor ==
  \A p \in Procs : frozen[p] # {} => \E a \in Procs : From(a) = p /\ conn[a].d \in Donating

HandoffInv ==
  /\ Typed /\ Alone /\ Shared /\ HandedEmpty /\ FrozenByDonor /\ NeverLost
  /\ \A a \in Procs : ConnInv(a)

USE ProcsAssumption, SessionsAssumption

-----------------------------------------------------------------------------
(* Queues of messages.                                                     *)
LEMMA AppendProperties ==
  ASSUME NEW q \in Seq(Messages), NEW x \in Messages
  PROVE  /\ Append(q, x) \in Seq(Messages) /\ Append(q, x) # <<>>
         /\ Len(Append(q, x)) = Len(q) + 1
         /\ \A m : InQ(m, Append(q, x)) => InQ(m, q) \/ m = x
<1>1. \A i \in 1..Len(Append(q, x)) : Append(q, x)[i] = IF i = Len(q) + 1 THEN x ELSE q[i]
  OBVIOUS
<1>2. Append(q, x) \in Seq(Messages) /\ Len(Append(q, x)) = Len(q) + 1 /\ Append(q, x) # <<>>
  OBVIOUS
<1>3. ASSUME NEW m, InQ(m, Append(q, x)), m # x PROVE InQ(m, q)
  <2>1. PICK i \in 1..Len(Append(q, x)) : Append(q, x)[i] = m
    BY <1>3 DEF InQ
  <2>2. i \in 1..Len(q) /\ q[i] = m
    BY <1>1, <1>2, <1>3, <2>1
  <2> QED  BY <2>2 DEF InQ
<1> QED  BY <1>2, <1>3

LEMMA TailProperties ==
  ASSUME NEW q \in Seq(Messages), q # <<>>
  PROVE  /\ Tail(q) \in Seq(Messages) /\ Len(Tail(q)) = Len(q) - 1 /\ Len(q) \in Nat \ {0}
         /\ Len(q) = 1 => Tail(q) = <<>>
         /\ InQ(Head(q), q)
         /\ \A m : InQ(m, Tail(q)) => InQ(m, q)
<1>1. /\ Tail(q) \in Seq(Messages) /\ Len(Tail(q)) = Len(q) - 1 /\ Len(q) \in Nat \ {0}
      /\ Len(q) = 1 => Tail(q) = <<>>
      /\ \A i \in 1..Len(Tail(q)) : Tail(q)[i] = q[i + 1]
      /\ Head(q) = q[1]
  <2>1. Len(q) \in Nat \ {0}
    OBVIOUS
  <2>2. Tail(q) \in Seq(Messages) /\ Len(Tail(q)) = Len(q) - 1 /\ Head(q) = q[1]
    OBVIOUS
  <2>3. \A i \in 1..Len(Tail(q)) : Tail(q)[i] = q[i + 1]
    OBVIOUS
  <2>4. Len(q) = 1 => Tail(q) = <<>>
    <3>1. \A t \in Seq(Messages) : Len(t) = 0 => t = <<>>
      OBVIOUS
    <3> DEFINE t == Tail(q)
    <3>2. t \in Seq(Messages) /\ Len(t) = Len(q) - 1
      BY <2>2
    <3> HIDE DEF t
    <3>3. Len(q) = 1 => Len(t) = 0
      BY <3>2
    <3>4. Len(q) = 1 => t = <<>>
      BY <3>1, <3>2, <3>3
    <3> QED  BY <3>4 DEF t
  <2> QED  BY <2>1, <2>2, <2>3, <2>4
<1>2. InQ(Head(q), q)
  BY <1>1 DEF InQ
<1>3. ASSUME NEW m, InQ(m, Tail(q)) PROVE InQ(m, q)
  <2>1. PICK i \in 1..Len(Tail(q)) : Tail(q)[i] = m
    BY <1>3 DEF InQ
  <2>2. i + 1 \in 1..Len(q) /\ q[i + 1] = m
    BY <1>1, <2>1
  <2> QED  BY <2>2 DEF InQ
<1> QED  BY <1>1, <1>2, <1>3

LEMMA EmptyQueue == /\ \A m : ~InQ(m, <<>>)
                    /\ <<>> \in Seq(Messages) /\ Len(<<>>) = 0
BY DEF InQ

LEMMA InitInv == HandoffInit => HandoffInv
<1> SUFFICES ASSUME HandoffInit PROVE HandoffInv
  OBVIOUS
<1> USE DEF HandoffInit
<1>1. Idle \in ConnType
  BY EmptyQueue DEF Idle, ConnType, DonorSteps, AdopterSteps
<1>2. Typed
  <2>1. conn \in [Procs -> ConnType]
    BY <1>1
  <2>2. born \subseteq Sessions /\ \A p \in Procs : map[p] \subseteq born
    BY DEF Sessions
  <2>3. /\ up \subseteq Procs /\ handing \subseteq up /\ handed \subseteq Procs
        /\ map \in [Procs -> SUBSET Sessions] /\ frozen \in [Procs -> SUBSET Sessions]
        /\ told \in [Procs -> {"nothing", "adopted", "failed", "stalled"}]
        /\ adopts \in 0..MaxAdopts /\ killed \subseteq born
    OBVIOUS
  <2>4. \A p \in Procs : frozen[p] \subseteq map[p]
    OBVIOUS
  <2> QED  BY <2>1, <2>2, <2>3, <2>4 DEF Typed
<1>3. \A a \in Procs : ~Active(a) /\ conn[a].staged = {} /\ conn[a].passing = {}
  BY DEF Active, Idle
<1>4. Alone /\ HandedEmpty /\ FrozenByDonor
  BY <1>3 DEF Alone, HandedEmpty, FrozenByDonor
<1>5. Shared
  BY DEF Shared
<1>6. NeverLost
  BY DEF NeverLost
<1> QED  BY <1>2, <1>3, <1>4, <1>5, <1>6 DEF HandoffInv, ConnInv

(***************************************************************************)
(* Steps of the one connection at work.                                    *)
(***************************************************************************)
LEMMA GoesKeeps ==
  ASSUME HandoffInv, NEW a \in Procs, NEW c \in ConnType, Goes(a, c), Active(a), Good(a, c),
         ~(conn[a].a = "idle" /\ conn[a].d = "took"),
         c.from = From(a), conn[a].d \in Donating => c.d \in Donating,
         c.staged = {} \/ c.a # "idle" \/ c.d # "closed",
         \A s \in conn[a].staged \ c.staged : s \in killed \/ \E p \in up : s \in map[p]
  PROVE  HandoffInv'
<1>a. Typed /\ Alone /\ Shared /\ HandedEmpty /\ FrozenByDonor /\ NeverLost
      /\ \A b \in Procs : ConnInv(b)
  BY DEF HandoffInv
<1>b. UNCHANGED <<up, map, frozen, handing, handed, adopts, told, born, killed>>
  BY DEF Goes
<1>c. /\ conn'[a] = c /\ \A b \in Procs : b # a => conn'[b] = conn[b]
      /\ conn' \in [Procs -> ConnType]
  BY <1>a DEF Goes, Typed
<1>d. \A b \in Procs : b # a => ~Active(b) /\ conn[b].d = "closed"
  BY <1>a DEF Alone, Active
<1>1. Typed'
  BY <1>a, <1>b, <1>c DEF Typed
<1>2. Alone'
  BY <1>c, <1>d DEF Alone, Active
<1>3. Shared'
  <2>1. \A p, q \in up : p # q => map[p] \cap map[q] = {}
    <3> SUFFICES ASSUME NEW p \in up, NEW q \in up, p # q, NEW t \in map[p] \cap map[q] PROVE FALSE
      OBVIOUS
    <3>1. p \in Procs /\ q \in Procs /\ (Twice(p, q, t) \/ Twice(q, p, t))
      BY <1>a DEF Shared, Typed
    <3> QED  BY <1>d, <3>1 DEF Twice
  <2> QED  BY <1>b, <2>1 DEF Shared
<1>4. HandedEmpty'
  BY <1>a, <1>b DEF HandedEmpty
<1>5. FrozenByDonor'
  <2> SUFFICES ASSUME NEW p \in Procs, frozen[p] # {}
               PROVE  \E b \in Procs : conn'[b].from = p /\ conn'[b].d \in Donating
    BY <1>b DEF FrozenByDonor, From
  <2>1. PICK b \in Procs : From(b) = p /\ conn[b].d \in Donating
    BY <1>a DEF FrozenByDonor
  <2>2. b = a
    BY <1>d, <2>1 DEF Donating
  <2> QED  BY <1>c, <2>1, <2>2 DEF From
<1>6. NeverLost'
  <2> SUFFICES ASSUME NEW s \in born \ killed
               PROVE  \E p \in up : s \in map[p] \cup conn'[p].staged
    BY <1>b DEF NeverLost
  <2>1. PICK p \in up : s \in map[p] \cup conn[p].staged
    BY <1>a DEF NeverLost
  <2> QED  BY <1>a, <1>c, <2>1 DEF Typed
<1>7. ASSUME NEW b \in Procs PROVE ConnInv(b)'
  <2>1. CASE b = a
    <3>1. Good(a, c)'
      BY <1>b DEF Good, Ends, Came, InStep, Heeded, Delivered, Backed
    <3> QED  BY <1>c, <2>1, <3>1 DEF ConnInv, Active, Good, Came
  <2>2. CASE b # a
    BY <1>a, <1>c, <1>d, <2>2 DEF ConnInv, Active
  <2> QED  BY <2>1, <2>2
<1> QED  BY <1>1, <1>2, <1>3, <1>4, <1>5, <1>6, <1>7 DEF HandoffInv

(* The connection that is at work, as the invariant has it.                *)
LEMMA AtWork ==
  ASSUME HandoffInv, NEW a \in Procs, Active(a)
  PROVE  conn[a] \in ConnType /\ Good(a, conn[a])
BY DEF HandoffInv, ConnInv, Typed

LEMMA OffersKeeps ==
  ASSUME HandoffInv, NEW a \in Procs, Offers(a) PROVE HandoffInv'
<1> DEFINE o == conn[a]
           c == [conn[a] EXCEPT !.toA = Append(@, "Offer"), !.d = "send", !.passing = conn[a].offered]
<1>1. Goes(a, c) /\ o.d = "freeze" /\ o.offered = frozen[o.from] /\ o.a # "idle"
  BY DEF Offers, From, AdopterOpen
<1>2. Active(a) /\ o \in ConnType /\ Good(a, o) /\ NeverLost
  BY <1>1, AtWork DEF Active, Taking, HandoffInv
<1>3. /\ Append(o.toA, "Offer") \in Seq(Messages) /\ Append(o.toA, "Offer") # <<>>
      /\ Len(Append(o.toA, "Offer")) = Len(o.toA) + 1
      /\ \A m : InQ(m, Append(o.toA, "Offer")) => InQ(m, o.toA) \/ m = "Offer"
  BY <1>1, <1>2, AppendProperties DEF ConnType, Messages, Words
<1>4. \A s \in Sessions : s \notin {"Offer", "Done", "Commit", "Refuse", "Ready", "Took", "Hello"}
  BY DEF Words
<1>5. /\ c \in ConnType
      /\ c.toA = Append(o.toA, "Offer") /\ c.d = "send" /\ c.passing = o.offered
      /\ c.from = o.from /\ c.a = o.a /\ c.toD = o.toD /\ c.shut = o.shut
      /\ c.reset = o.reset /\ c.offered = o.offered /\ c.staged = o.staged
  BY <1>1, <1>2, <1>3, <1>4 DEF ConnType, DonorSteps, AdopterSteps, Messages, Words, Donating, Taking
<1> HIDE DEF c
<1>6. Ends(a, c)
  BY <1>1, <1>2, <1>3, <1>4, <1>5 DEF Good, Ends, Donating, Passing, Taking
<1>7. Came(c)
  BY <1>1, <1>2, <1>3, <1>4, <1>5 DEF Good, Came, Donating, Passing, Taking
<1>8. InStep(c)
  BY <1>1, <1>2, <1>3, <1>4, <1>5 DEF Good, InStep, Donating, Passing, Taking
<1>9. Heeded(a, c)
  BY <1>1, <1>2, <1>3, <1>4, <1>5 DEF Good, Heeded, Delivered, Donating, Passing, Taking
<1>10. Backed(a, c)
  BY <1>1, <1>2, <1>3, <1>4, <1>5 DEF Good, Backed, Donating, Passing, Taking
<1>11. \A s \in o.staged \ c.staged : s \in killed \/ \E p \in up : s \in map[p]
  BY <1>1, <1>2, <1>3, <1>4, <1>5
<1> QED  BY <1>1, <1>2, <1>3, <1>4, <1>5, <1>6, <1>7, <1>8, <1>9, <1>10, <1>11, GoesKeeps DEF Good, From, Donating

LEMMA SendsSessionKeeps ==
  ASSUME HandoffInv, NEW a \in Procs, NEW s \in Sessions, SendsSession(a, s) PROVE HandoffInv'
<1> DEFINE o == conn[a]
           c == [conn[a] EXCEPT !.toA = Append(@, s), !.passing = @ \ {s}]
<1>1. Goes(a, c) /\ o.d = "send" /\ s \in o.passing /\ o.a # "idle"
  BY DEF SendsSession, AdopterOpen
<1>2. Active(a) /\ o \in ConnType /\ Good(a, o) /\ NeverLost
  BY <1>1, AtWork DEF Active, Taking, HandoffInv
<1>3. /\ Append(o.toA, s) \in Seq(Messages) /\ Append(o.toA, s) # <<>>
      /\ Len(Append(o.toA, s)) = Len(o.toA) + 1
      /\ \A m : InQ(m, Append(o.toA, s)) => InQ(m, o.toA) \/ m = s
  BY <1>1, <1>2, AppendProperties DEF ConnType, Messages, Words
<1>4. \A t \in Sessions : t \notin {"Offer", "Done", "Commit", "Refuse", "Ready", "Took", "Hello"}
  BY DEF Words
<1>5. /\ c \in ConnType
      /\ c.toA = Append(o.toA, s) /\ c.passing = o.passing \ {s}
      /\ c.from = o.from /\ c.d = o.d /\ c.a = o.a /\ c.toD = o.toD
      /\ c.shut = o.shut /\ c.reset = o.reset /\ c.offered = o.offered /\ c.staged = o.staged
  BY <1>1, <1>2, <1>3, <1>4 DEF ConnType, DonorSteps, AdopterSteps, Messages, Words, Donating, Taking
<1> HIDE DEF c
<1>6. Ends(a, c)
  BY <1>1, <1>2, <1>3, <1>4, <1>5 DEF Good, Ends, Donating, Passing, Taking
<1>7. Came(c)
  BY <1>1, <1>2, <1>3, <1>4, <1>5 DEF Good, Came, Donating, Passing, Taking
<1>8. InStep(c)
  BY <1>1, <1>2, <1>3, <1>4, <1>5 DEF Good, InStep, Donating, Passing, Taking
<1>9. Heeded(a, c)
  BY <1>1, <1>2, <1>3, <1>4, <1>5 DEF Good, Heeded, Delivered, Donating, Passing, Taking
<1>10. Backed(a, c)
  BY <1>1, <1>2, <1>3, <1>4, <1>5 DEF Good, Backed, Donating, Passing, Taking
<1>11. \A t \in o.staged \ c.staged : t \in killed \/ \E p \in up : t \in map[p]
  BY <1>1, <1>2, <1>3, <1>4, <1>5
<1> QED  BY <1>1, <1>2, <1>3, <1>4, <1>5, <1>6, <1>7, <1>8, <1>9, <1>10, <1>11, GoesKeeps DEF Good, From, Donating

LEMMA SendsDoneKeeps ==
  ASSUME HandoffInv, NEW a \in Procs, SendsDone(a) PROVE HandoffInv'
<1> DEFINE o == conn[a]
           c == [conn[a] EXCEPT !.toA = Append(@, "Done"), !.d = "ready"]
<1>1. Goes(a, c) /\ o.d = "send" /\ o.a # "idle"
  BY DEF SendsDone, AdopterOpen
<1>2. Active(a) /\ o \in ConnType /\ Good(a, o) /\ NeverLost
  BY <1>1, AtWork DEF Active, Taking, HandoffInv
<1>3. /\ Append(o.toA, "Done") \in Seq(Messages) /\ Append(o.toA, "Done") # <<>>
      /\ Len(Append(o.toA, "Done")) = Len(o.toA) + 1
      /\ \A m : InQ(m, Append(o.toA, "Done")) => InQ(m, o.toA) \/ m = "Done"
  BY <1>1, <1>2, AppendProperties DEF ConnType, Messages, Words
<1>4. \A s \in Sessions : s \notin {"Offer", "Done", "Commit", "Refuse", "Ready", "Took", "Hello"}
  BY DEF Words
<1>5. /\ c \in ConnType
      /\ c.toA = Append(o.toA, "Done") /\ c.d = "ready"
      /\ c.from = o.from /\ c.a = o.a /\ c.toD = o.toD /\ c.shut = o.shut
      /\ c.reset = o.reset /\ c.offered = o.offered /\ c.passing = o.passing /\ c.staged = o.staged
  BY <1>1, <1>2, <1>3, <1>4 DEF ConnType, DonorSteps, AdopterSteps, Messages, Words, Donating, Taking
<1> HIDE DEF c
<1>6. Ends(a, c)
  BY <1>1, <1>2, <1>3, <1>4, <1>5 DEF Good, Ends, Donating, Passing, Taking
<1>7. Came(c)
  BY <1>1, <1>2, <1>3, <1>4, <1>5 DEF Good, Came, Donating, Passing, Taking
<1>8. InStep(c)
  BY <1>1, <1>2, <1>3, <1>4, <1>5 DEF Good, InStep, Donating, Passing, Taking
<1>9. Heeded(a, c)
  BY <1>1, <1>2, <1>3, <1>4, <1>5 DEF Good, Heeded, Delivered, Donating, Passing, Taking
<1>10. Backed(a, c)
  BY <1>1, <1>2, <1>3, <1>4, <1>5 DEF Good, Backed, Donating, Passing, Taking
<1>11. \A s \in o.staged \ c.staged : s \in killed \/ \E p \in up : s \in map[p]
  BY <1>1, <1>2, <1>3, <1>4, <1>5
<1> QED  BY <1>1, <1>2, <1>3, <1>4, <1>5, <1>6, <1>7, <1>8, <1>9, <1>10, <1>11, GoesKeeps DEF Good, From, Donating

LEMMA HearsReadyKeeps ==
  ASSUME HandoffInv, NEW a \in Procs, HearsReady(a) PROVE HandoffInv'
<1> DEFINE o == conn[a]
           c == [conn[a] EXCEPT !.toD = Tail(@), !.d = "commit"]
<1>1. Goes(a, c) /\ o.d = "ready" /\ o.toD # <<>>
  BY DEF HearsReady
<1>2. Active(a) /\ o \in ConnType /\ Good(a, o) /\ NeverLost
  BY <1>1, AtWork DEF Active, Taking, HandoffInv
<1>3. /\ Tail(o.toD) \in Seq(Messages) /\ (Len(o.toD) = 1 => Tail(o.toD) = <<>>)
      /\ Len(Tail(o.toD)) = Len(o.toD) - 1 /\ InQ(Head(o.toD), o.toD)
      /\ \A m : InQ(m, Tail(o.toD)) => InQ(m, o.toD)
  BY <1>1, <1>2, TailProperties DEF ConnType
<1>4. /\ c \in ConnType
      /\ c.toD = Tail(o.toD) /\ c.d = "commit"
      /\ c.from = o.from /\ c.a = o.a /\ c.toA = o.toA /\ c.shut = o.shut
      /\ c.reset = o.reset /\ c.offered = o.offered /\ c.passing = o.passing /\ c.staged = o.staged
  BY <1>1, <1>2, <1>3 DEF ConnType, DonorSteps, AdopterSteps, Messages, Words, Donating, Taking
<1> HIDE DEF c
<1>5. Ends(a, c)
  BY <1>1, <1>2, <1>3, <1>4 DEF Good, Ends, Donating, Passing, Taking
<1>6. Came(c)
  BY <1>1, <1>2, <1>3, <1>4 DEF Good, Came, Donating, Passing, Taking
<1>7. InStep(c)
  BY <1>1, <1>2, <1>3, <1>4 DEF Good, InStep, Donating, Passing, Taking
<1>8. Heeded(a, c)
  BY <1>1, <1>2, <1>3, <1>4 DEF Good, Heeded, Delivered, Donating, Passing, Taking
<1>9. Backed(a, c)
  BY <1>1, <1>2, <1>3, <1>4 DEF Good, Backed, Donating, Passing, Taking
<1>10. \A s \in o.staged \ c.staged : s \in killed \/ \E p \in up : s \in map[p]
  BY <1>1, <1>2, <1>3, <1>4
<1> QED  BY <1>1, <1>2, <1>3, <1>4, <1>5, <1>6, <1>7, <1>8, <1>9, <1>10, GoesKeeps DEF Good, From, Donating

LEMMA CommitsKeeps ==
  ASSUME HandoffInv, NEW a \in Procs, Commits(a) PROVE HandoffInv'
<1> DEFINE o == conn[a]
           c == [conn[a] EXCEPT !.toA = Append(@, "Commit"), !.d = "took"]
<1>1. Goes(a, c) /\ o.d = "commit" /\ o.a # "idle"
  BY DEF Commits, AdopterOpen
<1>2. Active(a) /\ o \in ConnType /\ Good(a, o) /\ NeverLost
  BY <1>1, AtWork DEF Active, Taking, HandoffInv
<1>3. /\ Append(o.toA, "Commit") \in Seq(Messages) /\ Append(o.toA, "Commit") # <<>>
      /\ Len(Append(o.toA, "Commit")) = Len(o.toA) + 1
      /\ \A m : InQ(m, Append(o.toA, "Commit")) => InQ(m, o.toA) \/ m = "Commit"
  BY <1>1, <1>2, AppendProperties DEF ConnType, Messages, Words
<1>4. \A s \in Sessions : s \notin {"Offer", "Done", "Commit", "Refuse", "Ready", "Took", "Hello"}
  BY DEF Words
<1>5. /\ c \in ConnType
      /\ c.toA = Append(o.toA, "Commit") /\ c.d = "took"
      /\ c.from = o.from /\ c.a = o.a /\ c.toD = o.toD /\ c.shut = o.shut
      /\ c.reset = o.reset /\ c.offered = o.offered /\ c.passing = o.passing /\ c.staged = o.staged
  BY <1>1, <1>2, <1>3, <1>4 DEF ConnType, DonorSteps, AdopterSteps, Messages, Words, Donating, Taking
<1> HIDE DEF c
<1>6. Ends(a, c)
  BY <1>1, <1>2, <1>3, <1>4, <1>5 DEF Good, Ends, Donating, Passing, Taking
<1>7. Came(c)
  BY <1>1, <1>2, <1>3, <1>4, <1>5 DEF Good, Came, Donating, Passing, Taking
<1>8. InStep(c)
  BY <1>1, <1>2, <1>3, <1>4, <1>5 DEF Good, InStep, Donating, Passing, Taking
<1>9. Heeded(a, c)
  BY <1>1, <1>2, <1>3, <1>4, <1>5 DEF Good, Heeded, Delivered, Donating, Passing, Taking
<1>10. Backed(a, c)
  BY <1>1, <1>2, <1>3, <1>4, <1>5 DEF Good, Backed, Donating, Passing, Taking
<1>11. \A s \in o.staged \ c.staged : s \in killed \/ \E p \in up : s \in map[p]
  BY <1>1, <1>2, <1>3, <1>4, <1>5
<1>12. Good(a, c)
  BY <1>6, <1>7, <1>8, <1>9, <1>10 DEF Good
<1>13. c.from = From(a) /\ (conn[a].d \in Donating => c.d \in Donating)
      /\ (c.staged = {} \/ c.a # "idle" \/ c.d # "closed")
      /\ ~(conn[a].a = "idle" /\ conn[a].d = "took")
  BY <1>1, <1>2, <1>5 DEF From, Donating
<1> QED  BY <1>1, <1>2, <1>5, <1>11, <1>12, <1>13, GoesKeeps

LEMMA RefusesKeeps ==
  ASSUME HandoffInv, NEW a \in Procs, Refuses(a) PROVE HandoffInv'
<1> DEFINE o == conn[a]
           c == [conn[a] EXCEPT !.d = "refuse", !.toD = Tail(@)]
<1>1. Goes(a, c) /\ o.d = "asked"
  BY DEF Refuses
<1>2. Active(a) /\ o \in ConnType /\ Good(a, o) /\ NeverLost
  BY <1>1, AtWork DEF Active, Taking, HandoffInv
<1>3. Len(o.toD) = 1 /\ o.toD # <<>>
  <2>1. Heeded(a, o)
    BY <1>2 DEF Good
  <2>2. Len(o.toD) = 1
    BY <1>1, <2>1 DEF Heeded
  <2>3. Len(<<>>) # 1
    BY EmptyQueue
  <2> QED  BY <2>2, <2>3, Zenon
<1>4. /\ Tail(o.toD) \in Seq(Messages) /\ (Len(o.toD) = 1 => Tail(o.toD) = <<>>)
      /\ Len(Tail(o.toD)) = Len(o.toD) - 1 /\ InQ(Head(o.toD), o.toD)
      /\ \A m : InQ(m, Tail(o.toD)) => InQ(m, o.toD)
  BY <1>1, <1>2, <1>3, TailProperties DEF ConnType
<1>5. /\ c \in ConnType
      /\ c.d = "refuse" /\ c.toD = Tail(o.toD)
      /\ c.from = o.from /\ c.a = o.a /\ c.toA = o.toA /\ c.shut = o.shut
      /\ c.reset = o.reset /\ c.offered = o.offered /\ c.passing = o.passing /\ c.staged = o.staged
  BY <1>1, <1>2, <1>3, <1>4 DEF ConnType, DonorSteps, AdopterSteps, Messages, Words, Donating, Taking
<1> HIDE DEF c
<1>6. Ends(a, c)
  BY <1>1, <1>2, <1>3, <1>4, <1>5 DEF Good, Ends, Donating, Passing, Taking
<1>7. Came(c)
  BY <1>1, <1>2, <1>3, <1>4, <1>5 DEF Good, Came, Donating, Passing, Taking
<1>8. InStep(c)
  BY <1>1, <1>2, <1>3, <1>4, <1>5 DEF Good, InStep, Donating, Passing, Taking
<1>9. Heeded(a, c)
  BY <1>1, <1>2, <1>3, <1>4, <1>5 DEF Good, Heeded, Delivered, Donating, Passing, Taking
<1>10. Backed(a, c)
  BY <1>1, <1>2, <1>3, <1>4, <1>5 DEF Good, Backed, Donating, Passing, Taking
<1>11. \A s \in o.staged \ c.staged : s \in killed \/ \E p \in up : s \in map[p]
  BY <1>1, <1>2, <1>3, <1>4, <1>5
<1> QED  BY <1>1, <1>2, <1>3, <1>4, <1>5, <1>6, <1>7, <1>8, <1>9, <1>10, <1>11, GoesKeeps DEF Good, From, Donating

LEMMA HearsOfferKeeps ==
  ASSUME HandoffInv, NEW a \in Procs, HearsOffer(a), a \in up PROVE HandoffInv'
<1> DEFINE o == conn[a]
           c == [conn[a] EXCEPT !.toA = Tail(@), !.a = "stage"]
<1>1. Goes(a, c) /\ o.a = "offer" /\ o.toA # <<>>
  BY DEF HearsOffer, Heard
<1>2. Active(a) /\ o \in ConnType /\ Good(a, o) /\ NeverLost
  BY <1>1, AtWork DEF Active, Taking, HandoffInv
<1>3. /\ Tail(o.toA) \in Seq(Messages) /\ (Len(o.toA) = 1 => Tail(o.toA) = <<>>)
      /\ Len(Tail(o.toA)) = Len(o.toA) - 1 /\ InQ(Head(o.toA), o.toA)
      /\ \A m : InQ(m, Tail(o.toA)) => InQ(m, o.toA)
  BY <1>1, <1>2, TailProperties DEF ConnType
<1>4. \A s \in Sessions : s \notin {"Offer", "Done", "Commit", "Refuse", "Ready", "Took", "Hello"}
  BY DEF Words
<1>5. /\ c \in ConnType
      /\ c.toA = Tail(o.toA) /\ c.a = "stage"
      /\ c.from = o.from /\ c.d = o.d /\ c.toD = o.toD /\ c.shut = o.shut
      /\ c.reset = o.reset /\ c.offered = o.offered /\ c.passing = o.passing /\ c.staged = o.staged
  BY <1>1, <1>2, <1>3, <1>4 DEF ConnType, DonorSteps, AdopterSteps, Messages, Words, Donating, Taking
<1> HIDE DEF c
<1>6. Ends(a, c)
  BY <1>1, <1>2, <1>3, <1>4, <1>5 DEF Good, Ends, Donating, Passing, Taking
<1>7. Came(c)
  BY <1>1, <1>2, <1>3, <1>4, <1>5 DEF Good, Came, Donating, Passing, Taking
<1>8. InStep(c)
  BY <1>1, <1>2, <1>3, <1>4, <1>5 DEF Good, InStep, Donating, Passing, Taking
<1>9. Heeded(a, c)
  BY <1>1, <1>2, <1>3, <1>4, <1>5 DEF Good, Heeded, Delivered, Donating, Passing, Taking
<1>10. Backed(a, c)
  BY <1>1, <1>2, <1>3, <1>4, <1>5 DEF Good, Backed, Donating, Passing, Taking
<1>11. \A s \in o.staged \ c.staged : s \in killed \/ \E p \in up : s \in map[p]
  BY <1>1, <1>2, <1>3, <1>4, <1>5
<1> QED  BY <1>1, <1>2, <1>3, <1>4, <1>5, <1>6, <1>7, <1>8, <1>9, <1>10, <1>11, GoesKeeps DEF Good, From, Donating

LEMMA StagesKeeps ==
  ASSUME HandoffInv, NEW a \in Procs, NEW s \in Sessions, Stages(a, s), a \in up PROVE HandoffInv'
<1> DEFINE o == conn[a]
           c == [conn[a] EXCEPT !.toA = Tail(@), !.staged = @ \cup {s}]
<1>1. Goes(a, c) /\ o.a = "stage" /\ o.toA # <<>> /\ Head(o.toA) = s
  BY DEF Stages, Heard
<1>2. Active(a) /\ o \in ConnType /\ Good(a, o) /\ NeverLost
  BY <1>1, AtWork DEF Active, Taking, HandoffInv
<1>3. /\ Tail(o.toA) \in Seq(Messages) /\ (Len(o.toA) = 1 => Tail(o.toA) = <<>>)
      /\ Len(Tail(o.toA)) = Len(o.toA) - 1 /\ InQ(Head(o.toA), o.toA)
      /\ \A m : InQ(m, Tail(o.toA)) => InQ(m, o.toA)
  BY <1>1, <1>2, TailProperties DEF ConnType
<1>4. \A t \in Sessions : t \notin {"Offer", "Done", "Commit", "Refuse", "Ready", "Took", "Hello"}
  BY DEF Words
<1>5. /\ c \in ConnType
      /\ c.toA = Tail(o.toA) /\ c.staged = o.staged \cup {s}
      /\ c.from = o.from /\ c.d = o.d /\ c.a = o.a /\ c.toD = o.toD
      /\ c.shut = o.shut /\ c.reset = o.reset /\ c.offered = o.offered /\ c.passing = o.passing
  BY <1>1, <1>2, <1>3, <1>4 DEF ConnType, DonorSteps, AdopterSteps, Messages, Words, Donating, Taking
<1> HIDE DEF c
<1>6. Ends(a, c)
  BY <1>1, <1>2, <1>3, <1>4, <1>5 DEF Good, Ends, Donating, Passing, Taking
<1>7. Came(c)
  BY <1>1, <1>2, <1>3, <1>4, <1>5 DEF Good, Came, Donating, Passing, Taking
<1>8. InStep(c)
  BY <1>1, <1>2, <1>3, <1>4, <1>5 DEF Good, InStep, Donating, Passing, Taking
<1>9. Heeded(a, c)
  BY <1>1, <1>2, <1>3, <1>4, <1>5 DEF Good, Heeded, Delivered, Donating, Passing, Taking
<1>10. Backed(a, c)
  BY <1>1, <1>2, <1>3, <1>4, <1>5 DEF Good, Backed, Donating, Passing, Taking
<1>11. \A t \in o.staged \ c.staged : t \in killed \/ \E p \in up : t \in map[p]
  BY <1>1, <1>2, <1>3, <1>4, <1>5
<1> QED  BY <1>1, <1>2, <1>3, <1>4, <1>5, <1>6, <1>7, <1>8, <1>9, <1>10, <1>11, GoesKeeps DEF Good, From, Donating

LEMMA HearsDoneKeeps ==
  ASSUME HandoffInv, NEW a \in Procs, HearsDone(a), a \in up PROVE HandoffInv'
<1> DEFINE o == conn[a]
           c == [conn[a] EXCEPT !.toA = Tail(@), !.a = "ready"]
<1>1. Goes(a, c) /\ o.a = "stage" /\ o.toA # <<>> /\ Head(o.toA) = "Done"
      /\ Cardinality(o.staged) = Cardinality(o.offered)
  BY DEF HearsDone, Heard
<1>2. Active(a) /\ o \in ConnType /\ Good(a, o) /\ NeverLost
  BY <1>1, AtWork DEF Active, Taking, HandoffInv
<1>3. /\ Tail(o.toA) \in Seq(Messages) /\ (Len(o.toA) = 1 => Tail(o.toA) = <<>>)
      /\ Len(Tail(o.toA)) = Len(o.toA) - 1 /\ InQ(Head(o.toA), o.toA)
      /\ \A m : InQ(m, Tail(o.toA)) => InQ(m, o.toA)
  BY <1>1, <1>2, TailProperties DEF ConnType
<1>4. \A s \in Sessions : s \notin {"Offer", "Done", "Commit", "Refuse", "Ready", "Took", "Hello"}
  BY DEF Words
<1>5. o.staged = o.offered
  BY <1>1, <1>2, FS_Subset DEF ConnType, Good, Came
<1>6. /\ c \in ConnType
      /\ c.toA = Tail(o.toA) /\ c.a = "ready"
      /\ c.from = o.from /\ c.d = o.d /\ c.toD = o.toD /\ c.shut = o.shut
      /\ c.reset = o.reset /\ c.offered = o.offered /\ c.passing = o.passing /\ c.staged = o.staged
  BY <1>1, <1>2, <1>3, <1>4, <1>5 DEF ConnType, DonorSteps, AdopterSteps, Messages, Words, Donating, Taking
<1> HIDE DEF c
<1>7. Ends(a, c)
  BY <1>1, <1>2, <1>3, <1>4, <1>5, <1>6 DEF Good, Ends, Donating, Passing, Taking
<1>8. Came(c)
  BY <1>1, <1>2, <1>3, <1>4, <1>5, <1>6 DEF Good, Came, Donating, Passing, Taking
<1>9. InStep(c)
  BY <1>1, <1>2, <1>3, <1>4, <1>5, <1>6 DEF Good, InStep, Donating, Passing, Taking
<1>10. Heeded(a, c)
  BY <1>1, <1>2, <1>3, <1>4, <1>5, <1>6 DEF Good, Heeded, Delivered, Donating, Passing, Taking
<1>11. Backed(a, c)
  BY <1>1, <1>2, <1>3, <1>4, <1>5, <1>6 DEF Good, Backed, Donating, Passing, Taking
<1>12. \A s \in o.staged \ c.staged : s \in killed \/ \E p \in up : s \in map[p]
  BY <1>1, <1>2, <1>3, <1>4, <1>5, <1>6
<1> QED  BY <1>1, <1>2, <1>3, <1>4, <1>5, <1>6, <1>7, <1>8, <1>9, <1>10, <1>11, <1>12, GoesKeeps DEF Good, From, Donating

LEMMA SendsReadyKeeps ==
  ASSUME HandoffInv, NEW a \in Procs, SendsReady(a), a \in up PROVE HandoffInv'
<1> DEFINE o == conn[a]
           c == [conn[a] EXCEPT !.toD = Append(@, "Ready"), !.a = "commit"]
<1>1. Goes(a, c) /\ o.a = "ready" /\ o.d # "closed"
  BY DEF SendsReady, DonorOpen
<1>2. Active(a) /\ o \in ConnType /\ Good(a, o) /\ NeverLost
  BY <1>1, AtWork DEF Active, Taking, HandoffInv
<1>3. /\ Append(o.toD, "Ready") \in Seq(Messages) /\ Append(o.toD, "Ready") # <<>>
      /\ Len(Append(o.toD, "Ready")) = Len(o.toD) + 1
      /\ \A m : InQ(m, Append(o.toD, "Ready")) => InQ(m, o.toD) \/ m = "Ready"
  BY <1>1, <1>2, AppendProperties DEF ConnType, Messages, Words
<1>4. Len(<<>>) = 0
  BY EmptyQueue
<1>5. o.d \in {"ready", "refuse", "close"} /\ (o.d = "ready" => o.toD = <<>>)
  BY <1>1, <1>2 DEF Good, InStep, Heeded, ConnType, DonorSteps, Donating
<1>6. /\ c \in ConnType
      /\ c.toD = Append(o.toD, "Ready") /\ c.a = "commit"
      /\ c.from = o.from /\ c.d = o.d /\ c.toA = o.toA /\ c.shut = o.shut
      /\ c.reset = o.reset /\ c.offered = o.offered /\ c.passing = o.passing /\ c.staged = o.staged
  BY <1>1, <1>2, <1>3, <1>4, <1>5 DEF ConnType, DonorSteps, AdopterSteps, Messages, Words, Donating, Taking
<1> HIDE DEF c
<1>7. Ends(a, c)
  BY <1>1, <1>2, <1>3, <1>4, <1>5, <1>6 DEF Good, Ends, Donating, Passing, Taking
<1>8. Came(c)
  BY <1>1, <1>2, <1>3, <1>4, <1>5, <1>6 DEF Good, Came, Donating, Passing, Taking
<1>9. InStep(c)
  BY <1>1, <1>2, <1>3, <1>4, <1>5, <1>6 DEF Good, InStep, Donating, Passing, Taking
<1>10. Heeded(a, c)
  BY <1>1, <1>2, <1>3, <1>4, <1>5, <1>6 DEF Good, Heeded, Delivered, Donating, Passing, Taking
<1>11. Backed(a, c)
  BY <1>1, <1>2, <1>3, <1>4, <1>5, <1>6 DEF Good, Backed, Donating, Passing, Taking
<1>12. \A s \in o.staged \ c.staged : s \in killed \/ \E p \in up : s \in map[p]
  BY <1>1, <1>2, <1>3, <1>4, <1>5, <1>6
<1> QED  BY <1>1, <1>2, <1>3, <1>4, <1>5, <1>6, <1>7, <1>8, <1>9, <1>10, <1>11, <1>12, GoesKeeps DEF Good, From, Donating

LEMMA HearsCommitKeeps ==
  ASSUME HandoffInv, NEW a \in Procs, HearsCommit(a), a \in up PROVE HandoffInv'
<1> DEFINE o == conn[a]
           c == [conn[a] EXCEPT !.toA = Tail(@), !.a = "took"]
<1>1. Goes(a, c) /\ o.a = "commit" /\ o.toA # <<>> /\ Head(o.toA) = "Commit"
  BY DEF HearsCommit, Heard
<1>2. Active(a) /\ o \in ConnType /\ Good(a, o) /\ NeverLost
  BY <1>1, AtWork DEF Active, Taking, HandoffInv
<1>3. /\ Tail(o.toA) \in Seq(Messages) /\ (Len(o.toA) = 1 => Tail(o.toA) = <<>>)
      /\ Len(Tail(o.toA)) = Len(o.toA) - 1 /\ InQ(Head(o.toA), o.toA)
      /\ \A m : InQ(m, Tail(o.toA)) => InQ(m, o.toA)
  BY <1>1, <1>2, TailProperties DEF ConnType
<1>4. \A s \in Sessions : s \notin {"Offer", "Done", "Commit", "Refuse", "Ready", "Took", "Hello"}
  BY DEF Words
<1>5. /\ c \in ConnType
      /\ c.toA = Tail(o.toA) /\ c.a = "took"
      /\ c.from = o.from /\ c.d = o.d /\ c.toD = o.toD /\ c.shut = o.shut
      /\ c.reset = o.reset /\ c.offered = o.offered /\ c.passing = o.passing /\ c.staged = o.staged
  BY <1>1, <1>2, <1>3, <1>4 DEF ConnType, DonorSteps, AdopterSteps, Messages, Words, Donating, Taking
<1> HIDE DEF c
<1>6. Ends(a, c)
  BY <1>1, <1>2, <1>3, <1>4, <1>5 DEF Good, Ends, Donating, Passing, Taking
<1>7. Came(c)
  BY <1>1, <1>2, <1>3, <1>4, <1>5 DEF Good, Came, Donating, Passing, Taking
<1>8. InStep(c)
  BY <1>1, <1>2, <1>3, <1>4, <1>5 DEF Good, InStep, Donating, Passing, Taking
<1>9. Heeded(a, c)
  BY <1>1, <1>2, <1>3, <1>4, <1>5 DEF Good, Heeded, Delivered, Donating, Passing, Taking
<1>10. Backed(a, c)
  BY <1>1, <1>2, <1>3, <1>4, <1>5 DEF Good, Backed, Donating, Passing, Taking
<1>11. \A s \in o.staged \ c.staged : s \in killed \/ \E p \in up : s \in map[p]
  BY <1>1, <1>2, <1>3, <1>4, <1>5
<1> QED  BY <1>1, <1>2, <1>3, <1>4, <1>5, <1>6, <1>7, <1>8, <1>9, <1>10, <1>11, GoesKeeps DEF Good, From, Donating

LEMMA SendsTookKeeps ==
  ASSUME HandoffInv, NEW a \in Procs, SendsTook(a), a \in up PROVE HandoffInv'
<1> DEFINE o == conn[a]
           c == [conn[a] EXCEPT !.toD = Append(@, "Took"), !.a = "start"]
<1>1. Goes(a, c) /\ o.a = "took" /\ o.d # "closed"
  BY DEF SendsTook, DonorOpen
<1>2. Active(a) /\ o \in ConnType /\ Good(a, o) /\ NeverLost
  BY <1>1, AtWork DEF Active, Taking, HandoffInv
<1>3. /\ Append(o.toD, "Took") \in Seq(Messages) /\ Append(o.toD, "Took") # <<>>
      /\ Len(Append(o.toD, "Took")) = Len(o.toD) + 1
      /\ \A m : InQ(m, Append(o.toD, "Took")) => InQ(m, o.toD) \/ m = "Took"
  BY <1>1, <1>2, AppendProperties DEF ConnType, Messages, Words
<1>4. Len(<<>>) = 0
  BY EmptyQueue
<1>5. o.d = "took" /\ o.toD = <<>>
  BY <1>1, <1>2 DEF Good, InStep, Heeded, Delivered
<1>6. /\ c \in ConnType
      /\ c.toD = Append(o.toD, "Took") /\ c.a = "start"
      /\ c.from = o.from /\ c.d = o.d /\ c.toA = o.toA /\ c.shut = o.shut
      /\ c.reset = o.reset /\ c.offered = o.offered /\ c.passing = o.passing /\ c.staged = o.staged
  BY <1>1, <1>2, <1>3, <1>4, <1>5 DEF ConnType, DonorSteps, AdopterSteps, Messages, Words, Donating, Taking
<1> HIDE DEF c
<1>7. Ends(a, c)
  BY <1>1, <1>2, <1>3, <1>4, <1>5, <1>6 DEF Good, Ends, Donating, Passing, Taking
<1>8. Came(c)
  BY <1>1, <1>2, <1>3, <1>4, <1>5, <1>6 DEF Good, Came, Donating, Passing, Taking
<1>9. InStep(c)
  BY <1>1, <1>2, <1>3, <1>4, <1>5, <1>6 DEF Good, InStep, Donating, Passing, Taking
<1>10. Heeded(a, c)
  BY <1>1, <1>2, <1>3, <1>4, <1>5, <1>6 DEF Good, Heeded, Delivered, Donating, Passing, Taking
<1>11. Backed(a, c)
  BY <1>1, <1>2, <1>3, <1>4, <1>5, <1>6 DEF Good, Backed, Donating, Passing, Taking
<1>12. \A s \in o.staged \ c.staged : s \in killed \/ \E p \in up : s \in map[p]
  BY <1>1, <1>2, <1>3, <1>4, <1>5, <1>6
<1> QED  BY <1>1, <1>2, <1>3, <1>4, <1>5, <1>6, <1>7, <1>8, <1>9, <1>10, <1>11, <1>12, GoesKeeps DEF Good, From, Donating

LEMMA HearsDonorGoneKeeps ==
  ASSUME HandoffInv, NEW a \in Procs, HearsDonorGone(a), a \in up PROVE HandoffInv'
<1> DEFINE o == conn[a]
           c == [conn[a] EXCEPT !.a = "start"]
<1>1. Goes(a, c) /\ o.a = "commit" /\ o.d = "closed" /\ o.from \notin up
  BY DEF HearsDonorGone, DonorGone, HeardDonorEnd, DonorOpen, From
<1>2. Active(a) /\ o \in ConnType /\ Good(a, o) /\ NeverLost
  BY <1>1, AtWork DEF Active, Taking, HandoffInv
<1>3. /\ c \in ConnType
      /\ c.a = "start"
      /\ c.from = o.from /\ c.d = o.d /\ c.toA = o.toA /\ c.toD = o.toD
      /\ c.shut = o.shut /\ c.reset = o.reset /\ c.offered = o.offered /\ c.passing = o.passing /\ c.staged = o.staged
  BY <1>1, <1>2 DEF ConnType, DonorSteps, AdopterSteps, Messages, Words, Donating, Taking
<1> HIDE DEF c
<1>4. Ends(a, c)
  BY <1>1, <1>2, <1>3 DEF Good, Ends, Donating, Passing, Taking
<1>5. Came(c)
  BY <1>1, <1>2, <1>3 DEF Good, Came, Donating, Passing, Taking
<1>6. InStep(c)
  BY <1>1, <1>2, <1>3 DEF Good, InStep, Donating, Passing, Taking
<1>7. Heeded(a, c)
  BY <1>1, <1>2, <1>3 DEF Good, Heeded, Delivered, Donating, Passing, Taking
<1>8. Backed(a, c)
  BY <1>1, <1>2, <1>3 DEF Good, Backed, Donating, Passing, Taking
<1>9. \A s \in o.staged \ c.staged : s \in killed \/ \E p \in up : s \in map[p]
  BY <1>1, <1>2, <1>3
<1> QED  BY <1>1, <1>2, <1>3, <1>4, <1>5, <1>6, <1>7, <1>8, <1>9, GoesKeeps DEF Good, From, Donating

LEMMA FailsKeeps ==
  ASSUME HandoffInv, NEW a \in Procs, Fails(a), a \in up PROVE HandoffInv'
<1> DEFINE o == conn[a]
           c == [conn[a] EXCEPT !.a = "drain", !.staged = {}, !.shut = TRUE]
<1>1. Goes(a, c) /\ o.a \in Taking
  BY DEF Fails, TakeFails, Taking
<1>2. Active(a) /\ o \in ConnType /\ Good(a, o) /\ NeverLost
  BY <1>1, AtWork DEF Active, Taking, HandoffInv
<1>3. /\ c \in ConnType
      /\ c.a = "drain" /\ c.staged = {} /\ c.shut = TRUE
      /\ c.from = o.from /\ c.d = o.d /\ c.toA = o.toA /\ c.toD = o.toD
      /\ c.reset = o.reset /\ c.offered = o.offered /\ c.passing = o.passing
  BY <1>1, <1>2 DEF ConnType, DonorSteps, AdopterSteps, Messages, Words, Donating, Taking
<1> HIDE DEF c
<1>4. Ends(a, c)
  BY <1>1, <1>2, <1>3 DEF Good, Ends, Donating, Passing, Taking
<1>5. Came(c)
  BY <1>1, <1>2, <1>3 DEF Good, Came, Donating, Passing, Taking
<1>6. InStep(c)
  BY <1>1, <1>2, <1>3 DEF Good, InStep, Donating, Passing, Taking
<1>7. Heeded(a, c)
  BY <1>1, <1>2, <1>3 DEF Good, Heeded, Delivered, Donating, Passing, Taking
<1>8. Backed(a, c)
  BY <1>1, <1>2, <1>3 DEF Good, Backed, Donating, Passing, Taking
<1>9. \A s \in o.staged \ c.staged : s \in killed \/ \E p \in up : s \in map[p]
  BY <1>1, <1>2, <1>3 DEF Good, Came, Backed
<1> QED  BY <1>1, <1>2, <1>3, <1>4, <1>5, <1>6, <1>7, <1>8, <1>9, GoesKeeps DEF Good, From, Donating, Taking

LEMMA HangsUpKeeps ==
  ASSUME HandoffInv, NEW a \in Procs, HangsUp(a) PROVE HandoffInv'
<1> DEFINE o == conn[a]
           q == IF o.d = "refuse" /\ AdopterOpen(a) THEN Append(o.toA, "Refuse") ELSE o.toA
           c == [conn[a] EXCEPT !.d = "closed", !.toA = q]
<1>1. Goes(a, c) /\ o.d \in {"refuse", "close"}
  BY DEF HangsUp
<1>2. Active(a) /\ o \in ConnType /\ Good(a, o)
  BY <1>1, AtWork DEF Active
<1>3. q \in Seq(Messages) /\ \A m : InQ(m, q) => InQ(m, o.toA) \/ m = "Refuse"
  BY <1>2, AppendProperties DEF ConnType, Messages, Words
<1>4. \A s \in Sessions : s # "Refuse"
  BY DEF Words
<1> HIDE DEF q
<1>5. /\ c \in ConnType
      /\ c.d = "closed" /\ c.toA = q
      /\ c.from = o.from /\ c.a = o.a /\ c.toD = o.toD /\ c.shut = o.shut
      /\ c.reset = o.reset /\ c.offered = o.offered /\ c.passing = o.passing /\ c.staged = o.staged
  BY <1>2, <1>3 DEF ConnType, DonorSteps
<1> HIDE DEF c
<1> USE <1>1, <1>2, <1>3, <1>4, <1>5
<1>6. Ends(a, c)
  BY DEF Good, Ends, Donating
<1>7. Came(c)
  BY DEF Good, Came
<1>8. InStep(c)
  BY DEF Good, Ends, InStep, Taking
<1>9. Heeded(a, c)
  BY DEF Good, Heeded
<1>10. Backed(a, c)
  BY DEF Good, Backed, Heeded, Donating, Passing
<1>11. c.a = "idle" => c.staged = {}
  BY <1>7 DEF Came
<1> QED  BY <1>6, <1>7, <1>8, <1>9, <1>10, <1>11, GoesKeeps DEF Good, From, Donating

(***************************************************************************)
(* The steps that change who holds what.  While one connection is at work  *)
(* the rest of the state is as it was.                                     *)
(***************************************************************************)
LEMMA SoloKeeps ==
  ASSUME HandoffInv, NEW a \in Procs, \A b \in Procs \ {a} : ~Active(b) /\ conn'[b] = conn[b],
         Typed', HandedEmpty', Shared', FrozenByDonor', NeverLost',
         Active(a)' => Good(a, conn[a])',
         ~Active(a)' => conn'[a].staged = {} /\ conn'[a].passing \subseteq conn'[a].offered
  PROVE  HandoffInv'
<1>1. \A b \in Procs \ {a} : ~Active(b)'
  BY DEF Active
<1>2. Alone'
  BY <1>1 DEF Alone
<1>3. ASSUME NEW b \in Procs, b # a PROVE ConnInv(b)'
  <2>1. ~Active(b) /\ ConnInv(b) /\ conn'[b] = conn[b]
    BY <1>3 DEF HandoffInv
  <2> QED  BY <1>1, <1>3, <2>1 DEF ConnInv
<1>4. ConnInv(a)'
  BY DEF ConnInv
<1> QED  BY <1>2, <1>3, <1>4 DEF HandoffInv

LEMMA OthersQuiet ==
  ASSUME HandoffInv, NEW a \in Procs, Active(a)
  PROVE  \A b \in Procs \ {a} : ~Active(b) /\ conn[b].d = "closed"
BY DEF HandoffInv, Alone, Active

LEMMA Disjoint ==
  ASSUME HandoffInv, NEW a \in Procs, \A b \in Procs \ {a} : ~Active(b),
         ~(conn[a].a = "idle" /\ conn[a].d = "took" /\ conn[a].toD # <<>>)
  PROVE  \A p, q \in up : p # q => map[p] \cap map[q] = {}
<1> SUFFICES ASSUME NEW p \in up, NEW q \in up, p # q, NEW s \in map[p] \cap map[q] PROVE FALSE
  OBVIOUS
<1>1. p \in Procs /\ q \in Procs /\ (Twice(p, q, s) \/ Twice(q, p, s))
  BY DEF HandoffInv, Shared, Typed
<1> QED  BY <1>1 DEF Twice, Active

LEMMA CallOffKeeps ==
  ASSUME HandoffInv, NEW a \in Procs, NEW then, CallOff(a, then),
         \/ then = "refuse" /\ conn[a].d \in {"freeze", "send", "ready", "commit"}
         \/ then = "close" /\ conn[a].d = "took" /\ conn[a].toD = <<>> /\ conn[a].shut
  PROVE  HandoffInv'
<1> DEFINE o == conn[a]
           c == [conn[a] EXCEPT !.d = then, !.passing = {}]
           p == From(a)
<1>1. Active(a) /\ o \in ConnType /\ Good(a, o) /\ Typed /\ FrozenByDonor
  BY AtWork DEF Active, HandoffInv
<1>2. /\ \A b \in Procs \ {a} : ~Active(b) /\ conn[b].d = "closed"
      /\ \A q, r \in up : q # r => map[q] \cap map[r] = {}
  BY <1>1, OthersQuiet, Disjoint
<1>3. /\ frozen' = [frozen EXCEPT ![p] = {}] /\ handing' = handing \ {p}
      /\ conn' = [conn EXCEPT ![a] = c]
      /\ UNCHANGED <<up, map, handed, adopts, told, born, killed>>
  BY <1>1 DEF CallOff, Typed
<1>4. /\ c \in ConnType /\ c.d = then /\ c.passing = {} /\ c.from = o.from /\ c.a = o.a
      /\ c.toA = o.toA /\ c.toD = o.toD /\ c.shut = o.shut /\ c.offered = o.offered /\ c.staged = o.staged
  BY <1>1 DEF ConnType, DonorSteps
<1> HIDE DEF c
<1>5. /\ conn'[a] = c /\ \A b \in Procs \ {a} : conn'[b] = conn[b]
      /\ frozen'[p] = {} /\ \A q \in Procs : q # p => frozen'[q] = frozen[q]
  BY <1>1, <1>3 DEF Typed, Good, Ends, From
<1>6. Typed'
  BY <1>1, <1>3, <1>4, <1>5 DEF Typed
<1>7. Shared' /\ HandedEmpty'
  BY <1>2, <1>3 DEF HandoffInv, Shared, HandedEmpty
<1>8. FrozenByDonor'
  <2> SUFFICES ASSUME NEW q \in Procs, q # p, frozen[q] # {}
               PROVE  FALSE
    BY <1>5 DEF FrozenByDonor
  <2>1. PICK b \in Procs : From(b) = q /\ conn[b].d \in Donating
    BY <1>1 DEF FrozenByDonor
  <2> QED  BY <1>2, <2>1 DEF Donating
<1>9. NeverLost'
  <2>1. \A b \in Procs : conn'[b].staged = conn[b].staged
    BY <1>4, <1>5
  <2> QED  BY <1>1, <1>3, <2>1 DEF HandoffInv, NeverLost, Typed
<1>10. Good(a, conn[a])'
  <2>1. Ends(a, conn[a])'
    BY <1>1, <1>3, <1>4, <1>5 DEF Good, Ends, Donating
  <2>2. Came(conn[a])'
    BY <1>1, <1>3, <1>4, <1>5 DEF Good, Came
  <2>3. InStep(conn[a])'
    BY <1>1, <1>3, <1>4, <1>5 DEF Good, Ends, InStep, Taking
  <2>4. Heeded(a, conn[a])'
    BY <1>1, <1>3, <1>4, <1>5 DEF Good, Ends, Heeded
  <2>5. Backed(a, conn[a])'
    BY <1>1, <1>3, <1>4, <1>5 DEF Good, Ends, Heeded, Backed, Donating, Passing
  <2> QED  BY <2>1, <2>2, <2>3, <2>4, <2>5 DEF Good
<1>12. Active(a)'
  BY <1>4, <1>5 DEF Active
<1> QED  BY <1>2, <1>5, <1>6, <1>7, <1>8, <1>9, <1>10, <1>12, SoloKeeps

LEMMA CalledOffKeeps ==
  ASSUME HandoffInv, NEW a \in Procs, FreezeFails(a) \/ OfferFails(a) \/ HearsNoTook(a)
  PROVE  HandoffInv'
BY CallOffKeeps DEF FreezeFails, OfferFails, HearsNoTook, HeardEnd

LEMMA ListsKeeps ==
  ASSUME HandoffInv, NEW a \in Procs, From(a) \in up, Lists(a) PROVE HandoffInv'
<1> DEFINE o == conn[a]
           p == From(a)
           c == [conn[a] EXCEPT !.d = "freeze", !.toD = Tail(conn[a].toD), !.offered = map[From(a)]]
<1>1. o.d = "asked"
  BY DEF Lists
<1>2. Active(a) /\ o \in ConnType /\ Good(a, o) /\ Typed
  BY <1>1, AtWork DEF Active, HandoffInv
<1>3. /\ \A b \in Procs \ {a} : ~Active(b) /\ conn[b].d = "closed"
      /\ \A q, r \in up : q # r => map[q] \cap map[r] = {}
  BY <1>1, <1>2, OthersQuiet, Disjoint
<1>4. /\ handing' = handing \cup {p} /\ conn' = [conn EXCEPT ![a] = c]
      /\ UNCHANGED <<up, map, frozen, handed, adopts, told, born, killed>>
  BY DEF Lists
<1>5. Tail(o.toD) = <<>> /\ Tail(o.toD) \in Seq(Messages)
  <2>1. o.toD # <<>> /\ Len(o.toD) = 1
    BY <1>1, <1>2, EmptyQueue DEF Good, Heeded
  <2> QED  BY <1>2, <2>1, TailProperties DEF ConnType
<1>6. p \in Procs \ {a} /\ map[p] \subseteq born /\ frozen[p] \subseteq map[p] /\ born \subseteq Sessions
  BY <1>2 DEF Good, Ends, From, Typed
<1>7. /\ c \in ConnType /\ c.d = "freeze" /\ c.toD = <<>> /\ c.offered = map[p] /\ c.passing = o.passing
      /\ c.from = p /\ c.a = o.a /\ c.toA = o.toA /\ c.shut = o.shut /\ c.staged = o.staged
  BY <1>2, <1>5, <1>6 DEF ConnType, DonorSteps, Donating, From
<1> HIDE DEF c
<1>8. conn'[a] = c /\ \A b \in Procs \ {a} : conn'[b] = conn[b]
  BY <1>2, <1>4 DEF Typed
<1>9. Typed'
  BY <1>2, <1>4, <1>6, <1>7 DEF Typed
<1>10. HandedEmpty' /\ Shared'
  BY <1>3, <1>4 DEF HandoffInv, HandedEmpty, Shared
<1>11. FrozenByDonor'
  <2>1. \A q \in Procs : frozen[q] = {}
    BY <1>1, <1>3 DEF HandoffInv, FrozenByDonor, Donating
  <2> QED  BY <1>4, <2>1 DEF FrozenByDonor
<1>12. NeverLost'
  <2>1. \A b \in Procs : conn'[b].staged = conn[b].staged
    BY <1>7, <1>8
  <2> QED  BY <1>2, <1>4, <2>1 DEF HandoffInv, NeverLost, Typed
<1>13. Good(a, conn[a])'
  <2>1. Ends(a, conn[a])'
    BY <1>1, <1>2, <1>4, <1>6, <1>7, <1>8 DEF Good, Ends, Donating, From
  <2>2. Came(conn[a])'
    BY <1>1, <1>2, <1>4, <1>6, <1>7, <1>8, EmptyQueue DEF Good, Came, InStep
  <2>3. InStep(conn[a])'
    BY <1>1, <1>2, <1>4, <1>7, <1>8, EmptyQueue DEF Good, InStep, Taking
  <2>4. Heeded(a, conn[a])'
    BY <1>1, <1>2, <1>4, <1>7, <1>8 DEF Good, Heeded
  <2>5. \A q \in up, s \in map[p] : s \in map[q] => q = p
    BY <1>3
  <2>6. Backed(a, conn[a])'
    BY <1>1, <1>2, <1>4, <1>6, <1>7, <1>8, <2>5 DEF Good, Backed, InStep, Donating, Passing, Taking
  <2> QED  BY <2>1, <2>2, <2>3, <2>4, <2>6 DEF Good
<1>14. Active(a)'
  BY <1>7, <1>8 DEF Active
<1> QED  BY <1>3, <1>8, <1>9, <1>10, <1>11, <1>12, <1>13, <1>14, SoloKeeps

LEMMA FreezingKeeps ==
  ASSUME HandoffInv, NEW a \in Procs, From(a) \in up,
         FreezeRetries(a) \/ \E s \in Sessions : Freezes(a, s)
  PROVE  HandoffInv'
<1> DEFINE o == conn[a]
           p == From(a)
<1>1. /\ o.d = "freeze"
      /\ UNCHANGED <<up, map, handing, handed, conn, adopts, told, born, killed>>
  BY DEF FreezeRetries, Freezes
<1>2. Active(a) /\ o \in ConnType /\ Good(a, o) /\ Typed
  BY <1>1, AtWork DEF Active, HandoffInv
<1>3. /\ \A b \in Procs \ {a} : ~Active(b) /\ conn[b].d = "closed"
      /\ \A q, r \in up : q # r => map[q] \cap map[r] = {}
  BY <1>1, <1>2, OthersQuiet, Disjoint
<1>4. /\ p \in Procs /\ o.offered = map[p] /\ frozen[p] \subseteq o.offered
  BY <1>1, <1>2 DEF Good, Ends, Backed, Donating, From
<1>5. /\ frozen' \in [Procs -> SUBSET Sessions] /\ frozen'[p] \subseteq map[p]
      /\ \A q \in Procs : q # p => frozen'[q] = frozen[q]
  BY <1>2, <1>4 DEF FreezeRetries, Freezes, Typed
<1>6. Typed'
  BY <1>1, <1>2, <1>5 DEF Typed
<1>7. HandedEmpty' /\ Shared'
  BY <1>1, <1>3 DEF HandoffInv, HandedEmpty, Shared
<1>8. FrozenByDonor'
  <2>1. \A q \in Procs : q # p => frozen'[q] = {}
    BY <1>3, <1>5 DEF HandoffInv, FrozenByDonor, Donating, From
  <2>2. From(a)' = p /\ conn'[a].d \in Donating
    BY <1>1 DEF From, Donating
  <2> QED  BY <2>1, <2>2 DEF FrozenByDonor
<1>9. NeverLost'
  BY <1>1 DEF HandoffInv, NeverLost
<1>10. Good(a, conn[a])'
  <2>1. Ends(a, conn[a])' /\ Came(conn[a])' /\ InStep(conn[a])' /\ Heeded(a, conn[a])'
    BY <1>1, <1>2 DEF Good, Ends, Came, InStep, Heeded, Delivered
  <2>2. Backed(a, conn[a])'
    BY <1>1, <1>2, <1>4, <1>5 DEF Good, Backed, Donating, Passing, Taking, From
  <2> QED  BY <2>1, <2>2 DEF Good
<1>11. Active(a)'
  BY <1>1, <1>2 DEF Active
<1> QED  BY <1>1, <1>3, <1>6, <1>7, <1>8, <1>9, <1>10, <1>11, SoloKeeps

LEMMA HearsTookKeeps ==
  ASSUME HandoffInv, NEW a \in Procs, From(a) \in up, HearsTook(a) PROVE HandoffInv'
<1> DEFINE o == conn[a]
           p == From(a)
           c == [conn[a] EXCEPT !.d = "closed", !.toD = Tail(conn[a].toD)]
<1>1. o.d = "took" /\ o.toD # <<>>
  BY DEF HearsTook
<1>2. Active(a) /\ o \in ConnType /\ Good(a, o) /\ Typed
  BY <1>1, AtWork DEF Active, HandoffInv
<1>3. \A b \in Procs \ {a} : ~Active(b) /\ conn[b].d = "closed"
  BY <1>2, OthersQuiet
<1>4. /\ p \in Procs \ {a} /\ o.offered = map[p] /\ frozen[p] = o.offered /\ Delivered(a, o)
      /\ p \in handing /\ o.a \in {"start", "idle"}
      /\ o.a = "start" => a \in up /\ o.staged = o.offered
      /\ o.a = "idle" => o.staged = {}
  BY <1>1, <1>2 DEF Good, Ends, Came, Heeded, Backed, Delivered, Donating, Passing, From
<1>5. /\ map' = [map EXCEPT ![p] = @ \ o.offered] /\ frozen' = [frozen EXCEPT ![p] = @ \ o.offered]
      /\ handed' = handed \cup {p} /\ handing' = handing \ {p}
      /\ conn' = [conn EXCEPT ![a] = c]
      /\ UNCHANGED <<up, adopts, told, born, killed>>
  BY DEF HearsTook, Leaves
<1>6. /\ map'[p] = {} /\ frozen'[p] = {}
      /\ \A q \in Procs : q # p => map'[q] = map[q] /\ frozen'[q] = frozen[q]
      /\ map' \in [Procs -> SUBSET Sessions] /\ frozen' \in [Procs -> SUBSET Sessions]
  BY <1>2, <1>4, <1>5 DEF Typed
<1>7. Tail(o.toD) \in Seq(Messages)
  BY <1>1, <1>2, TailProperties DEF ConnType
<1>8. /\ c \in ConnType /\ c.d = "closed" /\ c.offered = o.offered /\ c.passing = o.passing
      /\ c.from = p /\ c.a = o.a /\ c.toA = o.toA /\ c.shut = o.shut /\ c.staged = o.staged
  BY <1>2, <1>7 DEF ConnType, DonorSteps, From
<1> HIDE DEF c
<1>9. conn'[a] = c /\ \A b \in Procs \ {a} : conn'[b] = conn[b]
  BY <1>2, <1>5 DEF Typed
<1>10. Typed'
  BY <1>2, <1>4, <1>5, <1>6, <1>8 DEF Typed
<1>11. HandedEmpty'
  BY <1>2, <1>4, <1>5, <1>6 DEF HandoffInv, HandedEmpty, Typed
<1>12. Shared'
  <2> SUFFICES ASSUME NEW q \in up, NEW r \in up, q # r, NEW s \in map'[q] \cap map'[r] PROVE FALSE
    BY <1>5 DEF Shared
  <2>1. q # p /\ r # p /\ q \in Procs /\ r \in Procs /\ s \in map[q] \cap map[r]
    BY <1>2, <1>6 DEF Typed
  <2>2. Twice(q, r, s) \/ Twice(r, q, s)
    BY <2>1 DEF HandoffInv, Shared
  <2> QED  BY <1>3, <2>1, <2>2 DEF Twice, From
<1>13. FrozenByDonor'
  <2>1. \A q \in Procs : frozen'[q] = {}
    BY <1>3, <1>6 DEF HandoffInv, FrozenByDonor, Donating, From
  <2> QED  BY <2>1 DEF FrozenByDonor
<1>14. NeverLost'
  <2> SUFFICES ASSUME NEW s \in born \ killed PROVE \E q \in up : s \in map'[q] \cup conn'[q].staged
    BY <1>5 DEF NeverLost
  <2>1. PICK q \in up : s \in map[q] \cup conn[q].staged
    BY DEF HandoffInv, NeverLost
  <2>2. \A b \in Procs : conn'[b].staged = conn[b].staged
    BY <1>8, <1>9
  <2>3. CASE s \in o.offered
    BY <1>4, <1>6, <2>2, <2>3 DEF Delivered
  <2>4. CASE s \notin o.offered
    BY <1>2, <1>4, <1>6, <2>1, <2>2, <2>4 DEF Typed
  <2> QED  BY <2>3, <2>4
<1>15. Good(a, conn[a])'
  <2>1. Ends(a, conn[a])'
    BY <1>1, <1>2, <1>4, <1>5, <1>8, <1>9 DEF Good, Ends, Donating, From
  <2>2. Came(conn[a])'
    BY <1>1, <1>2, <1>5, <1>8, <1>9 DEF Good, Came
  <2>3. InStep(conn[a])'
    BY <1>1, <1>2, <1>4, <1>5, <1>8, <1>9 DEF Good, InStep, Taking
  <2>4. Heeded(a, conn[a])'
    BY <1>1, <1>2, <1>4, <1>5, <1>8, <1>9 DEF Good, Heeded
  <2>5. \A q \in up : map'[q] \subseteq map[q]
    BY <1>2, <1>6 DEF Typed
  <2>6. Backed(a, conn[a])'
    BY <1>1, <1>2, <1>4, <1>5, <1>6, <1>8, <1>9, <2>5 DEF Good, Backed, Donating, Passing, Taking, From
  <2> QED  BY <2>1, <2>2, <2>3, <2>4, <2>6 DEF Good
<1>16. ~Active(a)' => conn'[a].staged = {} /\ conn'[a].passing \subseteq conn'[a].offered
  BY <1>2, <1>4, <1>8, <1>9 DEF Active, Good, Came
<1> QED  BY <1>3, <1>9, <1>10, <1>11, <1>12, <1>13, <1>14, <1>15, <1>16, SoloKeeps

LEMMA AdoptKeeps ==
  ASSUME VorndWaits = "close", HandoffInv, NEW a \in Procs, NEW d \in Procs, Adopt(a, d) PROVE HandoffInv'
<1> DEFINE c == [Idle EXCEPT !.from = d, !.d = "asked", !.a = "offer", !.toD = <<"Hello">>, !.shut = FALSE]
<1>1. /\ a # d /\ a \in up \ (handing \cup handed) /\ d \in up /\ adopts < MaxAdopts
      /\ adopts' = adopts + 1 /\ told' = [told EXCEPT ![a] = "nothing"]
      /\ conn' = [conn EXCEPT ![a] = c]
      /\ UNCHANGED <<up, map, frozen, handing, handed, born, killed>>
  BY DEF Adopt
<1>2. \A b \in Procs : ~Active(b) /\ conn[b].d = "closed" /\ conn[b].staged = {}
  BY DEF Adopt, Active, HandoffInv, ConnInv
<1>3. Typed
  BY DEF HandoffInv
<1>4. \A q, r \in up : q # r => map[q] \cap map[r] = {}
  BY <1>2, Disjoint
<1>5. /\ c \in ConnType /\ c.from = d /\ c.d = "asked" /\ c.a = "offer" /\ c.toA = <<>> /\ Len(c.toD) = 1
      /\ c.shut = FALSE /\ c.offered = {} /\ c.passing = {} /\ c.staged = {}
  <2>1. /\ Idle \in ConnType /\ Idle.toA = <<>> /\ Idle.offered = {} /\ Idle.passing = {}
        /\ Idle.staged = {}
    BY EmptyQueue DEF Idle, ConnType, DonorSteps, AdopterSteps
  <2>2. "Hello" \in Messages
    BY DEF Messages, Words
  <2> DEFINE q == <<"Hello">>
  <2>3. q \in Seq(Messages) /\ Len(q) = 1
    BY <2>2
  <2> HIDE DEF q
  <2>4. c = [Idle EXCEPT !.from = d, !.d = "asked", !.a = "offer", !.toD = q, !.shut = FALSE]
    BY DEF q
  <2> HIDE DEF c
  <2> QED  BY <2>1, <2>3, <2>4 DEF ConnType, DonorSteps, AdopterSteps, Taking
<1> HIDE DEF c
<1>6. conn'[a] = c /\ \A b \in Procs \ {a} : conn'[b] = conn[b]
  BY <1>1, <1>3 DEF Typed
<1>7. Typed'
  BY <1>1, <1>3, <1>5 DEF Typed
<1>8. Shared' /\ HandedEmpty'
  BY <1>1, <1>4 DEF HandoffInv, Shared, HandedEmpty
<1>9. FrozenByDonor'
  BY <1>1, <1>2 DEF HandoffInv, FrozenByDonor, Donating
<1>10. NeverLost'
  BY <1>1, <1>2, <1>3 DEF HandoffInv, NeverLost, Typed
<1>11. Good(a, conn[a])'
  <2>1. Ends(a, conn[a])'
    BY <1>1, <1>3, <1>5, <1>6 DEF Ends, Donating, Typed
  <2>2. Came(conn[a])' /\ InStep(conn[a])'
    BY <1>5, <1>6, EmptyQueue DEF Came, InStep
  <2>3. Heeded(a, conn[a])' /\ Backed(a, conn[a])'
    BY <1>5, <1>6 DEF Heeded, Backed, Donating, Passing
  <2> QED  BY <2>1, <2>2, <2>3 DEF Good
<1>12. Active(a)'
  BY <1>5, <1>6 DEF Active
<1> QED  BY <1>2, <1>6, <1>7, <1>8, <1>9, <1>10, <1>11, <1>12, SoloKeeps

LEMMA ReportsKeeps ==
  ASSUME HandoffInv, NEW a \in Procs, Reports(a) PROVE HandoffInv'
<1> DEFINE o == conn[a]
           c == [conn[a] EXCEPT !.a = "idle", !.toA = <<>>]
<1>1. /\ o.a = "drain" /\ conn' = [conn EXCEPT ![a] = c]
      /\ \E why \in {"failed", "stalled"} : told' = [told EXCEPT ![a] = why]
      /\ UNCHANGED <<up, map, frozen, handing, handed, adopts, born, killed>>
  BY DEF Reports, Drained
<1>2. Active(a) /\ o \in ConnType /\ Good(a, o) /\ Typed
  BY <1>1, AtWork DEF Active, HandoffInv
<1>3. /\ \A b \in Procs \ {a} : ~Active(b) /\ conn[b].d = "closed"
      /\ \A q, r \in up : q # r => map[q] \cap map[r] = {}
  BY <1>1, <1>2, OthersQuiet, Disjoint
<1>4. /\ c \in ConnType /\ c.d = o.d /\ c.a = "idle" /\ c.toA = <<>> /\ c.toD = o.toD
      /\ c.from = o.from /\ c.shut = o.shut /\ c.offered = o.offered /\ c.passing = o.passing
      /\ c.staged = {} /\ o.staged = {} /\ c.passing \subseteq c.offered
  BY <1>1, <1>2, EmptyQueue DEF ConnType, AdopterSteps, Good, Came
<1> HIDE DEF c
<1>5. conn'[a] = c /\ \A b \in Procs \ {a} : conn'[b] = conn[b]
  BY <1>1, <1>2 DEF Typed
<1>6. Typed'
  BY <1>1, <1>2, <1>4 DEF Typed
<1>7. Shared' /\ HandedEmpty'
  BY <1>1, <1>3 DEF HandoffInv, Shared, HandedEmpty
<1>8. FrozenByDonor'
  <2> SUFFICES ASSUME NEW q \in Procs, frozen[q] # {}
               PROVE  \E b \in Procs : conn'[b].from = q /\ conn'[b].d \in Donating
    BY <1>1 DEF FrozenByDonor, From
  <2>1. PICK b \in Procs : From(b) = q /\ conn[b].d \in Donating
    BY DEF HandoffInv, FrozenByDonor
  <2> QED  BY <1>4, <1>5, <2>1 DEF From
<1>9. NeverLost'
  <2>1. \A b \in Procs : conn'[b].staged = conn[b].staged
    BY <1>4, <1>5
  <2> QED  BY <1>1, <1>2, <2>1 DEF HandoffInv, NeverLost, Typed
<1>10. Good(a, conn[a])'
  <2>1. Ends(a, conn[a])'
    BY <1>1, <1>2, <1>4, <1>5 DEF Good, Ends, Donating
  <2>2. Came(conn[a])'
    BY <1>1, <1>2, <1>4, <1>5, EmptyQueue DEF Good, Came
  <2>3. InStep(conn[a])'
    BY <1>1, <1>2, <1>4, <1>5, EmptyQueue DEF Good, InStep, Taking
  <2>4. Heeded(a, conn[a])'
    BY <1>1, <1>2, <1>4, <1>5 DEF Good, Heeded, Delivered
  <2>5. Backed(a, conn[a])'
    BY <1>1, <1>2, <1>4, <1>5 DEF Good, Backed, Donating, Passing, Taking
  <2> QED  BY <2>1, <2>2, <2>3, <2>4, <2>5 DEF Good
<1>11. conn'[a].staged = {} /\ conn'[a].passing \subseteq conn'[a].offered
  BY <1>4, <1>5
<1> QED  BY <1>3, <1>5, <1>6, <1>7, <1>8, <1>9, <1>10, <1>11, SoloKeeps

LEMMA StartsKeeps ==
  ASSUME HandoffInv, NEW a \in Procs, Starts(a) PROVE HandoffInv'
<1> DEFINE o == conn[a]
           p == From(a)
           c == [conn[a] EXCEPT !.a = "idle", !.staged = {}, !.shut = TRUE, !.toA = <<>>]
<1>1. o.a = "start"
  BY DEF Starts
<1>2. Active(a) /\ o \in ConnType /\ Good(a, o) /\ Typed
  BY <1>1, AtWork DEF Active, HandoffInv
<1>3. /\ \A b \in Procs \ {a} : ~Active(b) /\ conn[b].d = "closed"
      /\ \A q, r \in up : q # r => map[q] \cap map[r] = {}
  BY <1>1, <1>2, OthersQuiet, Disjoint
<1>4. /\ p \in Procs \ {a} /\ a \in up \ (handing \cup handed) /\ o.staged = o.offered
      /\ o.d \in {"took", "closed"} /\ o.offered \subseteq born /\ o.passing \subseteq o.offered
      /\ o.d = "took" => /\ Len(o.toD) = 1 /\ o.toD # <<>> /\ p \in handing /\ p \in up
                         /\ o.offered = map[p] /\ frozen[p] = o.offered
      /\ o.d = "closed" /\ p \in up => o.offered \cap map[p] = {}
      /\ \A q \in up, s \in o.offered : s \in map[q] => q \in {p, a}
  BY <1>1, <1>2, EmptyQueue DEF Good, Ends, Came, Heeded, Backed, Donating, Passing, From
<1>5. /\ map' = [map EXCEPT ![a] = @ \cup o.staged] /\ conn' = [conn EXCEPT ![a] = c]
      /\ told' = [told EXCEPT ![a] = "adopted"] /\ killed' = killed \ o.staged
      /\ UNCHANGED <<up, frozen, handing, handed, adopts, born>>
  BY DEF Starts
<1>6. /\ map'[a] = map[a] \cup o.offered /\ \A q \in Procs : q # a => map'[q] = map[q]
      /\ map' \in [Procs -> SUBSET Sessions]
  BY <1>2, <1>4, <1>5 DEF Typed
<1>7. /\ c \in ConnType /\ c.d = o.d /\ c.a = "idle" /\ c.toA = <<>> /\ c.toD = o.toD /\ c.shut = TRUE
      /\ c.from = p /\ c.offered = o.offered /\ c.passing = o.passing /\ c.staged = {}
  BY <1>2, EmptyQueue DEF ConnType, AdopterSteps, From
<1> HIDE DEF c
<1>8. conn'[a] = c /\ \A b \in Procs \ {a} : conn'[b] = conn[b]
  BY <1>2, <1>5 DEF Typed
<1>9. Typed'
  BY <1>2, <1>4, <1>5, <1>6, <1>7 DEF Typed
<1>10. HandedEmpty'
  BY <1>2, <1>4, <1>5, <1>6 DEF HandoffInv, HandedEmpty, Typed
<1>11. Shared'
  <2> SUFFICES ASSUME NEW q \in up, NEW r \in up, q # r, NEW s \in map'[q] \cap map'[r]
               PROVE  Twice(q, r, s)' \/ Twice(r, q, s)'
    BY <1>5 DEF Shared
  <2>1. q \in Procs /\ r \in Procs
    BY <1>2 DEF Typed
  <2>2. CASE q # a /\ r # a
    BY <1>3, <1>6, <2>1, <2>2
  <2>3. \A t \in up : t # a /\ s \in map'[t] /\ s \in map'[a] => Twice(a, t, s)'
    <3> SUFFICES ASSUME NEW t \in up, t # a, s \in map'[t], s \in map'[a] PROVE Twice(a, t, s)'
      OBVIOUS
    <3>1. t \in Procs /\ s \in map[t] /\ s \in o.offered
      BY <1>2, <1>3, <1>4, <1>6 DEF Typed
    <3>2. t = p /\ o.d = "took" /\ o.toD # <<>>
      BY <1>4, <3>1
    <3> QED  BY <1>7, <1>8, <3>1, <3>2 DEF Twice
  <2> QED  BY <2>1, <2>2, <2>3
<1>12. FrozenByDonor'
  <2> SUFFICES ASSUME NEW q \in Procs, frozen[q] # {}
               PROVE  conn'[a].from = q /\ conn'[a].d \in Donating
    BY <1>5 DEF FrozenByDonor, From
  <2>1. PICK b \in Procs : From(b) = q /\ conn[b].d \in Donating
    BY DEF HandoffInv, FrozenByDonor
  <2>2. b = a
    BY <1>3, <2>1 DEF Donating
  <2> QED  BY <1>7, <1>8, <2>1, <2>2
<1>13. NeverLost'
  <2> SUFFICES ASSUME NEW s \in born \ killed' PROVE \E q \in up : s \in map'[q] \cup conn'[q].staged
    BY <1>5 DEF NeverLost
  <2>1. CASE s \in o.offered
    BY <1>4, <1>6, <2>1
  <2>2. CASE s \notin o.offered
    <3>1. s \in born \ killed
      BY <1>4, <1>5, <2>2
    <3>2. PICK q \in up : s \in map[q] \cup conn[q].staged
      BY <3>1 DEF HandoffInv, NeverLost
    <3>3. q \in Procs /\ s \in map'[q] \cup conn'[q].staged
      BY <1>2, <1>4, <1>6, <1>8, <2>2, <3>2 DEF Typed
    <3> QED  BY <3>3
  <2> QED  BY <2>1, <2>2
<1>14. Good(a, conn[a])'
  <2>1. Ends(a, conn[a])'
    BY <1>1, <1>2, <1>4, <1>5, <1>7, <1>8 DEF Good, Ends, Donating, From
  <2>2. Came(conn[a])' /\ InStep(conn[a])'
    BY <1>4, <1>5, <1>7, <1>8, EmptyQueue DEF Came, InStep, Taking
  <2>3. Heeded(a, conn[a])'
    BY <1>4, <1>5, <1>6, <1>7, <1>8 DEF Heeded, Delivered
  <2>4. \A q \in up, s \in o.offered : s \in map'[q] => q \in {p, a}
    BY <1>2, <1>4, <1>6 DEF Typed
  <2>5. Backed(a, conn[a])'
    BY <1>4, <1>5, <1>6, <1>7, <1>8, <2>4 DEF Backed, Donating, Passing, Taking
  <2> QED  BY <2>1, <2>2, <2>3, <2>5 DEF Good
<1>15. conn'[a].staged = {} /\ conn'[a].passing \subseteq conn'[a].offered
  BY <1>4, <1>7, <1>8
<1> QED  BY <1>3, <1>8, <1>9, <1>10, <1>11, <1>12, <1>13, <1>14, <1>15, SoloKeeps

(***************************************************************************)
(* Steps around the connection.                                            *)
(***************************************************************************)
LEMMA SpawnsKeeps ==
  ASSUME HandoffInv, NEW p \in Procs, NEW s \in Sessions, Spawns(p, s) PROVE HandoffInv'
<1>1. Typed
  BY DEF HandoffInv
<1>2. /\ p \in up /\ s \in Sessions \ born /\ p \notin handing \cup handed
      /\ map' = [map EXCEPT ![p] = @ \cup {s}] /\ born' = born \cup {s}
      /\ UNCHANGED <<up, frozen, handing, handed, conn, adopts, told, killed>>
  BY DEF Spawns, ClosedToNew
<1>3. /\ map'[p] = map[p] \cup {s} /\ \A q \in Procs : q # p => map'[q] = map[q]
      /\ map' \in [Procs -> SUBSET Sessions] /\ \A q \in Procs : s \notin map[q]
  BY <1>1, <1>2 DEF Typed
<1>4. Typed'
  BY <1>1, <1>2, <1>3 DEF Typed
<1>5. Alone' /\ FrozenByDonor'
  BY <1>2 DEF HandoffInv, Alone, Active, FrozenByDonor, From
<1>6. HandedEmpty'
  BY <1>1, <1>2, <1>3 DEF HandoffInv, HandedEmpty, Typed
<1>7. Shared'
  <2> SUFFICES ASSUME NEW q \in up, NEW r \in up, q # r, NEW t \in map'[q] \cap map'[r]
               PROVE  Twice(q, r, t)' \/ Twice(r, q, t)'
    BY <1>2 DEF Shared
  <2>1. q \in Procs /\ r \in Procs /\ t \in map[q] \cap map[r]
    BY <1>1, <1>3 DEF Typed
  <2>2. Twice(q, r, t) \/ Twice(r, q, t)
    BY <2>1 DEF HandoffInv, Shared
  <2> QED  BY <1>2, <2>2 DEF Twice
<1>8. NeverLost'
  BY <1>1, <1>2, <1>3 DEF HandoffInv, NeverLost, Typed
<1>9. ASSUME NEW a \in Procs PROVE ConnInv(a)'
  <2>1. ASSUME Active(a) PROVE Good(a, conn[a])'
    <3>1. Good(a, conn[a]) /\ conn[a] \in ConnType
      BY <2>1, AtWork
    <3>2. /\ conn[a].from \in Procs /\ conn[a].offered \subseteq born
          /\ conn[a].d \in Donating => conn[a].from # p
      BY <1>2, <3>1 DEF Good, Ends, Came
    <3>3. Ends(a, conn[a])' /\ Came(conn[a])' /\ InStep(conn[a])'
      BY <1>2, <3>1 DEF Good, Ends, Came, InStep
    <3>4. Heeded(a, conn[a])'
      BY <1>2, <1>3, <3>1 DEF Good, Heeded, Delivered
    <3>5. \A q \in up, t \in conn[a].offered : t \in map'[q] => t \in map[q]
      BY <1>1, <1>2, <1>3, <3>2 DEF Typed
    <3>6. Backed(a, conn[a])'
      BY <1>2, <1>3, <3>1, <3>2, <3>5 DEF Good, Backed, Donating, Passing
    <3> QED  BY <3>3, <3>4, <3>6 DEF Good
  <2> QED  BY <1>2, <2>1 DEF HandoffInv, ConnInv, Active
<1> QED  BY <1>4, <1>5, <1>6, <1>7, <1>8, <1>9 DEF HandoffInv

LEMMA GoneKeeps ==
  ASSUME HandoffInv, NEW p \in up, NEW resets \in BOOLEAN, Gone(p, resets),
         killed \subseteq killed', killed' \subseteq born, map[p] \cup conn[p].staged \subseteq killed'
  PROVE  HandoffInv'
<1>1. Typed /\ p \in Procs
  BY DEF HandoffInv, Typed
<1>2. /\ up' = up \ {p} /\ handing' = handing \ {p} /\ UNCHANGED <<handed, adopts, told, born>>
      /\ map' \in [Procs -> SUBSET Sessions] /\ frozen' \in [Procs -> SUBSET Sessions]
      /\ map'[p] = {} /\ frozen'[p] = {}
      /\ \A q \in Procs : q # p => map'[q] = map[q] /\ frozen'[q] = frozen[q]
  BY <1>1 DEF Gone, Typed
<1>3. ASSUME NEW a \in Procs
      PROVE  /\ a = p => conn'[a] = [conn[a] EXCEPT !.a = "idle", !.staged = {}, !.shut = TRUE]
             /\ a # p /\ From(a) = p /\ DonorOpen(a) =>
                  conn'[a] = [conn[a] EXCEPT !.d = "closed", !.passing = {},
                                             !.reset = resets /\ conn[a].toD # <<>>]
             /\ a # p /\ ~(From(a) = p /\ DonorOpen(a)) => conn'[a] = conn[a]
  BY DEF Gone
<1>4. ASSUME NEW a \in Procs
      PROVE  /\ conn'[a] \in ConnType /\ conn'[a].from = conn[a].from /\ conn'[a].offered = conn[a].offered
             /\ conn'[a].toA = conn[a].toA /\ conn'[a].toD = conn[a].toD
             /\ conn'[a].passing \in {conn[a].passing, {}}
             /\ a = p => conn'[a].a = "idle" /\ conn'[a].staged = {} /\ conn'[a].shut = TRUE
             /\ a # p => /\ conn'[a].a = conn[a].a /\ conn'[a].staged = conn[a].staged
                         /\ conn'[a].shut = conn[a].shut
             /\ a # p /\ conn[a].from = p => conn'[a].d = "closed"
             /\ a = p \/ conn[a].from # p => conn'[a].d = conn[a].d
  <2>1. conn[a] \in ConnType
    BY <1>1 DEF Typed
  <2>2. CASE a = p
    <3> DEFINE c == [conn[a] EXCEPT !.a = "idle", !.staged = {}, !.shut = TRUE]
    <3>1. /\ c \in ConnType /\ c.from = conn[a].from /\ c.offered = conn[a].offered
          /\ c.toA = conn[a].toA /\ c.toD = conn[a].toD /\ c.passing = conn[a].passing
          /\ c.a = "idle" /\ c.staged = {} /\ c.shut = TRUE /\ c.d = conn[a].d
      BY <2>1 DEF ConnType, AdopterSteps
    <3>2. conn'[a] = c
      BY <1>3, <2>2
    <3> HIDE DEF c
    <3> QED  BY <2>2, <3>1, <3>2
  <2>3. CASE a # p /\ From(a) = p /\ DonorOpen(a)
    <3> DEFINE r == resets /\ conn[a].toD # <<>>
               c == [conn[a] EXCEPT !.d = "closed", !.passing = {}, !.reset = r]
    <3>1. r \in BOOLEAN
      OBVIOUS
    <3>2. conn'[a] = c
      BY <1>3, <2>3
    <3> HIDE DEF r
    <3>3. /\ c \in ConnType /\ c.from = conn[a].from /\ c.offered = conn[a].offered
          /\ c.toA = conn[a].toA /\ c.toD = conn[a].toD /\ c.passing = {}
          /\ c.a = conn[a].a /\ c.staged = conn[a].staged /\ c.shut = conn[a].shut /\ c.d = "closed"
      BY <2>1, <3>1 DEF ConnType, DonorSteps
    <3> HIDE DEF c
    <3> QED  BY <2>3, <3>2, <3>3 DEF From
  <2>4. CASE a # p /\ ~(From(a) = p /\ DonorOpen(a))
    BY <1>3, <2>1, <2>4 DEF From, DonorOpen
  <2> QED  BY <2>2, <2>3, <2>4
<1>5. Typed'
  <2>1. conn' \in [Procs -> ConnType]
    BY <1>4 DEF Gone
  <2>2. \A q \in Procs : frozen'[q] \subseteq map'[q] /\ map'[q] \subseteq born'
    BY <1>1, <1>2 DEF Typed
  <2> QED  BY <1>1, <1>2, <2>1, <2>2 DEF Typed
<1>6. \A a \in Procs : Active(a)' => Active(a)
  BY <1>4 DEF Active
<1>7. Alone'
  BY <1>6 DEF HandoffInv, Alone
<1>8. HandedEmpty'
  BY <1>1, <1>2 DEF HandoffInv, HandedEmpty, Typed
<1>9. Shared'
  <2> SUFFICES ASSUME NEW q \in up \ {p}, NEW r \in up \ {p}, q # r, NEW s \in map[q] \cap map[r]
               PROVE  Twice(q, r, s)' \/ Twice(r, q, s)'
    BY <1>1, <1>2 DEF Shared, Typed
  <2>1. q \in Procs /\ r \in Procs
    BY <1>1 DEF Typed
  <2>2. Twice(q, r, s) \/ Twice(r, q, s)
    BY DEF HandoffInv, Shared
  <2>3. \A a \in Procs, d \in Procs : a # p /\ d # p /\ Twice(a, d, s) => Twice(a, d, s)'
    BY <1>4 DEF Twice
  <2> QED  BY <2>1, <2>2, <2>3
<1>10. FrozenByDonor'
  <2> SUFFICES ASSUME NEW q \in Procs, q # p, frozen[q] # {}
               PROVE  \E a \in Procs : conn'[a].from = q /\ conn'[a].d \in Donating
    BY <1>2 DEF FrozenByDonor, From
  <2>1. PICK a \in Procs : From(a) = q /\ conn[a].d \in Donating
    BY DEF HandoffInv, FrozenByDonor
  <2> QED  BY <1>4, <2>1 DEF From
<1>11. NeverLost'
  <2> SUFFICES ASSUME NEW s \in born, s \notin killed'
               PROVE  \E q \in up \ {p} : s \in map'[q] \cup conn'[q].staged
    BY <1>2 DEF NeverLost
  <2>1. PICK q \in up : s \in map[q] \cup conn[q].staged
    BY DEF HandoffInv, NeverLost
  <2>2. q # p /\ q \in Procs
    BY <1>1, <2>1 DEF Typed
  <2> QED  BY <1>2, <1>4, <2>1, <2>2
<1>12. ASSUME NEW a \in Procs PROVE ConnInv(a)'
  <2>1. CASE ~Active(a)
    BY <1>4, <1>6, <2>1 DEF HandoffInv, ConnInv
  <2>2. CASE Active(a)
    <3> DEFINE o == conn[a]
    <3>1. Good(a, o) /\ o \in ConnType
      BY <2>2, AtWork
    <3>2. o.from \in Procs \ {a} /\ o.passing \subseteq o.offered /\ o.staged \subseteq o.offered
      BY <3>1 DEF Good, Ends, Came
    <3>3. CASE a = p
      <4>1. Ends(a, conn[a])'
        BY <1>2, <1>4, <3>1, <3>2, <3>3 DEF Good, Ends, Donating
      <4>2. Came(conn[a])' /\ InStep(conn[a])'
        BY <1>2, <1>4, <3>1, <3>2, <3>3 DEF Good, Came, InStep, Taking
      <4>3. Delivered(a, o) => Delivered(a, conn[a])'
        BY <1>2, <1>4, <3>1, <3>3 DEF Good, Came, Delivered
      <4>4. Heeded(a, conn[a])'
        BY <1>4, <3>1, <3>3, <4>3 DEF Good, Heeded
      <4>5. \A q \in up' : map'[q] = map[q] /\ q \in up
        BY <1>1, <1>2 DEF Typed
      <4>6. Backed(a, conn[a])'
        <5>1. /\ conn'[a].from = o.from /\ conn'[a].d = o.d /\ conn'[a].offered = o.offered
              /\ conn'[a].a = "idle" /\ map'[o.from] = map[o.from] /\ frozen'[o.from] = frozen[o.from]
          BY <1>2, <1>4, <3>2, <3>3
        <5>2. "idle" \notin Taking
          BY DEF Taking
        <5> QED  BY <3>1, <4>5, <5>1, <5>2 DEF Good, Backed
      <4>7. Good(a, conn[a])'
        BY <4>1, <4>2, <4>4, <4>6 DEF Good
      <4> QED  BY <1>4, <3>3, <4>7 DEF ConnInv, Good, Came
    <3>4. CASE a # p /\ o.from = p
      <4>1. Ends(a, conn[a])'
        BY <1>2, <1>4, <3>1, <3>2, <3>4 DEF Good, Ends, Donating
      <4>2. Came(conn[a])' /\ InStep(conn[a])'
        BY <1>2, <1>4, <3>1, <3>2, <3>4 DEF Good, Came, InStep, Taking
      <4>3. Heeded(a, conn[a])'
        BY <1>4, <3>1, <3>4 DEF Good, Heeded, Taking
      <4>4. \A q \in up' : map'[q] = map[q] /\ q \in up
        BY <1>1, <1>2 DEF Typed
      <4>5. Backed(a, conn[a])'
        BY <1>2, <1>4, <3>1, <3>2, <3>4, <4>4 DEF Good, Backed, Donating, Passing, Taking
      <4> QED  BY <1>4, <4>1, <4>2, <4>3, <4>5 DEF ConnInv, Good, Came, Active
    <3>5. CASE a # p /\ o.from # p
      <4>1. Ends(a, conn[a])'
        BY <1>2, <1>4, <3>1, <3>2, <3>5 DEF Good, Ends, Donating
      <4>2. Came(conn[a])' /\ InStep(conn[a])'
        BY <1>2, <1>4, <3>1, <3>2, <3>5 DEF Good, Came, InStep, Taking
      <4>3. Delivered(a, o) => Delivered(a, conn[a])'
        BY <1>2, <1>4, <3>1, <3>5 DEF Delivered
      <4>4. Heeded(a, conn[a])'
        BY <1>4, <3>1, <3>5, <4>3 DEF Good, Heeded
      <4>5. \A q \in up' : map'[q] = map[q] /\ q \in up
        BY <1>1, <1>2 DEF Typed
      <4>6. conn'[a] = o /\ map'[o.from] = map[o.from] /\ frozen'[o.from] = frozen[o.from]
            /\ (o.from \in up' <=> o.from \in up)
        BY <1>2, <1>3, <3>2, <3>5 DEF From
      <4>7. Backed(a, conn[a])'
        BY <3>1, <4>5, <4>6 DEF Good, Backed
      <4> QED  BY <1>4, <4>1, <4>2, <4>4, <4>7 DEF ConnInv, Good, Came, Active
    <3> QED  BY <3>3, <3>4, <3>5
  <2> QED  BY <2>1, <2>2
<1> QED  BY <1>5, <1>7, <1>8, <1>9, <1>10, <1>11, <1>12 DEF HandoffInv

LEMMA EndsKeep ==
  ASSUME HandoffInv, NEW p \in Procs, Dies(p) \/ Stops(p) PROVE HandoffInv'
<1>1. Typed
  BY DEF HandoffInv
<1>2. CASE Dies(p)
  <2>1. PICK resets \in BOOLEAN : Gone(p, resets)
    BY <1>2 DEF Dies
  <2>2. p \in up /\ killed' = killed \cup map[p] \cup conn[p].staged
    BY <1>2 DEF Dies
  <2>3. map[p] \subseteq born /\ killed \subseteq born /\ conn[p].staged \subseteq born
    BY <1>1 DEF Typed, HandoffInv, ConnInv, Good, Came
  <2> QED  BY <2>1, <2>2, <2>3, GoneKeeps
<1>3. CASE Stops(p)
  <2>1. p \in up /\ Gone(p, FALSE) /\ map[p] = {} /\ killed' = killed
    BY <1>3 DEF Stops, HandoffInv, HandedEmpty
  <2>2. conn[p].staged = {}
    BY <1>3 DEF Stops, HandoffInv, ConnInv, Good, Came
  <2> QED  BY <1>1, <2>1, <2>2, GoneKeeps DEF Typed
<1> QED  BY <1>2, <1>3

(***************************************************************************)
(* The invariant, and what follows from it.                                *)
(***************************************************************************)
LEMMA NextInv ==
  ASSUME VorndWaits = "close", HandoffInv, HandoffNext PROVE HandoffInv'
<1>1. ASSUME NEW a \in Procs, Freezing(a) PROVE HandoffInv'
  BY <1>1, FreezingKeeps DEF Freezing
<1>2. ASSUME NEW a \in Procs, DonatesOn(a) PROVE HandoffInv'
  <2>1. From(a) \in up
    BY <1>2 DEF DonatesOn
  <2>2. ASSUME Refuses(a) \/ Lists(a) \/ FreezeFails(a) \/ OfferFails(a) \/ HearsTook(a) \/ HearsNoTook(a)
        PROVE  HandoffInv'
    BY <2>1, <2>2, RefusesKeeps, ListsKeeps, CalledOffKeeps, HearsTookKeeps
  <2>3. ASSUME Offers(a) \/ SendsDone(a) \/ HearsReady(a) \/ Commits(a) \/ HangsUp(a) PROVE HandoffInv'
    BY <2>3, OffersKeeps, SendsDoneKeeps, HearsReadyKeeps, CommitsKeeps, HangsUpKeeps
  <2>4. ASSUME NEW s \in Sessions, SendsSession(a, s) PROVE HandoffInv'
    BY <2>4, SendsSessionKeeps
  <2> QED  BY <1>2, <2>2, <2>3, <2>4 DEF DonatesOn
<1>3. ASSUME NEW a \in Procs, Adopter(a) PROVE HandoffInv'
  <2>1. a \in up
    BY <1>3 DEF Adopter
  <2>2. ASSUME HearsOffer(a) \/ HearsDone(a) \/ SendsReady(a) \/ HearsCommit(a) \/ SendsTook(a)
        PROVE  HandoffInv'
    BY <2>1, <2>2, HearsOfferKeeps, HearsDoneKeeps, SendsReadyKeeps, HearsCommitKeeps, SendsTookKeeps
  <2>3. ASSUME HearsDonorGone(a) \/ Fails(a) \/ Reports(a) \/ Starts(a) PROVE HandoffInv'
    BY <2>1, <2>3, HearsDonorGoneKeeps, FailsKeeps, ReportsKeeps, StartsKeeps
  <2>4. ASSUME NEW s \in Sessions, Stages(a, s) PROVE HandoffInv'
    BY <2>1, <2>4, StagesKeeps
  <2> QED  BY <1>3, <2>2, <2>3, <2>4 DEF Adopter
<1>4. ASSUME NEW a \in Procs, NEW d \in Procs, Adopt(a, d) PROVE HandoffInv'
  BY <1>4, AdoptKeeps
<1>5. ASSUME NEW p \in Procs, Dies(p) \/ Stops(p) PROVE HandoffInv'
  BY <1>5, EndsKeep
<1>6. ASSUME NEW p \in Procs, NEW s \in Sessions, Spawns(p, s) PROVE HandoffInv'
  BY <1>6, SpawnsKeeps
<1> QED  BY <1>1, <1>2, <1>3, <1>4, <1>5, <1>6 DEF HandoffNext

LEMMA StutterInv ==
  ASSUME HandoffInv, UNCHANGED handoffVars PROVE HandoffInv'
<1>1. /\ UNCHANGED <<up, map, frozen, handing, handed, conn, adopts, told, born, killed>>
  BY DEF handoffVars
<1>2. Typed' /\ Alone' /\ Shared' /\ HandedEmpty' /\ FrozenByDonor' /\ NeverLost'
  BY <1>1 DEF HandoffInv, Typed, Alone, Active, Shared, Twice, HandedEmpty, FrozenByDonor, From, NeverLost
<1>3. ASSUME NEW a \in Procs PROVE ConnInv(a)'
  BY <1>1 DEF HandoffInv, ConnInv, Active, Good, Ends, Came, InStep, Heeded, Delivered, Backed
<1> QED  BY <1>2, <1>3 DEF HandoffInv

(* While one adoption is closed before the next, the two ends of a         *)
(* connection stay in step, whatever dies at whatever point.               *)
THEOREM HandoffInvariant == VorndWaits = "close" => (HandoffSpec => []HandoffInv)
<1> SUFFICES ASSUME VorndWaits = "close" PROVE HandoffSpec => []HandoffInv
  OBVIOUS
<1>1. HandoffInit => HandoffInv
  BY InitInv
<1>2. HandoffInv /\ [HandoffNext]_handoffVars => HandoffInv'
  BY NextInv, StutterInv
<1> QED  BY <1>1, <1>2, PTL DEF HandoffSpec

(* Every part of the handoff's state keeps its type and its bounds.        *)
THEOREM HandoffTypes == VorndWaits = "close" => (HandoffSpec => []TypeOK)
<1> SUFFICES ASSUME VorndWaits = "close" PROVE HandoffSpec => []TypeOK
  OBVIOUS
<1>1. HandoffInv => TypeOK
  <2> SUFFICES ASSUME HandoffInv PROVE TypeOK
    OBVIOUS
  <2>1. Typed /\ \A a \in Procs : ConnInv(a)
    BY DEF HandoffInv
  <2>2. ASSUME NEW a \in Procs
        PROVE  conn[a].passing \subseteq conn[a].offered /\ conn[a].staged \subseteq conn[a].offered
    BY <2>1 DEF ConnInv, Good, Came
  <2>3. ASSUME NEW a \in Procs
        PROVE  /\ conn[a].from \in Procs \cup {0}
               /\ conn[a].d \in DonorSteps /\ conn[a].a \in AdopterSteps
               /\ conn[a].toA \in Seq(Messages) /\ conn[a].toD \in Seq(Messages)
               /\ conn[a].shut \in BOOLEAN /\ conn[a].reset \in BOOLEAN
    BY <2>1 DEF Typed, ConnType
  <2> QED  BY <2>1, <2>2, <2>3 DEF TypeOK, Typed, DonorSteps, AdopterSteps, Donating, Taking
<1> QED  BY <1>1, HandoffInvariant, PTL

(* One sessiond at most runs a session: a donor whose adopter has started  *)
(* it has it frozen until it lets it go.                                   *)
THEOREM OneRunnerHolds == VorndWaits = "close" => (HandoffSpec => []OneRunner)
<1> SUFFICES ASSUME VorndWaits = "close" PROVE HandoffSpec => []OneRunner
  OBVIOUS
<1>1. HandoffInv => OneRunner
  <2> SUFFICES ASSUME HandoffInv, NEW p \in up, NEW a \in up, p # a
               PROVE  /\ Live(p) \cap Live(a) = {}
                      /\ conn[a].a = "start" => Live(p) \cap conn[a].staged = {}
    BY DEF OneRunner
  <2>1. p \in Procs /\ a \in Procs
    BY DEF HandoffInv, Typed
  <2>2. \A q \in Procs, d \in Procs : \A s : Twice(q, d, s) => s \in frozen[d]
    <3> SUFFICES ASSUME NEW q \in Procs, NEW d \in Procs, NEW s, Twice(q, d, s) PROVE s \in frozen[d]
      OBVIOUS
    <3>1. conn[q].from = d /\ conn[q].d = "took" /\ s \in conn[q].offered
      BY DEF Twice
    <3>2. Good(q, conn[q])
      BY <3>1, AtWork DEF Active
    <3> QED  BY <3>1, <3>2 DEF Good, Backed, Passing
  <2>3. Live(p) \cap Live(a) = {}
    BY <2>1, <2>2 DEF HandoffInv, Shared, Live
  <2>4. ASSUME conn[a].a = "start" PROVE Live(p) \cap conn[a].staged = {}
    <3>1. Good(a, conn[a])
      BY <2>1, <2>4, AtWork DEF Active
    <3>2. /\ conn[a].staged = conn[a].offered /\ conn[a].d \in {"took", "closed"}
          /\ conn[a].d = "took" => frozen[conn[a].from] = conn[a].offered
          /\ conn[a].d = "closed" /\ conn[a].from \in up => conn[a].offered \cap map[conn[a].from] = {}
          /\ \A s \in conn[a].offered : s \in map[p] => p = conn[a].from
      BY <2>1, <2>4, <3>1 DEF Good, Came, Heeded, Backed, Passing
    <3> QED  BY <3>2 DEF Live
  <2> QED  BY <2>3, <2>4
<1> QED  BY <1>1, HandoffInvariant, PTL

(* No handoff loses a session, wherever it stops.                          *)
THEOREM NeverLostHolds == VorndWaits = "close" => (HandoffSpec => []NeverLost)
<1> SUFFICES ASSUME VorndWaits = "close" PROVE HandoffSpec => []NeverLost
  OBVIOUS
<1>1. HandoffInv => NeverLost
  BY DEF HandoffInv
<1> QED  BY <1>1, HandoffInvariant, PTL

-----------------------------------------------------------------------------
(***************************************************************************)
(* What vornd is told.  A told adoption is over on the adopter's side; the *)
(* donor of one that succeeded has heard Took or has it yet to read, and   *)
(* the donor of one that failed never let go of what it had offered.       *)
(***************************************************************************)
Ended ==
  \A a \in Procs : told[a] # "nothing" =>
    /\ conn[a].a = "idle"
    /\ told[a] = "failed" => conn[a].d = "closed"
    /\ told[a] = "adopted" /\ a \in up =>
         /\ a \notin handed => conn[a].offered \subseteq map[a]
         /\ conn[a].d # "closed" => conn[a].d = "took" /\ conn[a].toD # <<>>

DonorKnows ==
  \A a \in up : /\ conn[a].a = "start" \/ told[a] = "adopted"
                /\ conn[a].d = "closed" /\ From(a) \in up
                => From(a) \in handed

DonorKeeps ==
  \A a \in Procs : (conn[a].a = "drain" \/ told[a] \in {"failed", "stalled"}) /\ From(a) \in up \ handed =>
    conn[a].offered \subseteq map[From(a)]

ToldInv == Ended /\ DonorKnows /\ DonorKeeps

LEMMA InitTold == HandoffInit => ToldInv
BY DEF HandoffInit, Idle, ToldInv, Ended, DonorKnows, DonorKeeps

(* A step after which vornd knows no more: the connection o of an adopter  *)
(* becomes n.                                                              *)
Onward(o, n) ==
  /\ n.from = o.from
  /\ \/ n.offered = o.offered
     \/ o.d = "asked" /\ n.offered \subseteq map[o.from]
  /\ o.a = "idle" => n.a = "idle"
  /\ n.a = "start" => o.a = "start" \/ n.d # "closed" \/ o.from \notin up
  /\ n.a = "drain" => o.a = "drain" \/ o.a \in Taking
  /\ o.d = "closed" => n.d = "closed"
  /\ n.d = "closed" => o.d # "took" \/ o.from \in handed' \/ o.from \notin up'
  /\ o.a = "idle" /\ o.d = "took" /\ o.toD # <<>> => n.d = "closed" \/ (n.d = "took" /\ n.toD # <<>>)

Untold ==
  /\ told' = told /\ up' \subseteq up /\ handed \subseteq handed'
  /\ \A p \in up' \ handed' : map[p] \subseteq map'[p]
  /\ \A a \in Procs : Onward(conn[a], conn'[a])

LEMMA UntoldKeeps == HandoffInv /\ ToldInv /\ Untold => ToldInv'
<1> SUFFICES ASSUME HandoffInv, ToldInv, Untold PROVE ToldInv'
  OBVIOUS
<1>a. /\ Typed /\ Ended /\ DonorKnows /\ DonorKeeps
      /\ \A a \in Procs : conn[a].a \in {"start"} \cup Taking => Good(a, conn[a])
  BY AtWork DEF HandoffInv, ToldInv, Active, Taking
<1>b. /\ told' = told /\ up' \subseteq up /\ handed \subseteq handed' /\ up \subseteq Procs
      /\ \A p \in up' \ handed' : map[p] \subseteq map'[p]
  BY <1>a DEF Untold, Typed
<1>1. Ended'
  <2> SUFFICES ASSUME NEW a \in Procs, told[a] # "nothing"
               PROVE  /\ conn'[a].a = "idle"
                      /\ told[a] = "failed" => conn'[a].d = "closed"
                      /\ told[a] = "adopted" /\ a \in up' =>
                           /\ a \notin handed' => conn'[a].offered \subseteq map'[a]
                           /\ conn'[a].d # "closed" => conn'[a].d = "took" /\ conn'[a].toD # <<>>
    BY <1>b DEF Ended
  <2>1. Onward(conn[a], conn'[a])
    BY DEF Untold
  <2> QED  BY <1>a, <1>b, <2>1 DEF Ended, Onward
<1>2. DonorKnows'
  <2> SUFFICES ASSUME NEW a \in up', conn'[a].a = "start" \/ told[a] = "adopted",
                      conn'[a].d = "closed", conn'[a].from \in up'
               PROVE  conn'[a].from \in handed'
    BY <1>b DEF DonorKnows, From
  <2>1. Onward(conn[a], conn'[a]) /\ a \in up /\ a \in Procs
    BY <1>b DEF Untold
  <2>2. conn[a].a = "start" \/ told[a] = "adopted"
    BY <1>b, <2>1 DEF Onward
  <2>3. conn[a].d \in {"took", "closed"}
    BY <1>a, <2>1, <2>2 DEF Good, Heeded, Ended
  <2> QED  BY <1>a, <1>b, <2>1, <2>2, <2>3 DEF DonorKnows, Onward, From
<1>3. DonorKeeps'
  <2> SUFFICES ASSUME NEW a \in Procs, conn'[a].a = "drain" \/ told[a] \in {"failed", "stalled"},
                      conn'[a].from \in up' \ handed'
               PROVE  conn'[a].offered \subseteq map'[conn'[a].from]
    BY <1>b DEF DonorKeeps, From
  <2>1. Onward(conn[a], conn'[a])
    BY DEF Untold
  <2>2. conn[a].from \in up \ handed /\ conn'[a].from = conn[a].from
        /\ map[conn[a].from] \subseteq map'[conn[a].from]
    BY <1>b, <2>1 DEF Onward
  <2>3. conn[a].offered \subseteq map[conn[a].from]
    <3>1. CASE conn[a].a = "drain" \/ told[a] \in {"failed", "stalled"}
      BY <1>a, <2>2, <3>1 DEF DonorKeeps, From
    <3>2. CASE conn[a].a \in Taking
      BY <1>a, <2>2, <3>2 DEF Good, Backed
    <3> QED  BY <2>1, <3>1, <3>2 DEF Onward
  <2> QED  BY <2>1, <2>2, <2>3 DEF Onward
<1> QED  BY <1>1, <1>2, <1>3 DEF ToldInv

(* Only the connection of a moves.                                         *)
LEMMA OneMoves ==
  ASSUME HandoffInv, NEW a \in Procs, NEW c, conn' = [conn EXCEPT ![a] = c], Onward(conn[a], c),
         told' = told, up' = up, handed \subseteq handed',
         \A p \in up \ handed' : map[p] \subseteq map'[p]
  PROVE  Untold
<1>1. conn'[a] = c /\ \A b \in Procs : b # a => conn'[b] = conn[b]
  BY DEF HandoffInv, Typed
<1>2. ASSUME NEW b \in Procs, b # a PROVE Onward(conn[b], conn'[b])
  <2>1. conn'[b] = conn[b]
    BY <1>1, <1>2
  <2> QED  BY <2>1 DEF Onward
<1> QED  BY <1>1, <1>2 DEF Untold

LEMMA DonatesUntold ==
  ASSUME HandoffInv, NEW a \in Procs, DonatesOn(a)
  PROVE  Untold
<1> DEFINE o == conn[a]
<1>a. o \in ConnType /\ From(a) = o.from
  BY DEF HandoffInv, Typed, From
<1>1. CASE Refuses(a)
  <2> DEFINE c == [o EXCEPT !.d = "refuse", !.toD = Tail(@)]
  <2>1. Goes(a, c) /\ o.d = "asked"
    BY <1>1 DEF Refuses
  <2>2. Onward(o, c)
    BY <1>a, <2>1 DEF Onward, ConnType
  <2> QED  BY <2>1, <2>2, OneMoves DEF Goes
<1>2. CASE Lists(a)
  <2> DEFINE c == [o EXCEPT !.d = "freeze", !.toD = Tail(@), !.offered = map[From(a)]]
  <2>1. conn' = [conn EXCEPT ![a] = c]
    BY <1>2 DEF Lists, HandoffInv, Typed
  <2>2. Onward(o, c)
    BY <1>a, <1>2 DEF Lists, Onward, ConnType
  <2> HIDE DEF c
  <2> QED  BY <1>2, <2>1, <2>2, OneMoves DEF Lists
<1>3. CASE FreezeFails(a) \/ OfferFails(a) \/ HearsNoTook(a)
  <2>1. PICK then \in {"refuse", "close"} :
          /\ conn' = [conn EXCEPT ![a].d = then, ![a].passing = {}]
          /\ UNCHANGED <<up, map, handed, told>>
    BY <1>3 DEF FreezeFails, OfferFails, HearsNoTook, CallOff
  <2> DEFINE c == [o EXCEPT !.d = then, !.passing = {}]
  <2>2. conn' = [conn EXCEPT ![a] = c]
    BY <2>1 DEF HandoffInv, Typed
  <2>3. o.d # "closed" /\ (o.d = "took" => o.toD = <<>>)
    BY <1>3 DEF FreezeFails, OfferFails, HearsNoTook, HeardEnd
  <2>4. Onward(o, c)
    BY <1>a, <2>3 DEF Onward, ConnType
  <2> HIDE DEF c
  <2> QED  BY <2>1, <2>2, <2>4, OneMoves
<1>4. CASE Offers(a)
  <2> DEFINE c == [o EXCEPT !.toA = Append(@, "Offer"), !.d = "send", !.passing = o.offered]
  <2>1. Goes(a, c) /\ o.d = "freeze"
    BY <1>4 DEF Offers
  <2>2. Onward(o, c)
    BY <1>a, <2>1 DEF Onward, ConnType
  <2> QED  BY <2>1, <2>2, OneMoves DEF Goes
<1>5. ASSUME NEW s \in Sessions, SendsSession(a, s) PROVE Untold
  <2> DEFINE c == [o EXCEPT !.toA = Append(@, s), !.passing = @ \ {s}]
  <2>1. Goes(a, c) /\ o.d = "send"
    BY <1>5 DEF SendsSession
  <2>2. Onward(o, c)
    BY <1>a, <2>1 DEF Onward, ConnType
  <2> QED  BY <2>1, <2>2, OneMoves DEF Goes
<1>6. CASE SendsDone(a)
  <2> DEFINE c == [o EXCEPT !.toA = Append(@, "Done"), !.d = "ready"]
  <2>1. Goes(a, c) /\ o.d = "send"
    BY <1>6 DEF SendsDone
  <2>2. Onward(o, c)
    BY <1>a, <2>1 DEF Onward, ConnType
  <2> QED  BY <2>1, <2>2, OneMoves DEF Goes
<1>7. CASE HearsReady(a)
  <2> DEFINE c == [o EXCEPT !.toD = Tail(@), !.d = "commit"]
  <2>1. Goes(a, c) /\ o.d = "ready"
    BY <1>7 DEF HearsReady
  <2>2. Onward(o, c)
    BY <1>a, <2>1 DEF Onward, ConnType
  <2> QED  BY <2>1, <2>2, OneMoves DEF Goes
<1>8. CASE Commits(a)
  <2> DEFINE c == [o EXCEPT !.toA = Append(@, "Commit"), !.d = "took"]
  <2>1. Goes(a, c) /\ o.d = "commit"
    BY <1>8 DEF Commits
  <2>2. Onward(o, c)
    BY <1>a, <2>1 DEF Onward, ConnType
  <2> QED  BY <2>1, <2>2, OneMoves DEF Goes
<1>9. CASE HearsTook(a)
  <2> DEFINE c == [o EXCEPT !.d = "closed", !.toD = Tail(@)]
  <2>1. conn' = [conn EXCEPT ![a] = c]
    BY <1>9 DEF HearsTook, HandoffInv, Typed
  <2>2. Onward(o, c)
    BY <1>a, <1>9 DEF HearsTook, Onward, ConnType
  <2>3. \A p \in up \ handed' : map[p] \subseteq map'[p]
    BY <1>9 DEF HearsTook, Leaves, HandoffInv, Typed
  <2> HIDE DEF c
  <2> QED  BY <1>9, <2>1, <2>2, <2>3, OneMoves DEF HearsTook
<1>10. CASE HangsUp(a)
  <2> DEFINE q == IF o.d = "refuse" /\ AdopterOpen(a) THEN Append(o.toA, "Refuse") ELSE o.toA
             c == [o EXCEPT !.d = "closed", !.toA = q]
  <2>1. Goes(a, c) /\ o.d \in {"refuse", "close"}
    BY <1>10 DEF HangsUp
  <2> HIDE DEF q
  <2>2. Onward(o, c)
    <3>1. c.d = "closed" /\ c.a = o.a /\ c.from = o.from /\ c.offered = o.offered
      BY <1>a DEF ConnType
    <3>2. o.d # "closed" /\ (o.a = "start" => o.d \in {"took", "closed"})
      BY <2>1, AtWork DEF Active, Good, Heeded
    <3> QED  BY <2>1, <3>1, <3>2 DEF Onward
  <2> QED  BY <2>1, <2>2, OneMoves DEF Goes
<1> QED  BY <1>1, <1>2, <1>3, <1>4, <1>5, <1>6, <1>7, <1>8, <1>9, <1>10 DEF DonatesOn

LEMMA AdoptsUntold ==
  ASSUME HandoffInv, NEW a \in Procs,
         \/ HearsOffer(a) \/ \E s \in Sessions : Stages(a, s)
         \/ HearsDone(a) \/ SendsReady(a) \/ HearsCommit(a) \/ SendsTook(a)
         \/ HearsDonorGone(a) \/ Fails(a)
  PROVE  Untold
<1> DEFINE o == conn[a]
<1>a. o \in ConnType /\ From(a) = o.from
  BY DEF HandoffInv, Typed, From
<1>1. CASE HearsOffer(a)
  <2> DEFINE c == [o EXCEPT !.toA = Tail(@), !.a = "stage"]
  <2>1. Goes(a, c) /\ o.a = "offer"
    BY <1>1 DEF HearsOffer
  <2>2. Onward(o, c)
    BY <1>a, <2>1 DEF Onward, ConnType
  <2> QED  BY <2>1, <2>2, OneMoves DEF Goes
<1>2. ASSUME NEW s \in Sessions, Stages(a, s) PROVE Untold
  <2> DEFINE c == [o EXCEPT !.toA = Tail(@), !.staged = @ \cup {s}]
  <2>1. Goes(a, c) /\ o.a = "stage"
    BY <1>2 DEF Stages
  <2>2. Onward(o, c)
    BY <1>a, <2>1 DEF Onward, ConnType
  <2> QED  BY <2>1, <2>2, OneMoves DEF Goes
<1>3. CASE HearsDone(a)
  <2> DEFINE c == [o EXCEPT !.toA = Tail(@), !.a = "ready"]
  <2>1. Goes(a, c) /\ o.a = "stage"
    BY <1>3 DEF HearsDone
  <2>2. Onward(o, c)
    BY <1>a, <2>1 DEF Onward, ConnType
  <2> QED  BY <2>1, <2>2, OneMoves DEF Goes
<1>4. CASE SendsReady(a)
  <2> DEFINE c == [o EXCEPT !.toD = Append(@, "Ready"), !.a = "commit"]
  <2>1. Goes(a, c) /\ o.a = "ready"
    BY <1>4 DEF SendsReady
  <2>2. Onward(o, c)
    BY <1>a, <2>1 DEF Onward, ConnType
  <2> QED  BY <2>1, <2>2, OneMoves DEF Goes
<1>5. CASE HearsCommit(a)
  <2> DEFINE c == [o EXCEPT !.toA = Tail(@), !.a = "took"]
  <2>1. Goes(a, c) /\ o.a = "commit"
    BY <1>5 DEF HearsCommit
  <2>2. Onward(o, c)
    BY <1>a, <2>1 DEF Onward, ConnType
  <2> QED  BY <2>1, <2>2, OneMoves DEF Goes
<1>6. CASE SendsTook(a)
  <2> DEFINE c == [o EXCEPT !.toD = Append(@, "Took"), !.a = "start"]
  <2>1. Goes(a, c) /\ o.a = "took" /\ o.d # "closed"
    BY <1>6 DEF SendsTook, DonorOpen
  <2>2. Onward(o, c)
    BY <1>a, <2>1 DEF Onward, ConnType
  <2> QED  BY <2>1, <2>2, OneMoves DEF Goes
<1>7. CASE HearsDonorGone(a)
  <2> DEFINE c == [o EXCEPT !.a = "start"]
  <2>1. Goes(a, c) /\ o.a = "commit" /\ o.from \notin up /\ o.d = "closed" /\ up' = up
    BY <1>7 DEF HearsDonorGone, DonorGone, HeardDonorEnd, DonorOpen, From, Goes
  <2>2. Onward(o, c)
    BY <1>a, <2>1 DEF Onward, ConnType
  <2> QED  BY <2>1, <2>2, OneMoves DEF Goes
<1>8. CASE Fails(a)
  <2> DEFINE c == [o EXCEPT !.a = "drain", !.staged = {}, !.shut = TRUE]
  <2>1. Goes(a, c) /\ o.a \in Taking
    BY <1>8 DEF Fails, TakeFails, Taking
  <2>2. Onward(o, c)
    BY <1>a, <2>1 DEF Onward, ConnType, Taking
  <2> QED  BY <2>1, <2>2, OneMoves DEF Goes
<1> QED  BY <1>1, <1>2, <1>3, <1>4, <1>5, <1>6, <1>7, <1>8

LEMMA OthersUntold ==
  ASSUME HandoffInv,
         \/ \E a \in Procs : Freezing(a)
         \/ \E p \in Procs, s \in Sessions : Spawns(p, s)
         \/ UNCHANGED handoffVars
  PROVE  Untold
<1>1. UNCHANGED <<up, handed, conn, told>> /\ \A p \in Procs : map[p] \subseteq map'[p]
  <2>1. CASE \E a \in Procs : Freezing(a)
    BY <2>1 DEF Freezing, FreezeRetries, Freezes
  <2>2. ASSUME NEW p \in Procs, NEW s \in Sessions, Spawns(p, s)
        PROVE  UNCHANGED <<up, handed, conn, told>> /\ \A q \in Procs : map[q] \subseteq map'[q]
    BY <2>2 DEF Spawns, HandoffInv, Typed
  <2>3. CASE UNCHANGED handoffVars
    BY <2>3 DEF handoffVars
  <2> QED  BY <2>1, <2>2, <2>3
<1>2. \A a \in Procs : Onward(conn[a], conn'[a])
  BY <1>1 DEF Onward
<1>3. up' \subseteq Procs
  BY <1>1 DEF HandoffInv, Typed
<1> QED  BY <1>1, <1>2, <1>3 DEF Untold

LEMMA GoneUntold ==
  ASSUME HandoffInv, NEW p \in Procs, Dies(p) \/ Stops(p)
  PROVE  Untold
<1>1. PICK resets \in BOOLEAN : Gone(p, resets)
  BY DEF Dies, Stops
<1>2. /\ up' = up \ {p} /\ handed' = handed /\ told' = told /\ up \subseteq Procs
      /\ \A q \in up' : map'[q] = map[q]
  BY <1>1 DEF Gone, HandoffInv, Typed
<1>3. ASSUME NEW a \in Procs PROVE Onward(conn[a], conn'[a])
  <2>0. conn[a] \in ConnType
    BY DEF HandoffInv, Typed
  <2>1. CASE a = p
    <3>1. conn'[a] = [conn[a] EXCEPT !.a = "idle", !.staged = {}, !.shut = TRUE]
      BY <1>1, <2>1 DEF Gone
    <3> QED  BY <2>0, <3>1 DEF Onward, ConnType
  <2>2. CASE a # p /\ From(a) = p /\ DonorOpen(a)
    <3>1. conn'[a] = [conn[a] EXCEPT !.d = "closed", !.passing = {},
                                     !.reset = resets /\ conn[a].toD # <<>>]
      BY <1>1, <2>2 DEF Gone
    <3>2. /\ conn'[a].d = "closed" /\ conn'[a].a = conn[a].a /\ conn'[a].from = p
          /\ conn'[a].offered = conn[a].offered
      BY <2>0, <2>2, <3>1 DEF ConnType, From
    <3> QED  BY <1>2, <2>2, <3>2 DEF Onward, From
  <2>3. CASE a # p /\ ~(From(a) = p /\ DonorOpen(a))
    <3>1. conn'[a] = conn[a]
      BY <1>1, <2>3 DEF Gone
    <3> QED  BY <3>1 DEF Onward
  <2> QED  BY <2>1, <2>2, <2>3
<1> QED  BY <1>2, <1>3 DEF Untold

(***************************************************************************)
(* The steps that tell vornd, or ask again.                                *)
(***************************************************************************)
LEMMA AdoptTold ==
  ASSUME HandoffInv, ToldInv, NEW a \in Procs, NEW d \in Procs, Adopt(a, d)
  PROVE  ToldInv'
<1> DEFINE c == [Idle EXCEPT !.from = d, !.d = "asked", !.a = "offer", !.toD = <<"Hello">>, !.shut = FALSE]
<1>1. /\ conn'[a] = c /\ told'[a] = "nothing"
      /\ \A b \in Procs : b # a => conn'[b] = conn[b] /\ told'[b] = told[b]
      /\ UNCHANGED <<up, map, handed>>
  BY DEF Adopt, HandoffInv, Typed
<1>2. c.a = "offer" /\ c.d = "asked"
  BY DEF Idle
<1> HIDE DEF c
<1>3. Ended'
  BY <1>1 DEF ToldInv, Ended
<1>4. DonorKnows'
  <2> SUFFICES ASSUME NEW b \in up, conn'[b].a = "start" \/ told'[b] = "adopted",
                      conn'[b].d = "closed", conn'[b].from \in up
               PROVE  conn'[b].from \in handed
    BY <1>1 DEF DonorKnows, From
  <2>1. b \in Procs /\ b # a
    BY <1>1, <1>2 DEF HandoffInv, Typed
  <2> QED  BY <1>1, <2>1 DEF ToldInv, DonorKnows, From
<1>5. DonorKeeps'
  <2> SUFFICES ASSUME NEW b \in Procs, conn'[b].a = "drain" \/ told'[b] \in {"failed", "stalled"},
                      conn'[b].from \in up \ handed
               PROVE  conn'[b].offered \subseteq map[conn'[b].from]
    BY <1>1 DEF DonorKeeps, From
  <2>1. b # a
    BY <1>1, <1>2
  <2> QED  BY <1>1, <2>1 DEF ToldInv, DonorKeeps, From
<1> QED  BY <1>3, <1>4, <1>5 DEF ToldInv

LEMMA ReportsTold ==
  ASSUME HandoffInv, ToldInv, NEW a \in Procs, Reports(a)
  PROVE  ToldInv'
<1>1. /\ conn[a].a = "drain" /\ told'[a] \in {"failed", "stalled"}
      /\ told'[a] = "failed" => conn[a].d = "closed"
      /\ conn'[a] = [conn[a] EXCEPT !.a = "idle", !.toA = <<>>]
      /\ \A b \in Procs : b # a => conn'[b] = conn[b] /\ told'[b] = told[b]
      /\ UNCHANGED <<up, map, handed>>
  BY DEF Reports, Drained, DonorOpen, HandoffInv, Typed
<1>2. conn[a] \in ConnType /\ up \subseteq Procs
  BY DEF HandoffInv, Typed
<1>3. /\ conn'[a].a = "idle" /\ conn'[a].d = conn[a].d /\ conn'[a].from = conn[a].from
      /\ conn'[a].offered = conn[a].offered
  BY <1>1, <1>2 DEF ConnType
<1>4. Ended'
  <2> SUFFICES ASSUME NEW b \in Procs, told'[b] # "nothing"
               PROVE  /\ conn'[b].a = "idle"
                      /\ told'[b] = "failed" => conn'[b].d = "closed"
                      /\ told'[b] = "adopted" /\ b \in up =>
                           /\ b \notin handed => conn'[b].offered \subseteq map[b]
                           /\ conn'[b].d # "closed" => conn'[b].d = "took" /\ conn'[b].toD # <<>>
    BY <1>1 DEF Ended
  <2>1. CASE b = a
    BY <1>1, <1>3, <2>1
  <2>2. CASE b # a
    BY <1>1, <2>2 DEF ToldInv, Ended
  <2> QED  BY <2>1, <2>2
<1>5. DonorKnows'
  BY <1>1, <1>2, <1>3 DEF ToldInv, DonorKnows, From
<1>6. DonorKeeps'
  BY <1>1, <1>3 DEF ToldInv, DonorKeeps, From
<1> QED  BY <1>4, <1>5, <1>6 DEF ToldInv

LEMMA StartsTold ==
  ASSUME HandoffInv, ToldInv, NEW a \in Procs, Starts(a)
  PROVE  ToldInv'
<1>1. /\ conn[a].a = "start" /\ told'[a] = "adopted"
      /\ conn'[a] = [conn[a] EXCEPT !.a = "idle", !.staged = {}, !.shut = TRUE, !.toA = <<>>]
      /\ map'[a] = map[a] \cup conn[a].staged
      /\ \A b \in Procs : b # a => /\ conn'[b] = conn[b] /\ told'[b] = told[b]
                                   /\ map'[b] = map[b]
      /\ UNCHANGED <<up, handed>>
  BY DEF Starts, HandoffInv, Typed
<1>2. conn[a] \in ConnType /\ up \subseteq Procs
  BY DEF HandoffInv, Typed
<1>3. /\ conn'[a].a = "idle" /\ conn'[a].d = conn[a].d /\ conn'[a].from = conn[a].from
      /\ conn'[a].offered = conn[a].offered /\ conn'[a].toD = conn[a].toD
  BY <1>1, <1>2 DEF ConnType
<1>4. Good(a, conn[a])
  BY <1>1, AtWork DEF Active
<1>5. /\ conn[a].staged = conn[a].offered
      /\ conn[a].d # "closed" => conn[a].d = "took" /\ conn[a].toD # <<>>
  BY <1>1, <1>4, EmptyQueue DEF Good, Came, Heeded
<1>6. /\ \A b \in Procs : map[b] \subseteq map'[b]
      /\ conn[a].offered \subseteq map'[a]
  BY <1>1, <1>5
<1>7. Ended'
  <2> SUFFICES ASSUME NEW b \in Procs, told'[b] # "nothing"
               PROVE  /\ conn'[b].a = "idle"
                      /\ told'[b] = "failed" => conn'[b].d = "closed"
                      /\ told'[b] = "adopted" /\ b \in up =>
                           /\ b \notin handed => conn'[b].offered \subseteq map'[b]
                           /\ conn'[b].d # "closed" => conn'[b].d = "took" /\ conn'[b].toD # <<>>
    BY <1>1 DEF Ended
  <2>1. CASE b = a
    BY <1>1, <1>3, <1>5, <1>6, <2>1
  <2>2. CASE b # a
    BY <1>1, <2>2 DEF ToldInv, Ended
  <2> QED  BY <2>1, <2>2
<1>8. DonorKnows'
  <2> SUFFICES ASSUME NEW b \in up, conn'[b].a = "start" \/ told'[b] = "adopted",
                      conn'[b].d = "closed", conn'[b].from \in up
               PROVE  conn'[b].from \in handed
    BY <1>1 DEF DonorKnows, From
  <2>1. b \in Procs
    BY <1>2
  <2>2. CASE b = a
    BY <1>1, <1>3, <2>2 DEF ToldInv, DonorKnows, From
  <2>3. CASE b # a
    BY <1>1, <2>1, <2>3 DEF ToldInv, DonorKnows, From
  <2> QED  BY <2>2, <2>3
<1>9. DonorKeeps'
  <2> SUFFICES ASSUME NEW b \in Procs, conn'[b].a = "drain" \/ told'[b] \in {"failed", "stalled"},
                      conn'[b].from \in up \ handed
               PROVE  conn'[b].offered \subseteq map'[conn'[b].from]
    BY <1>1 DEF DonorKeeps, From
  <2>1. b # a
    BY <1>1, <1>3
  <2>2. conn[b].offered \subseteq map[conn[b].from] /\ conn[b].from \in Procs
    BY <1>1, <1>2, <2>1 DEF ToldInv, DonorKeeps, From
  <2> QED  BY <1>1, <1>6, <2>1, <2>2
<1> QED  BY <1>7, <1>8, <1>9 DEF ToldInv

LEMMA NextTold ==
  ASSUME HandoffInv, ToldInv, [HandoffNext]_handoffVars PROVE ToldInv'
<1>1. ASSUME NEW a \in Procs, Freezing(a) PROVE ToldInv'
  BY <1>1, OthersUntold, UntoldKeeps
<1>2. ASSUME NEW a \in Procs, DonatesOn(a) PROVE ToldInv'
  BY <1>2, DonatesUntold, UntoldKeeps
<1>3. ASSUME NEW a \in Procs, Adopter(a) PROVE ToldInv'
  <2>1. CASE Reports(a)
    BY <2>1, ReportsTold
  <2>2. CASE Starts(a)
    BY <2>2, StartsTold
  <2>3. CASE ~Reports(a) /\ ~Starts(a)
    BY <1>3, <2>3, AdoptsUntold, UntoldKeeps DEF Adopter
  <2> QED  BY <2>1, <2>2, <2>3
<1>4. ASSUME NEW a \in Procs, NEW d \in Procs, Adopt(a, d) PROVE ToldInv'
  BY <1>4, AdoptTold
<1>5. ASSUME NEW p \in Procs, Dies(p) \/ Stops(p) PROVE ToldInv'
  BY <1>5, GoneUntold, UntoldKeeps
<1>6. ASSUME NEW p \in Procs, NEW s \in Sessions, Spawns(p, s) PROVE ToldInv'
  BY <1>6, OthersUntold, UntoldKeeps
<1>7. CASE UNCHANGED handoffVars
  BY <1>7, OthersUntold, UntoldKeeps
<1> QED  BY <1>1, <1>2, <1>3, <1>4, <1>5, <1>6, <1>7 DEF HandoffNext

(* "All or nothing": an adoption told done has every session, and a donor  *)
(* that closed has none of them; one told failed left them with the donor, *)
(* live once it has closed, which a failure told before drain timed out    *)
(* says too, unless another handoff of it is under way.                    *)
THEOREM ToldIsTrueHolds == VorndWaits = "close" => (HandoffSpec => []ToldIsTrue)
<1> SUFFICES ASSUME VorndWaits = "close" PROVE HandoffSpec => []ToldIsTrue
  OBVIOUS
<1>1. HandoffInv /\ ToldInv /\ [HandoffNext]_handoffVars => ToldInv'
  BY NextTold
<1>2. HandoffSpec => []ToldInv
  BY <1>1, InitTold, HandoffInvariant, PTL DEF HandoffSpec
<1>3. HandoffInv /\ ToldInv => ToldIsTrue
  <2> SUFFICES ASSUME HandoffInv, ToldInv, NEW a \in up
               PROVE  /\ told[a] = "adopted" =>
                           /\ a \notin handing \cup handed => conn[a].offered \subseteq Live(a)
                           /\ From(a) \in up /\ ~DonorOpen(a) => conn[a].offered \cap map[From(a)] = {}
                      /\ told[a] \in {"failed", "stalled"} /\ From(a) \in up \ handed /\ ~NextHandoff(a) =>
                           /\ conn[a].offered \subseteq map[From(a)]
                           /\ told[a] = "failed" \/ ~DonorOpen(a) => conn[a].offered \subseteq Live(From(a))
    BY DEF ToldIsTrue
  <2>a. /\ Ended /\ DonorKnows /\ DonorKeeps /\ HandedEmpty /\ FrozenByDonor
        /\ up \subseteq Procs /\ \A b \in Procs : conn[b].d \in Donating => From(b) \in handing
    <3>1. \A b \in Procs : conn[b].d \in Donating => From(b) \in handing
      BY AtWork DEF Active, Good, Ends, From, Donating
    <3> QED  BY <3>1 DEF HandoffInv, ToldInv, Typed
  <2>1. ASSUME told[a] = "adopted", a \notin handing \cup handed PROVE conn[a].offered \subseteq Live(a)
    <3>1. frozen[a] = {}
      BY <2>a, <2>1 DEF FrozenByDonor
    <3> QED  BY <2>a, <2>1, <3>1 DEF Ended, Live
  <2>2. ASSUME told[a] = "adopted", From(a) \in up, ~DonorOpen(a)
        PROVE  conn[a].offered \cap map[From(a)] = {}
    BY <2>a, <2>2 DEF DonorKnows, HandedEmpty, DonorOpen
  <2>3. ASSUME told[a] \in {"failed", "stalled"}, From(a) \in up \ handed
        PROVE  conn[a].offered \subseteq map[From(a)]
    BY <2>a, <2>3 DEF DonorKeeps
  <2>4. ASSUME told[a] \in {"failed", "stalled"}, From(a) \in up \ handed, ~NextHandoff(a),
               told[a] = "failed" \/ ~DonorOpen(a)
        PROVE  conn[a].offered \subseteq Live(From(a))
    <3>1. frozen[From(a)] = {}
      <4>1. conn[a].d = "closed"
        BY <2>a, <2>4 DEF Ended, DonorOpen
      <4> QED  BY <2>a, <2>4, <4>1 DEF FrozenByDonor, NextHandoff, DonorOpen, Donating
    <3> QED  BY <2>3, <2>4, <3>1 DEF Live
  <2> QED  BY <2>1, <2>2, <2>3, <2>4
<1> QED  BY <1>2, <1>3, HandoffInvariant, PTL

=============================================================================
