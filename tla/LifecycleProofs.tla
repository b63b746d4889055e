---------------------------- MODULE LifecycleProofs ----------------------------
(* What the lives of objects promise for any objects, controllers, descriptor *)
(* numbers and frames.                                                        *)
EXTENDS Lifecycle, TLAPS, WellFoundedInduction

-----------------------------------------------------------------------------
(* The inductive invariant. *)

InTransit(o) == life[o] \in Constructing \union Destroying

\* A thread runs from its start to its end within the life of its object.
Threads ==
  \A o \in Objects :
    /\ life[o] \in Constructing \union {"none", "failed", "leaked"} => reader[o] = "none"
    /\ life[o] = "gone" => reader[o] = "done"

\* A socket is behind the descriptor its object remembers and behind no other.
Held ==
  /\ \A o \in Objects : life[o] = "none" => \A d \in Descriptors : open[d] # o
  /\ \A d \in Descriptors : open[d] # None => soc[open[d]] = d

\* One constructor or destructor at a time: then a closed descriptor stays
\* free until its reader thread has ended, and no thread waits elsewhere.
OneByOne ==
  ~overlap =>
    /\ \A o, p \in Objects : InTransit(o) /\ InTransit(p) => o = p
    /\ \A o \in Objects : life[o] = "closed" => Socket(o) = None
    /\ \A o \in Objects : reader[o] \in Objects => reader[o] = o

IndInv ==
  /\ Ownership /\ OwnsSocketInTurn
  /\ Threads /\ Held /\ OneByOne

-----------------------------------------------------------------------------
(* Descriptors. *)

\* The kernel finds a lowest number in any set of free ones.
LEMMA LowestFacts ==
  ASSUME NEW S \in SUBSET Nat, S # {}
  PROVE  Lowest(S) \in S
PROOF
<1> DEFINE below == OpToRel(<, Nat)
<1>1. IsWellFoundedOn(below, Nat)
  BY NatLessThanWellFounded, Zenon
<1>2. \A x, y \in Nat : x < y => <<x, y>> \in below
  BY DEF OpToRel
<1> HIDE DEF below
<1>3. PICK d \in S : \A e \in S : ~ (<<e, d>> \in below)
  BY <1>1, WFMin
<1>4. \A x, y \in Nat : x <= y \/ <<y, x>> \in below
  BY <1>2
<1>5. \A e \in S : d <= e
  BY <1>3, <1>4
<1> QED BY <1>5 DEF Lowest

\* The socket behind a descriptor number.
LEMMA SocketFacts ==
  ASSUME TypeOK, NEW o \in Objects
  PROVE  /\ Socket(o) \in Objects \union {None}
         /\ None \notin Objects
         /\ Socket(o) # None => soc[o] \in Descriptors /\ Socket(o) = open[soc[o]]
PROOF BY NamesAssumption DEF TypeOK, Socket

-----------------------------------------------------------------------------
(* The initial states. *)

LEMMA InitInv == Init => IndInv
PROOF
<1> SUFFICES ASSUME Init PROVE IndInv
  OBVIOUS
<1> USE DEF Init
<1>1. /\ life \in [Objects -> Lives] /\ soc \in [Objects -> Descriptors \union {-1}]
      /\ reader \in [Objects -> {"none", "start", "loop", "enter", "select", "read", "done"} \union Objects]
  BY DEF Lives
<1>2. /\ run \in [Objects -> BOOLEAN] /\ nonblock \in [Objects -> BOOLEAN]
      /\ filtered \in [Objects -> BOOLEAN] /\ strayed \in BOOLEAN /\ overlap \in BOOLEAN
  OBVIOUS
<1>3. /\ open \in [Descriptors -> Objects \union {None}]
      /\ watched \in [Objects -> Objects \union {None}]
      /\ cached \in [Objects -> SUBSET Devices]
  OBVIOUS
<1>4. /\ rxQueue \in [Objects -> Seq(Devices)] /\ frames \in 0..MaxFrames
      /\ \A s \in Objects : Len(rxQueue[s]) <= QueueBound
  BY BoundsAssumption
<1>5. TypeOK
  BY <1>1, <1>2, <1>3, <1>4 DEF TypeOK
<1>6. DescriptorsOwned /\ ReaderWithinLife /\ Threads
  BY NamesAssumption
     DEF DescriptorsOwned, ReaderWithinLife, Threads, Constructing
<1>7. Held /\ OwnsSocketInTurn
  BY NamesAssumption DEF Held, OwnsSocketInTurn
<1>8. OneByOne
  BY NamesAssumption DEF OneByOne, InTransit, Constructing, Destroying, None
<1> QED BY <1>5, <1>6, <1>7, <1>8 DEF IndInv, Ownership

-----------------------------------------------------------------------------
(* Constructors and destructors. *)

\* What every step of a constructor or destructor does and leaves alone.
LEMMA AppFacts ==
  ASSUME TypeOK, NEW o \in Objects, AppStep(o)
  PROVE  /\ UNCHANGED <<nonblock, rxQueue, cached, strayed, watched, frames>>
         /\ life' \in [Objects -> Lives]
         /\ \A p \in Objects \ {o} : life'[p] = life[p]
         /\ run' \in [Objects -> BOOLEAN] /\ filtered' \in [Objects -> BOOLEAN]
         /\ reader' \in [Objects -> {"none", "start", "loop", "enter", "select", "read", "done"} \union Objects]
         /\ \A p \in Objects \ {o} : reader'[p] = reader[p]
         /\ reader'[o] = reader[o] \/ (life[o] = "filtered" /\ reader'[o] = "start")
PROOF
<1>1. UNCHANGED <<nonblock, rxQueue, cached, strayed, watched, frames>>
  BY DEF AppStep, Open, OpenFails, SetupFails, Bind, Filter, StartReader, ThreadFails,
         Stop, Close, Join
<1>2. /\ life \in [Objects -> Lives] /\ run \in [Objects -> BOOLEAN]
      /\ filtered \in [Objects -> BOOLEAN]
      /\ reader \in [Objects -> {"none", "start", "loop", "enter", "select", "read", "done"} \union Objects]
  BY DEF TypeOK
<1>3. \E l \in Lives : life' = [life EXCEPT ![o] = l]
  BY DEF AppStep, Open, OpenFails, SetupFails, Bind, Filter, StartReader, ThreadFails,
         Stop, Close, Join, Lives, Constructing, Destroying
<1>4. run' = run \/ run' = [run EXCEPT ![o] = FALSE]
  BY DEF AppStep, Open, OpenFails, SetupFails, Bind, Filter, StartReader, ThreadFails,
         Stop, Close, Join
<1>5. filtered' = filtered \/ \E b \in BOOLEAN : filtered' = [filtered EXCEPT ![o] = b]
  BY DEF AppStep, Open, OpenFails, SetupFails, Bind, Filter, StartReader, ThreadFails,
         Stop, Close, Join
<1>6. reader' = reader \/ (life[o] = "filtered" /\ reader' = [reader EXCEPT ![o] = "start"])
  BY DEF AppStep, Open, OpenFails, SetupFails, Bind, Filter, StartReader, ThreadFails,
         Stop, Close, Join
<1>7. /\ life' \in [Objects -> Lives]
      /\ \A p \in Objects \ {o} : life'[p] = life[p]
  BY <1>2, <1>3
<1>8. run' \in [Objects -> BOOLEAN]
  BY <1>2, <1>4
<1>9. filtered' \in [Objects -> BOOLEAN]
  BY <1>2, <1>5
<1>10. /\ reader' \in [Objects -> {"none", "start", "loop", "enter", "select", "read", "done"} \union Objects]
       /\ \A p \in Objects \ {o} : reader'[p] = reader[p]
       /\ reader'[o] = reader[o] \/ (life[o] = "filtered" /\ reader'[o] = "start")
  BY <1>2, <1>6
<1> QED BY <1>1, <1>7, <1>8, <1>9, <1>10

\* A step that does not overlap with another constructor or destructor.
LEMMA OverlapFacts ==
  ASSUME TypeOK, NEW o \in Objects, AppStep(o)
  PROVE  /\ overlap' \in BOOLEAN
         /\ ~overlap' => ~overlap /\ \A p \in Objects \ {o} : ~InTransit(p)
PROOF
<1>1. overlap \in BOOLEAN
  BY DEF TypeOK
<1>2. overlap' = (overlap \/ \E p \in Objects \ {o} : life[p] \in Constructing \union Destroying)
  BY DEF AppStep
<1>3. CASE overlap
  BY <1>2, <1>3, Zenon
<1>4. CASE ~overlap /\ \E p \in Objects \ {o} : life[p] \in Constructing \union Destroying
  BY <1>2, <1>4, Zenon
<1>5. CASE ~overlap /\ ~\E p \in Objects \ {o} : life[p] \in Constructing \union Destroying
  BY <1>2, <1>5, Zenon DEF InTransit
<1> QED BY <1>3, <1>4, <1>5

\* The places between which a step moves an object: it opens a descriptor,
\* closes it, or touches none.
Opens(o) ==
  /\ life[o] = "none" /\ life'[o] = "open"
  /\ Free # {} /\ soc' = [soc EXCEPT ![o] = Lowest(Free)]
  /\ open' = [open EXCEPT ![Lowest(Free)] = o]
Closes(o) ==
  /\ \/ life[o] = "open" /\ life'[o] = "failed"
     \/ life[o] = "stopped" /\ life'[o] = "closed"
  /\ soc' = soc /\ open' = [open EXCEPT ![soc[o]] = None]
Keeps(o) ==
  /\ \/ life[o] = "none" /\ life'[o] = "failed"
     \/ life[o] = "open" /\ life'[o] = "bound"
     \/ life[o] = "bound" /\ life'[o] = "filtered"
     \/ life[o] = "filtered" /\ life'[o] \in {"alive", "leaked"}
     \/ life[o] = "alive" /\ life'[o] = "stopped"
     \/ life[o] = "closed" /\ life'[o] = "gone" /\ reader[o] = "done"
  /\ soc' = soc /\ open' = open

LEMMA Moves ==
  ASSUME TypeOK, NEW o \in Objects, AppStep(o)
  PROVE  /\ Opens(o) \/ Closes(o) \/ Keeps(o)
         /\ reader'[o] # reader[o] => life'[o] = "alive"
PROOF
<1>1. life \in [Objects -> Lives] /\ reader \in [Objects -> {"none", "start", "loop", "enter", "select", "read", "done"} \union Objects]
  BY DEF TypeOK
<1>2. CASE Open(o)
  BY <1>1, <1>2 DEF Open, Opens
<1>3. CASE SetupFails(o) \/ Close(o)
  BY <1>1, <1>3 DEF SetupFails, Close, Closes
<1>4. CASE OpenFails(o) \/ Bind(o) \/ Filter(o)
  BY <1>1, <1>4 DEF OpenFails, Bind, Filter, Keeps
<1>5. CASE StartReader(o) \/ ThreadFails(o) \/ Stop(o) \/ Join(o)
  BY <1>1, <1>5 DEF StartReader, ThreadFails, Stop, Join, Keeps
<1> QED BY <1>2, <1>3, <1>4, <1>5 DEF AppStep

LEMMA AppInv == ASSUME IndInv, NEW o \in Objects, AppStep(o) PROVE IndInv'
PROOF
<1>1. TypeOK
  BY DEF IndInv, Ownership
<1>2. /\ UNCHANGED <<nonblock, rxQueue, cached, strayed, watched, frames>>
      /\ life' \in [Objects -> Lives]
      /\ \A p \in Objects \ {o} : life'[p] = life[p]
      /\ run' \in [Objects -> BOOLEAN] /\ filtered' \in [Objects -> BOOLEAN]
      /\ reader' \in [Objects -> {"none", "start", "loop", "enter", "select", "read", "done"} \union Objects]
      /\ \A p \in Objects \ {o} : reader'[p] = reader[p]
      /\ reader'[o] = reader[o] \/ (life[o] = "filtered" /\ reader'[o] = "start")
  BY <1>1, AppFacts
<1>3. /\ overlap' \in BOOLEAN
      /\ ~overlap' => ~overlap /\ \A p \in Objects \ {o} : ~InTransit(p)
  BY <1>1, OverlapFacts
<1>4. /\ Opens(o) \/ Closes(o) \/ Keeps(o)
      /\ reader'[o] # reader[o] => life'[o] = "alive"
  BY <1>1, Moves
<1>5. /\ soc \in [Objects -> Descriptors \union {-1}]
      /\ open \in [Descriptors -> Objects \union {None}]
      /\ None \notin Objects /\ Descriptors \subseteq Nat
  BY <1>1, NamesAssumption, DescriptorsAssumption DEF TypeOK
<1>6. /\ \A p \in Objects :
           life[p] \in Constructing \union {"alive", "stopped", "leaked"} =>
             soc[p] \in Descriptors /\ open[soc[p]] = p
      /\ \A p \in Objects : life[p] \in {"none", "closed", "gone", "failed"} =>
           \A d \in Descriptors : open[d] # p
      /\ \A d \in Descriptors : open[d] # None => soc[open[d]] = d
  BY <1>5 DEF IndInv, Ownership, DescriptorsOwned, Held, Socket
<1>7. Threads
  BY DEF IndInv
<1>8. Threads'
  BY <1>2, <1>4, <1>7 DEF Threads, Opens, Closes, Keeps, Constructing
\* Descriptors.
<1>9. /\ soc' \in [Objects -> Descriptors \union {-1}]
      /\ open' \in [Descriptors -> Objects \union {None}]
      /\ \A p \in Objects :
           life'[p] \in Constructing \union {"alive", "stopped", "leaked"} =>
             soc'[p] \in Descriptors /\ open'[soc'[p]] = p
      /\ \A p \in Objects : life'[p] \in {"none", "closed", "gone", "failed"} =>
           \A d \in Descriptors : open'[d] # p
      /\ \A d \in Descriptors : open'[d] # None => soc'[open'[d]] = d
  <2>1. CASE Opens(o)
    <3>1. Lowest(Free) \in Descriptors /\ open[Lowest(Free)] = None
      <4>1. Free \in SUBSET Nat /\ Free # {}
        BY <1>5, <2>1 DEF Opens, Free
      <4>2. Lowest(Free) \in Free
        BY <4>1, LowestFacts
      <4> QED BY <4>2 DEF Free
    <3> DEFINE low == Lowest(Free)
    <3>2. /\ soc' = [soc EXCEPT ![o] = low] /\ open' = [open EXCEPT ![low] = o]
          /\ life[o] = "none" /\ life'[o] = "open"
      BY <2>1 DEF Opens
    <3> HIDE DEF low
    <3>3. low \in Descriptors /\ open[low] = None
      BY <3>1 DEF low
    <3>4. /\ soc' \in [Objects -> Descriptors \union {-1}]
          /\ open' \in [Descriptors -> Objects \union {None}]
          /\ soc'[o] = low /\ \A p \in Objects \ {o} : soc'[p] = soc[p]
          /\ open'[low] = o /\ \A d \in Descriptors \ {low} : open'[d] = open[d]
      BY <1>5, <3>2, <3>3
    <3> QED BY <1>2, <1>5, <1>6, <3>2, <3>3, <3>4 DEF Constructing
  <2>2. CASE Closes(o)
    <3>1. /\ life[o] \in Constructing \union {"stopped"} /\ life'[o] \in {"failed", "closed"}
          /\ soc' = soc /\ open' = [open EXCEPT ![soc[o]] = None]
      BY <2>2 DEF Closes, Constructing
    <3>2. soc[o] \in Descriptors /\ open[soc[o]] = o
      BY <1>6, <3>1
    <3>3. /\ open' \in [Descriptors -> Objects \union {None}]
          /\ open'[soc[o]] = None /\ \A d \in Descriptors \ {soc[o]} : open'[d] = open[d]
      BY <1>5, <3>1, <3>2
    <3> QED BY <1>2, <1>5, <1>6, <3>1, <3>2, <3>3 DEF Constructing
  <2>3. CASE Keeps(o)
    BY <1>2, <1>5, <1>6, <2>3 DEF Keeps, Constructing
  <2> QED BY <1>4, <2>1, <2>2, <2>3
<1>10. TypeOK'
  BY <1>1, <1>2, <1>3, <1>9 DEF TypeOK
<1>11. DescriptorsOwned' /\ Held'
  <2>1. DescriptorsOwned'
    BY <1>9 DEF DescriptorsOwned, Socket
  <2>2. Held'
    BY <1>9 DEF Held
  <2> QED BY <2>1, <2>2
<1>12. ReaderWithinLife'
  BY <1>8 DEF Threads, ReaderWithinLife
<1>13. OwnsSocketInTurn'
  BY <1>2, <1>3 DEF IndInv, OwnsSocketInTurn
<1>14. OneByOne'
  <2> SUFFICES ASSUME ~overlap'
               PROVE  /\ \A q, p \in Objects : InTransit(q)' /\ InTransit(p)' => q = p
                      /\ \A p \in Objects : life'[p] = "closed" => Socket(p)' = None
                      /\ \A p \in Objects : reader'[p] \in Objects => reader'[p] = p
    BY DEF OneByOne
  <2>1. \A p \in Objects \ {o} : life'[p] \notin Constructing \union Destroying
    BY <1>2, <1>3 DEF InTransit
  <2>2. \A q, p \in Objects : InTransit(q)' /\ InTransit(p)' => q = p
    BY <2>1 DEF InTransit
  <2>3. \A p \in Objects : life'[p] = "closed" => Socket(p)' = None
    <3> SUFFICES ASSUME life'[o] = "closed" PROVE Socket(o)' = None
      BY <2>1 DEF Destroying
    <3>1. Closes(o) /\ life[o] = "stopped"
      BY <1>4 DEF Opens, Closes, Keeps
    <3>2. soc[o] \in Descriptors /\ soc' = soc /\ open'[soc[o]] = None
      BY <1>5, <1>6, <3>1 DEF Closes
    <3> QED BY <3>2 DEF Socket
  <2>4. \A p \in Objects : reader'[p] \in Objects => reader'[p] = p
    BY <1>2, <1>3, NamesAssumption DEF IndInv, OneByOne
  <2> QED BY <2>2, <2>3, <2>4
<1> QED
  BY <1>8, <1>10, <1>11, <1>12, <1>13, <1>14 DEF IndInv, Ownership

-----------------------------------------------------------------------------
(* Reader threads. *)

Places == {"loop", "enter", "select", "read", "done"}

\* Taking a frame of socket s.
LEMMA TakeFacts ==
  ASSUME TypeOK, NEW o \in Objects, NEW s \in Objects, Take(o, s)
  PROVE  /\ rxQueue' \in [Objects -> Seq(Devices)]
         /\ \A q \in Objects : Len(rxQueue'[q]) <= QueueBound
         /\ cached' \in [Objects -> SUBSET Devices]
         /\ strayed' \in BOOLEAN /\ (s = o => strayed' = strayed)
         /\ reader' = [reader EXCEPT ![o] = "loop"]
         /\ UNCHANGED <<life, soc, run, open, nonblock, filtered, watched, frames>>
PROOF
<1>1. /\ rxQueue \in [Objects -> Seq(Devices)] /\ cached \in [Objects -> SUBSET Devices]
      /\ \A q \in Objects : Len(rxQueue[q]) <= QueueBound
      /\ strayed \in BOOLEAN
  BY DEF TypeOK
<1>2. /\ rxQueue[s] # <<>> /\ rxQueue' = [rxQueue EXCEPT ![s] = Tail(rxQueue[s])]
      /\ cached' = IF Handled(o, Head(rxQueue[s]))
                   THEN [cached EXCEPT ![o] = cached[o] \union {Head(rxQueue[s])}] ELSE cached
      /\ reader' = [reader EXCEPT ![o] = "loop"]
      /\ UNCHANGED <<life, soc, run, open, nonblock, filtered, watched, frames>>
  BY DEF Take
<1>3. strayed' = (strayed \/ s # o)
  BY DEF Take
<1>4. strayed' \in BOOLEAN /\ (s = o => strayed' = strayed)
  BY <1>1, <1>3, Zenon
<1>5. /\ Tail(rxQueue[s]) \in Seq(Devices) /\ Len(Tail(rxQueue[s])) <= QueueBound
      /\ Head(rxQueue[s]) \in Devices
  <2>1. rxQueue[s] \in Seq(Devices) /\ Len(rxQueue[s]) <= QueueBound
    BY <1>1
  <2> QED BY <1>2, <2>1, BoundsAssumption
<1>6. /\ rxQueue' \in [Objects -> Seq(Devices)]
      /\ \A q \in Objects : Len(rxQueue'[q]) <= QueueBound
  BY <1>1, <1>2, <1>5
<1>7. cached' \in [Objects -> SUBSET Devices]
  BY <1>1, <1>2, <1>5
<1> QED BY <1>2, <1>4, <1>6, <1>7

\* What every step of a reader thread does and leaves alone.  It reads the
\* socket behind its descriptor or the one it has been blocked on.
LEMMA ReaderFacts ==
  ASSUME TypeOK, NEW o \in Objects, ReaderStep(o)
  PROVE  /\ UNCHANGED <<life, soc, run, open, filtered, overlap, frames>>
         /\ reader[o] \notin {"none", "done"}
         /\ \E r \in Places \union Objects :
              /\ reader' = [reader EXCEPT ![o] = r]
              /\ r \in Objects => r = Socket(o)
         /\ nonblock' \in [Objects -> BOOLEAN]
         /\ watched' \in [Objects -> Objects \union {None}]
         /\ rxQueue' \in [Objects -> Seq(Devices)]
         /\ \A q \in Objects : Len(rxQueue'[q]) <= QueueBound
         /\ cached' \in [Objects -> SUBSET Devices]
         /\ strayed' \in BOOLEAN
         /\ (reader[o] \in Objects \union {"read"} =>
               Socket(o) \in {o, None} /\ reader[o] \in {o, "read"}) => strayed' = strayed
PROOF
<1>1. UNCHANGED overlap
  BY DEF ReaderStep
<1>2. /\ rxQueue \in [Objects -> Seq(Devices)] /\ cached \in [Objects -> SUBSET Devices]
      /\ \A q \in Objects : Len(rxQueue[q]) <= QueueBound
      /\ strayed \in BOOLEAN /\ nonblock \in [Objects -> BOOLEAN]
      /\ watched \in [Objects -> Objects \union {None}]
  BY DEF TypeOK
<1>3. /\ Socket(o) \in Objects \union {None} /\ None \notin Objects
      /\ {"start", "loop", "enter", "select", "read", "done"} \intersect Objects = {}
  BY SocketFacts, NamesAssumption
<1>4. CASE SetNonblock(o)
  <2>1. /\ reader[o] = "start" /\ reader' = [reader EXCEPT ![o] = "loop"]
        /\ UNCHANGED <<life, soc, run, open, rxQueue, filtered, cached, strayed, watched, frames>>
    BY <1>4 DEF SetNonblock
  <2>2. nonblock' = [s \in Objects |-> nonblock[s] \/ s = Socket(o)]
    BY <1>4 DEF SetNonblock
  <2>3. nonblock' \in [Objects -> BOOLEAN]
    BY <2>2
  <2> QED BY <1>1, <1>2, <1>3, <2>1, <2>3 DEF Places
<1>5. CASE Leave(o) \/ KeepsRunning(o) \/ ReadNothing(o) \/ ReadBlocks(o)
  <2>1. UNCHANGED <<life, soc, run, open, nonblock, rxQueue, filtered, cached, strayed, watched, frames>>
    BY <1>5 DEF Leave, KeepsRunning, ReadNothing, ReadBlocks
  <2>2. /\ reader[o] \notin {"none", "done"}
        /\ \E r \in Places \union Objects :
              /\ reader' = [reader EXCEPT ![o] = r]
              /\ r \in Objects => r = Socket(o)
    BY <1>3, <1>5 DEF Leave, KeepsRunning, ReadNothing, ReadBlocks, Places
  <2> QED BY <1>1, <1>2, <2>1, <2>2
<1>6. CASE EnterSelect(o) \/ SelectReady(o) \/ SelectNothing(o)
  <2>1. /\ reader[o] \in {"enter", "select"}
        /\ \E r \in Places : reader' = [reader EXCEPT ![o] = r]
        /\ \E s \in {Socket(o), None} : watched' = [watched EXCEPT ![o] = s]
        /\ UNCHANGED <<life, soc, run, open, nonblock, rxQueue, filtered, cached, strayed, frames>>
    BY <1>6 DEF EnterSelect, SelectReady, SelectNothing, Places
  <2>2. watched' \in [Objects -> Objects \union {None}]
    BY <1>2, <1>3, <2>1
  <2> QED BY <1>1, <1>2, <1>3, <2>1, <2>2 DEF Places
<1>7. ASSUME NEW s \in Objects, Take(o, s),
             (reader[o] = "read" /\ s = Socket(o)) \/ reader[o] = s
      PROVE  /\ UNCHANGED <<life, soc, run, open, nonblock, filtered, watched, overlap, frames>>
             /\ reader[o] \notin {"none", "done"}
             /\ \E r \in Places \union Objects :
                  /\ reader' = [reader EXCEPT ![o] = r]
                  /\ r \in Objects => r = Socket(o)
             /\ rxQueue' \in [Objects -> Seq(Devices)]
             /\ \A q \in Objects : Len(rxQueue'[q]) <= QueueBound
             /\ cached' \in [Objects -> SUBSET Devices]
                 /\ strayed' \in BOOLEAN
             /\ (reader[o] \in Objects \union {"read"} =>
                   Socket(o) \in {o, None} /\ reader[o] \in {o, "read"}) => strayed' = strayed
  <2>1. /\ rxQueue' \in [Objects -> Seq(Devices)]
        /\ \A q \in Objects : Len(rxQueue'[q]) <= QueueBound
        /\ cached' \in [Objects -> SUBSET Devices]
        /\ strayed' \in BOOLEAN /\ (s = o => strayed' = strayed)
        /\ reader' = [reader EXCEPT ![o] = "loop"]
        /\ UNCHANGED <<life, soc, run, open, nonblock, filtered, watched, frames>>
    BY <1>7, TakeFacts
  <2>2. reader[o] \notin {"none", "done"}
    BY <1>3, <1>7 DEF None
  <2>3. \E r \in Places \union Objects :
           /\ reader' = [reader EXCEPT ![o] = r]
           /\ r \in Objects => r = Socket(o)
    BY <1>3, <2>1 DEF Places
  <2>4. (reader[o] \in Objects \union {"read"} =>
           Socket(o) \in {o, None} /\ reader[o] \in {o, "read"}) => s = o
    BY <1>3, <1>7
  <2> QED BY <1>1, <2>1, <2>2, <2>3, <2>4
<1>8. CASE Read(o)
  <2>1. Socket(o) \in Objects /\ Take(o, Socket(o)) /\ reader[o] = "read"
    BY <1>3, <1>8 DEF Read
  <2> QED BY <1>2, <1>7, <2>1
<1>9. CASE ReadWakes(o)
  <2>1. reader[o] \in Objects /\ Take(o, reader[o])
    BY <1>9 DEF ReadWakes
  <2> QED BY <1>2, <1>7, <2>1
<1> QED BY <1>4, <1>5, <1>6, <1>8, <1>9 DEF ReaderStep

LEMMA ReaderInv == ASSUME IndInv, NEW o \in Objects, ReaderStep(o) PROVE IndInv'
PROOF
<1>1. TypeOK
  BY DEF IndInv, Ownership
<1>2. /\ UNCHANGED <<life, soc, run, open, filtered, overlap, frames>>
      /\ reader[o] \notin {"none", "done"}
      /\ nonblock' \in [Objects -> BOOLEAN]
      /\ watched' \in [Objects -> Objects \union {None}]
      /\ rxQueue' \in [Objects -> Seq(Devices)]
      /\ \A q \in Objects : Len(rxQueue'[q]) <= QueueBound
      /\ cached' \in [Objects -> SUBSET Devices]
      /\ strayed' \in BOOLEAN
  BY <1>1, ReaderFacts
<1>3. PICK r \in Places \union Objects :
        /\ reader' = [reader EXCEPT ![o] = r]
        /\ r \in Objects => r = Socket(o)
  BY <1>1, ReaderFacts
<1>4. (reader[o] \in Objects \union {"read"} =>
         Socket(o) \in {o, None} /\ reader[o] \in {o, "read"}) => strayed' = strayed
  BY <1>1, ReaderFacts
<1>5. /\ life \in [Objects -> Lives]
      /\ reader \in [Objects -> {"none", "start", "loop", "enter", "select", "read", "done"} \union Objects]
  BY <1>1 DEF TypeOK
<1>6. /\ reader' \in [Objects -> {"none", "start", "loop", "enter", "select", "read", "done"} \union Objects]
      /\ reader'[o] = r /\ \A p \in Objects \ {o} : reader'[p] = reader[p]
  BY <1>3, <1>5 DEF Places
<1>7. life[o] \in {"alive", "stopped", "closed"}
  BY <1>2, <1>5 DEF IndInv, Threads, Lives, Constructing, Destroying
<1>8. ~overlap => Socket(o) \in {o, None}
  BY <1>7 DEF IndInv, Ownership, DescriptorsOwned, OneByOne
<1>9. TypeOK'
  BY <1>1, <1>2, <1>6 DEF TypeOK
<1>10. Threads'
  BY <1>2, <1>6, <1>7 DEF IndInv, Threads, Constructing
<1>11. DescriptorsOwned' /\ Held'
  BY <1>2 DEF IndInv, Ownership, DescriptorsOwned, Held, Socket
<1>12. ReaderWithinLife'
  BY <1>10 DEF Threads, ReaderWithinLife
<1>13. OwnsSocketInTurn'
  BY <1>2, <1>4, <1>8 DEF IndInv, OwnsSocketInTurn, OneByOne
<1>14. OneByOne'
  <2> SUFFICES ASSUME ~overlap PROVE OneByOne'
    BY <1>2 DEF OneByOne
  <2>1. \A p \in Objects : reader'[p] \in Objects => reader'[p] = p
    BY <1>3, <1>6, <1>8, NamesAssumption DEF IndInv, OneByOne
  <2> QED BY <1>2, <2>1 DEF IndInv, OneByOne, InTransit, Socket
<1> QED
  BY <1>9, <1>10, <1>11, <1>12, <1>13, <1>14 DEF IndInv, Ownership

-----------------------------------------------------------------------------
(* The bus. *)

LEMMA BusInv == IndInv /\ Bus => IndInv'
PROOF
<1> SUFFICES ASSUME IndInv, Bus PROVE IndInv'
  OBVIOUS
<1>1. TypeOK
  BY DEF IndInv, Ownership
<1>2. PICK device \in Devices : Transmit(device)
  BY DEF Bus
<1>3. /\ frames < MaxFrames /\ frames' = frames + 1
      /\ rxQueue' = [s \in Objects |->
                       IF Receives(s, device) THEN Append(rxQueue[s], device) ELSE rxQueue[s]]
      /\ UNCHANGED <<life, soc, run, open, nonblock, reader, filtered, cached, strayed, watched, overlap>>
  BY <1>2 DEF Transmit, Bus
<1>4. /\ rxQueue \in [Objects -> Seq(Devices)]
      /\ \A s \in Objects : Len(rxQueue[s]) <= QueueBound
      /\ frames \in 0..MaxFrames
  BY <1>1 DEF TypeOK
<1>5. ASSUME NEW s \in Objects
      PROVE  rxQueue'[s] \in Seq(Devices) /\ Len(rxQueue'[s]) <= QueueBound
  <2>1. CASE Receives(s, device)
    <3>1. Len(rxQueue[s]) < QueueBound /\ rxQueue'[s] = Append(rxQueue[s], device)
      BY <1>3, <2>1 DEF Receives
    <3>2. rxQueue[s] \in Seq(Devices)
      BY <1>4
    <3> QED BY <3>1, <3>2, BoundsAssumption
  <2>2. CASE ~Receives(s, device)
    BY <1>3, <1>4, <2>2
  <2> QED BY <2>1, <2>2
<1>6. rxQueue' \in [Objects -> Seq(Devices)] /\ \A s \in Objects : Len(rxQueue'[s]) <= QueueBound
  BY <1>3, <1>5
<1>7. frames' \in 0..MaxFrames
  BY <1>3, <1>4, BoundsAssumption
<1>8. TypeOK'
  BY <1>1, <1>3, <1>6, <1>7 DEF TypeOK
<1> QED
  BY <1>3, <1>8 DEF IndInv, Ownership, ReaderWithinLife, DescriptorsOwned,
     OwnsSocketInTurn, Threads, Held, OneByOne, InTransit, Socket

-----------------------------------------------------------------------------
LEMMA NextInv == IndInv /\ [Next]_vars => IndInv'
PROOF
<1> SUFFICES ASSUME IndInv, [Next]_vars PROVE IndInv'
  OBVIOUS
<1>1. CASE UNCHANGED vars
  BY <1>1 DEF vars, IndInv, Ownership, TypeOK, ReaderWithinLife, DescriptorsOwned,
     OwnsSocketInTurn, Threads, Held, OneByOne, InTransit, Socket
<1> QED
  BY <1>1, AppInv, ReaderInv, BusInv DEF Next

LEMMA Inductive == Spec => []IndInv
PROOF BY InitInv, NextInv, PTL DEF Spec

-----------------------------------------------------------------------------
\* A reader thread ends before its object's members do, and nobody but an
\* object's own destructor closes its descriptor.
THEOREM Owns == Spec => []Ownership
PROOF
<1>1. IndInv => Ownership
  BY DEF IndInv
<1> QED BY <1>1, Inductive, PTL

\* One constructor or destructor at a time, each thread reads its own socket.
THEOREM InTurn == Spec => []OwnsSocketInTurn
PROOF
<1>1. IndInv => OwnsSocketInTurn
  BY DEF IndInv
<1> QED BY <1>1, Inductive, PTL
=============================================================================
