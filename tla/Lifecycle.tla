------------------------------- MODULE Lifecycle -------------------------------
(***************************************************************************)
(* Construction and destruction of SparkBase objects and their reader      *)
(* threads.  An object refers to its socket by a descriptor number; the    *)
(* destructor closes the descriptor BEFORE it joins the reader thread, and *)
(* the kernel gives the lowest free number to the next socket.  Between    *)
(* bind() and the installation of the receive filter a socket queues the   *)
(* frames of all controllers, and for good if setsockopt() fails, as its   *)
(* result is ignored.                                                      *)
(*                                                                         *)
(* A socket is named by the object that created it.                        *)
(***************************************************************************)
EXTENDS Integers, Sequences, FiniteSets

CONSTANTS
  Objects,      \* the objects created in a behaviour, each once
  Device,       \* the controller of each object
  Descriptors,  \* the descriptor numbers of the process
  QueueBound,   \* bound: frames in a socket's queue
  MaxFrames     \* bound: frames on the bus

ASSUME DescriptorsAssumption == Descriptors \subseteq Nat
ASSUME BoundsAssumption == QueueBound \in Nat /\ MaxFrames \in Nat

Devices == {Device[o] : o \in Objects}
None == "none"

\* No object is named like a place of its reader thread.
ASSUME NamesAssumption ==
  Objects \intersect {None, "start", "loop", "enter", "select", "read", "done"} = {}

\* The constructor and the destructor, statement by statement.
Constructing == {"open", "bound", "filtered"}
Destroying == {"stopped", "closed"}
Lives == {"none", "alive", "gone", "failed", "leaked"} \union Constructing \union Destroying

VARIABLES
  life,      \* where each object is in its life
  soc,       \* soc_: its descriptor
  run,       \* run_
  open,      \* the process's descriptor table: the socket behind each number
  nonblock,  \* O_NONBLOCK of each socket
  filtered,  \* whether each socket has its receive filter
  rxQueue,   \* the receive queue of each socket: the controllers' frames
  reader,    \* the reader thread of each object
  watched,   \* the socket its select() waits on, None outside of it
  cached,    \* the controllers whose frames each object has cached
  strayed,   \* history: a thread read a socket that is not its object's
  overlap,   \* history: two constructors or destructors ran at once
  frames     \* bound counter

vars == <<life, soc, run, open, nonblock, filtered, rxQueue, reader, watched, cached, strayed, overlap, frames>>

Init ==
  /\ life = [o \in Objects |-> "none"]
  /\ soc = [o \in Objects |-> -1]
  /\ run = [o \in Objects |-> TRUE]
  /\ open = [d \in Descriptors |-> None]
  /\ nonblock = [o \in Objects |-> FALSE]
  /\ filtered = [o \in Objects |-> FALSE]
  /\ rxQueue = [o \in Objects |-> <<>>]
  /\ reader = [o \in Objects |-> "none"]
  /\ watched = [o \in Objects |-> None]
  /\ cached = [o \in Objects |-> {}]
  /\ strayed = FALSE /\ overlap = FALSE
  /\ frames = 0

Free == {d \in Descriptors : open[d] = None}
Lowest(S) == CHOOSE d \in S : \A e \in S : d <= e

\* The socket behind an object's descriptor number, as of now.
Socket(o) == IF soc[o] \in Descriptors THEN open[soc[o]] ELSE None

-----------------------------------------------------------------------------
(* The constructor. *)

Open(o) ==
  /\ life[o] = "none" /\ Free # {}
  /\ soc' = [soc EXCEPT ![o] = Lowest(Free)]
  /\ open' = [open EXCEPT ![Lowest(Free)] = o]
  /\ life' = [life EXCEPT ![o] = "open"]
  /\ UNCHANGED <<run, nonblock, rxQueue, reader, filtered, cached, strayed, watched, frames>>

\* socket() fails: no CAN modules, no descriptors left.
OpenFails(o) ==
  /\ life[o] = "none"
  /\ life' = [life EXCEPT ![o] = "failed"]
  /\ UNCHANGED <<soc, run, open, nonblock, rxQueue, reader, filtered, cached, strayed, watched, frames>>

\* ioctl() or bind() fails: the socket is closed before the throw.
SetupFails(o) ==
  /\ life[o] = "open"
  /\ open' = [open EXCEPT ![soc[o]] = None]
  /\ life' = [life EXCEPT ![o] = "failed"]
  /\ UNCHANGED <<soc, run, nonblock, rxQueue, reader, filtered, cached, strayed, watched, frames>>

Bind(o) ==
  /\ life[o] = "open"
  /\ life' = [life EXCEPT ![o] = "bound"]
  /\ UNCHANGED <<soc, run, open, nonblock, rxQueue, reader, filtered, cached, strayed, watched, frames>>

\* The result of setsockopt() is ignored.
Filter(o) ==
  /\ life[o] = "bound"
  /\ \E installed \in BOOLEAN : filtered' = [filtered EXCEPT ![o] = installed]
  /\ life' = [life EXCEPT ![o] = "filtered"]
  /\ UNCHANGED <<soc, run, open, nonblock, rxQueue, reader, cached, strayed, watched, frames>>

StartReader(o) ==
  /\ life[o] = "filtered"
  /\ reader' = [reader EXCEPT ![o] = "start"]
  /\ life' = [life EXCEPT ![o] = "alive"]
  /\ UNCHANGED <<soc, run, open, nonblock, rxQueue, filtered, cached, strayed, watched, frames>>

\* std::thread throws: nobody closes the socket.
ThreadFails(o) ==
  /\ life[o] = "filtered"
  /\ life' = [life EXCEPT ![o] = "leaked"]
  /\ UNCHANGED <<soc, run, open, nonblock, rxQueue, reader, filtered, cached, strayed, watched, frames>>

-----------------------------------------------------------------------------
(* The destructor. *)

\* Mutant of Stop: the flag is not cleared.
StopForgetsFlag(o) ==
  /\ life[o] = "alive"
  /\ life' = [life EXCEPT ![o] = "stopped"]
  /\ UNCHANGED <<soc, run, open, nonblock, rxQueue, reader, filtered, cached, strayed, watched, frames>>

Stop(o) ==
  /\ life[o] = "alive"
  /\ run' = [run EXCEPT ![o] = FALSE]
  /\ life' = [life EXCEPT ![o] = "stopped"]
  /\ UNCHANGED <<soc, open, nonblock, rxQueue, reader, filtered, cached, strayed, watched, frames>>

Close(o) ==
  /\ life[o] = "stopped"
  /\ open' = [open EXCEPT ![soc[o]] = None]
  /\ life' = [life EXCEPT ![o] = "closed"]
  /\ UNCHANGED <<soc, run, nonblock, rxQueue, reader, filtered, cached, strayed, watched, frames>>

\* Mutants of Join: the thread is detached; the descriptor is closed again.
JoinDetached(o) ==
  /\ life[o] = "closed"
  /\ life' = [life EXCEPT ![o] = "gone"]
  /\ UNCHANGED <<soc, run, open, nonblock, rxQueue, reader, filtered, cached, strayed, watched, frames>>

JoinClosesAgain(o) ==
  /\ life[o] = "closed" /\ reader[o] = "done"
  /\ open' = [open EXCEPT ![soc[o]] = None]
  /\ life' = [life EXCEPT ![o] = "gone"]
  /\ UNCHANGED <<soc, run, nonblock, rxQueue, reader, filtered, cached, strayed, watched, frames>>

\* After join() the members are destroyed.
Join(o) ==
  /\ life[o] = "closed" /\ reader[o] = "done"
  /\ life' = [life EXCEPT ![o] = "gone"]
  /\ UNCHANGED <<soc, run, open, nonblock, rxQueue, reader, filtered, cached, strayed, watched, frames>>

-----------------------------------------------------------------------------
(* The reader thread.  Each call looks its descriptor up anew; a select() that *)
(* waits keeps the socket it found.                                            *)

SetNonblock(o) ==
  /\ reader[o] = "start"
  /\ nonblock' = [s \in Objects |-> nonblock[s] \/ s = Socket(o)]
  /\ reader' = [reader EXCEPT ![o] = "loop"]
  /\ UNCHANGED <<life, soc, run, open, rxQueue, filtered, cached, strayed, watched, frames>>

Leave(o) ==
  /\ reader[o] = "loop" /\ ~run[o]
  /\ reader' = [reader EXCEPT ![o] = "done"]
  /\ UNCHANGED <<life, soc, run, open, nonblock, rxQueue, filtered, cached, strayed, watched, frames>>

KeepsRunning(o) ==
  /\ reader[o] = "loop" /\ run[o]
  /\ reader' = [reader EXCEPT ![o] = "enter"]
  /\ UNCHANGED <<life, soc, run, open, nonblock, rxQueue, filtered, cached, strayed, watched, frames>>

EnterSelect(o) ==
  /\ reader[o] = "enter"
  /\ watched' = [watched EXCEPT ![o] = Socket(o)]
  /\ reader' = [reader EXCEPT ![o] = "select"]
  /\ UNCHANGED <<life, soc, run, open, nonblock, rxQueue, filtered, cached, strayed, frames>>

SelectReady(o) ==
  /\ reader[o] = "select" /\ watched[o] # None /\ rxQueue[watched[o]] # <<>>
  /\ reader' = [reader EXCEPT ![o] = "read"] /\ watched' = [watched EXCEPT ![o] = None]
  /\ UNCHANGED <<life, soc, run, open, nonblock, rxQueue, filtered, cached, strayed, frames>>

\* Timeout, or EBADF.
SelectNothing(o) ==
  /\ reader[o] = "select" /\ (watched[o] # None => rxQueue[watched[o]] = <<>>)
  /\ reader' = [reader EXCEPT ![o] = "loop"] /\ watched' = [watched EXCEPT ![o] = None]
  /\ UNCHANGED <<life, soc, run, open, nonblock, rxQueue, filtered, cached, strayed, frames>>

\* The dispatch compares the whole id: only this object's controller counts.
Handled(o, device) == device = Device[o]

\* Mutant of Take: a frame of another controller ends the loop.
TakeStopsAtForeign(o, s) ==
  /\ rxQueue[s] # <<>>
  /\ rxQueue' = [rxQueue EXCEPT ![s] = Tail(@)]
  /\ cached' = IF Handled(o, Head(rxQueue[s]))
               THEN [cached EXCEPT ![o] = @ \union {Head(rxQueue[s])}] ELSE cached
  /\ strayed' = (strayed \/ s # o)
  /\ reader' = [reader EXCEPT ![o] = IF Handled(o, Head(rxQueue[s])) THEN "loop" ELSE "done"]
  /\ UNCHANGED <<life, soc, run, open, nonblock, filtered, watched, frames>>

Take(o, s) ==
  /\ rxQueue[s] # <<>>
  /\ rxQueue' = [rxQueue EXCEPT ![s] = Tail(@)]
  /\ cached' = IF Handled(o, Head(rxQueue[s]))
               THEN [cached EXCEPT ![o] = @ \union {Head(rxQueue[s])}] ELSE cached
  /\ strayed' = (strayed \/ s # o)
  /\ reader' = [reader EXCEPT ![o] = "loop"]
  /\ UNCHANGED <<life, soc, run, open, nonblock, filtered, watched, frames>>

Read(o) == reader[o] = "read" /\ Socket(o) # None /\ Take(o, Socket(o))

\* EBADF or EAGAIN.
ReadNothing(o) ==
  /\ reader[o] = "read"
  /\ (Socket(o) # None => rxQueue[Socket(o)] = <<>> /\ nonblock[Socket(o)])
  /\ reader' = [reader EXCEPT ![o] = "loop"]
  /\ UNCHANGED <<life, soc, run, open, nonblock, rxQueue, filtered, cached, strayed, watched, frames>>

\* A read of an empty blocking socket waits for a frame of that socket.
ReadBlocks(o) ==
  /\ reader[o] = "read" /\ Socket(o) # None
  /\ rxQueue[Socket(o)] = <<>> /\ ~nonblock[Socket(o)]
  /\ reader' = [reader EXCEPT ![o] = Socket(o)]
  /\ UNCHANGED <<life, soc, run, open, nonblock, rxQueue, filtered, cached, strayed, watched, frames>>

ReadWakes(o) == reader[o] \in Objects /\ Take(o, reader[o])

-----------------------------------------------------------------------------
(* The bus (external): a frame reaches each socket whose filter admits it. *)

Receives(s, device) ==
  /\ s \in {open[d] : d \in Descriptors}
  /\ life[s] # "open"
  /\ filtered[s] => Device[s] = device
  /\ Len(rxQueue[s]) < QueueBound

Transmit(device) ==
  /\ frames < MaxFrames /\ frames' = frames + 1
  /\ rxQueue' = [s \in Objects |->
                   IF Receives(s, device) THEN Append(rxQueue[s], device) ELSE rxQueue[s]]
  /\ UNCHANGED <<life, soc, run, open, nonblock, reader, filtered, cached, strayed, watched>>

-----------------------------------------------------------------------------
AppStep(o) ==
  /\ \/ Open(o) \/ OpenFails(o) \/ SetupFails(o) \/ Bind(o) \/ Filter(o)
     \/ StartReader(o) \/ ThreadFails(o) \/ Stop(o) \/ Close(o) \/ Join(o)
  /\ overlap' = (overlap \/ \E p \in Objects \ {o} : life[p] \in Constructing \union Destroying)
ReaderStep(o) ==
  /\ \/ SetNonblock(o) \/ Leave(o) \/ KeepsRunning(o) \/ EnterSelect(o)
     \/ SelectReady(o) \/ SelectNothing(o)
     \/ Read(o) \/ ReadNothing(o) \/ ReadBlocks(o) \/ ReadWakes(o)
  /\ UNCHANGED overlap
Bus == (\E device \in Devices : Transmit(device)) /\ UNCHANGED overlap

Next == (\E o \in Objects : AppStep(o) \/ ReaderStep(o)) \/ Bus
Spec == Init /\ [][Next]_vars

\* The reader threads and a running destructor get processor time.
FairSpec ==
  /\ Spec
  /\ \A o \in Objects :
       /\ WF_vars(ReaderStep(o))
       /\ WF_vars((Close(o) \/ Join(o)) /\ AppStep(o))

-----------------------------------------------------------------------------
\* Lives, descriptors and reader threads keep their types, the queues their bound.
TypeOK ==
  /\ life \in [Objects -> Lives]
  /\ soc \in [Objects -> Descriptors \union {-1}]
  /\ run \in [Objects -> BOOLEAN] /\ nonblock \in [Objects -> BOOLEAN]
  /\ filtered \in [Objects -> BOOLEAN]
  /\ open \in [Descriptors -> Objects \union {None}]
  /\ rxQueue \in [Objects -> Seq(Devices)]
  /\ \A s \in Objects : Len(rxQueue[s]) <= QueueBound
  /\ reader \in [Objects -> {"none", "start", "loop", "enter", "select", "read", "done"} \union Objects]
  /\ watched \in [Objects -> Objects \union {None}]
  /\ cached \in [Objects -> SUBSET Devices]
  /\ strayed \in BOOLEAN /\ overlap \in BOOLEAN
  /\ frames \in 0..MaxFrames

\* No thread outlives the members it uses: an object is gone only after its
\* reader thread has ended, however it was caught by the destructor.
ReaderWithinLife ==
  \A o \in Objects : life[o] = "gone" => reader[o] = "done"

\* Nobody closes the descriptor of an object but its own destructor, and an
\* object that failed or is gone holds none.  A failure of std::thread alone
\* leaves one open, and that number never becomes another object's.
DescriptorsOwned ==
  \A o \in Objects :
    /\ life[o] \in Constructing \union {"alive", "stopped", "leaked"} => Socket(o) = o
    /\ life[o] \in {"closed", "gone", "failed"} => \A d \in Descriptors : open[d] # o

\* Threads and descriptors end with their objects, and not before.
Ownership == TypeOK /\ ReaderWithinLife /\ DescriptorsOwned

\* As long as constructors and destructors run one after the other, as in a
\* program that creates and destroys its objects on one thread, each reader
\* thread reads its own socket only: the early close() cannot be seen.
OwnsSocketInTurn == ~overlap => ~strayed

\* Then every destructor ends, in whichever call its reader thread waits.
DestroyEnds == \A o \in Objects : life[o] = "stopped" ~> life[o] = "gone" \/ overlap

\* Frames of other controllers, queued before the filter was there or let in
\* because setsockopt() failed, do not keep an object from its own: a frame of its
\* controller that waits on its socket is cached while it lives.  Only another
\* object's reader thread that strayed here can have taken it.
FramesHeard ==
  \A o \in Objects :
    (\E i \in DOMAIN rxQueue[o] : rxQueue[o][i] = Device[o]) /\ life[o] = "alive"
      ~> Device[o] \in cached[o] \/ life[o] # "alive" \/ strayed

\* "The reader thread owns the socket for receives" (SparkBase.cpp, in
\* WriteParameterVerified): no other object's reader thread reads it.
OwnsSocket == ~strayed
=============================================================================
