------------------------------ MODULE ParamRead ------------------------------
(***************************************************************************)
(* Classic parameter queries (SparkBase::ReadParameter): an application    *)
(* thread transmits a request and reads ONE frame of the object's socket   *)
(* itself, while the reader thread (ReadPeriodicMessages), and any other   *)
(* application thread with a query, selects and reads the same socket.     *)
(* Whoever reads a frame consumes it.  The socket is blocking until the    *)
(* reader thread has run its fcntl calls, and a read() that waits is not   *)
(* woken by them.                                                          *)
(*                                                                         *)
(* Frames of other nodes and of other sockets of this host reach the       *)
(* socket as well: periodic status, and the requests and settings other    *)
(* clients send to the same controller, which have the parameter's own     *)
(* arbitration id.                                                         *)
(***************************************************************************)
EXTENDS Integers, Sequences

CONSTANTS
  Threads,       \* application threads
  Params,        \* parameter ids
  Values,        \* values a parameter takes
  Stored,        \* the controller's table at the start
  QueueBound,    \* bound: frames in each direction
  MaxCalls,      \* bound: calls of the application
  MaxNoise       \* bound: frames of other clients and status frames

ASSUME StoredAssumption == Stored \in [Params -> Values]
ASSUME BoundsAssumption == QueueBound \in Nat /\ MaxCalls \in Nat /\ MaxNoise \in Nat

NoValue == "nullopt"
NoParam == "none"

\* A request has no data (dlc 0); a setting and a response carry a value.
ParamFrames == [kind : {"setting", "response"}, par : Params, val : Values]
EmptyFrames == [kind : {"request"}, par : Params, val : {NoValue}]
StatusFrame == [kind |-> "status", par |-> NoParam, val |-> NoValue]
Frames == ParamFrames \union EmptyFrames \union {StatusFrame}

VARIABLES
  pc,          \* the application threads
  query,       \* what each asks for, what it got, and the history of its call
  reader,      \* the reader thread
  nonblock,    \* the socket's O_NONBLOCK
  toDevice,    \* requests and settings on their way to the controller
  rxQueue,     \* this socket's receive queue
  device,      \* the controller's parameter table
  said,        \* history: values each parameter was ever said to have
  crowded,     \* history: two queries ran at once before O_NONBLOCK was set
  calls, noise \* bound counters

appVars == <<pc, query, calls>>
readerVars == <<reader, nonblock>>
busVars == <<toDevice, device>>
history == <<said, crowded>>
vars == <<appVars, readerVars, busVars, rxQueue, history, noise>>

\* par and result are ReadParameter's; the rest is history of the call:
\* answered, a response for par reached the socket; clear, no other frame about
\* par was in flight; during, the values par had.
NoQuery == [par |-> NoParam, result |-> NoValue, answered |-> FALSE, clear |-> TRUE, during |-> {}]

Init ==
  /\ pc = [t \in Threads |-> "idle"] /\ query = [t \in Threads |-> NoQuery]
  /\ reader = "start" /\ nonblock = FALSE
  /\ toDevice = <<>> /\ rxQueue = <<>>
  /\ device = Stored
  /\ said = [p \in Params |-> {device[p]}]
  /\ crowded = FALSE
  /\ calls = 0 /\ noise = 0

Room(queue) == Len(queue) < QueueBound
NoneAbout(p, queue) == \A i \in DOMAIN queue : queue[i].par # p
Running(t) == pc[t] \in {"select", "read", "blocked"}

\* Somebody gives p a value: the calls that ask for p are not left alone.
Disturbed(p) == [t \in Threads |-> [query[t] EXCEPT !.clear = @ /\ query[t].par # p]]

-----------------------------------------------------------------------------
(* The application threads. *)

\* ReadParameter: write() takes the request ...
ReadRequest(t, p) ==
  /\ pc[t] = "idle" /\ calls < MaxCalls /\ Room(toDevice)
  /\ query' = [query EXCEPT ![t] =
       [NoQuery EXCEPT !.par = p, !.during = {device[p]},
                       !.clear = NoneAbout(p, toDevice) /\ NoneAbout(p, rxQueue)]]
  /\ toDevice' = Append(toDevice, [kind |-> "request", par |-> p, val |-> NoValue])
  /\ pc' = [pc EXCEPT ![t] = "select"]
  /\ calls' = calls + 1
  /\ crowded' = (crowded \/ (~nonblock /\ \E u \in Threads \ {t} : Running(u)))
  /\ UNCHANGED <<readerVars, device, rxQueue, said, noise>>

\* ... or refuses it: nullopt at once, without a retry.
ReadRefused(t, p) ==
  /\ pc[t] = "idle" /\ calls < MaxCalls
  /\ query' = [query EXCEPT ![t] = [NoQuery EXCEPT !.par = p, !.during = {device[p]}]]
  /\ pc' = [pc EXCEPT ![t] = "returned"]
  /\ calls' = calls + 1
  /\ UNCHANGED <<readerVars, busVars, rxQueue, history, noise>>

SelectReady(t) ==
  /\ pc[t] = "select" /\ rxQueue # <<>>
  /\ pc' = [pc EXCEPT ![t] = "read"]
  /\ UNCHANGED <<query, calls, readerVars, busVars, rxQueue, history, noise>>

\* 20 ms passed with nothing to read.
SelectTimeout(t) ==
  /\ pc[t] = "select" /\ rxQueue = <<>>
  /\ pc' = [pc EXCEPT ![t] = "returned"]
  /\ UNCHANGED <<query, calls, readerVars, busVars, rxQueue, history, noise>>

\* Mutant of Decode: the arbitration id is not compared.
DecodeAnyParameter(par, frame) ==
  IF frame.kind \in {"response", "setting"} THEN frame.val ELSE NoValue

\* Only the arbitration id and the type byte are looked at: a response of the
\* controller and another client's setting are alike, a request has no type.
Decode(par, frame) ==
  IF frame.kind \in {"response", "setting"} /\ frame.par = par THEN frame.val ELSE NoValue

\* read() gets a frame, at once or after waiting for one.
ReadFrame(t) ==
  /\ pc[t] \in {"read", "blocked"} /\ rxQueue # <<>>
  /\ query' = [query EXCEPT ![t].result = Decode(query[t].par, Head(rxQueue))]
  /\ rxQueue' = Tail(rxQueue)
  /\ pc' = [pc EXCEPT ![t] = "returned"]
  /\ UNCHANGED <<calls, readerVars, busVars, history, noise>>

\* Another thread took the frame in between: EAGAIN ...
ReadNothing(t) ==
  /\ pc[t] = "read" /\ rxQueue = <<>> /\ nonblock
  /\ pc' = [pc EXCEPT ![t] = "returned"]
  /\ UNCHANGED <<query, calls, readerVars, busVars, rxQueue, history, noise>>

\* ... or, on a blocking socket, read() waits, without a deadline.
ReadBlocks(t) ==
  /\ pc[t] = "read" /\ rxQueue = <<>> /\ ~nonblock
  /\ pc' = [pc EXCEPT ![t] = "blocked"]
  /\ UNCHANGED <<query, calls, readerVars, busVars, rxQueue, history, noise>>

\* The caller has its answer.
Take(t) ==
  /\ pc[t] = "returned"
  /\ pc' = [pc EXCEPT ![t] = "idle"]
  /\ query' = [query EXCEPT ![t] = NoQuery]
  /\ UNCHANGED <<calls, readerVars, busVars, rxQueue, history, noise>>

\* SetParameter on the same object: sent and forgotten.
Set(t, p, v) ==
  /\ pc[t] = "idle" /\ calls < MaxCalls /\ Room(toDevice)
  /\ toDevice' = Append(toDevice, [kind |-> "setting", par |-> p, val |-> v])
  /\ query' = Disturbed(p)
  /\ calls' = calls + 1
  /\ UNCHANGED <<pc, readerVars, device, rxQueue, history, noise>>

-----------------------------------------------------------------------------
(* The reader thread. *)

\* Mutant of ReaderSetsNonblock: the socket stays blocking.
ReaderLeavesBlocking ==
  /\ reader = "start"
  /\ reader' = "select"
  /\ UNCHANGED <<appVars, nonblock, busVars, rxQueue, history, noise>>

\* fcntl(F_SETFL, ... | O_NONBLOCK), before the first read of this thread.
ReaderSetsNonblock ==
  /\ reader = "start"
  /\ nonblock' = TRUE
  /\ reader' = "select"
  /\ UNCHANGED <<appVars, busVars, rxQueue, history, noise>>

ReaderSelects ==
  /\ reader = "select" /\ rxQueue # <<>>
  /\ reader' = "read"
  /\ UNCHANGED <<appVars, nonblock, busVars, rxQueue, history, noise>>

\* No branch of the dispatch is about class-48 frames: a parameter response
\* the reader thread gets is dropped.
ReaderReads ==
  /\ reader = "read" /\ rxQueue # <<>>
  /\ rxQueue' = Tail(rxQueue)
  /\ reader' = "select"
  /\ UNCHANGED <<appVars, nonblock, busVars, history, noise>>

ReaderFindsNothing ==
  /\ reader = "read" /\ rxQueue = <<>> /\ nonblock
  /\ reader' = "select"
  /\ UNCHANGED <<appVars, nonblock, busVars, rxQueue, history, noise>>

-----------------------------------------------------------------------------
(* The controller and the other nodes (external to the repository). *)

DeviceAnswers ==
  /\ toDevice # <<>> /\ Head(toDevice).kind = "request" /\ Room(rxQueue)
  /\ LET p == Head(toDevice).par IN
       /\ rxQueue' = Append(rxQueue, [kind |-> "response", par |-> p, val |-> device[p]])
       /\ query' = [t \in Threads |->
                      [query[t] EXCEPT !.answered = @ \/ (Running(t) /\ query[t].par = p)]]
  /\ toDevice' = Tail(toDevice)
  /\ UNCHANGED <<pc, calls, readerVars, device, history, noise>>

DeviceApplies ==
  /\ toDevice # <<>> /\ Head(toDevice).kind = "setting"
  /\ LET p == Head(toDevice).par
         v == Head(toDevice).val
     IN /\ device' = [device EXCEPT ![p] = v]
        /\ said' = [said EXCEPT ![p] = @ \union {v}]
        /\ query' = [t \in Threads |->
                       IF query[t].par = p THEN [query[t] EXCEPT !.during = @ \union {v}]
                       ELSE query[t]]
  /\ toDevice' = Tail(toDevice)
  /\ UNCHANGED <<pc, calls, readerVars, rxQueue, crowded, noise>>

\* Lost on the wire; a frame once in a socket's queue stays until it is read.
LoseRequest ==
  /\ toDevice # <<>>
  /\ toDevice' = Tail(toDevice)
  /\ UNCHANGED <<appVars, readerVars, device, rxQueue, history, noise>>

StatusArrives ==
  /\ noise < MaxNoise /\ Room(rxQueue)
  /\ rxQueue' = Append(rxQueue, StatusFrame)
  /\ noise' = noise + 1
  /\ UNCHANGED <<appVars, readerVars, busVars, history>>

\* A frame another client sends to the controller is also delivered here.
ForeignFrame(frame) ==
  /\ noise < MaxNoise /\ Room(rxQueue) /\ Room(toDevice)
  /\ frame.kind \in {"request", "setting"}
  /\ toDevice' = Append(toDevice, frame)
  /\ rxQueue' = Append(rxQueue, frame)
  /\ said' = IF frame.kind = "setting"
             THEN [said EXCEPT ![frame.par] = @ \union {frame.val}] ELSE said
  /\ query' = Disturbed(frame.par)
  /\ noise' = noise + 1
  /\ UNCHANGED <<pc, calls, readerVars, device, crowded>>

-----------------------------------------------------------------------------
AppRead(t) ==
  SelectReady(t) \/ SelectTimeout(t) \/ ReadFrame(t) \/ ReadNothing(t) \/ ReadBlocks(t)
AppNext(t) ==
  \/ \E p \in Params : ReadRequest(t, p) \/ ReadRefused(t, p)
  \/ \E p \in Params, v \in Values : Set(t, p, v)
  \/ AppRead(t) \/ Take(t)
ReaderNext ==
  \/ ReaderSetsNonblock
  \/ ReaderSelects \/ ReaderReads \/ ReaderFindsNothing
Environment ==
  \/ DeviceAnswers \/ DeviceApplies \/ LoseRequest \/ StatusArrives
  \/ \E frame \in Frames \ {StatusFrame} : ForeignFrame(frame)

Next == (\E t \in Threads : AppNext(t)) \/ ReaderNext \/ Environment

Spec == Init /\ [][Next]_vars

\* The threads run; the bus owes nobody anything.
FairSpec == Spec /\ (\A t \in Threads : WF_vars(AppRead(t))) /\ WF_vars(ReaderNext)

-----------------------------------------------------------------------------
Queries == [par : Params, result : Values \union {NoValue}, answered : BOOLEAN, clear : BOOLEAN,
            during : SUBSET Values]

\* The queries, all threads and the queues keep their types and bounds.
TypeOK ==
  /\ pc \in [Threads -> {"idle", "select", "read", "blocked", "returned"}]
  /\ query \in [Threads -> Queries \union {NoQuery}]
  /\ reader \in {"start", "select", "read"}
  /\ nonblock \in BOOLEAN
  /\ toDevice \in Seq(Frames) /\ rxQueue \in Seq(Frames)
  /\ Len(toDevice) <= QueueBound /\ Len(rxQueue) <= QueueBound
  /\ device \in [Params -> Values]
  /\ said \in [Params -> SUBSET Values]
  /\ crowded \in BOOLEAN
  /\ calls \in 0..MaxCalls /\ noise \in 0..MaxNoise

Returned(t) == pc[t] = "returned" /\ query[t].result # NoValue

\* A query returns a value the asked parameter had or was being given: never
\* the value of another parameter, whatever frame the one read consumed and
\* whichever thread it was meant for.
ReadIsAuthentic == \A t \in Threads : Returned(t) => query[t].result \in said[query[t].par]

\* With no other frame about the parameter in flight when it began, and no
\* setting since, a query returns a value the parameter had while it ran, even
\* if it took the response to another thread.
ReadIsFresh ==
  \A t \in Threads : Returned(t) /\ query[t].clear => query[t].result \in query[t].during

\* What every query promises, with the types: the answer is about the parameter
\* that was asked for and, if nobody else talked about it, of the time it was
\* asked, whoever took whose frame.
AnswersSafe == TypeOK /\ ReadIsAuthentic /\ ReadIsFresh

\* No thread waits in read() for a frame another one took, unless two queries
\* ran at once before O_NONBLOCK was set; the reader thread never does.
NeverStuckInRead ==
  /\ ~crowded => \A t \in Threads : pc[t] # "blocked"
  /\ reader = "read" => nonblock

\* Every query ends, with the same exception, even if other threads take each
\* answer.
ReadEnds == \A t \in Threads : Running(t) ~> ~Running(t) \/ crowded

\* SparkBase.hpp on ReadParameter: "The parameter value if received, or
\* std::nullopt if no response".
NullMeansSilence ==
  \A t \in Threads : pc[t] = "returned" /\ query[t].result = NoValue => ~query[t].answered
=============================================================================
