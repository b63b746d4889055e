----------------------------- MODULE ProtocolCheck -----------------------------
(***************************************************************************)
(* SparkBase::ReadFirmwareVersion and SparkBase::VerifyProtocol.  A query  *)
(* clears the slot fw_resp_, transmits a request (without data for classic *)
(* firmware, a remote frame for 25.x) and polls the slot.  The reader      *)
(* thread puts every frame with the id of the request and at least five    *)
(* bytes into the slot, in both protocols: the controller's reply to this  *)
(* query or to anybody's, and the remote frames of other clients, which    *)
(* arrive here with a length of 8 and no data.                             *)
(*                                                                         *)
(* For 25.x VerifyProtocol performs a verified write.  What that call does *)
(* is taken from WriteContract, which VerifiedWrite implements.            *)
(***************************************************************************)
EXTENDS Integers, Sequences

CONSTANTS
  MaxAttempts,   \* transmissions tried by SendRawFrame (50)
  WaitTime,      \* ms slept after a full transmit queue (1)
  PollSleeps,    \* sleeps of the poll loop (50 ms / 5 ms = 10)
  PollStep,      \* ms of one of those sleeps (5)
  QueueBound,    \* bound: frames in each direction
  MaxCalls,      \* bound: calls of the application
  MaxOthers      \* bound: requests of other clients

ASSUME TimingAssumption ==
  /\ MaxAttempts \in Nat \ {0}
  /\ WaitTime \in Nat /\ PollSleeps \in Nat /\ PollStep \in Nat
  /\ WaitTime <= PollSleeps * PollStep
ASSUME BoundsAssumption == QueueBound \in Nat /\ MaxCalls \in Nat /\ MaxOthers \in Nat

Protocols == {"Classic", "Spark25x"}

\* A request without data, a remote frame, a verified write of a parameter.
Requests == {"data", "remote", "write"}

\* A reply with the version, a remote frame, the response to a write.
Arrivals == {"version", "zeros", "success", "rejection"}
Empty == "empty"
StatusPeriod2 == "StatusPeriod2"

VARIABLES
  protocol,    \* protocol_
  firmware,    \* what the controller speaks
  pc,          \* the application thread
  call,        \* "read" or "verify"
  tries,       \* failed transmissions of the query
  polls,       \* sleeps of its poll loop
  slept,       \* ms this query has slept
  result,      \* what the query returned
  verified,    \* what VerifyProtocol returned
  slot,        \* fw_resp_
  toDevice,    \* requests on their way to the controller
  rxQueue,     \* frames on their way to, or in, this socket's buffer
  stored,      \* history: the reader stored a frame since the call began
  alone,       \* history: no other client's request was in flight in the call
  phase, wanted, acked, outcome,   \* the verified write, as its contract has it
  calls, others                    \* bound counters

Write == INSTANCE WriteContract WITH Params <- {StatusPeriod2}

config == <<protocol, firmware>>
loopVars == <<tries, polls, slept>>
returnVars == <<result, verified>>
writeVars == <<phase, wanted, acked, outcome>>
history == <<stored, alone>>
bounds == <<calls, others>>
vars == <<config, pc, call, loopVars, returnVars, slot, toDevice, rxQueue, history, writeVars, bounds>>

Init ==
  /\ protocol \in Protocols /\ firmware \in Protocols
  /\ pc = "idle" /\ call = "read"
  /\ tries = 0 /\ polls = 0 /\ slept = 0
  /\ result = "none" /\ verified = "none"
  /\ slot = Empty
  /\ toDevice = <<>> /\ rxQueue = <<>>
  /\ stored = FALSE /\ alone = TRUE
  /\ Write!Init
  /\ calls = 0 /\ others = 0

Room(queue) == Len(queue) < QueueBound
Offer(queue, frame) == IF Room(queue) THEN Append(queue, frame) ELSE queue

-----------------------------------------------------------------------------
(* ReadFirmwareVersion, called by the application or by VerifyProtocol. *)

\* What this object itself transmits.
Own == IF protocol = "Spark25x" THEN {"remote", "write"} ELSE {"data"}
OnlyOwnInFlight ==
  /\ \A i \in DOMAIN toDevice : toDevice[i] \in Own
  /\ \A i \in DOMAIN rxQueue : rxQueue[i] \in {"success", "rejection"}

\* Mutant of BeginQuery: the slot is not reset.
BeginQueryKeepsSlot(c) ==
  /\ pc = "idle" /\ calls < MaxCalls
  /\ c = "verify" => protocol = "Classic"
  /\ call' = c /\ calls' = calls + 1
  /\ stored' = FALSE
  /\ tries' = 0 /\ polls' = 0 /\ slept' = 0
  /\ result' = "none" /\ verified' = "none"
  /\ alone' = OnlyOwnInFlight
  /\ pc' = "send"
  /\ UNCHANGED <<config, slot, toDevice, rxQueue, writeVars, others>>

\* The query starts with fw_resp_.reset() under the mutex.
BeginQuery(c) ==
  /\ pc = "idle" /\ calls < MaxCalls
  /\ c = "verify" => protocol = "Classic"
  /\ call' = c /\ calls' = calls + 1
  /\ slot' = Empty /\ stored' = FALSE
  /\ tries' = 0 /\ polls' = 0 /\ slept' = 0
  /\ result' = "none" /\ verified' = "none"
  /\ alone' = OnlyOwnInFlight
  /\ pc' = "send"
  /\ UNCHANGED <<config, toDevice, rxQueue, writeVars, others>>

\* The query returns r; VerifyProtocol asks only whether it has a value.
Return(r) ==
  /\ result' = r
  /\ verified' = IF call # "verify" THEN "none"
                 ELSE IF r = "nullopt" THEN "false" ELSE "true"
  /\ pc' = "idle"

\* Mutant of SendAccepted: a remote frame in both protocols.
SendAcceptedRemote ==
  /\ pc = "send" /\ Room(toDevice)
  /\ toDevice' = Append(toDevice, "remote")
  /\ pc' = "poll"
  /\ UNCHANGED <<config, call, loopVars, returnVars, slot, rxQueue, history, writeVars, bounds>>

SendAccepted ==
  /\ pc = "send" /\ Room(toDevice)
  /\ toDevice' = Append(toDevice, IF protocol = "Spark25x" THEN "remote" ELSE "data")
  /\ pc' = "poll"
  /\ UNCHANGED <<config, call, loopVars, returnVars, slot, rxQueue, history, writeVars, bounds>>

\* The exception of the last failed transmission is caught here.
SendBusy ==
  /\ pc = "send"
  /\ tries' = tries + 1
  /\ slept' = slept + WaitTime
  /\ IF tries' < MaxAttempts THEN UNCHANGED <<pc, returnVars>> ELSE Return("nullopt")
  /\ UNCHANGED <<config, call, polls, slot, toDevice, rxQueue, history, writeVars, bounds>>

SendFailed ==
  /\ pc = "send"
  /\ Return("nullopt")
  /\ UNCHANGED <<config, call, loopVars, slot, toDevice, rxQueue, history, writeVars, bounds>>

PollFound ==
  /\ pc = "poll" /\ slot # Empty
  /\ Return(slot)
  /\ UNCHANGED <<config, call, loopVars, slot, toDevice, rxQueue, history, writeVars, bounds>>

\* Mutant of PollSleep: one sleep beyond the deadline.
PollSleepLonger ==
  /\ pc = "poll" /\ slot = Empty /\ polls <= PollSleeps
  /\ polls' = polls + 1
  /\ slept' = slept + PollStep
  /\ UNCHANGED <<config, pc, call, tries, returnVars, slot, toDevice, rxQueue, history, writeVars,
                 bounds>>

PollSleep ==
  /\ pc = "poll" /\ slot = Empty /\ polls < PollSleeps
  /\ polls' = polls + 1
  /\ slept' = slept + PollStep
  /\ UNCHANGED <<config, pc, call, tries, returnVars, slot, toDevice, rxQueue, history, writeVars,
                 bounds>>

\* Mutant of PollTimeout: the loop waits for a time that its sleeps never reach,
\* and spins at its deadline.
PollTimeoutTooLate ==
  /\ pc = "poll" /\ slot = Empty /\ polls > PollSleeps
  /\ Return("nullopt")
  /\ UNCHANGED <<config, call, loopVars, slot, toDevice, rxQueue, history, writeVars, bounds>>

PollTimeout ==
  /\ pc = "poll" /\ slot = Empty /\ polls >= PollSleeps
  /\ Return("nullopt")
  /\ UNCHANGED <<config, call, loopVars, slot, toDevice, rxQueue, history, writeVars, bounds>>

-----------------------------------------------------------------------------
(* VerifyProtocol of a 25.x object: a verified write of the Status 2 period. *)

BeginWrite ==
  /\ pc = "idle" /\ calls < MaxCalls /\ protocol = "Spark25x"
  /\ Write!Begin(StatusPeriod2)
  /\ call' = "verify" /\ calls' = calls + 1
  /\ tries' = 0 /\ polls' = 0 /\ slept' = 0
  /\ result' = "none" /\ verified' = "none"
  /\ alone' = OnlyOwnInFlight
  /\ stored' = FALSE
  /\ pc' = "write"
  /\ UNCHANGED <<config, slot, toDevice, rxQueue, others>>

WriteSends ==
  /\ pc = "write" /\ Room(toDevice)
  /\ toDevice' = Append(toDevice, "write")
  /\ UNCHANGED <<config, pc, call, loopVars, returnVars, slot, rxQueue, history, writeVars, bounds>>

\* Mutant of WriteReturns: that the write did not throw is taken for success.
WriteReturnsAny ==
  /\ pc = "write"
  /\ Write!ReturnTrue \/ Write!Fail
  /\ verified' = IF outcome' = "thrown" THEN "thrown" ELSE "true"
  /\ pc' = "idle"
  /\ UNCHANGED <<config, call, loopVars, result, slot, toDevice, rxQueue, history, bounds>>

\* It returns true or false, or an exception passes through VerifyProtocol.
WriteReturns ==
  /\ pc = "write"
  /\ Write!ReturnTrue \/ Write!Fail
  /\ verified' = outcome'
  /\ pc' = "idle"
  /\ UNCHANGED <<config, call, loopVars, result, slot, toDevice, rxQueue, history, bounds>>

-----------------------------------------------------------------------------
(* The reader thread. *)

ReaderStores ==
  /\ rxQueue # <<>>
  /\ LET frame == Head(rxQueue) IN
       /\ IF frame \in {"version", "zeros"}
          THEN slot' = frame /\ stored' = TRUE
          ELSE UNCHANGED <<slot, stored>>
       /\ IF frame = "success" /\ protocol = "Spark25x"
          THEN Write!Hear(StatusPeriod2)
          ELSE UNCHANGED writeVars
  /\ rxQueue' = Tail(rxQueue)
  /\ UNCHANGED <<config, pc, call, loopVars, returnVars, toDevice, alone, bounds>>

-----------------------------------------------------------------------------
(* The controller, the other clients and the bus (external).  Classic       *)
(* firmware may or may not answer a remote frame; 25.x firmware does not    *)
(* answer a request without data; only 25.x firmware knows class 14.        *)

Answers(request) ==
  CASE request = "data" -> IF firmware = "Classic" THEN {"version"} ELSE {}
    [] request = "remote" -> {"version"}
    [] request = "write" -> IF firmware = "Spark25x" THEN {"success", "rejection"} ELSE {}

DeviceAnswers ==
  /\ toDevice # <<>>
  /\ \E answer \in Answers(Head(toDevice)) : rxQueue' = Offer(rxQueue, answer)
  /\ toDevice' = Tail(toDevice)
  /\ UNCHANGED <<config, pc, call, loopVars, returnVars, slot, history, writeVars, bounds>>

LoseRequest ==
  /\ toDevice # <<>>
  /\ toDevice' = Tail(toDevice)
  /\ UNCHANGED <<config, pc, call, loopVars, returnVars, slot, rxQueue, history, writeVars, bounds>>

LoseArrival ==
  /\ rxQueue # <<>>
  /\ rxQueue' = Tail(rxQueue)
  /\ UNCHANGED <<config, pc, call, loopVars, returnVars, slot, toDevice, history, writeVars, bounds>>

\* Another object, in this process or elsewhere, asks the same controller.  A
\* request without data or a write changes nothing here, a remote frame does.
OtherRequests(request) ==
  /\ others < MaxOthers /\ Room(toDevice)
  /\ toDevice' = Append(toDevice, request)
  /\ rxQueue' = IF request = "remote" THEN Offer(rxQueue, "zeros") ELSE rxQueue
  /\ alone' = FALSE
  /\ others' = others + 1
  /\ UNCHANGED <<config, pc, call, loopVars, returnVars, slot, stored, writeVars, calls>>

-----------------------------------------------------------------------------
QueryStep == SendAccepted \/ SendBusy \/ SendFailed \/ PollFound \/ PollSleep \/ PollTimeout
Next ==
  \/ \E c \in {"read", "verify"} : BeginQuery(c)
  \/ QueryStep
  \/ BeginWrite \/ WriteSends \/ WriteReturns
  \/ ReaderStores
  \/ DeviceAnswers \/ LoseRequest \/ LoseArrival
  \/ \E request \in Requests : OtherRequests(request)

Spec == Init /\ [][Next]_vars

\* The application thread runs, and a verified write ends (its CallEnds).
FairSpec == Spec /\ WF_vars(QueryStep) /\ WF_vars(WriteReturns)

-----------------------------------------------------------------------------
\* The query, its slot and the write keep their types, the loops their counts.
TypeOK ==
  /\ protocol \in Protocols /\ firmware \in Protocols
  /\ pc \in {"idle", "send", "poll", "write"} /\ call \in {"read", "verify"}
  /\ tries \in 0..MaxAttempts /\ polls \in 0..PollSleeps /\ slept \in Nat
  /\ result \in {"none", "nullopt", "version", "zeros"}
  /\ verified \in {"none", "true", "false", "thrown"}
  /\ slot \in {Empty, "version", "zeros"}
  /\ toDevice \in Seq(Requests) /\ Len(toDevice) <= QueueBound
  /\ rxQueue \in Seq(Arrivals) /\ Len(rxQueue) <= QueueBound
  /\ stored \in BOOLEAN /\ alone \in BOOLEAN
  /\ phase \in {"idle", "busy"} /\ wanted = StatusPeriod2 /\ acked \subseteq {StatusPeriod2}
  /\ outcome \in {"none", "true", "false", "thrown"}
  /\ calls \in 0..MaxCalls /\ others \in 0..MaxOthers

\* A version that a query returns was stored after the query began: an answer
\* to an earlier query that is still in the slot proves nothing.
AnswerIsNew == pc = "idle" /\ result \in {"version", "zeros"} => stored

\* The loops keep their counts and the answers are new.
AnswersSafe == TypeOK /\ AnswerIsNew

\* With no other client's request around, a query that has a value has the
\* controller's version, and verification succeeds only if the controller
\* speaks the protocol the object was built for.
SoundWhenAlone ==
  pc = "idle" /\ alone =>
    /\ result # "zeros"
    /\ verified = "true" => firmware = protocol

\* For 25.x that holds among other clients as well: the success of a write is
\* something only 25.x firmware says.
Sound25x == protocol = "Spark25x" /\ verified = "true" => firmware = "Spark25x"

\* The bound on what a query can sleep.
BlockingBounded == slept <= (MaxAttempts - 1) * WaitTime + PollSleeps * PollStep

\* Every call returns, whatever the bus does.
QueryEnds == pc # "idle" ~> pc = "idle"
=============================================================================
