--------------------------- MODULE VerifiedWrite ---------------------------
(***************************************************************************)
(* The verified parameter write of the Spark 25.x protocol                 *)
(* (SparkBase::WriteParameterVerified): an application thread clears the   *)
(* one pending-response slot, transmits a class-14 write, and polls the    *)
(* slot; the reader thread of the same object fills the slot from the      *)
(* socket.  A controller on a lossy bus answers, late or not at all, and   *)
(* other nodes write parameters of the same controller: their answers     *)
(* reach this socket too, because the receive filter only looks at the    *)
(* device.                                                                 *)
(*                                                                         *)
(* Every access to the slot is under mutex_, so one access is one step.   *)
(***************************************************************************)
EXTENDS Integers, Sequences

CONSTANTS
  Params,        \* parameter ids
  Values,        \* raw 32-bit values
  Rejections,    \* nonzero result codes
  Retries,       \* the argument "retries" of the call
  MaxAttempts,   \* transmissions of one frame tried by SendRawFrame (50)
  WaitTime,      \* ms slept after a full transmit queue (1)
  PollSleeps,    \* sleeps of one attempt's poll loop (50 ms / 5 ms = 10)
  PollStep,      \* ms of one of those sleeps (5)
  QueueBound,    \* bound: frames in flight in each direction
  MaxCalls,      \* bound: calls made in a behaviour
  MaxForeign     \* bound: writes by other nodes in a behaviour

ASSUME ParamsAssumption == Params # {} /\ Values # {}
ASSUME CodesAssumption == Rejections \subseteq Nat \ {0}
ASSUME TimingAssumption ==
  /\ Retries \in Nat
  /\ MaxAttempts \in Nat \ {0}
  /\ WaitTime \in Nat
  /\ PollSleeps \in Nat
  /\ PollStep \in Nat
  /\ WaitTime <= PollSleeps * PollStep
ASSUME BoundsAssumption ==
  /\ QueueBound \in Nat
  /\ MaxCalls \in Nat
  /\ MaxForeign \in Nat

Success == 0
Codes == {Success} \union Rejections
NoCode == -1                         \* the caller's sentinel in lastResultCode
NoResponse == [par |-> "none", rc |-> NoCode]

Requests == [par : Params, val : Values]
Responses == [par : Params, rc : Codes]

VARIABLES
  pc,          \* where the application thread is
  par, val,    \* the arguments of the call
  attempt,     \* attempts begun before the current one
  tries,       \* failed transmissions of the current attempt
  polls,       \* sleeps of the current attempt's poll loop
  slept,       \* ms this call has slept
  outcome,     \* how the last call ended
  lastCode,    \* *lastResultCode
  slot,        \* param_resp_
  toDevice,    \* write requests on their way to the controller
  rxQueue,     \* responses on their way to, or in, this socket's buffer
  device,      \* the controller's parameter table
  heard,       \* history: responses the reader stored since the call began
  fresh,       \* history: those it stored since the slot was last cleared
  quiet,       \* history: no other write was in flight during the call
  calls,       \* bound counter
  foreign      \* bound counter

callVars == <<par, val, calls>>
loopVars == <<attempt, tries, polls, slept>>
resultVars == <<outcome, lastCode>>
busVars == <<toDevice, rxQueue, device>>
history == <<heard, fresh, quiet>>
vars == <<pc, callVars, loopVars, resultVars, slot, busVars, history, foreign>>

Init ==
  /\ pc = "idle"
  /\ par \in Params /\ val \in Values
  /\ attempt = 0 /\ tries = 0 /\ polls = 0 /\ slept = 0
  /\ outcome = "none" /\ lastCode = NoCode
  /\ slot = NoResponse
  /\ toDevice = <<>> /\ rxQueue = <<>>
  /\ device \in [Params -> Values]
  /\ heard = {} /\ fresh = {} /\ quiet = TRUE
  /\ calls = 0 /\ foreign = 0

-----------------------------------------------------------------------------
(* The application thread. *)

Call(p, v) ==
  /\ pc = "idle" /\ calls < MaxCalls
  /\ par' = p /\ val' = v /\ calls' = calls + 1
  /\ attempt' = 0 /\ tries' = 0 /\ polls' = 0 /\ slept' = 0
  /\ outcome' = "none" /\ lastCode' = NoCode
  /\ heard' = {} /\ fresh' = {}
  /\ quiet' = (toDevice = <<>> /\ rxQueue = <<>>)
  /\ pc' = "attempt"
  /\ UNCHANGED <<slot, busVars, foreign>>

\* Mutants of BeginAttempt: the slot is not reset; one attempt too many.
BeginAttemptKeepsSlot ==
  /\ pc = "attempt" /\ attempt < Retries
  /\ fresh' = {}
  /\ tries' = 0 /\ polls' = 0
  /\ pc' = "send"
  /\ UNCHANGED <<callVars, attempt, slept, resultVars, slot, busVars, heard, quiet, foreign>>

BeginAttemptOneMore ==
  /\ pc = "attempt" /\ attempt <= Retries
  /\ slot' = NoResponse /\ fresh' = {}
  /\ tries' = 0 /\ polls' = 0
  /\ pc' = "send"
  /\ UNCHANGED <<callVars, attempt, slept, resultVars, busVars, heard, quiet, foreign>>

\* The loop head admits an attempt: param_resp_.reset() under the mutex.
BeginAttempt ==
  /\ pc = "attempt" /\ attempt < Retries
  /\ slot' = NoResponse /\ fresh' = {}
  /\ tries' = 0 /\ polls' = 0
  /\ pc' = "send"
  /\ UNCHANGED <<callVars, attempt, slept, resultVars, busVars, heard, quiet, foreign>>

\* Mutant of GiveUp: the loop waits for a count of attempts that BeginAttempt
\* never lets it reach, and spins at its limit.
GiveUpTooLate ==
  /\ pc = "attempt" /\ attempt > Retries
  /\ outcome' = "false"
  /\ pc' = "idle"
  /\ UNCHANGED <<callVars, loopVars, lastCode, slot, busVars, history, foreign>>

GiveUp ==
  /\ pc = "attempt" /\ attempt >= Retries
  /\ outcome' = "false"
  /\ pc' = "idle"
  /\ UNCHANGED <<callVars, loopVars, lastCode, slot, busVars, history, foreign>>

\* SendRawFrame: the kernel takes the frame.
SendAccepted ==
  /\ pc = "send" /\ Len(toDevice) < QueueBound
  /\ toDevice' = Append(toDevice, [par |-> par, val |-> val])
  /\ pc' = "poll"
  /\ UNCHANGED <<callVars, loopVars, resultVars, slot, rxQueue, device, history, foreign>>

\* SendRawFrame: ENOBUFS or EAGAIN; after the last attempt it throws, and
\* WriteParameterVerified does not catch.
SendBusy ==
  /\ pc = "send"
  /\ tries' = tries + 1
  /\ slept' = slept + WaitTime
  /\ IF tries' < MaxAttempts
     THEN UNCHANGED <<pc, outcome>>
     ELSE pc' = "idle" /\ outcome' = "thrown"
  /\ UNCHANGED <<callVars, attempt, polls, lastCode, slot, busVars, history, foreign>>

SendFailed ==
  /\ pc = "send"
  /\ pc' = "idle" /\ outcome' = "thrown"
  /\ UNCHANGED <<callVars, loopVars, lastCode, slot, busVars, history, foreign>>

\* Mutants of PollSuccess: the result code, the parameter id is not compared.
PollSuccessAnyCode ==
  /\ pc = "poll" /\ slot.par = par
  /\ lastCode' = slot.rc
  /\ outcome' = "true"
  /\ pc' = "idle"
  /\ UNCHANGED <<callVars, loopVars, slot, busVars, history, foreign>>

PollSuccessAnyParameter ==
  /\ pc = "poll" /\ slot.rc = Success
  /\ lastCode' = slot.rc
  /\ outcome' = "true"
  /\ pc' = "idle"
  /\ UNCHANGED <<callVars, loopVars, slot, busVars, history, foreign>>

\* One look at the slot finds the success this call waits for.
PollSuccess ==
  /\ pc = "poll" /\ slot.par = par /\ slot.rc = Success
  /\ lastCode' = slot.rc
  /\ outcome' = "true"
  /\ pc' = "idle"
  /\ UNCHANGED <<callVars, loopVars, slot, busVars, history, foreign>>

\* Mutant of PollRetry: the code is handed out before the id is compared.
PollRetryAnyCode ==
  /\ pc = "poll" /\ slot # NoResponse
  /\ ~(slot.par = par /\ slot.rc = Success)
  /\ lastCode' = slot.rc
  /\ attempt' = attempt + 1
  /\ pc' = "attempt"
  /\ UNCHANGED <<callVars, tries, polls, slept, outcome, slot, busVars, history, foreign>>

\* It finds a rejection, or a response for another parameter: next attempt.
PollRetry ==
  /\ pc = "poll" /\ slot # NoResponse
  /\ ~(slot.par = par /\ slot.rc = Success)
  /\ lastCode' = IF slot.par = par THEN slot.rc ELSE lastCode
  /\ attempt' = attempt + 1
  /\ pc' = "attempt"
  /\ UNCHANGED <<callVars, tries, polls, slept, outcome, slot, busVars, history, foreign>>

\* Mutant of PollSleep: one sleep beyond the deadline.
PollSleepLonger ==
  /\ pc = "poll" /\ slot = NoResponse /\ polls <= PollSleeps
  /\ polls' = polls + 1
  /\ slept' = slept + PollStep
  /\ UNCHANGED <<pc, callVars, attempt, tries, resultVars, slot, busVars, history, foreign>>

PollSleep ==
  /\ pc = "poll" /\ slot = NoResponse /\ polls < PollSleeps
  /\ polls' = polls + 1
  /\ slept' = slept + PollStep
  /\ UNCHANGED <<pc, callVars, attempt, tries, resultVars, slot, busVars, history, foreign>>

PollTimeout ==
  /\ pc = "poll" /\ slot = NoResponse /\ polls >= PollSleeps
  /\ attempt' = attempt + 1
  /\ pc' = "attempt"
  /\ UNCHANGED <<callVars, tries, polls, slept, resultVars, slot, busVars, history, foreign>>

-----------------------------------------------------------------------------
(* The reader thread: one class-14 response into the slot.  Nothing tells a *)
(* response to this call from any other, and an unread one is overwritten.  *)

ReaderStores ==
  /\ rxQueue # <<>>
  /\ slot' = Head(rxQueue)
  /\ rxQueue' = Tail(rxQueue)
  /\ heard' = heard \union {Head(rxQueue)}
  /\ fresh' = fresh \union {Head(rxQueue)}
  /\ UNCHANGED <<pc, callVars, loopVars, resultVars, toDevice, device, quiet, foreign>>

-----------------------------------------------------------------------------
(* The controller and the bus (external to the repository). *)

Offer(queue, msg) == IF Len(queue) < QueueBound THEN Append(queue, msg) ELSE queue

DeviceAnswers ==
  /\ toDevice # <<>>
  /\ \E rc \in Codes :
       /\ device' = IF rc = Success
                    THEN [device EXCEPT ![Head(toDevice).par] = Head(toDevice).val]
                    ELSE device
       /\ rxQueue' = Offer(rxQueue, [par |-> Head(toDevice).par, rc |-> rc])
  /\ toDevice' = Tail(toDevice)
  /\ UNCHANGED <<pc, callVars, loopVars, resultVars, slot, history, foreign>>

ForeignWrite(p, v) ==
  /\ foreign < MaxForeign /\ Len(toDevice) < QueueBound
  /\ toDevice' = Append(toDevice, [par |-> p, val |-> v])
  /\ quiet' = FALSE
  /\ foreign' = foreign + 1
  /\ UNCHANGED <<pc, callVars, loopVars, resultVars, slot, rxQueue, device, heard, fresh>>

LoseRequest ==
  /\ toDevice # <<>>
  /\ toDevice' = Tail(toDevice)
  /\ UNCHANGED <<pc, callVars, loopVars, resultVars, slot, rxQueue, device, history, foreign>>

\* Lost on the wire, or taken by an inline read of ReadParameter on another
\* application thread of the same object.
LoseResponse ==
  /\ rxQueue # <<>>
  /\ rxQueue' = Tail(rxQueue)
  /\ UNCHANGED <<pc, callVars, loopVars, resultVars, slot, toDevice, device, history, foreign>>

-----------------------------------------------------------------------------
AppStep ==
  \/ BeginAttempt \/ GiveUp
  \/ SendAccepted \/ SendBusy \/ SendFailed
  \/ PollSuccess \/ PollRetry \/ PollSleep \/ PollTimeout

Environment ==
  \/ DeviceAnswers \/ LoseRequest \/ LoseResponse
  \/ \E p \in Params, v \in Values : ForeignWrite(p, v)

Next ==
  \/ \E p \in Params, v \in Values : Call(p, v)
  \/ AppStep
  \/ ReaderStores
  \/ Environment

Spec == Init /\ [][Next]_vars

\* A call in progress is never blocked: the operating system runs its thread.
FairSpec == Spec /\ WF_vars(AppStep)

-----------------------------------------------------------------------------
PCs == {"idle", "attempt", "send", "poll"}
Outcomes == {"none", "true", "false", "thrown"}

\* Every variable keeps its type.
TypeOK ==
  /\ pc \in PCs
  /\ par \in Params /\ val \in Values
  /\ attempt \in 0..Retries /\ tries \in 0..MaxAttempts
  /\ polls \in 0..PollSleeps /\ slept \in Nat
  /\ outcome \in Outcomes /\ lastCode \in Codes \union {NoCode}
  /\ slot \in Responses \union {NoResponse}
  /\ toDevice \in Seq(Requests) /\ rxQueue \in Seq(Responses)
  /\ device \in [Params -> Values]
  /\ heard \subseteq Responses /\ fresh \subseteq Responses
  /\ quiet \in BOOLEAN
  /\ calls \in 0..MaxCalls /\ foreign \in 0..MaxForeign

\* "True" rests on a success response for the written parameter that the
\* reader stored after the last attempt had cleared the slot: what an earlier
\* attempt or call left behind is never taken for an answer.
TrueIsAnswered ==
  outcome = "true" => [par |-> par, rc |-> Success] \in fresh

\* On a bus that was quiet when the call began and that nobody else used
\* during it, "true" means that the controller holds the value written.
TrueMeansStored ==
  outcome = "true" /\ quiet => device[par] = val

\* A call that ended leaves in *lastResultCode the success it returned for,
\* else a rejection of its own parameter, else the caller's sentinel: never
\* the code of a response that answers another parameter.
CodeExplainsOutcome ==
  pc = "idle" /\ outcome # "none" =>
    /\ outcome = "true" <=> lastCode = Success
    /\ lastCode # NoCode => [par |-> par, rc |-> lastCode] \in heard

\* The time one attempt can sleep, and the bound on what a call can sleep.
AttemptTime == (MaxAttempts - 1) * WaitTime + PollSleeps * PollStep
BlockingBounded == slept <= Retries * AttemptTime

\* Every call returns or throws, whatever the bus does.
CallEnds == pc # "idle" ~> pc = "idle"

-----------------------------------------------------------------------------
(* The inductive invariant behind the safety properties. *)

\* What the poll loop sees was stored after the slot was cleared.
SlotIsFresh ==
  /\ fresh \subseteq heard
  /\ pc \in {"send", "poll"} => slot \in fresh \union {NoResponse}

\* The time slept so far, attempt by attempt.
Budget ==
  /\ pc = "attempt" => slept <= attempt * AttemptTime
  /\ pc \in {"send", "poll"} =>
       /\ attempt < Retries /\ tries < MaxAttempts
       /\ slept <= attempt * AttemptTime + tries * WaitTime + polls * PollStep
  /\ pc = "send" => polls = 0

\* The out-parameter and the result move together.
CodeAgrees ==
  /\ pc # "idle" => outcome = "none"
  /\ outcome = "true" <=> lastCode = Success
  /\ lastCode # NoCode => [par |-> par, rc |-> lastCode] \in heard

\* On a quiet bus every frame in flight belongs to the call.
QuietBus ==
  quiet =>
    /\ \A i \in 1..Len(toDevice) : toDevice[i] = [par |-> par, val |-> val]
    /\ \A i \in 1..Len(rxQueue) : rxQueue[i].rc = Success => device[par] = val
    /\ \A r \in fresh : r.rc = Success => device[par] = val

\* All of it holds in every state, and every step of the code keeps it.
IndInv ==
  /\ TypeOK
  /\ SlotIsFresh
  /\ Budget
  /\ CodeAgrees
  /\ QuietBus
  /\ TrueIsAnswered
  /\ BlockingBounded

-----------------------------------------------------------------------------
(* Refinement. *)

Contract == INSTANCE WriteContract WITH
  phase <- IF pc = "idle" THEN "idle" ELSE "busy",
  wanted <- par,
  acked <- {h.par : h \in {g \in heard : g.rc = Success}}

\* The call implements the contract WriteContract states.
ImplementsContract == Contract!Spec
=============================================================================
