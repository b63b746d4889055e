------------------------------- MODULE Control -------------------------------
(***************************************************************************)
(* The commands an application gives its motors (SetSetpoint to            *)
(* SetSmartMotion, Heartbeat and the maintenance commands): several        *)
(* threads call several SparkBase objects, one per controller.  Nothing    *)
(* but the kernel's transmit queue is between a call and the bus: no lock  *)
(* is taken, and the PID slot that goes into a 25.x setpoint is read while *)
(* another thread may be changing it.                                      *)
(*                                                                         *)
(* A frame is known by its name: Wire shows that its id and its payload    *)
(* say this much.  Values are integers, NaN stands for all that is not     *)
(* finite.  A SetXSlot call is one step, as a byte is written and read in  *)
(* one piece: a race has the outcomes of some order.                       *)
(***************************************************************************)
EXTENDS Integers, Sequences, FiniteSets

CONSTANTS
  Threads,       \* application threads
  Objects,       \* SparkBase objects, each with its controller
  Ops,           \* bound: the commands the application uses
  Values,        \* bound: the values it gives each of them
  NewSlots,      \* bound: the slots it asks for
  MaxAttempts,   \* transmissions of one frame tried by SendRawFrame (50)
  QueueBound,    \* bound: frames in the interface's transmit queue
  MaxCalls,      \* bound: commands
  MaxChanges,    \* bound: calls of SetVelocitySlot and SetPositionSlot
  MaxLapses      \* bound: controllers that miss a heartbeat

Nobody == [op |-> "none"]
NaN == 1000000
Protocols == {"Classic", "Spark25x"}

Setpoints == {"Setpoint", "DutyCycle", "Velocity", "SmartVelocity", "Position", "Voltage",
              "Current", "SmartMotion"}
Maintenance == {"BurnFlash", "FactoryDefaults", "FactoryReset", "Identify", "ClearFaults",
                "EncoderPosition", "SetPeriod0", "SetPeriod1", "SetPeriod2", "SetPeriod3",
                "SetPeriod4"}
Steering == Setpoints \union {"SetpointWithCtrlType"}
AllOps == Steering \union Maintenance \union {"Heartbeat"}

ASSUME OpsAssumption == Ops \subseteq AllOps /\ Values \in [Ops -> SUBSET Int]
ASSUME SlotsAssumption == NewSlots \subseteq 0..255
ASSUME BoundsAssumption ==
  /\ MaxAttempts \in Nat \ {0} /\ QueueBound \in Nat
  /\ MaxCalls \in Nat /\ MaxChanges \in Nat /\ MaxLapses \in Nat

-----------------------------------------------------------------------------
(* What the commands check and send. *)

\* Mutant of Verdict: finite, but unchecked range.
VerdictWithoutRange(op, value) ==
  IF op \in Setpoints /\ value = NaN THEN "invalid_argument" ELSE "ok"

\* SendControlMessage, and the 25.x branches of SetVelocity and SetPosition.
\* SendSetpointWithCtrlType and SetPrimaryEncoderPosition take any float.
Verdict(op, value) ==
  IF op \in Setpoints /\ value = NaN THEN "invalid_argument"
  ELSE IF op = "DutyCycle" /\ value \notin -1..1 THEN "out_of_range"
  ELSE "ok"

\* The kind of slot a call puts into its frame.
SlotKind(protocol, op) ==
  IF protocol = "Spark25x" /\ op = "Velocity" THEN "velocity"
  ELSE IF protocol = "Spark25x" /\ op = "Position" THEN "position"
  ELSE "none"

\* Mutant of FrameName: a command pasted from another.
FrameNamePasted(protocol, op) ==
  IF op = "Position" THEN "Velocity"
  ELSE IF op = "Heartbeat" /\ protocol = "Spark25x" THEN "Broadcast"
  ELSE op

\* The frame, as Wire names it: in 25.x mode SetVelocity and SetPosition have
\* setpoint messages of their own and Heartbeat is a broadcast.
FrameName(protocol, op) ==
  IF SlotKind(protocol, op) = "velocity" THEN "VelocitySetpoint"
  ELSE IF SlotKind(protocol, op) = "position" THEN "PositionSetpoint"
  ELSE IF op = "Heartbeat" /\ protocol = "Spark25x" THEN "Broadcast"
  ELSE op

\* Mutant of HeartbeatMask: only the own controller's bit.
HeartbeatMaskSingle(o) == {o}

\* The enable bits of a 25.x heartbeat: all.
HeartbeatMask(o) == Objects

-----------------------------------------------------------------------------
VARIABLES
  protocol,   \* protocol_ of each object, and what its controller speaks
  slots,      \* velocity_slot_ and position_slot_ of each object
  pc, call,   \* where each thread is, and in which call
  slot,       \* the slot it read
  tries,      \* failed transmissions of its frame
  outcome,    \* how its last call ended
  txQueue,    \* the transmit queue of the interface
  obeys,      \* the setpoint each controller follows
  enabled,    \* whether each controller has heard a heartbeat lately
  sent,       \* history: frames taken by the kernel, in order
  seen,       \* history: slots in force since each thread's call began
  final,      \* history: completed setpoint calls per object that none followed
  before,     \* history: final of the object when each thread's call began
  lost,       \* history: a frame was lost
  calls, changes, lapses   \* bound counters

threadVars == <<pc, call, slot, tries, outcome>>
deviceVars == <<obeys, enabled>>
history == <<sent, seen, final, before, lost>>
bounds == <<calls, changes, lapses>>
vars == <<protocol, slots, threadVars, txQueue, deviceVars, history, bounds>>

AllValues == UNION {Values[op] : op \in Ops}
Calls == [op : Ops, obj : Objects, value : AllValues, id : 1..MaxCalls]

Init ==
  /\ protocol \in [Objects -> Protocols]
  /\ slots = [o \in Objects |-> [velocity |-> 0, position |-> 1]]
  /\ pc = [t \in Threads |-> "idle"]
  /\ call = [t \in Threads |-> Nobody]
  /\ slot = [t \in Threads |-> 0] /\ tries = [t \in Threads |-> 0]
  /\ outcome = [t \in Threads |-> "none"]
  /\ txQueue = <<>>
  /\ obeys = [o \in Objects |-> Nobody] /\ enabled = [o \in Objects |-> FALSE]
  /\ sent = <<>>
  /\ seen = [t \in Threads |-> {}]
  /\ final = [o \in Objects |-> {}] /\ before = [t \in Threads |-> {}]
  /\ lost = FALSE
  /\ calls = 0 /\ changes = 0 /\ lapses = 0

Kind(t) == SlotKind(protocol[call[t].obj], call[t].op)

-----------------------------------------------------------------------------
(* The threads. *)

\* A valid call: from the checks to the point where the slot is read.
Begin(t, op, o, value) ==
  /\ pc[t] = "idle" /\ calls < MaxCalls
  /\ Verdict(op, value) = "ok"
  /\ calls' = calls + 1
  /\ call' = [call EXCEPT ![t] = [op |-> op, obj |-> o, value |-> value, id |-> calls']]
  /\ LET kind == SlotKind(protocol[o], op) IN
       /\ pc' = [pc EXCEPT ![t] = IF kind = "none" THEN "send" ELSE "encode"]
       /\ seen' = [seen EXCEPT ![t] = IF kind = "none" THEN {0} ELSE {slots[o][kind]}]
  /\ outcome' = [outcome EXCEPT ![t] = "none"]
  /\ before' = [before EXCEPT ![t] = final[o]]
  /\ UNCHANGED <<protocol, slots, slot, tries, txQueue, deviceVars, sent, final, lost, changes, lapses>>

\* An argument that does not pass: nothing is sent.
Refuse(t, op, value) ==
  /\ pc[t] = "idle" /\ calls < MaxCalls
  /\ Verdict(op, value) # "ok"
  /\ calls' = calls + 1
  /\ outcome' = [outcome EXCEPT ![t] = "refused"]
  /\ UNCHANGED <<protocol, slots, pc, call, slot, tries, txQueue, deviceVars, history, changes, lapses>>

\* Mutant of Encode: SetPosition reads the velocity's slot.
EncodePasted(t) ==
  /\ pc[t] = "encode"
  /\ slot' = [slot EXCEPT ![t] = slots[call[t].obj].velocity % 4]
  /\ pc' = [pc EXCEPT ![t] = "send"]
  /\ UNCHANGED <<protocol, slots, call, tries, outcome, txQueue, deviceVars, history, bounds>>

\* EncodeSetpoint(value, velocity_slot_): the slot is read, without the mutex.
Encode(t) ==
  /\ pc[t] = "encode"
  /\ slot' = [slot EXCEPT ![t] = slots[call[t].obj][Kind(t)] % 4]
  /\ pc' = [pc EXCEPT ![t] = "send"]
  /\ UNCHANGED <<protocol, slots, call, tries, outcome, txQueue, deviceVars, history, bounds>>

\* What goes to the kernel for a thread's call.
Frame(t) ==
  LET c == call[t]
      name == FrameName(protocol[c.obj], c.op)
  IN [name |-> name, obj |-> c.obj, value |-> c.value, slot |-> slot[t],
      mask |-> IF name = "Broadcast" THEN HeartbeatMask(c.obj) ELSE {}]

\* The call is over; what was local to it is gone.
Return(t, how) ==
  /\ pc' = [pc EXCEPT ![t] = "idle"]
  /\ call' = [call EXCEPT ![t] = Nobody]
  /\ slot' = [slot EXCEPT ![t] = 0]
  /\ tries' = [tries EXCEPT ![t] = 0]
  /\ outcome' = [outcome EXCEPT ![t] = how]
  /\ seen' = [seen EXCEPT ![t] = {}]
  /\ before' = [before EXCEPT ![t] = {}]

\* Mutant of SendAccepted: no return after a successful write.
SendAcceptedAgain(t) ==
  /\ pc[t] = "send" /\ Len(txQueue) < QueueBound /\ Len(sent) < MaxCalls
  /\ txQueue' = Append(txQueue, Frame(t))
  /\ sent' = Append(sent, Frame(t))
  /\ UNCHANGED <<protocol, slots, threadVars, deviceVars, seen, final, before, lost, bounds>>

\* write() succeeds and the call returns.
SendAccepted(t) ==
  /\ pc[t] = "send" /\ Len(txQueue) < QueueBound
  /\ txQueue' = Append(txQueue, Frame(t))
  /\ sent' = Append(sent, Frame(t))
  /\ LET c == call[t]
         done == [op |-> c.op, value |-> c.value, slots |-> seen[t], id |-> c.id]
     IN final' = IF c.op \in Steering
                 THEN [final EXCEPT ![c.obj] = (@ \ before[t]) \union {done}]
                 ELSE final
  /\ Return(t, "ok")
  /\ UNCHANGED <<protocol, slots, deviceVars, lost, bounds>>

\* Mutants of SendBusy: the count starts over; one attempt too many.
SendBusyForever(t) ==
  /\ pc[t] = "send"
  /\ tries' = [tries EXCEPT ![t] = (@ + 1) % MaxAttempts]
  /\ UNCHANGED <<protocol, slots, pc, call, slot, outcome, txQueue, deviceVars, history, bounds>>

SendBusyOneMore(t) ==
  /\ pc[t] = "send"
  /\ IF tries[t] <= MaxAttempts
     THEN /\ tries' = [tries EXCEPT ![t] = @ + 1]
          /\ UNCHANGED <<pc, call, slot, outcome, seen, before>>
     ELSE Return(t, "thrown")
  /\ UNCHANGED <<protocol, slots, txQueue, deviceVars, sent, final, lost, bounds>>

\* ENOBUFS or EAGAIN: sleep and try again; after the last attempt throw.
SendBusy(t) ==
  /\ pc[t] = "send"
  /\ IF tries[t] + 1 < MaxAttempts
     THEN /\ tries' = [tries EXCEPT ![t] = @ + 1]
          /\ UNCHANGED <<pc, call, slot, outcome, seen, before>>
     ELSE Return(t, "thrown")
  /\ UNCHANGED <<protocol, slots, txQueue, deviceVars, sent, final, lost, bounds>>

\* Any other errno: throw.
SendFailed(t) ==
  /\ pc[t] = "send"
  /\ Return(t, "thrown")
  /\ UNCHANGED <<protocol, slots, txQueue, deviceVars, sent, final, lost, bounds>>

\* SetVelocitySlot and SetPositionSlot, also without the mutex.
SetSlot(t, o, kind, s) ==
  /\ pc[t] = "idle" /\ changes < MaxChanges
  /\ s < 4
  /\ slots' = [slots EXCEPT ![o][kind] = s]
  /\ changes' = changes + 1
  /\ seen' = [u \in Threads |->
                IF pc[u] # "idle" /\ call[u].obj = o /\ Kind(u) = kind
                THEN seen[u] \union {s} ELSE seen[u]]
  /\ UNCHANGED <<protocol, threadVars, txQueue, deviceVars, sent, final, before, lost, calls, lapses>>

RefuseSlot(t, s) ==
  /\ pc[t] = "idle" /\ changes < MaxChanges
  /\ s >= 4
  /\ changes' = changes + 1
  /\ outcome' = [outcome EXCEPT ![t] = "refused"]
  /\ UNCHANGED <<protocol, slots, pc, call, slot, tries, txQueue, deviceVars, history, calls, lapses>>

-----------------------------------------------------------------------------
(* The bus and the controllers (external to the repository). *)

\* What a controller takes a frame for.
Meaning(name) ==
  IF name = "VelocitySetpoint" THEN "Velocity"
  ELSE IF name = "PositionSetpoint" THEN "Position" ELSE name

Deliver ==
  /\ txQueue # <<>>
  /\ txQueue' = Tail(txQueue)
  /\ LET f == Head(txQueue) IN
       /\ obeys' = IF Meaning(f.name) \in Steering
                   THEN [obeys EXCEPT ![f.obj] =
                           [op |-> Meaning(f.name), value |-> f.value, slot |-> f.slot]]
                   ELSE obeys
       /\ enabled' = [o \in Objects |->
                        IF f.name = "Broadcast" /\ protocol[o] = "Spark25x" THEN o \in f.mask
                        ELSE IF f.name = "Heartbeat" /\ o = f.obj THEN TRUE
                        ELSE enabled[o]]
  /\ UNCHANGED <<protocol, slots, threadVars, history, bounds>>

Lose ==
  /\ txQueue # <<>>
  /\ txQueue' = Tail(txQueue)
  /\ lost' = TRUE
  /\ UNCHANGED <<protocol, slots, threadVars, deviceVars, sent, seen, final, before, bounds>>

\* No heartbeat for too long.
Lapse(o) ==
  /\ enabled[o] /\ lapses < MaxLapses
  /\ enabled' = [enabled EXCEPT ![o] = FALSE]
  /\ lapses' = lapses + 1
  /\ UNCHANGED <<protocol, slots, threadVars, txQueue, obeys, history, calls, changes>>

-----------------------------------------------------------------------------
ThreadStep(t) == Encode(t) \/ SendAccepted(t) \/ SendBusy(t) \/ SendFailed(t)

Application(t) ==
  \/ \E op \in Ops, o \in Objects : \E value \in Values[op] : Begin(t, op, o, value)
  \/ \E op \in Ops : \E value \in Values[op] : Refuse(t, op, value)
  \/ \E o \in Objects, kind \in {"velocity", "position"}, s \in NewSlots : SetSlot(t, o, kind, s)
  \/ \E s \in NewSlots : RefuseSlot(t, s)

Next ==
  \/ \E t \in Threads : ThreadStep(t) \/ Application(t)
  \/ Deliver \/ Lose
  \/ \E o \in Objects : Lapse(o)

Spec == Init /\ [][Next]_vars

\* A thread in a call runs; nothing is assumed of the bus.
FairSpec == Spec /\ \A t \in Threads : WF_vars(ThreadStep(t))

-----------------------------------------------------------------------------
FrameNames == {FrameName(p, op) : p \in Protocols, op \in Ops}
Frames == [name : FrameNames, obj : Objects, value : AllValues, slot : 0..3, mask : SUBSET Objects]

\* The threads, the queue and the controllers keep their types and bounds.
TypeOK ==
  /\ protocol \in [Objects -> Protocols]
  /\ slots \in [Objects -> [velocity : 0..3, position : 0..3]]
  /\ pc \in [Threads -> {"idle", "encode", "send"}]
  /\ call \in [Threads -> Calls \union {Nobody}]
  /\ slot \in [Threads -> 0..3] /\ tries \in [Threads -> 0..(MaxAttempts - 1)]
  /\ outcome \in [Threads -> {"none", "ok", "thrown", "refused"}]
  /\ txQueue \in Seq(Frames) /\ Len(txQueue) <= QueueBound
  /\ obeys \in [Objects -> [op : Ops, value : AllValues, slot : 0..3] \union {Nobody}]
  /\ enabled \in [Objects -> BOOLEAN]
  /\ sent \in Seq(Frames) /\ seen \in [Threads -> SUBSET (0..3)]
  /\ lost \in BOOLEAN
  /\ calls \in 0..MaxCalls /\ changes \in 0..MaxChanges /\ lapses \in 0..MaxLapses

\* A setpoint carries a slot that was selected for its kind of setpoint, and
\* in force at some time of the call, however the selections of other threads
\* fall between the call's steps.
SlotAsChosen == \A t \in Threads : pc[t] = "send" => slot[t] \in seen[t]

CallsValid ==
  \A t \in Threads : pc[t] # "idle" => call[t] \in Calls /\ Verdict(call[t].op, call[t].value) = "ok"
SlotInForce ==
  \A t \in Threads :
    /\ pc[t] = "encode" => Kind(t) # "none" /\ slots[call[t].obj][Kind(t)] \in seen[t]
    /\ pc[t] # "send" => slot[t] = 0
OrdersValid ==
  /\ \A i \in DOMAIN txQueue :
       /\ Verdict(Meaning(txQueue[i].name), txQueue[i].value) = "ok"
       /\ txQueue[i].name = "Broadcast" => txQueue[i].mask = Objects
  /\ \A o \in Objects :
       obeys[o] # Nobody => obeys[o].op \in Steering /\ Verdict(obeys[o].op, obeys[o].value) = "ok"

\* The inductive invariant: what a thread is about to send, what is queued and
\* what is obeyed has passed the checks, and the slot a thread will read or has
\* read was in force during its call.
IndInv == TypeOK /\ CallsValid /\ SlotInForce /\ SlotAsChosen /\ OrdersValid

\* Once the bus has delivered what was sent, and lost nothing, each controller
\* follows the last call made for it: its command, its value, its slot.  Only
\* calls that ran at the same time may have overtaken each other: a setpoint
\* that waited for the queue never replaces that of a call begun after it
\* returned.
ObeysLastWord ==
  \A o \in Objects :
    /\ ~lost /\ final[o] # {}
    /\ \A i \in DOMAIN txQueue : txQueue[i].obj # o
    => \E c \in final[o] :
         obeys[o].op = c.op /\ obeys[o].value = c.value /\ obeys[o].slot \in c.slots

\* No controller is ever given a setpoint that is not finite, or an output out
\* of range, but by SendSetpointWithCtrlType, which checks nothing.
SafeSetpoints ==
  \A o \in Objects :
    obeys[o] # Nobody /\ obeys[o].op # "SetpointWithCtrlType" =>
      /\ obeys[o].value # NaN
      /\ obeys[o].op = "DutyCycle" => obeys[o].value \in -1..1

\* A heartbeat disables nobody, whoever sends it in whatever protocol, and a
\* single one of a 25.x object reaches every 25.x controller.
HeartbeatReachesAll ==
  [][lapses' = lapses =>
       /\ \A o \in Objects : enabled[o] => enabled'[o]
       /\ (enabled' # enabled /\ Head(txQueue).name = "Broadcast") =>
            \A o \in Objects : protocol[o] = "Spark25x" => enabled'[o]]_vars

\* Every call returns or throws, even if the queue never drains.
CallEnds == \A t \in Threads : pc[t] # "idle" ~> pc[t] = "idle"

-----------------------------------------------------------------------------
(* The commands as their contract has them. *)

Command(op, o, value) == [op |-> op, obj |-> o, value |-> value]
Commands == [op : Ops, obj : Objects, value : AllValues]

Contract == INSTANCE CommandContract WITH
  Valid <- {c \in Commands : Verdict(c.op, c.value) = "ok"},
  doing <- [t \in Threads |->
              IF pc[t] = "idle" THEN Nobody ELSE Command(call[t].op, call[t].obj, call[t].value)],
  effects <- [i \in DOMAIN sent |->
                Command(IF sent[i].name = "Broadcast" THEN "Heartbeat" ELSE Meaning(sent[i].name),
                        sent[i].obj, sent[i].value)]

\* Every command takes effect exactly once and during its call, or throws and
\* has none; what reaches the bus is what was asked of the controller it was
\* asked of; invalid commands never do.
ImplementsContract == Contract!Spec
=============================================================================
