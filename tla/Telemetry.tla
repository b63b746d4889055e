------------------------------ MODULE Telemetry ------------------------------
(***************************************************************************)
(* The reader thread's dispatch of received frames into the status caches  *)
(* (SparkBase::ReadPeriodicMessages), and an application that reads an age *)
(* and then a value through the getters.                                   *)
(*                                                                         *)
(* A cached value is abstracted to where it came from: the kind of the     *)
(* frame, and the times it was received and handled.  The controller may   *)
(* run another firmware generation than the object was built for, a        *)
(* sibling socket of the same host may transmit its own class-6 and        *)
(* firmware-version frames (the kernel loops them back to this socket),    *)
(* and frames of other controllers are queued between bind() and the       *)
(* installation of the receive filter.                                     *)
(***************************************************************************)
EXTENDS Integers, Sequences

CONSTANTS
  Emitted,      \* bound: the kinds of frame the controller emits
  QueueBound,   \* bound: frames in the socket's queue
  MaxFrames,    \* bound: frames received in a behaviour
  MaxClock      \* bound: the clock

ClassicKinds == {"Period0", "Period1", "Period2", "Period3", "Period4"}
StatusKinds == {"Status0", "Status1", "Status2", "Status3", "Status4", "Status5"}
Kinds == ClassicKinds \union StatusKinds \union {"Firmware", "ParamResponse"}

ASSUME EmittedAssumption == Emitted \subseteq Kinds
ASSUME BoundsAssumption == QueueBound \in Nat /\ MaxFrames \in Nat /\ MaxClock \in Nat

Protocols == {"Classic", "Spark25x"}

\* A frame: its arbitration id (kind and device), its length, its arrival.
Mine == "mine"
Other == "other"
Lengths == {0, 2, 7, 8}
Frames == [kind : Kinds, device : {Mine, Other}, dlc : Lengths, rx : 0..MaxClock]

Period0 == {"dutyCycle", "faults", "stickyFaults", "isInverted", "idleMode", "isFollower"}
Period1 == {"velocity", "temperature", "voltage", "current"}
Period2 == {"position", "iAccum"}
Period3 == {"analogVoltage", "analogVelocity", "analogPosition"}
Period4 == {"altEncoderVelocity", "altEncoderPosition"}
Status5 == {"absVelocity", "absPosition"}
Fields == Period0 \union Period1 \union Period2 \union Period3 \union Period4 \union Status5
Caches == {"period0", "period1", "period2", "period3", "period4", "status5"}

\* Mutant of Writes: Status 0's flag bits are taken for faults.
WritesFlagsAsFaults(kind) ==
  CASE kind = "Period0" -> Period0
    [] kind = "Period1" -> Period1
    [] kind = "Period2" -> Period2
    [] kind = "Period3" -> Period3
    [] kind = "Period4" -> Period4
    [] kind = "Status0" -> {"dutyCycle", "voltage", "current", "temperature", "faults"}
    [] kind = "Status1" -> {"faults", "stickyFaults"}
    [] kind = "Status2" -> {"velocity", "position"}
    [] kind = "Status3" -> {"analogPosition"}
    [] kind = "Status4" -> Period4
    [] kind = "Status5" -> Status5
    [] OTHER -> {}

\* The fields a frame of each kind writes, and the caches it stamps.
Writes(kind) ==
  CASE kind = "Period0" -> Period0
    [] kind = "Period1" -> Period1
    [] kind = "Period2" -> Period2
    [] kind = "Period3" -> Period3
    [] kind = "Period4" -> Period4
    [] kind = "Status0" -> {"dutyCycle", "voltage", "current", "temperature"}
    [] kind = "Status1" -> {"faults", "stickyFaults"}
    [] kind = "Status2" -> {"velocity", "position"}
    [] kind = "Status3" -> {"analogPosition"}
    [] kind = "Status4" -> Period4
    [] kind = "Status5" -> Status5
    [] OTHER -> {}

\* Mutants of Stamps: Status 2 does not stamp the position's cache; Status 1
\* stamps it too.
StampsWithoutPosition(kind) ==
  CASE kind \in ClassicKinds -> [Period0 |-> {"period0"}, Period1 |-> {"period1"},
                                 Period2 |-> {"period2"}, Period3 |-> {"period3"},
                                 Period4 |-> {"period4"}][kind]
    [] kind \in {"Status0", "Status1"} -> {"period0"}
    [] kind = "Status2" -> {"period1"}
    [] OTHER -> {}

StampsPositionEarly(kind) ==
  CASE kind \in ClassicKinds -> [Period0 |-> {"period0"}, Period1 |-> {"period1"},
                                 Period2 |-> {"period2"}, Period3 |-> {"period3"},
                                 Period4 |-> {"period4"}][kind]
    [] kind \in {"Status1", "Status2"} -> {"period0", "period1", "period2"}
    [] OTHER -> {}

Stamps(kind) ==
  CASE kind = "Period0" -> {"period0"}
    [] kind = "Period1" -> {"period1"}
    [] kind = "Period2" -> {"period2"}
    [] kind = "Period3" -> {"period3"}
    [] kind = "Period4" -> {"period4"}
    [] kind = "Status0" -> {"period0", "period1"}
    [] kind = "Status1" -> {"period0"}
    [] kind = "Status2" -> {"period1", "period2"}
    [] kind = "Status3" -> {"period3"}
    [] kind = "Status4" -> {"period4"}
    [] kind = "Status5" -> {"status5"}
    [] OTHER -> {}

VARIABLES
  protocol,   \* protocol_
  firmware,   \* what the controller speaks
  clock,      \* steady_clock
  rxQueue,    \* the socket's receive queue
  cache,      \* the value of each field, by its origin
  stamp,      \* the timestamp of each cache
  fwResp,     \* fw_resp_: the origin of the captured payload
  paramResp,  \* param_resp_: likewise
  filtered,   \* the receive filter is installed
  watch,      \* the application: an age it has read, then a value
  lone,       \* history: no sibling socket has transmitted
  received    \* bound counter

Never == -1
Unset == [kind |-> "none", rx |-> Never, at |-> Never]
Origins == [kind : Kinds, rx : 0..MaxClock, at : 0..MaxClock]

slots == <<fwResp, paramResp>>
config == <<protocol, firmware>>
vars == <<config, clock, rxQueue, cache, stamp, slots, filtered, watch, lone, received>>

\* The four ages the interface offers, each with the value it is meant for.
Aged == [period2 |-> "position", period3 |-> "analogPosition",
         period4 |-> "altEncoderPosition", status5 |-> "absPosition"]
NoWatch == [pc |-> "idle", of |-> "period2", heard |-> Never, value |-> Unset]

Init ==
  /\ protocol \in Protocols /\ firmware \in Protocols
  /\ clock = 0
  /\ rxQueue = <<>>
  /\ cache = [f \in Fields |-> Unset]
  /\ stamp = [c \in Caches |-> Never]
  /\ fwResp = Unset /\ paramResp = Unset
  /\ filtered = FALSE
  /\ watch = NoWatch
  /\ lone = TRUE
  /\ received = 0

-----------------------------------------------------------------------------
(* The dispatch. *)

\* Class-6 and firmware-version frames are recognised in both protocols; the
\* 25.x frames only if the object was built for them, at their full length.
Handled(frame) ==
  /\ frame.device = Mine
  /\ frame.dlc # 0
  /\ \/ frame.kind \in ClassicKinds
     \/ frame.kind = "Firmware" /\ frame.dlc >= 5
     \/ frame.kind = "ParamResponse" /\ protocol = "Spark25x" /\ frame.dlc >= 7
     \/ frame.kind \in StatusKinds /\ protocol = "Spark25x" /\ frame.dlc = 8

Origin(frame) == [kind |-> frame.kind, rx |-> frame.rx, at |-> clock]

\* Mutants of Dispatch: the last frame first; an unknown frame is not consumed.
DispatchLatest ==
  /\ rxQueue # <<>>
  /\ rxQueue' = SubSeq(rxQueue, 1, Len(rxQueue) - 1)
  /\ LET frame == rxQueue[Len(rxQueue)] IN
       IF Handled(frame)
       THEN /\ cache' = [f \in Fields |->
                           IF f \in Writes(frame.kind) THEN Origin(frame) ELSE cache[f]]
            /\ stamp' = [c \in Caches |->
                           IF c \in Stamps(frame.kind) THEN clock ELSE stamp[c]]
       ELSE UNCHANGED <<cache, stamp>>
  /\ UNCHANGED <<config, clock, slots, filtered, watch, lone, received>>

DispatchStops ==
  /\ rxQueue # <<>> /\ Handled(Head(rxQueue))
  /\ rxQueue' = Tail(rxQueue)
  /\ LET frame == Head(rxQueue) IN
       /\ cache' = [f \in Fields |->
                      IF f \in Writes(frame.kind) THEN Origin(frame) ELSE cache[f]]
       /\ stamp' = [c \in Caches |->
                      IF c \in Stamps(frame.kind) THEN clock ELSE stamp[c]]
  /\ UNCHANGED <<config, clock, slots, filtered, watch, lone, received>>

\* One frame is read and handled under the mutex.
Dispatch ==
  /\ rxQueue # <<>>
  /\ rxQueue' = Tail(rxQueue)
  /\ LET frame == Head(rxQueue) IN
       IF Handled(frame)
       THEN /\ cache' = [f \in Fields |->
                           IF f \in Writes(frame.kind) THEN Origin(frame) ELSE cache[f]]
            /\ stamp' = [c \in Caches |->
                           IF c \in Stamps(frame.kind) THEN clock ELSE stamp[c]]
            /\ fwResp' = IF frame.kind = "Firmware" THEN Origin(frame) ELSE fwResp
            /\ paramResp' = IF frame.kind = "ParamResponse" THEN Origin(frame) ELSE paramResp
       ELSE UNCHANGED <<cache, stamp, slots>>
  /\ UNCHANGED <<config, clock, filtered, watch, lone, received>>

-----------------------------------------------------------------------------
(* The application: an age (StatusNAgeMs), later the value it is about. *)

\* age_ms gives the clock minus the timestamp: it tells when the cache was
\* last stamped, or that it never was.
ReadAge(c) ==
  /\ watch.pc = "idle"
  /\ watch' = [NoWatch EXCEPT !.pc = "aged", !.of = c, !.heard = stamp[c]]
  /\ UNCHANGED <<config, clock, rxQueue, cache, stamp, slots, filtered, lone, received>>

ReadValue ==
  /\ watch.pc = "aged"
  /\ watch' = [watch EXCEPT !.pc = "read", !.value = cache[Aged[watch.of]]]
  /\ UNCHANGED <<config, clock, rxQueue, cache, stamp, slots, filtered, lone, received>>

Forget ==
  /\ watch.pc = "read"
  /\ watch' = NoWatch
  /\ UNCHANGED <<config, clock, rxQueue, cache, stamp, slots, filtered, lone, received>>

-----------------------------------------------------------------------------
(* The constructor's last step, the bus and the clock (external but for the *)
(* filter). *)

InstallFilter ==
  /\ ~filtered /\ filtered' = TRUE
  /\ UNCHANGED <<config, clock, rxQueue, cache, stamp, slots, watch, lone, received>>

Receive(kind, device, dlc) ==
  /\ received < MaxFrames /\ Len(rxQueue) < QueueBound
  /\ filtered => device = Mine
  /\ rxQueue' = Append(rxQueue, [kind |-> kind, device |-> device, dlc |-> dlc, rx |-> clock])
  /\ received' = received + 1
  /\ UNCHANGED <<config, clock, cache, stamp, slots, filtered, watch>>

Speaks(fw) ==
  IF fw = "Classic" THEN ClassicKinds \union {"Firmware"}
  ELSE StatusKinds \union {"Firmware", "ParamResponse"}

Length(kind) == IF kind = "ParamResponse" THEN 7 ELSE 8

ControllerSends(kind) ==
  /\ kind \in Emitted \intersect Speaks(firmware)
  /\ Receive(kind, Mine, Length(kind))
  /\ UNCHANGED lone

OtherControllerSends(kind) ==
  /\ kind \in Emitted
  /\ Receive(kind, Other, Length(kind))
  /\ UNCHANGED lone

\* SetPeriodicStatusNPeriod of a sibling: two bytes on the id of PeriodN.
SiblingSetsPeriod(kind) ==
  /\ kind \in Emitted \intersect ClassicKinds
  /\ Receive(kind, Mine, 2)
  /\ lone' = FALSE

\* ReadFirmwareVersion of a sibling: no data (classic), or a remote frame
\* whose length is that of the reply it asks for (25.x).
SiblingAsksFirmware(dlc) ==
  /\ dlc \in {0, 8} /\ "Firmware" \in Emitted
  /\ Receive("Firmware", Mine, dlc)
  /\ lone' = FALSE

Tick ==
  /\ clock < MaxClock /\ clock' = clock + 1
  /\ UNCHANGED <<config, rxQueue, cache, stamp, slots, filtered, watch, lone, received>>

-----------------------------------------------------------------------------
App == (\E c \in DOMAIN Aged : ReadAge(c)) \/ ReadValue \/ Forget
Bus ==
  \/ \E kind \in Kinds : ControllerSends(kind) \/ OtherControllerSends(kind)
Siblings ==
  \/ \E kind \in ClassicKinds : SiblingSetsPeriod(kind)
  \/ \E dlc \in Lengths : SiblingAsksFirmware(dlc)

Next == Dispatch \/ App \/ InstallFilter \/ Bus \/ Siblings \/ Tick
Spec == Init /\ [][Next]_vars

\* The reader thread runs; the bus owes nobody anything.
FairSpec == Spec /\ WF_vars(Dispatch)

-----------------------------------------------------------------------------
\* Caches, stamps and slots hold only what frames received so far can put there.
TypeOK ==
  /\ protocol \in Protocols /\ firmware \in Protocols
  /\ clock \in 0..MaxClock
  /\ rxQueue \in Seq(Frames) /\ Len(rxQueue) <= QueueBound
  /\ cache \in [Fields -> Origins \union {Unset}]
  /\ stamp \in [Caches -> 0..MaxClock \union {Never}]
  /\ fwResp \in Origins \union {Unset} /\ paramResp \in Origins \union {Unset}
  /\ filtered \in BOOLEAN
  /\ watch \in [pc : {"idle", "aged", "read"}, of : DOMAIN Aged,
                heard : 0..MaxClock \union {Never}, value : Origins \union {Unset}]
  /\ lone \in BOOLEAN
  /\ received \in 0..MaxFrames

\* The age of a cache is the age of the value it is meant for: whatever the
\* firmware and the other sockets send, no frame refreshes the one without
\* the other.
AgeIsThatOfValue ==
  \A c \in DOMAIN Aged : stamp[c] = cache[Aged[c]].at

\* The caches are well-formed and their ages are true.
AgesTrue == TypeOK /\ AgeIsThatOfValue

\* An application that reads the age first and the value second never acts on
\* a value older than that age, however the reader thread runs in between.
AgeThenValueIsSafe ==
  watch.pc = "read" => watch.value.at >= watch.heard

\* No value goes back to an earlier frame, and no age grows younger than the
\* frame behind it allows: what is cached is replaced only by later arrivals.
OnlyNewer ==
  [][/\ \A f \in Fields : cache'[f].rx >= cache[f].rx
     /\ \A c \in Caches : stamp'[c] >= stamp[c]]_vars

\* The one status frame that has each value.
Owner(f) ==
  CASE f \in {"faults", "stickyFaults"} -> "Status1"
    [] f \in {"velocity", "position"} -> "Status2"
    [] f \in {"dutyCycle", "voltage", "current", "temperature"} -> "Status0"
    [] f = "analogPosition" -> "Status3"
    [] f \in Period4 -> "Status4"
    [] f \in Status5 -> "Status5"
    [] OTHER -> "none"

\* An object built for its controller's 25.x firmware, with no sibling on its
\* host, has each value from the one status frame that owns it: Status 0's flag
\* bits never reach the faults, only Status 2 feeds position and velocity.
OwnedWhenMatched ==
  protocol = "Spark25x" /\ firmware = protocol /\ lone =>
    \A f \in Fields : cache[f].kind \in {Owner(f), "none"}

\* A position-bearing frame in the queue reaches the cache, whatever is queued
\* around it: no frame, of whatever length or origin, stops the reader thread.
PositionArrives ==
  \A t \in 0..MaxClock :
    (\E i \in DOMAIN rxQueue : rxQueue[i].rx = t /\ Handled(rxQueue[i])
                                /\ "position" \in Writes(rxQueue[i].kind))
      ~> cache["position"].rx >= t

\* SparkBase.hpp on Status2AgeMs: "in Spark25x mode only the Status-2 handler
\* does (...) nothing else touches the position cache's timestamp".
OnlyStatus2Stamps ==
  protocol = "Spark25x" /\ stamp["period2"] # Never => cache["position"].kind = "Status2"
=============================================================================
