-------------------------------- MODULE ArbIds --------------------------------
(***************************************************************************)
(* The 29-bit arbitration ids: how a command, a classic parameter and a    *)
(* 25.x message are numbered, and what the receive filter of an object     *)
(* lets through.  The fields the code joins with | do not overlap, so they *)
(* are added here; MCWire compares the sums with the bitwise operators.    *)
(* The behaviour is a bus that carries one frame after the other.          *)
(***************************************************************************)
EXTENDS Integers

CONSTANTS
  Devices,   \* device ids in use
  Aliens     \* ids of frames of other device types and manufacturers

ASSUME DevicesAssumption == Devices \subseteq 0..62
ASSUME AliensAssumption ==
  \A id \in Aliens : id \in Nat /\ id < 536870912 /\ id \div 65536 # (2 * 256) + 5

\* enum class APICommand: (class << 4) | index.
APICommand ==
  [ClearFaults |-> (6 * 16) + 14, FactoryDefaults |-> (7 * 16) + 4,
   FactoryReset |-> (7 * 16) + 5, Identify |-> (7 * 16) + 6, Heartbeat |-> (11 * 16) + 2,
   BurnFlash |-> (63 * 16) + 2, FirmwareVersion |-> (9 * 16) + 8,
   Setpoint |-> 1, DutyCycle |-> 2, Velocity |-> 16 + 2, SmartVelocity |-> 16 + 3,
   Position |-> (3 * 16) + 2, Voltage |-> (4 * 16) + 2, Current |-> (4 * 16) + 3,
   SmartMotion |-> (5 * 16) + 2, Period0 |-> 6 * 16, Period1 |-> (6 * 16) + 1,
   Period2 |-> (6 * 16) + 2, Period3 |-> (6 * 16) + 3, Period4 |-> (6 * 16) + 4]
Commands == {APICommand[name] : name \in DOMAIN APICommand}

\* Mutant of Messages25x: the index of the velocity setpoint is off by one.
Messages25xOffByOne == {1, 4, 10 * 16, 14 * 16, (14 * 16) + 1} \union ((46 * 16)..((46 * 16) + 5))

\* The 25.x messages, as class * 16 + index: velocity and position setpoint,
\* encoder position, parameter write and its response, Status 0 to 5.
Messages25x == {0, 4, 10 * 16, 14 * 16, (14 * 16) + 1} \union ((46 * 16)..((46 * 16) + 5))

\* The numbers of enum class Parameter.
ParamIds == 1..154

kArbBase == (2 * 16777216) + (5 * 65536)

MakeArbId(apiClass, apiIndex, deviceId) ==
  kArbBase + ((apiClass % 64) * 1024) + ((apiIndex % 16) * 64) + (deviceId % 64)

StatusArbId(statusIdx, deviceId) == MakeArbId(46, statusIdx, deviceId)

\* Addressed to device 0: every 25.x controller listens to it.
HeartbeatArbId == MakeArbId(11, 2, 0)

GetAPIClass(cmd) == (cmd \div 16) % 256
GetAPIIndex(cmd) == cmd % 16

CreateArbId(cmd, deviceId) ==
  (2 * 16777216) + (5 * 65536) + (GetAPIClass(cmd) * 1024) + (GetAPIIndex(cmd) * 64) + deviceId

CreateParamArbId(paramId, deviceId) ==
  (2 * 16777216) + (5 * 65536) + (48 * 1024) + (paramId * 64) + deviceId

\* Mutant of Accepts: the mask leaves the device type out.
AcceptsAnyType(deviceId, arbId) == (arbId \div 65536) % 256 = 5 /\ arbId % 64 = deviceId

\* CAN_RAW_FILTER: device type, manufacturer and device id must be these.
Accepts(deviceId, arbId) ==
  /\ (arbId \div 16777216) % 32 = 2
  /\ (arbId \div 65536) % 256 = 5
  /\ arbId % 64 = deviceId

-----------------------------------------------------------------------------
(* What the objects, the controllers and everyone else transmit. *)

Own ==
  [kind : {"command"}, code : Commands, device : Devices]
    \union [kind : {"message25x"}, code : Messages25x, device : Devices]
    \union [kind : {"parameter"}, code : ParamIds, device : Devices]
Frames == Own \union [kind : {"alien"}, code : Aliens, device : {-1}]

ArbId(f) ==
  IF f.kind = "command" THEN CreateArbId(f.code, f.device)
  ELSE IF f.kind = "message25x" THEN MakeArbId(f.code \div 16, f.code % 16, f.device)
  ELSE IF f.kind = "parameter" THEN CreateParamArbId(f.code, f.device)
  ELSE f.code

VARIABLE last   \* the last frame on the bus

Init == last \in Own

Send(f) == last' = f

Next == \E f \in Frames : Send(f)

Spec == Init /\ [][Next]_last

-----------------------------------------------------------------------------
\* An arbitration id tells what a frame is and whose: no parameter number runs
\* into the class of a command or of a 25.x message, no two frames coincide.
IdIdentifies == \A f \in Own : ArbId(f) = ArbId(last) => f = last

\* The filter of an object lets through all frames of its own controller, and
\* none of another controller or of anyone else.
FilterExact == \A d \in Devices : Accepts(d, ArbId(last)) <=> last.device = d
=============================================================================
