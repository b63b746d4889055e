-------------------------------- MODULE Wire --------------------------------
(***************************************************************************)
(* Everything that crosses the bus between this library and its            *)
(* controllers, one frame at a time: ArbIds numbers the frames, FrameCodec *)
(* fills and reads their payloads, and the reader thread of every object   *)
(* on the bus looks at each of them.                                       *)
(*                                                                         *)
(* The layouts are the ones the comments of Spark25xFrames.cpp quote from  *)
(* REV's specification, and the classic ones of SparkBase.cpp.  A sender   *)
(* that follows them bit by bit (Packed) is what encoders and decoders are *)
(* compared with.                                                          *)
(***************************************************************************)
EXTENDS ArbIds, FrameCodec

CONSTANTS
  Picks,     \* bound: so many contents of each field are transmitted,
  Words,     \* these of the fields of 32 bits,
  Numbers,   \* these of the fields of fewer bits, by their width
  SomeIds    \* bound: the parameter numbers of orders and answers

Widths == {1, 2, 8, 10, 12, 16, 22}
ASSUME WordsAssumption == Words \in [Picks -> Word32]
ASSUME NumbersAssumption ==
  /\ DOMAIN Numbers = Widths
  /\ \A w \in Widths : Numbers[w] \in [Picks -> 0..((2 ^ w) - 1)]
\* The broadcast heartbeat has the device number 0.
ASSUME BroadcastAssumption == 0 \in Devices
ASSUME SomeIdsAssumption == SomeIds \subseteq ParamIds

Protocols == {"Classic", "Spark25x"}

-----------------------------------------------------------------------------
(* The layouts: first bit and width of each field. *)

Mask == [low |-> <<0, 32>>, high |-> <<32, 32>>]

ReportLayout ==
  [Status0 |-> [dutyCycle |-> <<0, 16>>, voltage |-> <<16, 12>>, current |-> <<28, 12>>,
                temperature |-> <<40, 8>>],
   Status1 |-> [faults |-> <<0, 8>>, warnings |-> <<16, 8>>, stickyFaults |-> <<24, 8>>,
                stickyWarnings |-> <<40, 8>>],
   Status2 |-> [velocity |-> <<0, 32>>, position |-> <<32, 32>>],
   Status3 |-> [analogPosition |-> <<32, 32>>],
   Status4 |-> [altEncoderVelocity |-> <<0, 32>>, altEncoderPosition |-> <<32, 32>>],
   Status5 |-> [absVelocity |-> <<0, 32>>, absPosition |-> <<32, 32>>],
   WriteResponse |-> [paramId |-> <<0, 8>>, value |-> <<16, 32>>, resultCode |-> <<48, 8>>],
   Period0 |-> [dutyCycle |-> <<0, 16>>, faults |-> <<16, 16>>, stickyFaults |-> <<32, 16>>,
                isInverted |-> <<49, 1>>, idleMode |-> <<57, 1>>, isFollower |-> <<58, 1>>],
   Period1 |-> [velocity |-> <<0, 32>>, temperature |-> <<32, 8>>, voltage |-> <<40, 12>>,
                current |-> <<52, 12>>],
   Period2 |-> [position |-> <<0, 32>>, iAccum |-> <<32, 32>>],
   Period3 |-> [analogVoltage |-> <<0, 10>>, analogVelocity |-> <<10, 22>>,
                analogPosition |-> <<32, 32>>],
   Period4 |-> [altEncoderVelocity |-> <<0, 32>>, altEncoderPosition |-> <<32, 32>>],
   Firmware |-> [major |-> <<0, 8>>, minor |-> <<8, 8>>, buildHigh |-> <<16, 8>>,
                 buildLow |-> <<24, 8>>, debug |-> <<32, 8>>],
   Answer |-> [value |-> <<0, 32>>, type |-> <<32, 8>>]]

Control == {"Setpoint", "DutyCycle", "Velocity", "SmartVelocity", "Position", "Voltage",
            "Current", "SmartMotion"}
Periods == {"SetPeriod0", "SetPeriod1", "SetPeriod2", "SetPeriod3", "SetPeriod4"}
Setpoint25x == [value |-> <<0, 32>>, slot |-> <<48, 2>>]

\* The orders that are neither control commands nor period settings.
SingleLayout ==
  [VelocitySetpoint |-> Setpoint25x, PositionSetpoint |-> Setpoint25x,
   SetpointWithCtrlType |-> [value |-> <<0, 32>>, ctrlType |-> <<48, 8>>],
   EncoderPosition |-> [value |-> <<0, 32>>, dataType |-> <<32, 8>>],
   ParamWrite |-> [paramId |-> <<0, 8>>, value |-> <<8, 32>>],
   SetWord |-> [value |-> <<0, 32>>, type |-> <<32, 8>>],
   SetShort |-> [value |-> <<0, 16>>, type |-> <<32, 8>>],
   SetByte |-> [value |-> <<0, 8>>, type |-> <<32, 8>>],
   Heartbeat |-> Mask, Broadcast |-> Mask,
   BurnFlash |-> [magic |-> <<0, 16>>],
   FactoryDefaults |-> [yes |-> <<0, 8>>], FactoryReset |-> [yes |-> <<0, 8>>],
   Identify |-> <<>>, ClearFaults |-> <<>>, RemoteQuery |-> <<>>,
   FirmwareQuery |-> <<>>, ParameterQuery |-> <<>>]

OrderLayout ==
  [name \in Control \union Periods \union DOMAIN SingleLayout |->
     IF name \in Control THEN [value |-> <<0, 32>>]
     ELSE IF name \in Periods THEN [period |-> <<0, 16>>]
     ELSE SingleLayout[name]]

\* Fields whose content the protocol fixes.
AllOnes == <<255, 255, 255, 255>>
Fixed == [dataType |-> 3, magic |-> 163 + (256 * 58), yes |-> 1, low |-> AllOnes, high |-> AllOnes]

Length(name) ==
  CASE name \in {"FirmwareQuery", "ParameterQuery"} -> 0
    [] name \in {"FactoryDefaults", "FactoryReset"} -> 1
    [] name \in Periods \union {"BurnFlash"} -> 2
    [] name \in {"ParamWrite", "EncoderPosition", "SetWord", "SetShort", "SetByte"} -> 5
    [] name = "WriteResponse" -> 7
    [] OTHER -> 8

\* Bit k of a value of the given width.
BitOf(value, width, k) ==
  IF width = 32 THEN (value[(k \div 8) + 1] \div (2 ^ (k % 8))) % 2
  ELSE (value \div (2 ^ k)) % 2

\* The payload of a sender that follows the layout; bits of no field are fill.
Owners(layout, p) == {f \in DOMAIN layout : p \in layout[f][1]..(layout[f][1] + layout[f][2] - 1)}
PackedBit(layout, fields, fill, p) ==
  IF Owners(layout, p) = {} THEN fill
  ELSE LET f == CHOOSE f \in Owners(layout, p) : TRUE
       IN BitOf(fields[f], layout[f][2], p - layout[f][1])
Packed(layout, length, fields, fill) ==
  [i \in 1..length |->
     LET b(j) == PackedBit(layout, fields, fill, (8 * (i - 1)) + j) * (2 ^ j)
     IN b(0) + b(1) + b(2) + b(3) + b(4) + b(5) + b(6) + b(7)]

\* The k-th content of a field.
Content(field, width, k) ==
  IF field \in DOMAIN Fixed THEN Fixed[field]
  ELSE IF width = 32 THEN Words[k]
  ELSE IF field = "dutyCycle" THEN Signed16(Numbers[width][k])
  ELSE Numbers[width][k]

Contents(layout) ==
  {[f \in DOMAIN layout |-> Content(f, layout[f][2], pick[f])] : pick \in [DOMAIN layout -> Picks]}

-----------------------------------------------------------------------------
(* The ids. *)

\* The frame, as ArbIds has it, of each report and order of or to a device.
Message25x == [WriteResponse |-> (14 * 16) + 1, VelocitySetpoint |-> 0, PositionSetpoint |-> 4,
               EncoderPosition |-> 10 * 16, ParamWrite |-> 14 * 16]
StatusIndex == [Status0 |-> 0, Status1 |-> 1, Status2 |-> 2, Status3 |-> 3, Status4 |-> 4, Status5 |-> 5]
CommandOf ==
  [Broadcast |-> "Heartbeat", SetpointWithCtrlType |-> "Setpoint", Firmware |-> "FirmwareVersion",
   FirmwareQuery |-> "FirmwareVersion", RemoteQuery |-> "FirmwareVersion",
   SetPeriod0 |-> "Period0", SetPeriod1 |-> "Period1", SetPeriod2 |-> "Period2",
   SetPeriod3 |-> "Period3", SetPeriod4 |-> "Period4"]
ParameterFrames == {"Answer", "ParameterQuery", "SetWord", "SetShort", "SetByte"}

FrameOf(name, device, par) ==
  IF name \in DOMAIN Message25x
  THEN [kind |-> "message25x", code |-> Message25x[name], device |-> device]
  ELSE IF name \in DOMAIN StatusIndex
  THEN [kind |-> "message25x", code |-> (46 * 16) + StatusIndex[name], device |-> device]
  ELSE IF name \in ParameterFrames
  THEN [kind |-> "parameter", code |-> par, device |-> device]
  ELSE [kind |-> "command",
        code |-> APICommand[IF name \in DOMAIN CommandOf THEN CommandOf[name] ELSE name],
        device |-> IF name = "Broadcast" THEN 0 ELSE device]

-----------------------------------------------------------------------------
(* What the library's encoders make of an order. *)

Payload(name, m) ==
  CASE name \in Control -> EncodeControl(m.value)
    [] name \in {"VelocitySetpoint", "PositionSetpoint"} -> EncodeSetpoint(m.value, m.slot)
    [] name = "SetpointWithCtrlType" -> EncodeSetpointWithCtrlType(m.value, m.ctrlType, 6)
    [] name = "EncoderPosition" -> EncodeSetEncoderPosition(m.value)
    [] name = "ParamWrite" -> EncodeParamWrite(m.paramId, m.value)
    [] name = "SetWord" -> EncodeParameter(m.type, m.value)
    [] name = "SetShort" -> EncodeParameter(m.type, EncodePeriod(m.value))
    [] name = "SetByte" -> EncodeParameter(m.type, <<m.value>>)
    [] name \in Periods -> EncodePeriod(m.period)
    [] name = "Broadcast" -> EncodeHeartbeat(0..63)
    [] name = "Heartbeat" -> [i \in 1..8 |-> 255]
    [] name = "BurnFlash" -> <<163, 58>>
    [] name \in {"FactoryDefaults", "FactoryReset"} -> <<1>>
    [] name \in {"FirmwareQuery", "ParameterQuery"} -> <<>>
    [] OTHER -> [i \in 1..8 |-> 0]

-----------------------------------------------------------------------------
(* What a reader thread makes of a frame that passed the filter. *)

Nothing == [kind |-> "nothing", value |-> <<>>]
Heard(k, v) == [kind |-> k, value |-> v]

\* Mutant of Understand: the response is recognised by the id of the request.
UnderstandRequest(protocol, d, id, data) ==
  IF Accepts(d, id) /\ protocol = "Spark25x" /\ id = MakeArbId(14, 0, d) /\ Len(data) >= 5
  THEN Heard("WriteResponse", DecodeParamWriteResponse(data \o <<0, 0>>)) ELSE Nothing

\* ReadPeriodicMessages: class 6 and the firmware version in both protocols,
\* the 25.x messages in theirs, status frames at their full length.
Understand(protocol, d, id, data) ==
  LET is(cmd) == id = CreateArbId(APICommand[cmd], d)
      status(n) == protocol = "Spark25x" /\ Len(data) = 8 /\ id = StatusArbId(n, d)
  IN IF ~Accepts(d, id) \/ Len(data) = 0 THEN Nothing
     ELSE CASE is("Period0") -> Heard("Period0", DecodePeriod0(data))
            [] is("Period1") -> Heard("Period1", DecodePeriod1(data))
            [] is("Period2") -> Heard("Period2", DecodePeriod2(data))
            [] is("Period3") -> Heard("Period3", DecodePeriod3(data))
            [] is("Period4") -> Heard("Period4", DecodePeriod4(data))
            [] is("FirmwareVersion") /\ Len(data) >= 5 -> Heard("Firmware", DecodeFirmware(data))
            [] protocol = "Spark25x" /\ id = MakeArbId(14, 1, d) /\ Len(data) >= 7 ->
                 Heard("WriteResponse", DecodeParamWriteResponse(data))
            [] status(0) -> Heard("Status0", DecodeStatus0(data))
            [] status(1) -> Heard("Status1", DecodeStatus1(data))
            [] status(2) -> Heard("Status2", DecodeStatus2(data))
            [] status(3) -> Heard("Status3", DecodeStatus3(data))
            [] status(4) -> Heard("Status4", DecodeStatus4(data))
            [] status(5) -> Heard("Status5", DecodeStatus5(data))
            [] OTHER -> Nothing

\* ReadParameter of a parameter, given the frame its read() returned.
Answered(par, d, id, data) ==
  IF id = CreateParamArbId(par, d) THEN DecodeParameter(data)
  ELSE [type |-> "none", value |-> Zero32]

-----------------------------------------------------------------------------
VARIABLES
  message,   \* what the sender of the last frame meant, or Quiet
  payload    \* its bytes

wireVars == <<last, message, payload>>

Quiet == [name |-> "quiet", fields |-> <<>>]
Frame0 == [kind |-> "command", code |-> APICommand.Setpoint, device |-> CHOOSE d \in Devices : TRUE]

WireInit == last = Frame0 /\ message = Quiet /\ payload = <<>>

\* While the bus is free: a controller reports; what its unassigned bits hold is its own affair.
Report(name, device, par, fields, fill) ==
  /\ last' = FrameOf(name, device, par)
  /\ message' = [name |-> name, fields |-> fields]
  /\ payload' = Packed(ReportLayout[name], Length(name), fields, fill)

\* While the bus is free: an object of this library transmits.
Order(name, device, par, fields) ==
  /\ last' = FrameOf(name, device, par)
  /\ message' = [name |-> name, fields |-> fields]
  /\ payload' = Payload(name, fields)

\* While the bus is free: anybody else. Any payload will do, as nobody may look at it.
Alien(id) ==
  /\ last' = [kind |-> "alien", code |-> id, device |-> -1]
  /\ message' = [name |-> "alien", fields |-> <<>>]
  /\ payload' = [i \in 1..8 |-> 255]

\* The bus is free again: receivers keep nothing of one frame for the next.
Release == message # Quiet /\ last' = Frame0 /\ message' = Quiet /\ payload' = <<>>

ParsOf(name) ==
  IF name = "ParameterQuery" THEN ParamIds ELSE IF name \in ParameterFrames THEN SomeIds ELSE {0}

Transmit ==
  \/ \E name \in DOMAIN ReportLayout, device \in Devices, fill \in {0, 1} :
       \E par \in ParsOf(name), fields \in Contents(ReportLayout[name]) :
         Report(name, device, par, fields, fill)
  \/ \E name \in DOMAIN OrderLayout, device \in Devices :
       \E par \in ParsOf(name), fields \in Contents(OrderLayout[name]) :
         Order(name, device, par, fields)
  \/ \E id \in Aliens : Alien(id)

WireNext == (message = Quiet /\ Transmit) \/ Release

WireSpec == WireInit /\ [][WireNext]_wireVars

-----------------------------------------------------------------------------
\* What the sender of a report means an object to hear.
Told(name, m) ==
  CASE name = "Status1" ->
         [faults |-> m.faults + (256 * m.warnings),
          stickyFaults |-> m.stickyFaults + (256 * m.stickyWarnings)]
    [] name = "WriteResponse" -> [paramId |-> m.paramId, resultCode |-> m.resultCode]
    [] name = "Firmware" -> [major |-> m.major, minor |-> m.minor,
                             build |-> (256 * m.buildHigh) + m.buildLow, debug |-> m.debug # 0]
    [] OTHER -> m

Hears(protocol, name) ==
  \/ name \in {"Period0", "Period1", "Period2", "Period3", "Period4", "Firmware"}
  \/ protocol = "Spark25x" /\ name \in DOMAIN Message25x \union DOMAIN StatusIndex

IsReport == message.name \in DOMAIN ReportLayout
IsOrder == message.name \in DOMAIN OrderLayout

\* Every payload is bytes, as many as a frame holds.
TypeOK == last \in Frames /\ payload \in Seq(Byte) /\ Len(payload) <= 8

\* Whatever a controller reports, the objects of that device and of the right
\* protocol take out of the frame exactly what was put in, whatever stands in
\* the bits between the fields, and no other object on the bus hears anything.
ReportsHeard ==
  IsReport =>
    \A d \in Devices, p \in Protocols :
      Understand(p, d, ArbId(last), payload) =
        IF d = last.device /\ Hears(p, message.name)
        THEN Heard(message.name, Told(message.name, message.fields)) ELSE Nothing

\* A query takes the value out of an answer as the type byte says, and takes
\* nothing out of an answer to another device or about another parameter.
AnswersHeard ==
  message.name = "Answer" =>
    \A d \in Devices, par \in SomeIds :
      LET v == message.fields.value IN
        Answered(par, d, ArbId(last), payload) =
          IF last.device # d \/ last.code # par THEN [type |-> "none", value |-> Zero32]
          ELSE CASE message.fields.type = 1 -> [type |-> "uint", value |-> v]
                 [] message.fields.type = 2 -> [type |-> "float", value |-> v]
                 [] message.fields.type = 3 -> [type |-> "bool", value |-> v[1] # 0]
                 [] OTHER -> [type |-> "none", value |-> Zero32]

\* Whoever is meant to hears what a controller says, in reports and in answers,
\* and nobody else does.
HeardAsSaid == ReportsHeard /\ AnswersHeard

\* What the library transmits is, bit for bit, the frame a controller expects:
\* every field where the layout has it and zero everywhere else.
OrdersAsLaidOut ==
  IsOrder =>
    payload = Packed(OrderLayout[message.name], Length(message.name), message.fields, 0)

\* Every frame of the library is well-formed.
WellFormed == TypeOK /\ OrdersAsLaidOut

\* Objects of this host hear each other's transmissions.  None is mistaken for
\* a report, nor is any foreign frame, but for the period settings, whose ids
\* are those of the status frames, and the remote query for the firmware.
OrdersAreNotReports ==
  (IsOrder \/ message.name = "alien")
      /\ message.name \notin Periods \union {"RemoteQuery"} =>
    \A d \in Devices, p \in Protocols : Understand(p, d, ArbId(last), payload) = Nothing
=============================================================================
