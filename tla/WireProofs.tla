------------------------------ MODULE WireProofs ------------------------------
(* What ArbIds and Wire promise for every set of devices and of foreign ids,
   and for every content of every field. *)
EXTENDS Wire, SequenceTheorems, TLAPS

-----------------------------------------------------------------------------
(* The ids of ArbIds. *)

\* The number of a frame's message: what follows device type and manufacturer,
\* without the device.
Number(f) == IF f.kind = "parameter" THEN 768 + f.code ELSE f.code

\* The numbers of commands and of 25.x messages are below 747 or above 1009,
\* and differ from each other.
LEMMA CodeRanges ==
  /\ \A c \in Commands : c \in 0..1023 /\ (c < 179 \/ c = 1010)
  /\ \A c \in Messages25x : c \in 0..741
  /\ Commands \intersect Messages25x = {}
PROOF
<1>1. Commands = {110, 116, 117, 118, 178, 1010, 152, 1, 2, 18, 19, 50, 66, 67, 82,
                  96, 97, 98, 99, 100}
  BY DEF Commands, APICommand
<1>2. Messages25x = {0, 4, 160, 224, 225} \union (736..741)
  BY DEF Messages25x
<1> QED BY <1>1, <1>2

\* The id of each frame of ours is the base, its number and its device.
LEMMA IdShape ==
  ASSUME NEW f \in Own
  PROVE  /\ ArbId(f) = 33882112 + (Number(f) * 64) + f.device
         /\ Number(f) \in 0..1023
         /\ f.device \in 0..62
PROOF
<1>1. CASE f \in [kind : {"command"}, code : Commands, device : Devices]
  <2>0. f.kind = "command" /\ f.code \in Commands /\ f.device \in Devices
    BY <1>1
  <2>a. f.code \in 0..1023
    BY <2>0, CodeRanges
  <2>b. f.device \in 0..62
    BY <2>0, DevicesAssumption
  <2>1. f.kind = "command" /\ f.code \in 0..1023 /\ f.device \in 0..62
    BY <2>0, <2>a, <2>b
  <2>2. ArbId(f) = CreateArbId(f.code, f.device) /\ Number(f) = f.code
    BY <2>1 DEF ArbId, Number
  <2>3. ((f.code \div 16) % 256) * 1024 + (f.code % 16) * 64 = f.code * 64
    BY <2>1
  <2> QED BY SMT, <2>1, <2>2, <2>3 DEF CreateArbId, GetAPIClass, GetAPIIndex, kArbBase
<1>2. CASE f \in [kind : {"message25x"}, code : Messages25x, device : Devices]
  <2>0. f.kind = "message25x" /\ f.code \in Messages25x /\ f.device \in Devices
    BY <1>2
  <2>a. f.code \in 0..741
    BY <2>0, CodeRanges
  <2>b. f.device \in 0..62
    BY <2>0, DevicesAssumption
  <2>1. f.kind = "message25x" /\ f.code \in 0..741 /\ f.device \in 0..62
    BY <2>0, <2>a, <2>b
  <2>2. ArbId(f) = MakeArbId(f.code \div 16, f.code % 16, f.device) /\ Number(f) = f.code
    BY <2>1 DEF ArbId, Number
  <2>3. (((f.code \div 16) % 64) * 1024) + (((f.code % 16) % 16) * 64) = f.code * 64
    BY <2>1
  <2>4. f.device % 64 = f.device
    BY <2>1
  <2> QED BY SMT, <2>1, <2>2, <2>3, <2>4 DEF MakeArbId, kArbBase
<1>3. CASE f \in [kind : {"parameter"}, code : ParamIds, device : Devices]
  <2>1. f.kind = "parameter" /\ f.code \in 1..154 /\ f.device \in 0..62
    BY <1>3, DevicesAssumption DEF ParamIds
  <2>2. ArbId(f) = CreateParamArbId(f.code, f.device) /\ Number(f) = 768 + f.code
    BY <2>1 DEF ArbId, Number
  <2> QED BY SMT, <2>1, <2>2 DEF CreateParamArbId, kArbBase
<1> QED BY <1>1, <1>2, <1>3 DEF Own

\* A number belongs to one kind of frame and to one code.
LEMMA NumberIdentifies ==
  ASSUME NEW f \in Own, NEW g \in Own, Number(f) = Number(g), f.device = g.device
  PROVE  f = g
PROOF
<1>1. \A h \in Own :
        /\ h = [kind |-> h.kind, code |-> h.code, device |-> h.device]
        /\ \/ h.kind = "command" /\ h.code \in Commands
           \/ h.kind = "message25x" /\ h.code \in Messages25x
           \/ h.kind = "parameter" /\ h.code \in 1..154
  BY DEF Own, ParamIds
<1>2. \A h \in Own : /\ h.kind = "command" => Number(h) = h.code /\ h.code \in Commands
                     /\ h.kind = "message25x" => Number(h) = h.code /\ h.code \in Messages25x
                     /\ h.kind = "parameter" => Number(h) = 768 + h.code /\ h.code \in 1..154
                     /\ h.kind \in {"command", "message25x", "parameter"}
  BY <1>1 DEF Number
<1>3. \A h \in Own : h.kind = "parameter" <=> Number(h) \in 769..922
  <2> SUFFICES ASSUME NEW h \in Own PROVE h.kind = "parameter" <=> Number(h) \in 769..922
    OBVIOUS
  <2>1. CASE h.kind = "parameter"
    BY <1>2, <2>1
  <2>2. CASE h.kind = "command"
    <3>1. Number(h) \in Commands
      BY <1>2, <2>2
    <3> QED BY <3>1, <2>2, CodeRanges
  <2>3. CASE h.kind = "message25x"
    <3>1. Number(h) \in Messages25x
      BY <1>2, <2>3
    <3>2. Number(h) \in 0..741
      BY <3>1, CodeRanges
    <3>3. Number(h) \in Int /\ Number(h) < 742
      BY <3>2
    <3>4. Number(h) \notin 769..922
      BY <3>3
    <3> QED BY <3>4, <2>3
  <2> QED BY <1>2, <2>1, <2>2, <2>3
<1>4. \A h \in Own : h.kind = "command" => Number(h) \in Commands /\ Number(h) \notin Messages25x
  BY <1>2, CodeRanges
<1>5. f.kind = g.kind
  BY <1>2, <1>3, <1>4
<1>6. f.code = g.code
  <2>1. CASE f.kind = "parameter"
    <3>1. Number(f) = 768 + f.code /\ Number(g) = 768 + g.code
      BY <1>5, <2>1 DEF Number
    <3>2. f.code \in 1..154 /\ g.code \in 1..154
      BY <1>2, <1>5, <2>1
    <3> DEFINE a == f.code
               b == g.code
    <3>3. a \in 1..154 /\ b \in 1..154 /\ 768 + a = 768 + b
      BY <3>1, <3>2
    <3> HIDE DEF a, b
    <3>4. a = b
      BY <3>3
    <3> QED BY <3>4 DEF a, b
  <2>2. CASE f.kind # "parameter"
    BY <1>5, <2>2 DEF Number
  <2> QED BY <2>1, <2>2
<1> QED BY <1>1, <1>5, <1>6

\* Quotients, by their bounds.
LEMMA Quotients ==
  ASSUME NEW x \in Nat, x < 536870912
  PROVE  /\ x \div 16777216 = 2 => 33554432 <= x /\ x < 50331648
         /\ 33554432 <= x /\ x < 50331648 => x \div 65536 >= 512 /\ x \div 65536 < 768
         /\ 33882112 <= x /\ x < 33947648 => x \div 16777216 = 2 /\ x \div 65536 = 517
         /\ x \div 16777216 >= 0 /\ x \div 16777216 < 32
BY SMT

\* Every id of ours lies in the block of device type 2 and manufacturer 5, and
\* its last six bits are the device.
LEMMA IdFields ==
  ASSUME NEW f \in Own
  PROVE  /\ (ArbId(f) \div 16777216) % 32 = 2
         /\ (ArbId(f) \div 65536) % 256 = 5
         /\ ArbId(f) % 64 = f.device
PROOF
<1> DEFINE n == Number(f)
           d == f.device
<1>1. n \in 0..1023 /\ d \in 0..62 /\ ArbId(f) = 33882112 + (n * 64) + d
  BY SMT, IdShape DEF kArbBase
<1> HIDE DEF n, d
<1>2. ArbId(f) \in Nat /\ 33882112 <= ArbId(f) /\ ArbId(f) < 33947648
  BY SMT, <1>1
<1>3. ArbId(f) \div 16777216 = 2 /\ ArbId(f) \div 65536 = 517
  BY <1>2, Quotients, SMT
<1>4. ArbId(f) = (529408 + n) * 64 + d
  BY SMT, <1>1
<1>5. ArbId(f) % 64 = d
  BY SMT, <1>1, <1>4
<1> QED BY <1>3, <1>5, SMT DEF d

\* A frame of anyone else has an id outside that block.
LEMMA AliensRefused == \A id \in Aliens, d \in Devices : ~Accepts(d, id)
PROOF
<1> SUFFICES ASSUME NEW id \in Aliens, NEW d \in Devices, Accepts(d, id) PROVE FALSE
  OBVIOUS
<1>1. id \in Nat /\ id < 536870912 /\ id \div 65536 # 517
  BY SMT, AliensAssumption
<1>2. (id \div 16777216) % 32 = 2 /\ (id \div 65536) % 256 = 5
  BY SMT DEF Accepts
<1>3. id \div 16777216 >= 0 /\ id \div 16777216 < 32
  BY <1>1, Quotients, SMT
<1>4. id \div 16777216 = 2
  <2>1. id \div 16777216 \in Int
    BY <1>1, SMT
  <2> QED BY <1>2, <1>3, <2>1, SMT
<1>5. id \div 65536 >= 512 /\ id \div 65536 < 768
  BY SMT, <1>1, <1>4, Quotients
<1> QED BY SMT, <1>1, <1>2, <1>5

-----------------------------------------------------------------------------
\* No two frames of ours have the same id.
LEMMA IdsDiffer ==
  ASSUME NEW f \in Own, NEW g \in Own, ArbId(f) = ArbId(g)
  PROVE  f = g
PROOF
<1>1. f.device = g.device
  BY IdFields, SMT
<1> DEFINE m == Number(f)
           n == Number(g)
           d == f.device
           e == g.device
           x == ArbId(f)
           y == ArbId(g)
<1>2. m \in 0..1023 /\ d \in 0..62 /\ x = 33882112 + (m * 64) + d
  BY IdShape, SMT
<1>3. n \in 0..1023 /\ e \in 0..62 /\ y = 33882112 + (n * 64) + e
  BY IdShape, SMT
<1>4. x = y /\ d = e
  BY <1>1
<1> HIDE DEF m, n, d, e, x, y
<1>5. m = n
  BY <1>2, <1>3, <1>4, SMT
<1> QED BY <1>1, <1>5, NumberIdentifies DEF m, n

\* The frame on the bus is one of those that ArbIds lists.
LEMMA LastIsFrame == Spec => [](last \in Frames)
PROOF
<1>1. Init => last \in Frames
  BY DEF Init, Frames
<1>2. last \in Frames /\ [Next]_last => (last \in Frames)'
  BY DEF Next, Send
<1> QED BY <1>1, <1>2, PTL DEF Spec

\* The id of a frame determines its kind, its code and its controller: ArbIds's
\* IdIdentifies, for every set of devices.
THEOREM Identification == Spec => []IdIdentifies
PROOF
<1>1. last \in Frames => IdIdentifies
  <2> SUFFICES ASSUME last \in Frames, NEW f \in Own, ArbId(f) = ArbId(last) PROVE f = last
    BY DEF IdIdentifies
  <2>1. CASE last \in Own
    BY <2>1, IdsDiffer
  <2>2. CASE last \in [kind : {"alien"}, code : Aliens, device : {-1}]
    <3>1. ArbId(last) \in Aliens
      BY <2>2 DEF ArbId
    <3>2. f.device \in Devices
      BY DEF Own
    <3>3. Accepts(f.device, ArbId(f))
      BY IdFields, SMT DEF Accepts
    <3> QED BY <3>1, <3>2, <3>3, AliensRefused
  <2> QED BY <2>1, <2>2 DEF Frames
<1> QED BY <1>1, LastIsFrame, PTL

\* The receive filter admits the frames of the object's own controller and no
\* others: ArbIds's FilterExact, for every set of devices.
THEOREM Filtering == Spec => []FilterExact
PROOF
<1>1. last \in Frames => FilterExact
  <2> SUFFICES ASSUME last \in Frames, NEW d \in Devices
               PROVE  Accepts(d, ArbId(last)) <=> last.device = d
    BY DEF FilterExact
  <2>1. CASE last \in Own
    BY <2>1, IdFields, SMT DEF Accepts
  <2>2. CASE last \in [kind : {"alien"}, code : Aliens, device : {-1}]
    <3>1. ArbId(last) \in Aliens /\ last.device = -1
      BY <2>2 DEF ArbId
    <3>2. ~Accepts(d, ArbId(last))
      BY <3>1, AliensRefused
    <3>3. d # -1
      BY DevicesAssumption
    <3> QED BY <3>1, <3>2, <3>3
  <2> QED BY <2>1, <2>2 DEF Frames
<1> QED BY <1>1, LastIsFrame, PTL

-----------------------------------------------------------------------------
(* The frames of Wire. *)

\* The names of reports and of orders, these by how their ids are made.
ReportNames ==
  {"Status0", "Status1", "Status2", "Status3", "Status4", "Status5", "WriteResponse",
   "Period0", "Period1", "Period2", "Period3", "Period4", "Firmware", "Answer"}
CommandOrders ==
  Control \union {"SetpointWithCtrlType", "Heartbeat", "Broadcast", "BurnFlash",
                  "FactoryDefaults", "FactoryReset", "Identify", "ClearFaults"}
MessageOrders == {"VelocitySetpoint", "PositionSetpoint", "EncoderPosition", "ParamWrite"}
ParameterOrders == {"SetWord", "SetShort", "SetByte", "ParameterQuery"}
OrderNames ==
  CommandOrders \union MessageOrders \union ParameterOrders \union Periods
    \union {"RemoteQuery", "FirmwareQuery"}

\* The tables have a layout for these reports and orders.
LEMMA Layouts ==
  /\ DOMAIN ReportLayout = ReportNames
  /\ DOMAIN OrderLayout = OrderNames
  /\ ReportNames \intersect OrderNames = {}
PROOF
<1>1. DOMAIN ReportLayout = ReportNames
  BY DEF ReportLayout, ReportNames
<1>2. DOMAIN OrderLayout = OrderNames
  BY DEF OrderLayout, OrderNames, CommandOrders, MessageOrders, ParameterOrders, Control,
     Periods, SingleLayout
<1>3. ReportNames \intersect OrderNames = {}
  BY DEF ReportNames, OrderNames, CommandOrders, MessageOrders, ParameterOrders, Control,
     Periods
<1> QED BY <1>1, <1>2, <1>3

\* The tables of ids know these names.
LEMMA Tables ==
  /\ DOMAIN CommandOf = {"Broadcast", "SetpointWithCtrlType", "Firmware", "FirmwareQuery",
                         "RemoteQuery"} \union Periods
  /\ DOMAIN Message25x = MessageOrders \union {"WriteResponse"}
  /\ DOMAIN StatusIndex = {"Status0", "Status1", "Status2", "Status3", "Status4", "Status5"}
  /\ \A m \in DOMAIN Message25x : Message25x[m] \in Messages25x
  /\ \A m \in MessageOrders : Message25x[m] # 225 /\ Message25x[m] < 736
  /\ \A n \in DOMAIN StatusIndex : StatusIndex[n] \in 0..5
PROOF
<1>1. /\ DOMAIN CommandOf = {"Broadcast", "SetpointWithCtrlType", "Firmware", "FirmwareQuery",
                             "RemoteQuery"} \union Periods
      /\ DOMAIN StatusIndex = {"Status0", "Status1", "Status2", "Status3", "Status4", "Status5"}
  BY DEF CommandOf, StatusIndex, Periods
<1>2. \A n \in DOMAIN StatusIndex : StatusIndex[n] \in 0..5
  BY DEF StatusIndex
<1>3. /\ DOMAIN Message25x = MessageOrders \union {"WriteResponse"}
      /\ \A m \in DOMAIN Message25x : Message25x[m] \in {0, 4, 160, 224, 225}
      /\ \A m \in MessageOrders : Message25x[m] \in {0, 4, 160, 224}
  BY DEF Message25x, MessageOrders
<1>4. /\ \A m \in DOMAIN Message25x : Message25x[m] \in Messages25x
      /\ \A m \in MessageOrders : Message25x[m] # 225 /\ Message25x[m] < 736
  BY <1>3 DEF Messages25x
<1> QED BY <1>1, <1>2, <1>3, <1>4

\* The frame of each order: neither a report's nor a question's for the firmware.
LEMMA OrderFrame ==
  ASSUME NEW name \in OrderNames, NEW device \in Devices, NEW par \in ParsOf(name)
  PROVE  LET f == FrameOf(name, device, par) IN
           /\ f \in Own
           /\ name \notin Periods \union {"RemoteQuery", "FirmwareQuery"} =>
                \/ f.kind = "parameter"
                \/ f.kind = "message25x" /\ f.code # 225 /\ f.code < 736
                \/ f.kind = "command" /\ f.code \notin {96, 97, 98, 99, 100, 152}
PROOF
<1> DEFINE f == FrameOf(name, device, par)
<1>0. /\ 0 \in Devices
      /\ \A c \in Commands, d \in Devices : [kind |-> "command", code |-> c, device |-> d] \in Own
      /\ \A c \in Messages25x, d \in Devices : [kind |-> "message25x", code |-> c, device |-> d] \in Own
      /\ \A c \in ParamIds, d \in Devices : [kind |-> "parameter", code |-> c, device |-> d] \in Own
  BY BroadcastAssumption DEF Own
<1>1. CASE name \in MessageOrders
  <2>1. f = [kind |-> "message25x", code |-> Message25x[name], device |-> device]
    BY <1>1, Tables DEF FrameOf
  <2> QED BY <1>0, <1>1, <2>1, Tables
<1>2. CASE name \in ParameterOrders
  <2>1. f = [kind |-> "parameter", code |-> par, device |-> device]
    BY <1>2, Tables DEF FrameOf, ParameterOrders, ParameterFrames, MessageOrders
  <2>2. par \in ParamIds
    BY <1>2, SomeIdsAssumption DEF ParsOf, ParameterOrders, ParameterFrames
  <2> QED BY <1>0, <2>1, <2>2
<1>3. CASE name \in CommandOrders \union Periods \union {"RemoteQuery", "FirmwareQuery"}
  <2> DEFINE c == IF name \in DOMAIN CommandOf THEN CommandOf[name] ELSE name
             d == IF name = "Broadcast" THEN 0 ELSE device
  <2>1. f = [kind |-> "command", code |-> APICommand[c], device |-> d]
    BY <1>3, Tables
       DEF FrameOf, CommandOrders, Control, Periods, ParameterFrames, MessageOrders
  <2>2. c \in DOMAIN APICommand /\ APICommand[c] \in Commands
    <3>1. c \in {"Period0", "Period1", "Period2", "Period3", "Period4", "FirmwareVersion",
                 "Heartbeat", "Setpoint", "DutyCycle", "Velocity", "SmartVelocity", "Position",
                 "Voltage", "Current", "SmartMotion", "BurnFlash", "FactoryDefaults",
                 "FactoryReset", "Identify", "ClearFaults"}
      BY <1>3 DEF CommandOf, CommandOrders, Control, Periods
    <3> QED BY <3>1 DEF APICommand, Commands
  <2>3. name \in CommandOrders => APICommand[c] \notin {96, 97, 98, 99, 100, 152}
    BY DEF CommandOf, CommandOrders, Control, APICommand
  <2>4. d \in Devices
    BY <1>0
  <2> HIDE DEF c, d
  <2> QED BY <1>0, <1>3, <2>1, <2>2, <2>3, <2>4
<1> QED BY <1>1, <1>2, <1>3 DEF OrderNames

\* The frame of each report.
LEMMA ReportFrame ==
  ASSUME NEW name \in ReportNames, NEW device \in Devices, NEW par \in ParsOf(name)
  PROVE  FrameOf(name, device, par) \in Own
PROOF
<1> DEFINE f == FrameOf(name, device, par)
<1>0. /\ \A c \in Commands, d \in Devices : [kind |-> "command", code |-> c, device |-> d] \in Own
      /\ \A c \in Messages25x, d \in Devices : [kind |-> "message25x", code |-> c, device |-> d] \in Own
      /\ \A c \in ParamIds, d \in Devices : [kind |-> "parameter", code |-> c, device |-> d] \in Own
  BY DEF Own
<1>1. CASE name = "WriteResponse"
  <2>1. f = [kind |-> "message25x", code |-> Message25x[name], device |-> device]
    BY <1>1, Tables DEF FrameOf
  <2> QED BY <1>0, <1>1, <2>1, Tables
<1>2. CASE name \in DOMAIN StatusIndex
  <2>1. f = [kind |-> "message25x", code |-> (46 * 16) + StatusIndex[name], device |-> device]
    BY <1>2, Tables DEF FrameOf, MessageOrders
  <2>2. (46 * 16) + StatusIndex[name] \in Messages25x
    BY <1>2, Tables DEF Messages25x
  <2> QED BY <1>0, <2>1, <2>2
<1>3. CASE name = "Answer"
  <2>1. f = [kind |-> "parameter", code |-> par, device |-> device]
    BY <1>3, Tables DEF FrameOf, ParameterFrames, MessageOrders
  <2>2. par \in ParamIds
    BY <1>3, SomeIdsAssumption DEF ParsOf, ParameterFrames
  <2> QED BY <1>0, <2>1, <2>2
<1>4. CASE name \in {"Period0", "Period1", "Period2", "Period3", "Period4", "Firmware"}
  <2> DEFINE c == IF name \in DOMAIN CommandOf THEN CommandOf[name] ELSE name
  <2>1. f = [kind |-> "command", code |-> APICommand[c], device |-> device]
    BY <1>4, Tables DEF FrameOf, ParameterFrames, MessageOrders
  <2>2. APICommand[c] \in Commands
    BY <1>4 DEF CommandOf, APICommand, Commands
  <2> HIDE DEF c
  <2> QED BY <1>0, <2>1, <2>2
<1> QED BY <1>1, <1>2, <1>3, <1>4, Tables DEF ReportNames

-----------------------------------------------------------------------------
(* Payloads: the bits of a layout, and what the codec makes of them. *)

\* A bit, and the places within its field at which a byte of a payload begins.
Bit == {0, 1}
Offsets == {0, 4, 6, 8, 14}
\* Bit k of a number, and the eight bits from there on.
BitAt(v, k) == (v \div (2^k)) % 2
Slice(v, k) == (v \div (2^k)) % 256

\* A byte is the sum of its bits.
LEMMA ByteOfBits ==
  ASSUME NEW x \in Int
  PROVE  ((x % 2) * 2^0) + (((x \div 2^1) % 2) * 2^1) + (((x \div 2^2) % 2) * 2^2)
           + (((x \div 2^3) % 2) * 2^3) + (((x \div 2^4) % 2) * 2^4) + (((x \div 2^5) % 2) * 2^5)
           + (((x \div 2^6) % 2) * 2^6) + (((x \div 2^7) % 2) * 2^7) = x % 256
PROOF
<1>1. PICK l \in Nat, h \in Int : x = (256 * h) + l /\ l < 256
  <2>1. x = (256 * (x \div 256)) + (x % 256) /\ x % 256 \in Nat /\ x % 256 < 256 /\ x \div 256 \in Int
    BY SMT
  <2> QED BY <2>1
<1>2. /\ x % 2 = l % 2 /\ (x \div 2^1) % 2 = (l \div 2^1) % 2
      /\ (x \div 2^2) % 2 = (l \div 2^2) % 2 /\ (x \div 2^3) % 2 = (l \div 2^3) % 2
      /\ (x \div 2^4) % 2 = (l \div 2^4) % 2 /\ (x \div 2^5) % 2 = (l \div 2^5) % 2
      /\ (x \div 2^6) % 2 = (l \div 2^6) % 2 /\ (x \div 2^7) % 2 = (l \div 2^7) % 2
      /\ x % 256 = l
  BY <1>1, SMT
<1>3. ((l % 2) * 2^0) + (((l \div 2^1) % 2) * 2^1) + (((l \div 2^2) % 2) * 2^2)
           + (((l \div 2^3) % 2) * 2^3) + (((l \div 2^4) % 2) * 2^4) + (((l \div 2^5) % 2) * 2^5)
           + (((l \div 2^6) % 2) * 2^6) + (((l \div 2^7) % 2) * 2^7) = l
  BY <1>1, SMT
<1> QED BY <1>2, <1>3

\* The powers of two that occur are positive numbers.
LEMMA Powers == \A k \in 0..21 : 2^k \in Nat /\ 2^k > 0
PROOF
<1> DEFINE Positive(n) == n \in Nat /\ n > 0
<1>1. /\ Positive(2^0) /\ Positive(2^1) /\ Positive(2^2) /\ Positive(2^3) /\ Positive(2^4) /\ Positive(2^5)
      /\ Positive(2^6) /\ Positive(2^7) /\ Positive(2^8) /\ Positive(2^9) /\ Positive(2^10) /\ Positive(2^11)
      /\ Positive(2^12) /\ Positive(2^13) /\ Positive(2^14) /\ Positive(2^15) /\ Positive(2^16) /\ Positive(2^17)
      /\ Positive(2^18) /\ Positive(2^19) /\ Positive(2^20) /\ Positive(2^21)
  BY SMT
<1> HIDE DEF Positive
<1> SUFFICES ASSUME NEW k \in 0..21 PROVE Positive(2^k)
  BY DEF Positive
<1>2. \/ k = 0 \/ k = 1 \/ k = 2 \/ k = 3 \/ k = 4 \/ k = 5 \/ k = 6 \/ k = 7 \/ k = 8 \/ k = 9
      \/ k = 10 \/ k = 11 \/ k = 12 \/ k = 13 \/ k = 14 \/ k = 15 \/ k = 16 \/ k = 17 \/ k = 18
      \/ k = 19 \/ k = 20 \/ k = 21
  OBVIOUS
<1> QED BY <1>1, <1>2, Zenon

\* A remainder of two is a bit.
LEMMA Digit == \A x \in Int : x % 2 \in {0, 1}
BY SMT

\* Every bit of a value is 0 or 1.
LEMMA BitIsBit ==
  ASSUME NEW value, NEW width \in Nat, NEW k \in 0..(width - 1),
         width = 32 => value \in Word32, width # 32 => value \in Int /\ width <= 22
  PROVE  BitOf(value, width, k) \in {0, 1}
PROOF
<1>1. CASE width = 32
  <2>1. (k \div 8) + 1 \in 1..4 /\ k % 8 \in 0..21
    BY <1>1, SMT
  <2>2. value[(k \div 8) + 1] \in Int
    BY <1>1, <2>1 DEF Word32, Byte
  <2> DEFINE v == value[(k \div 8) + 1]
             n == 2^(k % 8)
  <2>3. v \in Int /\ n \in Nat /\ n > 0
    BY <2>1, <2>2, Powers
  <2> HIDE DEF v, n
  <2>4. v \div n \in Int
    BY <2>3, SMT
  <2>5. (v \div n) % 2 \in {0, 1}
    BY <2>4, Digit
  <2> QED BY <1>1, <2>5 DEF BitOf, v, n
<1>2. CASE width # 32
  <2> DEFINE n == 2^k
  <2>0. k \in 0..21
    BY <1>2
  <2>1. value \in Int /\ n \in Nat /\ n > 0
    BY <1>2, <2>0, Powers
  <2> HIDE DEF n
  <2>2. value \div n \in Int
    BY <2>1, SMT
  <2>3. (value \div n) % 2 \in {0, 1}
    BY <2>2, Digit
  <2> QED BY <1>2, <2>3 DEF BitOf, n
<1> QED BY <1>1, <1>2

-----------------------------------------------------------------------------
(* Layouts and payloads. *)

\* No two fields of a layout share a bit.
Laid(layout) ==
  /\ \A f \in DOMAIN layout : layout[f][1] \in Nat /\ layout[f][2] \in Nat
         /\ (layout[f][2] = 32 \/ layout[f][2] <= 22)
  /\ \A f, g \in DOMAIN layout :
       \/ f = g
       \/ layout[f][1] + layout[f][2] <= layout[g][1]
       \/ layout[g][1] + layout[g][2] <= layout[f][1]

\* The fields hold values of their kinds.
Fit(layout, fields) ==
  \A f \in DOMAIN layout :
    /\ layout[f][2] = 32 => fields[f] \in Word32
    /\ layout[f][2] # 32 => fields[f] \in Int

\* Byte q of a payload, from 0.
PackedByte(layout, fields, fill, q) ==
  LET b(j) == PackedBit(layout, fields, fill, (8 * q) + j) * (2 ^ j)
  IN b(0) + b(1) + b(2) + b(3) + b(4) + b(5) + b(6) + b(7)

\* A payload consists of its bytes.
LEMMA PackedBytes ==
  ASSUME NEW layout, NEW fields, NEW fill, NEW n \in Nat
  PROVE  /\ Packed(layout, n, fields, fill) =
              [i \in 1..n |-> PackedByte(layout, fields, fill, i - 1)]
         /\ \A q \in 0..(n - 1) :
              Packed(layout, n, fields, fill)[q + 1] = PackedByte(layout, fields, fill, q)
PROOF
<1>1. Packed(layout, n, fields, fill) = [i \in 1..n |-> PackedByte(layout, fields, fill, i - 1)]
  BY DEF Packed, PackedByte
<1> QED BY <1>1

\* A bit within a field is that field's.
LEMMA FieldBit ==
  ASSUME NEW layout, Laid(layout), NEW f \in DOMAIN layout, NEW fields, NEW fill,
         NEW p \in Nat, layout[f][1] <= p, p < layout[f][1] + layout[f][2]
  PROVE  PackedBit(layout, fields, fill, p) = BitOf(fields[f], layout[f][2], p - layout[f][1])
PROOF
<1>1. Owners(layout, p) = {f}
  BY DEF Owners, Laid
<1>2. (CHOOSE g \in Owners(layout, p) : TRUE) = f
  BY <1>1
<1> QED BY <1>1, <1>2 DEF PackedBit

\* A bit outside all fields is the sender's choice.
LEMMA FillBit ==
  ASSUME NEW layout, NEW fields, NEW fill, NEW p \in Nat,
         \A f \in DOMAIN layout : p < layout[f][1] \/ layout[f][1] + layout[f][2] <= p, Laid(layout)
  PROVE  PackedBit(layout, fields, fill, p) = fill
PROOF
<1>1. Owners(layout, p) = {}
  BY DEF Owners, Laid
<1> QED BY <1>1 DEF PackedBit

\* Every bit of a payload is 0 or 1,
LEMMA PackedBitIsBit ==
  ASSUME NEW layout, Laid(layout), NEW fields, Fit(layout, fields), NEW fill \in Bit, NEW p \in Nat
  PROVE  PackedBit(layout, fields, fill, p) \in Bit
PROOF
<1>1. CASE Owners(layout, p) = {}
  BY <1>1 DEF PackedBit, Bit
<1>2. ASSUME NEW f \in Owners(layout, p) PROVE PackedBit(layout, fields, fill, p) \in Bit
  <2>1. f \in DOMAIN layout /\ layout[f][1] \in Nat /\ layout[f][2] \in Nat
        /\ (layout[f][2] = 32 \/ layout[f][2] <= 22)
        /\ layout[f][1] <= p /\ p < layout[f][1] + layout[f][2]
    BY DEF Owners, Laid
  <2>2. p - layout[f][1] \in 0..(layout[f][2] - 1)
    BY <2>1
  <2>3. BitOf(fields[f], layout[f][2], p - layout[f][1]) \in {0, 1}
    BY <2>1, <2>2, BitIsBit DEF Fit
  <2> QED BY <2>1, <2>3, FieldBit DEF Bit
<1> QED BY <1>1, <1>2

\* eight of them make a byte,
LEMMA SumIsByte ==
  ASSUME NEW b0 \in {0, 1}, NEW b1 \in {0, 1}, NEW b2 \in {0, 1}, NEW b3 \in {0, 1},
         NEW b4 \in {0, 1}, NEW b5 \in {0, 1}, NEW b6 \in {0, 1}, NEW b7 \in {0, 1}
  PROVE  b0 * 2^0 + b1 * 2^1 + b2 * 2^2 + b3 * 2^3 + b4 * 2^4 + b5 * 2^5 + b6 * 2^6 + b7 * 2^7
           \in 0..255
BY SMT

\* and so every byte of a payload is one.
LEMMA PackedByteIsByte ==
  ASSUME NEW layout, Laid(layout), NEW fields, Fit(layout, fields), NEW fill \in Bit, NEW q \in Nat
  PROVE  PackedByte(layout, fields, fill, q) \in Byte
PROOF
<1> DEFINE b(j) == PackedBit(layout, fields, fill, (8 * q) + j)
<1>1. \A j \in 0..7 : b(j) \in {0, 1}
  BY PackedBitIsBit DEF Bit
<1>2. PackedByte(layout, fields, fill, q) =
        b(0) * 2^0 + b(1) * 2^1 + b(2) * 2^2 + b(3) * 2^3 + b(4) * 2^4 + b(5) * 2^5 + b(6) * 2^6 + b(7) * 2^7
  BY DEF PackedByte
<1> HIDE DEF b
<1>3. /\ b(0) \in {0, 1} /\ b(1) \in {0, 1} /\ b(2) \in {0, 1} /\ b(3) \in {0, 1}
      /\ b(4) \in {0, 1} /\ b(5) \in {0, 1} /\ b(6) \in {0, 1} /\ b(7) \in {0, 1}
  BY <1>1
<1> QED BY <1>2, <1>3, SumIsByte DEF Byte

\* Quotients of quotients.
LEMMA NestedQuotients ==
  ASSUME NEW v \in Int
  PROVE  /\ (v \div 2^4) \div 2^0 = v \div 2^4 /\ (v \div 2^4) \div 2^1 = v \div 2^5
         /\ (v \div 2^4) \div 2^2 = v \div 2^6 /\ (v \div 2^4) \div 2^3 = v \div 2^7
         /\ (v \div 2^4) \div 2^4 = v \div 2^8 /\ (v \div 2^4) \div 2^5 = v \div 2^9
         /\ (v \div 2^4) \div 2^6 = v \div 2^10 /\ (v \div 2^4) \div 2^7 = v \div 2^11
         /\ (v \div 2^6) \div 2^0 = v \div 2^6 /\ (v \div 2^6) \div 2^1 = v \div 2^7
         /\ (v \div 2^6) \div 2^2 = v \div 2^8 /\ (v \div 2^6) \div 2^3 = v \div 2^9
         /\ (v \div 2^6) \div 2^4 = v \div 2^10 /\ (v \div 2^6) \div 2^5 = v \div 2^11
         /\ (v \div 2^6) \div 2^6 = v \div 2^12 /\ (v \div 2^6) \div 2^7 = v \div 2^13
         /\ (v \div 2^8) \div 2^0 = v \div 2^8 /\ (v \div 2^8) \div 2^1 = v \div 2^9
         /\ (v \div 2^8) \div 2^2 = v \div 2^10 /\ (v \div 2^8) \div 2^3 = v \div 2^11
         /\ (v \div 2^8) \div 2^4 = v \div 2^12 /\ (v \div 2^8) \div 2^5 = v \div 2^13
         /\ (v \div 2^8) \div 2^6 = v \div 2^14 /\ (v \div 2^8) \div 2^7 = v \div 2^15
         /\ (v \div 2^14) \div 2^0 = v \div 2^14 /\ (v \div 2^14) \div 2^1 = v \div 2^15
         /\ (v \div 2^14) \div 2^2 = v \div 2^16 /\ (v \div 2^14) \div 2^3 = v \div 2^17
         /\ (v \div 2^14) \div 2^4 = v \div 2^18 /\ (v \div 2^14) \div 2^5 = v \div 2^19
         /\ (v \div 2^14) \div 2^6 = v \div 2^20 /\ (v \div 2^14) \div 2^7 = v \div 2^21
BY SMT

\* A field of four whole bytes.
LEMMA WordField ==
  ASSUME NEW layout, Laid(layout), NEW fields, Fit(layout, fields), NEW fill \in Bit,
         NEW f \in DOMAIN layout, NEW q \in 0..4, layout[f] = <<8 * q, 32>>
  PROVE  \A i \in 0..3 : PackedByte(layout, fields, fill, q + i) = fields[f][i + 1]
PROOF
<1> SUFFICES ASSUME NEW i \in 0..3
             PROVE  PackedByte(layout, fields, fill, q + i) = fields[f][i + 1]
  OBVIOUS
<1> DEFINE x == fields[f][i + 1]
           b(j) == PackedBit(layout, fields, fill, (8 * (q + i)) + j)
<1>1. x \in Byte
  BY DEF Fit, Word32
<1>2. \A j \in 0..7 : b(j) = (x \div (2^j)) % 2
  <2> SUFFICES ASSUME NEW j \in 0..7 PROVE b(j) = (x \div (2^j)) % 2
    OBVIOUS
  <2> DEFINE p == (8 * (q + i)) + j
  <2>1. p \in Nat /\ layout[f][1] = 8 * q /\ layout[f][2] = 32 /\ p - (8 * q) = (8 * i) + j
        /\ layout[f][1] <= p /\ p < layout[f][1] + layout[f][2]
    OBVIOUS
  <2>2. b(j) = BitOf(fields[f], 32, (8 * i) + j)
    BY <2>1, FieldBit
  <2>3. ((8 * i) + j) \div 8 = i /\ ((8 * i) + j) % 8 = j
    BY SMT
  <2> QED BY <2>2, <2>3 DEF BitOf
<1>3. PackedByte(layout, fields, fill, q + i) =
        b(0) * 2^0 + b(1) * 2^1 + b(2) * 2^2 + b(3) * 2^3 + b(4) * 2^4 + b(5) * 2^5 + b(6) * 2^6 + b(7) * 2^7
  BY DEF PackedByte
<1> HIDE DEF b, x
<1>4. /\ b(0) = x % 2 /\ b(1) = (x \div 2^1) % 2 /\ b(2) = (x \div 2^2) % 2
      /\ b(3) = (x \div 2^3) % 2 /\ b(4) = (x \div 2^4) % 2 /\ b(5) = (x \div 2^5) % 2
      /\ b(6) = (x \div 2^6) % 2 /\ b(7) = (x \div 2^7) % 2
  <2>1. x \div 2^0 = x
    BY <1>1 DEF Byte
  <2> QED BY <1>2, <2>1
<1>5. PackedByte(layout, fields, fill, q + i) = x % 256
  <2>1. x \in Int
    BY <1>1 DEF Byte
  <2>2. PackedByte(layout, fields, fill, q + i) =
          ((x % 2) * 2^0) + (((x \div 2^1) % 2) * 2^1) + (((x \div 2^2) % 2) * 2^2)
           + (((x \div 2^3) % 2) * 2^3) + (((x \div 2^4) % 2) * 2^4) + (((x \div 2^5) % 2) * 2^5)
           + (((x \div 2^6) % 2) * 2^6) + (((x \div 2^7) % 2) * 2^7)
    BY <1>3, <1>4, Zenon
  <2> QED BY <2>1, <2>2, ByteOfBits, Zenon
<1>6. x % 256 = x
  BY <1>1 DEF Byte
<1> QED BY <1>5, <1>6 DEF x

\* The bits of a field of fewer than 32.
LEMMA NarrowBit ==
  ASSUME NEW layout, Laid(layout), NEW fields, NEW fill \in Bit,
         NEW f \in DOMAIN layout, layout[f][2] # 32,
         NEW k \in 0..(layout[f][2] - 1)
  PROVE  PackedBit(layout, fields, fill, layout[f][1] + k) = BitAt(fields[f], k)
PROOF
<1> DEFINE p == layout[f][1] + k
<1>1. /\ layout[f][1] \in Nat /\ layout[f][2] \in Nat
      /\ p \in Nat
      /\ layout[f][1] <= p /\ p < layout[f][1] + layout[f][2] /\ p - layout[f][1] = k
  BY DEF Laid
<1> QED BY <1>1, FieldBit DEF BitOf, BitAt

\* A byte in the middle of a field: its bits from k on.
LEMMA FullByte ==
  ASSUME NEW layout, Laid(layout), NEW fields, Fit(layout, fields), NEW fill \in Bit,
         NEW f \in DOMAIN layout, layout[f][2] # 32, NEW q \in Nat,
         NEW k \in Offsets, 8 * q = layout[f][1] + k, k + 8 <= layout[f][2]
  PROVE  PackedByte(layout, fields, fill, q) = Slice(fields[f], k)
PROOF
<1> DEFINE v == fields[f]
           x == v \div (2^k)
           b(j) == PackedBit(layout, fields, fill, (8 * q) + j)
<1>1. v \in Int /\ x \in Int
  <2>1. v \in Int
    BY DEF Fit
  <2>2. 2^k \in Nat /\ 2^k > 0
    <3>1. k \in 0..21
      BY DEF Offsets
    <3> QED BY <3>1, Powers, Zenon
  <2> DEFINE n == 2^k
  <2>3. n \in Nat /\ n > 0
    BY <2>2
  <2> HIDE DEF n
  <2>4. v \div n \in Int
    BY <2>1, <2>3, SMT
  <2> QED BY <2>1, <2>4 DEF n
<1>2. \A j \in 0..7 : b(j) = (v \div (2^(k + j))) % 2
  <2> SUFFICES ASSUME NEW j \in 0..7 PROVE b(j) = (v \div (2^(k + j))) % 2
    OBVIOUS
  <2>1. k + j \in 0..(layout[f][2] - 1) /\ (8 * q) + j = layout[f][1] + (k + j)
    BY DEF Laid, Offsets
  <2> DEFINE m == k + j
  <2>2. m \in 0..(layout[f][2] - 1)
    BY <2>1
  <2> HIDE DEF m
  <2>3. PackedBit(layout, fields, fill, layout[f][1] + m) = (fields[f] \div (2^m)) % 2
    BY <2>2, NarrowBit DEF BitAt
  <2> QED BY <2>1, <2>3 DEF m
<1>3. PackedByte(layout, fields, fill, q) =
        (b(0) * 2^0) + (b(1) * 2^1) + (b(2) * 2^2) + (b(3) * 2^3) + (b(4) * 2^4) + (b(5) * 2^5)
        + (b(6) * 2^6) + (b(7) * 2^7)
  BY DEF PackedByte
<1> HIDE DEF b, v
<1>4. /\ b(0) = x % 2 /\ b(1) = (x \div 2^1) % 2 /\ b(2) = (x \div 2^2) % 2
      /\ b(3) = (x \div 2^3) % 2 /\ b(4) = (x \div 2^4) % 2 /\ b(5) = (x \div 2^5) % 2
      /\ b(6) = (x \div 2^6) % 2 /\ b(7) = (x \div 2^7) % 2
  <2>1. /\ b(0) = (v \div 2^k) % 2 /\ b(1) = (v \div (2^(k + 1))) % 2
        /\ b(2) = (v \div (2^(k + 2))) % 2 /\ b(3) = (v \div (2^(k + 3))) % 2
        /\ b(4) = (v \div (2^(k + 4))) % 2 /\ b(5) = (v \div (2^(k + 5))) % 2
        /\ b(6) = (v \div (2^(k + 6))) % 2 /\ b(7) = (v \div (2^(k + 7))) % 2
    <3>1. k + 0 = k
      BY DEF Offsets
    <3> QED BY <1>2, <3>1
  <2>2. CASE k = 0
    <3>1. x = v
      BY <1>1, <2>2
    <3> QED BY <2>1, <2>2, <3>1
  <2>3. CASE k = 4
    BY <1>1, <2>1, <2>3, NestedQuotients
  <2>4. CASE k = 6
    BY <1>1, <2>1, <2>4, NestedQuotients
  <2>5. CASE k = 8
    BY <1>1, <2>1, <2>5, NestedQuotients
  <2>6. CASE k = 14
    BY <1>1, <2>1, <2>6, NestedQuotients
  <2> QED BY <2>2, <2>3, <2>4, <2>5, <2>6 DEF Offsets
<1> HIDE DEF x
<1>5. PackedByte(layout, fields, fill, q) =
          ((x % 2) * 2^0) + (((x \div 2^1) % 2) * 2^1) + (((x \div 2^2) % 2) * 2^2)
           + (((x \div 2^3) % 2) * 2^3) + (((x \div 2^4) % 2) * 2^4) + (((x \div 2^5) % 2) * 2^5)
           + (((x \div 2^6) % 2) * 2^6) + (((x \div 2^7) % 2) * 2^7)
  BY <1>3, <1>4, Zenon
<1>6. PackedByte(layout, fields, fill, q) = x % 256
  BY <1>1, <1>5, ByteOfBits, Zenon
<1> QED BY <1>6 DEF x, v, Slice

\* Parts of bytes: the lowest two or four bits, the bits above, single bits.
LEMMA Parts ==
  ASSUME NEW layout, Laid(layout), NEW fields, Fit(layout, fields), NEW fill \in Bit, NEW q \in Nat
  PROVE  LET s == PackedByte(layout, fields, fill, q)
             b(j) == PackedBit(layout, fields, fill, (8 * q) + j)
         IN /\ s % 4 = b(0) + (2 * b(1))
            /\ s % 16 = b(0) + (2 * b(1)) + (4 * b(2)) + (8 * b(3))
            /\ s \div 4 = b(2) + (2 * b(3)) + (4 * b(4)) + (8 * b(5)) + (16 * b(6)) + (32 * b(7))
            /\ s \div 16 = b(4) + (2 * b(5)) + (4 * b(6)) + (8 * b(7))
            /\ (s \div 2) % 2 = b(1) /\ (s \div 4) % 2 = b(2)
PROOF
<1> DEFINE s == PackedByte(layout, fields, fill, q)
           b(j) == PackedBit(layout, fields, fill, (8 * q) + j)
           b0 == b(0)
           b1 == b(1)
           b2 == b(2)
           b3 == b(3)
           b4 == b(4)
           b5 == b(5)
           b6 == b(6)
           b7 == b(7)
<1>1. /\ b0 \in {0, 1} /\ b1 \in {0, 1} /\ b2 \in {0, 1} /\ b3 \in {0, 1}
      /\ b4 \in {0, 1} /\ b5 \in {0, 1} /\ b6 \in {0, 1} /\ b7 \in {0, 1}
  BY PackedBitIsBit DEF Bit
<1>2. s = (b0 * 2^0) + (b1 * 2^1) + (b2 * 2^2) + (b3 * 2^3) + (b4 * 2^4) + (b5 * 2^5)
        + (b6 * 2^6) + (b7 * 2^7)
  BY DEF PackedByte
<1> HIDE DEF s, b0, b1, b2, b3, b4, b5, b6, b7
<1>3. s \in Int
      /\ s = b0 + (2 * b1) + (4 * b2) + (8 * b3) + (16 * b4) + (32 * b5) + (64 * b6) + (128 * b7)
  BY <1>1, <1>2
<1>4. s % 4 = b0 + (2 * b1)
  BY <1>1, <1>3
<1>5. s % 16 = b0 + (2 * b1) + (4 * b2) + (8 * b3)
  BY <1>1, <1>3
<1>6. s \div 4 = b2 + (2 * b3) + (4 * b4) + (8 * b5) + (16 * b6) + (32 * b7)
  BY <1>1, <1>3
<1>7. s \div 16 = b4 + (2 * b5) + (4 * b6) + (8 * b7)
  BY <1>1, <1>3
<1>8. (s \div 2) % 2 = b1
  BY <1>1, <1>3
<1>9. (s \div 4) % 2 = b2
  BY <1>1, <1>3
<1> QED BY <1>4, <1>5, <1>6, <1>7, <1>8, <1>9 DEF s, b0, b1, b2, b3, b4, b5, b6, b7

\* What a receiver sees of a payload, byte by byte.
LEMMA RawBytes ==
  ASSUME NEW layout, NEW fields, NEW fill \in Bit, NEW n \in Nat,
         Laid(layout), Fit(layout, fields), NEW q \in Nat
  PROVE  LET P == Packed(layout, n, fields, fill) IN
         /\ Len(P) = n /\ P \in Seq(Byte)
         /\ q < n => RawByte(P, q) = PackedByte(layout, fields, fill, q)
                     /\ P[q + 1] = PackedByte(layout, fields, fill, q)
         /\ RawByte(P, q) \in Byte
PROOF
<1> DEFINE P == Packed(layout, n, fields, fill)
<1>1. P = [i \in 1..n |-> PackedByte(layout, fields, fill, i - 1)]
  BY PackedBytes
<1>2. \A k \in Nat : PackedByte(layout, fields, fill, k) \in Byte
  BY PackedByteIsByte
<1>3. \A i \in 1..n : P[i] = PackedByte(layout, fields, fill, i - 1) /\ P[i] \in Byte
  BY <1>1, <1>2
<1>4. DOMAIN P = 1..n /\ P \in [1..n -> Byte]
  BY <1>1, <1>2
<1> HIDE DEF P
<1>5. Len(P) = n /\ P \in Seq(Byte)
  BY <1>4
<1>6. ASSUME q < n PROVE P[q + 1] = PackedByte(layout, fields, fill, q) /\ P[q + 1] \in Byte
  <2>1. q + 1 \in 1..n /\ (q + 1) - 1 = q
    BY <1>6
  <2> QED BY <1>3, <2>1
<1>7. CASE q < n
  BY <1>5, <1>6, <1>7 DEF RawByte, P
<1>8. CASE ~(q < n)
  BY <1>5, <1>8 DEF RawByte, P, Byte
<1> QED BY <1>5, <1>7, <1>8 DEF P

\* A field of four bytes is read back whole.
LEMMA ReadWord ==
  ASSUME NEW layout, NEW fields, NEW fill \in Bit, NEW n \in Nat,
         Laid(layout), Fit(layout, fields),
         NEW f \in DOMAIN layout, NEW q \in 0..4, layout[f] = <<8 * q, 32>>, q + 4 <= n
  PROVE  FloatAt(Packed(layout, n, fields, fill), q) = fields[f]
PROOF
<1> DEFINE P == Packed(layout, n, fields, fill)
<1>1. fields[f] \in Word32
  BY DEF Fit
<1>2. \A i \in 1..4 : RawByte(P, q + i - 1) = fields[f][i]
  <2> SUFFICES ASSUME NEW i \in 1..4 PROVE RawByte(P, q + i - 1) = fields[f][i]
    OBVIOUS
  <2> DEFINE k == q + i - 1
             j == i - 1
  <2>1. k \in Nat /\ k < n /\ k = q + j /\ j \in 0..3 /\ j + 1 = i
    OBVIOUS
  <2>2. PackedByte(layout, fields, fill, q + j) = fields[f][j + 1]
    BY <2>1, WordField
  <2> HIDE DEF k
  <2>3. RawByte(P, k) = PackedByte(layout, fields, fill, k)
    BY <2>1, RawBytes
  <2> QED BY <2>1, <2>2, <2>3 DEF k
<1> HIDE DEF P
<1> QED BY <1>1, <1>2 DEF FloatAt, Word32, P

\* Numbers cut out of the three bytes they may extend over.
LEMMA Cuts ==
  ASSUME NEW b0 \in Nat, NEW b1 \in Nat, NEW b2 \in Nat, b0 < 256, b1 < 256, b2 < 256
  PROVE  LET s == b0 + (256 * b1) + (65536 * b2) IN
         /\ (s \div 2^0) % 2^8 = b0
         /\ (s \div 2^0) % 2^16 = b0 + (256 * b1)
         /\ (s \div 2^0) % 2^12 = b0 + (256 * (b1 % 16))
         /\ (s \div 2^4) % 2^12 = (b0 \div 16) + (16 * b1)
         /\ (s \div 2^1) % 2^1 = (b0 \div 2) % 2
         /\ (s \div 2^2) % 2^1 = (b0 \div 4) % 2
PROOF
<1> DEFINE s == b0 + (256 * b1) + (65536 * b2)
<1>0. s \in Nat
  OBVIOUS
<1>1. (s \div 2^0) % 2^8 = b0
  OBVIOUS
<1>2. (s \div 2^0) % 2^16 = b0 + (256 * b1)
  OBVIOUS
<1>3. (s \div 2^0) % 2^12 = b0 + (256 * (b1 % 16))
  OBVIOUS
<1>4. (s \div 2^4) % 2^12 = (b0 \div 16) + (16 * b1)
  OBVIOUS
<1>5. (s \div 2^1) % 2^1 = (b0 \div 2) % 2
  OBVIOUS
<1>6. (s \div 2^2) % 2^1 = (b0 \div 4) % 2
  OBVIOUS
<1> QED BY <1>1, <1>2, <1>3, <1>4, <1>5, <1>6

\* What Bits makes of a payload.
LEMMA BitsOfBytes ==
  ASSUME NEW layout, NEW fields, NEW fill \in Bit, NEW n \in Nat,
         Laid(layout), Fit(layout, fields), NEW q \in Nat
  PROVE  LET P == Packed(layout, n, fields, fill)
             b(i) == RawByte(P, i) IN
         /\ Bits(P, 8 * q, 8) = b(q)
         /\ Bits(P, 8 * q, 16) = Join16(b(q), b(q + 1))
         /\ Bits(P, 8 * q, 12) = Join16(b(q), b(q + 1) % 16)
         /\ Bits(P, (8 * q) + 4, 12) = (b(q) \div 16) + (16 * b(q + 1))
         /\ Bits(P, (8 * q) + 1, 1) = (b(q) \div 2) % 2
         /\ Bits(P, (8 * q) + 2, 1) = (b(q) \div 4) % 2
PROOF
<1> DEFINE P == Packed(layout, n, fields, fill)
           b0 == RawByte(P, q)
           b1 == RawByte(P, q + 1)
           b2 == RawByte(P, q + 2)
           s == b0 + (256 * b1) + (65536 * b2)
<1>1. b0 \in Byte /\ b1 \in Byte /\ b2 \in Byte
  <2>1. q + 1 \in Nat /\ q + 2 \in Nat
    OBVIOUS
  <2> QED BY <2>1, RawBytes
<1>2. /\ (8 * q) \div 8 = q /\ ((8 * q) + 4) \div 8 = q /\ ((8 * q) + 1) \div 8 = q
      /\ ((8 * q) + 2) \div 8 = q
      /\ (8 * q) % 8 = 0 /\ ((8 * q) + 4) % 8 = 4 /\ ((8 * q) + 1) % 8 = 1 /\ ((8 * q) + 2) % 8 = 2
  BY SMT
<1>3. /\ Bits(P, 8 * q, 8) = (s \div 2^0) % 2^8
      /\ Bits(P, 8 * q, 16) = (s \div 2^0) % 2^16
      /\ Bits(P, 8 * q, 12) = (s \div 2^0) % 2^12
      /\ Bits(P, (8 * q) + 4, 12) = (s \div 2^4) % 2^12
      /\ Bits(P, (8 * q) + 1, 1) = (s \div 2^1) % 2^1
      /\ Bits(P, (8 * q) + 2, 1) = (s \div 2^2) % 2^1
  <2>1. ASSUME NEW first, NEW w, NEW r, first \div 8 = q, first % 8 = r
        PROVE  Bits(P, first, w) = (s \div (2^r)) % (2^w)
    <3> HIDE DEF P
    <3> QED BY <2>1, SMT DEF Bits
  <2> HIDE DEF s, P
  <2>2. Bits(P, 8 * q, 8) = (s \div 2^0) % 2^8
    BY <1>2, <2>1, Zenon
  <2>3. Bits(P, 8 * q, 16) = (s \div 2^0) % 2^16
    BY <1>2, <2>1, Zenon
  <2>4. Bits(P, 8 * q, 12) = (s \div 2^0) % 2^12
    BY <1>2, <2>1, Zenon
  <2>5. Bits(P, (8 * q) + 4, 12) = (s \div 2^4) % 2^12
    BY <1>2, <2>1, Zenon
  <2>6. Bits(P, (8 * q) + 1, 1) = (s \div 2^1) % 2^1
    BY <1>2, <2>1, Zenon
  <2>7. Bits(P, (8 * q) + 2, 1) = (s \div 2^2) % 2^1
    BY <1>2, <2>1, Zenon
  <2> QED BY <2>2, <2>3, <2>4, <2>5, <2>6, <2>7
<1>4. b0 \in Nat /\ b1 \in Nat /\ b2 \in Nat /\ b0 < 256 /\ b1 < 256 /\ b2 < 256
  BY <1>1 DEF Byte
<1> HIDE DEF b0, b1, b2
<1>5. /\ (s \div 2^0) % 2^8 = b0
      /\ (s \div 2^0) % 2^16 = b0 + (256 * b1)
      /\ (s \div 2^0) % 2^12 = b0 + (256 * (b1 % 16))
      /\ (s \div 2^4) % 2^12 = (b0 \div 16) + (16 * b1)
      /\ (s \div 2^1) % 2^1 = (b0 \div 2) % 2
      /\ (s \div 2^2) % 2^1 = (b0 \div 4) % 2
  BY <1>4, Cuts
<1>6. /\ Bits(P, 8 * q, 8) = b0
      /\ Bits(P, 8 * q, 16) = Join16(b0, b1)
      /\ Bits(P, 8 * q, 12) = Join16(b0, b1 % 16)
      /\ Bits(P, (8 * q) + 4, 12) = (b0 \div 16) + (16 * b1)
      /\ Bits(P, (8 * q) + 1, 1) = (b0 \div 2) % 2
      /\ Bits(P, (8 * q) + 2, 1) = (b0 \div 4) % 2
  <2> HIDE DEF s, P
  <2> QED BY <1>3, <1>5 DEF Join16
<1> QED BY <1>6, Zenon DEF b0, b1, P

\* Field f of a payload begins at bit first, is width bits wide and holds v.
Holds(layout, fields, f, first, width, v) ==
  f \in DOMAIN layout /\ layout[f] = <<first, width>> /\ fields[f] = v

\* So the bits of the payload that are the field's, and the bytes that lie
\* within it, are those of v.
Reads(layout, fields, fill, first, width, v) ==
  /\ \A q \in Nat, k \in Offsets : 8 * q = first + k /\ k + 8 <= width
        => PackedByte(layout, fields, fill, q) = Slice(v, k)
  /\ \A k \in 0..(width - 1) : PackedBit(layout, fields, fill, first + k) = BitAt(v, k)

\* What a field holds is what the payload has in its place.
LEMMA HeldByte ==
  ASSUME NEW layout, NEW fields, NEW fill \in Bit, Laid(layout), Fit(layout, fields),
         NEW f, NEW first \in Nat, NEW width \in Nat, NEW v, Holds(layout, fields, f, first, width, v),
         width # 32
  PROVE  Reads(layout, fields, fill, first, width, v)
PROOF
<1>1. f \in DOMAIN layout /\ layout[f][1] = first /\ layout[f][2] = width /\ fields[f] = v
  BY DEF Holds
<1>3. ASSUME NEW q \in Nat, NEW k \in Offsets, 8 * q = first + k, k + 8 <= width
      PROVE  PackedByte(layout, fields, fill, q) = Slice(v, k)
  BY <1>1, <1>3, FullByte
<1>4. ASSUME NEW k \in 0..(width - 1)
      PROVE  PackedBit(layout, fields, fill, first + k) = BitAt(v, k)
  BY <1>1, <1>4, NarrowBit
<1> QED BY <1>3, <1>4 DEF Reads

\* A field of one byte.
LEMMA ReadByte ==
  ASSUME NEW layout, NEW fields, NEW fill \in Bit, NEW n \in Nat,
         Laid(layout), Fit(layout, fields), NEW f, NEW q \in Nat, NEW v \in Byte,
         Holds(layout, fields, f, 8 * q, 8, v), q < n
  PROVE  LET P == Packed(layout, n, fields, fill) IN
         Bits(P, 8 * q, 8) = v /\ RawByte(P, q) = v /\ P[q + 1] = v
           /\ PackedByte(layout, fields, fill, q) = v
PROOF
<1> DEFINE P == Packed(layout, n, fields, fill)
<1>1. 0 \in Offsets /\ 8 * q = (8 * q) + 0 /\ 0 + 8 <= 8 /\ 8 # 32 /\ 8 * q \in Nat
  BY DEF Offsets
<1>2. PackedByte(layout, fields, fill, q) = Slice(v, 0)
  <2> DEFINE first == 8 * q
             width == 8
  <2>1. first \in Nat /\ width \in Nat /\ width # 32 /\ Holds(layout, fields, f, first, width, v)
    OBVIOUS
  <2>2. 0 \in Offsets /\ 8 * q = first + 0 /\ 0 + 8 <= width
    BY <1>1
  <2> HIDE DEF first, width
  <2>3. \A r \in Nat, k \in Offsets : 8 * r = first + k /\ k + 8 <= width
              => PackedByte(layout, fields, fill, r) = Slice(v, k)
    <3>1. Reads(layout, fields, fill, first, width, v)
      BY <2>1, HeldByte, Zenon
    <3> QED BY <3>1 DEF Reads
  <2> QED BY <2>2, <2>3
<1>3. Slice(v, 0) = v
  BY DEF Byte, Slice
<1>4. PackedByte(layout, fields, fill, q) = v
  BY <1>2, <1>3
<1>5. RawByte(P, q) = v /\ P[q + 1] = v
  BY <1>4, RawBytes, Zenon
<1>6. Bits(P, 8 * q, 8) = RawByte(P, q)
  BY BitsOfBytes
<1> QED BY <1>4, <1>5, <1>6, Zenon

\* The numbers of so many bits.
Twelve == {v \in Nat : v < 4096}

\* A field of two bytes.
LEMMA HalfBytes ==
  ASSUME NEW layout, NEW fields, NEW fill \in Bit, Laid(layout), Fit(layout, fields),
         NEW f, NEW q \in Nat, NEW v, Holds(layout, fields, f, 8 * q, 16, v)
  PROVE  /\ PackedByte(layout, fields, fill, q) = Slice(v, 0)
         /\ PackedByte(layout, fields, fill, q + 1) = Slice(v, 8)
         /\ v \in Int
PROOF
<1> DEFINE first == 8 * q
           width == 16
           r == q + 1
<1>1. first \in Nat /\ width \in Nat /\ width # 32 /\ Holds(layout, fields, f, first, width, v)
  OBVIOUS
<1>2. /\ 0 \in Offsets /\ 8 * q = first + 0 /\ 0 + 8 <= width
      /\ 8 \in Offsets /\ 8 * r = first + 8 /\ 8 + 8 <= width /\ r \in Nat
  BY DEF Offsets
<1>3. v \in Int
  BY DEF Holds, Fit
<1> HIDE DEF first, width, r
<1>4. \A p \in Nat, k \in Offsets : 8 * p = first + k /\ k + 8 <= width
            => PackedByte(layout, fields, fill, p) = Slice(v, k)
  <2>1. Reads(layout, fields, fill, first, width, v)
    BY <1>1, HeldByte, Zenon
  <2> QED BY <2>1 DEF Reads
<1>5. PackedByte(layout, fields, fill, q) = Slice(v, 0)
  BY <1>2, <1>4
<1>6. PackedByte(layout, fields, fill, r) = Slice(v, 8)
  BY <1>2, <1>4
<1> QED BY <1>3, <1>5, <1>6 DEF r

\* They are read back as the number, as far as 16 bits hold it.
LEMMA ReadHalf ==
  ASSUME NEW layout, NEW fields, NEW fill \in Bit, NEW n \in Nat, Laid(layout), Fit(layout, fields),
         NEW f, NEW q \in Nat, NEW v, Holds(layout, fields, f, 8 * q, 16, v), q + 2 <= n
  PROVE  Bits(Packed(layout, n, fields, fill), 8 * q, 16) = v % 65536
PROOF
<1> DEFINE P == Packed(layout, n, fields, fill)
           r == q + 1
<1>1. r \in Nat /\ r < n /\ q < n
  OBVIOUS
<1>2. /\ PackedByte(layout, fields, fill, q) = Slice(v, 0)
      /\ PackedByte(layout, fields, fill, r) = Slice(v, 8) /\ v \in Int
  BY HalfBytes
<1>3. Bits(P, 8 * q, 16) = Join16(RawByte(P, q), RawByte(P, r))
  BY BitsOfBytes
<1> HIDE DEF r
<1>4. RawByte(P, q) = Slice(v, 0) /\ RawByte(P, r) = Slice(v, 8)
  <2>1. RawByte(P, q) = PackedByte(layout, fields, fill, q)
    BY <1>1, RawBytes, Zenon
  <2>2. RawByte(P, r) = PackedByte(layout, fields, fill, r)
    BY <1>1, RawBytes, Zenon
  <2> QED BY <1>2, <2>1, <2>2, Zenon
<1>5. Join16(Slice(v, 0), Slice(v, 8)) = v % 65536
  BY <1>2 DEF Join16, Slice
<1> HIDE DEF P
<1> QED BY <1>3, <1>4, <1>5 DEF P

\* A field of a byte and the lower half of the next.
LEMMA ReadLow ==
  ASSUME NEW layout, NEW fields, NEW fill \in Bit, NEW n \in Nat, Laid(layout), Fit(layout, fields),
         NEW f, NEW q \in Nat, NEW v \in Twelve, Holds(layout, fields, f, 8 * q, 12, v), q + 2 <= n
  PROVE  Bits(Packed(layout, n, fields, fill), 8 * q, 12) = v
PROOF
<1> DEFINE P == Packed(layout, n, fields, fill)
           r == q + 1
           first == 8 * q
           width == 12
           b(j) == PackedBit(layout, fields, fill, (8 * r) + j)
<1>1. r \in Nat /\ r < n /\ q < n
  OBVIOUS
<1>2. first \in Nat /\ width \in Nat /\ width # 32 /\ Holds(layout, fields, f, first, width, v)
  OBVIOUS
<1>3. /\ 0 \in Offsets /\ 8 * q = first + 0 /\ 0 + 8 <= width
      /\ \A k \in 8..11 : k \in 0..(width - 1)
      /\ (8 * r) + 0 = first + 8 /\ (8 * r) + 1 = first + 9
      /\ (8 * r) + 2 = first + 10 /\ (8 * r) + 3 = first + 11
  BY DEF Offsets
<1>4. Bits(P, 8 * q, 12) = Join16(RawByte(P, q), RawByte(P, r) % 16)
  BY BitsOfBytes
<1> HIDE DEF first, width, r
<1>a. Reads(layout, fields, fill, first, width, v)
  BY <1>2, HeldByte, Zenon
<1>5. \A p \in Nat, k \in Offsets : 8 * p = first + k /\ k + 8 <= width
            => PackedByte(layout, fields, fill, p) = Slice(v, k)
  BY <1>a DEF Reads
<1>b. \A k \in 0..(width - 1) : PackedBit(layout, fields, fill, first + k) = BitAt(v, k)
  BY <1>a DEF Reads
<1>6. b(0) = BitAt(v, 8) /\ b(1) = BitAt(v, 9) /\ b(2) = BitAt(v, 10) /\ b(3) = BitAt(v, 11)
  <2>1. \A k \in 8..11 : PackedBit(layout, fields, fill, first + k) = BitAt(v, k)
    BY <1>3, <1>b
  <2> QED BY <1>3, <2>1
<1>7. RawByte(P, q) = Slice(v, 0)
  <2>1. PackedByte(layout, fields, fill, q) = Slice(v, 0)
    BY <1>3, <1>5
  <2>2. RawByte(P, q) = PackedByte(layout, fields, fill, q)
    BY <1>1, RawBytes, Zenon
  <2> QED BY <2>1, <2>2
<1>8. RawByte(P, r) % 16 = b(0) + (2 * b(1)) + (4 * b(2)) + (8 * b(3))
  <2>1. RawByte(P, r) = PackedByte(layout, fields, fill, r)
    BY <1>1, RawBytes, Zenon
  <2>2. PackedByte(layout, fields, fill, r) % 16 = b(0) + (2 * b(1)) + (4 * b(2)) + (8 * b(3))
    BY <1>1, Parts
  <2> HIDE DEF b
  <2> QED BY <2>1, <2>2
<1> HIDE DEF b, P
<1>9. BitAt(v, 8) + (2 * BitAt(v, 9)) + (4 * BitAt(v, 10)) + (8 * BitAt(v, 11)) = v \div 256
  BY DEF BitAt, Twelve
<1>10. RawByte(P, r) % 16 = v \div 256
  BY <1>6, <1>8, <1>9
<1>11. Join16(Slice(v, 0), v \div 256) = v
  BY DEF Join16, Slice, Twelve
<1> QED BY <1>4, <1>7, <1>10, <1>11 DEF P

\* A field of the upper half of a byte and the next byte.
LEMMA ReadHigh ==
  ASSUME NEW layout, NEW fields, NEW fill \in Bit, NEW n \in Nat, Laid(layout), Fit(layout, fields),
         NEW f, NEW q \in Nat, NEW v \in Twelve, Holds(layout, fields, f, (8 * q) + 4, 12, v),
         q + 2 <= n
  PROVE  Bits(Packed(layout, n, fields, fill), (8 * q) + 4, 12) = v
PROOF
<1> DEFINE P == Packed(layout, n, fields, fill)
           r == q + 1
           first == (8 * q) + 4
           width == 12
           b(j) == PackedBit(layout, fields, fill, (8 * q) + j)
<1>1. r \in Nat /\ r < n /\ q < n
  OBVIOUS
<1>2. first \in Nat /\ width \in Nat /\ width # 32 /\ Holds(layout, fields, f, first, width, v)
  OBVIOUS
<1>3. /\ 4 \in Offsets /\ 8 * r = first + 4 /\ 4 + 8 <= width
      /\ \A k \in 0..3 : k \in 0..(width - 1)
      /\ (8 * q) + 4 = first + 0 /\ (8 * q) + 5 = first + 1
      /\ (8 * q) + 6 = first + 2 /\ (8 * q) + 7 = first + 3
  BY DEF Offsets
<1>4. Bits(P, (8 * q) + 4, 12) = (RawByte(P, q) \div 16) + (16 * RawByte(P, r))
  BY BitsOfBytes
<1> HIDE DEF first, width, r
<1>a. Reads(layout, fields, fill, first, width, v)
  BY <1>2, HeldByte, Zenon
<1>5. \A p \in Nat, k \in Offsets : 8 * p = first + k /\ k + 8 <= width
            => PackedByte(layout, fields, fill, p) = Slice(v, k)
  BY <1>a DEF Reads
<1>b. \A k \in 0..(width - 1) : PackedBit(layout, fields, fill, first + k) = BitAt(v, k)
  BY <1>a DEF Reads
<1>6. b(4) = BitAt(v, 0) /\ b(5) = BitAt(v, 1) /\ b(6) = BitAt(v, 2) /\ b(7) = BitAt(v, 3)
  <2>1. \A k \in 0..3 : PackedBit(layout, fields, fill, first + k) = BitAt(v, k)
    BY <1>3, <1>b
  <2> QED BY <1>3, <2>1
<1>7. RawByte(P, r) = Slice(v, 4)
  <2>1. PackedByte(layout, fields, fill, r) = Slice(v, 4)
    BY <1>1, <1>3, <1>5
  <2>2. RawByte(P, r) = PackedByte(layout, fields, fill, r)
    BY <1>1, RawBytes, Zenon
  <2> QED BY <2>1, <2>2
<1>8. RawByte(P, q) \div 16 = b(4) + (2 * b(5)) + (4 * b(6)) + (8 * b(7))
  <2>1. RawByte(P, q) = PackedByte(layout, fields, fill, q)
    BY <1>1, RawBytes, Zenon
  <2>2. PackedByte(layout, fields, fill, q) \div 16 = b(4) + (2 * b(5)) + (4 * b(6)) + (8 * b(7))
    BY <1>1, Parts
  <2> HIDE DEF b
  <2> QED BY <2>1, <2>2
<1> HIDE DEF b, P
<1>9. BitAt(v, 0) + (2 * BitAt(v, 1)) + (4 * BitAt(v, 2)) + (8 * BitAt(v, 3)) = v % 16
  BY DEF BitAt, Twelve
<1>10. RawByte(P, q) \div 16 = v % 16
  BY <1>6, <1>8, <1>9
<1>11. (v % 16) + (16 * Slice(v, 4)) = v
  BY DEF Slice, Twelve
<1> QED BY <1>4, <1>7, <1>10, <1>11 DEF P

\* A field of one bit.
LEMMA ReadBit ==
  ASSUME NEW layout, NEW fields, NEW fill \in Bit, NEW n \in Nat, Laid(layout), Fit(layout, fields),
         NEW f, NEW q \in Nat, q < n, NEW v \in Bit
  PROVE  LET P == Packed(layout, n, fields, fill) IN
         /\ Holds(layout, fields, f, (8 * q) + 1, 1, v) => Bits(P, (8 * q) + 1, 1) = v
         /\ Holds(layout, fields, f, (8 * q) + 2, 1, v) => Bits(P, (8 * q) + 2, 1) = v
PROOF
<1> DEFINE P == Packed(layout, n, fields, fill)
           s == PackedByte(layout, fields, fill, q)
<1>1. RawByte(P, q) = s
  BY RawBytes, Zenon
<1>2. /\ (s \div 2) % 2 = PackedBit(layout, fields, fill, (8 * q) + 1)
      /\ (s \div 4) % 2 = PackedBit(layout, fields, fill, (8 * q) + 2)
  BY Parts
<1>3. /\ Bits(P, (8 * q) + 1, 1) = (RawByte(P, q) \div 2) % 2
      /\ Bits(P, (8 * q) + 2, 1) = (RawByte(P, q) \div 4) % 2
  BY BitsOfBytes
<1>4. BitAt(v, 0) = v
  BY DEF BitAt, Bit
<1>5. ASSUME NEW first \in Nat, Holds(layout, fields, f, first, 1, v)
      PROVE  PackedBit(layout, fields, fill, first) = v
  <2> DEFINE width == 1
             k == 0
  <2>1. width \in Nat /\ width # 32 /\ k \in 0..(width - 1) /\ first + k = first
        /\ Holds(layout, fields, f, first, width, v) /\ BitAt(v, k) = v
    BY <1>4, <1>5
  <2> HIDE DEF width, k
  <2>2. PackedBit(layout, fields, fill, first + k) = BitAt(v, k)
    <3>1. Reads(layout, fields, fill, first, width, v)
      BY <2>1, HeldByte, Zenon
    <3> QED BY <2>1, <3>1 DEF Reads
  <2> QED BY <2>1, <2>2
<1> HIDE DEF P, s
<1>6. (8 * q) + 1 \in Nat /\ (8 * q) + 2 \in Nat
  OBVIOUS
<1>7. Holds(layout, fields, f, (8 * q) + 1, 1, v) => Bits(P, (8 * q) + 1, 1) = v
  BY <1>1, <1>2, <1>3, <1>5, <1>6
<1>8. Holds(layout, fields, f, (8 * q) + 2, 1, v) => Bits(P, (8 * q) + 2, 1) = v
  BY <1>1, <1>2, <1>3, <1>5, <1>6
<1> QED BY <1>7, <1>8 DEF P

\* A payload of n bytes that follows a layout.
Follows(layout, fields, fill, n) ==
  Laid(layout) /\ Fit(layout, fields) /\ fill \in Bit /\ n \in Nat

\* What a decoder takes from bit first on: a byte,
LEMMA GetByte ==
  ASSUME NEW layout, NEW fields, NEW fill, NEW n, Follows(layout, fields, fill, n),
         NEW f, NEW first \in Nat, first % 8 = 0, first + 8 <= 8 * n, NEW v \in Byte,
         Holds(layout, fields, f, first, 8, v)
  PROVE  LET P == Packed(layout, n, fields, fill) IN
         Bits(P, first, 8) = v /\ RawByte(P, first \div 8) = v /\ P[(first \div 8) + 1] = v
PROOF
<1>1. Laid(layout) /\ Fit(layout, fields) /\ fill \in Bit /\ n \in Nat
  BY DEF Follows
<1>2. PICK q \in Nat : first = 8 * q /\ q < n /\ first \div 8 = q
  BY <1>1
<1>3. Holds(layout, fields, f, 8 * q, 8, v)
  BY <1>2, Zenon
<1>4. LET P == Packed(layout, n, fields, fill) IN
      Bits(P, 8 * q, 8) = v /\ RawByte(P, q) = v /\ P[q + 1] = v
  BY <1>1, <1>2, <1>3, ReadByte
<1> QED BY <1>2, <1>4, Zenon

\* a number of 16 bits,
LEMMA GetHalf ==
  ASSUME NEW layout, NEW fields, NEW fill, NEW n, Follows(layout, fields, fill, n),
         NEW f, NEW first \in Nat, first % 8 = 0, first + 16 <= 8 * n, NEW v,
         Holds(layout, fields, f, first, 16, v)
  PROVE  /\ Bits(Packed(layout, n, fields, fill), first, 16) = v % 65536
         /\ v \in Int
PROOF
<1>1. Laid(layout) /\ Fit(layout, fields) /\ fill \in Bit /\ n \in Nat
  BY DEF Follows
<1>2. PICK q \in Nat : first = 8 * q /\ q + 2 <= n
  BY <1>1
<1>3. Holds(layout, fields, f, 8 * q, 16, v)
  BY <1>2, Zenon
<1>4. Bits(Packed(layout, n, fields, fill), 8 * q, 16) = v % 65536 /\ v \in Int
  BY <1>1, <1>2, <1>3, ReadHalf, HalfBytes
<1> QED BY <1>2, <1>4

\* one of 12 bits that begins with a byte,
LEMMA GetLow ==
  ASSUME NEW layout, NEW fields, NEW fill, NEW n, Follows(layout, fields, fill, n),
         NEW f, NEW first \in Nat, first % 8 = 0, first + 16 <= 8 * n, NEW v \in Twelve,
         Holds(layout, fields, f, first, 12, v)
  PROVE  Bits(Packed(layout, n, fields, fill), first, 12) = v
PROOF
<1>1. Laid(layout) /\ Fit(layout, fields) /\ fill \in Bit /\ n \in Nat
  BY DEF Follows
<1>2. PICK q \in Nat : first = 8 * q /\ q + 2 <= n
  BY <1>1
<1>3. Holds(layout, fields, f, 8 * q, 12, v)
  BY <1>2, Zenon
<1>4. Bits(Packed(layout, n, fields, fill), 8 * q, 12) = v
  BY <1>1, <1>2, <1>3, ReadLow, Zenon
<1> QED BY <1>2, <1>4, Zenon

\* one that begins in the middle of a byte,
LEMMA GetHigh ==
  ASSUME NEW layout, NEW fields, NEW fill, NEW n, Follows(layout, fields, fill, n),
         NEW f, NEW first \in Nat, first % 8 = 4, first + 12 <= 8 * n, NEW v \in Twelve,
         Holds(layout, fields, f, first, 12, v)
  PROVE  Bits(Packed(layout, n, fields, fill), first, 12) = v
PROOF
<1>1. Laid(layout) /\ Fit(layout, fields) /\ fill \in Bit /\ n \in Nat
  BY DEF Follows
<1>2. PICK q \in Nat : first = (8 * q) + 4 /\ q + 2 <= n
  BY <1>1
<1>3. Holds(layout, fields, f, (8 * q) + 4, 12, v)
  BY <1>2, Zenon
<1>4. Bits(Packed(layout, n, fields, fill), (8 * q) + 4, 12) = v
  BY <1>1, <1>2, <1>3, ReadHigh, Zenon
<1> QED BY <1>2, <1>4, Zenon

\* a bit,
LEMMA GetBit ==
  ASSUME NEW layout, NEW fields, NEW fill, NEW n, Follows(layout, fields, fill, n),
         NEW f, NEW first \in Nat, first % 8 \in {1, 2}, first < 8 * n, NEW v \in Bit,
         Holds(layout, fields, f, first, 1, v)
  PROVE  Bits(Packed(layout, n, fields, fill), first, 1) = v
PROOF
<1>1. Laid(layout) /\ Fit(layout, fields) /\ fill \in Bit /\ n \in Nat
  BY DEF Follows
<1>2. PICK q \in Nat : (first = (8 * q) + 1 \/ first = (8 * q) + 2) /\ q < n
  <2> DEFINE q == first \div 8
  <2>1. q \in Nat /\ (first = (8 * q) + 1 \/ first = (8 * q) + 2) /\ q < n
    BY <1>1
  <2> HIDE DEF q
  <2> QED BY <2>1
<1>3. CASE first = (8 * q) + 1
  <2>1. Holds(layout, fields, f, (8 * q) + 1, 1, v)
    BY <1>3, Zenon
  <2>2. Bits(Packed(layout, n, fields, fill), (8 * q) + 1, 1) = v
    BY <1>1, <1>2, <2>1, ReadBit
  <2> QED BY <1>3, <2>2, Zenon
<1>4. CASE first = (8 * q) + 2
  <2>1. Holds(layout, fields, f, (8 * q) + 2, 1, v)
    BY <1>4, Zenon
  <2>2. Bits(Packed(layout, n, fields, fill), (8 * q) + 2, 1) = v
    BY <1>1, <1>2, <2>1, ReadBit
  <2> QED BY <1>4, <2>2, Zenon
<1> QED BY <1>2, <1>3, <1>4

\* and four bytes.
LEMMA GetWord ==
  ASSUME NEW layout, NEW fields, NEW fill, NEW n, Follows(layout, fields, fill, n),
         NEW f, NEW q \in 0..4, q + 4 <= n, NEW v, Holds(layout, fields, f, 8 * q, 32, v)
  PROVE  /\ FloatAt(Packed(layout, n, fields, fill), q) = v
         /\ v \in Word32
PROOF
<1>1. Laid(layout) /\ Fit(layout, fields) /\ fill \in Bit /\ n \in Nat
  BY DEF Follows
<1>2. f \in DOMAIN layout /\ layout[f] = <<8 * q, 32>> /\ fields[f] = v
  BY DEF Holds
<1>3. FloatAt(Packed(layout, n, fields, fill), q) = fields[f]
  BY <1>1, <1>2, ReadWord
<1> QED BY <1>1, <1>2, <1>3 DEF Fit

\* The numbers of so many bits.
Ten == {v \in Nat : v < 1024}
Sixteen == {v \in Nat : v < 65536}
TwentyTwo == {v \in Nat : v < 4194304}
\* A 16-bit number taken as signed.
Short == {v \in Int : -32768 <= v /\ v < 32768}

\* The numbers of each width.
LEMMA NumberKinds ==
  ASSUME NEW k \in Picks
  PROVE  /\ Numbers[1][k] \in Bit /\ Numbers[8][k] \in Byte /\ Numbers[10][k] \in Ten
         /\ Numbers[12][k] \in Twelve /\ Numbers[16][k] \in Sixteen /\ Numbers[22][k] \in TwentyTwo
         /\ Numbers[2][k] \in Nat /\ Numbers[2][k] < 4
         /\ Words[k] \in Word32 /\ Signed16(Numbers[16][k]) \in Short
PROOF
<1>1. ASSUME NEW w \in Widths PROVE Numbers[w][k] \in 0..((2 ^ w) - 1)
  BY NumbersAssumption
<1>2. Numbers[1][k] \in Bit
  BY <1>1 DEF Widths, Bit
<1>3. Numbers[8][k] \in Byte
  BY <1>1 DEF Widths, Byte
<1>4. Numbers[10][k] \in Ten
  BY <1>1 DEF Widths, Ten
<1>5. Numbers[12][k] \in Twelve
  BY <1>1 DEF Widths, Twelve
<1>6. Numbers[16][k] \in Sixteen
  BY <1>1 DEF Widths, Sixteen
<1>7. Numbers[22][k] \in TwentyTwo
  BY <1>1 DEF Widths, TwentyTwo
<1>8. Numbers[2][k] \in Nat /\ Numbers[2][k] < 4
  BY <1>1 DEF Widths
<1>9. Signed16(Numbers[16][k]) \in Short
  BY <1>6 DEF Sixteen, Short, Signed16
<1>10. Words[k] \in Word32
  BY WordsAssumption
<1> QED BY <1>2, <1>3, <1>4, <1>5, <1>6, <1>7, <1>8, <1>9, <1>10

\* The sign of a 16-bit number survives.
LEMMA SignedShort == \A v \in Short : Signed16(v % 65536) = v /\ v \in Int
BY DEF Short, Signed16

\* The contents of a field that the protocol leaves open.
LEMMA OpenField ==
  ASSUME NEW layout, NEW fields \in Contents(layout), NEW f \in DOMAIN layout,
         NEW first, NEW width, layout[f] = <<first, width>>, f \notin DOMAIN Fixed
  PROVE  /\ fields = [g \in DOMAIN layout |-> fields[g]]
         /\ Holds(layout, fields, f, first, width, fields[f])
         /\ width = 32 => fields[f] \in Word32
         /\ f = "dutyCycle" /\ width = 16 => fields[f] \in Short
         /\ f # "dutyCycle" =>
              /\ width = 1 => fields[f] \in Bit
              /\ width = 2 => fields[f] \in Nat /\ fields[f] < 4
              /\ width = 8 => fields[f] \in Byte
              /\ width = 10 => fields[f] \in Ten
              /\ width = 12 => fields[f] \in Twelve
              /\ width = 16 => fields[f] \in Sixteen
              /\ width = 22 => fields[f] \in TwentyTwo
PROOF
<1>1. PICK pick \in [DOMAIN layout -> Picks] :
        fields = [g \in DOMAIN layout |-> Content(g, layout[g][2], pick[g])]
  BY DEF Contents
<1>2. pick[f] \in Picks /\ fields[f] = Content(f, width, pick[f])
  BY <1>1
<1>3. fields[f] = IF width = 32 THEN Words[pick[f]]
                  ELSE IF f = "dutyCycle" THEN Signed16(Numbers[width][pick[f]])
                  ELSE Numbers[width][pick[f]]
  BY <1>2 DEF Content
<1>4. fields = [g \in DOMAIN layout |-> fields[g]]
  BY <1>1
<1>5. Holds(layout, fields, f, first, width, fields[f])
  BY DEF Holds
<1>6. width = 32 => fields[f] \in Word32
  BY <1>2, <1>3, NumberKinds
<1>7. f = "dutyCycle" /\ width = 16 => fields[f] \in Short
  BY <1>2, <1>3, NumberKinds
<1>8. f # "dutyCycle" =>
              /\ width = 1 => fields[f] \in Bit
              /\ width = 2 => fields[f] \in Nat /\ fields[f] < 4
              /\ width = 8 => fields[f] \in Byte
              /\ width = 10 => fields[f] \in Ten
              /\ width = 12 => fields[f] \in Twelve
              /\ width = 16 => fields[f] \in Sixteen
              /\ width = 22 => fields[f] \in TwentyTwo
  BY <1>2, <1>3, NumberKinds
<1> QED BY <1>4, <1>5, <1>6, <1>7, <1>8

\* The contents of a field that the protocol fixes.
LEMMA FixedField ==
  ASSUME NEW layout, NEW fields \in Contents(layout), NEW f \in DOMAIN layout, f \in DOMAIN Fixed
  PROVE  /\ fields = [g \in DOMAIN layout |-> fields[g]]
         /\ fields[f] = Fixed[f]
PROOF
<1>1. PICK pick \in [DOMAIN layout -> Picks] :
        fields = [g \in DOMAIN layout |-> Content(g, layout[g][2], pick[g])]
  BY DEF Contents
<1> QED BY <1>1 DEF Content

\* A layout whose fields have widths the codec knows, the fixed ones the width
\* of their content.
Plain(layout) ==
  \A f \in DOMAIN layout :
    /\ layout[f] = <<layout[f][1], layout[f][2]>>
    /\ layout[f][2] \in Widths \union {32}
    /\ f = "dutyCycle" => layout[f][2] = 16
    /\ f \in DOMAIN Fixed => IF layout[f][2] = 32 THEN Fixed[f] \in Word32 ELSE Fixed[f] \in Int

\* Contents of a sound layout are values that its fields can hold.
LEMMA PlainFollows ==
  ASSUME NEW layout, Laid(layout), Plain(layout), NEW fields \in Contents(layout), NEW fill \in Bit,
         NEW n \in Nat
  PROVE  Follows(layout, fields, fill, n)
PROOF
<1>1. ASSUME NEW f \in DOMAIN layout
      PROVE  /\ layout[f][2] = 32 => fields[f] \in Word32
             /\ layout[f][2] # 32 => fields[f] \in Int
  <2> DEFINE first == layout[f][1]
             width == layout[f][2]
  <2>1. layout[f] = <<first, width>> /\ width \in Widths \union {32}
        /\ (f = "dutyCycle" => width = 16)
    BY DEF Plain
  <2> HIDE DEF first, width
  <2>2. CASE f \in DOMAIN Fixed
    <3>1. IF width = 32 THEN Fixed[f] \in Word32 ELSE Fixed[f] \in Int
      BY <2>2 DEF Plain, width
    <3>2. fields[f] = Fixed[f]
      BY <2>2, FixedField
    <3> QED BY <3>1, <3>2 DEF width
  <2>3. CASE f \notin DOMAIN Fixed
    <3>1. /\ width = 32 => fields[f] \in Word32
          /\ f = "dutyCycle" /\ width = 16 => fields[f] \in Short
          /\ f # "dutyCycle" =>
                /\ width = 1 => fields[f] \in Bit
                /\ width = 2 => fields[f] \in Nat /\ fields[f] < 4
                /\ width = 8 => fields[f] \in Byte
                /\ width = 10 => fields[f] \in Ten
                /\ width = 12 => fields[f] \in Twelve
                /\ width = 16 => fields[f] \in Sixteen
                /\ width = 22 => fields[f] \in TwentyTwo
      BY <2>3, <2>1, OpenField
    <3>2. \A v : v \in Short \union Bit \union Byte \union Ten \union Twelve \union Sixteen \union TwentyTwo
                  => v \in Int
      BY DEF Short, Bit, Byte, Ten, Twelve, Sixteen, TwentyTwo
    <3>3. width # 32 => fields[f] \in Int
      <4>1. CASE f = "dutyCycle"
        BY <2>1, <3>1, <3>2, <4>1
      <4>2. CASE f # "dutyCycle"
        BY <2>1, <3>1, <3>2, <4>2 DEF Widths
      <4> QED BY <4>1, <4>2
    <3> QED BY <3>1, <3>3 DEF width
  <2> QED BY <2>2, <2>3 DEF width
<1> QED BY <1>1 DEF Follows, Fit

\* The layouts of the reports are sound.
LEMMA ReportsLaid == \A name \in ReportNames : Laid(ReportLayout[name]) /\ Plain(ReportLayout[name])
PROOF
<1>1. Laid(ReportLayout["Status0"]) /\ Plain(ReportLayout["Status0"])
  <2>1. Laid(ReportLayout["Status0"])
    BY DEF ReportLayout, Laid
  <2>2. Plain(ReportLayout["Status0"])
    BY DEF ReportLayout, Plain, Fixed, Widths
  <2> QED BY <2>1, <2>2
<1>2. Laid(ReportLayout["Status1"]) /\ Plain(ReportLayout["Status1"])
  <2>1. Laid(ReportLayout["Status1"])
    BY DEF ReportLayout, Laid
  <2>2. Plain(ReportLayout["Status1"])
    BY DEF ReportLayout, Plain, Fixed, Widths
  <2> QED BY <2>1, <2>2
<1>3. Laid(ReportLayout["Status2"]) /\ Plain(ReportLayout["Status2"])
  <2>1. Laid(ReportLayout["Status2"])
    BY DEF ReportLayout, Laid
  <2>2. Plain(ReportLayout["Status2"])
    BY DEF ReportLayout, Plain, Fixed, Widths
  <2> QED BY <2>1, <2>2
<1>4. Laid(ReportLayout["Status3"]) /\ Plain(ReportLayout["Status3"])
  <2>1. Laid(ReportLayout["Status3"])
    BY DEF ReportLayout, Laid
  <2>2. Plain(ReportLayout["Status3"])
    BY DEF ReportLayout, Plain, Fixed, Widths
  <2> QED BY <2>1, <2>2
<1>5. Laid(ReportLayout["Status4"]) /\ Plain(ReportLayout["Status4"])
  <2>1. Laid(ReportLayout["Status4"])
    BY DEF ReportLayout, Laid
  <2>2. Plain(ReportLayout["Status4"])
    BY DEF ReportLayout, Plain, Fixed, Widths
  <2> QED BY <2>1, <2>2
<1>6. Laid(ReportLayout["Status5"]) /\ Plain(ReportLayout["Status5"])
  <2>1. Laid(ReportLayout["Status5"])
    BY DEF ReportLayout, Laid
  <2>2. Plain(ReportLayout["Status5"])
    BY DEF ReportLayout, Plain, Fixed, Widths
  <2> QED BY <2>1, <2>2
<1>7. Laid(ReportLayout["WriteResponse"]) /\ Plain(ReportLayout["WriteResponse"])
  <2>1. Laid(ReportLayout["WriteResponse"])
    BY DEF ReportLayout, Laid
  <2>2. Plain(ReportLayout["WriteResponse"])
    BY DEF ReportLayout, Plain, Fixed, Widths
  <2> QED BY <2>1, <2>2
<1>8. Laid(ReportLayout["Period0"]) /\ Plain(ReportLayout["Period0"])
  <2>1. Laid(ReportLayout["Period0"])
    BY DEF ReportLayout, Laid
  <2>2. Plain(ReportLayout["Period0"])
    BY DEF ReportLayout, Plain, Fixed, Widths
  <2> QED BY <2>1, <2>2
<1>9. Laid(ReportLayout["Period1"]) /\ Plain(ReportLayout["Period1"])
  <2>1. Laid(ReportLayout["Period1"])
    BY DEF ReportLayout, Laid
  <2>2. Plain(ReportLayout["Period1"])
    BY DEF ReportLayout, Plain, Fixed, Widths
  <2> QED BY <2>1, <2>2
<1>10. Laid(ReportLayout["Period2"]) /\ Plain(ReportLayout["Period2"])
  <2>1. Laid(ReportLayout["Period2"])
    BY DEF ReportLayout, Laid
  <2>2. Plain(ReportLayout["Period2"])
    BY DEF ReportLayout, Plain, Fixed, Widths
  <2> QED BY <2>1, <2>2
<1>11. Laid(ReportLayout["Period3"]) /\ Plain(ReportLayout["Period3"])
  <2>1. Laid(ReportLayout["Period3"])
    BY DEF ReportLayout, Laid
  <2>2. Plain(ReportLayout["Period3"])
    BY DEF ReportLayout, Plain, Fixed, Widths
  <2> QED BY <2>1, <2>2
<1>12. Laid(ReportLayout["Period4"]) /\ Plain(ReportLayout["Period4"])
  <2>1. Laid(ReportLayout["Period4"])
    BY DEF ReportLayout, Laid
  <2>2. Plain(ReportLayout["Period4"])
    BY DEF ReportLayout, Plain, Fixed, Widths
  <2> QED BY <2>1, <2>2
<1>13. Laid(ReportLayout["Firmware"]) /\ Plain(ReportLayout["Firmware"])
  <2>1. Laid(ReportLayout["Firmware"])
    BY DEF ReportLayout, Laid
  <2>2. Plain(ReportLayout["Firmware"])
    BY DEF ReportLayout, Plain, Fixed, Widths
  <2> QED BY <2>1, <2>2
<1>14. Laid(ReportLayout["Answer"]) /\ Plain(ReportLayout["Answer"])
  <2>1. Laid(ReportLayout["Answer"])
    BY DEF ReportLayout, Laid
  <2>2. Plain(ReportLayout["Answer"])
    BY DEF ReportLayout, Plain, Fixed, Widths
  <2> QED BY <2>1, <2>2
<1> QED BY <1>1, <1>2, <1>3, <1>4, <1>5, <1>6, <1>7, <1>8, <1>9, <1>10, <1>11, <1>12, <1>13, <1>14 DEF ReportNames

\* Status0 is decoded as it was meant.
LEMMA Status0Read ==
  ASSUME NEW fields \in Contents(ReportLayout["Status0"]), NEW fill \in Bit
  PROVE  DecodeStatus0(Packed(ReportLayout["Status0"], 8, fields, fill)) = Told("Status0", fields)
PROOF
<1> DEFINE L == ReportLayout["Status0"]
           P == Packed(L, 8, fields, fill)
<1>1. L =
        [dutyCycle |-> <<0, 16>>, voltage |-> <<16, 12>>, current |-> <<28, 12>>,
         temperature |-> <<40, 8>>]
  BY DEF ReportLayout
<1>2. Follows(L, fields, fill, 8)
  BY ReportsLaid, PlainFollows DEF ReportNames
<1> HIDE DEF L
<1>3. /\ Holds(L, fields, "dutyCycle", 0, 16, fields["dutyCycle"]) /\ fields["dutyCycle"] \in Short
      /\ Holds(L, fields, "voltage", 16, 12, fields["voltage"]) /\ fields["voltage"] \in Twelve
      /\ Holds(L, fields, "current", 28, 12, fields["current"]) /\ fields["current"] \in Twelve
      /\ Holds(L, fields, "temperature", 40, 8, fields["temperature"]) /\ fields["temperature"] \in Byte
      /\ fields = [g \in DOMAIN L |-> fields[g]]
  BY <1>1, OpenField DEF Fixed, L
<1>4. fields =
        [dutyCycle |-> fields["dutyCycle"], voltage |-> fields["voltage"],
         current |-> fields["current"], temperature |-> fields["temperature"]]
  BY <1>1, <1>3
<1>5. Signed16(Bits(P, 0, 16)) = fields["dutyCycle"]
  <2>1. Bits(P, 0, 16) = fields["dutyCycle"] % 65536
    BY <1>2, <1>3, GetHalf
  <2> HIDE DEF P
  <2> QED BY <1>3, <2>1, SignedShort
<1>6. Bits(P, 16, 12) = fields["voltage"]
  BY <1>2, <1>3, GetLow
<1>7. Bits(P, 28, 12) = fields["current"]
  BY <1>2, <1>3, GetHigh
<1>8. Bits(P, 40, 8) = fields["temperature"]
  BY <1>2, <1>3, GetByte
<1> HIDE DEF P
<1>9. DecodeStatus0(P) =
        [dutyCycle |-> fields["dutyCycle"], voltage |-> fields["voltage"],
         current |-> fields["current"], temperature |-> fields["temperature"]]
  BY <1>5, <1>6, <1>7, <1>8 DEF DecodeStatus0
<1>10. Told("Status0", fields) = fields
  BY DEF Told
<1>11. DecodeStatus0(P) = Told("Status0", fields)
  BY <1>4, <1>9, <1>10, Zenon
<1> QED BY <1>11 DEF P, L

\* Status1 is decoded as it was meant.
LEMMA Status1Read ==
  ASSUME NEW fields \in Contents(ReportLayout["Status1"]), NEW fill \in Bit
  PROVE  DecodeStatus1(Packed(ReportLayout["Status1"], 8, fields, fill)) = Told("Status1", fields)
PROOF
<1> DEFINE L == ReportLayout["Status1"]
           P == Packed(L, 8, fields, fill)
<1>1. L =
        [faults |-> <<0, 8>>, warnings |-> <<16, 8>>, stickyFaults |-> <<24, 8>>,
         stickyWarnings |-> <<40, 8>>]
  BY DEF ReportLayout
<1>2. Follows(L, fields, fill, 8)
  BY ReportsLaid, PlainFollows DEF ReportNames
<1> HIDE DEF L
<1>3. /\ Holds(L, fields, "faults", 0, 8, fields["faults"]) /\ fields["faults"] \in Byte
      /\ Holds(L, fields, "warnings", 16, 8, fields["warnings"]) /\ fields["warnings"] \in Byte
      /\ Holds(L, fields, "stickyFaults", 24, 8, fields["stickyFaults"]) /\ fields["stickyFaults"] \in Byte
      /\ Holds(L, fields, "stickyWarnings", 40, 8, fields["stickyWarnings"]) /\ fields["stickyWarnings"] \in Byte
      /\ fields = [g \in DOMAIN L |-> fields[g]]
  BY <1>1, OpenField DEF Fixed, L
<1>4. fields =
        [faults |-> fields["faults"], warnings |-> fields["warnings"],
         stickyFaults |-> fields["stickyFaults"], stickyWarnings |-> fields["stickyWarnings"]]
  BY <1>1, <1>3
<1>5. Bits(P, 0, 8) = fields["faults"]
  BY <1>2, <1>3, GetByte
<1>6. Bits(P, 16, 8) = fields["warnings"]
  BY <1>2, <1>3, GetByte
<1>7. Bits(P, 24, 8) = fields["stickyFaults"]
  BY <1>2, <1>3, GetByte
<1>8. Bits(P, 40, 8) = fields["stickyWarnings"]
  BY <1>2, <1>3, GetByte
<1> HIDE DEF P
<1>9. DecodeStatus1(P) = Told("Status1", fields)
  BY <1>5, <1>6, <1>7, <1>8 DEF DecodeStatus1, Told, Join16
<1> QED BY <1>9 DEF P, L

\* Status2 is decoded as it was meant.
LEMMA Status2Read ==
  ASSUME NEW fields \in Contents(ReportLayout["Status2"]), NEW fill \in Bit
  PROVE  DecodeStatus2(Packed(ReportLayout["Status2"], 8, fields, fill)) = Told("Status2", fields)
PROOF
<1> DEFINE L == ReportLayout["Status2"]
           P == Packed(L, 8, fields, fill)
<1>1. L = [velocity |-> <<0, 32>>, position |-> <<32, 32>>]
  BY DEF ReportLayout
<1>2. Follows(L, fields, fill, 8)
  BY ReportsLaid, PlainFollows DEF ReportNames
<1> HIDE DEF L
<1>3. /\ Holds(L, fields, "velocity", 0, 32, fields["velocity"])
      /\ Holds(L, fields, "position", 32, 32, fields["position"])
      /\ fields = [g \in DOMAIN L |-> fields[g]]
  BY <1>1, OpenField DEF Fixed, L
<1>4. fields = [velocity |-> fields["velocity"], position |-> fields["position"]]
  BY <1>1, <1>3
<1>5. FloatAt(P, 0) = fields["velocity"]
  BY <1>2, <1>3, GetWord
<1>6. FloatAt(P, 4) = fields["position"]
  BY <1>2, <1>3, GetWord
<1> HIDE DEF P
<1>7. DecodeStatus2(P) = [velocity |-> fields["velocity"], position |-> fields["position"]]
  BY <1>5, <1>6 DEF DecodeStatus2
<1>8. Told("Status2", fields) = fields
  BY DEF Told
<1>9. DecodeStatus2(P) = Told("Status2", fields)
  BY <1>4, <1>7, <1>8, Zenon
<1> QED BY <1>9 DEF P, L

\* Status3 is decoded as it was meant.
LEMMA Status3Read ==
  ASSUME NEW fields \in Contents(ReportLayout["Status3"]), NEW fill \in Bit
  PROVE  DecodeStatus3(Packed(ReportLayout["Status3"], 8, fields, fill)) = Told("Status3", fields)
PROOF
<1> DEFINE L == ReportLayout["Status3"]
           P == Packed(L, 8, fields, fill)
<1>1. L = [analogPosition |-> <<32, 32>>]
  BY DEF ReportLayout
<1>2. Follows(L, fields, fill, 8)
  BY ReportsLaid, PlainFollows DEF ReportNames
<1> HIDE DEF L
<1>3. /\ Holds(L, fields, "analogPosition", 32, 32, fields["analogPosition"])
      /\ fields = [g \in DOMAIN L |-> fields[g]]
  BY <1>1, OpenField DEF Fixed, L
<1>4. fields = [analogPosition |-> fields["analogPosition"]]
  BY <1>1, <1>3
<1>5. FloatAt(P, 4) = fields["analogPosition"]
  BY <1>2, <1>3, GetWord
<1> HIDE DEF P
<1>6. DecodeStatus3(P) = [analogPosition |-> fields["analogPosition"]]
  BY <1>5 DEF DecodeStatus3
<1>7. Told("Status3", fields) = fields
  BY DEF Told
<1>8. DecodeStatus3(P) = Told("Status3", fields)
  BY <1>4, <1>6, <1>7, Zenon
<1> QED BY <1>8 DEF P, L

\* Status4 is decoded as it was meant.
LEMMA Status4Read ==
  ASSUME NEW fields \in Contents(ReportLayout["Status4"]), NEW fill \in Bit
  PROVE  DecodeStatus4(Packed(ReportLayout["Status4"], 8, fields, fill)) = Told("Status4", fields)
PROOF
<1> DEFINE L == ReportLayout["Status4"]
           P == Packed(L, 8, fields, fill)
<1>1. L = [altEncoderVelocity |-> <<0, 32>>, altEncoderPosition |-> <<32, 32>>]
  BY DEF ReportLayout
<1>2. Follows(L, fields, fill, 8)
  BY ReportsLaid, PlainFollows DEF ReportNames
<1> HIDE DEF L
<1>3. /\ Holds(L, fields, "altEncoderVelocity", 0, 32, fields["altEncoderVelocity"])
      /\ Holds(L, fields, "altEncoderPosition", 32, 32, fields["altEncoderPosition"])
      /\ fields = [g \in DOMAIN L |-> fields[g]]
  BY <1>1, OpenField DEF Fixed, L
<1>4. fields =
        [altEncoderVelocity |-> fields["altEncoderVelocity"],
         altEncoderPosition |-> fields["altEncoderPosition"]]
  BY <1>1, <1>3
<1>5. FloatAt(P, 0) = fields["altEncoderVelocity"]
  BY <1>2, <1>3, GetWord
<1>6. FloatAt(P, 4) = fields["altEncoderPosition"]
  BY <1>2, <1>3, GetWord
<1> HIDE DEF P
<1>7. DecodeStatus4(P) =
        [altEncoderVelocity |-> fields["altEncoderVelocity"],
         altEncoderPosition |-> fields["altEncoderPosition"]]
  BY <1>5, <1>6 DEF DecodeStatus4
<1>8. Told("Status4", fields) = fields
  BY DEF Told
<1>9. DecodeStatus4(P) = Told("Status4", fields)
  BY <1>4, <1>7, <1>8, Zenon
<1> QED BY <1>9 DEF P, L

\* Status5 is decoded as it was meant.
LEMMA Status5Read ==
  ASSUME NEW fields \in Contents(ReportLayout["Status5"]), NEW fill \in Bit
  PROVE  DecodeStatus5(Packed(ReportLayout["Status5"], 8, fields, fill)) = Told("Status5", fields)
PROOF
<1> DEFINE L == ReportLayout["Status5"]
           P == Packed(L, 8, fields, fill)
<1>1. L = [absVelocity |-> <<0, 32>>, absPosition |-> <<32, 32>>]
  BY DEF ReportLayout
<1>2. Follows(L, fields, fill, 8)
  BY ReportsLaid, PlainFollows DEF ReportNames
<1> HIDE DEF L
<1>3. /\ Holds(L, fields, "absVelocity", 0, 32, fields["absVelocity"])
      /\ Holds(L, fields, "absPosition", 32, 32, fields["absPosition"])
      /\ fields = [g \in DOMAIN L |-> fields[g]]
  BY <1>1, OpenField DEF Fixed, L
<1>4. fields = [absVelocity |-> fields["absVelocity"], absPosition |-> fields["absPosition"]]
  BY <1>1, <1>3
<1>5. FloatAt(P, 0) = fields["absVelocity"]
  BY <1>2, <1>3, GetWord
<1>6. FloatAt(P, 4) = fields["absPosition"]
  BY <1>2, <1>3, GetWord
<1> HIDE DEF P
<1>7. DecodeStatus5(P) =
        [absVelocity |-> fields["absVelocity"], absPosition |-> fields["absPosition"]]
  BY <1>5, <1>6 DEF DecodeStatus5
<1>8. Told("Status5", fields) = fields
  BY DEF Told
<1>9. DecodeStatus5(P) = Told("Status5", fields)
  BY <1>4, <1>7, <1>8, Zenon
<1> QED BY <1>9 DEF P, L

\* WriteResponse is decoded as it was meant.
LEMMA WriteResponseRead ==
  ASSUME NEW fields \in Contents(ReportLayout["WriteResponse"]), NEW fill \in Bit
  PROVE  DecodeParamWriteResponse(Packed(ReportLayout["WriteResponse"], 7, fields, fill)) = Told("WriteResponse", fields)
PROOF
<1> DEFINE L == ReportLayout["WriteResponse"]
           P == Packed(L, 7, fields, fill)
<1>1. L = [paramId |-> <<0, 8>>, value |-> <<16, 32>>, resultCode |-> <<48, 8>>]
  BY DEF ReportLayout
<1>2. Follows(L, fields, fill, 7)
  BY ReportsLaid, PlainFollows DEF ReportNames
<1> HIDE DEF L
<1>3. /\ Holds(L, fields, "paramId", 0, 8, fields["paramId"]) /\ fields["paramId"] \in Byte
      /\ Holds(L, fields, "value", 16, 32, fields["value"])
      /\ Holds(L, fields, "resultCode", 48, 8, fields["resultCode"]) /\ fields["resultCode"] \in Byte
      /\ fields = [g \in DOMAIN L |-> fields[g]]
  BY <1>1, OpenField DEF Fixed, L
<1>4. fields =
        [paramId |-> fields["paramId"], value |-> fields["value"],
         resultCode |-> fields["resultCode"]]
  BY <1>1, <1>3
<1>5. P[1] = fields["paramId"]
  BY <1>2, <1>3, GetByte
<1>6. P[7] = fields["resultCode"]
  BY <1>2, <1>3, GetByte
<1> HIDE DEF P
<1>7. DecodeParamWriteResponse(P) = Told("WriteResponse", fields)
  BY <1>5, <1>6 DEF DecodeParamWriteResponse, Told
<1> QED BY <1>7 DEF P, L

\* Period0 is decoded as it was meant.
LEMMA Period0Read ==
  ASSUME NEW fields \in Contents(ReportLayout["Period0"]), NEW fill \in Bit
  PROVE  DecodePeriod0(Packed(ReportLayout["Period0"], 8, fields, fill)) = Told("Period0", fields)
PROOF
<1> DEFINE L == ReportLayout["Period0"]
           P == Packed(L, 8, fields, fill)
<1>1. L =
        [dutyCycle |-> <<0, 16>>, faults |-> <<16, 16>>, stickyFaults |-> <<32, 16>>,
         isInverted |-> <<49, 1>>, idleMode |-> <<57, 1>>, isFollower |-> <<58, 1>>]
  BY DEF ReportLayout
<1>2. Follows(L, fields, fill, 8)
  BY ReportsLaid, PlainFollows DEF ReportNames
<1> HIDE DEF L
<1>3. /\ Holds(L, fields, "dutyCycle", 0, 16, fields["dutyCycle"]) /\ fields["dutyCycle"] \in Short
      /\ Holds(L, fields, "faults", 16, 16, fields["faults"]) /\ fields["faults"] \in Sixteen
      /\ Holds(L, fields, "stickyFaults", 32, 16, fields["stickyFaults"]) /\ fields["stickyFaults"] \in Sixteen
      /\ Holds(L, fields, "isInverted", 49, 1, fields["isInverted"]) /\ fields["isInverted"] \in Bit
      /\ Holds(L, fields, "idleMode", 57, 1, fields["idleMode"]) /\ fields["idleMode"] \in Bit
      /\ Holds(L, fields, "isFollower", 58, 1, fields["isFollower"]) /\ fields["isFollower"] \in Bit
      /\ fields = [g \in DOMAIN L |-> fields[g]]
  BY <1>1, OpenField DEF Fixed, L
<1>4. fields =
        [dutyCycle |-> fields["dutyCycle"], faults |-> fields["faults"],
         stickyFaults |-> fields["stickyFaults"], isInverted |-> fields["isInverted"],
         idleMode |-> fields["idleMode"], isFollower |-> fields["isFollower"]]
  BY <1>1, <1>3
<1>5. Signed16(Bits(P, 0, 16)) = fields["dutyCycle"]
  <2>1. Bits(P, 0, 16) = fields["dutyCycle"] % 65536
    BY <1>2, <1>3, GetHalf
  <2> HIDE DEF P
  <2> QED BY <1>3, <2>1, SignedShort
<1>6. Bits(P, 16, 16) = fields["faults"]
  <2>1. Bits(P, 16, 16) = fields["faults"] % 65536
    BY <1>2, <1>3, GetHalf
  <2>2. fields["faults"] % 65536 = fields["faults"]
    BY <1>3 DEF Sixteen
  <2> HIDE DEF P
  <2> QED BY <2>1, <2>2
<1>7. Bits(P, 32, 16) = fields["stickyFaults"]
  <2>1. Bits(P, 32, 16) = fields["stickyFaults"] % 65536
    BY <1>2, <1>3, GetHalf
  <2>2. fields["stickyFaults"] % 65536 = fields["stickyFaults"]
    BY <1>3 DEF Sixteen
  <2> HIDE DEF P
  <2> QED BY <2>1, <2>2
<1>8. Bits(P, 49, 1) = fields["isInverted"]
  BY <1>2, <1>3, GetBit
<1>9. Bits(P, 57, 1) = fields["idleMode"]
  BY <1>2, <1>3, GetBit
<1>10. Bits(P, 58, 1) = fields["isFollower"]
  BY <1>2, <1>3, GetBit
<1> HIDE DEF P
<1>11. DecodePeriod0(P) =
         [dutyCycle |-> fields["dutyCycle"], faults |-> fields["faults"],
          stickyFaults |-> fields["stickyFaults"], isInverted |-> fields["isInverted"],
          idleMode |-> fields["idleMode"], isFollower |-> fields["isFollower"]]
  BY <1>5, <1>6, <1>7, <1>8, <1>9, <1>10 DEF DecodePeriod0
<1>12. Told("Period0", fields) = fields
  BY DEF Told
<1>13. DecodePeriod0(P) = Told("Period0", fields)
  BY <1>4, <1>11, <1>12, Zenon
<1> QED BY <1>13 DEF P, L

\* Period1 is decoded as it was meant.
LEMMA Period1Read ==
  ASSUME NEW fields \in Contents(ReportLayout["Period1"]), NEW fill \in Bit
  PROVE  DecodePeriod1(Packed(ReportLayout["Period1"], 8, fields, fill)) = Told("Period1", fields)
PROOF
<1> DEFINE L == ReportLayout["Period1"]
           P == Packed(L, 8, fields, fill)
<1>1. L =
        [velocity |-> <<0, 32>>, temperature |-> <<32, 8>>, voltage |-> <<40, 12>>,
         current |-> <<52, 12>>]
  BY DEF ReportLayout
<1>2. Follows(L, fields, fill, 8)
  BY ReportsLaid, PlainFollows DEF ReportNames
<1> HIDE DEF L
<1>3. /\ Holds(L, fields, "velocity", 0, 32, fields["velocity"])
      /\ Holds(L, fields, "temperature", 32, 8, fields["temperature"]) /\ fields["temperature"] \in Byte
      /\ Holds(L, fields, "voltage", 40, 12, fields["voltage"]) /\ fields["voltage"] \in Twelve
      /\ Holds(L, fields, "current", 52, 12, fields["current"]) /\ fields["current"] \in Twelve
      /\ fields = [g \in DOMAIN L |-> fields[g]]
  BY <1>1, OpenField DEF Fixed, L
<1>4. fields =
        [velocity |-> fields["velocity"], temperature |-> fields["temperature"],
         voltage |-> fields["voltage"], current |-> fields["current"]]
  BY <1>1, <1>3
<1>5. FloatAt(P, 0) = fields["velocity"]
  BY <1>2, <1>3, GetWord
<1>6. Bits(P, 32, 8) = fields["temperature"]
  BY <1>2, <1>3, GetByte
<1>7. Bits(P, 40, 12) = fields["voltage"]
  BY <1>2, <1>3, GetLow
<1>8. Bits(P, 52, 12) = fields["current"]
  BY <1>2, <1>3, GetHigh
<1> HIDE DEF P
<1>9. DecodePeriod1(P) =
        [velocity |-> fields["velocity"], temperature |-> fields["temperature"],
         voltage |-> fields["voltage"], current |-> fields["current"]]
  BY <1>5, <1>6, <1>7, <1>8 DEF DecodePeriod1
<1>10. Told("Period1", fields) = fields
  BY DEF Told
<1>11. DecodePeriod1(P) = Told("Period1", fields)
  BY <1>4, <1>9, <1>10, Zenon
<1> QED BY <1>11 DEF P, L

\* Period2 is decoded as it was meant.
LEMMA Period2Read ==
  ASSUME NEW fields \in Contents(ReportLayout["Period2"]), NEW fill \in Bit
  PROVE  DecodePeriod2(Packed(ReportLayout["Period2"], 8, fields, fill)) = Told("Period2", fields)
PROOF
<1> DEFINE L == ReportLayout["Period2"]
           P == Packed(L, 8, fields, fill)
<1>1. L = [position |-> <<0, 32>>, iAccum |-> <<32, 32>>]
  BY DEF ReportLayout
<1>2. Follows(L, fields, fill, 8)
  BY ReportsLaid, PlainFollows DEF ReportNames
<1> HIDE DEF L
<1>3. /\ Holds(L, fields, "position", 0, 32, fields["position"])
      /\ Holds(L, fields, "iAccum", 32, 32, fields["iAccum"])
      /\ fields = [g \in DOMAIN L |-> fields[g]]
  BY <1>1, OpenField DEF Fixed, L
<1>4. fields = [position |-> fields["position"], iAccum |-> fields["iAccum"]]
  BY <1>1, <1>3
<1>5. FloatAt(P, 0) = fields["position"]
  BY <1>2, <1>3, GetWord
<1>6. FloatAt(P, 4) = fields["iAccum"]
  BY <1>2, <1>3, GetWord
<1> HIDE DEF P
<1>7. DecodePeriod2(P) = [position |-> fields["position"], iAccum |-> fields["iAccum"]]
  BY <1>5, <1>6 DEF DecodePeriod2
<1>8. Told("Period2", fields) = fields
  BY DEF Told
<1>9. DecodePeriod2(P) = Told("Period2", fields)
  BY <1>4, <1>7, <1>8, Zenon
<1> QED BY <1>9 DEF P, L

\* Period4 is decoded as it was meant.
LEMMA Period4Read ==
  ASSUME NEW fields \in Contents(ReportLayout["Period4"]), NEW fill \in Bit
  PROVE  DecodePeriod4(Packed(ReportLayout["Period4"], 8, fields, fill)) = Told("Period4", fields)
PROOF
<1> DEFINE L == ReportLayout["Period4"]
           P == Packed(L, 8, fields, fill)
<1>1. L = [altEncoderVelocity |-> <<0, 32>>, altEncoderPosition |-> <<32, 32>>]
  BY DEF ReportLayout
<1>2. Follows(L, fields, fill, 8)
  BY ReportsLaid, PlainFollows DEF ReportNames
<1> HIDE DEF L
<1>3. /\ Holds(L, fields, "altEncoderVelocity", 0, 32, fields["altEncoderVelocity"])
      /\ Holds(L, fields, "altEncoderPosition", 32, 32, fields["altEncoderPosition"])
      /\ fields = [g \in DOMAIN L |-> fields[g]]
  BY <1>1, OpenField DEF Fixed, L
<1>4. fields =
        [altEncoderVelocity |-> fields["altEncoderVelocity"],
         altEncoderPosition |-> fields["altEncoderPosition"]]
  BY <1>1, <1>3
<1>5. FloatAt(P, 0) = fields["altEncoderVelocity"]
  BY <1>2, <1>3, GetWord
<1>6. FloatAt(P, 4) = fields["altEncoderPosition"]
  BY <1>2, <1>3, GetWord
<1> HIDE DEF P
<1>7. DecodePeriod4(P) =
        [altEncoderVelocity |-> fields["altEncoderVelocity"],
         altEncoderPosition |-> fields["altEncoderPosition"]]
  BY <1>5, <1>6 DEF DecodePeriod4
<1>8. Told("Period4", fields) = fields
  BY DEF Told
<1>9. DecodePeriod4(P) = Told("Period4", fields)
  BY <1>4, <1>7, <1>8, Zenon
<1> QED BY <1>9 DEF P, L

\* Firmware is decoded as it was meant.
LEMMA FirmwareRead ==
  ASSUME NEW fields \in Contents(ReportLayout["Firmware"]), NEW fill \in Bit
  PROVE  DecodeFirmware(Packed(ReportLayout["Firmware"], 8, fields, fill)) = Told("Firmware", fields)
PROOF
<1> DEFINE L == ReportLayout["Firmware"]
           P == Packed(L, 8, fields, fill)
<1>1. L =
        [major |-> <<0, 8>>, minor |-> <<8, 8>>, buildHigh |-> <<16, 8>>, buildLow |-> <<24, 8>>,
         debug |-> <<32, 8>>]
  BY DEF ReportLayout
<1>2. Follows(L, fields, fill, 8)
  BY ReportsLaid, PlainFollows DEF ReportNames
<1> HIDE DEF L
<1>3. /\ Holds(L, fields, "major", 0, 8, fields["major"]) /\ fields["major"] \in Byte
      /\ Holds(L, fields, "minor", 8, 8, fields["minor"]) /\ fields["minor"] \in Byte
      /\ Holds(L, fields, "buildHigh", 16, 8, fields["buildHigh"]) /\ fields["buildHigh"] \in Byte
      /\ Holds(L, fields, "buildLow", 24, 8, fields["buildLow"]) /\ fields["buildLow"] \in Byte
      /\ Holds(L, fields, "debug", 32, 8, fields["debug"]) /\ fields["debug"] \in Byte
      /\ fields = [g \in DOMAIN L |-> fields[g]]
  BY <1>1, OpenField DEF Fixed, L
<1>4. fields =
        [major |-> fields["major"], minor |-> fields["minor"], buildHigh |-> fields["buildHigh"],
         buildLow |-> fields["buildLow"], debug |-> fields["debug"]]
  BY <1>1, <1>3
<1>5. P[1] = fields["major"]
  BY <1>2, <1>3, GetByte
<1>6. P[2] = fields["minor"]
  BY <1>2, <1>3, GetByte
<1>7. P[3] = fields["buildHigh"]
  BY <1>2, <1>3, GetByte
<1>8. P[4] = fields["buildLow"]
  BY <1>2, <1>3, GetByte
<1>9. P[5] = fields["debug"]
  BY <1>2, <1>3, GetByte
<1> HIDE DEF P
<1>10. Join16(fields["buildLow"], fields["buildHigh"]) = (256 * fields["buildHigh"]) + fields["buildLow"]
  <2>1. \A a, b \in Int : Join16(a, b) = (256 * b) + a
    BY DEF Join16
  <2>2. \A a \in Byte : a \in Int
    BY DEF Byte
  <2> QED BY <1>3, <2>1, <2>2
<1>11. DecodeFirmware(P) = Told("Firmware", fields)
  BY <1>5, <1>6, <1>7, <1>8, <1>9, <1>10 DEF DecodeFirmware, Told
<1> QED BY <1>11 DEF P, L

\* The bytes of an answer hold its value and its type.
LEMMA AnswerRead ==
  ASSUME NEW fields \in Contents(ReportLayout["Answer"]), NEW fill \in Bit
  PROVE  LET P == Packed(ReportLayout["Answer"], 8, fields, fill) IN
         FloatAt(P, 0) = fields["value"] /\ RawByte(P, 4) = fields["type"]
           /\ RawByte(P, 0) = fields["value"][1]
PROOF
<1> DEFINE L == ReportLayout["Answer"]
           P == Packed(L, 8, fields, fill)
<1>1. L = [value |-> <<0, 32>>, type |-> <<32, 8>>]
  BY DEF ReportLayout
<1>2. Follows(L, fields, fill, 8)
  BY ReportsLaid, PlainFollows DEF ReportNames
<1> HIDE DEF L
<1>3. /\ Holds(L, fields, "value", 0, 32, fields["value"])
      /\ Holds(L, fields, "type", 32, 8, fields["type"]) /\ fields["type"] \in Byte
      /\ fields = [g \in DOMAIN L |-> fields[g]]
  BY <1>1, OpenField DEF Fixed, L
<1>4. fields = [value |-> fields["value"], type |-> fields["type"]]
  BY <1>1, <1>3
<1>5. FloatAt(P, 0) = fields["value"]
  BY <1>2, <1>3, GetWord
<1>6. RawByte(P, 4) = fields["type"]
  BY <1>2, <1>3, GetByte
<1>7. RawByte(P, 0) = fields["value"][1]
  BY <1>5 DEF FloatAt
<1> QED BY <1>5, <1>6, <1>7 DEF P, L

\* The analog voltage of Status 3: a byte and the lowest two bits of the next.
LEMMA GetTen ==
  ASSUME NEW layout, NEW fields, NEW fill, NEW n, Follows(layout, fields, fill, n),
         NEW f, NEW v \in Ten, Holds(layout, fields, f, 0, 10, v), 2 <= n
  PROVE  LET P == Packed(layout, n, fields, fill) IN
         RawByte(P, 0) + ((RawByte(P, 1) % 4) * 256) = v
PROOF
<1> DEFINE P == Packed(layout, n, fields, fill)
           first == 0
           width == 10
           zero == 0
           one == 1
           b(j) == PackedBit(layout, fields, fill, (8 * one) + j)
<1>1. Laid(layout) /\ Fit(layout, fields) /\ fill \in Bit /\ n \in Nat
  BY DEF Follows
<1>2. /\ first \in Nat /\ width \in Nat /\ width # 32 /\ Holds(layout, fields, f, first, width, v)
      /\ zero \in Nat /\ zero < n /\ one \in Nat /\ one < n
      /\ zero \in Offsets /\ 8 * zero = first + zero /\ zero + 8 <= width
      /\ 8 \in 0..(width - 1) /\ 9 \in 0..(width - 1)
      /\ (8 * one) + 0 = first + 8 /\ (8 * one) + 1 = first + 9
  BY <1>1 DEF Offsets
<1> HIDE DEF first, width, zero, one
<1>3. Reads(layout, fields, fill, first, width, v)
  BY <1>1, <1>2, HeldByte, Zenon
<1>4. RawByte(P, zero) = Slice(v, zero)
  <2>1. PackedByte(layout, fields, fill, zero) = Slice(v, zero)
    BY <1>2, <1>3 DEF Reads
  <2>2. RawByte(P, zero) = PackedByte(layout, fields, fill, zero)
    BY <1>1, <1>2, RawBytes, Zenon
  <2> QED BY <2>1, <2>2
<1>5. b(0) = BitAt(v, 8) /\ b(1) = BitAt(v, 9)
  BY <1>2, <1>3 DEF Reads
<1>6. RawByte(P, one) % 4 = b(0) + (2 * b(1))
  <2>1. RawByte(P, one) = PackedByte(layout, fields, fill, one)
    BY <1>1, <1>2, RawBytes, Zenon
  <2>2. PackedByte(layout, fields, fill, one) % 4 = b(0) + (2 * b(1))
    BY <1>1, <1>2, Parts
  <2> HIDE DEF b
  <2> QED BY <2>1, <2>2
<1> HIDE DEF b, P
<1>7. BitAt(v, 8) + (2 * BitAt(v, 9)) = v \div 256
  BY DEF BitAt, Ten
<1>8. RawByte(P, one) % 4 = v \div 256
  BY <1>5, <1>6, <1>7
<1>9. Slice(v, 0) + ((v \div 256) * 256) = v
  BY DEF Slice, Ten
<1> QED BY <1>4, <1>8, <1>9 DEF P, zero, one

\* Its analog velocity: the upper six bits of a byte and the next two bytes.
LEMMA GetTwentyTwo ==
  ASSUME NEW layout, NEW fields, NEW fill, NEW n, Follows(layout, fields, fill, n),
         NEW f, NEW v \in TwentyTwo, Holds(layout, fields, f, 10, 22, v), 4 <= n
  PROVE  LET P == Packed(layout, n, fields, fill) IN
         ((RawByte(P, 1) \div 4) % 64) + (RawByte(P, 2) * 64) + (RawByte(P, 3) * 16384) = v
PROOF
<1> DEFINE P == Packed(layout, n, fields, fill)
           first == 10
           width == 22
           one == 1
           two == 2
           three == 3
           b(j) == PackedBit(layout, fields, fill, (8 * one) + j)
<1>1. Laid(layout) /\ Fit(layout, fields) /\ fill \in Bit /\ n \in Nat
  BY DEF Follows
<1>2. /\ first \in Nat /\ width \in Nat /\ width # 32 /\ Holds(layout, fields, f, first, width, v)
      /\ one \in Nat /\ one < n /\ two \in Nat /\ two < n /\ three \in Nat /\ three < n
      /\ 6 \in Offsets /\ 8 * two = first + 6 /\ 6 + 8 <= width
      /\ 14 \in Offsets /\ 8 * three = first + 14 /\ 14 + 8 <= width
      /\ \A k \in 0..5 : k \in 0..(width - 1)
      /\ (8 * one) + 2 = first + 0 /\ (8 * one) + 3 = first + 1 /\ (8 * one) + 4 = first + 2
      /\ (8 * one) + 5 = first + 3 /\ (8 * one) + 6 = first + 4 /\ (8 * one) + 7 = first + 5
  BY <1>1 DEF Offsets
<1> HIDE DEF first, width, one, two, three
<1>3. Reads(layout, fields, fill, first, width, v)
  BY <1>1, <1>2, HeldByte, Zenon
<1>4. RawByte(P, two) = Slice(v, 6) /\ RawByte(P, three) = Slice(v, 14)
  <2>1. PackedByte(layout, fields, fill, two) = Slice(v, 6)
    BY <1>2, <1>3 DEF Reads
  <2>2. RawByte(P, two) = PackedByte(layout, fields, fill, two)
    BY <1>1, <1>2, RawBytes, Zenon
  <2>3. PackedByte(layout, fields, fill, three) = Slice(v, 14)
    BY <1>2, <1>3 DEF Reads
  <2>4. RawByte(P, three) = PackedByte(layout, fields, fill, three)
    BY <1>1, <1>2, RawBytes, Zenon
  <2> QED BY <2>1, <2>2, <2>3, <2>4
<1>5. /\ b(2) = BitAt(v, 0) /\ b(3) = BitAt(v, 1) /\ b(4) = BitAt(v, 2)
      /\ b(5) = BitAt(v, 3) /\ b(6) = BitAt(v, 4) /\ b(7) = BitAt(v, 5)
  <2>1. \A k \in 0..5 : PackedBit(layout, fields, fill, first + k) = BitAt(v, k)
    BY <1>2, <1>3 DEF Reads
  <2> QED BY <1>2, <2>1
<1>6. RawByte(P, one) \div 4 = b(2) + (2 * b(3)) + (4 * b(4)) + (8 * b(5)) + (16 * b(6)) + (32 * b(7))
  <2>1. RawByte(P, one) = PackedByte(layout, fields, fill, one)
    BY <1>1, <1>2, RawBytes, Zenon
  <2>2. PackedByte(layout, fields, fill, one) \div 4 =
          b(2) + (2 * b(3)) + (4 * b(4)) + (8 * b(5)) + (16 * b(6)) + (32 * b(7))
    BY <1>1, <1>2, Parts
  <2> HIDE DEF b
  <2> QED BY <2>1, <2>2
<1> HIDE DEF b, P
<1>7. BitAt(v, 0) + (2 * BitAt(v, 1)) + (4 * BitAt(v, 2)) + (8 * BitAt(v, 3)) + (16 * BitAt(v, 4))
        + (32 * BitAt(v, 5)) = v % 64
  BY DEF BitAt, TwentyTwo
<1>8. RawByte(P, one) \div 4 = v % 64
  BY <1>5, <1>6, <1>7
<1>9. ((v % 64) % 64) + (Slice(v, 6) * 64) + (Slice(v, 14) * 16384) = v
  BY DEF Slice, TwentyTwo
<1> QED BY <1>4, <1>8, <1>9 DEF P, one, two, three

\* Period3 is decoded as it was meant.
LEMMA Period3Read ==
  ASSUME NEW fields \in Contents(ReportLayout["Period3"]), NEW fill \in Bit
  PROVE  DecodePeriod3(Packed(ReportLayout["Period3"], 8, fields, fill)) = Told("Period3", fields)
PROOF
<1> DEFINE L == ReportLayout["Period3"]
           P == Packed(L, 8, fields, fill)
<1>1. L =
        [analogVoltage |-> <<0, 10>>, analogVelocity |-> <<10, 22>>,
         analogPosition |-> <<32, 32>>]
  BY DEF ReportLayout
<1>2. Follows(L, fields, fill, 8)
  BY ReportsLaid, PlainFollows DEF ReportNames
<1> HIDE DEF L
<1>3. /\ Holds(L, fields, "analogVoltage", 0, 10, fields["analogVoltage"]) /\ fields["analogVoltage"] \in Ten
      /\ Holds(L, fields, "analogVelocity", 10, 22, fields["analogVelocity"]) /\ fields["analogVelocity"] \in TwentyTwo
      /\ Holds(L, fields, "analogPosition", 32, 32, fields["analogPosition"])
      /\ fields = [g \in DOMAIN L |-> fields[g]]
  BY <1>1, OpenField DEF Fixed, L
<1>4. fields =
        [analogVoltage |-> fields["analogVoltage"], analogVelocity |-> fields["analogVelocity"],
         analogPosition |-> fields["analogPosition"]]
  BY <1>1, <1>3
<1>5. RawByte(P, 0) + ((RawByte(P, 1) % 4) * 256) = fields["analogVoltage"]
  BY <1>2, <1>3, GetTen
<1>6. ((RawByte(P, 1) \div 4) % 64) + (RawByte(P, 2) * 64) + (RawByte(P, 3) * 16384) = fields["analogVelocity"]
  BY <1>2, <1>3, GetTwentyTwo
<1>7. FloatAt(P, 4) = fields["analogPosition"]
  BY <1>2, <1>3, GetWord
<1> HIDE DEF P
<1>8. DecodePeriod3(P) =
        [analogVoltage |-> fields["analogVoltage"], analogVelocity |-> fields["analogVelocity"],
         analogPosition |-> fields["analogPosition"]]
  BY <1>5, <1>6, <1>7 DEF DecodePeriod3
<1>9. Told("Period3", fields) = fields
  BY DEF Told
<1>10. DecodePeriod3(P) = Told("Period3", fields)
  BY <1>4, <1>8, <1>9, Zenon
<1> QED BY <1>10 DEF P, L

\* A function on 1..n is a sequence.
LEMMA FunctionIsSequence ==
  ASSUME NEW S, NEW n \in Nat, NEW w \in [1..n -> S]
  PROVE  w \in Seq(S) /\ Len(w) = n
PROOF OBVIOUS

\* Four bytes are a sequence.
LEMMA WordIsSequence ==
  ASSUME NEW w \in Word32
  PROVE  w \in Seq(Byte) /\ Len(w) = 4
PROOF
<1> DEFINE n == 4
<1>1. w \in [1..n -> Byte] /\ n \in Nat
  BY DEF Word32
<1> HIDE DEF n
<1>2. w \in Seq(Byte) /\ Len(w) = n
  BY <1>1, FunctionIsSequence
<1> QED BY <1>2 DEF n

\* A sequence of eight is the tuple of its elements,
LEMMA Tuple8 ==
  ASSUME NEW S, NEW s \in Seq(S), Len(s) = 8
  PROVE  s = <<s[1], s[2], s[3], s[4], s[5], s[6], s[7], s[8]>>
PROOF OBVIOUS

\* and so is one of five.
LEMMA Tuple5 ==
  ASSUME NEW S, NEW s \in Seq(S), Len(s) = 5
  PROVE  s = <<s[1], s[2], s[3], s[4], s[5]>>
PROOF OBVIOUS

\* Four bytes and what is appended to them.
LEMMA WordAndFour ==
  ASSUME NEW w \in Word32, NEW a \in Byte, NEW b \in Byte, NEW c \in Byte, NEW d \in Byte
  PROVE  w \o <<a, b, c, d>> = <<w[1], w[2], w[3], w[4], a, b, c, d>>
PROOF
<1> DEFINE t == <<a, b, c, d>>
           u == w \o t
<1>1. w \in Seq(Byte) /\ Len(w) = 4
  BY WordIsSequence
<1>2. t \in Seq(Byte) /\ Len(t) = 4 /\ t[1] = a /\ t[2] = b /\ t[3] = c /\ t[4] = d
  OBVIOUS
<1> HIDE DEF t
<1>3. u \in Seq(Byte) /\ Len(u) = Len(w) + Len(t)
      /\ \A i \in 1 .. Len(w) + Len(t) : u[i] = IF i <= Len(w) THEN w[i] ELSE t[i - Len(w)]
  BY <1>1, <1>2, ConcatProperties, Zenon
<1> HIDE DEF u
<1>4. /\ Len(u) = 8
      /\ u[1] = w[1] /\ u[2] = w[2] /\ u[3] = w[3] /\ u[4] = w[4]
      /\ u[5] = t[1] /\ u[6] = t[2] /\ u[7] = t[3] /\ u[8] = t[4]
  BY <1>1, <1>2, <1>3
<1>5. u = <<u[1], u[2], u[3], u[4], u[5], u[6], u[7], u[8]>>
  BY <1>3, <1>4, Tuple8, Zenon
<1>6. u = <<w[1], w[2], w[3], w[4], a, b, c, d>>
  BY <1>2, <1>4, <1>5
<1> QED BY <1>6 DEF u, t

\* Four bytes and one after or before them.
LEMMA WordAndOne ==
  ASSUME NEW w \in Word32, NEW a \in Byte
  PROVE  w \o <<a>> = <<w[1], w[2], w[3], w[4], a>> /\ <<a>> \o w = <<a, w[1], w[2], w[3], w[4]>>
PROOF
<1> DEFINE t == <<a>>
           u == w \o t
           x == t \o w
<1>1. w \in Seq(Byte) /\ Len(w) = 4
  BY WordIsSequence
<1>2. t \in Seq(Byte) /\ Len(t) = 1 /\ t[1] = a
  OBVIOUS
<1> HIDE DEF t
<1>3. u \in Seq(Byte) /\ Len(u) = Len(w) + Len(t)
      /\ \A i \in 1 .. Len(w) + Len(t) : u[i] = IF i <= Len(w) THEN w[i] ELSE t[i - Len(w)]
  BY <1>1, <1>2, ConcatProperties, Zenon
<1>4. x \in Seq(Byte) /\ Len(x) = Len(t) + Len(w)
      /\ \A i \in 1 .. Len(t) + Len(w) : x[i] = IF i <= Len(t) THEN t[i] ELSE w[i - Len(t)]
  BY <1>1, <1>2, ConcatProperties, Zenon
<1> HIDE DEF u, x
<1>5. /\ Len(u) = 5
      /\ u[1] = w[1] /\ u[2] = w[2] /\ u[3] = w[3] /\ u[4] = w[4] /\ u[5] = t[1]
  BY <1>1, <1>2, <1>3
<1>6. /\ Len(x) = 5
      /\ x[1] = t[1] /\ x[2] = w[1] /\ x[3] = w[2] /\ x[4] = w[3] /\ x[5] = w[4]
  BY <1>1, <1>2, <1>4
<1>7. u = <<u[1], u[2], u[3], u[4], u[5]>> /\ x = <<x[1], x[2], x[3], x[4], x[5]>>
  BY <1>3, <1>4, <1>5, <1>6, Tuple5, Zenon
<1>8. u = <<w[1], w[2], w[3], w[4], a>>
  BY <1>2, <1>5, <1>7
<1>9. x = <<a, w[1], w[2], w[3], w[4]>>
  BY <1>2, <1>6, <1>7
<1> QED BY <1>8, <1>9 DEF u, x, t

\* The first elements of a function, as a sequence.
LEMMA Listed ==
  ASSUME NEW g
  PROVE  /\ [i \in 1..8 |-> g[i - 1]] = <<g[0], g[1], g[2], g[3], g[4], g[5], g[6], g[7]>>
         /\ [i \in 1..5 |-> g[i - 1]] = <<g[0], g[1], g[2], g[3], g[4]>>
         /\ [i \in 1..2 |-> g[i - 1]] = <<g[0], g[1]>>
         /\ [i \in 1..1 |-> g[i - 1]] = <<g[0]>>
         /\ [i \in 1..0 |-> g[i - 1]] = <<>>
PROOF
<1>1. \A s : s = [i \in 1..8 |-> g[i - 1]] => s = <<g[0], g[1], g[2], g[3], g[4], g[5], g[6], g[7]>>
  OBVIOUS
<1>2. \A s : s = [i \in 1..5 |-> g[i - 1]] => s = <<g[0], g[1], g[2], g[3], g[4]>>
  OBVIOUS
<1>3. \A s : s = [i \in 1..2 |-> g[i - 1]] => s = <<g[0], g[1]>>
  OBVIOUS
<1>4. \A s : s = [i \in 1..1 |-> g[i - 1]] => s = <<g[0]>>
  OBVIOUS
<1>5. \A s : s = [i \in 1..0 |-> g[i - 1]] => s = <<>>
  OBVIOUS
<1> QED BY <1>1, <1>2, <1>3, <1>4, <1>5, Zenon

\* Payloads of eight, five, two, one and no bytes, written out.
LEMMA WrittenOut ==
  ASSUME NEW layout, NEW fields, NEW fill
  PROVE  LET b(q) == PackedByte(layout, fields, fill, q) IN
         /\ Packed(layout, 8, fields, fill) = <<b(0), b(1), b(2), b(3), b(4), b(5), b(6), b(7)>>
         /\ Packed(layout, 5, fields, fill) = <<b(0), b(1), b(2), b(3), b(4)>>
         /\ Packed(layout, 2, fields, fill) = <<b(0), b(1)>>
         /\ Packed(layout, 1, fields, fill) = <<b(0)>>
         /\ Packed(layout, 0, fields, fill) = <<>>
PROOF
<1> DEFINE b(q) == PackedByte(layout, fields, fill, q)
           g == [q \in Nat |-> b(q)]
<1>1. \A n \in Nat : Packed(layout, n, fields, fill) = [i \in 1..n |-> g[i - 1]]
  <2> SUFFICES ASSUME NEW n \in Nat PROVE Packed(layout, n, fields, fill) =
    [i \in 1..n |-> g[i - 1]]
    OBVIOUS
  <2>1. Packed(layout, n, fields, fill) = [i \in 1..n |-> b(i - 1)]
    BY DEF Packed, PackedByte
  <2> HIDE DEF b
  <2>2. [i \in 1..n |-> b(i - 1)] = [i \in 1..n |-> g[i - 1]]
    OBVIOUS
  <2> QED BY <2>1, <2>2, Zenon
<1>2. /\ g[0] = b(0) /\ g[1] = b(1) /\ g[2] = b(2) /\ g[3] = b(3)
      /\ g[4] = b(4) /\ g[5] = b(5) /\ g[6] = b(6) /\ g[7] = b(7)
  <2> HIDE DEF b
  <2> QED OBVIOUS
<1>3. 8 \in Nat /\ 5 \in Nat /\ 2 \in Nat /\ 1 \in Nat /\ 0 \in Nat
  OBVIOUS
<1> HIDE DEF b, g
<1>4. /\ Packed(layout, 8, fields, fill) = [i \in 1..8 |-> g[i - 1]]
      /\ Packed(layout, 5, fields, fill) = [i \in 1..5 |-> g[i - 1]]
      /\ Packed(layout, 2, fields, fill) = [i \in 1..2 |-> g[i - 1]]
      /\ Packed(layout, 1, fields, fill) = [i \in 1..1 |-> g[i - 1]]
      /\ Packed(layout, 0, fields, fill) = [i \in 1..0 |-> g[i - 1]]
  BY <1>1, <1>3, Zenon
<1>5. /\ Packed(layout, 8, fields, fill) = <<g[0], g[1], g[2], g[3], g[4], g[5], g[6], g[7]>>
      /\ Packed(layout, 5, fields, fill) = <<g[0], g[1], g[2], g[3], g[4]>>
      /\ Packed(layout, 2, fields, fill) = <<g[0], g[1]>>
      /\ Packed(layout, 1, fields, fill) = <<g[0]>>
      /\ Packed(layout, 0, fields, fill) = <<>>
  BY <1>4, Listed, Zenon
<1> QED BY <1>2, <1>5, Zenon DEF b

\* The bytes of a field of 32, of 8 and of 16 bits.
LEMMA PutWord ==
  ASSUME NEW layout, NEW fields, NEW fill, NEW n, Follows(layout, fields, fill, n),
         NEW f, NEW q \in 0..4, NEW v, Holds(layout, fields, f, 8 * q, 32, v)
  PROVE  /\ v \in Word32
         /\ PackedByte(layout, fields, fill, q) = v[1]
         /\ PackedByte(layout, fields, fill, q + 1) = v[2]
         /\ PackedByte(layout, fields, fill, q + 2) = v[3]
         /\ PackedByte(layout, fields, fill, q + 3) = v[4]
PROOF
<1>1. Laid(layout) /\ Fit(layout, fields) /\ fill \in Bit
  BY DEF Follows
<1>2. f \in DOMAIN layout /\ layout[f] = <<8 * q, 32>> /\ fields[f] = v
  BY DEF Holds
<1>3. \A i \in 0..3 : PackedByte(layout, fields, fill, q + i) = v[i + 1]
  <2>1. \A i \in 0..3 : PackedByte(layout, fields, fill, q + i) = fields[f][i + 1]
    BY <1>1, <1>2, WordField
  <2> QED BY <1>2, <2>1
<1>4. v \in Word32
  BY <1>1, <1>2 DEF Fit
<1>5. /\ PackedByte(layout, fields, fill, q + 0) = v[0 + 1]
      /\ PackedByte(layout, fields, fill, q + 1) = v[1 + 1]
      /\ PackedByte(layout, fields, fill, q + 2) = v[2 + 1]
      /\ PackedByte(layout, fields, fill, q + 3) = v[3 + 1]
  BY <1>3
<1> QED BY <1>4, <1>5

\* (One byte.)
LEMMA PutByte ==
  ASSUME NEW layout, NEW fields, NEW fill, NEW n, Follows(layout, fields, fill, n),
         NEW f, NEW q \in Nat, NEW first, first = 8 * q, NEW v \in Byte,
         Holds(layout, fields, f, first, 8, v)
  PROVE  PackedByte(layout, fields, fill, q) = v
PROOF
<1>1. Laid(layout) /\ Fit(layout, fields) /\ fill \in Bit
  BY DEF Follows
<1>2. Holds(layout, fields, f, 8 * q, 8, v)
  BY Zenon
<1> DEFINE m == q + 1
<1>3. m \in Nat /\ q < m
  OBVIOUS
<1> HIDE DEF m
<1> QED BY <1>1, <1>2, <1>3, ReadByte

\* (Two bytes.)
LEMMA PutHalf ==
  ASSUME NEW layout, NEW fields, NEW fill, NEW n, Follows(layout, fields, fill, n),
         NEW f, NEW v, Holds(layout, fields, f, 0, 16, v)
  PROVE  /\ PackedByte(layout, fields, fill, 0) = v % 256
         /\ PackedByte(layout, fields, fill, 1) = (v \div 256) % 256
         /\ v \in Int
PROOF
<1>1. Laid(layout) /\ Fit(layout, fields) /\ fill \in Bit
  BY DEF Follows
<1> DEFINE q == 0
<1>2. q \in Nat /\ 8 * q = 0 /\ q + 1 = 1
  OBVIOUS
<1> HIDE DEF q
<1>3. /\ PackedByte(layout, fields, fill, q) = Slice(v, 0)
      /\ PackedByte(layout, fields, fill, q + 1) = Slice(v, 8)
      /\ v \in Int
  BY <1>1, <1>2, HalfBytes
<1>4. Slice(v, 0) = v % 256 /\ Slice(v, 8) = (v \div 256) % 256
  BY <1>3 DEF Slice
<1> QED BY <1>2, <1>3, <1>4 DEF q

\* A byte of no field is as the sender fills it: with zeros, here.
LEMMA PutNothing ==
  ASSUME NEW layout, NEW fields, NEW n, Follows(layout, fields, 0, n), NEW q \in Nat,
         \A f \in DOMAIN layout : layout[f][1] + layout[f][2] <= 8 * q \/ (8 * q) + 8 <= layout[f][1]
  PROVE  PackedByte(layout, fields, 0, q) = 0
PROOF
<1> DEFINE b(j) == PackedBit(layout, fields, 0, (8 * q) + j)
<1>1. Laid(layout)
  BY DEF Follows
<1>2. \A j \in 0..7 : b(j) = 0
  <2> SUFFICES ASSUME NEW j \in 0..7 PROVE b(j) = 0
    OBVIOUS
  <2> DEFINE p == (8 * q) + j
  <2>1. p \in Nat /\ 8 * q <= p /\ p < (8 * q) + 8
    OBVIOUS
  <2> HIDE DEF p
  <2>2. \A f \in DOMAIN layout : p < layout[f][1] \/ layout[f][1] + layout[f][2] <= p
    BY <1>1, <2>1 DEF Laid
  <2>3. PackedBit(layout, fields, 0, p) = 0
    BY <1>1, <2>1, <2>2, FillBit
  <2> QED BY <2>3 DEF p
<1>3. PackedByte(layout, fields, 0, q) = (b(0) * 2^0) + (b(1) * 2^1) + (b(2) * 2^2) + (b(3) * 2^3)
        + (b(4) * 2^4) + (b(5) * 2^5) + (b(6) * 2^6) + (b(7) * 2^7)
  BY DEF PackedByte
<1> HIDE DEF b
<1> QED BY <1>2, <1>3

\* The layouts of the orders are sound.
LEMMA OrdersLaid ==
  /\ \A name \in DOMAIN SingleLayout : Laid(SingleLayout[name]) /\ Plain(SingleLayout[name])
  /\ LET L == [value |-> <<0, 32>>] IN Laid(L) /\ Plain(L)
  /\ LET L == [period |-> <<0, 16>>] IN Laid(L) /\ Plain(L)
PROOF
<1>1. AllOnes \in Word32
  BY DEF AllOnes, Word32, Byte
<1>2. /\ Fixed["dataType"] \in Int /\ Fixed["magic"] \in Int /\ Fixed["yes"] \in Int
      /\ Fixed["low"] \in Word32 /\ Fixed["high"] \in Word32
      /\ DOMAIN Fixed = {"dataType", "magic", "yes", "low", "high"}
  BY <1>1 DEF Fixed
<1>3. /\ SingleLayout["VelocitySetpoint"] = Setpoint25x /\ SingleLayout["PositionSetpoint"] = Setpoint25x
      /\ SingleLayout["Heartbeat"] = Mask /\ SingleLayout["Broadcast"] = Mask
      /\ SingleLayout["Identify"] = <<>> /\ SingleLayout["ClearFaults"] = <<>>
      /\ SingleLayout["RemoteQuery"] = <<>> /\ SingleLayout["FirmwareQuery"] = <<>>
      /\ SingleLayout["ParameterQuery"] = <<>>
  BY DEF SingleLayout
<1>4. \A name \in DOMAIN SingleLayout : Laid(SingleLayout[name]) /\ Plain(SingleLayout[name])
  <2>1. Laid(Mask)
    BY DEF Mask, Laid
  <2>2. Plain(Mask)
    BY <1>2 DEF Mask, Plain, Widths
  <2>3. Laid(Setpoint25x)
    BY DEF Setpoint25x, Laid
  <2>4. Plain(Setpoint25x)
    BY <1>2 DEF Setpoint25x, Plain, Widths
  <2>5. Laid(SingleLayout["SetpointWithCtrlType"])
    BY DEF SingleLayout, Laid
  <2>6. Plain(SingleLayout["SetpointWithCtrlType"])
    BY <1>2 DEF SingleLayout, Plain, Widths
  <2>7. Laid(SingleLayout["EncoderPosition"])
    BY DEF SingleLayout, Laid
  <2>8. Plain(SingleLayout["EncoderPosition"])
    BY <1>2 DEF SingleLayout, Plain, Widths
  <2>9. Laid(SingleLayout["ParamWrite"])
    BY DEF SingleLayout, Laid
  <2>10. Plain(SingleLayout["ParamWrite"])
    BY <1>2 DEF SingleLayout, Plain, Widths
  <2>11. Laid(SingleLayout["SetWord"])
    BY DEF SingleLayout, Laid
  <2>12. Plain(SingleLayout["SetWord"])
    BY <1>2 DEF SingleLayout, Plain, Widths
  <2>13. Laid(SingleLayout["SetShort"])
    BY DEF SingleLayout, Laid
  <2>14. Plain(SingleLayout["SetShort"])
    BY <1>2 DEF SingleLayout, Plain, Widths
  <2>15. Laid(SingleLayout["SetByte"])
    BY DEF SingleLayout, Laid
  <2>16. Plain(SingleLayout["SetByte"])
    BY <1>2 DEF SingleLayout, Plain, Widths
  <2>17. Laid(SingleLayout["BurnFlash"])
    BY DEF SingleLayout, Laid
  <2>18. Plain(SingleLayout["BurnFlash"])
    BY <1>2 DEF SingleLayout, Plain, Widths
  <2>19. Laid(SingleLayout["FactoryDefaults"])
    BY DEF SingleLayout, Laid
  <2>20. Plain(SingleLayout["FactoryDefaults"])
    BY <1>2 DEF SingleLayout, Plain, Widths
  <2>21. Laid(SingleLayout["FactoryReset"])
    BY DEF SingleLayout, Laid
  <2>22. Plain(SingleLayout["FactoryReset"])
    BY <1>2 DEF SingleLayout, Plain, Widths
  <2>23. Laid(<<>>) /\ Plain(<<>>)
    BY DEF Laid, Plain
  <2>24. DOMAIN SingleLayout =
           {"VelocitySetpoint", "PositionSetpoint", "SetpointWithCtrlType", "EncoderPosition", "ParamWrite",
            "SetWord", "SetShort", "SetByte", "Heartbeat", "Broadcast", "BurnFlash", "FactoryDefaults",
            "FactoryReset", "Identify", "ClearFaults", "RemoteQuery", "FirmwareQuery", "ParameterQuery"}
    BY DEF SingleLayout
  <2> QED BY <1>3, <2>1, <2>2, <2>3, <2>4, <2>5, <2>6, <2>7, <2>8, <2>9, <2>10, <2>11, <2>12,
             <2>13, <2>14, <2>15, <2>16, <2>17, <2>18, <2>19, <2>20, <2>21, <2>22, <2>23, <2>24, Zenon
<1>5. LET L == [value |-> <<0, 32>>] IN Laid(L) /\ Plain(L)
  BY DEF Laid, Plain, Fixed, Widths
<1>6. LET L == [period |-> <<0, 16>>] IN Laid(L) /\ Plain(L)
  BY DEF Laid, Plain, Fixed, Widths
<1> QED BY <1>4, <1>5, <1>6

\* Control commands: the value and four zeros.
LEMMA ControlWritten ==
  ASSUME NEW L, L = [value |-> <<0, 32>>], NEW fields \in Contents(L)
  PROVE  EncodeControl(fields.value) = Packed(L, 8, fields, 0)
PROOF
<1> DEFINE b(q) == PackedByte(L, fields, 0, q)
           v == fields["value"]
<1>1. Follows(L, fields, 0, 8)
  BY OrdersLaid, PlainFollows DEF Bit
<1>2. Holds(L, fields, "value", 8 * 0, 32, v)
  BY DEF Holds
<1>3. v \in Word32 /\ b(0) = v[1] /\ b(1) = v[2] /\ b(2) = v[3] /\ b(3) = v[4]
  <2>1. /\ v \in Word32
        /\ b(0) = v[1] /\ b(0 + 1) = v[2] /\ b(0 + 2) = v[3] /\ b(0 + 3) = v[4]
    BY <1>1, <1>2, PutWord
  <2> QED BY <2>1
<1>4. \A q \in {4, 5, 6, 7} : b(q) = 0
  BY <1>1, PutNothing
<1>5. Packed(L, 8, fields, 0) = <<b(0), b(1), b(2), b(3), b(4), b(5), b(6), b(7)>>
  BY WrittenOut
<1> HIDE DEF b
<1>6. Packed(L, 8, fields, 0) = <<v[1], v[2], v[3], v[4], 0, 0, 0, 0>>
  BY <1>3, <1>4, <1>5
<1>7. v \o <<0, 0, 0, 0>> = <<v[1], v[2], v[3], v[4], 0, 0, 0, 0>>
  <2>1. 0 \in Byte
    BY DEF Byte
  <2> QED BY <1>3, <2>1, WordAndFour, Zenon
<1> QED BY <1>6, <1>7 DEF EncodeControl, Zero32

\* A field of two bits, in a byte of its own.
LEMMA PutTwo ==
  ASSUME NEW layout, NEW fields, NEW n, Follows(layout, fields, 0, n),
         NEW f, NEW q \in Nat, NEW first, first = 8 * q, NEW v \in Nat, v < 4,
         Holds(layout, fields, f, first, 2, v),
         \A g \in DOMAIN layout : g # f =>
           layout[g][1] + layout[g][2] <= first \/ first + 8 <= layout[g][1]
  PROVE  PackedByte(layout, fields, 0, q) = v
PROOF
<1> DEFINE b(j) == PackedBit(layout, fields, 0, (8 * q) + j)
<1>1. Laid(layout) /\ Fit(layout, fields) /\ 0 \in Bit
  BY DEF Follows
<1>2. Reads(layout, fields, 0, first, 2, v)
  <2> DEFINE width == 2
  <2>1. first \in Nat /\ width \in Nat /\ width # 32 /\ Holds(layout, fields, f, first, width, v)
    OBVIOUS
  <2> HIDE DEF width
  <2>2. Reads(layout, fields, 0, first, width, v)
    BY <1>1, <2>1, HeldByte, Zenon
  <2> QED BY <2>2 DEF width
<1>3. b(0) = BitAt(v, 0) /\ b(1) = BitAt(v, 1)
  BY <1>2 DEF Reads
<1>4. \A j \in 2..7 : b(j) = 0
  <2> SUFFICES ASSUME NEW j \in 2..7 PROVE b(j) = 0
    OBVIOUS
  <2> DEFINE p == (8 * q) + j
  <2>1. p \in Nat /\ first + 2 <= p /\ p < first + 8
    OBVIOUS
  <2> HIDE DEF p
  <2>2. layout[f][1] = first /\ layout[f][2] = 2 /\ f \in DOMAIN layout
    BY DEF Holds
  <2>3. \A g \in DOMAIN layout : p < layout[g][1] \/ layout[g][1] + layout[g][2] <= p
    BY <1>1, <2>1, <2>2 DEF Laid
  <2>4. PackedBit(layout, fields, 0, p) = 0
    BY <1>1, <2>1, <2>3, FillBit
  <2> QED BY <2>4 DEF p
<1>5. PackedByte(layout, fields, 0, q) = (b(0) * 2^0) + (b(1) * 2^1) + (b(2) * 2^2) + (b(3) * 2^3)
        + (b(4) * 2^4) + (b(5) * 2^5) + (b(6) * 2^6) + (b(7) * 2^7)
  BY DEF PackedByte
<1> HIDE DEF b
<1>6. BitAt(v, 0) + (2 * BitAt(v, 1)) = v /\ BitAt(v, 0) \in Int /\ BitAt(v, 1) \in Int
  BY DEF BitAt
<1> QED BY <1>3, <1>4, <1>5, <1>6

\* The setpoints of 25.x: the value, the slot in the byte before the last.
LEMMA SetpointWritten ==
  ASSUME NEW fields \in Contents(Setpoint25x)
  PROVE  EncodeSetpoint(fields.value, fields.slot) = Packed(Setpoint25x, 8, fields, 0)
PROOF
<1> DEFINE L == Setpoint25x
           b(q) == PackedByte(L, fields, 0, q)
           v == fields["value"]
           s == fields["slot"]
<1>1. L = [value |-> <<0, 32>>, slot |-> <<48, 2>>]
  BY DEF Setpoint25x
<1>2. Laid(L) /\ Plain(L)
  BY OrdersLaid DEF SingleLayout
<1> HIDE DEF L
<1>3. Follows(L, fields, 0, 8)
  BY <1>2, PlainFollows DEF Bit, L
<1>4. /\ Holds(L, fields, "value", 8 * 0, 32, v)
      /\ Holds(L, fields, "slot", 48, 2, s) /\ s \in Nat /\ s < 4
  BY <1>1, OpenField DEF Fixed, L
<1>5. v \in Word32 /\ b(0) = v[1] /\ b(1) = v[2] /\ b(2) = v[3] /\ b(3) = v[4]
  <2>1. /\ v \in Word32
        /\ b(0) = v[1] /\ b(0 + 1) = v[2] /\ b(0 + 2) = v[3] /\ b(0 + 3) = v[4]
    BY <1>3, <1>4, PutWord
  <2> QED BY <2>1
<1>6. \A q \in {4, 5, 7} : b(q) = 0
  BY <1>1, <1>3, PutNothing
<1>7. b(6) = s
  BY <1>1, <1>3, <1>4, PutTwo
<1>8. Packed(L, 8, fields, 0) = <<b(0), b(1), b(2), b(3), b(4), b(5), b(6), b(7)>>
  BY WrittenOut
<1> HIDE DEF b
<1>9. Packed(L, 8, fields, 0) = <<v[1], v[2], v[3], v[4], 0, 0, s, 0>>
  BY <1>5, <1>6, <1>7, <1>8
<1>10. v \o <<0, 0, s, 0>> = <<v[1], v[2], v[3], v[4], 0, 0, s, 0>>
  <2>1. 0 \in Byte /\ s \in Byte
    BY <1>4 DEF Byte
  <2> QED BY <1>5, <2>1, WordAndFour, Zenon
<1>11. s % 4 = s
  BY <1>4
<1> QED BY <1>9, <1>10, <1>11 DEF EncodeSetpoint, L

\* The classic setpoint with the control type in byte 6.
LEMMA CtrlTypeWritten ==
  ASSUME NEW L, L = [value |-> <<0, 32>>, ctrlType |-> <<48, 8>>], Laid(L), Plain(L),
         NEW fields \in Contents(L)
  PROVE  EncodeSetpointWithCtrlType(fields.value, fields.ctrlType, 6) = Packed(L, 8, fields, 0)
PROOF
<1> DEFINE b(q) == PackedByte(L, fields, 0, q)
           v == fields["value"]
           c == fields["ctrlType"]
<1>3. Follows(L, fields, 0, 8)
  BY PlainFollows DEF Bit
<1>4. /\ Holds(L, fields, "value", 8 * 0, 32, v)
      /\ Holds(L, fields, "ctrlType", 48, 8, c) /\ c \in Byte
  BY OpenField DEF Fixed
<1>5. v \in Word32 /\ b(0) = v[1] /\ b(1) = v[2] /\ b(2) = v[3] /\ b(3) = v[4]
  <2>1. /\ v \in Word32
        /\ b(0) = v[1] /\ b(0 + 1) = v[2] /\ b(0 + 2) = v[3] /\ b(0 + 3) = v[4]
    BY <1>3, <1>4, PutWord
  <2> QED BY <2>1
<1>6. \A q \in {4, 5, 7} : b(q) = 0
  BY <1>3, PutNothing
<1>7. b(6) = c
  <2> DEFINE q == 6
             first == 48
  <2>1. q \in Nat /\ first = 8 * q
    OBVIOUS
  <2> HIDE DEF q
  <2>2. b(q) = c
    BY <1>3, <1>4, <2>1, PutByte
  <2> QED BY <2>2 DEF q
<1>8. Packed(L, 8, fields, 0) = <<b(0), b(1), b(2), b(3), b(4), b(5), b(6), b(7)>>
  BY WrittenOut
<1> HIDE DEF b
<1>9. Packed(L, 8, fields, 0) = <<v[1], v[2], v[3], v[4], 0, 0, c, 0>>
  BY <1>5, <1>6, <1>7, <1>8
<1>10. v \o <<0, 0, 0, 0>> = <<v[1], v[2], v[3], v[4], 0, 0, 0, 0>>
  <2>1. 0 \in Byte
    BY DEF Byte
  <2> QED BY <1>5, <2>1, WordAndFour, Zenon
<1>11. [<<v[1], v[2], v[3], v[4], 0, 0, 0, 0>> EXCEPT ![7] = c] = <<v[1], v[2], v[3], v[4], 0, 0, c, 0>>
  OBVIOUS
<1>12. EncodeSetpointWithCtrlType(v, c, 6) = [EncodeControl(v) EXCEPT ![7] = c]
  BY DEF EncodeSetpointWithCtrlType
<1>13. EncodeControl(v) = v \o <<0, 0, 0, 0>>
  BY DEF EncodeControl, Zero32
<1> HIDE DEF v, c
<1>14. EncodeSetpointWithCtrlType(v, c, 6) = Packed(L, 8, fields, 0)
  BY <1>9, <1>10, <1>11, <1>12, <1>13, Zenon
<1> QED BY <1>14 DEF v, c

\* The setter of the encoder's position: the value and the type of a float.
LEMMA PositionWritten ==
  ASSUME NEW L, L = [value |-> <<0, 32>>, dataType |-> <<32, 8>>], Laid(L), Plain(L),
         NEW fields \in Contents(L)
  PROVE  EncodeSetEncoderPosition(fields.value) = Packed(L, 5, fields, 0)
PROOF
<1> DEFINE b(q) == PackedByte(L, fields, 0, q)
           v == fields["value"]
<1>1. Follows(L, fields, 0, 5)
  BY PlainFollows DEF Bit
<1>2. fields["dataType"] = 3 /\ 3 \in Byte
  <2>1. "dataType" \in DOMAIN L /\ "dataType" \in DOMAIN Fixed /\ Fixed["dataType"] = 3
    BY DEF Fixed
  <2>2. 3 \in Byte
    BY DEF Byte
  <2> QED BY <2>1, <2>2, FixedField, Zenon
<1>3. /\ Holds(L, fields, "value", 8 * 0, 32, v)
      /\ Holds(L, fields, "dataType", 32, 8, 3)
  BY <1>2 DEF Holds
<1>4. v \in Word32 /\ b(0) = v[1] /\ b(1) = v[2] /\ b(2) = v[3] /\ b(3) = v[4]
  <2>1. /\ v \in Word32
        /\ b(0) = v[1] /\ b(0 + 1) = v[2] /\ b(0 + 2) = v[3] /\ b(0 + 3) = v[4]
    BY <1>1, <1>3, PutWord
  <2> QED BY <2>1
<1>5. b(4) = 3
  <2> DEFINE q == 4
             first == 32
             x == 3
  <2>1. q \in Nat /\ first = 8 * q /\ x \in Byte /\ Holds(L, fields, "dataType", first, 8, x)
    BY <1>2, <1>3
  <2> HIDE DEF q, first, x
  <2>2. b(q) = x
    BY <1>1, <2>1, PutByte
  <2> QED BY <2>2 DEF q, x
<1>6. Packed(L, 5, fields, 0) = <<b(0), b(1), b(2), b(3), b(4)>>
  BY WrittenOut
<1> HIDE DEF b
<1>7. Packed(L, 5, fields, 0) = <<v[1], v[2], v[3], v[4], 3>>
  BY <1>4, <1>5, <1>6
<1>8. v \o <<3>> = <<v[1], v[2], v[3], v[4], 3>>
  BY <1>2, <1>4, WordAndOne, Zenon
<1> QED BY <1>7, <1>8 DEF EncodeSetEncoderPosition

\* The write of a parameter: its number and the value.
LEMMA WriteWritten ==
  ASSUME NEW L, L = [paramId |-> <<0, 8>>, value |-> <<8, 32>>], Laid(L), Plain(L),
         NEW fields \in Contents(L)
  PROVE  EncodeParamWrite(fields.paramId, fields.value) = Packed(L, 5, fields, 0)
PROOF
<1> DEFINE b(q) == PackedByte(L, fields, 0, q)
           v == fields["value"]
           p == fields["paramId"]
<1>1. Follows(L, fields, 0, 5)
  BY PlainFollows DEF Bit
<1>2. /\ Holds(L, fields, "value", 8 * 1, 32, v)
      /\ Holds(L, fields, "paramId", 0, 8, p) /\ p \in Byte
  BY OpenField DEF Fixed
<1>3. v \in Word32 /\ b(1) = v[1] /\ b(2) = v[2] /\ b(3) = v[3] /\ b(4) = v[4]
  <2>1. /\ v \in Word32
        /\ b(1) = v[1] /\ b(1 + 1) = v[2] /\ b(1 + 2) = v[3] /\ b(1 + 3) = v[4]
    BY <1>1, <1>2, PutWord
  <2> QED BY <2>1
<1>4. b(0) = p
  <2> DEFINE q == 0
             first == 0
  <2>1. q \in Nat /\ first = 8 * q /\ Holds(L, fields, "paramId", first, 8, p)
    BY <1>2
  <2> HIDE DEF q, first
  <2>2. b(q) = p
    BY <1>1, <1>2, <2>1, PutByte
  <2> QED BY <2>2 DEF q
<1>5. Packed(L, 5, fields, 0) = <<b(0), b(1), b(2), b(3), b(4)>>
  BY WrittenOut
<1> HIDE DEF b
<1>6. Packed(L, 5, fields, 0) = <<p, v[1], v[2], v[3], v[4]>>
  BY <1>3, <1>4, <1>5
<1>7. <<p>> \o v = <<p, v[1], v[2], v[3], v[4]>>
  BY <1>2, <1>3, WordAndOne, Zenon
<1> QED BY <1>6, <1>7 DEF EncodeParamWrite

\* The classic parameter message, written out.
LEMMA ParameterBytes ==
  ASSUME NEW t, NEW s, NEW n \in Nat, Len(s) = n
  PROVE  LET x(i) == IF i <= n THEN s[i] ELSE 0 IN
         EncodeParameter(t, s) = <<x(1), x(2), x(3), x(4), t>>
PROOF
<1> DEFINE x(i) == IF i <= n THEN s[i] ELSE 0
           g == [q \in Nat |-> IF q + 1 = 5 THEN t ELSE x(q + 1)]
<1>1. EncodeParameter(t, s) = [i \in 1..5 |-> IF i = 5 THEN t ELSE x(i)]
  BY DEF EncodeParameter
<1> HIDE DEF x
<1>2. [i \in 1..5 |-> IF i = 5 THEN t ELSE x(i)] = [i \in 1..5 |-> g[i - 1]]
  OBVIOUS
<1>3. g[0] = x(1) /\ g[1] = x(2) /\ g[2] = x(3) /\ g[3] = x(4) /\ g[4] = t
  OBVIOUS
<1> HIDE DEF g
<1>4. [i \in 1..5 |-> g[i - 1]] = <<g[0], g[1], g[2], g[3], g[4]>>
  BY Listed, Zenon
<1> QED BY <1>1, <1>2, <1>3, <1>4, Zenon DEF x

\* The classic parameter message with a value of four bytes,
LEMMA SetWordWritten ==
  ASSUME NEW L, L = [value |-> <<0, 32>>, type |-> <<32, 8>>], Laid(L), Plain(L),
         NEW fields \in Contents(L)
  PROVE  EncodeParameter(fields.type, fields.value) = Packed(L, 5, fields, 0)
PROOF
<1> DEFINE b(q) == PackedByte(L, fields, 0, q)
           v == fields["value"]
           t == fields["type"]
<1>1. Follows(L, fields, 0, 5)
  BY PlainFollows DEF Bit
<1>2. /\ Holds(L, fields, "value", 8 * 0, 32, v)
      /\ Holds(L, fields, "type", 32, 8, t) /\ t \in Byte
  BY OpenField DEF Fixed
<1>3. v \in Word32 /\ b(0) = v[1] /\ b(1) = v[2] /\ b(2) = v[3] /\ b(3) = v[4]
  <2>1. /\ v \in Word32
        /\ b(0) = v[1] /\ b(0 + 1) = v[2] /\ b(0 + 2) = v[3] /\ b(0 + 3) = v[4]
    BY <1>1, <1>2, PutWord
  <2> QED BY <2>1
<1>4. b(4) = t
  <2> DEFINE q == 4
             first == 32
  <2>1. q \in Nat /\ first = 8 * q /\ Holds(L, fields, "type", first, 8, t)
    BY <1>2
  <2> HIDE DEF q, first
  <2>2. b(q) = t
    BY <1>1, <1>2, <2>1, PutByte
  <2> QED BY <2>2 DEF q
<1>5. Packed(L, 5, fields, 0) = <<b(0), b(1), b(2), b(3), b(4)>>
  BY WrittenOut
<1> HIDE DEF b
<1>6. Packed(L, 5, fields, 0) = <<v[1], v[2], v[3], v[4], t>>
  BY <1>3, <1>4, <1>5
<1>7. Len(v) = 4
  BY <1>3, WordIsSequence
<1> HIDE DEF v, t
<1>8. EncodeParameter(t, v) = <<v[1], v[2], v[3], v[4], t>>
  <2> DEFINE n == 4
  <2>1. n \in Nat /\ Len(v) = n
    BY <1>7
  <2> HIDE DEF n
  <2>2. LET x(i) == IF i <= n THEN v[i] ELSE 0 IN
        EncodeParameter(t, v) = <<x(1), x(2), x(3), x(4), t>>
    BY <2>1, ParameterBytes, Zenon
  <2> QED BY <2>2 DEF n
<1> QED BY <1>6, <1>8 DEF v, t

\* of two,
LEMMA SetShortWritten ==
  ASSUME NEW L, L = [value |-> <<0, 16>>, type |-> <<32, 8>>], Laid(L), Plain(L),
         NEW fields \in Contents(L)
  PROVE  EncodeParameter(fields.type, EncodePeriod(fields.value)) = Packed(L, 5, fields, 0)
PROOF
<1> DEFINE b(q) == PackedByte(L, fields, 0, q)
           v == fields["value"]
           t == fields["type"]
           s == EncodePeriod(v)
<1>1. Follows(L, fields, 0, 5)
  BY PlainFollows DEF Bit
<1>2. /\ Holds(L, fields, "value", 0, 16, v)
      /\ Holds(L, fields, "type", 32, 8, t) /\ t \in Byte
  BY OpenField DEF Fixed
<1>3. b(0) = v % 256 /\ b(1) = (v \div 256) % 256
  BY <1>1, <1>2, PutHalf
<1>4. b(4) = t
  <2> DEFINE q == 4
             first == 32
  <2>1. q \in Nat /\ first = 8 * q /\ Holds(L, fields, "type", first, 8, t)
    BY <1>2
  <2> HIDE DEF q, first
  <2>2. b(q) = t
    BY <1>1, <1>2, <2>1, PutByte
  <2> QED BY <2>2 DEF q
<1>5. \A q \in {2, 3} : b(q) = 0
  BY <1>1, PutNothing
<1>6. Packed(L, 5, fields, 0) = <<b(0), b(1), b(2), b(3), b(4)>>
  BY WrittenOut
<1> HIDE DEF b
<1>7. Packed(L, 5, fields, 0) = <<b(0), b(1), 0, 0, t>>
  BY <1>4, <1>5, <1>6
<1>8. Len(s) = 2 /\ s[1] = b(0) /\ s[2] = b(1)
  BY <1>3 DEF EncodePeriod
<1> HIDE DEF s, t
<1>9. EncodeParameter(t, s) = <<s[1], s[2], 0, 0, t>>
  <2> DEFINE n == 2
  <2>1. n \in Nat /\ Len(s) = n
    BY <1>8
  <2> HIDE DEF n
  <2>2. LET x(i) == IF i <= n THEN s[i] ELSE 0 IN
        EncodeParameter(t, s) = <<x(1), x(2), x(3), x(4), t>>
    BY <2>1, ParameterBytes, Zenon
  <2> QED BY <2>2 DEF n
<1>10. EncodeParameter(t, s) = Packed(L, 5, fields, 0)
  BY <1>7, <1>8, <1>9
<1> QED BY <1>10 DEF s, t

\* and of one.
LEMMA SetByteWritten ==
  ASSUME NEW L, L = [value |-> <<0, 8>>, type |-> <<32, 8>>], Laid(L), Plain(L),
         NEW fields \in Contents(L)
  PROVE  EncodeParameter(fields.type, <<fields.value>>) = Packed(L, 5, fields, 0)
PROOF
<1> DEFINE b(q) == PackedByte(L, fields, 0, q)
           v == fields["value"]
           t == fields["type"]
           s == <<v>>
<1>1. Follows(L, fields, 0, 5)
  BY PlainFollows DEF Bit
<1>2. /\ Holds(L, fields, "value", 0, 8, v) /\ v \in Byte
      /\ Holds(L, fields, "type", 32, 8, t) /\ t \in Byte
  BY OpenField DEF Fixed
<1>3. b(0) = v
  <2> DEFINE q == 0
             first == 0
  <2>1. q \in Nat /\ first = 8 * q /\ Holds(L, fields, "value", first, 8, v)
    BY <1>2
  <2> HIDE DEF q, first
  <2>2. b(q) = v
    BY <1>1, <1>2, <2>1, PutByte
  <2> QED BY <2>2 DEF q
<1>4. b(4) = t
  <2> DEFINE q == 4
             first == 32
  <2>1. q \in Nat /\ first = 8 * q /\ Holds(L, fields, "type", first, 8, t)
    BY <1>2
  <2> HIDE DEF q, first
  <2>2. b(q) = t
    BY <1>1, <1>2, <2>1, PutByte
  <2> QED BY <2>2 DEF q
<1>5. \A q \in {1, 2, 3} : b(q) = 0
  BY <1>1, PutNothing
<1>6. Packed(L, 5, fields, 0) = <<b(0), b(1), b(2), b(3), b(4)>>
  BY WrittenOut
<1> HIDE DEF b
<1>7. Packed(L, 5, fields, 0) = <<v, 0, 0, 0, t>>
  BY <1>3, <1>4, <1>5, <1>6
<1>8. Len(s) = 1 /\ s[1] = v
  OBVIOUS
<1> HIDE DEF s, t
<1>9. EncodeParameter(t, s) = <<s[1], 0, 0, 0, t>>
  <2> DEFINE n == 1
  <2>1. n \in Nat /\ Len(s) = n
    BY <1>8
  <2> HIDE DEF n
  <2>2. LET x(i) == IF i <= n THEN s[i] ELSE 0 IN
        EncodeParameter(t, s) = <<x(1), x(2), x(3), x(4), t>>
    BY <2>1, ParameterBytes, Zenon
  <2> QED BY <2>2 DEF n
<1>10. EncodeParameter(t, s) = Packed(L, 5, fields, 0)
  BY <1>7, <1>8, <1>9
<1> QED BY <1>10 DEF s, t

\* Periods.
LEMMA PeriodWritten ==
  ASSUME NEW L, L = [period |-> <<0, 16>>], NEW fields \in Contents(L)
  PROVE  EncodePeriod(fields.period) = Packed(L, 2, fields, 0)
PROOF
<1>1. Follows(L, fields, 0, 2)
  BY OrdersLaid, PlainFollows DEF Bit
<1>2. Holds(L, fields, "period", 0, 16, fields["period"])
  BY DEF Holds
<1>3. /\ PackedByte(L, fields, 0, 0) = fields["period"] % 256
      /\ PackedByte(L, fields, 0, 1) = (fields["period"] \div 256) % 256
  BY <1>1, <1>2, PutHalf
<1>4. Packed(L, 2, fields, 0) = <<PackedByte(L, fields, 0, 0), PackedByte(L, fields, 0, 1)>>
  BY WrittenOut
<1> QED BY <1>3, <1>4 DEF EncodePeriod

\* The magic number of BurnFlash.
LEMMA BurnWritten ==
  ASSUME NEW L, L = [magic |-> <<0, 16>>], Laid(L), Plain(L), NEW fields \in Contents(L)
  PROVE  Packed(L, 2, fields, 0) = <<163, 58>>
PROOF
<1>1. Follows(L, fields, 0, 2)
  BY PlainFollows DEF Bit
<1>2. fields["magic"] = 163 + (256 * 58)
  <2>1. "magic" \in DOMAIN L /\ "magic" \in DOMAIN Fixed /\ Fixed["magic"] = 163 + (256 * 58)
    BY DEF Fixed
  <2> QED BY <2>1, FixedField
<1> DEFINE v == fields["magic"]
<1>3. Holds(L, fields, "magic", 0, 16, v)
  BY DEF Holds
<1> HIDE DEF v
<1>4. /\ PackedByte(L, fields, 0, 0) = v % 256
      /\ PackedByte(L, fields, 0, 1) = (v \div 256) % 256
  BY <1>1, <1>3, PutHalf
<1>5. Packed(L, 2, fields, 0) = <<PackedByte(L, fields, 0, 0), PackedByte(L, fields, 0, 1)>>
  BY WrittenOut
<1>6. v % 256 = 163 /\ (v \div 256) % 256 = 58
  BY <1>2 DEF v
<1> QED BY <1>4, <1>5, <1>6

\* The confirmation of the factory commands.
LEMMA YesWritten ==
  ASSUME NEW L, L = [yes |-> <<0, 8>>], Laid(L), Plain(L), NEW fields \in Contents(L)
  PROVE  Packed(L, 1, fields, 0) = <<1>>
PROOF
<1>1. Follows(L, fields, 0, 1)
  BY PlainFollows DEF Bit
<1>2. fields["yes"] = 1 /\ 1 \in Byte
  <2>1. "yes" \in DOMAIN L /\ "yes" \in DOMAIN Fixed /\ Fixed["yes"] = 1
    BY DEF Fixed
  <2>2. 1 \in Byte
    BY DEF Byte
  <2> QED BY <2>1, <2>2, FixedField, Zenon
<1> DEFINE q == 0
           first == 0
           v == 1
<1>3. q \in Nat /\ first = 8 * q /\ v \in Byte /\ Holds(L, fields, "yes", first, 8, v)
  BY <1>2 DEF Holds
<1> HIDE DEF q, first, v
<1>4. PackedByte(L, fields, 0, q) = v
  BY <1>1, <1>3, PutByte
<1>5. Packed(L, 1, fields, 0) = <<PackedByte(L, fields, 0, 0)>>
  BY WrittenOut
<1> QED BY <1>4, <1>5 DEF q, v

\* A payload of zeros.
LEMMA NothingWritten ==
  ASSUME NEW fields
  PROVE  Packed(<<>>, 8, fields, 0) = [i \in 1..8 |-> 0] /\ Packed(<<>>, 0, fields, 0) = <<>>
PROOF
<1> DEFINE b(q) == PackedByte(<<>>, fields, 0, q)
           g == [q \in Nat |-> 0]
<1>1. Follows(<<>>, fields, 0, 8)
  BY DEF Follows, Laid, Fit, Bit
<1>2. \A q \in Nat : b(q) = 0
  BY <1>1, PutNothing
<1>3. /\ Packed(<<>>, 8, fields, 0) = <<b(0), b(1), b(2), b(3), b(4), b(5), b(6), b(7)>>
      /\ Packed(<<>>, 0, fields, 0) = <<>>
  BY WrittenOut
<1> HIDE DEF b
<1>4. Packed(<<>>, 8, fields, 0) = <<0, 0, 0, 0, 0, 0, 0, 0>>
  BY <1>2, <1>3
<1>5. [i \in 1..8 |-> 0] = [i \in 1..8 |-> g[i - 1]] /\ \A q \in Nat : g[q] = 0
  OBVIOUS
<1> HIDE DEF g
<1>6. [i \in 1..8 |-> g[i - 1]] = <<g[0], g[1], g[2], g[3], g[4], g[5], g[6], g[7]>>
  BY Listed, Zenon
<1> QED BY <1>3, <1>4, <1>5, <1>6

\* A payload of ones: the mask of all devices.
LEMMA MaskWritten ==
  ASSUME NEW fields \in Contents(Mask)
  PROVE  /\ Packed(Mask, 8, fields, 0) = [i \in 1..8 |-> 255]
         /\ EncodeHeartbeat(0..63) = [i \in 1..8 |-> 255]
PROOF
<1> DEFINE L == Mask
           b(q) == PackedByte(L, fields, 0, q)
           g == [q \in Nat |-> 255]
           v == AllOnes
<1>1. Laid(L) /\ Plain(L)
  BY OrdersLaid DEF SingleLayout
<1>2. Follows(L, fields, 0, 8)
  BY <1>1, PlainFollows DEF Bit
<1>3. fields["low"] = v /\ fields["high"] = v
  <2>1. /\ {"low", "high"} \subseteq DOMAIN L \intersect DOMAIN Fixed
        /\ Fixed["low"] = v /\ Fixed["high"] = v
    BY DEF Fixed, Mask
  <2> HIDE DEF v, L
  <2> QED BY <2>1, FixedField DEF L
<1> HIDE DEF v
<1>4. Holds(L, fields, "low", 8 * 0, 32, v) /\ Holds(L, fields, "high", 8 * 4, 32, v)
  BY <1>3 DEF Holds, Mask
<1>5. /\ b(0) = v[1] /\ b(0 + 1) = v[2] /\ b(0 + 2) = v[3] /\ b(0 + 3) = v[4]
      /\ b(4) = v[1] /\ b(4 + 1) = v[2] /\ b(4 + 2) = v[3] /\ b(4 + 3) = v[4]
  BY <1>2, <1>4, PutWord
<1>6. v[1] = 255 /\ v[2] = 255 /\ v[3] = 255 /\ v[4] = 255
  BY DEF v, AllOnes
<1>7. Packed(L, 8, fields, 0) = <<b(0), b(1), b(2), b(3), b(4), b(5), b(6), b(7)>>
  BY WrittenOut
<1> HIDE DEF b
<1>8. Packed(L, 8, fields, 0) = <<255, 255, 255, 255, 255, 255, 255, 255>>
  BY <1>5, <1>6, <1>7
<1>9. [i \in 1..8 |-> 255] = [i \in 1..8 |-> g[i - 1]] /\ \A q \in Nat : g[q] = 255
  OBVIOUS
<1>10. [i \in 1..8 |-> g[i - 1]] = <<g[0], g[1], g[2], g[3], g[4], g[5], g[6], g[7]>>
  <2> HIDE DEF g
  <2> QED BY Listed, Zenon
<1> HIDE DEF g
<1>11. Packed(L, 8, fields, 0) = [i \in 1..8 |-> 255]
  BY <1>8, <1>9, <1>10
<1>12. EncodeHeartbeat(0..63) = [i \in 1..8 |-> 255]
  BY DEF EncodeHeartbeat
<1> QED BY <1>11, <1>12

\* The length and the layout of each order.
LEMMA OrderShape ==
  /\ DOMAIN OrderLayout = OrderNames
  /\ \A name \in Control : OrderLayout[name] = [value |-> <<0, 32>>] /\ Length(name) = 8
  /\ \A name \in Periods : OrderLayout[name] = [period |-> <<0, 16>>] /\ Length(name) = 2
  /\ \A name \in DOMAIN SingleLayout : OrderLayout[name] = SingleLayout[name]
  /\ \A name \in OrderNames : Laid(OrderLayout[name]) /\ Plain(OrderLayout[name])
PROOF
<1>1. OrderNames = Control \union Periods \union DOMAIN SingleLayout
  BY DEF OrderNames, CommandOrders, MessageOrders, ParameterOrders, Control, Periods, SingleLayout
<1>2. DOMAIN OrderLayout = OrderNames
  BY <1>1 DEF OrderLayout
<1>3. \A name \in Control : OrderLayout[name] = [value |-> <<0, 32>>]
  BY DEF OrderLayout
<1>4. \A name \in Periods : name \notin Control /\ OrderLayout[name] = [period |-> <<0, 16>>]
  BY DEF OrderLayout, Control, Periods
<1>5. \A name \in DOMAIN SingleLayout : name \notin Control \union Periods
  BY DEF SingleLayout, Control, Periods
<1>6. \A name \in DOMAIN SingleLayout : OrderLayout[name] = SingleLayout[name]
  BY <1>5 DEF OrderLayout
<1>7. \A name \in Control : Length(name) = 8
  BY DEF Length, Control, Periods
<1>8. \A name \in Periods : Length(name) = 2
  BY DEF Length, Periods
<1>9. \A name \in OrderNames : Laid(OrderLayout[name]) /\ Plain(OrderLayout[name])
  BY <1>1, <1>3, <1>4, <1>6, OrdersLaid
<1> QED BY <1>2, <1>3, <1>4, <1>6, <1>7, <1>8, <1>9

\* What the library puts on the bus for an order is what the layout says.
LEMMA OrderWritten ==
  ASSUME NEW name \in OrderNames, NEW fields \in Contents(OrderLayout[name])
  PROVE  Payload(name, fields) = Packed(OrderLayout[name], Length(name), fields, 0)
PROOF
<1>1. CASE name \in Control
  <2>1. Payload(name, fields) = EncodeControl(fields.value)
    BY <1>1 DEF Payload, Control, Periods
  <2> QED BY <1>1, <2>1, OrderShape, ControlWritten
<1>2. CASE name \in Periods
  <2>1. Payload(name, fields) = EncodePeriod(fields.period)
    BY <1>2 DEF Payload, Control, Periods
  <2> QED BY <1>2, <2>1, OrderShape, PeriodWritten
<1>3. CASE name \in {"VelocitySetpoint", "PositionSetpoint"}
  <2>1. Payload(name, fields) = EncodeSetpoint(fields.value, fields.slot) /\ Length(name) = 8
    BY <1>3 DEF Payload, Length, Control, Periods
  <2>2. OrderLayout[name] = Setpoint25x
    BY <1>3, OrderShape DEF SingleLayout
  <2> QED BY <2>1, <2>2, SetpointWritten
<1>4. CASE name = "SetpointWithCtrlType"
  <2>1. /\ Payload(name, fields) = EncodeSetpointWithCtrlType(fields.value, fields.ctrlType, 6)
        /\ Length(name) = 8
    BY <1>4 DEF Payload, Length, Control, Periods
  <2> DEFINE L == OrderLayout[name]
  <2>2. L = [value |-> <<0, 32>>, ctrlType |-> <<48, 8>>]
    BY <1>4, OrderShape DEF SingleLayout
  <2>3. Laid(L) /\ Plain(L)
    BY OrderShape
  <2> HIDE DEF L
  <2>4. EncodeSetpointWithCtrlType(fields.value, fields.ctrlType, 6) = Packed(L, 8, fields, 0)
    BY <2>2, <2>3, CtrlTypeWritten DEF L
  <2> QED BY <2>1, <2>4 DEF L
<1>5. CASE name = "EncoderPosition"
  <2>1. Payload(name, fields) = EncodeSetEncoderPosition(fields.value) /\ Length(name) = 5
    BY <1>5 DEF Payload, Length, Control, Periods
  <2> DEFINE L == OrderLayout[name]
  <2>2. L = [value |-> <<0, 32>>, dataType |-> <<32, 8>>]
    BY <1>5, OrderShape DEF SingleLayout
  <2>3. Laid(L) /\ Plain(L)
    BY OrderShape
  <2> QED BY <2>1, <2>2, <2>3, PositionWritten
<1>6. CASE name = "ParamWrite"
  <2>1. Payload(name, fields) = EncodeParamWrite(fields.paramId, fields.value) /\ Length(name) = 5
    BY <1>6 DEF Payload, Length, Control, Periods
  <2> DEFINE L == OrderLayout[name]
  <2>2. L = [paramId |-> <<0, 8>>, value |-> <<8, 32>>]
    BY <1>6, OrderShape DEF SingleLayout
  <2>3. Laid(L) /\ Plain(L)
    BY OrderShape
  <2> QED BY <2>1, <2>2, <2>3, WriteWritten
<1>7. CASE name = "SetWord"
  <2>1. Payload(name, fields) = EncodeParameter(fields.type, fields.value) /\ Length(name) = 5
    BY <1>7 DEF Payload, Length, Control, Periods
  <2> DEFINE L == OrderLayout[name]
  <2>2. L = [value |-> <<0, 32>>, type |-> <<32, 8>>]
    BY <1>7, OrderShape DEF SingleLayout
  <2>3. Laid(L) /\ Plain(L)
    BY OrderShape
  <2> QED BY <2>1, <2>2, <2>3, SetWordWritten
<1>8. CASE name = "SetShort"
  <2>1. /\ Payload(name, fields) = EncodeParameter(fields.type, EncodePeriod(fields.value))
        /\ Length(name) = 5
    BY <1>8 DEF Payload, Length, Control, Periods
  <2> DEFINE L == OrderLayout[name]
  <2>2. L = [value |-> <<0, 16>>, type |-> <<32, 8>>]
    BY <1>8, OrderShape DEF SingleLayout
  <2>3. Laid(L) /\ Plain(L)
    BY OrderShape
  <2> QED BY <2>1, <2>2, <2>3, SetShortWritten
<1>9. CASE name = "SetByte"
  <2>1. Payload(name, fields) = EncodeParameter(fields.type, <<fields.value>>) /\ Length(name) = 5
    BY <1>9 DEF Payload, Length, Control, Periods
  <2> DEFINE L == OrderLayout[name]
  <2>2. L = [value |-> <<0, 8>>, type |-> <<32, 8>>]
    BY <1>9, OrderShape DEF SingleLayout
  <2>3. Laid(L) /\ Plain(L)
    BY OrderShape
  <2> QED BY <2>1, <2>2, <2>3, SetByteWritten
<1>10. CASE name \in {"Heartbeat", "Broadcast"}
  <2>1. /\ Payload(name, fields) =
             [i \in 1..8 |-> 255] \/ Payload(name, fields) = EncodeHeartbeat(0..63)
        /\ Length(name) = 8
    BY <1>10 DEF Payload, Length, Control, Periods
  <2>2. OrderLayout[name] = Mask
    BY <1>10, OrderShape DEF SingleLayout
  <2> QED BY <2>1, <2>2, MaskWritten
<1>11. CASE name = "BurnFlash"
  <2>1. Payload(name, fields) = <<163, 58>> /\ Length(name) = 2
    BY <1>11 DEF Payload, Length, Control, Periods
  <2> DEFINE L == OrderLayout[name]
  <2>2. L = [magic |-> <<0, 16>>]
    BY <1>11, OrderShape DEF SingleLayout
  <2>3. Laid(L) /\ Plain(L)
    BY OrderShape
  <2> QED BY <2>1, <2>2, <2>3, BurnWritten
<1>12. CASE name \in {"FactoryDefaults", "FactoryReset"}
  <2>1. Payload(name, fields) = <<1>> /\ Length(name) = 1
    BY <1>12 DEF Payload, Length, Control, Periods
  <2> DEFINE L == OrderLayout[name]
  <2>2. L = [yes |-> <<0, 8>>]
    BY <1>12, OrderShape DEF SingleLayout
  <2>3. Laid(L) /\ Plain(L)
    BY OrderShape
  <2> QED BY <2>1, <2>2, <2>3, YesWritten
<1>13. CASE name \in {"FirmwareQuery", "ParameterQuery"}
  <2>1. Payload(name, fields) = <<>> /\ Length(name) = 0
    BY <1>13 DEF Payload, Length, Control, Periods
  <2>2. OrderLayout[name] = <<>>
    BY <1>13, OrderShape DEF SingleLayout
  <2> QED BY <2>1, <2>2, NothingWritten
<1>14. CASE name \in {"Identify", "ClearFaults", "RemoteQuery"}
  <2>1. Payload(name, fields) = [i \in 1..8 |-> 0] /\ Length(name) = 8
    BY <1>14 DEF Payload, Length, Control, Periods
  <2>2. OrderLayout[name] = <<>>
    BY <1>14, OrderShape DEF SingleLayout
  <2> QED BY <2>1, <2>2, NothingWritten
<1> QED BY <1>1, <1>2, <1>3, <1>4, <1>5, <1>6, <1>7, <1>8, <1>9, <1>10, <1>11, <1>12, <1>13, <1>14
        DEF OrderNames, CommandOrders, MessageOrders, ParameterOrders

\* No payload is longer than a frame.
LEMMA Lengths == \A name : Length(name) \in 0..8
BY DEF Length

\* Whatever follows a layout is bytes, as many as a frame holds.
LEMMA PackedIsPayload ==
  ASSUME NEW layout, Laid(layout), Plain(layout), NEW fields \in Contents(layout),
         NEW fill \in Bit, NEW name
  PROVE  LET P == Packed(layout, Length(name), fields, fill) IN P \in Seq(Byte) /\ Len(P) = Length(name)
                                                                /\ Len(P) <= 8
PROOF
<1> DEFINE n == Length(name)
<1>1. n \in Nat /\ n <= 8
  BY Lengths
<1> HIDE DEF n
<1>2. Laid(layout) /\ Fit(layout, fields)
  BY <1>1, PlainFollows DEF Follows
<1>3. 0 \in Nat
  OBVIOUS
<1>4. Packed(layout, n, fields, fill) \in Seq(Byte) /\ Len(Packed(layout, n, fields, fill)) = n
  BY <1>1, <1>2, <1>3, RawBytes, Zenon
<1> QED BY <1>1, <1>4 DEF n

-----------------------------------------------------------------------------
(* The bus of Wire is that of ArbIds. *)

\* What is on the bus when nobody transmits.
LEMMA QuietFrame == Frame0 \in Own
PROOF
<1>1. (CHOOSE d \in Devices : TRUE) \in Devices
  BY BroadcastAssumption
<1>2. APICommand.Setpoint \in Commands
  BY DEF APICommand, Commands
<1> QED BY <1>1, <1>2 DEF Frame0, Own

\* Every step carries one of ArbIds's frames.
LEMMA NextFrame == WireNext => last' \in Frames
PROOF
<1>1. ASSUME NEW name \in DOMAIN ReportLayout, NEW device \in Devices, NEW fill \in {0, 1},
             NEW par \in ParsOf(name), NEW fields \in Contents(ReportLayout[name]),
             Report(name, device, par, fields, fill)
      PROVE  last' \in Frames
  BY <1>1, Layouts, ReportFrame DEF Report, Frames
<1>2. ASSUME NEW name \in DOMAIN OrderLayout, NEW device \in Devices,
             NEW par \in ParsOf(name), NEW fields \in Contents(OrderLayout[name]),
             Order(name, device, par, fields)
      PROVE  last' \in Frames
  BY <1>2, Layouts, OrderFrame DEF Order, Frames
<1>3. ASSUME NEW id \in Aliens, Alien(id)
      PROVE  last' \in Frames
  BY <1>3 DEF Alien, Frames
<1>4. Release => last' \in Frames
  BY QuietFrame DEF Release, Frames
<1> QED BY <1>1, <1>2, <1>3, <1>4 DEF WireNext, Transmit

\* Whatever controllers report and objects order, the bus behaves as ArbIds
\* says: every frame has an id that the library defines, or is a foreign one.
LEMMA OnBus == WireSpec => Spec
PROOF
<1>1. WireInit => Init
  BY QuietFrame DEF WireInit, Init
<1>2. [WireNext]_wireVars => [Next]_last
  <2>1. WireNext => Next
    BY NextFrame DEF Next, Send
  <2>2. UNCHANGED wireVars => UNCHANGED last
    BY DEF wireVars
  <2> QED BY <2>1, <2>2
<1> QED BY <1>1, <1>2, PTL DEF WireSpec, Spec

\* What is known of the ids of ArbIds is thereby known of those of Wire's frames:
\* each tells kind, code and controller, and passes exactly the filter of its
\* controller (ArbIds' IdIdentifies and FilterExact, which run wire checks).
THEOREM IdsOnWire == WireSpec => [](IdIdentifies /\ FilterExact)
PROOF
BY OnBus, Identification, Filtering, PTL

-----------------------------------------------------------------------------
(* The frame on the bus is all that one sender meant it to be. *)

\* A controller's report, an object's order, a foreign frame, or none.
Reported(name, device, par, fields, fill) ==
  /\ last = FrameOf(name, device, par)
  /\ message = [name |-> name, fields |-> fields]
  /\ payload = Packed(ReportLayout[name], Length(name), fields, fill)
Ordered(name, device, par, fields) ==
  /\ last = FrameOf(name, device, par)
  /\ message = [name |-> name, fields |-> fields]
  /\ payload = Payload(name, fields)
Foreign(id) ==
  /\ last = [kind |-> "alien", code |-> id, device |-> -1]
  /\ message = [name |-> "alien", fields |-> <<>>]
  /\ payload = [i \in 1..8 |-> 255]
Silent == last = Frame0 /\ message = Quiet /\ payload = <<>>

\* The inductive invariant: what is on the bus has one sender and one meaning.
Meant ==
  \/ Silent
  \/ \E name \in ReportNames, device \in Devices, fill \in Bit :
       \E par \in ParsOf(name), fields \in Contents(ReportLayout[name]) :
         Reported(name, device, par, fields, fill)
  \/ \E name \in OrderNames, device \in Devices :
       \E par \in ParsOf(name), fields \in Contents(OrderLayout[name]) :
         Ordered(name, device, par, fields)
  \/ \E id \in Aliens : Foreign(id)

\* Every frame on the bus is what one sender made of one content.
LEMMA MeantInv == WireSpec => []Meant
PROOF
<1>1. WireInit => Meant
  BY DEF WireInit, Meant, Silent
<1>2. Meant /\ [WireNext]_wireVars => Meant'
  <2> SUFFICES ASSUME Meant, [WireNext]_wireVars PROVE Meant'
    OBVIOUS
  <2>1. ASSUME NEW name \in DOMAIN ReportLayout, NEW device \in Devices, NEW fill \in {0, 1},
               NEW par \in ParsOf(name), NEW fields \in Contents(ReportLayout[name]),
               Report(name, device, par, fields, fill)
        PROVE  Meant'
    <3>1. Reported(name, device, par, fields, fill)'
      BY <2>1 DEF Report, Reported
    <3> QED BY <3>1, Layouts, Zenon DEF Meant, Bit
  <2>2. ASSUME NEW name \in DOMAIN OrderLayout, NEW device \in Devices,
               NEW par \in ParsOf(name), NEW fields \in Contents(OrderLayout[name]),
               Order(name, device, par, fields)
        PROVE  Meant'
    <3>1. Ordered(name, device, par, fields)'
      BY <2>2 DEF Order, Ordered
    <3> QED BY <3>1, Layouts, Zenon DEF Meant
  <2>3. ASSUME NEW id \in Aliens, Alien(id)
        PROVE  Meant'
    <3>1. Foreign(id)'
      BY <2>3 DEF Alien, Foreign
    <3> QED BY <3>1, Zenon DEF Meant
  <2>4. ASSUME Release
        PROVE  Meant'
    BY <2>4 DEF Release, Meant, Silent
  <2>5. CASE UNCHANGED wireVars
    BY <2>5 DEF wireVars, Meant, Silent, Reported, Ordered, Foreign
  <2> QED BY <2>1, <2>2, <2>3, <2>4, <2>5 DEF WireNext, Transmit
<1> QED BY <1>1, <1>2, PTL DEF WireSpec

\* The name of what is on the bus tells who sent it.
LEMMA Sender ==
  ASSUME Meant
  PROVE  /\ message.name \in ReportNames =>
              \E device \in Devices, fill \in Bit :
                \E par \in ParsOf(message.name), fields \in Contents(ReportLayout[message.name]) :
                  Reported(message.name, device, par, fields, fill)
         /\ message.name \in OrderNames =>
              \E device \in Devices :
                \E par \in ParsOf(message.name), fields \in Contents(OrderLayout[message.name]) :
                  Ordered(message.name, device, par, fields)
         /\ message.name = "alien" => \E id \in Aliens : Foreign(id)
PROOF
<1>0. /\ "quiet" \notin OrderNames \union ReportNames /\ "alien" \notin OrderNames \union ReportNames
      /\ ReportNames \intersect OrderNames = {}
  <2>1. "quiet" \notin OrderNames /\ "alien" \notin OrderNames
    BY DEF OrderNames, CommandOrders, MessageOrders, ParameterOrders, Control, Periods
  <2> QED BY <2>1, Layouts DEF ReportNames
<1>1. CASE Silent
  BY <1>0, <1>1 DEF Silent, Quiet
<1>2. CASE \E name \in ReportNames, device \in Devices, fill \in Bit :
             \E par \in ParsOf(name), fields \in Contents(ReportLayout[name]) :
               Reported(name, device, par, fields, fill)
  <2>1. PICK name \in ReportNames, device \in Devices, fill \in Bit :
          \E par \in ParsOf(name), fields \in Contents(ReportLayout[name]) :
            Reported(name, device, par, fields, fill)
    BY <1>2
  <2>2. message.name = name
    BY <2>1 DEF Reported
  <2> QED BY <1>0, <2>1, <2>2, Zenon
<1>3. CASE \E name \in OrderNames, device \in Devices :
             \E par \in ParsOf(name), fields \in Contents(OrderLayout[name]) :
               Ordered(name, device, par, fields)
  <2>1. PICK name \in OrderNames, device \in Devices :
          \E par \in ParsOf(name), fields \in Contents(OrderLayout[name]) :
            Ordered(name, device, par, fields)
    BY <1>3
  <2>2. message.name = name
    BY <2>1 DEF Ordered
  <2> QED BY <1>0, <2>1, <2>2, Zenon
<1>4. CASE \E id \in Aliens : Foreign(id)
  <2>1. message.name = "alien"
    BY <1>4 DEF Foreign
  <2> QED BY <1>0, <1>4, <2>1, Zenon
<1> QED BY <1>1, <1>2, <1>3, <1>4 DEF Meant

-----------------------------------------------------------------------------
(* Every frame of the library is well-formed. *)

\* What an object transmits is, bit for bit, what the layouts say, every field
\* where the controller expects it and zero everywhere else; and every payload
\* on the bus is at most eight bytes: Wire's WellFormed, for every content of
\* every field.
THEOREM FormedWell == WireSpec => []WellFormed
PROOF
<1>1. Meant => TypeOK
  <2>1. CASE Silent
    BY <2>1, QuietFrame DEF Silent, TypeOK, Frames
  <2>2. ASSUME NEW name \in ReportNames, NEW device \in Devices, NEW fill \in Bit,
               NEW par \in ParsOf(name), NEW fields \in Contents(ReportLayout[name]),
               Reported(name, device, par, fields, fill)
        PROVE  TypeOK
    <3>1. last \in Frames
      BY <2>2, ReportFrame DEF Reported, Frames
    <3>2. Laid(ReportLayout[name]) /\ Plain(ReportLayout[name])
      BY ReportsLaid
    <3>3. payload \in Seq(Byte) /\ Len(payload) <= 8
      BY <2>2, <3>2, PackedIsPayload DEF Reported
    <3> QED BY <3>1, <3>3 DEF TypeOK
  <2>3. ASSUME NEW name \in OrderNames, NEW device \in Devices,
               NEW par \in ParsOf(name), NEW fields \in Contents(OrderLayout[name]),
               Ordered(name, device, par, fields)
        PROVE  TypeOK
    <3>1. last \in Frames
      BY <2>3, OrderFrame DEF Ordered, Frames
    <3>2. Laid(OrderLayout[name]) /\ Plain(OrderLayout[name]) /\ 0 \in Bit
      BY OrderShape DEF Bit
    <3>3. payload = Packed(OrderLayout[name], Length(name), fields, 0)
      BY <2>3, OrderWritten DEF Ordered
    <3>4. payload \in Seq(Byte) /\ Len(payload) <= 8
      BY <3>2, <3>3, PackedIsPayload
    <3> QED BY <3>1, <3>4 DEF TypeOK
  <2>4. ASSUME NEW id \in Aliens, Foreign(id)
        PROVE  TypeOK
    <3>1. last \in Frames
      BY <2>4 DEF Foreign, Frames
    <3>2. payload \in Seq(Byte) /\ Len(payload) <= 8
      <4> DEFINE n == 8
      <4>1. payload \in [1..n -> Byte] /\ n \in Nat
        BY <2>4 DEF Foreign, Byte
      <4> HIDE DEF n
      <4>2. payload \in Seq(Byte) /\ Len(payload) = n
        BY <4>1, FunctionIsSequence
      <4> QED BY <4>2 DEF n
    <3> QED BY <3>1, <3>2 DEF TypeOK
  <2> QED BY <2>1, <2>2, <2>3, <2>4, Zenon DEF Meant
<1>2. Meant => OrdersAsLaidOut
  <2> SUFFICES ASSUME Meant, message.name \in OrderNames
               PROVE  payload = Packed(OrderLayout[message.name], Length(message.name),
                                       message.fields, 0)
    BY Layouts DEF OrdersAsLaidOut, IsOrder
  <2>1. PICK device \in Devices :
          \E par \in ParsOf(message.name), fields \in Contents(OrderLayout[message.name]) :
            Ordered(message.name, device, par, fields)
    BY Sender
  <2>2. PICK par \in ParsOf(message.name), fields \in Contents(OrderLayout[message.name]) :
          Ordered(message.name, device, par, fields)
    BY <2>1
  <2>3. message.fields = fields /\ payload = Payload(message.name, fields)
    BY <2>2 DEF Ordered
  <2> QED BY <2>2, <2>3, OrderWritten
<1> QED BY <1>1, <1>2, MeantInv, PTL DEF WellFormed

-----------------------------------------------------------------------------
(* Reports are heard, and orders are not mistaken for them. *)

\* The ids a reader thread looks for are those of these frames.
LEMMA LookedFor ==
  ASSUME NEW f \in Own, NEW d \in Devices
  PROVE  /\ \A cmd \in {"Period0", "Period1", "Period2", "Period3", "Period4", "FirmwareVersion"} :
              ArbId(f) = CreateArbId(APICommand[cmd], d) =>
                f.kind = "command" /\ f.code = APICommand[cmd]
         /\ ArbId(f) = MakeArbId(14, 1, d) => f.kind = "message25x" /\ f.code = 225
         /\ \A n \in 0..5 :
              ArbId(f) = StatusArbId(n, d) => f.kind = "message25x" /\ f.code = 736 + n
PROOF
<1>1. ASSUME NEW cmd \in {"Period0", "Period1", "Period2", "Period3", "Period4", "FirmwareVersion"},
             ArbId(f) = CreateArbId(APICommand[cmd], d)
      PROVE  f.kind = "command" /\ f.code = APICommand[cmd]
  <2> DEFINE g == [kind |-> "command", code |-> APICommand[cmd], device |-> d]
  <2>1. APICommand[cmd] \in Commands
    BY DEF APICommand, Commands
  <2>2. g \in Own
    BY <2>1 DEF Own
  <2>3. ArbId(g) = CreateArbId(APICommand[cmd], d)
    BY DEF ArbId
  <2>4. f = g
    BY <1>1, <2>2, <2>3, IdsDiffer
  <2> QED BY <2>4
<1>2. ASSUME NEW c \in Messages25x, ArbId(f) = MakeArbId(c \div 16, c % 16, d)
      PROVE  f.kind = "message25x" /\ f.code = c
  <2> DEFINE g == [kind |-> "message25x", code |-> c, device |-> d]
  <2>1. g \in Own
    BY DEF Own
  <2>2. ArbId(g) = MakeArbId(c \div 16, c % 16, d)
    BY DEF ArbId
  <2>3. f = g
    BY <1>2, <2>1, <2>2, IdsDiffer
  <2> QED BY <2>3
<1>3. 225 \in Messages25x /\ 225 \div 16 = 14 /\ 225 % 16 = 1
  BY DEF Messages25x
<1>4. ASSUME NEW n \in 0..5
      PROVE  736 + n \in Messages25x /\ (736 + n) \div 16 = 46 /\ (736 + n) % 16 = n
  BY DEF Messages25x
<1>5. ASSUME NEW n \in 0..5, ArbId(f) = StatusArbId(n, d)
      PROVE  f.kind = "message25x" /\ f.code = 736 + n
  BY <1>2, <1>4, <1>5 DEF StatusArbId
<1> QED BY <1>1, <1>2, <1>3, <1>5

\* No object takes an order of this host, or a foreign frame, for a report of
\* its controller, but for a period setting or a remote query.
THEOREM Unmistaken == WireSpec => []OrdersAreNotReports
PROOF
<1>1. Meant => OrdersAreNotReports
  <2> SUFFICES ASSUME Meant, IsOrder \/ message.name = "alien",
                      message.name \notin Periods \union {"RemoteQuery"},
                      NEW d \in Devices, NEW p \in Protocols
               PROVE  Understand(p, d, ArbId(last), payload) = Nothing
    BY DEF OrdersAreNotReports
  <2>1. CASE message.name = "alien"
    <3>1. ArbId(last) \in Aliens
      BY <2>1, Sender DEF Foreign, ArbId
    <3>2. ~Accepts(d, ArbId(last))
      BY <3>1, AliensRefused
    <3> QED BY <3>2 DEF Understand
  <2>2. CASE message.name = "FirmwareQuery"
    <3>1. payload = <<>>
      <4>1. message.name \in OrderNames
        BY <2>2 DEF OrderNames
      <4>2. payload = Payload("FirmwareQuery", message.fields)
        BY <2>2, <4>1, Sender DEF Ordered
      <4> QED BY <4>2 DEF Payload, Control, Periods
    <3> QED BY <3>1 DEF Understand
  <2>3. CASE message.name \in OrderNames \ {"FirmwareQuery"}
    <3>1. PICK device \in Devices, par \in ParsOf(message.name) :
            last = FrameOf(message.name, device, par)
      BY <2>3, Sender DEF Ordered
    <3>2. /\ last \in Own
          /\ \/ last.kind = "parameter"
             \/ last.kind = "message25x" /\ last.code # 225 /\ last.code < 736
             \/ last.kind = "command" /\ last.code \notin {96, 97, 98, 99, 100, 152}
      BY <2>3, <3>1, OrderFrame
    <3>3. \A cmd \in {"Period0", "Period1", "Period2", "Period3", "Period4", "FirmwareVersion"} :
            APICommand[cmd] \in {96, 97, 98, 99, 100, 152}
      BY DEF APICommand
    <3>4. \A cmd \in {"Period0", "Period1", "Period2", "Period3", "Period4", "FirmwareVersion"} :
            ArbId(last) # CreateArbId(APICommand[cmd], d)
      BY <3>2, <3>3, LookedFor
    <3>5. ArbId(last) # MakeArbId(14, 1, d)
      BY <3>2, LookedFor
    <3>6. \A n \in 0..5 : ArbId(last) # StatusArbId(n, d)
      BY <3>2, LookedFor
    <3>7. /\ ArbId(last) # StatusArbId(0, d) /\ ArbId(last) # StatusArbId(1, d)
          /\ ArbId(last) # StatusArbId(2, d) /\ ArbId(last) # StatusArbId(3, d)
          /\ ArbId(last) # StatusArbId(4, d) /\ ArbId(last) # StatusArbId(5, d)
      BY <3>6
    <3> QED BY <3>4, <3>5, <3>7 DEF Understand
  <2> QED BY <2>1, <2>2, <2>3, Layouts DEF IsOrder
<1> QED BY <1>1, MeantInv, PTL

-----------------------------------------------------------------------------
(* Reports are heard as they were said. *)

\* An object that the frame is not from or for sees nothing of it.
LEMMA Unheard ==
  ASSUME NEW f \in Own, NEW d, d # f.device, NEW p, NEW data
  PROVE  Understand(p, d, ArbId(f), data) = Nothing
PROOF
<1>1. ~Accepts(d, ArbId(f))
  BY IdFields, SMT DEF Accepts
<1> QED BY <1>1 DEF Understand

\* What an object of the frame's device makes of it, by its kind and code.
LEMMA Dispatch ==
  ASSUME NEW f \in Own, NEW p \in Protocols, NEW data, Len(data) # 0
  PROVE  LET heard == Understand(p, f.device, ArbId(f), data)
             command(c) == f.kind = "command" /\ f.code = APICommand[c]
             status(n) == p = "Spark25x" /\ Len(data) = 8 /\ f.kind = "message25x" /\ f.code = 736 + n
         IN /\ command("Period0") => heard = Heard("Period0", DecodePeriod0(data))
            /\ command("Period1") => heard = Heard("Period1", DecodePeriod1(data))
            /\ command("Period2") => heard = Heard("Period2", DecodePeriod2(data))
            /\ command("Period3") => heard = Heard("Period3", DecodePeriod3(data))
            /\ command("Period4") => heard = Heard("Period4", DecodePeriod4(data))
            /\ command("FirmwareVersion") /\ Len(data) >= 5 => heard = Heard("Firmware", DecodeFirmware(data))
            /\ f.kind = "message25x" /\ f.code = 225 /\ p = "Spark25x" /\ Len(data) >= 7
                 => heard = Heard("WriteResponse", DecodeParamWriteResponse(data))
            /\ status(0) => heard = Heard("Status0", DecodeStatus0(data))
            /\ status(1) => heard = Heard("Status1", DecodeStatus1(data))
            /\ status(2) => heard = Heard("Status2", DecodeStatus2(data))
            /\ status(3) => heard = Heard("Status3", DecodeStatus3(data))
            /\ status(4) => heard = Heard("Status4", DecodeStatus4(data))
            /\ status(5) => heard = Heard("Status5", DecodeStatus5(data))
            /\ f.kind = "message25x" /\ p # "Spark25x" => heard = Nothing
            /\ f.kind = "parameter" => heard = Nothing
PROOF
<1> DEFINE d == f.device
           id == ArbId(f)
           command(c) == f.kind = "command" /\ f.code = APICommand[c]
           Names == {"Period0", "Period1", "Period2", "Period3", "Period4", "FirmwareVersion"}
           is(c) == id = CreateArbId(APICommand[c], d)
           response == id = MakeArbId(14, 1, d)
           status(n) == id = StatusArbId(n, d)
           heard == Understand(p, d, id, data)
<1>1. d \in Devices /\ Accepts(d, id)
  <2>1. d \in Devices
    BY DEF Own
  <2> QED BY <2>1, IdFields, SMT DEF Accepts
<1>2. \A c \in Names : is(c) <=> command(c)
  <2>1. \A c \in Names : is(c) => command(c)
    BY <1>1, LookedFor
  <2>2. \A c \in Names : command(c) => is(c)
    BY DEF ArbId
  <2> QED BY <2>1, <2>2
<1>3. response <=> f.kind = "message25x" /\ f.code = 225
  <2>1. response => f.kind = "message25x" /\ f.code = 225
    BY <1>1, LookedFor
  <2>2. ASSUME f.kind = "message25x", f.code = 225 PROVE response
    <3>1. 225 \div 16 = 14 /\ 225 % 16 = 1
      OBVIOUS
    <3> QED BY <2>2, <3>1 DEF ArbId
  <2> QED BY <2>1, <2>2
<1>4. \A n \in 0..5 : status(n) <=> f.kind = "message25x" /\ f.code = 736 + n
  <2>1. \A n \in 0..5 : status(n) => f.kind = "message25x" /\ f.code = 736 + n
    BY <1>1, LookedFor
  <2>2. ASSUME NEW n \in 0..5, f.kind = "message25x", f.code = 736 + n PROVE status(n)
    <3>1. (736 + n) \div 16 = 46 /\ (736 + n) % 16 = n
      OBVIOUS
    <3>2. id = MakeArbId((736 + n) \div 16, (736 + n) % 16, d)
      BY <2>2 DEF ArbId
    <3>3. StatusArbId(n, d) = MakeArbId(46, n, d)
      BY DEF StatusArbId
    <3> QED BY <3>1, <3>2, <3>3
  <2> QED BY <2>1, <2>2
<1>5. /\ APICommand["Period0"] = 96 /\ APICommand["Period1"] = 97 /\ APICommand["Period2"] = 98
      /\ APICommand["Period3"] = 99 /\ APICommand["Period4"] = 100 /\ APICommand["FirmwareVersion"] = 152
  BY DEF APICommand
<1>6. heard =
        CASE is("Period0") -> Heard("Period0", DecodePeriod0(data))
          [] is("Period1") -> Heard("Period1", DecodePeriod1(data))
          [] is("Period2") -> Heard("Period2", DecodePeriod2(data))
          [] is("Period3") -> Heard("Period3", DecodePeriod3(data))
          [] is("Period4") -> Heard("Period4", DecodePeriod4(data))
          [] is("FirmwareVersion") /\ Len(data) >= 5 -> Heard("Firmware", DecodeFirmware(data))
          [] p = "Spark25x" /\ response /\ Len(data) >= 7 ->
               Heard("WriteResponse", DecodeParamWriteResponse(data))
          [] p = "Spark25x" /\ Len(data) = 8 /\ status(0) -> Heard("Status0", DecodeStatus0(data))
          [] p = "Spark25x" /\ Len(data) = 8 /\ status(1) -> Heard("Status1", DecodeStatus1(data))
          [] p = "Spark25x" /\ Len(data) = 8 /\ status(2) -> Heard("Status2", DecodeStatus2(data))
          [] p = "Spark25x" /\ Len(data) = 8 /\ status(3) -> Heard("Status3", DecodeStatus3(data))
          [] p = "Spark25x" /\ Len(data) = 8 /\ status(4) -> Heard("Status4", DecodeStatus4(data))
          [] p = "Spark25x" /\ Len(data) = 8 /\ status(5) -> Heard("Status5", DecodeStatus5(data))
          [] OTHER -> Nothing
  BY <1>1 DEF Understand
<1>7. /\ is("Period0") <=> command("Period0")
      /\ is("Period1") <=> command("Period1")
      /\ is("Period2") <=> command("Period2")
      /\ is("Period3") <=> command("Period3")
      /\ is("Period4") <=> command("Period4")
      /\ is("FirmwareVersion") <=> command("FirmwareVersion")
  BY <1>2
<1>8. /\ status(0) <=> f.kind = "message25x" /\ f.code = 736
      /\ status(1) <=> f.kind = "message25x" /\ f.code = 737
      /\ status(2) <=> f.kind = "message25x" /\ f.code = 738
      /\ status(3) <=> f.kind = "message25x" /\ f.code = 739
      /\ status(4) <=> f.kind = "message25x" /\ f.code = 740
      /\ status(5) <=> f.kind = "message25x" /\ f.code = 741
  BY <1>4
<1> HIDE DEF heard, is, response, status
<1>9. command("Period0") => heard = Heard("Period0", DecodePeriod0(data))
  BY <1>3, <1>5, <1>6, <1>7, <1>8
<1>10. command("Period1") => heard = Heard("Period1", DecodePeriod1(data))
  BY <1>3, <1>5, <1>6, <1>7, <1>8
<1>11. command("Period2") => heard = Heard("Period2", DecodePeriod2(data))
  BY <1>3, <1>5, <1>6, <1>7, <1>8
<1>12. command("Period3") => heard = Heard("Period3", DecodePeriod3(data))
  BY <1>3, <1>5, <1>6, <1>7, <1>8
<1>13. command("Period4") => heard = Heard("Period4", DecodePeriod4(data))
  BY <1>3, <1>5, <1>6, <1>7, <1>8
<1>14. command("FirmwareVersion") /\ Len(data) >= 5 => heard = Heard("Firmware", DecodeFirmware(data))
  BY <1>3, <1>5, <1>6, <1>7, <1>8
<1>15. f.kind = "message25x" /\ f.code = 225 /\ p = "Spark25x" /\ Len(data) >= 7
         => heard = Heard("WriteResponse", DecodeParamWriteResponse(data))
  BY <1>3, <1>5, <1>6, <1>7, <1>8
<1>16. p = "Spark25x" /\ Len(data) = 8 /\ f.kind = "message25x" =>
         /\ f.code = 736 + 0 => heard = Heard("Status0", DecodeStatus0(data))
         /\ f.code = 736 + 1 => heard = Heard("Status1", DecodeStatus1(data))
         /\ f.code = 736 + 2 => heard = Heard("Status2", DecodeStatus2(data))
         /\ f.code = 736 + 3 => heard = Heard("Status3", DecodeStatus3(data))
         /\ f.code = 736 + 4 => heard = Heard("Status4", DecodeStatus4(data))
         /\ f.code = 736 + 5 => heard = Heard("Status5", DecodeStatus5(data))
  BY <1>3, <1>5, <1>6, <1>7, <1>8
<1>17. f.kind = "message25x" /\ p # "Spark25x" => heard = Nothing
  BY <1>3, <1>5, <1>6, <1>7, <1>8
<1>18. f.kind = "parameter" => heard = Nothing
  BY <1>3, <1>5, <1>6, <1>7, <1>8
<1> QED BY <1>9, <1>10, <1>11, <1>12, <1>13, <1>14, <1>15, <1>16, <1>17, <1>18 DEF heard

\* The frame, the length and the receivers of each report.
LEMMA ReportShape ==
  ASSUME NEW name \in ReportNames, NEW device \in Devices, NEW par \in ParsOf(name)
  PROVE  LET f == FrameOf(name, device, par)
             command(c) == f.kind = "command" /\ f.code = APICommand[c]
             status(n) == f.kind = "message25x" /\ f.code = 736 + n
         IN /\ f.device = device
            /\ name = "Period0" => command("Period0") /\ Length(name) = 8
            /\ name = "Period1" => command("Period1") /\ Length(name) = 8
            /\ name = "Period2" => command("Period2") /\ Length(name) = 8
            /\ name = "Period3" => command("Period3") /\ Length(name) = 8
            /\ name = "Period4" => command("Period4") /\ Length(name) = 8
            /\ name = "Firmware" => command("FirmwareVersion") /\ Length(name) = 8
            /\ name = "WriteResponse" => f.kind = "message25x" /\ f.code = 225 /\ Length(name) = 7
            /\ name = "Status0" => status(0) /\ Length(name) = 8
            /\ name = "Status1" => status(1) /\ Length(name) = 8
            /\ name = "Status2" => status(2) /\ Length(name) = 8
            /\ name = "Status3" => status(3) /\ Length(name) = 8
            /\ name = "Status4" => status(4) /\ Length(name) = 8
            /\ name = "Status5" => status(5) /\ Length(name) = 8
            /\ name = "Answer" => f.kind = "parameter" /\ f.code = par /\ Length(name) = 8
            /\ Length(name) # 0
PROOF
<1> DEFINE f == FrameOf(name, device, par)
<1>1. CASE name \in {"Period0", "Period1", "Period2", "Period3", "Period4", "Firmware"}
  <2> DEFINE c == IF name = "Firmware" THEN "FirmwareVersion" ELSE name
  <2>1. f = [kind |-> "command", code |-> APICommand[c], device |-> device]
    BY <1>1, Tables DEF FrameOf, ParameterFrames, MessageOrders, CommandOf, Periods
  <2>2. Length(name) = 8
    BY <1>1 DEF Length, Periods
  <2> HIDE DEF f
  <2> QED BY <1>1, <2>1, <2>2 DEF f
<1>2. CASE name \in DOMAIN StatusIndex
  <2>1. f = [kind |-> "message25x", code |-> 736 + StatusIndex[name], device |-> device]
    BY <1>2, Tables DEF FrameOf, MessageOrders
  <2>2. Length(name) = 8
    BY <1>2, Tables DEF Length, Periods
  <2>3. /\ StatusIndex["Status0"] = 0 /\ StatusIndex["Status1"] = 1 /\ StatusIndex["Status2"] = 2
        /\ StatusIndex["Status3"] = 3 /\ StatusIndex["Status4"] = 4 /\ StatusIndex["Status5"] = 5
    BY DEF StatusIndex
  <2>4. name \in {"Status0", "Status1", "Status2", "Status3", "Status4", "Status5"}
    BY <1>2, Tables
  <2> HIDE DEF f
  <2> QED BY <2>1, <2>2, <2>3, <2>4 DEF f
<1>3. CASE name = "WriteResponse"
  <2>1. f = [kind |-> "message25x", code |-> 225, device |-> device]
    BY <1>3, Tables DEF FrameOf, Message25x
  <2>2. Length(name) = 7
    BY <1>3 DEF Length, Periods
  <2> HIDE DEF f
  <2> QED BY <1>3, <2>1, <2>2 DEF f
<1>4. CASE name = "Answer"
  <2>1. f = [kind |-> "parameter", code |-> par, device |-> device]
    BY <1>4, Tables DEF FrameOf, ParameterFrames, MessageOrders
  <2>2. Length(name) = 8
    BY <1>4 DEF Length, Periods
  <2> HIDE DEF f
  <2> QED BY <1>4, <2>1, <2>2 DEF f
<1> QED BY <1>1, <1>2, <1>3, <1>4, Tables DEF ReportNames

\* Who hears a report.
LEMMA Hearers ==
  ASSUME NEW p \in Protocols
  PROVE  /\ \A name \in {"Period0", "Period1", "Period2", "Period3", "Period4", "Firmware"} : Hears(p, name)
         /\ \A name \in {"WriteResponse", "Status0", "Status1", "Status2", "Status3", "Status4", "Status5"} :
              Hears(p, name) <=> p = "Spark25x"
         /\ ~Hears(p, "Answer")
PROOF
<1>1. \A name \in {"WriteResponse", "Status0", "Status1", "Status2", "Status3", "Status4", "Status5"} :
        name \in DOMAIN Message25x \union DOMAIN StatusIndex
  BY Tables
<1>2. "Answer" \notin DOMAIN Message25x \union DOMAIN StatusIndex
  BY Tables DEF MessageOrders
<1> QED BY <1>1, <1>2 DEF Hears

\* An object of the controller hears a report as it was said, in its protocol.
LEMMA ReportUnderstood ==
  ASSUME NEW name \in ReportNames, NEW device \in Devices, NEW par \in ParsOf(name),
         NEW fields \in Contents(ReportLayout[name]), NEW fill \in Bit, NEW p \in Protocols
  PROVE  Understand(p, device, ArbId(FrameOf(name, device, par)),
                    Packed(ReportLayout[name], Length(name), fields, fill)) =
           IF Hears(p, name) THEN Heard(name, Told(name, fields)) ELSE Nothing
PROOF
<1> DEFINE f == FrameOf(name, device, par)
           P == Packed(ReportLayout[name], Length(name), fields, fill)
           heard == Understand(p, device, ArbId(f), P)
<1>1. f \in Own /\ f.device = device
  BY ReportFrame, ReportShape
<1>2. Len(P) = Length(name)
  BY ReportsLaid, PackedIsPayload
<1>3. Length(name) # 0
  BY ReportShape
<1>4. CASE name = "Period0"
  <2>1. Length(name) = 8
    BY <1>4, ReportShape
  <2>2. P = Packed(ReportLayout["Period0"], 8, fields, fill)
    BY <1>4, <2>1
  <2>3. heard = Heard("Period0", DecodePeriod0(P))
    BY <1>1, <1>2, <1>4, <2>1, ReportShape, Dispatch
  <2>4. DecodePeriod0(P) = Told("Period0", fields)
    BY <1>4, <2>2, Period0Read
  <2> QED BY <1>4, <2>3, <2>4, Hearers
<1>5. CASE name = "Period1"
  <2>1. Length(name) = 8
    BY <1>5, ReportShape
  <2>2. P = Packed(ReportLayout["Period1"], 8, fields, fill)
    BY <1>5, <2>1
  <2>3. heard = Heard("Period1", DecodePeriod1(P))
    BY <1>1, <1>2, <1>5, <2>1, ReportShape, Dispatch
  <2>4. DecodePeriod1(P) = Told("Period1", fields)
    BY <1>5, <2>2, Period1Read
  <2> QED BY <1>5, <2>3, <2>4, Hearers
<1>6. CASE name = "Period2"
  <2>1. Length(name) = 8
    BY <1>6, ReportShape
  <2>2. P = Packed(ReportLayout["Period2"], 8, fields, fill)
    BY <1>6, <2>1
  <2>3. heard = Heard("Period2", DecodePeriod2(P))
    BY <1>1, <1>2, <1>6, <2>1, ReportShape, Dispatch
  <2>4. DecodePeriod2(P) = Told("Period2", fields)
    BY <1>6, <2>2, Period2Read
  <2> QED BY <1>6, <2>3, <2>4, Hearers
<1>7. CASE name = "Period3"
  <2>1. Length(name) = 8
    BY <1>7, ReportShape
  <2>2. P = Packed(ReportLayout["Period3"], 8, fields, fill)
    BY <1>7, <2>1
  <2>3. heard = Heard("Period3", DecodePeriod3(P))
    BY <1>1, <1>2, <1>7, <2>1, ReportShape, Dispatch
  <2>4. DecodePeriod3(P) = Told("Period3", fields)
    BY <1>7, <2>2, Period3Read
  <2> QED BY <1>7, <2>3, <2>4, Hearers
<1>8. CASE name = "Period4"
  <2>1. Length(name) = 8
    BY <1>8, ReportShape
  <2>2. P = Packed(ReportLayout["Period4"], 8, fields, fill)
    BY <1>8, <2>1
  <2>3. heard = Heard("Period4", DecodePeriod4(P))
    BY <1>1, <1>2, <1>8, <2>1, ReportShape, Dispatch
  <2>4. DecodePeriod4(P) = Told("Period4", fields)
    BY <1>8, <2>2, Period4Read
  <2> QED BY <1>8, <2>3, <2>4, Hearers
<1>9. CASE name = "Firmware"
  <2>1. Length(name) = 8
    BY <1>9, ReportShape
  <2>2. P = Packed(ReportLayout["Firmware"], 8, fields, fill)
    BY <1>9, <2>1
  <2>3. heard = Heard("Firmware", DecodeFirmware(P))
    BY <1>1, <1>2, <1>9, <2>1, ReportShape, Dispatch
  <2>4. DecodeFirmware(P) = Told("Firmware", fields)
    BY <1>9, <2>2, FirmwareRead
  <2> QED BY <1>9, <2>3, <2>4, Hearers
<1>10. CASE name = "WriteResponse"
  <2>1. Length(name) = 7
    BY <1>10, ReportShape
  <2>2. P = Packed(ReportLayout["WriteResponse"], 7, fields, fill)
    BY <1>10, <2>1
  <2>3. IF p = "Spark25x" THEN heard = Heard("WriteResponse", DecodeParamWriteResponse(P)) ELSE heard = Nothing
    BY <1>1, <1>2, <1>10, <2>1, ReportShape, Dispatch
  <2>4. DecodeParamWriteResponse(P) = Told("WriteResponse", fields)
    BY <1>10, <2>2, WriteResponseRead
  <2> QED BY <1>10, <2>3, <2>4, Hearers
<1>11. CASE name = "Status0"
  <2>1. Length(name) = 8
    BY <1>11, ReportShape
  <2>2. P = Packed(ReportLayout["Status0"], 8, fields, fill)
    BY <1>11, <2>1
  <2>3. IF p = "Spark25x" THEN heard = Heard("Status0", DecodeStatus0(P)) ELSE heard = Nothing
    <3>1. f.kind = "message25x" /\ f.code = 736 + 0
      BY <1>11, ReportShape
    <3>2. Len(P) = 8 /\ Len(P) # 0
      BY <1>2, <2>1
    <3> HIDE DEF f, P
    <3> QED BY <1>1, <3>1, <3>2, Dispatch
  <2>4. DecodeStatus0(P) = Told("Status0", fields)
    BY <1>11, <2>2, Status0Read
  <2> QED BY <1>11, <2>3, <2>4, Hearers
<1>12. CASE name = "Status1"
  <2>1. Length(name) = 8
    BY <1>12, ReportShape
  <2>2. P = Packed(ReportLayout["Status1"], 8, fields, fill)
    BY <1>12, <2>1
  <2>3. IF p = "Spark25x" THEN heard = Heard("Status1", DecodeStatus1(P)) ELSE heard = Nothing
    <3>1. f.kind = "message25x" /\ f.code = 736 + 1
      BY <1>12, ReportShape
    <3>2. Len(P) = 8 /\ Len(P) # 0
      BY <1>2, <2>1
    <3> HIDE DEF f, P
    <3> QED BY <1>1, <3>1, <3>2, Dispatch
  <2>4. DecodeStatus1(P) = Told("Status1", fields)
    BY <1>12, <2>2, Status1Read
  <2> QED BY <1>12, <2>3, <2>4, Hearers
<1>13. CASE name = "Status2"
  <2>1. Length(name) = 8
    BY <1>13, ReportShape
  <2>2. P = Packed(ReportLayout["Status2"], 8, fields, fill)
    BY <1>13, <2>1
  <2>3. IF p = "Spark25x" THEN heard = Heard("Status2", DecodeStatus2(P)) ELSE heard = Nothing
    <3>1. f.kind = "message25x" /\ f.code = 736 + 2
      BY <1>13, ReportShape
    <3>2. Len(P) = 8 /\ Len(P) # 0
      BY <1>2, <2>1
    <3> HIDE DEF f, P
    <3> QED BY <1>1, <3>1, <3>2, Dispatch
  <2>4. DecodeStatus2(P) = Told("Status2", fields)
    BY <1>13, <2>2, Status2Read
  <2> QED BY <1>13, <2>3, <2>4, Hearers
<1>14. CASE name = "Status3"
  <2>1. Length(name) = 8
    BY <1>14, ReportShape
  <2>2. P = Packed(ReportLayout["Status3"], 8, fields, fill)
    BY <1>14, <2>1
  <2>3. IF p = "Spark25x" THEN heard = Heard("Status3", DecodeStatus3(P)) ELSE heard = Nothing
    <3>1. f.kind = "message25x" /\ f.code = 736 + 3
      BY <1>14, ReportShape
    <3>2. Len(P) = 8 /\ Len(P) # 0
      BY <1>2, <2>1
    <3> HIDE DEF f, P
    <3> QED BY <1>1, <3>1, <3>2, Dispatch
  <2>4. DecodeStatus3(P) = Told("Status3", fields)
    BY <1>14, <2>2, Status3Read
  <2> QED BY <1>14, <2>3, <2>4, Hearers
<1>15. CASE name = "Status4"
  <2>1. Length(name) = 8
    BY <1>15, ReportShape
  <2>2. P = Packed(ReportLayout["Status4"], 8, fields, fill)
    BY <1>15, <2>1
  <2>3. IF p = "Spark25x" THEN heard = Heard("Status4", DecodeStatus4(P)) ELSE heard = Nothing
    <3>1. f.kind = "message25x" /\ f.code = 736 + 4
      BY <1>15, ReportShape
    <3>2. Len(P) = 8 /\ Len(P) # 0
      BY <1>2, <2>1
    <3> HIDE DEF f, P
    <3> QED BY <1>1, <3>1, <3>2, Dispatch
  <2>4. DecodeStatus4(P) = Told("Status4", fields)
    BY <1>15, <2>2, Status4Read
  <2> QED BY <1>15, <2>3, <2>4, Hearers
<1>16. CASE name = "Status5"
  <2>1. Length(name) = 8
    BY <1>16, ReportShape
  <2>2. P = Packed(ReportLayout["Status5"], 8, fields, fill)
    BY <1>16, <2>1
  <2>3. IF p = "Spark25x" THEN heard = Heard("Status5", DecodeStatus5(P)) ELSE heard = Nothing
    <3>1. f.kind = "message25x" /\ f.code = 736 + 5
      BY <1>16, ReportShape
    <3>2. Len(P) = 8 /\ Len(P) # 0
      BY <1>2, <2>1
    <3> HIDE DEF f, P
    <3> QED BY <1>1, <3>1, <3>2, Dispatch
  <2>4. DecodeStatus5(P) = Told("Status5", fields)
    BY <1>16, <2>2, Status5Read
  <2> QED BY <1>16, <2>3, <2>4, Hearers
<1>17. CASE name = "Answer"
  <2>1. heard = Nothing
    BY <1>1, <1>2, <1>3, <1>17, ReportShape, Dispatch
  <2> QED BY <1>17, <2>1, Hearers
<1> QED BY <1>4, <1>5, <1>6, <1>7, <1>8, <1>9, <1>10, <1>11, <1>12, <1>13, <1>14, <1>15, <1>16, <1>17 DEF ReportNames

\* A query takes out of a parameter frame what is said in it about its
\* parameter, and nothing out of another's.
LEMMA AnswerUnderstood ==
  ASSUME NEW device \in Devices, NEW said \in SomeIds, NEW fill \in Bit,
         NEW fields \in Contents(ReportLayout["Answer"]), NEW d \in Devices, NEW par \in SomeIds
  PROVE  LET v == fields.value
             f == FrameOf("Answer", device, said) IN
         Answered(par, d, ArbId(f), Packed(ReportLayout["Answer"], 8, fields, fill)) =
           IF device # d \/ said # par THEN [type |-> "none", value |-> Zero32]
           ELSE CASE fields.type = 1 -> [type |-> "uint", value |-> v]
                  [] fields.type = 2 -> [type |-> "float", value |-> v]
                  [] fields.type = 3 -> [type |-> "bool", value |-> v[1] # 0]
                  [] OTHER -> [type |-> "none", value |-> Zero32]
PROOF
<1> DEFINE v == fields["value"]
           t == fields["type"]
           f == FrameOf("Answer", device, said)
           g == [kind |-> "parameter", code |-> par, device |-> d]
           P == Packed(ReportLayout["Answer"], 8, fields, fill)
<1>1. f = [kind |-> "parameter", code |-> said, device |-> device]
  BY Tables DEF FrameOf, ParameterFrames, MessageOrders
<1>2. f \in Own /\ g \in Own
  BY <1>1, SomeIdsAssumption DEF Own
<1>3. ArbId(g) = CreateParamArbId(par, d)
  BY DEF ArbId
<1>4. ArbId(f) = CreateParamArbId(par, d) <=> (device = d /\ said = par)
  BY <1>1, <1>2, <1>3, IdsDiffer
<1>5. FloatAt(P, 0) = v /\ RawByte(P, 4) = t /\ RawByte(P, 0) = v[1]
  BY AnswerRead
<1> HIDE DEF P, f, v, t
<1>6. DecodeParameter(P) =
        CASE t = 1 -> [type |-> "uint", value |-> v]
          [] t = 2 -> [type |-> "float", value |-> v]
          [] t = 3 -> [type |-> "bool", value |-> v[1] # 0]
          [] OTHER -> [type |-> "none", value |-> Zero32]
  BY <1>5 DEF DecodeParameter
<1>7. CASE device = d /\ said = par
  <2>1. Answered(par, d, ArbId(f), P) = DecodeParameter(P)
    BY <1>4, <1>7 DEF Answered
  <2> QED BY <1>6, <1>7, <2>1 DEF P, f, v, t
<1>8. CASE device # d \/ said # par
  <2>1. Answered(par, d, ArbId(f), P) = [type |-> "none", value |-> Zero32]
    BY <1>4, <1>8 DEF Answered
  <2> QED BY <1>8, <2>1 DEF P, f
<1> QED BY <1>7, <1>8

\* Whatever a controller puts into a report or an answer, every object that is
\* meant to hear it takes out exactly that, whatever stands in the bits between
\* the fields, and no other object hears anything: Wire's HeardAsSaid, for every
\* content of every field.
THEOREM HeardRight == WireSpec => []HeardAsSaid
PROOF
<1>1. Meant => ReportsHeard
  <2> SUFFICES ASSUME Meant, message.name \in ReportNames, NEW d \in Devices, NEW p \in Protocols
               PROVE  Understand(p, d, ArbId(last), payload) =
                        IF d = last.device /\ Hears(p, message.name)
                        THEN Heard(message.name, Told(message.name, message.fields)) ELSE Nothing
    BY Layouts DEF ReportsHeard, IsReport
  <2> DEFINE name == message.name
  <2>1. PICK device \in Devices, fill \in Bit :
          \E par \in ParsOf(name), fields \in Contents(ReportLayout[name]) :
            Reported(name, device, par, fields, fill)
    BY Sender
  <2>2. PICK par \in ParsOf(name), fields \in Contents(ReportLayout[name]) :
          Reported(name, device, par, fields, fill)
    BY <2>1
  <2>3. /\ last = FrameOf(name, device, par) /\ message.fields = fields
        /\ payload = Packed(ReportLayout[name], Length(name), fields, fill)
    BY <2>2 DEF Reported
  <2>4. last \in Own /\ last.device = device
    BY <2>3, ReportFrame, ReportShape
  <2>5. CASE d # device
    BY <2>4, <2>5, Unheard
  <2>6. CASE d = device
    <3> HIDE DEF name
    <3>1. name \in ReportNames
      BY DEF name
    <3>2. Understand(p, device, ArbId(last), payload) =
            IF Hears(p, name) THEN Heard(name, Told(name, fields)) ELSE Nothing
      BY <2>3, <3>1, ReportUnderstood
    <3> QED BY <2>3, <2>4, <2>6, <3>2 DEF name
  <2> QED BY <2>5, <2>6
<1>2. Meant => AnswersHeard
  <2> SUFFICES ASSUME Meant, message.name = "Answer", NEW d \in Devices, NEW par \in SomeIds
               PROVE  LET v == message.fields.value IN
                      Answered(par, d, ArbId(last), payload) =
                        IF last.device # d \/ last.code # par THEN [type |-> "none", value |-> Zero32]
                        ELSE CASE message.fields.type = 1 -> [type |-> "uint", value |-> v]
                               [] message.fields.type = 2 -> [type |-> "float", value |-> v]
                               [] message.fields.type = 3 -> [type |-> "bool", value |-> v[1] # 0]
                               [] OTHER -> [type |-> "none", value |-> Zero32]
    BY DEF AnswersHeard
  <2>0. "Answer" \in ReportNames
    BY DEF ReportNames
  <2>1. PICK device \in Devices, fill \in Bit :
          \E said \in ParsOf("Answer"), fields \in Contents(ReportLayout["Answer"]) :
            Reported("Answer", device, said, fields, fill)
    BY <2>0, Sender, Zenon
  <2>2. PICK said \in ParsOf("Answer"), fields \in Contents(ReportLayout["Answer"]) :
          Reported("Answer", device, said, fields, fill)
    BY <2>1
  <2>3. said \in SomeIds
    BY DEF ParsOf, ParameterFrames
  <2>4. Length("Answer") = 8 /\ FrameOf("Answer", device, said).device = device
        /\ FrameOf("Answer", device, said).code = said
    BY <2>0, <2>2, ReportShape
  <2>5. /\ last = FrameOf("Answer", device, said) /\ message.fields = fields
        /\ payload = Packed(ReportLayout["Answer"], 8, fields, fill)
    BY <2>2, <2>4 DEF Reported
  <2>6. last.device = device /\ last.code = said
    BY <2>4, <2>5
  <2> QED BY <2>3, <2>5, <2>6, AnswerUnderstood
<1> QED BY <1>1, <1>2, MeantInv, PTL DEF HeardAsSaid
=============================================================================
