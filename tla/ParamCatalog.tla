----------------------------- MODULE ParamCatalog -----------------------------
(***************************************************************************)
(* The parameter interface of SparkBase: which parameter each setter and   *)
(* each getter addresses, with which C++ type and range, and what          *)
(* SetParameter, GetParamAs and GetPIDParam do with a value.  The bus is   *)
(* taken as prompt and reliable here (ParamRead has its races): a setting  *)
(* is in the controller's table when the setter returns.                   *)
(*                                                                         *)
(* A parameter interface is named by its enumerator without the k and the  *)
(* slot suffix; the slot of an unslotted parameter is 0.  Values are       *)
(* integers.                                                               *)
(***************************************************************************)
EXTENDS Integers, Sequences, Functions

CONSTANT MaxSets   \* bound: accepted settings in a behaviour

ASSUME BoundsAssumption == MaxSets \in Nat

NaN == 1000000      \* stands for every float that is not finite
Slots == 0..3

\* enum class Parameter: consecutive enumerators from a first number.
PidFamily == <<"P", "I", "D", "F", "IZone", "DFilter", "OutputMin", "OutputMax">>
SmartMotionFamily ==
  <<"SmartMotionMaxVelocity", "SmartMotionMaxAccel", "SmartMotionMinVelOutput",
    "SmartMotionAllowedClosedLoopError", "SmartMotionAccelStrategy">>
AccumFamily == <<"IMaxAccum", "Slot3Placeholder1", "Slot3Placeholder2", "Slot3Placeholder3">>

Enumerators ==
  { <<2, <<"MotorType">> >>, <<4, <<"SensorType", "CtrlType", "IdleMode", "InputDeadband",
                                   "FeedbackSensorPID0">> >>,
    <<10, <<"PolePairs", "CurrentChop", "CurrentChopCycles">> >>,
    <<45, <<"Inverted">> >>,
    <<50, <<"LimitSwitchFwdPolarity", "LimitSwitchRevPolarity", "HardLimitFwdEn", "HardLimitRevEn",
            "SoftLimitFwdEn", "SoftLimitRevEn", "RampRate", "FollowerID", "FollowerConfig",
            "SmartCurrentStallLimit", "SmartCurrentFreeLimit", "SmartCurrentConfig">> >>,
    <<63, <<"MotorKv", "MotorR", "MotorL">> >>,
    <<69, <<"EncoderCountsPerRev", "EncoderAverageDepth", "EncoderSampleDelta",
            "EncoderInverted">> >>,
    <<74, <<"ClosedLoopVoltageMode", "CompensatedNominalVoltage">> >>,
    <<112, <<"PositionConversionFactor", "VelocityConversionFactor", "ClosedLoopRampRate",
             "SoftLimitFwd", "SoftLimitRev">> >>,
    <<119, <<"AnalogPositionConversion", "AnalogVelocityConversion", "AnalogAverageDepth",
             "AnalogSensorMode", "AnalogInverted", "AnalogSampleDelta">> >>,
    <<127, <<"DataPortConfig", "AltEncoderCountsPerRev", "AltEncoderAverageDepth",
             "AltEncoderSampleDelta", "AltEncoderInverted", "AltEncoderPositionFactor",
             "AltEncoderVelocityFactor">> >>,
    <<136, <<"HallSensorSampleRate", "HallSensorAverageDepth">> >>,
    <<139, <<"DutyCyclePositionFactor", "DutyCycleVelocityFactor", "DutyCycleInverted">> >>,
    <<143, <<"DutyCycleAverageDepth">> >>,
    <<149, <<"PositionPIDWrapEnable", "PositionPIDMinInput", "PositionPIDMaxInput">> >>,
    <<153, <<"DutyCyclePrescalar", "DutyCycleZeroOffset">> >> }
  \union {<<13 + 8 * s, PidFamily, s>> : s \in Slots}
  \union {<<76 + 5 * s, SmartMotionFamily, s>> : s \in Slots}
  \union {<<96 + 4 * s, AccumFamily, s>> : s \in Slots}

\* The number of each enumerator: a function on names and slots.
Parameter ==
  LET Entries == UNION {{[key |-> <<r[2][i], IF Len(r) = 3 THEN r[3] ELSE 0>>, id |-> r[1] + i - 1]
                           : i \in DOMAIN r[2]} : r \in Enumerators}
  IN [k \in {e.key : e \in Entries} |-> (CHOOSE e \in Entries : e.key = k).id]

\* The setters, by the C++ type of their argument.
Setters1 ==
  [uint8 |-> {"MotorType", "SensorType", "IdleMode", "CtrlType", "ClosedLoopVoltageMode"},
   uint16 |-> {"MotorKv", "MotorR", "MotorL", "FeedbackSensorPID0", "PolePairs",
               "CurrentChopCycles", "SmartCurrentStallLimit", "SmartCurrentFreeLimit",
               "SmartCurrentConfig"},
   uint32 |-> {},
   float |-> {"InputDeadband", "RampRate", "CompensatedNominalVoltage", "PositionPIDMinInput",
              "PositionPIDMaxInput", "CurrentChop"},
   bool |-> {"Inverted", "PositionPIDWrapEnable"}]
Setters2 ==
  [uint8 |-> {"EncoderAverageDepth", "EncoderSampleDelta"},
   uint16 |-> {"EncoderCountsPerRev", "HallSensorAverageDepth"},
   uint32 |-> {"FollowerID", "FollowerConfig"},
   float |-> {"SoftLimitFwd", "SoftLimitRev", "PositionConversionFactor",
              "VelocityConversionFactor", "ClosedLoopRampRate", "HallSensorSampleRate"},
   bool |-> {"HardLimitFwdEn", "HardLimitRevEn", "LimitSwitchFwdPolarity",
             "LimitSwitchRevPolarity", "SoftLimitFwdEn", "SoftLimitRevEn", "EncoderInverted"}]
Setters3 ==
  [uint8 |-> {"AnalogSensorMode", "DataPortConfig", "AltEncoderAverageDepth",
              "AltEncoderSampleDelta", "DutyCycleAverageDepth", "DutyCyclePrescalar"},
   uint16 |-> {"AnalogAverageDepth", "AnalogSampleDelta", "AltEncoderCountsPerRev"},
   uint32 |-> {},
   float |-> {"AnalogPositionConversion", "AnalogVelocityConversion", "AltEncoderPositionFactor",
              "AltEncoderVelocityFactor", "DutyCyclePositionFactor", "DutyCycleVelocityFactor",
              "DutyCycleZeroOffset"},
   bool |-> {"AnalogInverted", "AltEncoderInverted", "DutyCycleInverted"}]

\* The getters, by the C++ type they ask GetParamAs for.
Getters1 ==
  [uint8 |-> {"MotorType", "SensorType", "IdleMode", "CtrlType", "ClosedLoopVoltageMode"},
   uint16 |-> {"MotorKv", "MotorR", "MotorL", "FeedbackSensorPID0", "PolePairs",
               "CurrentChopCycles", "SmartCurrentStallLimit", "SmartCurrentFreeLimit",
               "SmartCurrentConfig"},
   uint32 |-> {},
   float |-> {"InputDeadband", "RampRate", "CompensatedNominalVoltage", "PositionPIDMinInput",
              "PositionPIDMaxInput", "CurrentChop"},
   bool |-> {"Inverted", "PositionPIDWrapEnable"}]
Getters2 ==
  [uint8 |-> {"EncoderAverageDepth", "EncoderSampleDelta"},
   uint16 |-> {"EncoderCountsPerRev", "HallSensorAverageDepth"},
   uint32 |-> {"FollowerID", "FollowerConfig"},
   float |-> {"SoftLimitFwd", "SoftLimitRev", "PositionConversionFactor",
              "VelocityConversionFactor", "ClosedLoopRampRate", "HallSensorSampleRate"},
   bool |-> {"HardLimitFwdEn", "HardLimitRevEn", "LimitSwitchFwdPolarity",
             "LimitSwitchRevPolarity", "SoftLimitFwdEn", "SoftLimitRevEn", "EncoderInverted"}]
Getters3 ==
  [uint8 |-> {"AnalogSensorMode", "DataPortConfig", "AltEncoderAverageDepth",
              "AltEncoderSampleDelta", "DutyCycleAverageDepth", "DutyCyclePrescalar"},
   uint16 |-> {"AnalogAverageDepth", "AnalogSampleDelta", "AltEncoderCountsPerRev"},
   uint32 |-> {},
   float |-> {"AnalogPositionConversion", "AnalogVelocityConversion", "AltEncoderPositionFactor",
              "AltEncoderVelocityFactor", "DutyCyclePositionFactor", "DutyCycleVelocityFactor",
              "DutyCycleZeroOffset"},
   bool |-> {"AnalogInverted", "AltEncoderInverted", "DutyCycleInverted"}]

\* The slotted setters write floats through an array of the four enumerators.
SlottedPid == Range(PidFamily)
SlottedMotion == Range(SmartMotionFamily) \union Range(AccumFamily)
Slotted == SlottedPid \union SlottedMotion

Types == {"uint8", "uint16", "uint32", "float", "bool"}
Scalars == UNION {s[t] : s \in {Setters1, Setters2, Setters3}, t \in Types}
Names == Scalars \union Slotted

SetType(name) ==
  IF name \in Slotted THEN "float"
  ELSE CHOOSE t \in Types : \E s \in {Setters1, Setters2, Setters3} : name \in s[t]
\* Mutant of GetType: a 32-bit parameter is read into 16 bits.
GetTypeNarrow(name) ==
  IF name \in Slotted THEN "float"
  ELSE IF name = "FollowerID" THEN "uint16"
  ELSE CHOOSE t \in Types : \E g \in {Getters1, Getters2, Getters3} : name \in g[t]

GetType(name) ==
  IF name \in Slotted THEN "float"
  ELSE CHOOSE t \in Types : \E g \in {Getters1, Getters2, Getters3} : name \in g[t]

\* PARAM_TYPE_UINT, PARAM_TYPE_FLOAT, PARAM_TYPE_BOOL.
Wire(type) == IF type \in {"float", "bool"} THEN type ELSE "uint"

\* The ranges passed to SetParameter.
Ranges ==
  [MotorType |-> 0..1, SensorType |-> 0..2, IdleMode |-> 0..1, CtrlType |-> 0..3,
   ClosedLoopVoltageMode |-> 0..2, CurrentChop |-> 0..125, EncoderAverageDepth |-> 1..64,
   EncoderSampleDelta |-> 1..255, AnalogSensorMode |-> 0..1, DataPortConfig |-> 0..1,
   AltEncoderAverageDepth |-> 1..64, AltEncoderSampleDelta |-> 1..255,
   DutyCycleAverageDepth |-> 0..7, DutyCyclePrescalar |-> 0..71, DutyCycleZeroOffset |-> 0..1]

-----------------------------------------------------------------------------
(* What SetParameter and the getters compute. *)

\* The range is looked at in the branch for floats only: bool and the unsigned
\* types are all integral and take the branch that copies them unchecked.
Verdict(name, value) ==
  IF SetType(name) # "float" THEN "ok"
  ELSE IF value = NaN THEN "invalid_argument"
  ELSE IF name \in DOMAIN Ranges /\ value \notin Ranges[name] THEN "out_of_range"
  ELSE "ok"

\* Mutant of SetterTarget: a setter copied from another.
SetterTargetPasted(name, slot) ==
  Parameter[<<IF name = "SoftLimitRev" THEN "SoftLimitFwd" ELSE name, slot>>]

SetterTarget(name, slot) == Parameter[<<name, slot>>]

\* GetPIDParam adds the slot to the number of the slot-0 enumerator.
GetterTarget(name, slot) == Parameter[<<name, 0>>] + slot

Width == [uint8 |-> 256, uint16 |-> 65536]

\* GetParamAs: a response of another wire type, or none, gives zero; an
\* unsigned value is cut to the width asked for.
Convert(type, response) ==
  IF response.wire # Wire(type) THEN 0
  ELSE IF type \in DOMAIN Width THEN response.value % Width[type]
  ELSE response.value

-----------------------------------------------------------------------------
VARIABLES
  table,     \* the controller's parameters: what was set, by number
  accepted,  \* history: the value last accepted for each name and slot
  outcome,   \* how the last call ended
  sets       \* bound counter

vars == <<table, accepted, outcome, sets>>

Response(id) == IF id \in DOMAIN table THEN table[id] ELSE [wire |-> "none", value |-> 0]
Get(name, slot) == Convert(GetType(name), Response(GetterTarget(name, slot)))

Put(f, k, v) == [x \in DOMAIN f \union {k} |-> IF x = k THEN v ELSE f[x]]

\* The arguments that are of an enum type: its enumerators.
Enums ==
  [MotorType |-> 0..1, SensorType |-> 0..2, CtrlType |-> 0..3, IdleMode |-> 0..1]

\* The values tried for a name: around its range, at the edges of its type.
Tried(name) ==
  LET edges == IF name \in DOMAIN Ranges
               THEN {v \in -1..256 : (v \in Ranges[name]) # (v + 1 \in Ranges[name])
                                     \/ (v \in Ranges[name]) # (v - 1 \in Ranges[name])}
               ELSE {1}
  IN CASE SetType(name) = "bool" -> {0, 1}
       [] SetType(name) = "float" -> edges \union {2, NaN}
       [] SetType(name) = "uint8" -> (edges \union {255})
            \intersect (IF name \in DOMAIN Enums THEN Enums[name] ELSE 0..255)
       [] SetType(name) = "uint16" -> edges \union {65535}
       [] SetType(name) = "uint32" -> edges \union {65537}

Init ==
  /\ table = <<>> /\ accepted = <<>>
  /\ outcome = "ok"
  /\ sets = 0

\* A setter whose slot and value pass.
SetAccepted(name, slot, value) ==
  /\ sets < MaxSets
  /\ slot \in Slots /\ Verdict(name, value) = "ok"
  /\ table' = Put(table, SetterTarget(name, slot), [wire |-> Wire(SetType(name)), value |-> value])
  /\ accepted' = Put(accepted, <<name, slot>>, value)
  /\ outcome' = "ok"
  /\ sets' = sets + 1

\* A setter that throws: nothing is transmitted.
SetRejected(name, slot, value) ==
  /\ outcome' = IF slot \notin Slots THEN "out_of_range" ELSE Verdict(name, value)
  /\ outcome' # "ok"
  /\ UNCHANGED <<table, accepted, sets>>

SlotsOf(name) == IF name \in Slotted THEN 0..4 ELSE {0}

Next ==
  \E name \in Names : \E slot \in SlotsOf(name), value \in Tried(name) :
    SetAccepted(name, slot, value) \/ SetRejected(name, slot, value)

Spec == Init /\ [][Next]_vars

-----------------------------------------------------------------------------
\* Only numbers of the enum are ever written, with one of the three wire types.
TypeOK ==
  /\ DOMAIN table \subseteq 1..154
  /\ \A id \in DOMAIN table : table[id].wire \in {"uint", "float", "bool"}
  /\ DOMAIN accepted \subseteq {<<n, s>> : n \in Names, s \in Slots}
  /\ outcome \in {"ok", "invalid_argument", "out_of_range"}
  /\ sets \in 0..MaxSets

\* After any sequence of settings, each unslotted parameter and each slot-0
\* parameter reads back what was last accepted for it: no two interfaces
\* address one number, getters ask for the type and the width setters sent.
ReadBack ==
  \A k \in DOMAIN accepted : k[2] = 0 => Get(k[1], 0) = accepted[k]

\* No setting disturbs another: the controller holds, under the number each
\* setter addresses, the last value accepted for it.
SettersDisjoint ==
  \A k \in DOMAIN accepted : table[SetterTarget(k[1], k[2])].value = accepted[k]

\* Whatever parameter a slotted getter ends up reading, it is one of the type
\* it decodes: it never falls back to the default because of the type.
GettersTyped ==
  \A k \in DOMAIN accepted, s \in Slots :
    k[1] \in Slotted => Response(GetterTarget(k[1], s)).wire \in {"float", "none"}

\* What was set can be had back, in the types of the table.
ReadsBack == TypeOK /\ ReadBack /\ GettersTyped

\* SparkBase.hpp on GetPIDParam: "Value of the slot-specific parameter".
SlotReadBack ==
  \A k \in DOMAIN accepted : Get(k[1], k[2]) = accepted[k]
=============================================================================
