--------------------------- MODULE ParamCatalogProofs ---------------------------
(* What the parameter interface promises after any number of settings. *)
EXTENDS ParamCatalog, TLAPS

-----------------------------------------------------------------------------
(* The numbers of the enumerators, spelled out. *)

\* The number of each name for slot 0, and how far apart the slots are.
Base ==
  [MotorType |-> 2, SensorType |-> 4, CtrlType |-> 5, IdleMode |-> 6, InputDeadband |-> 7,
   FeedbackSensorPID0 |-> 8, PolePairs |-> 10, CurrentChop |-> 11, CurrentChopCycles |-> 12,
   Inverted |-> 45, LimitSwitchFwdPolarity |-> 50, LimitSwitchRevPolarity |-> 51,
   HardLimitFwdEn |-> 52, HardLimitRevEn |-> 53, SoftLimitFwdEn |-> 54,
   SoftLimitRevEn |-> 55, RampRate |-> 56, FollowerID |-> 57, FollowerConfig |-> 58,
   SmartCurrentStallLimit |-> 59, SmartCurrentFreeLimit |-> 60, SmartCurrentConfig |-> 61,
   MotorKv |-> 63, MotorR |-> 64, MotorL |-> 65, EncoderCountsPerRev |-> 69,
   EncoderAverageDepth |-> 70, EncoderSampleDelta |-> 71, EncoderInverted |-> 72,
   ClosedLoopVoltageMode |-> 74, CompensatedNominalVoltage |-> 75,
   PositionConversionFactor |-> 112, VelocityConversionFactor |-> 113,
   ClosedLoopRampRate |-> 114, SoftLimitFwd |-> 115, SoftLimitRev |-> 116,
   AnalogPositionConversion |-> 119, AnalogVelocityConversion |-> 120,
   AnalogAverageDepth |-> 121, AnalogSensorMode |-> 122, AnalogInverted |-> 123,
   AnalogSampleDelta |-> 124, DataPortConfig |-> 127, AltEncoderCountsPerRev |-> 128,
   AltEncoderAverageDepth |-> 129, AltEncoderSampleDelta |-> 130,
   AltEncoderInverted |-> 131, AltEncoderPositionFactor |-> 132,
   AltEncoderVelocityFactor |-> 133, HallSensorSampleRate |-> 136,
   HallSensorAverageDepth |-> 137, DutyCyclePositionFactor |-> 139,
   DutyCycleVelocityFactor |-> 140, DutyCycleInverted |-> 141,
   DutyCycleAverageDepth |-> 143, PositionPIDWrapEnable |-> 149,
   PositionPIDMinInput |-> 150, PositionPIDMaxInput |-> 151, DutyCyclePrescalar |-> 153,
   DutyCycleZeroOffset |-> 154, P |-> 13, I |-> 14, D |-> 15, F |-> 16, IZone |-> 17,
   DFilter |-> 18, OutputMin |-> 19, OutputMax |-> 20, SmartMotionMaxVelocity |-> 76,
   SmartMotionMaxAccel |-> 77, SmartMotionMinVelOutput |-> 78,
   SmartMotionAllowedClosedLoopError |-> 79, SmartMotionAccelStrategy |-> 80,
   IMaxAccum |-> 96, Slot3Placeholder1 |-> 97, Slot3Placeholder2 |-> 98,
   Slot3Placeholder3 |-> 99]

Pid == {"P", "I", "D", "F", "IZone", "DFilter", "OutputMin", "OutputMax"}
Motion == {"SmartMotionMaxVelocity", "SmartMotionMaxAccel", "SmartMotionMinVelOutput",
           "SmartMotionAllowedClosedLoopError", "SmartMotionAccelStrategy"}
Accum == {"IMaxAccum", "Slot3Placeholder1", "Slot3Placeholder2", "Slot3Placeholder3"}
Single ==
  {"MotorType", "SensorType", "CtrlType", "IdleMode", "InputDeadband", "FeedbackSensorPID0",
   "PolePairs", "CurrentChop", "CurrentChopCycles", "Inverted", "LimitSwitchFwdPolarity",
   "LimitSwitchRevPolarity", "HardLimitFwdEn", "HardLimitRevEn", "SoftLimitFwdEn",
   "SoftLimitRevEn", "RampRate", "FollowerID", "FollowerConfig", "SmartCurrentStallLimit",
   "SmartCurrentFreeLimit", "SmartCurrentConfig", "MotorKv", "MotorR", "MotorL",
   "EncoderCountsPerRev", "EncoderAverageDepth", "EncoderSampleDelta", "EncoderInverted",
   "ClosedLoopVoltageMode", "CompensatedNominalVoltage", "PositionConversionFactor",
   "VelocityConversionFactor", "ClosedLoopRampRate", "SoftLimitFwd", "SoftLimitRev",
   "AnalogPositionConversion", "AnalogVelocityConversion", "AnalogAverageDepth",
   "AnalogSensorMode", "AnalogInverted", "AnalogSampleDelta", "DataPortConfig",
   "AltEncoderCountsPerRev", "AltEncoderAverageDepth", "AltEncoderSampleDelta",
   "AltEncoderInverted", "AltEncoderPositionFactor", "AltEncoderVelocityFactor",
   "HallSensorSampleRate", "HallSensorAverageDepth", "DutyCyclePositionFactor",
   "DutyCycleVelocityFactor", "DutyCycleInverted", "DutyCycleAverageDepth",
   "PositionPIDWrapEnable", "PositionPIDMinInput", "PositionPIDMaxInput",
   "DutyCyclePrescalar", "DutyCycleZeroOffset"}

Keys ==
  {<<n, s>> : n \in Pid \union Motion \union Accum, s \in Slots}
    \union {<<n, 0>> : n \in Single}

Number(n, s) ==
  IF n \in Pid THEN Base[n] + (8 * s)
  ELSE IF n \in Motion THEN Base[n] + (5 * s)
  ELSE IF n \in Accum THEN Base[n] + (4 * s)
  ELSE Base[n]

\* What Parameter is made from.
Entries ==
  UNION {{[key |-> <<r[2][i], IF Len(r) = 3 THEN r[3] ELSE 0>>, id |-> r[1] + i - 1]
            : i \in DOMAIN r[2]} : r \in Enumerators}

\* The ranges of the numbers of the slotted parameters.
LEMMA SlottedBase ==
  /\ \A n \in Pid : Base[n] \in 13..20
  /\ \A n \in Motion : Base[n] \in 76..80
  /\ \A n \in Accum : Base[n] \in 96..99
PROOF BY DEF Base, Pid, Motion, Accum

\* Those of the others.
LEMMA SingleBase ==
  \A n \in Single : Base[n] \in 1..154 /\ Base[n] \notin 13..44 /\ Base[n] \notin 76..111
PROOF BY DEF Base, Single

\* No two parameters share a base number.
LEMMA BaseDiffers ==
  /\ \A n, m \in Pid : Base[n] = Base[m] => n = m
  /\ \A n, m \in Motion : Base[n] = Base[m] => n = m
  /\ \A n, m \in Accum : Base[n] = Base[m] => n = m
  /\ \A n, m \in Single : Base[n] = Base[m] => n = m
PROOF
<1>1. /\ \A n, m \in Pid : Base[n] = Base[m] => n = m
      /\ \A n, m \in Motion : Base[n] = Base[m] => n = m
      /\ \A n, m \in Accum : Base[n] = Base[m] => n = m
  BY DEF Base, Pid, Motion, Accum
<1>2. \A n, m \in Single : Base[n] = Base[m] => n = m
  BY SMTT(60) DEF Base, Single
<1> QED BY <1>1, <1>2

\* The groups of names have none in common.
LEMMA Groups ==
  /\ Pid \intersect Motion = {} /\ Pid \intersect Accum = {} /\ Motion \intersect Accum = {}
  /\ (Pid \union Motion \union Accum) \intersect Single = {}
PROOF BY DEF Pid, Motion, Accum, Single

\* An entry with three components is one of a slot, with two it is of none.
LEMMA EntriesOf ==
  ASSUME NEW r \in Enumerators
  PROVE  \A i \in DOMAIN r[2] :
           [key |-> <<r[2][i], IF Len(r) = 3 THEN r[3] ELSE 0>>, id |-> r[1] + i - 1] \in Entries
PROOF BY DEF Entries

\* A block of unslotted enumerators.
LEMMA SingleBlock ==
  ASSUME NEW first \in Nat, NEW q, <<first, q>> \in Enumerators
  PROVE  \A i \in DOMAIN q : \E e \in Entries : e.key = <<q[i], 0>>
PROOF
<1> DEFINE r == <<first, q>>
<1>1. r \in Enumerators /\ r[1] = first /\ r[2] = q /\ Len(r) # 3
  OBVIOUS
<1> HIDE DEF r
<1>2. \A i \in DOMAIN q : [key |-> <<q[i], 0>>, id |-> first + i - 1] \in Entries
  BY <1>1, EntriesOf
<1>3. \A i \in DOMAIN q : [key |-> <<q[i], 0>>, id |-> first + i - 1].key = <<q[i], 0>>
  OBVIOUS
<1> QED BY <1>2, <1>3

\* A family of slotted ones.
LEMMA SlottedBlock ==
  ASSUME NEW first \in Nat, NEW q, NEW s \in Slots, <<first, q, s>> \in Enumerators
  PROVE  \A i \in DOMAIN q : \E e \in Entries : e.key = <<q[i], s>>
PROOF
<1> DEFINE r == <<first, q, s>>
<1>1. r \in Enumerators /\ r[1] = first /\ r[2] = q /\ r[3] = s /\ Len(r) = 3
  OBVIOUS
<1> HIDE DEF r
<1>2. \A i \in DOMAIN q : [key |-> <<q[i], s>>, id |-> first + i - 1] \in Entries
  BY <1>1, EntriesOf
<1>3. \A i \in DOMAIN q : [key |-> <<q[i], s>>, id |-> first + i - 1].key = <<q[i], s>>
  OBVIOUS
<1> QED BY <1>2, <1>3

\* Every key has an entry.
LEMMA KeysEntered == \A k \in Keys : \E e \in Entries : e.key = k
PROOF
<1>1. \A n \in Pid, s \in Slots : \E e \in Entries : e.key = <<n, s>>
  <2> SUFFICES ASSUME NEW n \in Pid, NEW s \in Slots PROVE \E e \in Entries : e.key = <<n, s>>
    OBVIOUS
  <2>1. <<13 + 8 * s, PidFamily, s>> \in Enumerators
    BY DEF Enumerators
  <2>2. \E i \in DOMAIN PidFamily : PidFamily[i] = n
    BY DEF PidFamily, Pid
  <2>3. 13 + 8 * s \in Nat
    BY DEF Slots
  <2> QED BY <2>1, <2>2, <2>3, SlottedBlock
<1>2. \A n \in Motion, s \in Slots : \E e \in Entries : e.key = <<n, s>>
  <2> SUFFICES ASSUME NEW n \in Motion, NEW s \in Slots PROVE \E e \in Entries : e.key = <<n, s>>
    OBVIOUS
  <2>1. <<76 + 5 * s, SmartMotionFamily, s>> \in Enumerators
    BY DEF Enumerators
  <2>2. \E i \in DOMAIN SmartMotionFamily : SmartMotionFamily[i] = n
    BY DEF SmartMotionFamily, Motion
  <2>3. 76 + 5 * s \in Nat
    BY DEF Slots
  <2> QED BY <2>1, <2>2, <2>3, SlottedBlock
<1>3. \A n \in Accum, s \in Slots : \E e \in Entries : e.key = <<n, s>>
  <2> SUFFICES ASSUME NEW n \in Accum, NEW s \in Slots PROVE \E e \in Entries : e.key = <<n, s>>
    OBVIOUS
  <2>1. <<96 + 4 * s, AccumFamily, s>> \in Enumerators
    BY DEF Enumerators
  <2>2. \E i \in DOMAIN AccumFamily : AccumFamily[i] = n
    BY DEF AccumFamily, Accum
  <2>3. 96 + 4 * s \in Nat
    BY DEF Slots
  <2> QED BY <2>1, <2>2, <2>3, SlottedBlock
<1>4. \A n \in Single : \E e \in Entries : e.key = <<n, 0>>
  <2> DEFINE Entered(n) == \E e \in Entries : e.key = <<n, 0>>
  <2>1. ASSUME NEW n \in {"MotorType"}
        PROVE  Entered(n)
    <3> DEFINE q == <<"MotorType">>
    <3>1. <<2, q>> \in Enumerators
      BY DEF Enumerators
    <3>2. \E i \in DOMAIN q : q[i] = n
      OBVIOUS
    <3> HIDE DEF q
    <3> QED BY <3>1, <3>2, SingleBlock
  <2>2. ASSUME NEW n \in {"SensorType", "CtrlType", "IdleMode", "InputDeadband", "FeedbackSensorPID0"}
        PROVE  Entered(n)
    <3> DEFINE q == <<"SensorType", "CtrlType", "IdleMode", "InputDeadband",
                     "FeedbackSensorPID0">>
    <3>1. <<4, q>> \in Enumerators
      BY DEF Enumerators
    <3>2. \E i \in DOMAIN q : q[i] = n
      OBVIOUS
    <3> HIDE DEF q
    <3> QED BY <3>1, <3>2, SingleBlock
  <2>3. ASSUME NEW n \in {"PolePairs", "CurrentChop", "CurrentChopCycles"}
        PROVE  Entered(n)
    <3> DEFINE q == <<"PolePairs", "CurrentChop", "CurrentChopCycles">>
    <3>1. <<10, q>> \in Enumerators
      BY DEF Enumerators
    <3>2. \E i \in DOMAIN q : q[i] = n
      OBVIOUS
    <3> HIDE DEF q
    <3> QED BY <3>1, <3>2, SingleBlock
  <2>4. ASSUME NEW n \in {"Inverted"}
        PROVE  Entered(n)
    <3> DEFINE q == <<"Inverted">>
    <3>1. <<45, q>> \in Enumerators
      BY DEF Enumerators
    <3>2. \E i \in DOMAIN q : q[i] = n
      OBVIOUS
    <3> HIDE DEF q
    <3> QED BY <3>1, <3>2, SingleBlock
  <2>5. ASSUME NEW n \in {"LimitSwitchFwdPolarity", "LimitSwitchRevPolarity", "HardLimitFwdEn",
            "HardLimitRevEn", "SoftLimitFwdEn", "SoftLimitRevEn", "RampRate", "FollowerID",
            "FollowerConfig", "SmartCurrentStallLimit", "SmartCurrentFreeLimit",
            "SmartCurrentConfig"}
        PROVE  Entered(n)
    <3> DEFINE q == <<"LimitSwitchFwdPolarity", "LimitSwitchRevPolarity", "HardLimitFwdEn",
                     "HardLimitRevEn", "SoftLimitFwdEn", "SoftLimitRevEn", "RampRate",
                     "FollowerID", "FollowerConfig", "SmartCurrentStallLimit",
                     "SmartCurrentFreeLimit", "SmartCurrentConfig">>
    <3>1. <<50, q>> \in Enumerators
      BY DEF Enumerators
    <3>2. \E i \in DOMAIN q : q[i] = n
      OBVIOUS
    <3> HIDE DEF q
    <3> QED BY <3>1, <3>2, SingleBlock
  <2>6. ASSUME NEW n \in {"MotorKv", "MotorR", "MotorL"}
        PROVE  Entered(n)
    <3> DEFINE q == <<"MotorKv", "MotorR", "MotorL">>
    <3>1. <<63, q>> \in Enumerators
      BY DEF Enumerators
    <3>2. \E i \in DOMAIN q : q[i] = n
      OBVIOUS
    <3> HIDE DEF q
    <3> QED BY <3>1, <3>2, SingleBlock
  <2>7. ASSUME NEW n \in {"EncoderCountsPerRev", "EncoderAverageDepth", "EncoderSampleDelta",
            "EncoderInverted"}
        PROVE  Entered(n)
    <3> DEFINE q == <<"EncoderCountsPerRev", "EncoderAverageDepth", "EncoderSampleDelta",
                     "EncoderInverted">>
    <3>1. <<69, q>> \in Enumerators
      BY DEF Enumerators
    <3>2. \E i \in DOMAIN q : q[i] = n
      OBVIOUS
    <3> HIDE DEF q
    <3> QED BY <3>1, <3>2, SingleBlock
  <2>8. ASSUME NEW n \in {"ClosedLoopVoltageMode", "CompensatedNominalVoltage"}
        PROVE  Entered(n)
    <3> DEFINE q == <<"ClosedLoopVoltageMode", "CompensatedNominalVoltage">>
    <3>1. <<74, q>> \in Enumerators
      BY DEF Enumerators
    <3>2. \E i \in DOMAIN q : q[i] = n
      OBVIOUS
    <3> HIDE DEF q
    <3> QED BY <3>1, <3>2, SingleBlock
  <2>9. ASSUME NEW n \in {"PositionConversionFactor", "VelocityConversionFactor", "ClosedLoopRampRate",
            "SoftLimitFwd", "SoftLimitRev"}
        PROVE  Entered(n)
    <3> DEFINE q == <<"PositionConversionFactor", "VelocityConversionFactor",
                     "ClosedLoopRampRate", "SoftLimitFwd", "SoftLimitRev">>
    <3>1. <<112, q>> \in Enumerators
      BY DEF Enumerators
    <3>2. \E i \in DOMAIN q : q[i] = n
      OBVIOUS
    <3> HIDE DEF q
    <3> QED BY <3>1, <3>2, SingleBlock
  <2>10. ASSUME NEW n \in {"AnalogPositionConversion", "AnalogVelocityConversion", "AnalogAverageDepth",
            "AnalogSensorMode", "AnalogInverted", "AnalogSampleDelta"}
        PROVE  Entered(n)
    <3> DEFINE q == <<"AnalogPositionConversion", "AnalogVelocityConversion",
                     "AnalogAverageDepth", "AnalogSensorMode", "AnalogInverted",
                     "AnalogSampleDelta">>
    <3>1. <<119, q>> \in Enumerators
      BY DEF Enumerators
    <3>2. \E i \in DOMAIN q : q[i] = n
      OBVIOUS
    <3> HIDE DEF q
    <3> QED BY <3>1, <3>2, SingleBlock
  <2>11. ASSUME NEW n \in {"DataPortConfig", "AltEncoderCountsPerRev", "AltEncoderAverageDepth",
            "AltEncoderSampleDelta", "AltEncoderInverted", "AltEncoderPositionFactor",
            "AltEncoderVelocityFactor"}
        PROVE  Entered(n)
    <3> DEFINE q == <<"DataPortConfig", "AltEncoderCountsPerRev", "AltEncoderAverageDepth",
                     "AltEncoderSampleDelta", "AltEncoderInverted",
                     "AltEncoderPositionFactor", "AltEncoderVelocityFactor">>
    <3>1. <<127, q>> \in Enumerators
      BY DEF Enumerators
    <3>2. \E i \in DOMAIN q : q[i] = n
      OBVIOUS
    <3> HIDE DEF q
    <3> QED BY <3>1, <3>2, SingleBlock
  <2>12. ASSUME NEW n \in {"HallSensorSampleRate", "HallSensorAverageDepth"}
        PROVE  Entered(n)
    <3> DEFINE q == <<"HallSensorSampleRate", "HallSensorAverageDepth">>
    <3>1. <<136, q>> \in Enumerators
      BY DEF Enumerators
    <3>2. \E i \in DOMAIN q : q[i] = n
      OBVIOUS
    <3> HIDE DEF q
    <3> QED BY <3>1, <3>2, SingleBlock
  <2>13. ASSUME NEW n \in {"DutyCyclePositionFactor", "DutyCycleVelocityFactor", "DutyCycleInverted"}
        PROVE  Entered(n)
    <3> DEFINE q == <<"DutyCyclePositionFactor", "DutyCycleVelocityFactor",
                     "DutyCycleInverted">>
    <3>1. <<139, q>> \in Enumerators
      BY DEF Enumerators
    <3>2. \E i \in DOMAIN q : q[i] = n
      OBVIOUS
    <3> HIDE DEF q
    <3> QED BY <3>1, <3>2, SingleBlock
  <2>14. ASSUME NEW n \in {"DutyCycleAverageDepth"}
        PROVE  Entered(n)
    <3> DEFINE q == <<"DutyCycleAverageDepth">>
    <3>1. <<143, q>> \in Enumerators
      BY DEF Enumerators
    <3>2. \E i \in DOMAIN q : q[i] = n
      OBVIOUS
    <3> HIDE DEF q
    <3> QED BY <3>1, <3>2, SingleBlock
  <2>15. ASSUME NEW n \in {"PositionPIDWrapEnable", "PositionPIDMinInput", "PositionPIDMaxInput"}
        PROVE  Entered(n)
    <3> DEFINE q == <<"PositionPIDWrapEnable", "PositionPIDMinInput", "PositionPIDMaxInput">>
    <3>1. <<149, q>> \in Enumerators
      BY DEF Enumerators
    <3>2. \E i \in DOMAIN q : q[i] = n
      OBVIOUS
    <3> HIDE DEF q
    <3> QED BY <3>1, <3>2, SingleBlock
  <2>16. ASSUME NEW n \in {"DutyCyclePrescalar", "DutyCycleZeroOffset"}
        PROVE  Entered(n)
    <3> DEFINE q == <<"DutyCyclePrescalar", "DutyCycleZeroOffset">>
    <3>1. <<153, q>> \in Enumerators
      BY DEF Enumerators
    <3>2. \E i \in DOMAIN q : q[i] = n
      OBVIOUS
    <3> HIDE DEF q
    <3> QED BY <3>1, <3>2, SingleBlock
  <2> HIDE DEF Entered
  <2>17. \A n \in Single : Entered(n)
    BY <2>1, <2>2, <2>3, <2>4, <2>5, <2>6, <2>7, <2>8,
       <2>9, <2>10, <2>11, <2>12, <2>13, <2>14, <2>15, <2>16 DEF Single
  <2> QED BY <2>17 DEF Entered
<1> SUFFICES ASSUME NEW k \in Keys PROVE \E e \in Entries : e.key = k
  OBVIOUS
<1>5. CASE \E n \in Single : k = <<n, 0>>
  BY <1>4, <1>5
<1>6. CASE \E n \in Pid \union Motion \union Accum, s \in Slots : k = <<n, s>>
  BY <1>1, <1>2, <1>3, <1>6
<1> QED BY <1>5, <1>6 DEF Keys

\* Every entry has its key's number.
LEMMA EntryNumbers == \A e \in Entries : e.key \in Keys /\ e.id = Number(e.key[1], e.key[2])
PROOF
<1> SUFFICES ASSUME NEW r \in Enumerators, NEW i \in DOMAIN r[2]
             PROVE  LET n == r[2][i]
                        s == IF Len(r) = 3 THEN r[3] ELSE 0
                    IN <<n, s>> \in Keys /\ r[1] + i - 1 = Number(n, s)
  BY DEF Entries
<1>1. ASSUME NEW s \in Slots, r = <<13 + 8 * s, PidFamily, s>>
      PROVE  r[3] = s /\ Len(r) = 3 /\ r[2][i] \in Pid /\ r[1] + i - 1 = Base[r[2][i]] + (8 * s)
  <2>1. r[1] = 13 + 8 * s /\ r[2] = PidFamily /\ r[3] = s /\ Len(r) = 3
    BY <1>1
  <2>2. \A j \in DOMAIN PidFamily : PidFamily[j] \in Pid /\ Base[PidFamily[j]] = 13 + j - 1 /\ j \in Int
    BY DEF PidFamily, Pid, Base
  <2> QED BY <2>1, <2>2 DEF Slots
<1>2. ASSUME NEW s \in Slots, r = <<76 + 5 * s, SmartMotionFamily, s>>
      PROVE  r[3] = s /\ Len(r) = 3 /\ r[2][i] \in Motion /\ r[1] + i - 1 = Base[r[2][i]] + (5 * s)
  <2>1. r[1] = 76 + 5 * s /\ r[2] = SmartMotionFamily /\ r[3] = s /\ Len(r) = 3
    BY <1>2
  <2>2. \A j \in DOMAIN SmartMotionFamily :
          /\ SmartMotionFamily[j] \in Motion /\ j \in Int
          /\ Base[SmartMotionFamily[j]] = 76 + j - 1
    BY DEF SmartMotionFamily, Motion, Base
  <2> QED BY <2>1, <2>2 DEF Slots
<1>3. ASSUME NEW s \in Slots, r = <<96 + 4 * s, AccumFamily, s>>
      PROVE  r[3] = s /\ Len(r) = 3 /\ r[2][i] \in Accum /\ r[1] + i - 1 = Base[r[2][i]] + (4 * s)
  <2>1. r[1] = 96 + 4 * s /\ r[2] = AccumFamily /\ r[3] = s /\ Len(r) = 3
    BY <1>3
  <2>2. \A j \in DOMAIN AccumFamily : AccumFamily[j] \in Accum /\ Base[AccumFamily[j]] = 96 + j - 1 /\ j \in Int
    BY DEF AccumFamily, Accum, Base
  <2> QED BY <2>1, <2>2 DEF Slots
<1>4. ASSUME r = <<2, <<"MotorType">> >>
      PROVE  Len(r) # 3 /\ r[2][i] \in Single /\ r[1] + i - 1 = Base[r[2][i]]
  BY <1>4 DEF Single, Base
<1>5. ASSUME r = <<4, <<"SensorType", "CtrlType", "IdleMode", "InputDeadband",
                     "FeedbackSensorPID0">> >>
      PROVE  Len(r) # 3 /\ r[2][i] \in Single /\ r[1] + i - 1 = Base[r[2][i]]
  BY <1>5 DEF Single, Base
<1>6. ASSUME r = <<10, <<"PolePairs", "CurrentChop", "CurrentChopCycles">> >>
      PROVE  Len(r) # 3 /\ r[2][i] \in Single /\ r[1] + i - 1 = Base[r[2][i]]
  BY <1>6 DEF Single, Base
<1>7. ASSUME r = <<45, <<"Inverted">> >>
      PROVE  Len(r) # 3 /\ r[2][i] \in Single /\ r[1] + i - 1 = Base[r[2][i]]
  BY <1>7 DEF Single, Base
<1>8. ASSUME r = <<50, <<"LimitSwitchFwdPolarity", "LimitSwitchRevPolarity", "HardLimitFwdEn",
                     "HardLimitRevEn", "SoftLimitFwdEn", "SoftLimitRevEn", "RampRate",
                     "FollowerID", "FollowerConfig", "SmartCurrentStallLimit",
                     "SmartCurrentFreeLimit", "SmartCurrentConfig">> >>
      PROVE  Len(r) # 3 /\ r[2][i] \in Single /\ r[1] + i - 1 = Base[r[2][i]]
  BY <1>8 DEF Single, Base
<1>9. ASSUME r = <<63, <<"MotorKv", "MotorR", "MotorL">> >>
      PROVE  Len(r) # 3 /\ r[2][i] \in Single /\ r[1] + i - 1 = Base[r[2][i]]
  BY <1>9 DEF Single, Base
<1>10. ASSUME r = <<69, <<"EncoderCountsPerRev", "EncoderAverageDepth", "EncoderSampleDelta",
                     "EncoderInverted">> >>
      PROVE  Len(r) # 3 /\ r[2][i] \in Single /\ r[1] + i - 1 = Base[r[2][i]]
  BY <1>10 DEF Single, Base
<1>11. ASSUME r = <<74, <<"ClosedLoopVoltageMode", "CompensatedNominalVoltage">> >>
      PROVE  Len(r) # 3 /\ r[2][i] \in Single /\ r[1] + i - 1 = Base[r[2][i]]
  BY <1>11 DEF Single, Base
<1>12. ASSUME r = <<112, <<"PositionConversionFactor", "VelocityConversionFactor",
                     "ClosedLoopRampRate", "SoftLimitFwd", "SoftLimitRev">> >>
      PROVE  Len(r) # 3 /\ r[2][i] \in Single /\ r[1] + i - 1 = Base[r[2][i]]
  BY <1>12 DEF Single, Base
<1>13. ASSUME r = <<119, <<"AnalogPositionConversion", "AnalogVelocityConversion",
                     "AnalogAverageDepth", "AnalogSensorMode", "AnalogInverted",
                     "AnalogSampleDelta">> >>
      PROVE  Len(r) # 3 /\ r[2][i] \in Single /\ r[1] + i - 1 = Base[r[2][i]]
  BY <1>13 DEF Single, Base
<1>14. ASSUME r = <<127, <<"DataPortConfig", "AltEncoderCountsPerRev", "AltEncoderAverageDepth",
                     "AltEncoderSampleDelta", "AltEncoderInverted",
                     "AltEncoderPositionFactor", "AltEncoderVelocityFactor">> >>
      PROVE  Len(r) # 3 /\ r[2][i] \in Single /\ r[1] + i - 1 = Base[r[2][i]]
  BY <1>14 DEF Single, Base
<1>15. ASSUME r = <<136, <<"HallSensorSampleRate", "HallSensorAverageDepth">> >>
      PROVE  Len(r) # 3 /\ r[2][i] \in Single /\ r[1] + i - 1 = Base[r[2][i]]
  BY <1>15 DEF Single, Base
<1>16. ASSUME r = <<139, <<"DutyCyclePositionFactor", "DutyCycleVelocityFactor",
                     "DutyCycleInverted">> >>
      PROVE  Len(r) # 3 /\ r[2][i] \in Single /\ r[1] + i - 1 = Base[r[2][i]]
  BY <1>16 DEF Single, Base
<1>17. ASSUME r = <<143, <<"DutyCycleAverageDepth">> >>
      PROVE  Len(r) # 3 /\ r[2][i] \in Single /\ r[1] + i - 1 = Base[r[2][i]]
  BY <1>17 DEF Single, Base
<1>18. ASSUME r = <<149, <<"PositionPIDWrapEnable", "PositionPIDMinInput", "PositionPIDMaxInput">> >>
      PROVE  Len(r) # 3 /\ r[2][i] \in Single /\ r[1] + i - 1 = Base[r[2][i]]
  BY <1>18 DEF Single, Base
<1>19. ASSUME r = <<153, <<"DutyCyclePrescalar", "DutyCycleZeroOffset">> >>
      PROVE  Len(r) # 3 /\ r[2][i] \in Single /\ r[1] + i - 1 = Base[r[2][i]]
  BY <1>19 DEF Single, Base
<1>20. \/ \E s \in Slots : r = <<13 + 8 * s, PidFamily, s>>
       \/ \E s \in Slots : r = <<76 + 5 * s, SmartMotionFamily, s>>
       \/ \E s \in Slots : r = <<96 + 4 * s, AccumFamily, s>>
       \/ Len(r) # 3 /\ r[2][i] \in Single /\ r[1] + i - 1 = Base[r[2][i]]
  BY <1>4, <1>5, <1>6, <1>7, <1>8, <1>9, <1>10, <1>11,
     <1>12, <1>13, <1>14, <1>15, <1>16, <1>17, <1>18, <1>19 DEF Enumerators
<1>21. \A s \in Slots : s \in 0..3
  BY DEF Slots
<1> QED BY <1>1, <1>2, <1>3, <1>20, <1>21, Groups DEF Keys, Number

\* The function Parameter, spelled out.
LEMMA Parameters ==
  /\ DOMAIN Parameter = Keys
  /\ \A k \in Keys : Parameter[k] = Number(k[1], k[2])
PROOF
<1>1. Parameter = [k \in {e.key : e \in Entries} |-> (CHOOSE e \in Entries : e.key = k).id]
  BY DEF Parameter, Entries
<1>2. {e.key : e \in Entries} = Keys
  BY KeysEntered, EntryNumbers
<1>3. ASSUME NEW k \in Keys
      PROVE  (CHOOSE e \in Entries : e.key = k).id = Number(k[1], k[2])
  BY <1>3, KeysEntered, EntryNumbers
<1> QED BY <1>1, <1>2, <1>3

\* Where the number of each key lies.
LEMMA KeyShape ==
  ASSUME NEW j \in Keys
  PROVE  /\ j = <<j[1], j[2]>>
         /\ \/ j[1] \in Pid /\ Base[j[1]] \in 13..20 /\ j[2] \in 0..3
               /\ Parameter[j] = Base[j[1]] + (8 * j[2]) /\ Parameter[j] \in 13..44
            \/ j[1] \in Motion /\ Base[j[1]] \in 76..80 /\ j[2] \in 0..3
               /\ Parameter[j] = Base[j[1]] + (5 * j[2]) /\ Parameter[j] \in 76..95
            \/ j[1] \in Accum /\ Base[j[1]] \in 96..99 /\ j[2] \in 0..3
               /\ Parameter[j] = Base[j[1]] + (4 * j[2]) /\ Parameter[j] \in 96..111
            \/ j[1] \in Single /\ j[2] = 0 /\ Parameter[j] = Base[j[1]]
               /\ Parameter[j] \in 1..154 /\ Parameter[j] \notin 13..44 /\ Parameter[j] \notin 76..111
PROOF
<1>1. Parameter[j] = Number(j[1], j[2])
  BY Parameters
<1>2. /\ j = <<j[1], j[2]>>
      /\ \/ j[1] \in Pid \union Motion \union Accum /\ j[2] \in 0..3
         \/ j[1] \in Single /\ j[2] = 0
  BY DEF Keys, Slots
<1>3. CASE j[1] \in Pid
  <2>1. Parameter[j] = Base[j[1]] + (8 * j[2]) /\ j[2] \in 0..3 /\ Base[j[1]] \in 13..20
    BY <1>1, <1>2, <1>3, Groups, SlottedBase DEF Number
  <2> QED BY <1>2, <1>3, <2>1
<1>4. CASE j[1] \in Motion
  <2>1. Parameter[j] = Base[j[1]] + (5 * j[2]) /\ j[2] \in 0..3 /\ Base[j[1]] \in 76..80
    BY <1>1, <1>2, <1>4, Groups, SlottedBase DEF Number
  <2> QED BY <1>2, <1>4, <2>1
<1>5. CASE j[1] \in Accum
  <2>1. Parameter[j] = Base[j[1]] + (4 * j[2]) /\ j[2] \in 0..3 /\ Base[j[1]] \in 96..99
    BY <1>1, <1>2, <1>5, Groups, SlottedBase DEF Number
  <2> QED BY <1>2, <1>5, <2>1
<1>6. CASE j[1] \in Single
  <2>1. j[1] \notin Pid /\ j[1] \notin Motion /\ j[1] \notin Accum
    BY <1>6, Groups, Zenon
  <2>2. j = <<j[1], j[2]>> /\ j[2] = 0
    BY <1>2, <2>1, Zenon
  <2>3. Parameter[j] = Base[j[1]]
    BY <1>1, <2>1, Zenon DEF Number
  <2>4. Base[j[1]] \in 1..154 /\ Base[j[1]] \notin 13..44 /\ Base[j[1]] \notin 76..111
    BY <1>6, SingleBase, Zenon
  <2> QED BY <1>6, <2>2, <2>3, <2>4, Zenon
<1> QED BY <1>2, <1>3, <1>4, <1>5, <1>6

\* Two parameters and slots never share a number.
LEMMA NumbersDiffer ==
  ASSUME NEW k \in Keys, NEW l \in Keys, Parameter[k] = Parameter[l]
  PROVE  k = l
PROOF
<1>1. k = <<k[1], k[2]>> /\ l = <<l[1], l[2]>>
  BY KeyShape
<1>2. CASE Parameter[k] \in 13..44
  <2>1. k[1] \in Pid /\ Base[k[1]] \in 13..20 /\ k[2] \in 0..3
        /\ Parameter[k] = Base[k[1]] + (8 * k[2])
    BY <1>2, KeyShape
  <2>2. l[1] \in Pid /\ Base[l[1]] \in 13..20 /\ l[2] \in 0..3
        /\ Parameter[l] = Base[l[1]] + (8 * l[2])
    BY <1>2, KeyShape
  <2>3. Base[k[1]] + (8 * k[2]) = Base[l[1]] + (8 * l[2])
    BY <2>1, <2>2
  <2>4. Base[k[1]] = Base[l[1]] /\ k[2] = l[2]
    <3> DEFINE b == Base[k[1]]
               c == Base[l[1]]
               s == k[2]
               t == l[2]
    <3>1. b \in 13..20 /\ c \in 13..20 /\ s \in 0..3 /\ t \in 0..3 /\ b + (8 * s) = c + (8 * t)
      BY <2>1, <2>2, <2>3
    <3> HIDE DEF b, c, s, t
    <3>2. b = c /\ s = t
      BY <3>1
    <3> QED BY <3>2 DEF b, c, s, t
  <2> QED BY <1>1, <2>1, <2>2, <2>4, BaseDiffers
<1>3. CASE Parameter[k] \in 76..95
  <2>1. k[1] \in Motion /\ Base[k[1]] \in 76..80 /\ k[2] \in 0..3
        /\ Parameter[k] = Base[k[1]] + (5 * k[2])
    BY <1>3, KeyShape
  <2>2. l[1] \in Motion /\ Base[l[1]] \in 76..80 /\ l[2] \in 0..3
        /\ Parameter[l] = Base[l[1]] + (5 * l[2])
    BY <1>3, KeyShape
  <2>3. Base[k[1]] + (5 * k[2]) = Base[l[1]] + (5 * l[2])
    BY <2>1, <2>2
  <2>4. Base[k[1]] = Base[l[1]] /\ k[2] = l[2]
    <3> DEFINE b == Base[k[1]]
               c == Base[l[1]]
               s == k[2]
               t == l[2]
    <3>1. b \in 76..80 /\ c \in 76..80 /\ s \in 0..3 /\ t \in 0..3 /\ b + (5 * s) = c + (5 * t)
      BY <2>1, <2>2, <2>3
    <3> HIDE DEF b, c, s, t
    <3>2. b = c /\ s = t
      BY <3>1
    <3> QED BY <3>2 DEF b, c, s, t
  <2> QED BY <1>1, <2>1, <2>2, <2>4, BaseDiffers
<1>4. CASE Parameter[k] \in 96..111
  <2>1. k[1] \in Accum /\ Base[k[1]] \in 96..99 /\ k[2] \in 0..3
        /\ Parameter[k] = Base[k[1]] + (4 * k[2])
    BY <1>4, KeyShape
  <2>2. l[1] \in Accum /\ Base[l[1]] \in 96..99 /\ l[2] \in 0..3
        /\ Parameter[l] = Base[l[1]] + (4 * l[2])
    BY <1>4, KeyShape
  <2>3. Base[k[1]] + (4 * k[2]) = Base[l[1]] + (4 * l[2])
    BY <2>1, <2>2
  <2>4. Base[k[1]] = Base[l[1]] /\ k[2] = l[2]
    <3> DEFINE b == Base[k[1]]
               c == Base[l[1]]
               s == k[2]
               t == l[2]
    <3>1. b \in 96..99 /\ c \in 96..99 /\ s \in 0..3 /\ t \in 0..3 /\ b + (4 * s) = c + (4 * t)
      BY <2>1, <2>2, <2>3
    <3> HIDE DEF b, c, s, t
    <3>2. b = c /\ s = t
      BY <3>1
    <3> QED BY <3>2 DEF b, c, s, t
  <2> QED BY <1>1, <2>1, <2>2, <2>4, BaseDiffers
<1>5. CASE Parameter[k] \notin 13..44 /\ Parameter[k] \notin 76..111
  <2>1. k[1] \in Single /\ k[2] = 0 /\ Parameter[k] = Base[k[1]]
    BY <1>5, KeyShape
  <2>2. l[1] \in Single /\ l[2] = 0 /\ Parameter[l] = Base[l[1]]
    BY <1>5, KeyShape
  <2> QED BY <1>1, <2>1, <2>2, BaseDiffers
<1>6. 76..111 = (76..95) \union (96..111)
  OBVIOUS
<1> QED BY <1>2, <1>3, <1>4, <1>5, <1>6

\* The numbers of the enum, and those of its slotted part.
SlottedIds == (13..44) \union (76..111)

LEMMA NumberRanges ==
  /\ \A k \in Keys : Parameter[k] \in 1..154
  /\ \A n \in Single : Parameter[<<n, 0>>] \notin SlottedIds
  /\ \A n \in Pid \union Motion \union Accum, s \in Slots :
       Parameter[<<n, 0>>] + s \in SlottedIds
PROOF
<1>1. \A n \in Single : <<n, 0>> \in Keys /\ Parameter[<<n, 0>>] = Base[n]
  BY Parameters, Groups DEF Keys, Number
<1>2. \A n \in Pid, s \in Slots :
        <<n, s>> \in Keys /\ Parameter[<<n, s>>] = Base[n] + (8 * s) /\ s \in 0..3
  BY Parameters, Groups DEF Keys, Number, Slots
<1>3. \A n \in Motion, s \in Slots :
        <<n, s>> \in Keys /\ Parameter[<<n, s>>] = Base[n] + (5 * s) /\ s \in 0..3
  BY Parameters, Groups DEF Keys, Number, Slots
<1>4. \A n \in Accum, s \in Slots :
        <<n, s>> \in Keys /\ Parameter[<<n, s>>] = Base[n] + (4 * s) /\ s \in 0..3
  BY Parameters, Groups DEF Keys, Number, Slots
<1>5. \A n \in Pid \union Motion \union Accum, s \in Slots :
        Parameter[<<n, 0>>] + s \in SlottedIds
  <2> SUFFICES ASSUME NEW n \in Pid \union Motion \union Accum, NEW s \in Slots
               PROVE  Parameter[<<n, 0>>] + s \in SlottedIds
    OBVIOUS
  <2>1. 0 \in Slots /\ s \in 0..3
    BY DEF Slots
  <2>2. Parameter[<<n, 0>>] = Base[n] + 0
    BY <1>2, <1>3, <1>4, <2>1, SlottedBase
  <2> QED BY <2>1, <2>2, SlottedBase DEF SlottedIds
<1>6. \A k \in Keys : Parameter[k] \in 1..154
  <2> SUFFICES ASSUME NEW k \in Keys PROVE Parameter[k] \in 1..154
    OBVIOUS
  <2>1. CASE \E n \in Single : k = <<n, 0>>
    BY <1>1, <2>1, SingleBase
  <2>2. CASE \E n \in Pid \union Motion \union Accum, s \in Slots : k = <<n, s>>
    <3>1. PICK n \in Pid \union Motion \union Accum, s \in Slots : k = <<n, s>>
      BY <2>2
    <3>2. CASE n \in Pid
      BY <1>2, <3>1, <3>2, SlottedBase
    <3>3. CASE n \in Motion
      BY <1>3, <3>1, <3>3, SlottedBase
    <3>4. CASE n \in Accum
      BY <1>4, <3>1, <3>4, SlottedBase
    <3> QED BY <3>1, <3>2, <3>3, <3>4
  <2> QED BY <2>1, <2>2 DEF Keys
<1> QED BY <1>1, <1>5, <1>6, SingleBase DEF SlottedIds

-----------------------------------------------------------------------------
(* The setters and the getters. *)

\* The slotted names, as the sequences list them.
LEMMA SlottedNames == Slotted = Pid \union Motion \union Accum
PROOF
<1>1. Range(PidFamily) = Pid
  BY DEF Range, PidFamily, Pid
<1>2. Range(SmartMotionFamily) = Motion
  BY DEF Range, SmartMotionFamily, Motion
<1>3. Range(AccumFamily) = Accum
  BY DEF Range, AccumFamily, Accum
<1> QED BY <1>1, <1>2, <1>3 DEF Slotted, SlottedPid, SlottedMotion

\* Every setter without a slot is for an unslotted enumerator, and those of
\* 16 bits pass no range.
LEMMA ScalarNames ==
  ASSUME NEW setters \in {Setters1, Setters2, Setters3}
  PROVE  /\ \A t \in Types : setters[t] \subseteq Single
         /\ \A n \in setters["uint16"] : n \notin DOMAIN Ranges
PROOF
<1>0. DOMAIN Ranges =
        {"MotorType", "SensorType", "IdleMode", "CtrlType", "ClosedLoopVoltageMode",
         "CurrentChop", "EncoderAverageDepth", "EncoderSampleDelta", "AnalogSensorMode",
         "DataPortConfig", "AltEncoderAverageDepth", "AltEncoderSampleDelta",
         "DutyCycleAverageDepth", "DutyCyclePrescalar", "DutyCycleZeroOffset"}
  BY DEF Ranges
<1>1. CASE setters = Setters1
  <2>1. \A t \in Types : setters[t] \subseteq Single
    BY <1>1 DEF Setters1, Types, Single
  <2> QED BY <1>0, <1>1, <2>1 DEF Setters1
<1>2. CASE setters = Setters2
  <2>1. \A t \in Types : setters[t] \subseteq Single
    BY <1>2 DEF Setters2, Types, Single
  <2> QED BY <1>0, <1>2, <2>1 DEF Setters2
<1>3. CASE setters = Setters3
  <2>1. \A t \in Types : setters[t] \subseteq Single
    BY <1>3 DEF Setters3, Types, Single
  <2> QED BY <1>0, <1>3, <2>1 DEF Setters3
<1> QED BY <1>1, <1>2, <1>3

\* What a name is and where its setter goes.
LEMMA NameFacts ==
  ASSUME NEW n \in Names
  PROVE  /\ n \in Slotted => n \in Pid \union Motion \union Accum /\ SetType(n) = "float"
         /\ n \notin Slotted => n \in Single /\ n \in Scalars
         /\ SetType(n) \in Types
         /\ SetType(n) = "uint16" => n \notin DOMAIN Ranges
         /\ \A s \in SlotsOf(n) \intersect Slots : <<n, s>> \in Keys
PROOF
<1>1. CASE n \in Slotted
  <2>1. n \in Pid \union Motion \union Accum
    BY <1>1, SlottedNames
  <2>2. SetType(n) = "float"
    BY <1>1 DEF SetType
  <2> QED BY <1>1, <2>1, <2>2 DEF Types, Keys
<1>2. CASE n \notin Slotted
  <2>1. n \in Scalars
    BY <1>2 DEF Names
  <2>2. \E t \in Types : \E s \in {Setters1, Setters2, Setters3} : n \in s[t]
    BY <2>1 DEF Scalars
  <2>3. /\ SetType(n) \in Types
        /\ \E s \in {Setters1, Setters2, Setters3} : n \in s[SetType(n)]
    BY <1>2, <2>2 DEF SetType
  <2>4. n \in Single
    BY <2>3, ScalarNames
  <2>5. SetType(n) = "uint16" => n \notin DOMAIN Ranges
    BY <2>3, ScalarNames
  <2>6. SlotsOf(n) = {0}
    BY <1>2 DEF SlotsOf
  <2> QED BY <1>2, <2>1, <2>3, <2>4, <2>5, <2>6 DEF Keys
<1> QED BY <1>1, <1>2

\* The getters ask for the types the setters send.
LEMMA SameTypes == \A n : GetType(n) = SetType(n)
PROOF
<1>1. Setters1 = Getters1 /\ Setters2 = Getters2 /\ Setters3 = Getters3
  BY DEF Setters1, Getters1, Setters2, Getters2, Setters3, Getters3
<1> QED BY <1>1 DEF GetType, SetType

\* The values tried fit the type of the parameter.
LEMMA TriedFits ==
  ASSUME NEW n \in Names, NEW v \in Tried(n)
  PROVE  /\ v \in Int
         /\ SetType(n) = "uint8" => v \in Nat /\ v < 256
         /\ SetType(n) = "uint16" => v \in Nat /\ v < 65536
PROOF
<1> DEFINE edges == IF n \in DOMAIN Ranges
                    THEN {x \in -1..256 : (x \in Ranges[n]) # (x + 1 \in Ranges[n])
                                          \/ (x \in Ranges[n]) # (x - 1 \in Ranges[n])}
                    ELSE {1}
<1>1. /\ SetType(n) = "bool" => v \in {0, 1}
      /\ SetType(n) = "float" => v \in edges \union {2, NaN}
      /\ SetType(n) = "uint8" =>
           v \in (edges \union {255}) \intersect (IF n \in DOMAIN Enums THEN Enums[n] ELSE 0..255)
      /\ SetType(n) = "uint16" => v \in edges \union {65535}
      /\ SetType(n) = "uint32" => v \in edges \union {65537}
  BY DEF Tried
<1>2. \A x \in edges : x \in Int
  OBVIOUS
<1>3. n \notin DOMAIN Ranges => edges = {1}
  OBVIOUS
<1>4. n \in DOMAIN Enums => Enums[n] \subseteq 0..255
  BY DEF Enums
<1> HIDE DEF edges
<1> QED BY <1>1, <1>2, <1>3, <1>4, NameFacts DEF NaN, Types

-----------------------------------------------------------------------------
(* The inductive invariant. *)

\* The controller holds what was accepted, in the type of the setter.
Kept ==
  \A k \in DOMAIN accepted :
    /\ k \in Keys /\ k[1] \in Names
    /\ Parameter[k] \in DOMAIN table
    /\ table[Parameter[k]] = [wire |-> Wire(SetType(k[1])), value |-> accepted[k]]

\* It fits that type.
Fitting ==
  \A k \in DOMAIN accepted :
    /\ accepted[k] \in Int
    /\ SetType(k[1]) = "uint8" => accepted[k] \in Nat /\ accepted[k] < 256
    /\ SetType(k[1]) = "uint16" => accepted[k] \in Nat /\ accepted[k] < 65536

\* All slotted parameters are floats.
SlottedFloats ==
  \A id \in DOMAIN table : id \in SlottedIds => table[id].wire = "float"

IndInv == TypeOK /\ Kept /\ Fitting /\ SlottedFloats

LEMMA InitInv == Init => IndInv
PROOF
<1> SUFFICES ASSUME Init PROVE IndInv
  OBVIOUS
<1>1. DOMAIN accepted = {} /\ DOMAIN table = {} /\ outcome = "ok" /\ sets \in 0..MaxSets
  BY BoundsAssumption DEF Init
<1> QED BY <1>1 DEF IndInv, TypeOK, Kept, Fitting, SlottedFloats

LEMMA SetAcceptedStep ==
  ASSUME IndInv, NEW n \in Names, NEW s \in SlotsOf(n), NEW v \in Tried(n),
         SetAccepted(n, s, v)
  PROVE  IndInv'
PROOF
<1> DEFINE key == <<n, s>>
           id == Parameter[<<n, s>>]
           entry == [wire |-> Wire(SetType(n)), value |-> v]
<1>1. /\ sets < MaxSets /\ sets' = sets + 1 /\ outcome' = "ok"
      /\ s \in Slots /\ Verdict(n, v) = "ok"
      /\ table' = Put(table, id, entry)
      /\ accepted' = Put(accepted, key, v)
  BY DEF SetAccepted, SetterTarget
<1>2. key \in Keys /\ key[1] = n /\ key = <<n, s>>
  BY <1>1, NameFacts
<1>3. id = Parameter[key] /\ id \in 1..154
  BY <1>2, NumberRanges
<1>4. entry.wire = Wire(SetType(n)) /\ entry.value = v
      /\ entry.wire \in {"uint", "float", "bool"}
  BY DEF Wire
<1>5. id \in SlottedIds => entry.wire = "float"
  <2>1. CASE n \in Slotted
    BY <2>1, NameFacts DEF Wire
  <2>2. CASE n \notin Slotted
    <3>1. n \in Single /\ s = 0
      BY <2>2, NameFacts DEF SlotsOf
    <3> QED BY <3>1, NumberRanges
  <2> QED BY <2>1, <2>2
<1>6. entry = [wire |-> Wire(SetType(n)), value |-> v]
  OBVIOUS
<1> HIDE DEF key, id, entry
<1>7. /\ DOMAIN table' = DOMAIN table \union {id} /\ table'[id] = entry
      /\ \A x \in DOMAIN table : x # id => table'[x] = table[x]
  <2>1. /\ DOMAIN Put(table, id, entry) = DOMAIN table \union {id}
        /\ Put(table, id, entry)[id] = entry
        /\ \A x \in DOMAIN table : x # id => Put(table, id, entry)[x] = table[x]
    BY Zenon DEF Put
  <2> QED BY <1>1, <2>1, Zenon
<1>8. /\ DOMAIN accepted' = DOMAIN accepted \union {key} /\ accepted'[key] = v
      /\ \A x \in DOMAIN accepted : x # key => accepted'[x] = accepted[x]
  <2>1. /\ DOMAIN Put(accepted, key, v) = DOMAIN accepted \union {key}
        /\ Put(accepted, key, v)[key] = v
        /\ \A x \in DOMAIN accepted : x # key => Put(accepted, key, v)[x] = accepted[x]
    BY Zenon DEF Put
  <2> QED BY <1>1, <2>1, Zenon
<1>9. TypeOK'
  <2>1. /\ DOMAIN table \subseteq 1..154 /\ sets \in 0..MaxSets
        /\ DOMAIN accepted \subseteq {<<m, t>> : m \in Names, t \in Slots}
        /\ \A x \in DOMAIN table : table[x].wire \in {"uint", "float", "bool"}
    BY DEF IndInv, TypeOK
  <2>2. DOMAIN accepted' \subseteq {<<m, t>> : m \in Names, t \in Slots}
    BY <1>1, <1>2, <1>8, <2>1
  <2>3. \A x \in DOMAIN table' : table'[x].wire \in {"uint", "float", "bool"}
    BY <1>4, <1>7, <2>1
  <2>4. sets' \in 0..MaxSets
    BY <1>1, <2>1, BoundsAssumption
  <2>5. DOMAIN table' \subseteq 1..154
    BY <1>3, <1>7, <2>1
  <2> QED BY <1>1, <2>2, <2>3, <2>4, <2>5 DEF TypeOK
<1>10. Kept'
  <2> SUFFICES ASSUME NEW k \in DOMAIN accepted'
               PROVE  /\ k \in Keys /\ k[1] \in Names
                      /\ Parameter[k] \in DOMAIN table'
                      /\ table'[Parameter[k]] = [wire |-> Wire(SetType(k[1])), value |-> accepted'[k]]
    BY DEF Kept
  <2>1. CASE k = key
    BY <1>2, <1>3, <1>6, <1>7, <1>8, <2>1
  <2>2. CASE k # key
    <3>1. /\ k \in DOMAIN accepted /\ accepted'[k] = accepted[k]
          /\ k \in Keys /\ k[1] \in Names /\ Parameter[k] \in DOMAIN table
          /\ table[Parameter[k]] = [wire |-> Wire(SetType(k[1])), value |-> accepted[k]]
      BY <1>8, <2>2 DEF IndInv, Kept
    <3>2. Parameter[k] # id
      BY <1>2, <1>3, <2>2, <3>1, NumbersDiffer
    <3> QED BY <1>7, <3>1, <3>2
  <2> QED BY <2>1, <2>2
<1>11. Fitting'
  <2>1. /\ v \in Int
        /\ SetType(n) = "uint8" => v \in Nat /\ v < 256
        /\ SetType(n) = "uint16" => v \in Nat /\ v < 65536
    BY TriedFits
  <2>2. Fitting
    BY DEF IndInv
  <2> QED BY <1>2, <1>8, <2>1, <2>2 DEF Fitting
<1>12. SlottedFloats'
  BY <1>5, <1>7 DEF IndInv, SlottedFloats
<1> QED BY <1>9, <1>10, <1>11, <1>12 DEF IndInv

LEMMA NextInv == IndInv /\ [Next]_vars => IndInv'
PROOF
<1> SUFFICES ASSUME IndInv, [Next]_vars PROVE IndInv'
  OBVIOUS
<1>1. ASSUME NEW n \in Names, NEW s \in SlotsOf(n), NEW v \in Tried(n), SetRejected(n, s, v)
      PROVE  IndInv'
  <2>1. /\ UNCHANGED <<table, accepted, sets>>
        /\ outcome' \in {"ok", "invalid_argument", "out_of_range"}
    BY <1>1 DEF SetRejected, Verdict
  <2>2. TypeOK'
    BY <2>1 DEF IndInv, TypeOK
  <2>3. Kept' /\ Fitting' /\ SlottedFloats'
    BY <2>1 DEF IndInv, Kept, Fitting, SlottedFloats
  <2> QED BY <2>2, <2>3 DEF IndInv
<1>2. CASE UNCHANGED vars
  <2>1. UNCHANGED <<table, accepted, outcome, sets>>
    BY <1>2 DEF vars
  <2>2. TypeOK'
    BY <2>1 DEF IndInv, TypeOK
  <2>3. Kept' /\ Fitting' /\ SlottedFloats'
    BY <2>1 DEF IndInv, Kept, Fitting, SlottedFloats
  <2> QED BY <2>2, <2>3 DEF IndInv
<1> QED BY <1>1, <1>2, SetAcceptedStep DEF Next

LEMMA Inductive == Spec => []IndInv
PROOF BY InitInv, NextInv, PTL DEF Spec

-----------------------------------------------------------------------------
\* No setting disturbs another, after any number of settings.
THEOREM Disjoint == Spec => []SettersDisjoint
PROOF
<1>1. IndInv => SettersDisjoint
  <2> SUFFICES ASSUME IndInv, NEW k \in DOMAIN accepted
               PROVE  table[SetterTarget(k[1], k[2])].value = accepted[k]
    BY DEF SettersDisjoint
  <2>1. /\ k \in Keys
        /\ table[Parameter[k]] = [wire |-> Wire(SetType(k[1])), value |-> accepted[k]]
    BY DEF IndInv, Kept
  <2>2. k = <<k[1], k[2]>>
    BY <2>1, KeyShape
  <2>3. SetterTarget(k[1], k[2]) = Parameter[k]
    BY <2>2 DEF SetterTarget
  <2> QED BY <2>1, <2>3
<1> QED BY <1>1, Inductive, PTL

\* Unslotted and slot-0 parameters read back; slotted getters meet floats only.
THEOREM Readable == Spec => []ReadsBack
PROOF
<1>1. IndInv => ReadBack
  <2> SUFFICES ASSUME IndInv, NEW k \in DOMAIN accepted, k[2] = 0
               PROVE  Get(k[1], 0) = accepted[k]
    BY DEF ReadBack
  <2>1. /\ k \in Keys /\ k[1] \in Names /\ Parameter[k] \in DOMAIN table
        /\ table[Parameter[k]] = [wire |-> Wire(SetType(k[1])), value |-> accepted[k]]
    BY DEF IndInv, Kept
  <2>2. k = <<k[1], 0>> /\ Parameter[k] \in Int
    BY <2>1, KeyShape, NumberRanges
  <2>3. GetterTarget(k[1], 0) = Parameter[k]
    BY <2>2 DEF GetterTarget
  <2>4. Response(GetterTarget(k[1], 0)) = [wire |-> Wire(SetType(k[1])), value |-> accepted[k]]
    BY <2>1, <2>3 DEF Response
  <2> DEFINE response == [wire |-> Wire(SetType(k[1])), value |-> accepted[k]]
  <2>5. response.wire = Wire(SetType(k[1])) /\ response.value = accepted[k]
    OBVIOUS
  <2> HIDE DEF response
  <2>6. Convert(SetType(k[1]), response) = accepted[k]
    <3>1. DOMAIN Width = {"uint8", "uint16"} /\ Width["uint8"] = 256 /\ Width["uint16"] = 65536
      BY DEF Width
    <3>2. /\ SetType(k[1]) = "uint8" => accepted[k] \in Nat /\ accepted[k] < 256
          /\ SetType(k[1]) = "uint16" => accepted[k] \in Nat /\ accepted[k] < 65536
      BY DEF IndInv, Fitting
    <3>3. \A x \in Nat : x < 256 => x % 256 = x
      OBVIOUS
    <3>4. \A x \in Nat : x < 65536 => x % 65536 = x
      OBVIOUS
    <3>5. CASE SetType(k[1]) = "uint8"
      BY <2>5, <3>1, <3>2, <3>3, <3>5 DEF Convert
    <3>6. CASE SetType(k[1]) = "uint16"
      BY <2>5, <3>1, <3>2, <3>4, <3>6 DEF Convert
    <3>7. CASE SetType(k[1]) \notin {"uint8", "uint16"}
      BY <2>5, <3>1, <3>7 DEF Convert
    <3> QED BY <3>5, <3>6, <3>7
  <2> QED BY <2>4, <2>6, SameTypes DEF Get, response
<1>2. IndInv => GettersTyped
  <2> SUFFICES ASSUME IndInv, NEW k \in DOMAIN accepted, NEW s \in Slots, k[1] \in Slotted
               PROVE  Response(GetterTarget(k[1], s)).wire \in {"float", "none"}
    BY DEF GettersTyped
  <2>1. GetterTarget(k[1], s) \in SlottedIds
    BY SlottedNames, NumberRanges DEF GetterTarget
  <2> QED BY <2>1 DEF IndInv, SlottedFloats, Response
<1>3. IndInv => TypeOK
  BY DEF IndInv
<1> QED BY <1>1, <1>2, <1>3, Inductive, PTL DEF ReadsBack
=============================================================================
