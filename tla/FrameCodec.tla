----------------------------- MODULE FrameCodec -----------------------------
(***************************************************************************)
(* The payloads of CAN frames: what the encoders of the library put into   *)
(* the bytes and what its decoders take out of them (Spark25xFrames.cpp,   *)
(* and the classic layouts of SparkBase.cpp).                              *)
(*                                                                         *)
(* A payload is the sequence of its bytes; the code's data[i] is byte      *)
(* i + 1.  A float and a uint32 are their four bytes, least significant    *)
(* first, as memcpy leaves them on the little-endian hosts the code is     *)
(* for.  A scaled quantity is its count: the constant factor is left out.  *)
(***************************************************************************)
EXTENDS Integers, Sequences

Byte == 0..255
Word32 == [1..4 -> Byte]
Zero32 == <<0, 0, 0, 0>>

-----------------------------------------------------------------------------
(* Taking payloads apart. *)

\* Byte i (from 0) of the assembled 64-bit value; bytes past the end are zero.
RawByte(data, i) == IF i < Len(data) THEN data[i + 1] ELSE 0

\* (raw >> first) & (2^width - 1), for fields of at most 22 bits.
Bits(data, first, width) ==
  LET k == first \div 8
  IN ((RawByte(data, k) + (256 * RawByte(data, k + 1)) + (65536 * RawByte(data, k + 2)))
        \div (2 ^ (first % 8))) % (2 ^ width)

FloatAt(data, offset) == [i \in 1..4 |-> RawByte(data, offset + i - 1)]

\* static_cast<int16_t>
Signed16(n) == IF n >= 32768 THEN n - 65536 ELSE n

Join16(low, high) == low + (256 * high)

-----------------------------------------------------------------------------
(* Spark25xFrames.cpp: what a 25.x controller reports. *)

\* Mutant of DecodeStatus0: the applied output is taken as unsigned.
DecodeStatus0Unsigned(d) ==
  [dutyCycle |-> Bits(d, 0, 16), voltage |-> Bits(d, 16, 12),
   current |-> Bits(d, 28, 12), temperature |-> Bits(d, 40, 8)]

DecodeStatus0(d) ==
  [dutyCycle |-> Signed16(Bits(d, 0, 16)), voltage |-> Bits(d, 16, 12),
   current |-> Bits(d, 28, 12), temperature |-> Bits(d, 40, 8)]

\* Faults in the low bytes, warnings in the high bytes.
DecodeStatus1(d) ==
  [faults |-> Join16(Bits(d, 0, 8), Bits(d, 16, 8)),
   stickyFaults |-> Join16(Bits(d, 24, 8), Bits(d, 40, 8))]

DecodeStatus2(d) == [velocity |-> FloatAt(d, 0), position |-> FloatAt(d, 4)]
DecodeStatus3(d) == [analogPosition |-> FloatAt(d, 4)]
DecodeStatus4(d) == [altEncoderVelocity |-> FloatAt(d, 0), altEncoderPosition |-> FloatAt(d, 4)]
DecodeStatus5(d) == [absVelocity |-> FloatAt(d, 0), absPosition |-> FloatAt(d, 4)]

DecodeParamWriteResponse(d) == [paramId |-> d[1], resultCode |-> d[7]]

-----------------------------------------------------------------------------
(* Spark25xFrames.cpp: what is sent to a 25.x controller. *)

EncodeSetpoint(value, pidSlot) == value \o <<0, 0, pidSlot % 4, 0>>

\* The mask is given as the set of its bits.
EncodeHeartbeat(mask) ==
  [i \in 1..8 |->
     LET bit(j) == IF (8 * (i - 1)) + j \in mask THEN 2 ^ j ELSE 0
     IN bit(0) + bit(1) + bit(2) + bit(3) + bit(4) + bit(5) + bit(6) + bit(7)]

EncodeParamWrite(paramId, rawValue) == <<paramId>> \o rawValue

EncodeSetEncoderPosition(rotations) == rotations \o <<3>>

-----------------------------------------------------------------------------
(* SparkBase.cpp: the classic status frames and replies. *)

DecodePeriod0(d) ==
  [dutyCycle |-> Signed16(Bits(d, 0, 16)), faults |-> Bits(d, 16, 16),
   stickyFaults |-> Bits(d, 32, 16), isInverted |-> Bits(d, 49, 1),
   idleMode |-> Bits(d, 57, 1), isFollower |-> Bits(d, 58, 1)]

DecodePeriod1(d) ==
  [velocity |-> FloatAt(d, 0), temperature |-> Bits(d, 32, 8),
   voltage |-> Bits(d, 40, 12), current |-> Bits(d, 52, 12)]

DecodePeriod2(d) == [position |-> FloatAt(d, 0), iAccum |-> FloatAt(d, 4)]

DecodePeriod3(d) ==
  [analogVoltage |-> RawByte(d, 0) + ((RawByte(d, 1) % 4) * 256),
   analogVelocity |-> ((RawByte(d, 1) \div 4) % 64) + (RawByte(d, 2) * 64) + (RawByte(d, 3) * 16384),
   analogPosition |-> FloatAt(d, 4)]

DecodePeriod4(d) == [altEncoderVelocity |-> FloatAt(d, 0), altEncoderPosition |-> FloatAt(d, 4)]

\* The build number is big-endian, unlike everything else.
DecodeFirmware(d) ==
  [major |-> d[1], minor |-> d[2], build |-> Join16(d[4], d[3]), debug |-> d[5] # 0]

\* ReadParameter: the type byte says which alternative the value is.
DecodeParameter(d) ==
  CASE RawByte(d, 4) = 1 -> [type |-> "uint", value |-> FloatAt(d, 0)]
    [] RawByte(d, 4) = 2 -> [type |-> "float", value |-> FloatAt(d, 0)]
    [] RawByte(d, 4) = 3 -> [type |-> "bool", value |-> RawByte(d, 0) # 0]
    [] OTHER -> [type |-> "none", value |-> Zero32]

-----------------------------------------------------------------------------
(* SparkBase.cpp: what is sent to a classic controller. *)

\* SetParameter copies the bytes of the value over zeros; the type is last.
EncodeParameter(typeCode, valueBytes) ==
  [i \in 1..5 |-> IF i = 5 THEN typeCode ELSE IF i <= Len(valueBytes) THEN valueBytes[i] ELSE 0]

\* SendControlMessage
EncodeControl(value) == value \o Zero32

\* SendSetpointWithCtrlType: a position outside 4..7 is ignored.
EncodeSetpointWithCtrlType(value, ctrlType, ctrlBytePos) ==
  [EncodeControl(value) EXCEPT ![IF ctrlBytePos \in 4..7 THEN ctrlBytePos + 1 ELSE 8] =
     IF ctrlBytePos \in 4..7 THEN ctrlType ELSE 0]

\* Mutant of EncodePeriod: the bytes are swapped.
EncodePeriodSwapped(period) == <<(period \div 256) % 256, period % 256>>

\* SetPeriodicStatus0Period to SetPeriodicStatus4Period
EncodePeriod(period) == <<period % 256, (period \div 256) % 256>>
=============================================================================
