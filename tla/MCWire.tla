------------------------------- MODULE MCWire --------------------------------
(* Model checking Wire, and the agreement of its sums with the bitwise or. *)
EXTENDS Wire, Bitwise

MCDevices == {0, 1, 62}

\* Other device types, other manufacturers, and both at once.
MCAliens == {(t * 16777216) + (m * 65536) + (46 * 1024) + 129 : t \in {1, 2, 3, 10}, m \in {4, 5, 13}}
              \ {kArbBase + (46 * 1024) + 129}

\* In each width zero, one, and both sides of the top bit; the types of bytes.
MCPicks == 1..5
MCWords == << <<0, 0, 0, 0>>, <<0, 0, 128, 63>>, <<1, 2, 253, 127>>, <<255, 254, 129, 192>>,
              <<0, 0, 128, 191>> >>
MCNumbers ==
  [w \in Widths |-> IF w = 8 THEN <<0, 1, 2, 3, 255>>
                    ELSE <<0, 1, (2 ^ (w - 1)) - 1, 2 ^ (w - 1), (2 ^ w) - 1>>]

MCSomeIds == {1, 13, 45, 112, 154}

\* The frames the codec tests quote (test_spark25x_frames.cpp), some of them
\* captured from a controller.
ASSUME TestedIds ==
  /\ StatusArbId(0, 1) = \h0205B801 /\ StatusArbId(2, 8) = \h0205B888
  /\ MakeArbId(0, 0, 1) = \h02050001 /\ MakeArbId(0, 4, 2) = \h02050102
  /\ HeartbeatArbId = \h02052C80 /\ MakeArbId(10, 0, 1) = \h02052801
  /\ MakeArbId(14, 0, 1) = \h02053801 /\ MakeArbId(14, 1, 3) = \h02053843
ASSUME TestedOrders ==
  /\ EncodeSetpoint(<<0, 0, \h96, \h43>>, 1) = <<0, 0, \h96, \h43, 0, 0, 1, 0>>
  /\ EncodeSetpoint(Zero32, 5) = <<0, 0, 0, 0, 0, 0, 1, 0>>
  /\ EncodeParamWrite(188, <<1, 0, 0, 0>>) = <<\hBC, 1, 0, 0, 0>>
  /\ EncodeSetEncoderPosition(Zero32) = <<0, 0, 0, 0, 3>>
  /\ EncodeHeartbeat({8}) = <<0, 1, 0, 0, 0, 0, 0, 0>>
  /\ EncodeHeartbeat(0..63) = [i \in 1..8 |-> 255]
ASSUME TestedReports ==
  /\ DecodeStatus0(<<0, 0, \hD1, 6, 0, \h18, \h80, 0>>) =
       [dutyCycle |-> 0, voltage |-> \h6D1, current |-> 0, temperature |-> 24]
  /\ DecodeStatus1(<<4, 0, 4, 8, 0, 16, 0, 0>>) =
       [faults |-> 4 + 1024, stickyFaults |-> 8 + 4096]
  /\ DecodeStatus3(<<\hDE, \hAD, \hBE, \hEF, 0, 0, \h80, \h3E>>).analogPosition =
       <<0, 0, \h80, \h3E>>
  /\ DecodeParamWriteResponse(<<\hBC, 2, 1, 0, 0, 0, 0>>) = [paramId |-> 188, resultCode |-> 0]
  /\ Understand("Spark25x", 4, \h02053843, <<\hBC, 2, 1, 0, 0, 0, 0>>) = Nothing
  /\ Understand("Spark25x", 3, \h02053843, <<\hBC, 2, 1, 0, 0, 0>>) = Nothing

Joined(apiClass, apiIndex, deviceId) ==
  (2 * 16777216) | (5 * 65536) | (apiClass * 1024) | (apiIndex * 64) | deviceId

\* The sums that stand for ids are what the code's | of the shifted fields
\* gives, for each frame, parameter numbers above the index field included.
ASSUME SumsAreJoins ==
  \A f \in Frames :
    ArbId(f) =
      CASE f.kind = "parameter" -> Joined(48, 0, f.device) | (f.code * 64)
        [] f.kind = "alien" -> f.code
        [] OTHER -> Joined((f.code \div 16) & 63, f.code & 15, f.device & 63)
=============================================================================
