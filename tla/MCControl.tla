------------------------------ MODULE MCControl ------------------------------
(* Model checking Control: the configurations give the constants. *)
EXTENDS Control

MCOps == {"Velocity", "Position", "DutyCycle", "SetpointWithCtrlType", "Heartbeat", "BurnFlash"}

\* Two values to tell apart, out of the output's range, not finite; commands
\* without a value have 0.
MCValues == [op \in MCOps |->
  CASE op = "Velocity" -> {1, 2}
    [] op = "Position" -> {1, NaN}
    [] op = "DutyCycle" -> {1, 2}
    [] op = "SetpointWithCtrlType" -> {NaN}
    [] OTHER -> {0}]
=============================================================================
