----------------------------- MODULE MCTelemetry -----------------------------
(* Model checking Telemetry: the configurations give the constants. *)
EXTENDS Telemetry

AllKinds == Kinds
PositionKinds == {"Period0", "Period2", "Status0", "Status2", "Firmware"}
=============================================================================
