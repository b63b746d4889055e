---------------------------- MODULE MCProtocolCheck ----------------------------
(* Model checking ProtocolCheck: the configurations give the constants. *)
EXTENDS ProtocolCheck
=============================================================================
