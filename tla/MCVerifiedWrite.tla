--------------------------- MODULE MCVerifiedWrite ---------------------------
(* Model checking VerifiedWrite: the configuration gives the constants. *)
EXTENDS VerifiedWrite
=============================================================================
