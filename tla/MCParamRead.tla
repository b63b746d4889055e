----------------------------- MODULE MCParamRead -----------------------------
(* Model checking ParamRead: two parameters that begin with different values. *)
EXTENDS ParamRead

MCParams == {"p1", "p2"}
MCValues == {"v1", "v2"}
MCStored == [p1 |-> "v1", p2 |-> "v2"]
=============================================================================
