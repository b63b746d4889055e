------------------------------ MODULE MCLifecycle ------------------------------
(* Model checking Lifecycle: two objects for different controllers. *)
EXTENDS Lifecycle

TwoObjects == {"a", "b"}
TwoDevices == [o \in TwoObjects |-> o]
=============================================================================
