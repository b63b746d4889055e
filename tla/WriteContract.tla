---------------------------- MODULE WriteContract ----------------------------
(***************************************************************************)
(* What a verified write promises its caller, with neither slot nor        *)
(* attempts nor queues: a call ends with "true" only if the controller's   *)
(* success for the wanted parameter was heard while the call was running. *)
(***************************************************************************)
CONSTANT Params

VARIABLES
  phase,     \* "idle" or "busy"
  wanted,    \* the parameter the call writes
  acked,     \* parameters whose success was heard since the call began
  outcome    \* how the last call ended

vars == <<phase, wanted, acked, outcome>>

Init ==
  /\ phase = "idle" /\ wanted \in Params
  /\ acked = {} /\ outcome = "none"

Begin(p) ==
  /\ phase = "idle"
  /\ phase' = "busy" /\ wanted' = p
  /\ acked' = {} /\ outcome' = "none"

Hear(p) ==
  /\ acked' = acked \union {p}
  /\ UNCHANGED <<phase, wanted, outcome>>

ReturnTrue ==
  /\ phase = "busy" /\ wanted \in acked
  /\ phase' = "idle" /\ outcome' = "true"
  /\ UNCHANGED <<wanted, acked>>

Fail ==
  /\ phase = "busy"
  /\ phase' = "idle" /\ outcome' \in {"false", "thrown"}
  /\ UNCHANGED <<wanted, acked>>

Next ==
  \/ \E p \in Params : Begin(p) \/ Hear(p)
  \/ ReturnTrue
  \/ Fail

Spec == Init /\ [][Next]_vars
=============================================================================
