--------------------------- MODULE CommandContract ---------------------------
(***************************************************************************)
(* What a command to a controller promises the thread that calls it: it    *)
(* takes effect once, at some moment of the call, on the controller it was *)
(* called for, or it throws and has no effect; an invalid command has none *)
(* ever.  No queues, attempts or frames.                                   *)
(***************************************************************************)
EXTENDS Sequences

CONSTANTS Threads, Valid, Nobody

VARIABLES
  doing,     \* the command each thread is in, or Nobody's
  outcome,   \* how the last call of each thread ended
  effects    \* the commands that took effect, in order

vars == <<doing, outcome, effects>>

Init ==
  /\ doing = [t \in Threads |-> Nobody]
  /\ outcome = [t \in Threads |-> "none"]
  /\ effects = <<>>

Begin(t, c) ==
  /\ doing[t] = Nobody /\ c \in Valid
  /\ doing' = [doing EXCEPT ![t] = c]
  /\ outcome' = [outcome EXCEPT ![t] = "none"]
  /\ UNCHANGED effects

Refuse(t) ==
  /\ doing[t] = Nobody
  /\ outcome' = [outcome EXCEPT ![t] = "refused"]
  /\ UNCHANGED <<doing, effects>>

TakeEffect(t) ==
  /\ doing[t] # Nobody
  /\ effects' = Append(effects, doing[t])
  /\ doing' = [doing EXCEPT ![t] = Nobody]
  /\ outcome' = [outcome EXCEPT ![t] = "ok"]

Fail(t) ==
  /\ doing[t] # Nobody
  /\ doing' = [doing EXCEPT ![t] = Nobody]
  /\ outcome' = [outcome EXCEPT ![t] = "thrown"]
  /\ UNCHANGED effects

Next ==
  \E t \in Threads :
    \/ \E c \in Valid : Begin(t, c)
    \/ Refuse(t)
    \/ TakeEffect(t)
    \/ Fail(t)

Spec == Init /\ [][Next]_vars
=============================================================================
