------------------------ MODULE RuntimeStateMachine ------------------------
(***************************************************************************)
(* The run state of an arm (runtime/state_machine.py).  transition() and   *)
(* force() each hold the object's lock for their whole body, so each is    *)
(* one step.  Next is what the rest of the program promises to do with     *)
(* it: move along the table, and force only FAULT (estop) and              *)
(* DISCONNECTED (close).                                                   *)
(***************************************************************************)

VARIABLE state

RunStates == {"DISCONNECTED", "IDLE", "ENABLED", "RUNNING", "FAULT"}

(* _ALLOWED, as a relation. *)
Allowed ==
  { <<"DISCONNECTED", "IDLE">>,
    <<"IDLE", "DISCONNECTED">>, <<"IDLE", "ENABLED">>, <<"IDLE", "FAULT">>,
    <<"ENABLED", "IDLE">>, <<"ENABLED", "RUNNING">>, <<"ENABLED", "FAULT">>,
    <<"RUNNING", "ENABLED">>, <<"RUNNING", "FAULT">>,
    <<"FAULT", "IDLE">>, <<"FAULT", "DISCONNECTED">> }

(* transition() returns without an error: the state is already there, or   *)
(* the table has the move.  Otherwise it raises ERR_STATE.                 *)
Accepts(from, to) == from = to \/ <<from, to>> \in Allowed

Transition(to) == Accepts(state, to) /\ state' = to

Force(to) == state' = to

Init == state = "DISCONNECTED"

Next ==
  \/ \E to \in RunStates : Transition(to)
  \/ Force("FAULT")
  \/ Force("DISCONNECTED")

Spec == Init /\ [][Next]_state
=============================================================================
