---------------------------- MODULE MCFeedback ----------------------------
(***************************************************************************)
(* An instance of Feedback for TLC: an application beside a control loop.  *)
(***************************************************************************)
EXTENDS Feedback, TLC

CONSTANTS app, loop

Calls == app :> 1 @@ loop :> 3
=============================================================================
