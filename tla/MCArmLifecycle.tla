--------------------------- MODULE MCArmLifecycle ---------------------------
(***************************************************************************)
(* Instances of ArmLifecycle for TLC: who calls what.                      *)
(***************************************************************************)
EXTENDS ArmLifecycle, TLC

CONSTANTS app, operator

(* One caller, and every operation that keeps the books: not connect() on  *)
(* top of a connection, the single-joint commands, zero_calibrate() or     *)
(* set_to_damping(), which README.md shows to upset them.                  *)
OneCaller ==
  [t \in Threads |->
     {"reconnect", "close", "enable", "disable", "move_j", "home",
      "move_joint", "gripper_move", "move_l", "execute", "reset_to_home",
      "estop", "clear_faults", "mit", "pos_vel", "set_vel", "read_param",
      "get_faults"}]

(* The application moves the arm while an operator stops it. *)
MoveAndStop ==
  app      :> {"connect", "reconnect", "enable", "execute", "reset_to_home",
               "joint_vel", "write_param"} @@
  operator :> {"estop", "clear_faults", "close", "disable",
               "set_to_damping"}

(* Both move the arm, one stops it, one disables it. *)
Motions ==
  app      :> {"connect", "enable", "execute", "reset_to_home", "estop"} @@
  operator :> {"execute", "disable", "clear_faults", "zero_calibrate",
               "zero_joint"}
=============================================================================
