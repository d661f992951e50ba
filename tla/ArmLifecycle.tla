---------------------------- MODULE ArmLifecycle ----------------------------
(***************************************************************************)
(* The Arm object (arm.py) with its runtime state machine, its session     *)
(* (session.py) and the motors behind it, called from several threads: the *)
(* application, a motion worker, a control-loop callback, an operator who  *)
(* presses e-stop.  Arm has no lock of its own, so a call is a sequence of *)
(* steps, one for each access to shared state or to the bus, and the steps *)
(* of different calls interleave.  pc[t] is the step thread t takes next,  *)
(* "idle" between calls; loc[t] holds the local variables of its call.     *)
(*                                                                         *)
(* A bus call fails only if its kind is in Faults.  Joint positions,       *)
(* limits and gains are abstracted: a motion is the number of waypoints    *)
(* that are left, a motor is its mode and whether it is energised.  The    *)
(* join in stop_control_loop() is only a delay here, so the steps of other *)
(* threads between two steps of estop() or close() cover it.               *)
(***************************************************************************)
EXTENDS Integers, Sequences

CONSTANTS
  Threads,    (* the threads that call the arm                             *)
  NumJoints,  (* the joints of the configuration are 1 .. NumJoints        *)
  Menu,       (* Menu[t]: the operations thread t calls                    *)
  OpenOnly,   (* the operations the callers keep for an open session       *)
  ClosedOnly, (* those they keep for an arm that is closed or in FAULT     *)
  Faults,     (* the external calls that may fail, a subset of FaultKinds  *)
  MaxPoints,  (* bound: waypoints of one motion                            *)
  MaxCalls    (* bound: calls of one thread                                *)

Joints == 1 .. NumJoints
Modes  == {"MIT", "POS_VEL", "VEL"}
NoMode == "no mode"

FaultKinds == {"open", "add", "feedback", "mode", "send", "enable",
               "disable", "status", "timeout"}

Operations == {"connect", "close", "reconnect", "enable", "disable",
               "move_j", "home", "move_joint", "gripper_move", "move_l",
               "execute", "reset_to_home", "estop", "clear_faults",
               "set_to_damping", "mit", "pos_vel", "set_vel",
               "joint_vel", "joint_mit", "zero_calibrate", "zero_joint",
               "read_param", "write_param", "get_faults"}

ASSUME ConstantsAssumption ==
  /\ NumJoints \in Nat \ {0}
  /\ Menu \in [Threads -> SUBSET Operations]
  /\ OpenOnly \subseteq Operations /\ ClosedOnly \subseteq Operations
  /\ Faults \subseteq FaultKinds
  /\ MaxPoints \in Nat
  /\ MaxCalls \in Nat

VARIABLES
  run,         (* RuntimeStateMachine._state                               *)
  cache,       (* StateCache._state.run_state                              *)
  abort,       (* Arm._abort_event is set                                  *)
  damping,     (* Arm._damping_mode                                        *)
  controller,  (* MotorBridgeSession._controller is not None               *)
  handles,     (* MotorBridgeSession._joints                               *)
  curMode,     (* MotorBridgeSession._current_mode                         *)
  motorOn,     (* the motors that are energised                            *)
  motorMode,   (* the mode each motor is in                                *)
  pc, loc,     (* the next step and the local variables of each thread     *)
  calls,       (* calls made so far, to bound the model                    *)
  late         (* history: waypoints sent since the abort event was set    *)

armVars     == <<run, cache, abort, damping>>
sessionVars == <<controller, handles, curMode>>
motorVars   == <<motorOn, motorMode>>
ghostVars   == <<calls, late>>
vars == <<armVars, sessionVars, motorVars, pc, loc, ghostVars>>

Runtime == INSTANCE RuntimeStateMachine WITH state <- run

Steps == {"idle",
  "connect", "connect_transition", "connect_open", "connect_add",
  "connect_cache", "connect_force", "connect_uncache",
  "close", "close_force", "close_disable", "close_clear", "close_cache",
  "enable", "enable_motors", "enable_cache",
  "disable", "disable_stop", "disable_idle", "disable_motors",
  "disable_cache",
  "move_joint", "gripper_move", "move_l", "move_j", "motion", "motion_clear", "motion_run",
  "motion_save", "motion_cache", "waypoint", "waypoint_send", "motion_end", "motion_enabled", "motion_uncache",
  "motion_restore", "motion_recache",
  "reset_to_home", "home_enabled", "home_cache", "home_pose", "home_mode",
  "ramp_run", "ramp_cache", "ramp", "ramp_send",
  "estop", "estop_pose", "estop_damp", "estop_disable", "estop_force",
  "estop_cache",
  "ensure", "ensure_joint",
  "clear_faults", "damp", "damp_send", "damp_cache",
  "direct", "direct_send", "joint", "zero", "zero_joint",
  "read_param", "write_param", "get_faults"}

(* Where a call goes on after ensure_mode_all(). *)
Continuations == {"idle", "motion_cache", "motion_recache", "ramp_run",
                  "estop_damp", "damp_send", "direct_send"}

NoCall == [op |-> "none", prev |-> "DISCONNECTED", saved |-> NoMode,
           want |-> NoMode, after |-> "idle", i |-> 1, left |-> 0,
           raised |-> FALSE]

(***************************************************************************)
(* Control flow of a thread.                                               *)
(***************************************************************************)
At(t, step) == pc[t] = step

Goto(t, step) == pc' = [pc EXCEPT ![t] = step] /\ UNCHANGED loc

(* The call returns, or raises to its caller. *)
Return(t) ==
  /\ pc'  = [pc EXCEPT ![t] = "idle"]
  /\ loc' = [loc EXCEPT ![t] = NoCall]

(* An external call of this kind raises. *)
Fails(kind) == kind \in Faults

(* self._abort_event.set() *)
SetAbort ==
  /\ abort' = TRUE
  /\ late'  = IF abort THEN late ELSE [t \in Threads |-> 0]

(* refresh_state() gets through: the outlier filter and the cache hold one *)
(* entry per configured joint and reject the index of a duplicate handle.  *)
FeedbackOk == run # "DISCONNECTED" /\ Len(handles) <= NumJoints

(* The motors a session handle addresses. *)
Wired == {handles[k] : k \in 1 .. Len(handles)}

-----------------------------------------------------------------------------
(***************************************************************************)
(* connect(): the transition comes first, so that a failure rolls it back. *)
(***************************************************************************)
ConnectPrev(t) ==
  /\ At(t, "connect")
  /\ pc'  = [pc EXCEPT ![t] = "connect_transition"]
  /\ loc' = [loc EXCEPT ![t].prev = run]
  /\ UNCHANGED <<armVars, sessionVars, motorVars, ghostVars>>

ConnectTransition(t) ==
  /\ At(t, "connect_transition")
  /\ \/ Runtime!Transition("IDLE") /\ Goto(t, "connect_open")
     \/ ~Runtime!Accepts(run, "IDLE") /\ Return(t) /\ UNCHANGED run
  /\ UNCHANGED <<cache, abort, damping, sessionVars, motorVars, ghostVars>>

(* MotorBridgeSession.connect() waits for the session lock close() holds.  *)
ConnectOpen(t) ==
  /\ At(t, "connect_open")
  /\ \A u \in Threads : ~At(u, "close_clear")
  /\ \/ controller' = TRUE /\ Goto(t, "connect_add")
     \/ /\ ~controller /\ Fails("open")
        /\ Goto(t, "connect_force") /\ UNCHANGED controller
  /\ UNCHANGED <<armVars, handles, curMode, motorVars, ghostVars>>

(* add_joint() for each configured joint, then the cache. *)
ConnectAdd(t) ==
  /\ At(t, "connect_add")
  /\ \/ /\ loc[t].i > NumJoints
        /\ Goto(t, "connect_cache") /\ UNCHANGED handles
     \/ /\ loc[t].i <= NumJoints /\ controller
        /\ handles' = Append(handles, loc[t].i)
        /\ loc' = [loc EXCEPT ![t].i = @ + 1]
        /\ UNCHANGED pc
     \/ /\ loc[t].i <= NumJoints
        /\ ~controller \/ Fails("add")
        /\ Goto(t, "connect_force") /\ UNCHANGED handles
  /\ UNCHANGED <<armVars, controller, curMode, motorVars, ghostVars>>

(* Mutant: caches a name that is not a run state. *)
ConnectCacheUntyped(t) ==
  /\ At(t, "connect_cache")
  /\ cache' = "CONNECTED"
  /\ Return(t)
  /\ UNCHANGED <<run, abort, damping, sessionVars, motorVars, ghostVars>>

ConnectCache(t) ==
  /\ At(t, "connect_cache")
  /\ cache' = "IDLE"
  /\ Return(t)
  /\ UNCHANGED <<run, abort, damping, sessionVars, motorVars, ghostVars>>

(* The except branch: neither the controller nor the handles are undone. *)
ConnectRollback(t) ==
  /\ \/ /\ At(t, "connect_force")
        /\ Runtime!Force(loc[t].prev)
        /\ Goto(t, "connect_uncache") /\ UNCHANGED cache
     \/ /\ At(t, "connect_uncache")
        /\ cache' = loc[t].prev
        /\ Return(t) /\ UNCHANGED run
  /\ UNCHANGED <<abort, damping, sessionVars, motorVars, ghostVars>>

(***************************************************************************)
(* close(), and the close() then connect() of reconnect().                 *)
(***************************************************************************)
CloseAbort(t) ==
  /\ At(t, "close")
  /\ SetAbort
  /\ Goto(t, "close_force")
  /\ UNCHANGED <<run, cache, damping, sessionVars, motorVars, calls>>

(* Mutant: asks the table, and shrugs when it says no. *)
CloseAsksTable(t) ==
  /\ At(t, "close_force")
  /\ \/ Runtime!Transition("DISCONNECTED")
     \/ ~Runtime!Accepts(run, "DISCONNECTED") /\ UNCHANGED run
  /\ Goto(t, "close_disable")
  /\ UNCHANGED <<cache, abort, damping, sessionVars, motorVars, ghostVars>>

CloseForce(t) ==
  /\ At(t, "close_force")
  /\ Runtime!Force("DISCONNECTED")
  /\ Goto(t, "close_disable")
  /\ UNCHANGED <<cache, abort, damping, sessionVars, motorVars, ghostVars>>

(* MotorBridgeSession.close() swallows a failing disable_all(). *)
CloseDisable(t) ==
  /\ At(t, "close_disable")
  /\ \A u \in Threads : ~At(u, "close_clear")
  /\ motorOn' \in {motorOn \ (IF controller THEN Wired ELSE {})}
                    \cup (IF Fails("disable") THEN {motorOn} ELSE {})
  /\ Goto(t, "close_clear")
  /\ UNCHANGED <<armVars, sessionVars, motorMode, ghostVars>>

(* Mutants: the cached mode, or the joint handles, survive the session. *)
CloseKeepsMode(t) ==
  /\ At(t, "close_clear")
  /\ controller' = FALSE
  /\ handles' = <<>>
  /\ Goto(t, "close_cache")
  /\ UNCHANGED <<armVars, curMode, motorVars, ghostVars>>

CloseKeepsJoints(t) ==
  /\ At(t, "close_clear")
  /\ controller' = FALSE
  /\ curMode' = NoMode
  /\ Goto(t, "close_cache")
  /\ UNCHANGED <<armVars, handles, motorVars, ghostVars>>

CloseClear(t) ==
  /\ At(t, "close_clear")
  /\ controller' = FALSE
  /\ handles' = <<>>
  /\ curMode' = NoMode
  /\ Goto(t, "close_cache")
  /\ UNCHANGED <<armVars, motorVars, ghostVars>>

CloseCache(t) ==
  /\ At(t, "close_cache")
  /\ cache' = "DISCONNECTED"
  /\ \/ loc[t].op = "reconnect" /\ Goto(t, "connect")
     \/ loc[t].op # "reconnect" /\ Return(t)
  /\ UNCHANGED <<run, abort, damping, sessionVars, motorVars, ghostVars>>

(***************************************************************************)
(* enable(): which motors confirm is not looked at.                        *)
(***************************************************************************)
EnableTransition(t) ==
  /\ At(t, "enable")
  /\ \/ Runtime!Transition("ENABLED") /\ Goto(t, "enable_motors")
     \/ ~Runtime!Accepts(run, "ENABLED") /\ Return(t) /\ UNCHANGED run
  /\ UNCHANGED <<cache, abort, damping, sessionVars, motorVars, ghostVars>>

EnableMotors(t) ==
  /\ At(t, "enable_motors")
  /\ \/ /\ controller
        /\ \/ motorOn' = motorOn \cup Wired
           \/ Fails("status") /\ \E stuck \in Wired :
                motorOn' = motorOn \cup (Wired \ {stuck})
        /\ Goto(t, "enable_cache")
     \/ /\ ~controller \/ Fails("enable")
        /\ Return(t) /\ UNCHANGED motorOn
  /\ UNCHANGED <<armVars, sessionVars, motorMode, ghostVars>>

EnableCache(t) ==
  /\ At(t, "enable_cache")
  /\ cache' = "ENABLED"
  /\ Return(t)
  /\ UNCHANGED <<run, abort, damping, sessionVars, motorVars, ghostVars>>

(***************************************************************************)
(* disable(): it does not set the abort event.                             *)
(***************************************************************************)
DisableTransitions(t) ==
  /\ \/ /\ At(t, "disable")
        /\ \/ run = "DISCONNECTED" /\ Return(t)
           \/ run = "RUNNING" /\ Goto(t, "disable_stop")
           \/ run \notin {"DISCONNECTED", "RUNNING"} /\ Goto(t, "disable_idle")
        /\ UNCHANGED run
     \/ /\ At(t, "disable_stop")
        /\ \/ Runtime!Transition("ENABLED") /\ Goto(t, "disable_idle")
           \/ ~Runtime!Accepts(run, "ENABLED") /\ Return(t) /\ UNCHANGED run
     \/ /\ At(t, "disable_idle")
        /\ \/ Runtime!Transition("IDLE") /\ Goto(t, "disable_motors")
           \/ ~Runtime!Accepts(run, "IDLE") /\ Return(t) /\ UNCHANGED run
  /\ UNCHANGED <<cache, abort, damping, sessionVars, motorVars, ghostVars>>

DisableMotors(t) ==
  /\ At(t, "disable_motors")
  /\ \/ /\ \/ motorOn' = motorOn \ (IF controller THEN Wired ELSE {})
           \/ controller /\ Fails("status") /\ \E stuck \in Wired :
                motorOn' = motorOn \ (Wired \ {stuck})
        /\ Goto(t, "disable_cache")
     \/ controller /\ Fails("disable") /\ Return(t) /\ UNCHANGED motorOn
  /\ UNCHANGED <<armVars, sessionVars, motorMode, ghostVars>>

DisableCache(t) ==
  /\ At(t, "disable_cache")
  /\ cache' = "IDLE"
  /\ Return(t)
  /\ UNCHANGED <<run, abort, damping, sessionVars, motorVars, ghostVars>>

(***************************************************************************)
(* ensure_mode_all(): the cached mode decides whether to ask the motors,   *)
(* and changes only after every handle switched.  The caller goes on at    *)
(* "after"; when a handle fails, at the step its except branch leads to.   *)
(***************************************************************************)
EnsureMode(t, mode, after) ==
  /\ pc'  = [pc EXCEPT ![t] = "ensure"]
  /\ loc' = [loc EXCEPT ![t].want = mode, ![t].after = after, ![t].i = 1]

EnsureCached(t) ==
  /\ At(t, "ensure")
  /\ Goto(t, IF curMode = loc[t].want THEN loc[t].after ELSE "ensure_joint")
  /\ UNCHANGED <<armVars, sessionVars, motorVars, ghostVars>>

EnsureJoint(t) ==
  /\ At(t, "ensure_joint")
  /\ \/ /\ loc[t].i <= Len(handles)
        /\ motorMode' = [motorMode EXCEPT ![handles[loc[t].i]] = loc[t].want]
        /\ loc' = [loc EXCEPT ![t].i = @ + 1]
        /\ UNCHANGED <<pc, curMode>>
     \/ /\ loc[t].i > Len(handles)
        /\ curMode' = loc[t].want
        /\ Goto(t, loc[t].after)
        /\ UNCHANGED motorMode
     \/ /\ loc[t].i <= Len(handles) /\ Fails("mode")
        /\ CASE loc[t].after = "motion_recache" -> Goto(t, "motion_recache")
             [] loc[t].after = "estop_damp"     -> Goto(t, "estop_disable")
             [] OTHER                           -> Return(t)
        /\ UNCHANGED <<curMode, motorMode>>
  /\ UNCHANGED <<armVars, controller, handles, motorOn, ghostVars>>

(* set_pos_vel_all() and its siblings reach every motor or raise: one      *)
(* value per configured joint must meet one handle each.                   *)
SendOk == Len(handles) = NumJoints

(***************************************************************************)
(* The motions.  Each reads the joint positions, works out its points and  *)
(* runs them: the body is _run_joint_points() around the executor's loop,  *)
(* from step "motion", where execute_joint_trajectory() starts.            *)
(***************************************************************************)
(* The positions are read before the next step, or the call raises. *)
Aim(t, step, next) ==
  /\ At(t, step)
  /\ \/ FeedbackOk /\ Goto(t, next)
     \/ (~FeedbackOk \/ Fails("feedback")) /\ Return(t)
  /\ UNCHANGED <<armVars, sessionVars, motorVars, ghostVars>>

(* The call raises before it has touched the arm. *)
Refused(t, step) ==
  /\ At(t, step)
  /\ Return(t)
  /\ UNCHANGED <<armVars, sessionVars, motorVars, ghostVars>>

UnknownJoint(t) == Refused(t, "move_joint")

NoGripper(t) == Refused(t, "gripper_move")

Unsolvable(t) == Refused(t, "move_l")

MoveJ(t) == Aim(t, "move_j", "motion")

(* move_joint(), move_joints(), gripper_open() and gripper_close() fill the*)
(* positions of the other joints in and call move_j().                     *)
MoveJoint(t) == UnknownJoint(t) \/ Aim(t, "move_joint", "move_j")

GripperMove(t) == NoGripper(t) \/ Aim(t, "gripper_move", "move_j")

(* move_l(), move_c(): the tracker or the inverse kinematics of a point    *)
(* may find no solution, before the arm is touched.                        *)
MoveCartesian(t) == Unsolvable(t) \/ Aim(t, "move_l", "motion")

(* The abort event is tested and cleared in two steps. *)
MotionGate(t) ==
  /\ \/ /\ At(t, "motion")
        /\ \/ abort /\ Return(t)
           \/ ~abort /\ Goto(t, "motion_clear")
        /\ UNCHANGED abort
     \/ /\ At(t, "motion_clear")
        /\ abort' = FALSE
        /\ Goto(t, "motion_run")
  /\ UNCHANGED <<run, cache, damping, sessionVars, motorVars, ghostVars>>

(* RUNNING and the mode switch come before the try block. *)
MotionRun(t) ==
  /\ \/ /\ At(t, "motion_run")
        /\ \/ Runtime!Transition("RUNNING") /\ Goto(t, "motion_save")
           \/ ~Runtime!Accepts(run, "RUNNING") /\ Return(t) /\ UNCHANGED run
     \/ /\ At(t, "motion_save")
        /\ \E n \in 1 .. MaxPoints :
             loc' = [loc EXCEPT ![t].saved = curMode, ![t].left = n,
                                ![t].want = "POS_VEL", ![t].i = 1,
                                ![t].after = "motion_cache"]
        /\ pc' = [pc EXCEPT ![t] = "ensure"]
        /\ UNCHANGED run
  /\ UNCHANGED <<cache, abort, damping, sessionVars, motorVars, ghostVars>>

MotionCache(t) ==
  /\ At(t, "motion_cache")
  /\ cache' = "RUNNING"
  /\ Goto(t, "waypoint")
  /\ UNCHANGED <<run, abort, damping, sessionVars, motorVars, ghostVars>>

(* Mutant: the abort event is looked at only once the points are used up. *)
WaypointIgnoresAbort(t) ==
  /\ At(t, "waypoint")
  /\ Goto(t, IF loc[t].left > 0 THEN "waypoint_send" ELSE "motion_end")
  /\ UNCHANGED <<armVars, sessionVars, motorVars, ghostVars>>

(* JointMotionExecutor.run(), the head of the loop. *)
Waypoint(t) ==
  /\ At(t, "waypoint")
  /\ \/ /\ loc[t].left > 0 /\ ~abort
        /\ Goto(t, "waypoint_send") /\ UNCHANGED <<abort, late>>
     \/ /\ loc[t].left = 0 \/ abort
        /\ Goto(t, "motion_end") /\ UNCHANGED <<abort, late>>
     \/ /\ loc[t].left > 0 /\ ~abort /\ Fails("timeout")
        /\ SetAbort
        /\ Goto(t, "motion_end")
  /\ UNCHANGED <<run, cache, damping, sessionVars, motorVars, calls>>

(* Mutants: a failed send is retried for ever, or escapes the finally block. *)
SendPointStubborn(t, send, again, end) ==
  /\ At(t, send)
  /\ pc'  = [pc EXCEPT ![t] = again]
  /\ loc' = [loc EXCEPT ![t].left = IF SendOk THEN @ - 1 ELSE @]
  /\ late' = IF abort THEN [late EXCEPT ![t] = @ + 1] ELSE late
  /\ UNCHANGED <<armVars, sessionVars, motorVars, calls>>

SendPointNoFinally(t, send, again, end) ==
  /\ At(t, send)
  /\ \/ /\ SendOk
        /\ pc'   = [pc EXCEPT ![t] = again]
        /\ loc'  = [loc EXCEPT ![t].left = @ - 1]
        /\ late' = IF abort THEN [late EXCEPT ![t] = @ + 1] ELSE late
     \/ /\ ~SendOk \/ Fails("send")
        /\ Return(t) /\ UNCHANGED late
  /\ UNCHANGED <<armVars, sessionVars, motorVars, calls>>

(* Sends the waypoint, or raises through run()'s finally block. *)
SendPoint(t, send, again, end) ==
  /\ At(t, send)
  /\ \/ /\ SendOk
        /\ pc'   = [pc EXCEPT ![t] = again]
        /\ loc'  = [loc EXCEPT ![t].left = @ - 1]
        /\ late' = IF abort THEN [late EXCEPT ![t] = @ + 1] ELSE late
     \/ /\ ~SendOk \/ Fails("send")
        /\ pc'  = [pc EXCEPT ![t] = end]
        /\ loc' = [loc EXCEPT ![t].raised = TRUE]
        /\ UNCHANGED late
  /\ UNCHANGED <<armVars, sessionVars, motorVars, calls>>

WaypointSend(t) == SendPoint(t, "waypoint_send", "waypoint", "motion_end")

(* Mutant: the motion ends without telling the cache. *)
MotionEndUncached(t) ==
  /\ At(t, "motion_end")
  /\ run' = IF run = "RUNNING" THEN "ENABLED" ELSE run
  /\ Goto(t, "motion_restore")
  /\ UNCHANGED <<cache, abort, damping, sessionVars, motorVars, ghostVars>>

(* The finally block: back to ENABLED unless someone left RUNNING ...      *)
MotionEnd(t) ==
  /\ \/ /\ At(t, "motion_end")
        /\ Goto(t, IF run = "RUNNING" THEN "motion_enabled"
                                      ELSE "motion_restore")
        /\ UNCHANGED <<run, cache>>
     \/ /\ At(t, "motion_enabled")
        /\ \/ Runtime!Transition("ENABLED") /\ Goto(t, "motion_uncache")
           \/ ~Runtime!Accepts(run, "ENABLED") /\ Return(t) /\ UNCHANGED run
        /\ UNCHANGED cache
     \/ /\ At(t, "motion_uncache")
        /\ cache' = "ENABLED"
        /\ Goto(t, "motion_restore")
        /\ UNCHANGED run
  /\ UNCHANGED <<abort, damping, sessionVars, motorVars, ghostVars>>

(* Back in the caller of the motion. *)
MotionReturn(t) ==
  IF loc[t].op = "reset_to_home" /\ ~loc[t].raised
  THEN pc' = [pc EXCEPT ![t] = "home_mode"] /\ UNCHANGED loc
  ELSE Return(t)

(* ... and back to the mode before the motion, whatever the state is then. *)
MotionRestore(t) ==
  /\ \/ /\ At(t, "motion_restore")
        /\ IF loc[t].saved \in {NoMode, "POS_VEL"}
           THEN MotionReturn(t)
           ELSE EnsureMode(t, loc[t].saved, "motion_recache")
        /\ UNCHANGED cache
     \/ /\ At(t, "motion_recache")
        /\ cache' = "ENABLED"
        /\ MotionReturn(t)
  /\ UNCHANGED <<run, abort, damping, sessionVars, motorVars, ghostVars>>

(***************************************************************************)
(* reset_to_home(): leave RUNNING and damping, move_j() to a safe pose,    *)
(* then a gain ramp in MIT mode.  The ramp's finally block is MotionEnd's; *)
(* it restores no mode.                                                    *)
(***************************************************************************)
HomeStart(t) ==
  /\ \/ /\ At(t, "reset_to_home")
        /\ \/ run = "DISCONNECTED" /\ Return(t)
           \/ run = "RUNNING" /\ Goto(t, "home_enabled")
           \/ run \notin {"DISCONNECTED", "RUNNING"} /\ Goto(t, "home_pose")
        /\ UNCHANGED <<run, cache, damping>>
     \/ /\ At(t, "home_enabled")
        /\ \/ Runtime!Transition("ENABLED") /\ Goto(t, "home_cache")
           \/ ~Runtime!Accepts(run, "ENABLED") /\ Return(t) /\ UNCHANGED run
        /\ UNCHANGED <<cache, damping>>
     \/ /\ At(t, "home_cache")
        /\ cache' = "ENABLED"
        /\ Goto(t, "home_pose") /\ UNCHANGED <<run, damping>>
     \/ /\ At(t, "home_pose")
        /\ damping' = FALSE
        /\ \/ FeedbackOk /\ Goto(t, "move_j")
           \/ (~FeedbackOk \/ Fails("feedback")) /\ Return(t)
        /\ UNCHANGED <<run, cache>>
  /\ UNCHANGED <<abort, sessionVars, motorVars, ghostVars>>

HomeRamp(t) ==
  /\ \/ /\ At(t, "home_mode")
        /\ \/ FeedbackOk /\ EnsureMode(t, "MIT", "ramp_run")
           \/ (~FeedbackOk \/ Fails("feedback")) /\ Return(t)
        /\ UNCHANGED <<run, cache>>
     \/ /\ At(t, "ramp_run")
        /\ \/ /\ Runtime!Transition("RUNNING")
              /\ pc' = [pc EXCEPT ![t] = "ramp_cache"]
              /\ \E n \in 1 .. MaxPoints :
                   loc' = [loc EXCEPT ![t].op = "ramp", ![t].left = n,
                                      ![t].saved = NoMode]
           \/ ~Runtime!Accepts(run, "RUNNING") /\ Return(t) /\ UNCHANGED run
        /\ UNCHANGED cache
     \/ /\ At(t, "ramp_cache")
        /\ cache' = "RUNNING"
        /\ Goto(t, "ramp") /\ UNCHANGED run
     \/ /\ At(t, "ramp")
        /\ Goto(t, IF loc[t].left = 0 \/ abort THEN "motion_end"
                                               ELSE "ramp_send")
        /\ UNCHANGED <<run, cache>>
  /\ UNCHANGED <<abort, damping, sessionVars, motorVars, ghostVars>>

RampSend(t) == SendPoint(t, "ramp_send", "ramp", "motion_end")

(***************************************************************************)
(* estop(): abort, damp the arm if the bus lets it, cut the power, FAULT.  *)
(***************************************************************************)
EstopAbort(t) ==
  /\ At(t, "estop")
  /\ SetAbort
  /\ Goto(t, "estop_pose")
  /\ UNCHANGED <<run, cache, damping, sessionVars, motorVars, calls>>

(* The try block: any failure of it only skips the rest of it. *)
EstopDamp(t) ==
  /\ \/ /\ At(t, "estop_pose")
        /\ \/ FeedbackOk /\ EnsureMode(t, "MIT", "estop_damp")
           \/ (~FeedbackOk \/ Fails("feedback")) /\ Goto(t, "estop_disable")
     \/ At(t, "estop_damp") /\ Goto(t, "estop_disable")
  /\ UNCHANGED <<armVars, sessionVars, motorVars, ghostVars>>

(* Mutant: damps the arm and never cuts the power. *)
EstopLeavesPower(t) ==
  /\ At(t, "estop_disable")
  /\ Goto(t, "estop_force")
  /\ UNCHANGED <<armVars, sessionVars, motorVars, ghostVars>>

EstopDisable(t) ==
  /\ At(t, "estop_disable")
  /\ \/ /\ motorOn' = motorOn \ (IF controller THEN Wired ELSE {})
        /\ Goto(t, "estop_force")
     \/ controller /\ Fails("disable") /\ Return(t) /\ UNCHANGED motorOn
  /\ UNCHANGED <<armVars, sessionVars, motorMode, ghostVars>>

EstopForce(t) ==
  /\ At(t, "estop_force")
  /\ Runtime!Force("FAULT")
  /\ Goto(t, "estop_cache")
  /\ UNCHANGED <<cache, abort, damping, sessionVars, motorVars, ghostVars>>

EstopCache(t) ==
  /\ At(t, "estop_cache")
  /\ cache' = "FAULT"
  /\ damping' = FALSE
  /\ Return(t)
  /\ UNCHANGED <<run, abort, sessionVars, motorVars, ghostVars>>

(***************************************************************************)
(* The calls that leave the run state alone.                               *)
(***************************************************************************)
(* clear_faults() clears the abort event first; clear_error() changes no   *)
(* state of the model, whether it succeeds or raises.                      *)
ClearFaults(t) ==
  /\ At(t, "clear_faults")
  /\ abort' = FALSE
  /\ Return(t)
  /\ UNCHANGED <<run, cache, damping, sessionVars, motorVars, ghostVars>>

SetToDamping(t) ==
  /\ \/ /\ At(t, "damp")
        /\ \/ FeedbackOk /\ EnsureMode(t, "MIT", "damp_send")
           \/ (~FeedbackOk \/ Fails("feedback")) /\ Return(t)
        /\ UNCHANGED <<cache, damping>>
     \/ /\ At(t, "damp_send")
        /\ \/ SendOk /\ damping' = TRUE /\ Goto(t, "damp_cache")
           \/ (~SendOk \/ Fails("send")) /\ Return(t) /\ UNCHANGED damping
        /\ UNCHANGED cache
     \/ /\ At(t, "damp_cache")
        /\ cache' = "ENABLED"
        /\ Return(t) /\ UNCHANGED damping
  /\ UNCHANGED <<run, abort, sessionVars, motorVars, ghostVars>>

(* mit(), pos_vel(), set_vel(): one setpoint for all joints. *)
DirectMode(op) ==
  CASE op = "mit" -> "MIT" [] op = "pos_vel" -> "POS_VEL" [] OTHER -> "VEL"

Direct(t) ==
  /\ At(t, "direct")
  /\ \/ run = "DISCONNECTED" /\ Return(t)
     \/ run # "DISCONNECTED"
        /\ EnsureMode(t, DirectMode(loc[t].op), "direct_send")
  /\ UNCHANGED <<armVars, sessionVars, motorVars, ghostVars>>

DirectSend(t) ==
  /\ At(t, "direct_send")
  /\ Return(t)
  /\ UNCHANGED <<armVars, sessionVars, motorVars, ghostVars>>

(* joint_vel(), joint_mit(): the mode of one motor, and not _current_mode. *)
JointCommand(t) ==
  /\ At(t, "joint")
  /\ \/ \E k \in Joints :
          /\ k <= Len(handles)
          /\ motorMode' = [motorMode EXCEPT ![handles[k]] =
                             IF loc[t].op = "joint_vel" THEN "VEL" ELSE "MIT"]
     \/ /\ Len(handles) < NumJoints \/ Fails("mode")
        /\ UNCHANGED motorMode
  /\ Return(t)
  /\ UNCHANGED <<armVars, sessionVars, motorOn, ghostVars>>

(* zero_calibrate("all"): set_zero_joint() de-energises each motor in turn *)
(* and stops at the first failure.                                         *)
ZeroCalibrate(t) ==
  /\ At(t, "zero")
  /\ \/ /\ loc[t].i <= Len(handles)
        /\ motorOn' = motorOn \ {handles[loc[t].i]}
        /\ loc' = [loc EXCEPT ![t].i = @ + 1]
        /\ UNCHANGED pc
     \/ /\ loc[t].i > Len(handles) \/ Fails("send")
        /\ Return(t) /\ UNCHANGED motorOn
  /\ UNCHANGED <<armVars, sessionVars, motorMode, ghostVars>>

(* zero_calibrate("joint"), of one that has a handle or not. *)
ZeroJoint(t) ==
  /\ At(t, "zero_joint")
  /\ \/ \E k \in Joints :
          k <= Len(handles) /\ motorOn' = motorOn \ {handles[k]}
     \/ /\ Len(handles) < NumJoints \/ Fails("send")
        /\ UNCHANGED motorOn
  /\ Return(t)
  /\ UNCHANGED <<armVars, sessionVars, motorMode, ghostVars>>
(* A parameter is a register of one motor.  Which of them selects the      *)
(* control mode is the vendor's: any write may switch it, and leave        *)
(* _current_mode behind.                                                   *)
SetParam ==
  \E k \in Joints, mode \in Modes :
    /\ k <= Len(handles)
    /\ motorMode' = [motorMode EXCEPT ![handles[k]] = mode]

WriteParam(t) ==
  /\ At(t, "write_param")
  /\ SetParam \/ UNCHANGED motorMode
  /\ Return(t)
  /\ UNCHANGED <<armVars, sessionVars, motorOn, ghostVars>>

(* The calls that only ask the motors, and return or raise. *)
ReadParam(t) == Refused(t, "read_param")

GetFaults(t) == Refused(t, "get_faults")
-----------------------------------------------------------------------------
(* The first step of each operation that does not share its name. *)
FirstStep(op) ==
  CASE op = "reconnect"                     -> "close"
    [] op = "execute"                       -> "motion"
    [] op = "home"                          -> "move_j"
    [] op = "set_to_damping"                -> "damp"
    [] op \in {"mit", "pos_vel", "set_vel"} -> "direct"
    [] op \in {"joint_vel", "joint_mit"}    -> "joint"
    [] op = "zero_calibrate"                -> "zero"
    [] OTHER                                -> op

Call(t, op) ==
  /\ At(t, "idle")
  /\ op \in Menu[t]
  /\ op \in OpenOnly => controller
  /\ op \in ClosedOnly => run \in {"DISCONNECTED", "FAULT"}
  /\ calls[t] < MaxCalls
  /\ calls' = [calls EXCEPT ![t] = @ + 1]
  /\ pc'  = [pc EXCEPT ![t] = FirstStep(op)]
  /\ loc' = [loc EXCEPT ![t].op = op]
  /\ UNCHANGED <<armVars, sessionVars, motorVars, late>>

(* Arm.__init__ with the motors as the last user of the bus left them. *)
Init ==
  /\ run = "DISCONNECTED" /\ cache = "DISCONNECTED"
  /\ abort = FALSE /\ damping = FALSE
  /\ controller = FALSE /\ handles = <<>> /\ curMode = NoMode
  /\ motorOn = {}
  /\ motorMode \in [Joints -> Modes]
  /\ pc = [t \in Threads |-> "idle"]
  /\ loc = [t \in Threads |-> NoCall]
  /\ calls = [t \in Threads |-> 0]
  /\ late = [t \in Threads |-> 0]

Connecting(t) ==
  \/ ConnectPrev(t) \/ ConnectTransition(t) \/ ConnectOpen(t)
  \/ ConnectAdd(t) \/ ConnectCache(t) \/ ConnectRollback(t)

Closing(t) ==
  \/ CloseAbort(t) \/ CloseForce(t) \/ CloseDisable(t)
  \/ CloseClear(t) \/ CloseCache(t)

Powering(t) ==
  \/ EnableTransition(t) \/ EnableMotors(t) \/ EnableCache(t)
  \/ DisableTransitions(t) \/ DisableMotors(t) \/ DisableCache(t)

Aiming(t) ==
  \/ MoveJ(t) \/ MoveJoint(t) \/ GripperMove(t) \/ MoveCartesian(t)

Moving(t) ==
  \/ Aiming(t)
  \/ MotionGate(t) \/ MotionRun(t) \/ MotionCache(t)
  \/ Waypoint(t) \/ WaypointSend(t) \/ MotionEnd(t) \/ MotionRestore(t)
  \/ HomeStart(t) \/ HomeRamp(t) \/ RampSend(t)

Stopping(t) ==
  \/ EstopAbort(t) \/ EstopDamp(t) \/ EstopDisable(t)
  \/ EstopForce(t) \/ EstopCache(t)

Commanding(t) ==
  \/ EnsureCached(t) \/ EnsureJoint(t)
  \/ ClearFaults(t) \/ SetToDamping(t) \/ Direct(t) \/ DirectSend(t)
  \/ JointCommand(t) \/ ZeroCalibrate(t) \/ ZeroJoint(t)
  \/ WriteParam(t) \/ ReadParam(t) \/ GetFaults(t)

Step(t) ==
  \/ Connecting(t) \/ Closing(t) \/ Powering(t)
  \/ Moving(t) \/ Stopping(t) \/ Commanding(t)

(* While the session is closed the bus is free for other programs, which   *)
(* may leave a motor in another mode.                                      *)
OtherUser ==
  /\ ~controller
  /\ \E j \in Joints, mode \in Modes :
       motorMode' = [motorMode EXCEPT ![j] = mode]
  /\ UNCHANGED <<armVars, sessionVars, motorOn, pc, loc, ghostVars>>

Next ==
  \/ \E t \in Threads : Step(t) \/ \E op \in Operations : Call(t, op)
  \/ OtherUser

Spec == Init /\ [][Next]_vars

(* A thread in a call runs on: every bus call returns or times out.        *)
(* Nothing makes a thread call the arm again.                              *)
FairSpec == Spec /\ \A t \in Threads : WF_vars(Step(t))
-----------------------------------------------------------------------------
(***************************************************************************)
(* Properties.                                                             *)
(***************************************************************************)
(* The values each variable takes. *)
Positive == Nat \ {0}

Locals ==
  [op : Operations \cup {"none", "ramp"}, prev : Runtime!RunStates,
   saved : Modes \cup {NoMode}, want : Modes \cup {NoMode}, after : Continuations,
   i : Positive, left : Int, raised : BOOLEAN]

TypeOK ==
  /\ run \in Runtime!RunStates /\ cache \in Runtime!RunStates
  /\ abort \in BOOLEAN /\ damping \in BOOLEAN /\ controller \in BOOLEAN
  /\ handles \in Seq(Joints)
  /\ curMode \in Modes \cup {NoMode}
  /\ motorOn \subseteq Joints
  /\ motorMode \in [Joints -> Modes]
  /\ pc \in [Threads -> Steps]
  /\ loc \in [Threads -> Locals]
  /\ calls \in [Threads -> Nat]
  /\ late \in [Threads -> Nat]

(* No call is in progress. *)
Quiet == \A t \in Threads : At(t, "idle")

(* Sticky abort (executor.py:48, arm.py:332): while the abort event stays  *)
(* set, a motion sends at most the waypoint it had already decided to send *)
(* when the event was set, and no thread starts another motion.            *)
AbortStopsMotion == abort => \A t \in Threads : late[t] <= 1

(* The arm implements RuntimeStateMachine: the run state only moves along  *)
(* _ALLOWED, except that estop() and close() force it.  So a connect()     *)
(* that fails and forces the state it found (arm.py:121) must not take an  *)
(* arm from FAULT to ENABLED that another thread stopped meanwhile; and a  *)
(* connect() on top of a connection would.  It needs callers who keep      *)
(* connect() for an arm that is closed or in FAULT: then reconnect() rolls *)
(* back to what its own close(), or a stop or disable after it, left.      *)
RuntimeSpec == Runtime!Spec

(* Between calls the run state tells the truth about the power stage: the  *)
(* motors are energised in ENABLED and off in IDLE, FAULT, DISCONNECTED,   *)
(* and no motion is left marked RUNNING.                                   *)
PowerTracksRun ==
  Quiet => /\ run \in {"IDLE", "ENABLED", "FAULT", "DISCONNECTED"}
           /\ motorOn = IF run = "ENABLED" THEN Joints ELSE {}

(* Between calls get_state() reports the run state the arm is in: each     *)
(* operation keeps StateCache in step with RuntimeStateMachine.            *)
CacheTracksRun == Quiet => cache = run

(* Every setpoint goes to motors that are in the mode it is meant for: the *)
(* cached _current_mode that lets ensure_mode_all() return early is right  *)
(* whenever it is used (session.py:162).                                   *)
Sending == {"direct_send", "waypoint_send", "ramp_send", "damp_send",
            "estop_damp"}

SetpointMeetsMode ==
  \A t \in Threads :
    pc[t] \in Sending /\ SendOk =>
      \A j \in Wired : motorMode[j] = loc[t].want

(* Between calls a connected arm has one handle per configured joint, in   *)
(* order, and a disconnected one has closed the bus and dropped them all.  *)
SessionMatchesRun ==
  Quiet => /\ run \in {"IDLE", "ENABLED", "RUNNING"} =>
                controller /\ handles = [j \in Joints |-> j]
           /\ run = "DISCONNECTED" => ~controller /\ handles = <<>>

(* RUNNING has an owner: while the run state is RUNNING some thread is in  *)
(* the stretch of a motion that will take it back to ENABLED, so that no   *)
(* interleaving of motions, stops and disables leaves it behind.  It needs *)
(* mode switches that do not fail (arm.py:1284 is outside the try block)   *)
(* and no connect() that rolls back to a RUNNING it saw (arm.py:114).      *)
OwnsRunning(t) ==
  \/ pc[t] \in {"motion_save", "motion_cache", "waypoint", "waypoint_send",
                 "motion_end", "motion_enabled", "ramp_cache", "ramp",
                 "ramp_send"}
  \/ pc[t] \in {"ensure", "ensure_joint"} /\ loc[t].after = "motion_cache"

RunningHasMotion == run = "RUNNING" => \E t \in Threads : OwnsRunning(t)

(* An arm in FAULT has all its motors off (spec/spec.md:53), whatever      *)
(* motions, disables and calibrations of other threads the estop()         *)
(* interrupted, and whatever of them runs on.  It holds for a              *)
(* disable_all() that does not fail, and where no enable() of another      *)
(* thread overlaps the estop(): enable() passes the table in one step and  *)
(* switches the power on in a later one (arm.py:216).                      *)
FaultPowerOff == run = "FAULT" => motorOn = {}

(* The arm is FAULT when an estop() ends: "The runtime is forced into the  *)
(* FAULT state regardless" (arm.py:359).                                   *)
EstopEndsInFault ==
  [][\A t \in Threads :
       loc[t].op = "estop" /\ pc'[t] = "idle" => run' = "FAULT"]_vars

(* Every call returns to its caller, whatever fails on the bus and however *)
(* the calls of the other threads interleave with it.                      *)
CallsReturn == \A t \in Threads : pc[t] # "idle" ~> pc[t] = "idle"
=============================================================================
