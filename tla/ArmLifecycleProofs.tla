------------------------- MODULE ArmLifecycleProofs -------------------------
(***************************************************************************)
(* What holds of ArmLifecycle for every set of threads, every number of    *)
(* joints, every menu and every set of faults.                             *)
(***************************************************************************)
EXTENDS ArmLifecycle, TLAPS

(* A step of the thread's program counter keeps it among the steps.        *)
LEMMA GotoTyped ==
  ASSUME TypeOK, NEW t \in Threads, NEW s \in Steps, Goto(t, s)
  PROVE  pc' \in [Threads -> Steps] /\ loc' \in [Threads -> Locals]
BY DEF TypeOK, Goto

(* Returning leaves a thread idle with no local variables.                 *)
LEMMA ReturnTyped ==
  ASSUME TypeOK, NEW t \in Threads, Return(t)
  PROVE  pc' \in [Threads -> Steps] /\ loc' \in [Threads -> Locals]
<1>1. "idle" \in Steps /\ "idle" \in Continuations
  BY DEF Steps, Continuations
<1>2. NoCall \in Locals
  BY <1>1 DEF NoCall, Locals, Positive, Runtime!RunStates
<1>3. QED
  BY <1>1, <1>2 DEF TypeOK, Return

(* Entering ensure_mode_all() with a mode and a known continuation.        *)
LEMMA EnsureTyped ==
  ASSUME TypeOK, NEW t \in Threads, NEW m \in Modes, NEW a \in Continuations,
         EnsureMode(t, m, a)
  PROVE  pc' \in [Threads -> Steps] /\ loc' \in [Threads -> Locals]
<1>1. "ensure" \in Steps
  BY DEF Steps
<1>2. pc' \in [Threads -> Steps]
  BY <1>1 DEF TypeOK, EnsureMode
<1>3. [loc[t] EXCEPT !.want = m, !.after = a, !.i = 1] \in Locals
  <2>1. 1 \in Positive
    BY DEF Positive
  <2>2. QED
    BY <2>1 DEF TypeOK, Locals
<1>4. loc' = [loc EXCEPT ![t] = [loc[t] EXCEPT !.want = m, !.after = a, !.i = 1]]
  BY DEF EnsureMode, TypeOK, Locals
<1>5. QED
  BY <1>2, <1>3, <1>4 DEF TypeOK

(* What the type invariant says of the local variables of one thread.      *)
LEMMA LocalsTyped ==
  ASSUME TypeOK, NEW t \in Threads
  PROVE  /\ loc[t].prev \in Runtime!RunStates
         /\ loc[t].saved \in Modes \cup {NoMode}
         /\ loc[t].want \in Modes \cup {NoMode}
         /\ loc[t].after \in Continuations
         /\ loc[t].after \in Steps
         /\ loc[t].i \in Positive /\ loc[t].left \in Int
BY DEF TypeOK, Locals, Continuations, Steps

(* The index of a loop over the joints stays a number.                     *)
LEMMA AdvanceTyped ==
  ASSUME TypeOK, NEW t \in Threads, loc' = [loc EXCEPT ![t].i = @ + 1]
  PROVE  loc' \in [Threads -> Locals]
<1>1. loc[t].i + 1 \in Positive
  BY LocalsTyped DEF Positive
<1>2. QED
  BY <1>1 DEF TypeOK, Locals

(* Setting the abort event.                                                *)
LEMMA AbortTyped ==
  ASSUME TypeOK, SetAbort
  PROVE  abort' \in BOOLEAN /\ late' \in [Threads -> Nat]
BY DEF TypeOK, SetAbort

(* connect(), with its rollback, keeps every variable in its type.         *)
LEMMA ConnectingTyped ==
  ASSUME TypeOK, NEW t \in Threads, Connecting(t)
  PROVE  TypeOK'
<1>1. CASE ConnectPrev(t)
  <2>1. pc' \in [Threads -> Steps]
    BY <1>1 DEF TypeOK, ConnectPrev, Steps
  <2>2. loc' \in [Threads -> Locals]
    BY <1>1 DEF TypeOK, ConnectPrev, Locals
  <2>3. QED
    BY <1>1, <2>1, <2>2
       DEF TypeOK, ConnectPrev, armVars, sessionVars, motorVars, ghostVars
<1>2. CASE ConnectTransition(t)
  BY <1>2, GotoTyped, ReturnTyped
     DEF TypeOK, ConnectTransition, Steps, sessionVars, motorVars, ghostVars,
         Runtime!Transition, Runtime!RunStates
<1>3. CASE ConnectOpen(t)
  BY <1>3, GotoTyped
     DEF TypeOK, ConnectOpen, Steps, armVars, motorVars, ghostVars
<1>4. CASE ConnectAdd(t)
  <2>1. CASE handles' = handles
    BY <1>4, <2>1, GotoTyped, AdvanceTyped
       DEF TypeOK, ConnectAdd, Steps, armVars, motorVars, ghostVars
  <2>2. CASE /\ loc[t].i <= NumJoints
             /\ handles' = Append(handles, loc[t].i)
             /\ loc' = [loc EXCEPT ![t].i = @ + 1]
             /\ UNCHANGED pc
    <3>1. loc[t].i \in Joints
      BY <2>2, LocalsTyped, ConstantsAssumption DEF Joints, Positive
    <3>2. handles' \in Seq(Joints)
      BY <2>2, <3>1 DEF TypeOK
    <3>3. QED
      BY <1>4, <2>2, <3>2, AdvanceTyped
         DEF TypeOK, ConnectAdd, armVars, motorVars, ghostVars
  <2>3. QED
    BY <1>4, <2>1, <2>2 DEF ConnectAdd
<1>5. CASE ConnectCache(t)
  BY <1>5, ReturnTyped
     DEF TypeOK, ConnectCache, sessionVars, motorVars, ghostVars,
         Runtime!RunStates
<1>6. CASE ConnectRollback(t)
  BY <1>6, LocalsTyped, ReturnTyped, GotoTyped
     DEF TypeOK, ConnectRollback, Steps, sessionVars, motorVars, ghostVars,
         Runtime!Force
<1>7. QED
  BY <1>1, <1>2, <1>3, <1>4, <1>5, <1>6 DEF Connecting

(* close() keeps every variable in its type.                               *)
LEMMA ClosingTyped ==
  ASSUME TypeOK, NEW t \in Threads, Closing(t)
  PROVE  TypeOK'
<1>1. CASE CloseAbort(t)
  <2>1. abort' \in BOOLEAN /\ late' \in [Threads -> Nat]
    BY <1>1, AbortTyped DEF CloseAbort
  <2>2. QED
    BY <1>1, <2>1, GotoTyped
       DEF TypeOK, CloseAbort, Steps, sessionVars, motorVars
<1>2. CASE CloseForce(t)
  BY <1>2, GotoTyped
     DEF TypeOK, CloseForce, Steps, sessionVars, motorVars, ghostVars,
         Runtime!Force, Runtime!RunStates
<1>3. CASE CloseDisable(t)
  <2>1. motorOn' \subseteq motorOn
    BY <1>3 DEF CloseDisable
  <2>2. QED
    BY <1>3, <2>1, GotoTyped
       DEF TypeOK, CloseDisable, Steps, armVars, sessionVars, ghostVars
<1>4. CASE CloseClear(t)
  <2>1. handles' \in Seq(Joints)
    BY <1>4 DEF CloseClear
  <2>2. pc' \in [Threads -> Steps] /\ loc' \in [Threads -> Locals]
    BY <1>4, GotoTyped DEF CloseClear, Steps
  <2>3. QED
    BY <1>4, <2>1, <2>2 DEF TypeOK, CloseClear, armVars, motorVars, ghostVars
<1>5. CASE CloseCache(t)
  BY <1>5, GotoTyped, ReturnTyped
     DEF TypeOK, CloseCache, Steps, sessionVars, motorVars, ghostVars,
         Runtime!RunStates
<1>6. QED
  BY <1>1, <1>2, <1>3, <1>4, <1>5 DEF Closing

(* enable() and disable() keep every variable in its type.                 *)
LEMMA PoweringTyped ==
  ASSUME TypeOK, NEW t \in Threads, Powering(t)
  PROVE  TypeOK'
<1>0. Wired \subseteq Joints
  BY DEF Wired, TypeOK
<1>1. CASE EnableTransition(t)
  BY <1>1, GotoTyped, ReturnTyped
     DEF TypeOK, EnableTransition, Steps, sessionVars, motorVars, ghostVars,
         Runtime!Transition, Runtime!RunStates
<1>2. CASE EnableMotors(t)
  BY <1>0, <1>2, GotoTyped, ReturnTyped
     DEF TypeOK, EnableMotors, Steps, armVars, sessionVars, ghostVars
<1>3. CASE EnableCache(t)
  BY <1>3, ReturnTyped
     DEF TypeOK, EnableCache, sessionVars, motorVars, ghostVars,
         Runtime!RunStates
<1>4. CASE DisableTransitions(t)
  BY <1>4, GotoTyped, ReturnTyped
     DEF TypeOK, DisableTransitions, Steps, sessionVars, motorVars, ghostVars,
         Runtime!Transition, Runtime!RunStates
<1>5. CASE DisableMotors(t)
  BY <1>5, GotoTyped, ReturnTyped
     DEF TypeOK, DisableMotors, Steps, armVars, sessionVars, ghostVars
<1>6. CASE DisableCache(t)
  BY <1>6, ReturnTyped
     DEF TypeOK, DisableCache, sessionVars, motorVars, ghostVars,
         Runtime!RunStates
<1>7. QED
  BY <1>1, <1>2, <1>3, <1>4, <1>5, <1>6 DEF Powering

(* estop() keeps every variable in its type.                               *)
LEMMA StoppingTyped ==
  ASSUME TypeOK, NEW t \in Threads, Stopping(t)
  PROVE  TypeOK'
<1>0. /\ "MIT" \in Modes /\ "estop_damp" \in Continuations
      /\ "estop_disable" \in Steps
  BY DEF Modes, Steps, Continuations
<1>1. CASE EstopAbort(t)
  BY <1>1, GotoTyped
     DEF TypeOK, EstopAbort, SetAbort, Steps, sessionVars, motorVars
<1>2. CASE EstopDamp(t)
  BY <1>0, <1>2, GotoTyped, EnsureTyped
     DEF TypeOK, EstopDamp, armVars, sessionVars, motorVars, ghostVars
<1>3. CASE EstopDisable(t)
  BY <1>3, GotoTyped, ReturnTyped
     DEF TypeOK, EstopDisable, Steps, armVars, sessionVars, ghostVars
<1>4. CASE EstopForce(t)
  BY <1>4, GotoTyped
     DEF TypeOK, EstopForce, Steps, sessionVars, motorVars, ghostVars,
         Runtime!Force, Runtime!RunStates
<1>5. CASE EstopCache(t)
  BY <1>5, ReturnTyped
     DEF TypeOK, EstopCache, sessionVars, motorVars, ghostVars,
         Runtime!RunStates
<1>6. QED
  BY <1>1, <1>2, <1>3, <1>4, <1>5 DEF Stopping

(* What a waypoint or a step of the ramp does to the local variables.      *)
LEMMA SendPointTyped ==
  ASSUME TypeOK, NEW t \in Threads, NEW send, NEW again \in Steps,
         NEW end \in Steps, SendPoint(t, send, again, end)
  PROVE  TypeOK'
<1>1. pc' \in [Threads -> Steps]
  BY DEF TypeOK, SendPoint
<1>2. loc' \in [Threads -> Locals]
  <2>1. CASE loc' = [loc EXCEPT ![t].left = @ - 1]
    <3>1. loc[t].left - 1 \in Int
      BY LocalsTyped
    <3>2. QED
      BY <2>1, <3>1 DEF TypeOK, Locals
  <2>2. CASE loc' = [loc EXCEPT ![t].raised = TRUE]
    <3>1. [loc[t] EXCEPT !.raised = TRUE] \in Locals
      BY DEF TypeOK, Locals
    <3>2. QED
      BY <2>2, <3>1 DEF TypeOK, Locals
  <2>3. QED
    BY <2>1, <2>2 DEF SendPoint
<1>3. late' \in [Threads -> Nat]
  <2>1. late' = late \/ late' = [late EXCEPT ![t] = @ + 1]
    BY DEF SendPoint
  <2>2. late[t] + 1 \in Nat
    BY DEF TypeOK
  <2>3. QED
    BY <2>1, <2>2 DEF TypeOK
<1>4. QED
  BY <1>1, <1>2, <1>3
     DEF TypeOK, SendPoint, armVars, sessionVars, motorVars

(* Returning to the caller of a motion.                                    *)
LEMMA MotionReturnTyped ==
  ASSUME TypeOK, NEW t \in Threads, MotionReturn(t)
  PROVE  pc' \in [Threads -> Steps] /\ loc' \in [Threads -> Locals]
<1>1. "home_mode" \in Steps
  BY DEF Steps
<1>2. QED
  BY <1>1, ReturnTyped DEF TypeOK, MotionReturn

(* A motion that works out its points returns, reads the positions once    *)
(* more or starts to run, and changes nothing else.                        *)
LEMMA AimingShape ==
  ASSUME NEW t \in Threads, Aiming(t)
  PROVE  /\ Goto(t, "move_j") \/ Goto(t, "motion") \/ Return(t)
         /\ UNCHANGED <<armVars, sessionVars, motorVars, ghostVars>>
BY DEF Aiming, MoveJ, MoveJoint, GripperMove, MoveCartesian, Aim,
       UnknownJoint, NoGripper, Unsolvable, Refused

(* A motion through the executor keeps every variable in its type.         *)
LEMMA MotionTyped ==
  ASSUME TypeOK, NEW t \in Threads,
         \/ Aiming(t) \/ MotionGate(t) \/ MotionRun(t) \/ MotionCache(t)
         \/ Waypoint(t) \/ WaypointSend(t) \/ MotionEnd(t) \/ MotionRestore(t)
  PROVE  TypeOK'
<1>1. CASE Aiming(t)
  <2>1. {"move_j", "motion"} \subseteq Steps
    BY DEF Steps
  <2>2. pc' \in [Threads -> Steps] /\ loc' \in [Threads -> Locals]
    BY <1>1, <2>1, AimingShape, GotoTyped, ReturnTyped
  <2>3. UNCHANGED <<armVars, sessionVars, motorVars, ghostVars>>
    BY <1>1, AimingShape
  <2>4. QED
    BY <2>2, <2>3 DEF TypeOK, armVars, sessionVars, motorVars, ghostVars
<1>2. CASE MotionGate(t)
  <2>1. {"motion_clear", "motion_run"} \subseteq Steps
    BY DEF Steps
  <2>2. pc' \in [Threads -> Steps] /\ loc' \in [Threads -> Locals]
    BY <1>2, <2>1, GotoTyped, ReturnTyped DEF MotionGate
  <2>3. abort' \in BOOLEAN
    BY <1>2 DEF TypeOK, MotionGate
  <2>4. QED
    BY <1>2, <2>2, <2>3
       DEF TypeOK, MotionGate, sessionVars, motorVars, ghostVars
<1>3. CASE MotionRun(t)
  <2>1. run' \in Runtime!RunStates
    BY <1>3 DEF TypeOK, MotionRun, Runtime!Transition, Runtime!RunStates
  <2>2. pc' \in [Threads -> Steps] /\ loc' \in [Threads -> Locals]
    <3>1. CASE Return(t) \/ Goto(t, "motion_save")
      BY <3>1, ReturnTyped, GotoTyped DEF Steps
    <3>2. CASE \E n \in 1 .. MaxPoints :
                 /\ loc' = [loc EXCEPT ![t].saved = curMode, ![t].left = n,
                                       ![t].want = "POS_VEL", ![t].i = 1,
                                       ![t].after = "motion_cache"]
                 /\ pc' = [pc EXCEPT ![t] = "ensure"]
      <4>1. PICK n \in 1 .. MaxPoints :
              /\ loc' = [loc EXCEPT ![t].saved = curMode, ![t].left = n,
                                    ![t].want = "POS_VEL", ![t].i = 1,
                                    ![t].after = "motion_cache"]
              /\ pc' = [pc EXCEPT ![t] = "ensure"]
        BY <3>2
      <4>2. "ensure" \in Steps /\ "motion_cache" \in Continuations
        BY DEF Steps, Continuations
      <4>3. "POS_VEL" \in Modes /\ 1 \in Positive /\ n \in Int
        BY ConstantsAssumption DEF Modes, Positive
      <4>4. [loc[t] EXCEPT !.saved = curMode, !.left = n, !.want = "POS_VEL",
                           !.i = 1, !.after = "motion_cache"] \in Locals
        BY <4>2, <4>3 DEF TypeOK, Locals
      <4>5. loc' = [loc EXCEPT ![t] =
                      [loc[t] EXCEPT !.saved = curMode, !.left = n,
                                     !.want = "POS_VEL", !.i = 1,
                                     !.after = "motion_cache"]]
        BY <4>1 DEF TypeOK, Locals
      <4>6. QED
        BY <4>1, <4>2, <4>4, <4>5 DEF TypeOK
    <3>3. QED
      BY <1>3, <3>1, <3>2 DEF MotionRun
  <2>3. QED
    BY <1>3, <2>1, <2>2 DEF TypeOK, MotionRun, sessionVars, motorVars, ghostVars
<1>4. CASE MotionCache(t)
  BY <1>4, GotoTyped
     DEF TypeOK, MotionCache, Steps, sessionVars, motorVars, ghostVars,
         Runtime!RunStates
<1>5. CASE Waypoint(t)
  <2>1. abort' \in BOOLEAN /\ late' \in [Threads -> Nat]
    BY <1>5, AbortTyped DEF TypeOK, Waypoint
  <2>2. pc' \in [Threads -> Steps] /\ loc' \in [Threads -> Locals]
    BY <1>5, GotoTyped DEF Waypoint, Steps
  <2>3. QED
    BY <1>5, <2>1, <2>2 DEF TypeOK, Waypoint, sessionVars, motorVars
<1>6. CASE WaypointSend(t)
  <2>1. "waypoint" \in Steps /\ "motion_end" \in Steps
    BY DEF Steps
  <2>2. QED
    BY <1>6, <2>1, SendPointTyped DEF WaypointSend
<1>7. CASE MotionEnd(t)
  <2>1. run' \in Runtime!RunStates /\ cache' \in Runtime!RunStates
    BY <1>7 DEF TypeOK, MotionEnd, Runtime!Transition, Runtime!RunStates
  <2>2. pc' \in [Threads -> Steps] /\ loc' \in [Threads -> Locals]
    BY <1>7, GotoTyped, ReturnTyped DEF MotionEnd, Steps
  <2>3. QED
    BY <1>7, <2>1, <2>2 DEF TypeOK, MotionEnd, sessionVars, motorVars, ghostVars
<1>8. CASE MotionRestore(t)
  <2>1. cache' \in Runtime!RunStates
    BY <1>8 DEF TypeOK, MotionRestore, Runtime!RunStates
  <2>2. "motion_recache" \in Continuations
    BY DEF Continuations
  <2>3. loc[t].saved \notin {NoMode, "POS_VEL"} => loc[t].saved \in Modes
    BY LocalsTyped
  <2>4. pc' \in [Threads -> Steps] /\ loc' \in [Threads -> Locals]
    BY <1>8, <2>2, <2>3, MotionReturnTyped, EnsureTyped DEF MotionRestore
  <2>5. QED
    BY <1>8, <2>1, <2>4
       DEF TypeOK, MotionRestore, sessionVars, motorVars, ghostVars
<1>9. QED
  BY <1>1, <1>2, <1>3, <1>4, <1>5, <1>6, <1>7, <1>8

(* reset_to_home() keeps every variable in its type.                       *)
LEMMA HomingTyped ==
  ASSUME TypeOK, NEW t \in Threads, HomeStart(t) \/ HomeRamp(t) \/ RampSend(t)
  PROVE  TypeOK'
<1>0. "MIT" \in Modes /\ "ramp_run" \in Continuations
  BY DEF Modes, Continuations
<1>1. CASE HomeStart(t)
  <2>1. /\ run' \in Runtime!RunStates /\ cache' \in Runtime!RunStates
        /\ damping' \in BOOLEAN
    BY <1>1 DEF TypeOK, HomeStart, Runtime!Transition, Runtime!RunStates
  <2>2. pc' \in [Threads -> Steps] /\ loc' \in [Threads -> Locals]
    BY <1>1, GotoTyped, ReturnTyped DEF HomeStart, Steps
  <2>3. QED
    BY <1>1, <2>1, <2>2 DEF TypeOK, HomeStart, sessionVars, motorVars, ghostVars
<1>2. CASE HomeRamp(t)
  <2>1. run' \in Runtime!RunStates /\ cache' \in Runtime!RunStates
    BY <1>2 DEF TypeOK, HomeRamp, Runtime!Transition, Runtime!RunStates
  <2>2. pc' \in [Threads -> Steps] /\ loc' \in [Threads -> Locals]
    <3>1. CASE At(t, "home_mode")
      BY <1>0, <1>2, <3>1, EnsureTyped, ReturnTyped DEF HomeRamp, At
    <3>2. CASE At(t, "ramp_run") /\ ~Return(t)
      <4>1. PICK n \in 1 .. MaxPoints :
              /\ pc' = [pc EXCEPT ![t] = "ramp_cache"]
              /\ loc' = [loc EXCEPT ![t].op = "ramp", ![t].left = n,
                                    ![t].saved = NoMode]
        BY <1>2, <3>2 DEF HomeRamp, At
      <4>2. "ramp_cache" \in Steps
        BY DEF Steps
      <4>3. n \in Int
        BY ConstantsAssumption
      <4>4. [loc[t] EXCEPT !.op = "ramp", !.left = n, !.saved = NoMode]
              \in Locals
        BY <4>3 DEF TypeOK, Locals
      <4>5. loc' = [loc EXCEPT ![t] = [loc[t] EXCEPT !.op = "ramp",
                                         !.left = n, !.saved = NoMode]]
        BY <4>1 DEF TypeOK, Locals
      <4>6. QED
        BY <4>1, <4>2, <4>4, <4>5 DEF TypeOK
    <3>3. CASE Return(t)
      BY <3>3, ReturnTyped
    <3>4. CASE At(t, "ramp_cache") \/ At(t, "ramp")
      BY <1>2, <3>4, GotoTyped DEF HomeRamp, At, Steps
    <3>5. QED
      BY <1>2, <3>1, <3>2, <3>3, <3>4 DEF HomeRamp
  <2>3. QED
    BY <1>2, <2>1, <2>2 DEF TypeOK, HomeRamp, sessionVars, motorVars, ghostVars
<1>3. CASE RampSend(t)
  <2>1. "ramp" \in Steps /\ "motion_end" \in Steps
    BY DEF Steps
  <2>2. QED
    BY <1>3, <2>1, SendPointTyped DEF RampSend
<1>4. QED
  BY <1>1, <1>2, <1>3

(* While a thread is inside ensure_mode_all(), the mode it asks for is one *)
(* of the motors': NoMode stands for no mode at all.                       *)
WantsMode ==
  \A t \in Threads : pc[t] \in {"ensure", "ensure_joint"} => loc[t].want \in Modes

(* The mode switch and the other commands keep every variable in its type. *)
LEMMA CommandingTyped ==
  ASSUME TypeOK, WantsMode, NEW t \in Threads, Commanding(t)
  PROVE  TypeOK'
<1>1. CASE EnsureCached(t)
  <2>1. "ensure_joint" \in Steps /\ loc[t].after \in Steps
    BY LocalsTyped DEF Steps
  <2>2. pc' \in [Threads -> Steps] /\ loc' \in [Threads -> Locals]
    BY <1>1, <2>1, GotoTyped DEF EnsureCached
  <2>3. QED
    BY <1>1, <2>2
       DEF TypeOK, EnsureCached, armVars, sessionVars, motorVars, ghostVars
<1>2. CASE EnsureJoint(t)
  <2>1. pc[t] = "ensure_joint" /\ loc[t].want \in Modes
    BY <1>2 DEF WantsMode, EnsureJoint, At
  <2>2. motorMode' \in [Joints -> Modes] /\ curMode' \in Modes \cup {NoMode}
    BY <1>2, <2>1 DEF TypeOK, EnsureJoint
  <2>3. pc' \in [Threads -> Steps] /\ loc' \in [Threads -> Locals]
    <3>1. CASE loc' = [loc EXCEPT ![t].i = @ + 1] /\ UNCHANGED pc
      BY <3>1, AdvanceTyped DEF TypeOK
    <3>2. CASE \E s \in Steps : Goto(t, s)
      BY <3>2, GotoTyped
    <3>3. CASE Return(t)
      BY <3>3, ReturnTyped
    <3>4. "motion_recache" \in Steps /\ "estop_disable" \in Steps
      BY DEF Steps
    <3>5. QED
      BY <1>2, <3>1, <3>2, <3>3, <3>4, LocalsTyped DEF EnsureJoint
  <2>4. QED
    BY <1>2, <2>2, <2>3 DEF TypeOK, EnsureJoint, armVars, ghostVars
<1>3. CASE ClearFaults(t)
  BY <1>3, ReturnTyped
     DEF TypeOK, ClearFaults, sessionVars, motorVars, ghostVars
<1>4. CASE SetToDamping(t)
  <2>1. cache' \in Runtime!RunStates /\ damping' \in BOOLEAN
    BY <1>4 DEF TypeOK, SetToDamping, Runtime!RunStates
  <2>2. /\ "MIT" \in Modes /\ "damp_send" \in Continuations
        /\ "damp_cache" \in Steps
    BY DEF Modes, Steps, Continuations
  <2>3. pc' \in [Threads -> Steps] /\ loc' \in [Threads -> Locals]
    BY <1>4, <2>2, GotoTyped, ReturnTyped, EnsureTyped DEF SetToDamping
  <2>4. QED
    BY <1>4, <2>1, <2>3
       DEF TypeOK, SetToDamping, sessionVars, motorVars, ghostVars
<1>5. CASE Direct(t)
  <2>1. DirectMode(loc[t].op) \in Modes /\ "direct_send" \in Continuations
    BY DEF DirectMode, Modes, Continuations
  <2>2. pc' \in [Threads -> Steps] /\ loc' \in [Threads -> Locals]
    BY <1>5, <2>1, ReturnTyped, EnsureTyped DEF Direct
  <2>3. QED
    BY <1>5, <2>2
       DEF TypeOK, Direct, armVars, sessionVars, motorVars, ghostVars
<1>6. CASE DirectSend(t)
  BY <1>6, ReturnTyped
     DEF TypeOK, DirectSend, armVars, sessionVars, motorVars, ghostVars
<1>7. CASE JointCommand(t)
  <2>1. motorMode' \in [Joints -> Modes]
    BY <1>7 DEF TypeOK, JointCommand, Modes
  <2>2. QED
    BY <1>7, <2>1, ReturnTyped
       DEF TypeOK, JointCommand, armVars, sessionVars, ghostVars
<1>8. CASE ZeroCalibrate(t)
  <2>1. pc' \in [Threads -> Steps] /\ loc' \in [Threads -> Locals]
    <3>1. CASE loc' = [loc EXCEPT ![t].i = @ + 1] /\ UNCHANGED pc
      BY <3>1, AdvanceTyped DEF TypeOK
    <3>2. QED
      BY <1>8, <3>1, ReturnTyped DEF ZeroCalibrate
  <2>2. motorOn' \subseteq motorOn
    BY <1>8 DEF ZeroCalibrate
  <2>3. QED
    BY <1>8, <2>1, <2>2 DEF TypeOK, ZeroCalibrate, armVars, sessionVars, ghostVars
<1>9. CASE ZeroJoint(t)
  <2>1. motorOn' \subseteq motorOn
    BY <1>9 DEF ZeroJoint
  <2>2. QED
    BY <1>9, <2>1, ReturnTyped
       DEF TypeOK, ZeroJoint, armVars, sessionVars, ghostVars
<1>10. CASE WriteParam(t)
  <2>1. motorMode' \in [Joints -> Modes]
    BY <1>10 DEF TypeOK, WriteParam, SetParam
  <2>2. QED
    BY <1>10, <2>1, ReturnTyped
       DEF TypeOK, WriteParam, armVars, sessionVars, ghostVars
<1>11. CASE ReadParam(t) \/ GetFaults(t)
  BY <1>11, ReturnTyped
     DEF TypeOK, ReadParam, GetFaults, Refused, armVars, sessionVars,
         motorVars, ghostVars
<1>12. QED
  BY <1>1, <1>2, <1>3, <1>4, <1>5, <1>6, <1>7, <1>8, <1>9, <1>10, <1>11
     DEF Commanding

(* A caller starts one of the operations of the menu.                      *)
LEMMA CallTyped ==
  ASSUME TypeOK, NEW t \in Threads, NEW op \in Operations, Call(t, op)
  PROVE  TypeOK'
<1>1. FirstStep(op) \in Steps \ {"ensure", "ensure_joint"}
  BY DEF FirstStep, Operations, Steps
<1>2. pc' \in [Threads -> Steps]
  BY <1>1 DEF TypeOK, Call
<1>3. loc' \in [Threads -> Locals]
  <2>1. [loc[t] EXCEPT !.op = op] \in Locals
    BY DEF TypeOK, Locals
  <2>2. QED
    BY <2>1 DEF TypeOK, Locals, Call
<1>4. calls' \in [Threads -> Nat]
  BY DEF TypeOK, Call
<1>5. QED
  BY <1>2, <1>3, <1>4 DEF TypeOK, Call, armVars, sessionVars, motorVars

(* Steps that leave the mode a thread asks for alone.                      *)
LEMMA GotoWants ==
  ASSUME TypeOK, WantsMode, NEW t \in Threads, NEW s, Goto(t, s),
         s \in {"ensure", "ensure_joint"} =>
           pc[t] \in {"ensure", "ensure_joint"}
  PROVE  WantsMode'
BY DEF TypeOK, WantsMode, Goto

(* The call returns.                                                       *)
LEMMA ReturnWants ==
  ASSUME TypeOK, WantsMode, NEW t \in Threads, Return(t)
  PROVE  WantsMode'
BY DEF TypeOK, WantsMode, Return

(* ensure_mode_all() is entered with a mode.                               *)
LEMMA EnsureWants ==
  ASSUME TypeOK, WantsMode, NEW t \in Threads, NEW m \in Modes, NEW a,
         EnsureMode(t, m, a)
  PROVE  WantsMode'
BY DEF TypeOK, WantsMode, EnsureMode, Locals

(* A loop over the joints goes on.                                         *)
LEMMA AdvanceWants ==
  ASSUME TypeOK, WantsMode, NEW t \in Threads,
         loc' = [loc EXCEPT ![t].i = @ + 1], UNCHANGED pc
  PROVE  WantsMode'
BY DEF TypeOK, WantsMode, Locals

(* A waypoint is sent.                                                     *)
LEMMA SendPointWants ==
  ASSUME TypeOK, WantsMode, NEW t \in Threads, NEW send, NEW again, NEW end,
         again \notin {"ensure", "ensure_joint"},
         end \notin {"ensure", "ensure_joint"},
         SendPoint(t, send, again, end)
  PROVE  WantsMode'
BY DEF TypeOK, WantsMode, SendPoint, Locals

(* A motion returns to its caller.                                         *)
LEMMA MotionReturnWants ==
  ASSUME TypeOK, WantsMode, NEW t \in Threads, MotionReturn(t)
  PROVE  WantsMode'
<1>1. CASE Return(t)
  BY <1>1, ReturnWants
<1>2. CASE Goto(t, "home_mode")
  BY <1>2, GotoWants
<1>3. QED
  BY <1>1, <1>2 DEF MotionReturn, Goto

(* Every step of a call asks the motors for a mode of theirs.              *)
LEMMA WantsModeStep ==
  ASSUME TypeOK, WantsMode, NEW t \in Threads, Step(t)
  PROVE  WantsMode'
<1>0. "MIT" \in Modes
  BY DEF Modes
<1>1. CASE Connecting(t)
  <2>1. CASE ConnectPrev(t)
    BY <2>1 DEF TypeOK, WantsMode, ConnectPrev, Locals
  <2>2. CASE ConnectTransition(t) \/ ConnectOpen(t) \/ ConnectCache(t)
             \/ ConnectRollback(t)
    BY <2>2, GotoWants, ReturnWants
       DEF ConnectTransition, ConnectOpen, ConnectCache, ConnectRollback
  <2>3. CASE ConnectAdd(t)
    BY <2>3, GotoWants, AdvanceWants DEF ConnectAdd
  <2>4. QED
    BY <1>1, <2>1, <2>2, <2>3 DEF Connecting
<1>2. CASE Closing(t)
  BY <1>2, GotoWants, ReturnWants
     DEF Closing, CloseAbort, CloseForce, CloseDisable, CloseClear, CloseCache
<1>3. CASE Powering(t)
  BY <1>3, GotoWants, ReturnWants
     DEF Powering, EnableTransition, EnableMotors, EnableCache,
         DisableTransitions, DisableMotors, DisableCache
<1>4. CASE Moving(t)
  <2>1. CASE Aiming(t) \/ MotionGate(t) \/ MotionCache(t) \/ Waypoint(t)
             \/ MotionEnd(t)
    BY <2>1, AimingShape, GotoWants, ReturnWants
       DEF MotionGate, MotionCache, Waypoint, MotionEnd
  <2>2. CASE MotionRun(t)
    <3>1. CASE At(t, "motion_run")
      BY <2>2, <3>1, GotoWants, ReturnWants DEF MotionRun, At
    <3>2. CASE ~At(t, "motion_run")
      <4>1. PICK n \in 1 .. MaxPoints :
              /\ loc' = [loc EXCEPT ![t].saved = curMode, ![t].left = n,
                                    ![t].want = "POS_VEL", ![t].i = 1,
                                    ![t].after = "motion_cache"]
              /\ pc' = [pc EXCEPT ![t] = "ensure"]
        BY <2>2, <3>2 DEF MotionRun
      <4>2. loc'[t].want = "POS_VEL"
        BY <4>1 DEF TypeOK, Locals
      <4>3. \A u \in Threads : u # t => loc'[u] = loc[u] /\ pc'[u] = pc[u]
        BY <4>1 DEF TypeOK
      <4>4. QED
        BY <4>2, <4>3 DEF WantsMode, Modes
    <3>3. QED
      BY <3>1, <3>2
  <2>3. CASE WaypointSend(t) \/ RampSend(t)
    BY <2>3, SendPointWants DEF WaypointSend, RampSend
  <2>4. CASE MotionRestore(t)
    <3>1. loc[t].saved \notin {NoMode, "POS_VEL"} => loc[t].saved \in Modes
      BY LocalsTyped
    <3>2. QED
      BY <2>4, <3>1, MotionReturnWants, EnsureWants DEF MotionRestore
  <2>5. CASE HomeStart(t)
    BY <2>5, GotoWants, ReturnWants DEF HomeStart
  <2>6. CASE HomeRamp(t)
    <3>1. CASE At(t, "ramp_run") /\ ~Return(t)
      <4>1. PICK n \in 1 .. MaxPoints :
              /\ pc' = [pc EXCEPT ![t] = "ramp_cache"]
              /\ loc' = [loc EXCEPT ![t].op = "ramp", ![t].left = n,
                                    ![t].saved = NoMode]
        BY <2>6, <3>1 DEF HomeRamp, At
      <4>2. QED
        BY <4>1 DEF TypeOK, WantsMode
    <3>2. CASE ~At(t, "ramp_run") \/ Return(t)
      BY <1>0, <2>6, <3>2, GotoWants, ReturnWants, EnsureWants DEF HomeRamp
    <3>3. QED
      BY <3>1, <3>2
  <2>7. QED
    BY <1>4, <2>1, <2>2, <2>3, <2>4, <2>5, <2>6 DEF Moving
<1>5. CASE Stopping(t)
  BY <1>0, <1>5, GotoWants, ReturnWants, EnsureWants
     DEF Stopping, EstopAbort, EstopDamp, EstopDisable, EstopForce, EstopCache
<1>6. CASE Commanding(t)
  <2>1. CASE EnsureCached(t)
    BY <2>1, GotoWants DEF EnsureCached, At
  <2>2. CASE EnsureJoint(t)
    BY <2>2, GotoWants, ReturnWants, AdvanceWants DEF EnsureJoint, At
  <2>3. CASE \/ ClearFaults(t) \/ DirectSend(t) \/ JointCommand(t)
             \/ ZeroCalibrate(t) \/ ZeroJoint(t)
             \/ WriteParam(t) \/ ReadParam(t) \/ GetFaults(t)
    BY <2>3, ReturnWants, AdvanceWants
       DEF ClearFaults, DirectSend, JointCommand, ZeroCalibrate, ZeroJoint,
           WriteParam, ReadParam, GetFaults, Refused
  <2>4. CASE SetToDamping(t)
    BY <1>0, <2>4, GotoWants, ReturnWants, EnsureWants DEF SetToDamping
  <2>5. CASE Direct(t)
    BY <2>5, ReturnWants, EnsureWants DEF Direct, DirectMode, Modes
  <2>6. QED
    BY <1>6, <2>1, <2>2, <2>3, <2>4, <2>5 DEF Commanding
<1>7. QED
  BY <1>1, <1>2, <1>3, <1>4, <1>5, <1>6 DEF Step

(* TypeOK is not inductive by itself: a mode switch needs WantsMode.       *)
LEMMA TypesInductive ==
  ASSUME TypeOK, WantsMode, [Next]_vars
  PROVE  TypeOK' /\ WantsMode'
<1>1. CASE UNCHANGED vars
  BY <1>1 DEF TypeOK, WantsMode, vars, armVars, sessionVars, motorVars, ghostVars
<1>2. ASSUME NEW t \in Threads, Step(t)
      PROVE  TypeOK' /\ WantsMode'
  BY <1>2, WantsModeStep, ConnectingTyped, ClosingTyped, PoweringTyped,
     MotionTyped, HomingTyped, StoppingTyped, CommandingTyped
     DEF Step, Moving
<1>3. ASSUME NEW t \in Threads, NEW op \in Operations, Call(t, op)
      PROVE  TypeOK' /\ WantsMode'
  <2>1. FirstStep(op) \notin {"ensure", "ensure_joint"}
    BY DEF FirstStep, Operations
  <2>2. WantsMode'
    BY <1>3, <2>1 DEF TypeOK, WantsMode, Call
  <2>3. QED
    BY <1>3, <2>2, CallTyped
<1>4. CASE OtherUser
  BY <1>4 DEF OtherUser, TypeOK, WantsMode, armVars, sessionVars, ghostVars
<1>5. QED
  BY <1>1, <1>2, <1>3, <1>4 DEF Next

(* The initial state has the types.                                        *)
LEMMA TypesInit ==
  ASSUME Init
  PROVE  TypeOK /\ WantsMode
<1>1. NoCall \in Locals
  BY DEF NoCall, Locals, Positive, Continuations, Runtime!RunStates
<1>2. handles \in Seq(Joints)
  BY DEF Init
<1>3. "idle" \in Steps
  BY DEF Steps
<1>4. TypeOK
  BY <1>1, <1>2, <1>3 DEF Init, TypeOK, Runtime!RunStates
<1>5. QED
  BY <1>4 DEF Init, WantsMode

(* Type correctness, for any threads and faults: every variable of the arm *)
(* keeps its type, and no motor is ever sent a mode that is none.          *)
THEOREM TypeCorrect == Spec => [](TypeOK /\ WantsMode)
<1>1. Init => TypeOK /\ WantsMode
  BY TypesInit
<1>2. TypeOK /\ WantsMode /\ [Next]_vars => TypeOK' /\ WantsMode'
  BY TypesInductive
<1>3. QED
  BY <1>1, <1>2, PTL DEF Spec

-----------------------------------------------------------------------------
(***************************************************************************)
(* Sticky abort.  AbortStopsMotion is not inductive: a thread that has     *)
(* already sent one waypoint since the abort event was set must not be     *)
(* about to send another.                                                  *)
(***************************************************************************)
SendSteps == {"waypoint_send", "ramp_send"}

AbortInv ==
  abort => \A t \in Threads :
             late[t] <= 1 /\ (pc[t] \in SendSteps => late[t] = 0)

(* A step that ends elsewhere than before a send.                          *)
LEMMA ElsewhereAbort ==
  ASSUME TypeOK, AbortInv, NEW t \in Threads, NEW s, s \notin SendSteps,
         pc' = [pc EXCEPT ![t] = s], UNCHANGED late, abort' \in {abort, FALSE}
  PROVE  AbortInv'
BY DEF TypeOK, AbortInv

(* A step to anywhere but a send.                                          *)
LEMMA GotoAbort ==
  ASSUME TypeOK, AbortInv, NEW t \in Threads, NEW s, s \notin SendSteps,
         Goto(t, s), UNCHANGED late, abort' \in {abort, FALSE}
  PROVE  AbortInv'
BY ElsewhereAbort DEF Goto

(* The call returns.                                                       *)
LEMMA ReturnAbort ==
  ASSUME TypeOK, AbortInv, NEW t \in Threads,
         Return(t), UNCHANGED late, abort' \in {abort, FALSE}
  PROVE  AbortInv'
BY ElsewhereAbort DEF Return, SendSteps

(* ensure_mode_all() is entered.                                           *)
LEMMA EnsureAbort ==
  ASSUME TypeOK, AbortInv, NEW t \in Threads, NEW m, NEW a,
         EnsureMode(t, m, a), UNCHANGED late, abort' \in {abort, FALSE}
  PROVE  AbortInv'
BY ElsewhereAbort DEF EnsureMode, SendSteps

(* No thread moves.                                                        *)
LEMMA StayAbort ==
  ASSUME AbortInv, UNCHANGED <<pc, late, abort>>
  PROVE  AbortInv'
BY DEF AbortInv

(* A motion returns to its caller.                                         *)
LEMMA MotionReturnAbort ==
  ASSUME TypeOK, AbortInv, NEW t \in Threads,
         MotionReturn(t), UNCHANGED late, abort' \in {abort, FALSE}
  PROVE  AbortInv'
BY ReturnAbort, ElsewhereAbort DEF MotionReturn, SendSteps

(* Setting the event starts the count again, unless it was set before.     *)
LEMMA SetsAbort ==
  ASSUME TypeOK, AbortInv, NEW t \in Threads, NEW s, s \notin SendSteps,
         Goto(t, s), SetAbort
  PROVE  AbortInv'
<1>1. CASE abort
  BY <1>1, ElsewhereAbort DEF SetAbort, Goto
<1>2. CASE ~abort
  BY <1>2 DEF AbortInv, SetAbort
<1>3. QED
  BY <1>1, <1>2

(* A send counts, and leads to a place from which nothing is sent.         *)
LEMMA SendPointAbort ==
  ASSUME TypeOK, AbortInv, NEW t \in Threads, NEW send \in SendSteps,
         NEW again, NEW end, again \notin SendSteps, end \notin SendSteps,
         SendPoint(t, send, again, end)
  PROVE  AbortInv'
<1>1. pc[t] \in SendSteps /\ UNCHANGED abort
  BY DEF SendPoint, At, armVars
<1>2. pc' = [pc EXCEPT ![t] = again] \/ pc' = [pc EXCEPT ![t] = end]
  BY DEF SendPoint
<1>3. late' = late \/ late' = [late EXCEPT ![t] = @ + 1]
  BY DEF SendPoint
<1>4. CASE late' = late
  BY <1>1, <1>2, <1>4, ElsewhereAbort
<1>5. CASE late' = [late EXCEPT ![t] = @ + 1] /\ abort
  <2>1. late[t] = 0 /\ late'[t] = 1
    BY <1>1, <1>5 DEF AbortInv, TypeOK
  <2>2. pc'[t] \notin SendSteps
    BY <1>2 DEF TypeOK
  <2>3. \A u \in Threads : u # t => late'[u] = late[u] /\ pc'[u] = pc[u]
    BY <1>2, <1>5 DEF TypeOK
  <2>4. QED
    BY <1>1, <1>5, <2>1, <2>2, <2>3 DEF AbortInv
<1>6. CASE ~abort
  BY <1>1, <1>6 DEF AbortInv
<1>7. QED
  BY <1>3, <1>4, <1>5, <1>6

(* Every step keeps the abort invariant.                                   *)
LEMMA AbortStep ==
  ASSUME TypeOK, AbortInv, NEW t \in Threads, Step(t)
  PROVE  AbortInv'
<1>1. CASE Connecting(t)
  BY <1>1, GotoAbort, ReturnAbort, StayAbort, ElsewhereAbort
     DEF Connecting, ConnectPrev, ConnectTransition, ConnectOpen, ConnectAdd,
         ConnectCache, ConnectRollback, SendSteps, armVars, ghostVars
<1>2. CASE Closing(t)
  BY <1>2, GotoAbort, ReturnAbort, SetsAbort
     DEF Closing, CloseAbort, CloseForce, CloseDisable, CloseClear, CloseCache,
         SendSteps, armVars, ghostVars
<1>3. CASE Powering(t)
  BY <1>3, GotoAbort, ReturnAbort
     DEF Powering, EnableTransition, EnableMotors, EnableCache,
         DisableTransitions, DisableMotors, DisableCache, SendSteps, armVars,
         ghostVars
<1>4. CASE Moving(t)
  <2>1. CASE Aiming(t) \/ MotionGate(t) \/ MotionRun(t) \/ MotionCache(t)
             \/ MotionEnd(t)
    BY <2>1, AimingShape, GotoAbort, ReturnAbort, ElsewhereAbort
       DEF MotionGate, MotionRun, MotionCache, MotionEnd, SendSteps,
           armVars, ghostVars
  <2>2. CASE Waypoint(t)
    <3>1. CASE ~abort /\ UNCHANGED abort
      BY <3>1 DEF AbortInv
    <3>2. CASE Goto(t, "motion_end") /\ UNCHANGED <<abort, late>>
      BY <3>2, GotoAbort DEF SendSteps
    <3>3. CASE Goto(t, "motion_end") /\ SetAbort
      BY <3>3, SetsAbort DEF SendSteps
    <3>4. QED
      BY <2>2, <3>1, <3>2, <3>3 DEF Waypoint
  <2>3. CASE WaypointSend(t) \/ RampSend(t)
    BY <2>3, SendPointAbort DEF WaypointSend, RampSend, SendSteps
  <2>4. CASE MotionRestore(t)
    BY <2>4, MotionReturnAbort, EnsureAbort DEF MotionRestore, ghostVars
  <2>5. CASE HomeStart(t)
    BY <2>5, GotoAbort, ReturnAbort DEF HomeStart, SendSteps, ghostVars
  <2>6. CASE HomeRamp(t)
    <3>1. UNCHANGED <<abort, late>>
      BY <2>6 DEF HomeRamp, ghostVars
    <3>2. CASE ~abort
      BY <3>1, <3>2 DEF AbortInv
    <3>3. CASE abort
      BY <2>6, <3>1, <3>3, GotoAbort, ReturnAbort, EnsureAbort, ElsewhereAbort
         DEF HomeRamp, SendSteps
    <3>4. QED
      BY <3>2, <3>3
  <2>7. QED
    BY <1>4, <2>1, <2>2, <2>3, <2>4, <2>5, <2>6 DEF Moving
<1>5. CASE Stopping(t)
  BY <1>5, GotoAbort, ReturnAbort, EnsureAbort, SetsAbort
     DEF Stopping, EstopAbort, EstopDamp, EstopDisable, EstopForce, EstopCache,
         SendSteps, armVars, ghostVars
<1>6. CASE Commanding(t)
  <2>1. loc[t].after \notin SendSteps
    BY LocalsTyped DEF Continuations, SendSteps
  <2>2. CASE EnsureCached(t) \/ EnsureJoint(t)
    BY <2>1, <2>2, GotoAbort, ReturnAbort, StayAbort
       DEF EnsureCached, EnsureJoint, SendSteps, armVars, ghostVars
  <2>3. CASE ~(EnsureCached(t) \/ EnsureJoint(t))
    BY <1>6, <2>3, GotoAbort, ReturnAbort, EnsureAbort, StayAbort
       DEF Commanding, ClearFaults, SetToDamping, Direct, DirectSend,
           JointCommand, ZeroCalibrate, ZeroJoint, WriteParam, ReadParam,
           GetFaults, Refused, SendSteps, armVars, ghostVars
  <2>4. QED
    BY <2>2, <2>3
<1>7. QED
  BY <1>1, <1>2, <1>3, <1>4, <1>5, <1>6 DEF Step

(* An emergency stop, a close or a motion timeout stops every motion: with *)
(* any number of threads and any failures, no thread sends more than one   *)
(* waypoint while the abort event stays set (executor.py:48, arm.py:332).  *)
THEOREM AbortStops == Spec => []AbortStopsMotion
<1>1. Init => AbortInv
  BY DEF Init, AbortInv
<1>2. TypeOK /\ WantsMode /\ AbortInv /\ [Next]_vars => AbortInv'
  <2>1. SUFFICES ASSUME TypeOK, WantsMode, AbortInv, [Next]_vars
                 PROVE  AbortInv'
    OBVIOUS
  <2>2. CASE UNCHANGED vars
    BY <2>1, <2>2, StayAbort DEF vars, armVars, ghostVars
  <2>3. ASSUME NEW t \in Threads, Step(t)
        PROVE  AbortInv'
    BY <2>1, <2>3, AbortStep
  <2>4. ASSUME NEW t \in Threads, NEW op \in Operations, Call(t, op)
        PROVE  AbortInv'
    <3>1. FirstStep(op) \notin SendSteps
      BY DEF FirstStep, Operations, SendSteps
    <3>2. QED
      BY <2>1, <2>4, <3>1, ElsewhereAbort DEF Call, armVars
  <2>5. CASE OtherUser
    BY <2>1, <2>5, StayAbort DEF OtherUser, armVars, ghostVars
  <2>6. QED
    BY <2>1, <2>2, <2>3, <2>4, <2>5 DEF Next
<1>3. AbortInv => AbortStopsMotion
  BY DEF AbortInv, AbortStopsMotion
<1>4. QED
  BY <1>1, <1>2, <1>3, TypeCorrect, PTL DEF Spec

-----------------------------------------------------------------------------
(***************************************************************************)
(* Where a step leads: lemmas about the control flow of one thread.        *)
(***************************************************************************)
(* What a step of thread t leaves alone: where the others are, and what    *)
(* they hold.                                                              *)
Others(t) == \A u \in Threads \ {t} : pc'[u] = pc[u] /\ loc'[u] = loc[u]

(* Thread t is at step s after its step.                                   *)
Lands(t, s) == pc'[t] = s /\ Others(t)

(* These local variables of thread t keep their values.                    *)
Keeps(t, names) == \A x \in names : loc'[t][x] = loc[t][x]

(* A step to another step of the call.                                     *)
LEMMA GotoLands ==
  ASSUME TypeOK, NEW t \in Threads, NEW s, Goto(t, s)
  PROVE  Lands(t, s) /\ loc' = loc
BY DEF TypeOK, Goto, Lands, Others

(* The call returns.                                                       *)
LEMMA ReturnLands ==
  ASSUME TypeOK, NEW t \in Threads, Return(t)
  PROVE  Lands(t, "idle") /\ loc'[t] = NoCall
BY DEF TypeOK, Return, Lands, Others

(* ensure_mode_all() is entered.                                           *)
LEMMA EnsureLands ==
  ASSUME TypeOK, NEW t \in Threads, NEW m, NEW a, EnsureMode(t, m, a)
  PROVE  /\ Lands(t, "ensure")
         /\ loc'[t].want = m /\ loc'[t].after = a /\ loc'[t].i = 1
         /\ Keeps(t, {"op", "prev", "saved", "left", "raised"})
BY DEF TypeOK, EnsureMode, Lands, Others, Locals, Keeps

(* A loop over the joints goes on.                                         *)
LEMMA AdvanceLands ==
  ASSUME TypeOK, NEW t \in Threads, loc' = [loc EXCEPT ![t].i = @ + 1],
         UNCHANGED pc
  PROVE  /\ Lands(t, pc[t])
         /\ loc'[t].i = loc[t].i + 1
         /\ Keeps(t, {"op", "prev", "saved", "want", "after", "left", "raised"})
BY DEF TypeOK, Lands, Others, Locals, Keeps

(* A waypoint is sent, or fails.                                           *)
LEMMA SendPointLands ==
  ASSUME TypeOK, NEW t \in Threads, NEW send, NEW again, NEW end,
         SendPoint(t, send, again, end)
  PROVE  /\ Lands(t, again) \/ Lands(t, end)
         /\ Keeps(t, {"op", "prev", "saved", "want", "after", "i"})
BY DEF TypeOK, SendPoint, Lands, Others, Locals, Keeps

(* A motion returns to its caller.                                         *)
LEMMA MotionReturnLands ==
  ASSUME TypeOK, NEW t \in Threads, MotionReturn(t)
  PROVE  \/ Lands(t, "idle") /\ loc'[t] = NoCall
         \/ Lands(t, "home_mode") /\ loc' = loc
<1>1. CASE Return(t)
  BY <1>1, ReturnLands
<1>2. CASE Goto(t, "home_mode")
  BY <1>2, GotoLands
<1>3. QED
  BY <1>1, <1>2 DEF MotionReturn, Goto

(* A motion or a ramp starts: what it writes to its local variables.       *)
LEMMA MotionSaveLands ==
  ASSUME TypeOK, NEW t \in Threads, MotionRun(t), ~At(t, "motion_run")
  PROVE  /\ Lands(t, "ensure") /\ UNCHANGED run /\ At(t, "motion_save")
         /\ loc'[t].after = "motion_cache" /\ loc'[t].want = "POS_VEL"
         /\ loc'[t].op = loc[t].op /\ loc'[t].i = 1 /\ loc'[t].saved = curMode
<1>1. PICK n \in 1 .. MaxPoints :
        /\ loc' = [loc EXCEPT ![t].saved = curMode, ![t].left = n,
                              ![t].want = "POS_VEL", ![t].i = 1,
                              ![t].after = "motion_cache"]
        /\ pc' = [pc EXCEPT ![t] = "ensure"]
  BY DEF MotionRun
<1>2. At(t, "motion_save") /\ UNCHANGED run
  BY DEF MotionRun
<1>3. QED
  BY <1>1, <1>2 DEF TypeOK, Lands, Others, Locals

(* A ramp starts.                                                          *)
LEMMA RampStartLands ==
  ASSUME TypeOK, NEW t \in Threads, NEW n,
         pc' = [pc EXCEPT ![t] = "ramp_cache"],
         loc' = [loc EXCEPT ![t].op = "ramp", ![t].left = n,
                            ![t].saved = NoMode]
  PROVE  /\ Lands(t, "ramp_cache")
         /\ loc'[t].op = "ramp" /\ loc'[t].saved = NoMode
         /\ Keeps(t, {"prev", "want", "after", "i", "raised"})
BY DEF TypeOK, Lands, Others, Locals, Keeps

(* connect() remembers the run state.                                      *)
LEMMA ConnectPrevLands ==
  ASSUME TypeOK, NEW t \in Threads, ConnectPrev(t)
  PROVE  /\ Lands(t, "connect_transition")
         /\ loc'[t].prev = run
         /\ Keeps(t, {"op", "saved", "want", "after", "i", "left", "raised"})
BY DEF TypeOK, ConnectPrev, Lands, Others, Locals, Keeps

(* A step of one thread moves no other thread.                             *)
LEMMA StepOthers ==
  ASSUME TypeOK, NEW t \in Threads, Step(t)
  PROVE  Others(t)
<1> USE DEF Lands
<1>1. CASE Connecting(t)
  BY <1>1, ConnectPrevLands, GotoLands, ReturnLands, AdvanceLands
     DEF Connecting, ConnectTransition, ConnectOpen, ConnectAdd, ConnectCache,
         ConnectRollback
<1>2. CASE Closing(t)
  BY <1>2, GotoLands, ReturnLands
     DEF Closing, CloseAbort, CloseForce, CloseDisable, CloseClear, CloseCache
<1>3. CASE Powering(t)
  BY <1>3, GotoLands, ReturnLands
     DEF Powering, EnableTransition, EnableMotors, EnableCache,
         DisableTransitions, DisableMotors, DisableCache
<1>4. CASE Moving(t)
  <2>1. CASE Aiming(t) \/ MotionGate(t) \/ MotionCache(t) \/ Waypoint(t)
             \/ MotionEnd(t) \/ HomeStart(t)
    BY <2>1, AimingShape, GotoLands, ReturnLands
       DEF MotionGate, MotionCache, Waypoint, MotionEnd, HomeStart
  <2>2. CASE MotionRun(t)
    BY <2>2, MotionSaveLands, GotoLands, ReturnLands DEF MotionRun, At
  <2>3. CASE WaypointSend(t) \/ RampSend(t)
    BY <2>3, SendPointLands DEF WaypointSend, RampSend
  <2>4. CASE MotionRestore(t)
    BY <2>4, MotionReturnLands, EnsureLands DEF MotionRestore
  <2>5. CASE HomeRamp(t)
    BY <2>5, GotoLands, ReturnLands, EnsureLands, RampStartLands DEF HomeRamp
  <2>6. QED
    BY <1>4, <2>1, <2>2, <2>3, <2>4, <2>5 DEF Moving
<1>5. CASE Stopping(t)
  BY <1>5, GotoLands, ReturnLands, EnsureLands
     DEF Stopping, EstopAbort, EstopDamp, EstopDisable, EstopForce, EstopCache
<1>6. CASE Commanding(t)
  BY <1>6, GotoLands, ReturnLands, EnsureLands, AdvanceLands
     DEF Commanding, EnsureCached, EnsureJoint, ClearFaults, SetToDamping,
         Direct, DirectSend, JointCommand, ZeroCalibrate, ZeroJoint,
         WriteParam, ReadParam, GetFaults, Refused
<1>7. QED
  BY <1>1, <1>2, <1>3, <1>4, <1>5, <1>6 DEF Step

-----------------------------------------------------------------------------
(***************************************************************************)
(* FAULT and the power stage.                                              *)
(***************************************************************************)
(* connect() between the state it found and its rollback to it.            *)
Returning == {"connect_transition", "connect_open", "connect_add",
              "connect_force"}

(* No enable() is about to switch the power on while another call is       *)
(* between cutting it and the FAULT or the closed session that says so, or *)
(* may roll back to a FAULT it found.                                      *)
EnableApart ==
  \A t, u \in Threads :
    At(t, "enable_motors") =>
      /\ pc[u] \notin {"close_clear", "estop_force"}
      /\ pc[u] \in Returning => loc[u].prev # "FAULT"

(* Only motors with a handle are energised, so that disable_all() reaches  *)
(* every one of them; and the power stays off from the step that cuts it   *)
(* to the one that says so.                                                *)
PowerAt(t) ==
  /\ pc[t] \in {"close_clear", "estop_force"} => motorOn = {}
  /\ pc[t] \in Returning /\ loc[t].prev = "FAULT" => motorOn = {}
  /\ At(t, "enable_motors") => run # "FAULT"

PowerInv ==
  /\ motorOn \subseteq Wired
  /\ ~controller => motorOn = {}
  /\ run = "FAULT" => motorOn = {}
  /\ \A t \in Threads : PowerAt(t)

(* A step that energises nothing, keeps the handles and forces no FAULT.   *)
LEMMA QuietPower ==
  ASSUME TypeOK, PowerInv, NEW t \in Threads, Others(t),
         motorOn' \subseteq motorOn, UNCHANGED handles,
         controller' = controller \/ controller' = TRUE,
         run' = run \/ run' # "FAULT",
         pc'[t] \notin {"close_clear", "estop_force", "enable_motors"},
         pc'[t] \in Returning =>
           pc[t] \in Returning /\ loc'[t].prev = loc[t].prev
  PROVE  PowerInv'
<1>1. motorOn' \subseteq Wired' /\ (~controller' => motorOn' = {})
  BY DEF PowerInv, Wired
<1>2. run' = "FAULT" => motorOn' = {}
  BY DEF PowerInv
<1>3. ASSUME NEW u \in Threads
      PROVE  PowerAt(u)'
  <2>1. CASE u = t
    BY <2>1 DEF PowerInv, PowerAt, At
  <2>2. CASE u # t
    BY <2>2 DEF PowerInv, PowerAt, At, Others
  <2>3. QED
    BY <2>1, <2>2
<1>4. QED
  BY <1>1, <1>2, <1>3 DEF PowerInv

(* disable_all() with an open session and no failure leaves no motor on.   *)
LEMMA CutsPower ==
  ASSUME PowerInv, motorOn' = motorOn \ (IF controller THEN Wired ELSE {})
  PROVE  motorOn' = {}
BY DEF PowerInv

(* Every step keeps the power invariant.                                   *)
LEMMA PowerStep ==
  ASSUME TypeOK, TypeOK', PowerInv, EnableApart, "disable" \notin Faults,
         NEW t \in Threads, Step(t)
  PROVE  PowerInv'
<1>0. Others(t)
  BY StepOthers
<1>1. CASE Connecting(t)
  <2>1. CASE ConnectPrev(t)
    <3>1. /\ Lands(t, "connect_transition") /\ loc'[t].prev = run
          /\ UNCHANGED <<run, motorOn, handles, controller>>
      BY <2>1, ConnectPrevLands
         DEF ConnectPrev, armVars, sessionVars, motorVars
    <3>2. ASSUME NEW u \in Threads
          PROVE  PowerAt(u)'
      BY <3>1, <3>2 DEF Lands, Others, PowerInv, PowerAt, At
    <3>3. QED
      BY <3>1, <3>2 DEF PowerInv, Wired
  <2>2. CASE ConnectTransition(t)
    BY <1>0, <2>2, QuietPower, GotoLands, ReturnLands
       DEF ConnectTransition, Lands, Returning, At, Runtime!Transition,
           sessionVars, motorVars
  <2>3. CASE ConnectOpen(t)
    <3>1. /\ UNCHANGED <<run, motorOn, handles>>
          /\ controller' = controller \/ controller' = TRUE
      BY <2>3 DEF ConnectOpen, armVars, motorVars
    <3>2. pc[t] \in Returning /\ loc'[t].prev = loc[t].prev
      BY <2>3, GotoLands DEF ConnectOpen, At, Returning
    <3>3. pc'[t] \in {"connect_add", "connect_force"}
      BY <2>3, GotoLands DEF ConnectOpen, Lands
    <3>4. QED
      BY <1>0, <3>1, <3>2, <3>3, QuietPower
  <2>4. CASE ConnectAdd(t)
    <3>1. CASE UNCHANGED handles
      BY <1>0, <2>4, <3>1, QuietPower, GotoLands, AdvanceLands
         DEF ConnectAdd, Lands, Keeps, Returning, At, armVars, motorVars
    <3>2. CASE handles' = Append(handles, loc[t].i) /\ UNCHANGED pc
      <4>1. Wired \subseteq Wired'
        BY <3>2 DEF Wired, TypeOK
      <4>2. /\ UNCHANGED <<run, motorOn, controller>>
            /\ loc'[t].prev = loc[t].prev
        BY <2>4, <3>2, AdvanceLands DEF ConnectAdd, Keeps, armVars, motorVars
      <4>3. ASSUME NEW u \in Threads
            PROVE  PowerAt(u)'
        BY <1>0, <3>2, <4>2 DEF Others, PowerInv, PowerAt, At
      <4>4. QED
        BY <4>1, <4>2, <4>3 DEF PowerInv
    <3>3. QED
      BY <2>4, <3>1, <3>2 DEF ConnectAdd
  <2>5. CASE ConnectCache(t)
    BY <1>0, <2>5, QuietPower, ReturnLands
       DEF ConnectCache, Lands, Returning, sessionVars, motorVars
  <2>6. CASE ConnectRollback(t)
    <3>1. CASE At(t, "connect_force")
      <4>1. /\ run' = loc[t].prev /\ Lands(t, "connect_uncache")
            /\ UNCHANGED <<motorOn, handles, controller>>
        BY <2>6, <3>1, GotoLands
           DEF ConnectRollback, At, Runtime!Force, sessionVars, motorVars
      <4>2. run' = "FAULT" => motorOn' = {}
        BY <3>1, <4>1 DEF PowerInv, PowerAt, Returning, At
      <4>3. ASSUME NEW u \in Threads
            PROVE  PowerAt(u)'
        BY <3>1, <4>1, <4>3
           DEF EnableApart, Lands, Others, PowerInv, PowerAt, Returning, At
      <4>4. QED
        BY <4>1, <4>2, <4>3 DEF PowerInv, Wired
    <3>2. CASE ~At(t, "connect_force")
      BY <1>0, <2>6, <3>2, QuietPower, ReturnLands
         DEF ConnectRollback, Lands, Returning, sessionVars, motorVars
    <3>3. QED
      BY <3>1, <3>2
  <2>7. QED
    BY <1>1, <2>1, <2>2, <2>3, <2>4, <2>5, <2>6 DEF Connecting
<1>2. CASE Closing(t)
  <2>1. CASE CloseDisable(t)
    <3>1. /\ motorOn' = {} /\ Lands(t, "close_clear")
          /\ UNCHANGED <<run, handles, controller>>
      BY <2>1, CutsPower, GotoLands
         DEF CloseDisable, Fails, armVars, sessionVars
    <3>2. ASSUME NEW u \in Threads
          PROVE  PowerAt(u)'
      BY <3>1, <3>2 DEF Lands, Others, PowerInv, PowerAt, At
    <3>3. QED
      BY <3>1, <3>2 DEF PowerInv
  <2>2. CASE CloseClear(t)
    <3>1. /\ motorOn' = {} /\ Lands(t, "close_cache") /\ UNCHANGED run
      BY <2>2, GotoLands
         DEF CloseClear, PowerInv, PowerAt, At, armVars, motorVars
    <3>2. ASSUME NEW u \in Threads
          PROVE  PowerAt(u)'
      BY <3>1, <3>2 DEF Lands, Others, PowerInv, PowerAt, At
    <3>3. QED
      BY <3>1, <3>2 DEF PowerInv
  <2>3. CASE CloseAbort(t) \/ CloseForce(t) \/ CloseCache(t)
    <3>1. /\ run' = run \/ run' = "DISCONNECTED"
          /\ UNCHANGED <<motorOn, handles, controller>>
      BY <2>3 DEF CloseAbort, CloseForce, CloseCache, Runtime!Force, sessionVars,
                 motorVars
    <3>2. pc'[t] \in {"close_force", "close_disable", "connect", "idle"}
      BY <2>3, GotoLands, ReturnLands
         DEF CloseAbort, CloseForce, CloseCache, Lands
    <3>3. QED
      BY <1>0, <3>1, <3>2, QuietPower DEF Returning
  <2>4. QED
    BY <1>2, <2>1, <2>2, <2>3 DEF Closing
<1>3. CASE Powering(t)
  <2>1. CASE EnableTransition(t) /\ Goto(t, "enable_motors")
    <3>1. /\ run' = "ENABLED" /\ Lands(t, "enable_motors")
          /\ UNCHANGED <<motorOn, handles, controller>>
      BY <2>1, GotoLands, ReturnLands
         DEF EnableTransition, Lands, Runtime!Transition, sessionVars, motorVars
    <3>2. ASSUME NEW u \in Threads
          PROVE  PowerAt(u)'
      BY <3>1, <3>2 DEF Lands, Others, PowerInv, PowerAt, Returning, At
    <3>3. QED
      BY <3>1, <3>2 DEF PowerInv, Wired
  <2>2. CASE EnableTransition(t) /\ Return(t)
    BY <1>0, <2>2, QuietPower, ReturnLands
       DEF EnableTransition, Lands, Returning, Runtime!Transition,
           sessionVars, motorVars
  <2>3. CASE EnableMotors(t)
    <3>1. /\ At(t, "enable_motors") /\ UNCHANGED <<run, handles, controller>>
          /\ motorOn' \subseteq motorOn \cup Wired
          /\ controller \/ motorOn' = motorOn
      BY <2>3 DEF EnableMotors, armVars, sessionVars
    <3>2. Lands(t, "enable_cache") \/ Lands(t, "idle")
      BY <2>3, GotoLands, ReturnLands DEF EnableMotors
    <3>3. ASSUME NEW u \in Threads
          PROVE  PowerAt(u)'
      BY <3>1, <3>2, <3>3
         DEF EnableApart, Lands, Others, PowerInv, PowerAt, Returning, At
    <3>4. QED
      BY <3>1, <3>3 DEF PowerInv, PowerAt, Wired
  <2>4. CASE DisableMotors(t)
    <3>1. motorOn' \subseteq motorOn
      BY <2>4 DEF DisableMotors
    <3>2. QED
      BY <1>0, <2>4, <3>1, QuietPower, GotoLands, ReturnLands
         DEF DisableMotors, Lands, Returning, armVars, sessionVars
  <2>5. CASE EnableCache(t) \/ DisableTransitions(t) \/ DisableCache(t)
    <3>1. /\ run' = run \/ run' \in {"IDLE", "ENABLED"}
          /\ UNCHANGED <<motorOn, handles, controller>>
      BY <2>5 DEF EnableCache, DisableTransitions, DisableCache,
                 Runtime!Transition, sessionVars, motorVars
    <3>2. pc'[t] \in {"disable_stop", "disable_idle", "disable_motors", "idle"}
      BY <2>5, GotoLands, ReturnLands
         DEF EnableCache, DisableTransitions, DisableCache, Lands
    <3>3. QED
      BY <1>0, <3>1, <3>2, QuietPower DEF Returning
  <2>6. QED
    BY <1>3, <2>1, <2>2, <2>3, <2>4, <2>5 DEF Powering, EnableTransition
<1>4. CASE Moving(t)
  <2>1. CASE Aiming(t) \/ MotionGate(t) \/ MotionCache(t) \/ Waypoint(t)
             \/ MotionEnd(t) \/ HomeStart(t)
    <3>1. /\ run' = run \/ run' = "ENABLED"
          /\ UNCHANGED <<motorOn, handles, controller>>
      BY <2>1, AimingShape
         DEF MotionGate, MotionCache, Waypoint, MotionEnd,
                 HomeStart, Runtime!Transition, armVars, sessionVars, motorVars
    <3>2. pc'[t] \in {"move_j", "motion", "idle", "motion_clear", "motion_run",
                      "waypoint", "waypoint_send", "motion_end",
                      "motion_enabled", "motion_uncache", "motion_restore",
                      "home_enabled", "home_cache", "home_pose"}
      BY <2>1, AimingShape, GotoLands, ReturnLands
         DEF MotionGate, MotionCache, Waypoint, MotionEnd, HomeStart, Lands
    <3>3. QED
      BY <1>0, <3>1, <3>2, QuietPower DEF Returning
  <2>2. CASE MotionRun(t)
    <3>1. /\ run' = run \/ run' = "RUNNING"
          /\ UNCHANGED <<motorOn, handles, controller>>
      BY <2>2 DEF MotionRun, Runtime!Transition, sessionVars, motorVars
    <3>2. pc'[t] \in {"motion_save", "idle", "ensure"}
      BY <2>2, MotionSaveLands, GotoLands, ReturnLands
         DEF MotionRun, At, Lands
    <3>3. QED
      BY <1>0, <3>1, <3>2, QuietPower DEF Returning
  <2>3. CASE WaypointSend(t) \/ RampSend(t)
    <3>1. UNCHANGED <<run, motorOn, handles, controller>>
      BY <2>3
         DEF WaypointSend, RampSend, SendPoint, armVars, sessionVars, motorVars
    <3>2. pc'[t] \in {"waypoint", "ramp", "motion_end"}
      BY <2>3, SendPointLands DEF WaypointSend, RampSend, Lands
    <3>3. QED
      BY <1>0, <3>1, <3>2, QuietPower DEF Returning
  <2>4. CASE MotionRestore(t)
    BY <1>0, <2>4, QuietPower, MotionReturnLands, EnsureLands
       DEF MotionRestore, Lands, Returning, sessionVars, motorVars
  <2>5. CASE HomeRamp(t)
    <3>1. /\ run' = run \/ run' = "RUNNING"
          /\ UNCHANGED <<motorOn, handles, controller>>
      BY <2>5 DEF HomeRamp, Runtime!Transition, sessionVars, motorVars
    <3>2. pc'[t] \in {"ensure", "idle", "ramp_cache", "ramp", "motion_end",
                      "ramp_send"}
      BY <2>5, GotoLands, ReturnLands, EnsureLands, RampStartLands
         DEF HomeRamp, Lands
    <3>3. QED
      BY <1>0, <3>1, <3>2, QuietPower DEF Returning
  <2>6. QED
    BY <1>4, <2>1, <2>2, <2>3, <2>4, <2>5 DEF Moving
<1>5. CASE Stopping(t)
  <2>1. CASE EstopDisable(t)
    <3>1. /\ motorOn' = {} /\ Lands(t, "estop_force")
          /\ UNCHANGED <<run, handles, controller>>
      BY <2>1, CutsPower, GotoLands
         DEF EstopDisable, Fails, armVars, sessionVars
    <3>2. ASSUME NEW u \in Threads
          PROVE  PowerAt(u)'
      BY <3>1, <3>2 DEF Lands, Others, PowerInv, PowerAt, At
    <3>3. QED
      BY <3>1, <3>2 DEF PowerInv
  <2>2. CASE EstopForce(t)
    <3>1. /\ At(t, "estop_force") /\ Lands(t, "estop_cache")
          /\ UNCHANGED <<motorOn, handles, controller>>
      BY <2>2, GotoLands DEF EstopForce, sessionVars, motorVars
    <3>2. motorOn' = {}
      BY <3>1 DEF PowerInv, PowerAt, At
    <3>3. ASSUME NEW u \in Threads
          PROVE  PowerAt(u)'
      BY <3>1, <3>2, <3>3 DEF EnableApart, Lands, Others, PowerAt, At
    <3>4. QED
      BY <3>1, <3>2, <3>3 DEF PowerInv
  <2>3. CASE EstopAbort(t) \/ EstopDamp(t) \/ EstopCache(t)
    <3>1. /\ run' = run
          /\ UNCHANGED <<motorOn, handles, controller>>
      BY <2>3 DEF EstopAbort, EstopDamp, EstopCache, armVars, sessionVars,
                 motorVars
    <3>2. pc'[t] \in {"estop_pose", "estop_disable", "ensure", "idle"}
      BY <2>3, GotoLands, ReturnLands, EnsureLands
         DEF EstopAbort, EstopDamp, EstopCache, Lands
    <3>3. QED
      BY <1>0, <3>1, <3>2, QuietPower DEF Returning
  <2>4. QED
    BY <1>5, <2>1, <2>2, <2>3 DEF Stopping
<1>6. CASE Commanding(t)
  <2>1. CASE EnsureCached(t) \/ EnsureJoint(t)
    <3>1. loc[t].after \in Continuations
      BY LocalsTyped
    <3>2. UNCHANGED <<run, motorOn, handles, controller>>
      BY <2>1 DEF EnsureCached, EnsureJoint, armVars, sessionVars, motorVars
    <3>3. pc'[t] \in Continuations \cup {"ensure_joint", "estop_disable"}
      BY <2>1, <3>1, GotoLands, ReturnLands, AdvanceLands
         DEF EnsureCached, EnsureJoint, At, Lands, Continuations
    <3>4. QED
      BY <1>0, <3>2, <3>3, QuietPower DEF Continuations, Returning
  <2>2. CASE ZeroCalibrate(t) \/ ZeroJoint(t)
    <3>1. motorOn' \subseteq motorOn /\ UNCHANGED <<run, handles, controller>>
      BY <2>2 DEF ZeroCalibrate, ZeroJoint, armVars, sessionVars
    <3>2. pc'[t] \in {"idle", "zero"}
      BY <2>2, ReturnLands, AdvanceLands DEF ZeroCalibrate, ZeroJoint, At, Lands
    <3>3. QED
      BY <1>0, <3>1, <3>2, QuietPower DEF Returning
  <2>3. CASE ~(\/ EnsureCached(t) \/ EnsureJoint(t) \/ ZeroCalibrate(t)
               \/ ZeroJoint(t))
    <3>1. UNCHANGED <<run, motorOn, handles, controller>>
      BY <1>6, <2>3
         DEF Commanding, ClearFaults, SetToDamping, Direct, DirectSend,
             JointCommand, WriteParam, ReadParam, GetFaults, Refused,
             armVars, sessionVars, motorVars
    <3>2. pc'[t] \in {"idle", "ensure", "damp_cache"}
      BY <1>6, <2>3, GotoLands, ReturnLands, EnsureLands
         DEF Commanding, ClearFaults, SetToDamping, Direct, DirectSend,
             JointCommand, WriteParam, ReadParam, GetFaults, Refused, Lands
    <3>3. QED
      BY <1>0, <3>1, <3>2, QuietPower DEF Returning
  <2>4. QED
    BY <2>1, <2>2, <2>3
<1>7. QED
  BY <1>1, <1>2, <1>3, <1>4, <1>5, <1>6 DEF Step

(* An arm in FAULT is off.  For any threads, menus and failures but those  *)
(* of disable_all(), as long as no enable() overlaps the part of an        *)
(* estop(), close() or rollback that says the power is off: motions,       *)
(* calibrations and disables of other threads may overlap it as they like  *)
(* (arm.py:359).                                                           *)
THEOREM FaultIsOff ==
  ASSUME "disable" \notin Faults
  PROVE  Spec /\ []EnableApart => []FaultPowerOff
<1>1. Init => PowerInv
  BY DEF Init, PowerInv, PowerAt, At, Returning
<1>2. /\ TypeOK /\ TypeOK' /\ PowerInv /\ EnableApart /\ [Next]_vars
      => PowerInv'
  <2>1. SUFFICES ASSUME TypeOK, TypeOK', PowerInv, EnableApart, [Next]_vars
                 PROVE  PowerInv'
    OBVIOUS
  <2>2. CASE UNCHANGED vars
    BY <2>1, <2>2
       DEF vars, armVars, sessionVars, motorVars, PowerInv, PowerAt, At, Wired
  <2>3. ASSUME NEW t \in Threads, Step(t)
        PROVE  PowerInv'
    BY <2>1, <2>3, PowerStep
  <2>4. ASSUME NEW t \in Threads, NEW op \in Operations, Call(t, op)
        PROVE  PowerInv'
    <3>1. FirstStep(op) \notin Returning \cup
            {"close_clear", "estop_force", "enable_motors"}
      BY DEF FirstStep, Operations, Returning
    <3>2. Lands(t, FirstStep(op))
      BY <2>1, <2>4 DEF Call, TypeOK, Lands, Others
    <3>3. QED
      BY <2>1, <2>4, <3>1, <3>2, QuietPower
         DEF Lands, Call, armVars, sessionVars, motorVars
  <2>5. CASE OtherUser
    BY <2>1, <2>5
       DEF OtherUser, armVars, sessionVars, PowerInv, PowerAt, At, Wired
  <2>6. QED
    BY <2>1, <2>2, <2>3, <2>4, <2>5 DEF Next
<1>3. PowerInv => FaultPowerOff
  BY DEF PowerInv, FaultPowerOff
<1>4. QED
  BY <1>1, <1>2, <1>3, TypeCorrect, PTL DEF Spec

-----------------------------------------------------------------------------
(***************************************************************************)
(* The run state: its owner and its table.                                 *)
(***************************************************************************)
(* No connect() is about to roll back to the RUNNING of another thread.    *)
NoRollback == \A t \in Threads : At(t, "connect_force") => loc[t].prev # "RUNNING"

(* What thread t's step does to the run state it owns, or comes to own.    *)
KeepsOwner(t) ==
  run' = "RUNNING" =>
    OwnsRunning(t)' \/ (run = "RUNNING" /\ ~OwnsRunning(t))

(* A step of a thread that does not own RUNNING and does not enter it.     *)
LEMMA StrangerKeeps ==
  ASSUME NEW t \in Threads, ~OwnsRunning(t), run' = run \/ run' # "RUNNING"
  PROVE  KeepsOwner(t)
BY DEF KeepsOwner

(* Every step of a call keeps the owner of RUNNING.                        *)
LEMMA OwnerStep ==
  ASSUME TypeOK, NoRollback, "mode" \notin Faults, NEW t \in Threads, Step(t)
  PROVE  KeepsOwner(t)
<1>1. CASE Connecting(t)
  <2>1. run' = run \/ run' # "RUNNING"
    BY <1>1
       DEF Connecting, ConnectPrev, ConnectTransition, ConnectOpen, ConnectAdd,
           ConnectCache, ConnectRollback, NoRollback, At, Runtime!Transition,
           Runtime!Force, armVars
  <2>2. ~OwnsRunning(t)
    BY <1>1
       DEF Connecting, ConnectPrev, ConnectTransition, ConnectOpen, ConnectAdd,
           ConnectCache, ConnectRollback, At, OwnsRunning
  <2>3. QED
    BY <2>1, <2>2, StrangerKeeps
<1>2. CASE Closing(t)
  <2>1. run' = run \/ run' # "RUNNING"
    BY <1>2
       DEF Closing, CloseAbort, CloseForce, CloseDisable, CloseClear,
           CloseCache, Runtime!Force, armVars
  <2>2. ~OwnsRunning(t)
    BY <1>2
       DEF Closing, CloseAbort, CloseForce, CloseDisable, CloseClear,
           CloseCache, At, OwnsRunning
  <2>3. QED
    BY <2>1, <2>2, StrangerKeeps
<1>3. CASE Powering(t)
  <2>1. run' = run \/ run' # "RUNNING"
    BY <1>3
       DEF Powering, EnableTransition, EnableMotors, EnableCache,
           DisableTransitions, DisableMotors, DisableCache,
           Runtime!Transition, armVars
  <2>2. ~OwnsRunning(t)
    BY <1>3
       DEF Powering, EnableTransition, EnableMotors, EnableCache,
           DisableTransitions, DisableMotors, DisableCache, At, OwnsRunning
  <2>3. QED
    BY <2>1, <2>2, StrangerKeeps
<1>4. CASE Moving(t)
  <2>1. CASE Aiming(t) \/ MotionGate(t) \/ HomeStart(t) \/ MotionRestore(t)
    <3>1. run' = run \/ run' # "RUNNING"
      BY <2>1, AimingShape
         DEF MotionGate, HomeStart, MotionRestore, Runtime!Transition, armVars
    <3>2. ~OwnsRunning(t)
      BY <2>1
         DEF Aiming, MoveJ, MoveJoint, GripperMove, MoveCartesian, Aim,
             UnknownJoint, NoGripper, Unsolvable, Refused, MotionGate,
             HomeStart, MotionRestore, At, OwnsRunning
    <3>3. QED
      BY <3>1, <3>2, StrangerKeeps
  <2>2. CASE MotionRun(t)
    <3>1. CASE At(t, "motion_run") /\ Goto(t, "motion_save")
      BY <3>1, GotoLands DEF KeepsOwner, OwnsRunning, Lands
    <3>2. CASE At(t, "motion_run") /\ UNCHANGED run
      BY <3>2 DEF KeepsOwner, OwnsRunning, At
    <3>3. CASE ~At(t, "motion_run")
      BY <2>2, <3>3, MotionSaveLands DEF KeepsOwner, OwnsRunning, Lands
    <3>4. QED
      BY <2>2, <3>1, <3>2, <3>3 DEF MotionRun, At
  <2>3. CASE MotionCache(t) \/ Waypoint(t)
    BY <2>3, GotoLands
       DEF MotionCache, Waypoint, KeepsOwner, OwnsRunning, Lands
  <2>4. CASE WaypointSend(t) \/ RampSend(t)
    BY <2>4, SendPointLands
       DEF WaypointSend, RampSend, KeepsOwner, OwnsRunning, Lands
  <2>5. CASE MotionEnd(t)
    <3>1. CASE At(t, "motion_end")
      BY <2>5, <3>1, GotoLands DEF MotionEnd, At, KeepsOwner, OwnsRunning, Lands
    <3>2. CASE At(t, "motion_enabled")
      BY <2>5, <3>2
         DEF MotionEnd, At, KeepsOwner, Runtime!Transition, Runtime!Accepts,
             Runtime!Allowed
    <3>3. CASE At(t, "motion_uncache")
      BY <2>5, <3>3 DEF MotionEnd, At, KeepsOwner, OwnsRunning
    <3>4. QED
      BY <2>5, <3>1, <3>2, <3>3 DEF MotionEnd
  <2>6. CASE HomeRamp(t)
    <3>1. CASE At(t, "home_mode")
      BY <2>6, <3>1 DEF HomeRamp, At, KeepsOwner, OwnsRunning
    <3>2. CASE At(t, "ramp_run")
      <4>1. CASE UNCHANGED run
        BY <3>2, <4>1 DEF At, KeepsOwner, OwnsRunning
      <4>2. CASE run' # run
        BY <2>6, <3>2, <4>2, RampStartLands
           DEF HomeRamp, At, KeepsOwner, OwnsRunning, Lands
      <4>3. QED
        BY <4>1, <4>2
    <3>3. CASE At(t, "ramp_cache") \/ At(t, "ramp")
      BY <2>6, <3>3, GotoLands DEF HomeRamp, At, KeepsOwner, OwnsRunning, Lands
    <3>4. QED
      BY <2>6, <3>1, <3>2, <3>3 DEF HomeRamp
  <2>7. QED
    BY <1>4, <2>1, <2>2, <2>3, <2>4, <2>5, <2>6 DEF Moving
<1>5. CASE Stopping(t)
  <2>1. run' = run \/ run' # "RUNNING"
    BY <1>5
       DEF Stopping, EstopAbort, EstopDamp, EstopDisable, EstopForce,
           EstopCache, Runtime!Force, armVars
  <2>2. ~OwnsRunning(t)
    BY <1>5
       DEF Stopping, EstopAbort, EstopDamp, EstopDisable, EstopForce,
           EstopCache, At, OwnsRunning
  <2>3. QED
    BY <2>1, <2>2, StrangerKeeps
<1>6. CASE Commanding(t)
  <2>1. CASE EnsureCached(t)
    BY <2>1, GotoLands
       DEF EnsureCached, At, KeepsOwner, OwnsRunning, Lands, armVars
  <2>2. CASE EnsureJoint(t)
    <3>1. UNCHANGED run /\ At(t, "ensure_joint")
      BY <2>2 DEF EnsureJoint, armVars
    <3>2. \/ Lands(t, "ensure_joint") /\ loc'[t].after = loc[t].after
          \/ Lands(t, loc[t].after) /\ loc'[t].after = loc[t].after
      <4>1. CASE loc' = [loc EXCEPT ![t].i = @ + 1] /\ UNCHANGED pc
        BY <3>1, <4>1, AdvanceLands DEF At, Keeps
      <4>2. CASE Goto(t, loc[t].after)
        BY <4>2, GotoLands
      <4>3. QED
        BY <2>2, <4>1, <4>2 DEF EnsureJoint, Fails
    <3>3. QED
      BY <3>1, <3>2 DEF At, KeepsOwner, OwnsRunning, Lands
  <2>3. CASE ~(EnsureCached(t) \/ EnsureJoint(t))
    <3>1. UNCHANGED run
      BY <1>6, <2>3
         DEF Commanding, ClearFaults, SetToDamping, Direct, DirectSend,
             JointCommand, ZeroCalibrate, ZeroJoint, WriteParam, ReadParam,
             GetFaults, Refused, armVars
    <3>2. ~OwnsRunning(t)
      BY <1>6, <2>3
         DEF Commanding, ClearFaults, SetToDamping, Direct, DirectSend,
             JointCommand, ZeroCalibrate, ZeroJoint, WriteParam, ReadParam,
             GetFaults, Refused, At, OwnsRunning
    <3>3. QED
      BY <3>1, <3>2, StrangerKeeps
  <2>4. QED
    BY <2>1, <2>2, <2>3
<1>7. QED
  BY <1>1, <1>2, <1>3, <1>4, <1>5, <1>6 DEF Step

(* RUNNING has an owner.  For any threads, menus and failures but those of *)
(* a mode switch, as long as no connect() rolls back to RUNNING: whatever  *)
(* motions, stops and disables of other threads interleave with a motion,  *)
(* the run state is RUNNING only while a thread is in the stretch that     *)
(* takes it back to ENABLED (arm.py:1290).                                 *)
THEOREM RunningIsOwned ==
  ASSUME "mode" \notin Faults
  PROVE  Spec /\ []NoRollback => []RunningHasMotion
<1>1. Init => RunningHasMotion
  BY DEF Init, RunningHasMotion
<1>2. TypeOK /\ RunningHasMotion /\ NoRollback /\ [Next]_vars
      => RunningHasMotion'
  <2>1. SUFFICES ASSUME TypeOK, RunningHasMotion, NoRollback, [Next]_vars,
                        run' = "RUNNING"
                 PROVE  \E t \in Threads : OwnsRunning(t)'
    BY DEF RunningHasMotion
  <2>2. CASE UNCHANGED vars
    BY <2>1, <2>2 DEF vars, armVars, RunningHasMotion, OwnsRunning
  <2>3. ASSUME NEW t \in Threads, Step(t)
        PROVE  \E u \in Threads : OwnsRunning(u)'
    <3>1. OwnsRunning(t)' \/ (run = "RUNNING" /\ ~OwnsRunning(t))
      BY <2>1, <2>3, OwnerStep DEF KeepsOwner
    <3>2. CASE run = "RUNNING" /\ ~OwnsRunning(t)
      <4>1. PICK u \in Threads : OwnsRunning(u)
        BY <2>1, <3>2 DEF RunningHasMotion
      <4>2. pc'[u] = pc[u] /\ loc'[u] = loc[u]
        BY <2>1, <2>3, <3>2, <4>1, StepOthers DEF Others
      <4>3. OwnsRunning(u)'
        BY <4>1, <4>2 DEF OwnsRunning
      <4>4. QED
        BY <4>3
    <3>3. QED
      BY <3>1, <3>2
  <2>4. ASSUME NEW t \in Threads, NEW op \in Operations, Call(t, op)
        PROVE  \E u \in Threads : OwnsRunning(u)'
    <3>1. PICK u \in Threads : OwnsRunning(u)
      BY <2>1, <2>4 DEF RunningHasMotion, Call, armVars
    <3>2. u # t
      BY <2>4, <3>1 DEF Call, At, OwnsRunning
    <3>3. pc'[u] = pc[u] /\ loc'[u] = loc[u]
      BY <2>1, <2>4, <3>2 DEF Call, TypeOK
    <3>4. OwnsRunning(u)'
      BY <3>1, <3>3 DEF OwnsRunning
    <3>5. QED
      BY <3>4
  <2>5. CASE OtherUser
    BY <2>1, <2>5 DEF OtherUser, armVars, RunningHasMotion, OwnsRunning
  <2>6. QED
    BY <2>1, <2>2, <2>3, <2>4, <2>5 DEF Next
<1>3. QED
  BY <1>1, <1>2, TypeCorrect, PTL DEF Spec

-----------------------------------------------------------------------------
(***************************************************************************)
(* Menus for which the two theorems need no assumption on a behaviour.     *)
(***************************************************************************)
(* The sessions are only ever opened, and the bus answers that.            *)
OnlyOpens ==
  /\ {"open", "add"} \cap Faults = {}
  /\ \A t \in Threads : Menu[t] \cap {"close", "reconnect"} = {}

UndoSteps == {"connect_force", "connect_uncache", "close", "close_force",
              "close_disable", "close_clear", "close_cache"}

(* Once open, the controller stays, and no connect() rolls back.           *)
StaysOpen ==
  \A t \in Threads :
    /\ pc[t] \notin UndoSteps
    /\ pc[t] = "connect_add" => controller

(* A step of thread t that leads neither to connect()'s loop nor back.     *)
LEMMA QuietOpen ==
  ASSUME StaysOpen, NEW t \in Threads, Others(t),
         controller' = controller \/ controller' = TRUE,
         pc'[t] \notin UndoSteps, pc'[t] = "connect_add" => controller'
  PROVE  StaysOpen'
BY DEF StaysOpen, Others

(* Where a thread goes outside connect() and close().                      *)
LEMMA StepElsewhere ==
  ASSUME TypeOK, NEW t \in Threads,
         Powering(t) \/ Moving(t) \/ Stopping(t) \/ Commanding(t)
  PROVE  /\ pc'[t] \notin UndoSteps \cup {"connect", "connect_transition",
                            "connect_open", "connect_add", "connect_cache"}
         /\ UNCHANGED controller
<1> USE DEF Lands, UndoSteps
<1>3. CASE Powering(t)
  BY <1>3, GotoLands, ReturnLands
     DEF Powering, EnableTransition, EnableMotors, EnableCache,
         DisableTransitions, DisableMotors, DisableCache, sessionVars
<1>4. CASE Moving(t)
  <2>1. CASE Aiming(t) \/ MotionGate(t) \/ MotionCache(t) \/ Waypoint(t)
             \/ MotionEnd(t) \/ HomeStart(t)
    BY <2>1, AimingShape, GotoLands, ReturnLands
       DEF MotionGate, MotionCache, Waypoint, MotionEnd, HomeStart, sessionVars
  <2>2. CASE MotionRun(t)
    <3>1. pc'[t] \in {"motion_save", "idle", "ensure"}
      <4>1. CASE At(t, "motion_run")
        BY <2>2, <4>1, GotoLands, ReturnLands DEF MotionRun, At
      <4>2. CASE ~At(t, "motion_run")
        BY <2>2, <4>2, MotionSaveLands
      <4>3. QED
        BY <4>1, <4>2
    <3>2. QED
      BY <2>2, <3>1 DEF MotionRun, sessionVars
  <2>3. CASE WaypointSend(t) \/ RampSend(t)
    <3>1. pc'[t] \in {"waypoint", "ramp", "motion_end"}
      BY <2>3, SendPointLands DEF WaypointSend, RampSend
    <3>2. QED
      BY <2>3, <3>1 DEF WaypointSend, RampSend, SendPoint, sessionVars
  <2>4. CASE MotionRestore(t)
    BY <2>4, MotionReturnLands, EnsureLands DEF MotionRestore, sessionVars
  <2>5. CASE HomeRamp(t)
    <3>1. UNCHANGED controller
      BY <2>5 DEF HomeRamp, sessionVars
    <3>2. pc'[t] \in {"ensure", "idle", "ramp_cache", "ramp", "motion_end",
                      "ramp_send"}
      BY <2>5, GotoLands, ReturnLands, EnsureLands, RampStartLands DEF HomeRamp
    <3>3. QED
      BY <3>1, <3>2
  <2>6. QED
    BY <1>4, <2>1, <2>2, <2>3, <2>4, <2>5 DEF Moving
<1>5. CASE Stopping(t)
  <2>1. UNCHANGED controller
    BY <1>5
       DEF Stopping, EstopAbort, EstopDamp, EstopDisable, EstopForce,
           EstopCache, sessionVars
  <2>2. pc'[t] \in {"estop_pose", "ensure", "estop_disable", "estop_force",
                    "estop_cache", "idle"}
    BY <1>5, GotoLands, ReturnLands, EnsureLands
       DEF Stopping, EstopAbort, EstopDamp, EstopDisable, EstopForce, EstopCache
  <2>3. QED
    BY <2>1, <2>2
<1>6. CASE Commanding(t)
  <2>1. CASE EnsureCached(t) \/ EnsureJoint(t)
    <3>1. loc[t].after \in Continuations
      BY LocalsTyped
    <3>2. UNCHANGED controller
      BY <2>1 DEF EnsureCached, EnsureJoint, sessionVars
    <3>3. pc'[t] \in Continuations \cup {"ensure_joint", "estop_disable"}
      BY <2>1, <3>1, GotoLands, ReturnLands, AdvanceLands
         DEF EnsureCached, EnsureJoint, At, Continuations
    <3>4. QED
      BY <3>2, <3>3 DEF Continuations
  <2>2. CASE ~(EnsureCached(t) \/ EnsureJoint(t))
    <3>1. UNCHANGED controller
      BY <1>6, <2>2
         DEF Commanding, ClearFaults, SetToDamping, Direct, DirectSend,
             JointCommand, ZeroCalibrate, ZeroJoint, WriteParam, ReadParam,
             GetFaults, Refused, sessionVars
    <3>2. pc'[t] \in {"idle", "ensure", "damp_cache", "zero"}
      BY <1>6, <2>2, GotoLands, ReturnLands, EnsureLands, AdvanceLands
         DEF Commanding, ClearFaults, SetToDamping, Direct, DirectSend,
             JointCommand, ZeroCalibrate, ZeroJoint, WriteParam, ReadParam,
             GetFaults, Refused, At
    <3>3. QED
      BY <3>1, <3>2
  <2>3. QED
    BY <2>1, <2>2
<1>7. QED
  BY <1>3, <1>4, <1>5, <1>6

(* Every step of a call keeps the session open.                            *)
LEMMA OpensStep ==
  ASSUME TypeOK, OnlyOpens, StaysOpen, NEW t \in Threads, Step(t)
  PROVE  StaysOpen'
<1>0. Others(t)
  BY StepOthers
<1>1. CASE Connecting(t)
  <2>1. CASE ConnectAdd(t)
    <3>1. At(t, "connect_add") /\ controller /\ UNCHANGED controller
      BY <2>1 DEF ConnectAdd, StaysOpen, At
    <3>2. \/ Goto(t, "connect_cache")
          \/ UNCHANGED pc
      BY <2>1, <3>1 DEF ConnectAdd, OnlyOpens, Fails
    <3>3. pc'[t] \in {"connect_cache", "connect_add"}
      BY <3>1, <3>2, GotoLands DEF At, Lands
    <3>4. QED
      BY <1>0, <3>1, <3>3, QuietOpen DEF UndoSteps
  <2>2. CASE ConnectOpen(t)
    <3>1. controller' = TRUE /\ Goto(t, "connect_add")
      BY <2>2 DEF ConnectOpen, OnlyOpens, Fails
    <3>2. pc'[t] = "connect_add"
      BY <3>1, GotoLands DEF Lands
    <3>3. QED
      BY <1>0, <3>1, <3>2, QuietOpen DEF UndoSteps
  <2>3. CASE ConnectPrev(t) \/ ConnectTransition(t) \/ ConnectCache(t)
    <3>1. UNCHANGED controller
      BY <2>3 DEF ConnectPrev, ConnectTransition, ConnectCache, sessionVars
    <3>2. pc'[t] \in {"connect_transition", "connect_open", "idle"}
      BY <2>3, GotoLands, ReturnLands, ConnectPrevLands
         DEF ConnectTransition, ConnectCache, Lands
    <3>3. QED
      BY <1>0, <3>1, <3>2, QuietOpen DEF UndoSteps
  <2>4. ~ConnectRollback(t)
    BY DEF ConnectRollback, StaysOpen, At, UndoSteps
  <2>5. QED
    BY <1>1, <2>1, <2>2, <2>3, <2>4 DEF Connecting
<1>2. ~Closing(t)
  BY DEF Closing, CloseAbort, CloseForce, CloseDisable, CloseClear, CloseCache,
         StaysOpen, At, UndoSteps
<1>3. CASE Powering(t) \/ Moving(t) \/ Stopping(t) \/ Commanding(t)
  BY <1>0, <1>3, StepElsewhere, QuietOpen
<1>4. QED
  BY <1>1, <1>2, <1>3 DEF Step

(* A session that is only ever opened stays open.                          *)
LEMMA OpensOnly ==
  ASSUME OnlyOpens
  PROVE  Spec => []NoRollback
<1>1. Init => StaysOpen
  BY DEF Init, StaysOpen, UndoSteps
<1>2. TypeOK /\ StaysOpen /\ [Next]_vars => StaysOpen'
  <2>1. SUFFICES ASSUME TypeOK, StaysOpen, [Next]_vars
                 PROVE  StaysOpen'
    OBVIOUS
  <2>2. CASE UNCHANGED vars
    BY <2>1, <2>2 DEF vars, sessionVars, StaysOpen
  <2>3. ASSUME NEW t \in Threads, Step(t)
        PROVE  StaysOpen'
    BY <2>1, <2>3, OpensStep
  <2>4. ASSUME NEW t \in Threads, NEW op \in Operations, Call(t, op)
        PROVE  StaysOpen'
    <3>1. op \notin {"close", "reconnect"}
      BY <2>4 DEF Call, OnlyOpens
    <3>2. FirstStep(op) \notin UndoSteps \cup {"connect_add"}
      BY <3>1 DEF FirstStep, Operations, UndoSteps
    <3>3. Lands(t, FirstStep(op))
      BY <2>1, <2>4 DEF Call, TypeOK, Lands, Others
    <3>4. UNCHANGED controller
      BY <2>4 DEF Call, sessionVars
    <3>5. QED
      BY <2>1, <3>2, <3>3, <3>4, QuietOpen DEF Lands
  <2>5. CASE OtherUser
    BY <2>1, <2>5 DEF OtherUser, sessionVars, StaysOpen
  <2>6. QED
    BY <2>1, <2>2, <2>3, <2>4, <2>5 DEF Next
<1>3. StaysOpen => NoRollback
  BY DEF StaysOpen, NoRollback, At, UndoSteps
<1>4. QED
  BY <1>1, <1>2, <1>3, TypeCorrect, PTL DEF Spec

(* Any threads that open the arm once or again, move, stop, power and      *)
(* command it, on a bus that lets them open it and switch modes, always    *)
(* leave RUNNING with an owner.                                            *)
COROLLARY OpenRunningIsOwned ==
  ASSUME OnlyOpens, "mode" \notin Faults
  PROVE  Spec => []RunningHasMotion
BY OpensOnly, RunningIsOwned, PTL

(* One thread at most both powers the motors and opens, closes or stops    *)
(* the arm: its calls do not overlap each other.                           *)
EnablesAlone ==
  \A t, u \in Threads :
    /\ "enable" \in Menu[t]
    /\ Menu[u] \cap {"connect", "close", "reconnect", "estop"} # {}
    => t = u

SessionSteps == UndoSteps \cup {"connect", "connect_transition",
                  "connect_open", "connect_add", "connect_cache"}
EnableSteps  == {"enable", "enable_motors", "enable_cache"}
EstopSteps   == {"estop", "estop_pose", "estop_damp", "estop_disable",
                 "estop_force", "estop_cache"}

InEstop(t) ==
  \/ pc[t] \in EstopSteps
  \/ pc[t] \in {"ensure", "ensure_joint"} /\ loc[t].after = "estop_damp"

(* A thread is inside an operation of its menu.                            *)
Origin(t) ==
  /\ loc[t].op \in Menu[t] \cup {"none", "ramp"}
  /\ pc[t] \in EnableSteps => "enable" \in Menu[t]
  /\ pc[t] \in SessionSteps =>
       Menu[t] \cap {"connect", "close", "reconnect"} # {}
  /\ InEstop(t) => "estop" \in Menu[t]

(* A step of a call that stays inside its operation.                       *)
LEMMA OriginStays ==
  ASSUME NEW t \in Threads, Origin(t),
         loc'[t].op \in {loc[t].op, "none", "ramp"},
         pc'[t] \in EnableSteps => pc[t] \in EnableSteps,
         pc'[t] \in SessionSteps => pc[t] \in SessionSteps,
         InEstop(t)' => InEstop(t)
  PROVE  Origin(t)'
BY DEF Origin

(* Every step of a call stays inside its operation.                        *)
LEMMA OriginStep ==
  ASSUME TypeOK, NEW t \in Threads, Origin(t), Step(t)
  PROVE  Origin(t)'
<1>0. loc[t] \in Locals /\ NoCall.op = "none"
  BY DEF TypeOK, NoCall
<1>1. CASE Connecting(t)
  <2>1. pc[t] \in SessionSteps
    BY <1>1
       DEF Connecting, ConnectPrev, ConnectTransition, ConnectOpen, ConnectAdd,
           ConnectCache, ConnectRollback, At, SessionSteps, UndoSteps
  <2>2. pc'[t] \in SessionSteps \cup {"idle"}
    BY <1>1, <2>1, ConnectPrevLands, GotoLands, ReturnLands, AdvanceLands
       DEF Connecting, ConnectTransition, ConnectOpen, ConnectAdd,
           ConnectCache, ConnectRollback, Lands, SessionSteps, UndoSteps
  <2>3. loc'[t].op \in {loc[t].op, "none"}
    <3>1. CASE ConnectPrev(t)
      BY <3>1, ConnectPrevLands DEF Keeps
    <3>2. CASE loc' = [loc EXCEPT ![t].i = @ + 1] /\ UNCHANGED pc
      BY <3>2, AdvanceLands DEF Keeps
    <3>3. CASE loc' = loc \/ Return(t)
      BY <1>0, <3>3, ReturnLands
    <3>4. QED
      BY <1>1, <3>1, <3>2, <3>3
         DEF Connecting, ConnectTransition, ConnectOpen, ConnectAdd,
             ConnectCache, ConnectRollback, Goto
  <2>4. QED
    BY <2>1, <2>2, <2>3, OriginStays
       DEF InEstop, SessionSteps, UndoSteps, EnableSteps, EstopSteps
<1>2. CASE Closing(t)
  <2>1. pc[t] \in SessionSteps
    BY <1>2
       DEF Closing, CloseAbort, CloseForce, CloseDisable, CloseClear,
           CloseCache, At, SessionSteps, UndoSteps
  <2>2. pc'[t] \in SessionSteps \cup {"idle"} /\ loc'[t].op \in {loc[t].op, "none"}
    BY <1>0, <1>2, GotoLands, ReturnLands
       DEF Closing, CloseAbort, CloseForce, CloseDisable, CloseClear,
           CloseCache, Lands, SessionSteps, UndoSteps
  <2>3. QED
    BY <2>1, <2>2, OriginStays
       DEF InEstop, SessionSteps, UndoSteps, EnableSteps, EstopSteps
<1>3. CASE Powering(t)
  <2>1. \/ pc[t] \in EnableSteps /\ pc'[t] \in EnableSteps
        \/ pc'[t] \in {"disable_stop", "disable_idle", "disable_motors",
                       "disable_cache", "idle"}
    BY <1>3, GotoLands, ReturnLands
       DEF Powering, EnableTransition, EnableMotors, EnableCache, At,
           DisableTransitions, DisableMotors, DisableCache, Lands, EnableSteps
  <2>2. loc'[t].op \in {loc[t].op, "none"}
    BY <1>0, <1>3, GotoLands, ReturnLands
       DEF Powering, EnableTransition, EnableMotors, EnableCache,
           DisableTransitions, DisableMotors, DisableCache
  <2>3. QED
    BY <2>1, <2>2, OriginStays
       DEF InEstop, SessionSteps, UndoSteps, EnableSteps, EstopSteps
<1>4. CASE Moving(t)
  <2>1. /\ pc'[t] \notin SessionSteps \cup EnableSteps \cup EstopSteps
        /\ ~InEstop(t)'
        /\ loc'[t].op \in {loc[t].op, "none", "ramp"}
    <3>1. CASE Aiming(t) \/ MotionGate(t) \/ MotionCache(t) \/ Waypoint(t)
               \/ MotionEnd(t) \/ HomeStart(t)
      <4>1. loc'[t].op \in {loc[t].op, "none"}
        BY <1>0, <3>1, AimingShape, GotoLands, ReturnLands
           DEF MotionGate, MotionCache, Waypoint, MotionEnd, HomeStart
      <4>2. pc'[t] \in {"move_j", "motion", "idle", "motion_clear",
                        "motion_run", "waypoint", "waypoint_send",
                        "motion_end", "motion_enabled", "motion_uncache",
                        "motion_restore", "home_enabled", "home_cache",
                        "home_pose"}
        BY <3>1, AimingShape, GotoLands, ReturnLands
           DEF MotionGate, MotionCache, Waypoint, MotionEnd, HomeStart, Lands
      <4>3. QED
        BY <4>1, <4>2
           DEF InEstop, SessionSteps, UndoSteps, EnableSteps, EstopSteps
    <3>2. CASE MotionRun(t)
      <4>1. CASE At(t, "motion_run")
        <5>1. /\ pc'[t] \in {"motion_save", "idle"}
              /\ loc'[t].op \in {loc[t].op, "none"}
          BY <1>0, <3>2, <4>1, GotoLands, ReturnLands DEF MotionRun, At, Lands
        <5>2. QED
          BY <5>1 DEF InEstop, SessionSteps, UndoSteps, EnableSteps, EstopSteps
      <4>2. CASE ~At(t, "motion_run")
        BY <3>2, <4>2, MotionSaveLands
           DEF Lands, InEstop, SessionSteps, UndoSteps, EnableSteps, EstopSteps
      <4>3. QED
        BY <4>1, <4>2
    <3>3. CASE WaypointSend(t) \/ RampSend(t)
      BY <3>3, SendPointLands
         DEF WaypointSend, RampSend, Lands, Keeps, InEstop, SessionSteps,
             UndoSteps, EnableSteps, EstopSteps
    <3>4. CASE MotionRestore(t)
      <4>1. CASE MotionReturn(t)
        BY <1>0, <4>1, MotionReturnLands
           DEF Lands, InEstop, SessionSteps, UndoSteps, EnableSteps, EstopSteps
      <4>2. CASE EnsureMode(t, loc[t].saved, "motion_recache")
        BY <1>0, <4>2, EnsureLands
           DEF Keeps, Lands, InEstop, SessionSteps, UndoSteps, EnableSteps,
               EstopSteps
      <4>3. QED
        BY <3>4, <4>1, <4>2 DEF MotionRestore
    <3>5. CASE HomeRamp(t)
      <4>1. CASE EnsureMode(t, "MIT", "ramp_run")
        BY <1>0, <4>1, EnsureLands
           DEF Keeps, Lands, InEstop, SessionSteps, UndoSteps, EnableSteps,
               EstopSteps
      <4>2. CASE ~EnsureMode(t, "MIT", "ramp_run")
        <5>1. /\ pc'[t] \in {"idle", "ramp_cache", "ramp", "motion_end",
                              "ramp_send"}
              /\ loc'[t].op \in {loc[t].op, "none", "ramp"}
          BY <1>0, <3>5, <4>2, GotoLands, ReturnLands, RampStartLands
             DEF HomeRamp, Lands
        <5>2. QED
          BY <5>1 DEF InEstop, SessionSteps, UndoSteps, EnableSteps, EstopSteps
      <4>3. QED
        BY <4>1, <4>2
    <3>6. QED
      BY <1>4, <3>1, <3>2, <3>3, <3>4, <3>5 DEF Moving
  <2>2. QED
    BY <2>1, OriginStays
<1>5. CASE Stopping(t)
  <2>1. InEstop(t)
    BY <1>5
       DEF Stopping, EstopAbort, EstopDamp, EstopDisable, EstopForce,
           EstopCache, At, InEstop, EstopSteps
  <2>2. pc'[t] \in EstopSteps \cup {"ensure", "idle"}
    BY <1>5, GotoLands, ReturnLands, EnsureLands
       DEF Stopping, EstopAbort, EstopDamp, EstopDisable, EstopForce,
           EstopCache, Lands, EstopSteps
  <2>3. loc'[t].op \in {loc[t].op, "none"}
    <3>1. CASE EnsureMode(t, "MIT", "estop_damp")
      BY <3>1, EnsureLands DEF Keeps
    <3>2. CASE ~EnsureMode(t, "MIT", "estop_damp")
      BY <1>0, <1>5, <3>2, GotoLands, ReturnLands
         DEF Stopping, EstopAbort, EstopDamp, EstopDisable, EstopForce,
             EstopCache
    <3>3. QED
      BY <3>1, <3>2
  <2>4. QED
    BY <2>1, <2>2, <2>3, OriginStays
       DEF SessionSteps, UndoSteps, EnableSteps, EstopSteps
<1>6. CASE Commanding(t)
  <2>1. CASE EnsureCached(t) \/ EnsureJoint(t)
    <3>1. loc[t].after \in Continuations
      BY LocalsTyped
    <3>2. /\ pc[t] \in {"ensure", "ensure_joint"}
          /\ \/ pc'[t] = "idle" /\ loc'[t].op = "none"
             \/ /\ pc'[t] \in {loc[t].after, "ensure_joint"}
                /\ loc'[t].after = loc[t].after /\ loc'[t].op = loc[t].op
             \/ /\ pc'[t] = "motion_recache" /\ loc' = loc
             \/ /\ pc'[t] = "estop_disable" /\ loc[t].after = "estop_damp"
                /\ loc' = loc
      <4>1. CASE EnsureCached(t)
        BY <4>1, GotoLands DEF EnsureCached, At, Lands
      <4>2. CASE EnsureJoint(t)
        <5>1. pc[t] = "ensure_joint"
          BY <4>2 DEF EnsureJoint, At
        <5>2. CASE loc' = [loc EXCEPT ![t].i = @ + 1] /\ UNCHANGED pc
          BY <5>1, <5>2, AdvanceLands DEF Keeps
        <5>3. CASE Goto(t, loc[t].after) \/ Return(t)
          BY <1>0, <5>1, <5>3, GotoLands, ReturnLands DEF Lands
        <5>4. CASE Goto(t, "motion_recache")
          BY <5>1, <5>4, GotoLands DEF Lands
        <5>5. CASE Goto(t, "estop_disable") /\ loc[t].after = "estop_damp"
          BY <5>1, <5>5, GotoLands DEF Lands
        <5>6. QED
          BY <4>2, <5>2, <5>3, <5>4, <5>5 DEF EnsureJoint
      <4>3. QED
        BY <2>1, <4>1, <4>2
    <3>3. QED
      BY <3>1, <3>2, OriginStays
         DEF InEstop, Continuations, SessionSteps, UndoSteps, EnableSteps,
             EstopSteps
  <2>2. CASE ~(EnsureCached(t) \/ EnsureJoint(t))
    <3>1. CASE \E m \in Modes, a \in {"damp_send", "direct_send"} :
                 EnsureMode(t, m, a)
      <4>1. PICK m \in Modes, a \in {"damp_send", "direct_send"} :
              EnsureMode(t, m, a)
        BY <3>1
      <4>2. /\ pc'[t] = "ensure" /\ loc'[t].after # "estop_damp"
            /\ loc'[t].op = loc[t].op
        BY <4>1, EnsureLands DEF Lands, Keeps
      <4>3. QED
        BY <4>2, OriginStays
           DEF InEstop, SessionSteps, UndoSteps, EnableSteps, EstopSteps
    <3>2. CASE Return(t) \/ Goto(t, "damp_cache")
      <4>1. /\ pc'[t] \in {"idle", "damp_cache"}
            /\ loc'[t].op \in {loc[t].op, "none"}
        BY <1>0, <3>2, GotoLands, ReturnLands DEF Lands
      <4>2. QED
        BY <4>1, OriginStays
           DEF InEstop, SessionSteps, UndoSteps, EnableSteps, EstopSteps
    <3>3. CASE loc' = [loc EXCEPT ![t].i = @ + 1] /\ UNCHANGED pc
      <4>1. /\ loc'[t].op = loc[t].op /\ loc'[t].after = loc[t].after
        BY <3>3, AdvanceLands DEF Keeps
      <4>2. QED
        BY <3>3, <4>1, OriginStays DEF InEstop
    <3>4. "MIT" \in Modes /\ DirectMode(loc[t].op) \in Modes
      BY DEF Modes, DirectMode
    <3>5. QED
      BY <1>6, <2>2, <3>1, <3>2, <3>3, <3>4
         DEF Commanding, ClearFaults, SetToDamping, Direct, DirectSend,
             JointCommand, ZeroCalibrate, ZeroJoint, WriteParam, ReadParam,
             GetFaults, Refused
  <2>3. QED
    BY <2>1, <2>2
<1>7. QED
  BY <1>1, <1>2, <1>3, <1>4, <1>5, <1>6 DEF Step

(* Every thread is inside an operation of its menu.                        *)
LEMMA OriginInv ==
  Spec => [](\A t \in Threads : Origin(t))
<1> DEFINE Inv == \A t \in Threads : Origin(t)
<1>1. Init => Inv
  <2>1. ASSUME Init, NEW t \in Threads
        PROVE  pc[t] = "idle" /\ loc[t].op = "none"
    BY <2>1 DEF Init, NoCall
  <2>2. QED
    BY <2>1
       DEF Origin, InEstop, EnableSteps, SessionSteps, UndoSteps, EstopSteps
<1>2. TypeOK /\ Inv /\ [Next]_vars => Inv'
  <2>1. SUFFICES ASSUME TypeOK, Inv, [Next]_vars, NEW u \in Threads
                 PROVE  Origin(u)'
    OBVIOUS
  <2>2. CASE UNCHANGED <<pc, loc>>
    BY <2>1, <2>2 DEF Origin, InEstop
  <2>3. ASSUME NEW t \in Threads, Step(t)
        PROVE  Origin(u)'
    <3>1. CASE u = t
      BY <2>1, <2>3, <3>1, OriginStep
    <3>2. CASE u # t
      BY <2>1, <2>3, <3>2, StepOthers DEF Others, Origin, InEstop
    <3>3. QED
      BY <3>1, <3>2
  <2>4. ASSUME NEW t \in Threads, NEW op \in Operations, Call(t, op)
        PROVE  Origin(u)'
    <3>1. CASE u = t
      <4>1. /\ op \in Menu[t] /\ pc'[t] = FirstStep(op)
            /\ loc'[t].op = op
        BY <2>1, <2>4 DEF Call, TypeOK, Locals
      <4>2. /\ FirstStep(op) \in EnableSteps => op = "enable"
            /\ FirstStep(op) \in SessionSteps =>
                 op \in {"connect", "close", "reconnect"}
            /\ FirstStep(op) \in EstopSteps => op = "estop"
            /\ FirstStep(op) \notin {"ensure", "ensure_joint"}
        BY DEF FirstStep, Operations, EnableSteps, SessionSteps, UndoSteps,
               EstopSteps
      <4>3. QED
        BY <3>1, <4>1, <4>2 DEF Origin, InEstop
    <3>2. CASE u # t
      <4>1. pc'[u] = pc[u] /\ loc'[u] = loc[u]
        BY <2>1, <2>4, <3>2 DEF Call, TypeOK
      <4>2. QED
        BY <2>1, <4>1 DEF Origin, InEstop
    <3>3. QED
      BY <3>1, <3>2
  <2>5. QED
    BY <2>1, <2>2, <2>3, <2>4 DEF Next, OtherUser, vars
<1>3. QED
  BY <1>1, <1>2, TypeCorrect, PTL DEF Spec

(* An arm in FAULT is off, whatever the other threads do to it, where the  *)
(* thread that enables it is the one that opens, closes and stops it.      *)
COROLLARY OneOperatorFaultIsOff ==
  ASSUME EnablesAlone, "disable" \notin Faults
  PROVE  Spec => []FaultPowerOff
<1>1. (\A t \in Threads : Origin(t)) => EnableApart
  <2>1. SUFFICES ASSUME \A t \in Threads : Origin(t),
                        NEW t \in Threads, NEW u \in Threads,
                        At(t, "enable_motors"),
                        pc[u] \in Returning \cup {"close_clear", "estop_force"}
                 PROVE  FALSE
    BY DEF EnableApart
  <2>2. "enable" \in Menu[t]
    BY <2>1 DEF Origin, EnableSteps, At
  <2>3. pc[u] \in SessionSteps \/ InEstop(u)
    BY <2>1 DEF Returning, SessionSteps, UndoSteps, InEstop, EstopSteps
  <2>4. Menu[u] \cap {"connect", "close", "reconnect", "estop"} # {}
    BY <2>1, <2>3 DEF Origin
  <2>5. t = u
    BY <2>2, <2>4 DEF EnablesAlone
  <2>6. QED
    BY <2>1, <2>5 DEF At, Returning
<1>2. QED
  BY <1>1, OriginInv, FaultIsOff, PTL
-----------------------------------------------------------------------------
(***************************************************************************)
(* Calls that do not overlap: one caller, or callers that wait for each    *)
(* other.                                                                  *)
(***************************************************************************)
OneAtATime == \A t, u \in Threads : pc[t] # "idle" /\ pc[u] # "idle" => t = u

(* No other thread is in a call.                                           *)
Sole(t) == \A u \in Threads \ {t} : pc[u] = "idle"

(* Only a thread in a call takes a step.                                   *)
LEMMA StepBusy ==
  ASSUME NEW t \in Threads, Step(t)
  PROVE  pc[t] # "idle"
<1> USE DEF At
<1>1. CASE Connecting(t) \/ Closing(t) \/ Powering(t)
  BY <1>1
     DEF Connecting, ConnectPrev, ConnectTransition, ConnectOpen, ConnectAdd,
         ConnectCache, ConnectRollback, Closing, CloseAbort, CloseForce,
         CloseDisable, CloseClear, CloseCache, Powering, EnableTransition,
         EnableMotors, EnableCache, DisableTransitions, DisableMotors,
         DisableCache
<1>2. CASE Moving(t) \/ Stopping(t)
  BY <1>2
     DEF Moving, Aiming, MoveJ, MoveJoint, GripperMove, MoveCartesian, Aim,
         UnknownJoint, NoGripper, Unsolvable, Refused, MotionGate, MotionRun,
         MotionCache, Waypoint, WaypointSend, RampSend, SendPoint, MotionEnd,
         MotionRestore, HomeStart, HomeRamp, Stopping, EstopAbort, EstopDamp,
         EstopDisable, EstopForce, EstopCache
<1>3. CASE Commanding(t)
  BY <1>3
     DEF Commanding, EnsureCached, EnsureJoint, ClearFaults, SetToDamping,
         Direct, DirectSend, JointCommand, ZeroCalibrate, ZeroJoint,
         WriteParam, ReadParam, GetFaults, Refused
<1>4. QED
  BY <1>1, <1>2, <1>3 DEF Step

(* A thread that takes a step is the only one in a call, before and after. *)
LEMMA StepSole ==
  ASSUME TypeOK, OneAtATime, NEW t \in Threads, Step(t)
  PROVE  Sole(t) /\ Sole(t)'
BY StepBusy, StepOthers DEF OneAtATime, Sole, Others

(* What a call that starts leaves alone.                                   *)
LEMMA CallSole ==
  ASSUME TypeOK, OneAtATime', NEW t \in Threads, NEW op \in Operations,
         Call(t, op)
  PROVE  /\ Sole(t) /\ pc[t] = "idle" /\ op \in Menu[t]
         /\ op \in OpenOnly => controller
         /\ pc'[t] = FirstStep(op) /\ pc'[t] # "idle"
         /\ loc'[t].op = op
         /\ Keeps(t, {"prev", "saved", "want", "after", "i", "left", "raised"})
         /\ UNCHANGED <<armVars, sessionVars, motorVars>>
<1>1. FirstStep(op) # "idle"
  BY DEF FirstStep, Operations
<1>2. pc'[t] = FirstStep(op) /\ \A u \in Threads \ {t} : pc'[u] = pc[u]
  BY DEF Call, TypeOK
<1>3. Sole(t)
  BY <1>1, <1>2 DEF OneAtATime, Sole
<1>4. /\ loc'[t].op = op
      /\ Keeps(t, {"prev", "saved", "want", "after", "i", "left", "raised"})
  BY DEF Call, TypeOK, Locals, Keeps
<1>5. QED
  BY <1>1, <1>2, <1>3, <1>4 DEF Call, At

-----------------------------------------------------------------------------
(* The setpoint and the mode.                                              *)

(* Operations that set the mode of one motor, and connect() on top of an   *)
(* open session, leave _current_mode wrong.                                *)
KeepsModes ==
  \A t \in Threads :
    Menu[t] \cap {"connect", "joint_vel", "joint_mit", "write_param"} = {}

OpeningSteps == {"close_cache", "connect", "connect_transition",
                 "connect_open", "connect_add", "connect_force"}

(* After ensure_mode_all(), up to the last setpoint.                       *)
Switched == Sending \cup
  {"motion_cache", "waypoint", "ramp_run", "ramp_cache", "ramp"}

(* _current_mode, unless it is None, is the mode of every motor with a     *)
(* handle.                                                                 *)
ModeKnown == curMode # NoMode => \A j \in Wired : motorMode[j] = curMode

ModePhase(t) ==
  /\ ~controller => handles = <<>>
  /\ pc[t] # "ensure_joint" => ModeKnown
  /\ pc[t] = "ensure" => loc[t].i = 1
  /\ pc[t] = "ensure_joint" =>
       \A k \in 1 .. Len(handles) :
         k < loc[t].i => motorMode[handles[k]] = loc[t].want
  /\ pc[t] \in OpeningSteps => curMode = NoMode
  /\ pc[t] \in Switched => curMode = loc[t].want /\ curMode # NoMode
  /\ pc[t] \notin {"joint", "write_param"}

(* A step that switches no motor and leads nowhere near a setpoint.        *)
LEMMA QuietModes ==
  ASSUME NEW t \in Threads, ModePhase(t), UNCHANGED <<sessionVars, motorMode>>,
         pc[t] # "ensure_joint",
         pc'[t] \notin OpeningSteps \cup {"ensure_joint", "joint", "write_param"},
         pc'[t] = "ensure" => loc'[t].i = 1,
         pc'[t] \in Switched => pc[t] \in Switched /\ loc'[t].want = loc[t].want
  PROVE  ModePhase(t)'
BY DEF ModePhase, ModeKnown, Wired, sessionVars

(* Every step of a call that overlaps no other keeps ModePhase.            *)
LEMMA ModeStep ==
  ASSUME TypeOK, WantsMode, "mode" \notin Faults, NEW t \in Threads,
         ModePhase(t), Step(t)
  PROVE  ModePhase(t)'
<1> USE DEF Lands
<1>1. CASE Connecting(t)
  <2>1. CASE ConnectAdd(t)
    <3>1. At(t, "connect_add") /\ curMode = NoMode /\ UNCHANGED <<curMode, controller>>
      BY <2>1 DEF ConnectAdd, At, ModePhase, OpeningSteps
    <3>2. pc'[t] \in {"connect_cache", "connect_force", "connect_add"}
      BY <2>1, GotoLands DEF ConnectAdd, At
    <3>3. ~controller => handles' = <<>>
      BY <2>1 DEF ConnectAdd, ModePhase
    <3>4. QED
      BY <3>1, <3>2, <3>3
         DEF ModePhase, ModeKnown, OpeningSteps, Switched, Sending
  <2>2. CASE ConnectOpen(t)
    <3>1. /\ curMode = NoMode /\ UNCHANGED <<curMode, handles, motorMode>>
          /\ controller => controller'
      BY <2>2 DEF ConnectOpen, At, ModePhase, OpeningSteps, motorVars
    <3>2. pc'[t] \in {"connect_add", "connect_force"}
      BY <2>2, GotoLands DEF ConnectOpen
    <3>3. QED
      BY <3>1, <3>2
         DEF ModePhase, ModeKnown, OpeningSteps, Switched, Sending
  <2>3. CASE ConnectPrev(t) \/ ConnectTransition(t)
    <3>1. curMode = NoMode /\ UNCHANGED <<sessionVars, motorMode>>
      BY <2>3
         DEF ConnectPrev, ConnectTransition, At, ModePhase, OpeningSteps,
             motorVars
    <3>2. pc'[t] \in {"connect_transition", "connect_open", "idle"}
      BY <2>3, GotoLands, ReturnLands, ConnectPrevLands DEF ConnectTransition
    <3>3. QED
      BY <3>1, <3>2
         DEF ModePhase, ModeKnown, OpeningSteps, Switched, Sending, sessionVars
  <2>4. CASE ConnectCache(t) \/ ConnectRollback(t)
    <3>1. UNCHANGED <<sessionVars, motorMode>> /\ pc[t] # "ensure_joint"
      BY <2>4 DEF ConnectCache, ConnectRollback, At, motorVars
    <3>2. pc'[t] \in {"connect_uncache", "idle"}
      BY <2>4, GotoLands, ReturnLands DEF ConnectCache, ConnectRollback
    <3>3. QED
      BY <3>1, <3>2, QuietModes DEF OpeningSteps, Switched, Sending
  <2>5. QED
    BY <1>1, <2>1, <2>2, <2>3, <2>4 DEF Connecting
<1>2. CASE Closing(t)
  <2>1. CASE CloseClear(t)
    <3>1. /\ handles' = <<>> /\ curMode' = NoMode /\ pc'[t] = "close_cache"
      BY <2>1, GotoLands DEF CloseClear
    <3>2. QED
      BY <3>1 DEF ModePhase, ModeKnown, OpeningSteps, Switched, Sending
  <2>2. CASE CloseCache(t)
    <3>1. curMode = NoMode /\ UNCHANGED <<sessionVars, motorMode>>
      BY <2>2 DEF CloseCache, At, ModePhase, OpeningSteps, motorVars
    <3>2. pc'[t] \in {"connect", "idle"}
      BY <2>2, GotoLands, ReturnLands DEF CloseCache
    <3>3. QED
      BY <3>1, <3>2
         DEF ModePhase, ModeKnown, OpeningSteps, Switched, Sending, sessionVars
  <2>3. CASE CloseAbort(t) \/ CloseForce(t) \/ CloseDisable(t)
    <3>1. UNCHANGED <<sessionVars, motorMode>> /\ pc[t] # "ensure_joint"
      BY <2>3 DEF CloseAbort, CloseForce, CloseDisable, At, motorVars
    <3>2. pc'[t] \in {"close_force", "close_disable", "close_clear"}
      BY <2>3, GotoLands DEF CloseAbort, CloseForce, CloseDisable
    <3>3. QED
      BY <3>1, <3>2, QuietModes DEF OpeningSteps, Switched, Sending
  <2>4. QED
    BY <1>2, <2>1, <2>2, <2>3 DEF Closing
<1>3. CASE Powering(t)
  <2>1. UNCHANGED <<sessionVars, motorMode>> /\ pc[t] # "ensure_joint"
    BY <1>3
       DEF Powering, EnableTransition, EnableMotors, EnableCache,
           DisableTransitions, DisableMotors, DisableCache, At, motorVars
  <2>2. pc'[t] \in {"enable_motors", "enable_cache", "disable_stop",
                    "disable_idle", "disable_motors", "disable_cache", "idle"}
    BY <1>3, GotoLands, ReturnLands
       DEF Powering, EnableTransition, EnableMotors, EnableCache,
           DisableTransitions, DisableMotors, DisableCache
  <2>3. QED
    BY <2>1, <2>2, QuietModes DEF OpeningSteps, Switched, Sending
<1>4. CASE Moving(t)
  <2>0. UNCHANGED <<sessionVars, motorMode>> /\ pc[t] # "ensure_joint"
    BY <1>4, AimingShape
       DEF Moving, Aiming, MoveJ, MoveJoint, GripperMove, MoveCartesian, Aim,
           UnknownJoint, NoGripper, Unsolvable, Refused, MotionGate, MotionRun,
           MotionCache, Waypoint, WaypointSend, RampSend, SendPoint, MotionEnd,
           MotionRestore, HomeStart, HomeRamp, At, motorVars
  <2>1. CASE Aiming(t) \/ MotionGate(t) \/ MotionEnd(t) \/ HomeStart(t)
    <3>1. pc'[t] \in {"move_j", "motion", "idle", "motion_clear", "motion_run",
                      "motion_enabled", "motion_uncache", "motion_restore",
                      "home_enabled", "home_cache", "home_pose"}
      BY <2>1, AimingShape, GotoLands, ReturnLands
         DEF MotionGate, MotionEnd, HomeStart
    <3>2. QED
      BY <2>0, <3>1, QuietModes DEF OpeningSteps, Switched, Sending
  <2>2. CASE MotionRun(t)
    <3>1. /\ pc'[t] \in {"motion_save", "idle", "ensure"}
          /\ pc'[t] = "ensure" => loc'[t].i = 1
      <4>1. CASE At(t, "motion_run")
        BY <2>2, <4>1, GotoLands, ReturnLands DEF MotionRun, At
      <4>2. CASE ~At(t, "motion_run")
        BY <2>2, <4>2, MotionSaveLands
      <4>3. QED
        BY <4>1, <4>2
    <3>2. QED
      BY <2>0, <3>1, QuietModes DEF OpeningSteps, Switched, Sending
  <2>3. CASE MotionCache(t) \/ Waypoint(t)
    <3>1. /\ pc[t] \in Switched /\ loc' = loc
          /\ pc'[t] \in {"waypoint", "waypoint_send", "motion_end"}
      BY <2>3, GotoLands DEF MotionCache, Waypoint, At, Switched, Sending
    <3>2. QED
      BY <2>0, <3>1, QuietModes DEF OpeningSteps
  <2>4. CASE WaypointSend(t) \/ RampSend(t)
    <3>1. /\ pc[t] \in Switched /\ loc'[t].want = loc[t].want
          /\ pc'[t] \in {"waypoint", "ramp", "motion_end"}
      <4>1. pc[t] \in {"waypoint_send", "ramp_send"}
        BY <2>4 DEF WaypointSend, RampSend, SendPoint, At
      <4>2. QED
        BY <2>4, <4>1, SendPointLands
           DEF WaypointSend, RampSend, Keeps, Switched, Sending
    <3>2. QED
      BY <2>0, <3>1, QuietModes DEF OpeningSteps
  <2>5. CASE MotionRestore(t)
    <3>1. /\ pc'[t] \in {"ensure", "idle", "home_mode"}
          /\ pc'[t] = "ensure" => loc'[t].i = 1
      BY <2>5, MotionReturnLands, EnsureLands DEF MotionRestore
    <3>2. QED
      BY <2>0, <3>1, QuietModes DEF OpeningSteps, Switched, Sending
  <2>6. CASE HomeRamp(t)
    <3>1. CASE At(t, "ramp_cache") \/ At(t, "ramp")
      <4>1. /\ pc[t] \in Switched /\ loc' = loc
            /\ pc'[t] \in {"ramp", "ramp_send", "motion_end"}
        BY <2>6, <3>1, GotoLands DEF HomeRamp, At, Switched, Sending
      <4>2. QED
        BY <2>0, <4>1, QuietModes DEF OpeningSteps
    <3>2. CASE At(t, "ramp_run") /\ ~Return(t)
      <4>1. /\ pc[t] \in Switched /\ loc'[t].want = loc[t].want
            /\ pc'[t] = "ramp_cache"
        BY <2>6, <3>2, RampStartLands DEF HomeRamp, At, Keeps, Switched, Sending
      <4>2. QED
        BY <2>0, <4>1, QuietModes DEF OpeningSteps
    <3>3. CASE At(t, "home_mode") \/ Return(t)
      <4>1. /\ pc'[t] \in {"ensure", "idle"}
            /\ pc'[t] = "ensure" => loc'[t].i = 1
        BY <2>6, <3>3, ReturnLands, EnsureLands DEF HomeRamp, At
      <4>2. QED
        BY <2>0, <4>1, QuietModes DEF OpeningSteps, Switched, Sending
    <3>4. QED
      BY <2>6, <3>1, <3>2, <3>3 DEF HomeRamp
  <2>7. QED
    BY <1>4, <2>1, <2>2, <2>3, <2>4, <2>5, <2>6 DEF Moving
<1>5. CASE Stopping(t)
  <2>1. UNCHANGED <<sessionVars, motorMode>> /\ pc[t] # "ensure_joint"
    BY <1>5
       DEF Stopping, EstopAbort, EstopDamp, EstopDisable, EstopForce,
           EstopCache, At, motorVars
  <2>2. /\ pc'[t] \in {"estop_pose", "ensure", "estop_disable", "estop_force",
                       "estop_cache", "idle"}
        /\ pc'[t] = "ensure" => loc'[t].i = 1
    BY <1>5, GotoLands, ReturnLands, EnsureLands
       DEF Stopping, EstopAbort, EstopDamp, EstopDisable, EstopForce, EstopCache
  <2>3. QED
    BY <2>1, <2>2, QuietModes DEF OpeningSteps, Switched, Sending
<1>6. CASE Commanding(t)
  <2>1. CASE EnsureCached(t)
    <3>1. /\ pc[t] = "ensure" /\ ModeKnown /\ UNCHANGED <<sessionVars, motorVars>>
          /\ ~controller => handles = <<>>
      BY <2>1 DEF EnsureCached, At, ModePhase
    <3>2. loc[t].after \in Continuations /\ loc[t].want \in Modes
      BY <3>1, LocalsTyped DEF WantsMode
    <3>3. CASE curMode = loc[t].want
      <4>1. pc'[t] = loc[t].after /\ loc' = loc
        BY <2>1, <3>3, GotoLands DEF EnsureCached
      <4>2. pc'[t] \notin OpeningSteps \cup {"ensure", "ensure_joint", "joint",
                                            "write_param"}
        BY <3>2, <4>1 DEF Continuations, OpeningSteps
      <4>3. curMode # NoMode
        BY <3>2, <3>3 DEF Modes, NoMode
      <4>4. ModeKnown'
        BY <3>1 DEF ModeKnown, Wired, sessionVars, motorVars
      <4>5. QED
        BY <3>1, <3>3, <4>1, <4>2, <4>3, <4>4 DEF ModePhase, sessionVars
    <3>4. CASE curMode # loc[t].want
      <4>1. pc'[t] = "ensure_joint" /\ loc' = loc
        BY <2>1, <3>4, GotoLands DEF EnsureCached
      <4>2. loc[t].i = 1
        BY <3>1 DEF ModePhase
      <4>3. QED
        BY <3>1, <4>1, <4>2
           DEF ModePhase, OpeningSteps, Switched, Sending, sessionVars
    <3>5. QED
      BY <3>3, <3>4
  <2>2. CASE EnsureJoint(t)
    <3>1. /\ pc[t] = "ensure_joint" /\ UNCHANGED <<controller, handles>>
          /\ ~controller => handles = <<>>
          /\ \A k \in 1 .. Len(handles) :
               k < loc[t].i => motorMode[handles[k]] = loc[t].want
      BY <2>2 DEF EnsureJoint, At, ModePhase
    <3>2. /\ loc[t].after \in Continuations /\ loc[t].want \in Modes
          /\ loc[t].i \in Nat \ {0}
      BY <3>1, LocalsTyped DEF WantsMode, Positive
    <3>3. CASE /\ loc[t].i <= Len(handles)
               /\ motorMode' = [motorMode EXCEPT ![handles[loc[t].i]] = loc[t].want]
               /\ loc' = [loc EXCEPT ![t].i = @ + 1] /\ UNCHANGED pc
      <4>1. /\ pc'[t] = "ensure_joint" /\ loc'[t].i = loc[t].i + 1
            /\ loc'[t].want = loc[t].want
        BY <3>1, <3>3, AdvanceLands DEF Keeps
      <4>2. ASSUME NEW k \in 1 .. Len(handles), k < loc[t].i + 1
            PROVE  motorMode'[handles[k]] = loc[t].want
        <5>1. handles[k] \in Joints /\ handles[loc[t].i] \in Joints
          BY <3>2, <3>3 DEF TypeOK
        <5>2. CASE handles[k] = handles[loc[t].i]
          BY <3>3, <5>1, <5>2 DEF TypeOK
        <5>3. CASE handles[k] # handles[loc[t].i]
          <6>1. k < loc[t].i
            BY <3>2, <4>2, <5>3
          <6>2. motorMode[handles[k]] = loc[t].want
            BY <3>1, <6>1
          <6>3. QED
            BY <3>3, <5>1, <5>3, <6>2 DEF TypeOK
        <5>4. QED
          BY <5>2, <5>3
      <4>3. QED
        BY <3>1, <4>1, <4>2 DEF ModePhase, OpeningSteps, Switched, Sending
    <3>4. CASE /\ loc[t].i > Len(handles) /\ curMode' = loc[t].want
               /\ Goto(t, loc[t].after) /\ UNCHANGED motorMode
      <4>1. pc'[t] = loc[t].after /\ loc' = loc
        BY <3>4, GotoLands
      <4>2. \A j \in Wired : motorMode[j] = loc[t].want
        <5>1. Len(handles) \in Nat
          BY DEF TypeOK
        <5>2. QED
          BY <3>1, <3>2, <3>4, <5>1 DEF Wired
      <4>3. QED
        BY <3>1, <3>2, <3>4, <4>1, <4>2
           DEF ModePhase, ModeKnown, Wired, Continuations, OpeningSteps,
               Modes, NoMode
    <3>5. QED
      BY <2>2, <3>3, <3>4 DEF EnsureJoint, Fails
  <2>3. CASE SetToDamping(t) \/ Direct(t) \/ DirectSend(t)
    <3>1. UNCHANGED <<sessionVars, motorMode>> /\ pc[t] # "ensure_joint"
      BY <2>3 DEF SetToDamping, Direct, DirectSend, At, motorVars
    <3>2. /\ pc'[t] \in {"ensure", "damp_cache", "idle"}
          /\ pc'[t] = "ensure" => loc'[t].i = 1
      BY <2>3, GotoLands, ReturnLands, EnsureLands
         DEF SetToDamping, Direct, DirectSend
    <3>3. QED
      BY <3>1, <3>2, QuietModes DEF OpeningSteps, Switched, Sending
  <2>4. CASE \/ ClearFaults(t) \/ ZeroCalibrate(t) \/ ZeroJoint(t)
             \/ ReadParam(t) \/ GetFaults(t)
    <3>1. UNCHANGED <<sessionVars, motorMode>> /\ pc[t] # "ensure_joint"
      BY <2>4
         DEF ClearFaults, ZeroCalibrate, ZeroJoint, ReadParam, GetFaults,
             Refused, At, motorVars
    <3>2. pc'[t] \in {"zero", "idle"}
      BY <2>4, ReturnLands
         DEF ClearFaults, ZeroCalibrate, ZeroJoint, ReadParam, GetFaults,
             Refused, At
    <3>3. QED
      BY <3>1, <3>2, QuietModes DEF OpeningSteps, Switched, Sending
  <2>5. ~JointCommand(t) /\ ~WriteParam(t)
    BY DEF JointCommand, WriteParam, At, ModePhase
  <2>6. QED
    BY <1>6, <2>1, <2>2, <2>3, <2>4, <2>5 DEF Commanding
<1>7. QED
  BY <1>1, <1>2, <1>3, <1>4, <1>5, <1>6 DEF Step

(* Every setpoint goes to motors that are in the mode it is meant for: for *)
(* any callers that do not overlap, any failure but a failing mode switch, *)
(* and operations that do not set the mode of one motor (session.py:162).  *)
THEOREM SetpointsMeetModes ==
  ASSUME "mode" \notin Faults, KeepsModes
  PROVE  Spec /\ []OneAtATime => []SetpointMeetsMode
<1> DEFINE Inv == \A t \in Threads : Sole(t) => ModePhase(t)
<1>1. Init => Inv
  BY DEF Init, Sole, ModePhase, ModeKnown, OpeningSteps, Switched, Sending
<1>2. /\ TypeOK /\ WantsMode /\ OneAtATime /\ OneAtATime' /\ Inv
      /\ [Next]_vars
      => Inv'
  <2>1. SUFFICES ASSUME TypeOK, WantsMode, OneAtATime, OneAtATime', Inv,
                        [Next]_vars, NEW u \in Threads, Sole(u)'
                 PROVE  ModePhase(u)'
    OBVIOUS
  <2>2. CASE UNCHANGED vars
    BY <2>1, <2>2
       DEF vars, sessionVars, motorVars, Sole, ModePhase, ModeKnown, Wired
  <2>3. ASSUME NEW t \in Threads, Step(t)
        PROVE  ModePhase(u)'
    <3>1. ModePhase(t)'
      BY <2>1, <2>3, StepSole, ModeStep
    <3>2. CASE u # t
      <4>1. pc'[u] = "idle" /\ pc'[t] = "idle"
        BY <2>1, <2>3, <3>2, StepSole DEF Sole
      <4>2. QED
        BY <3>1, <4>1 DEF ModePhase, OpeningSteps, Switched, Sending
    <3>3. QED
      BY <3>1, <3>2
  <2>4. ASSUME NEW t \in Threads, NEW op \in Operations, Call(t, op)
        PROVE  ModePhase(u)'
    <3>1. u = t
      BY <2>1, <2>4, CallSole DEF Sole
    <3>2. /\ ModePhase(t) /\ pc[t] = "idle" /\ UNCHANGED <<sessionVars, motorVars>>
          /\ pc'[t] = FirstStep(op)
      BY <2>1, <2>4, CallSole
    <3>3. op \notin {"connect", "joint_vel", "joint_mit", "write_param"}
      BY <2>4, CallSole, <2>1 DEF KeepsModes
    <3>4. FirstStep(op) \notin OpeningSteps \cup Switched \cup
            {"ensure", "ensure_joint", "joint", "write_param"}
      BY <3>3 DEF FirstStep, Operations, OpeningSteps, Switched, Sending
    <3>5. QED
      BY <3>1, <3>2, <3>4, QuietModes DEF motorVars
  <2>5. CASE OtherUser
    <3>1. Sole(u) /\ pc' = pc /\ loc' = loc /\ UNCHANGED sessionVars
      BY <2>1, <2>5 DEF OtherUser, Sole
    <3>2. ~controller /\ handles = <<>>
      BY <2>1, <2>5, <3>1 DEF OtherUser, ModePhase
    <3>3. QED
      BY <2>1, <3>1, <3>2 DEF ModePhase, ModeKnown, Wired, sessionVars
  <2>6. QED
    BY <2>1, <2>2, <2>3, <2>4, <2>5 DEF Next
<1>3. TypeOK /\ OneAtATime /\ Inv => SetpointMeetsMode
  <2>1. SUFFICES ASSUME OneAtATime, Inv, NEW t \in Threads, pc[t] \in Sending
                 PROVE  \A j \in Wired : motorMode[j] = loc[t].want
    BY DEF SetpointMeetsMode
  <2>2. Sole(t)
    BY <2>1 DEF OneAtATime, Sole, Sending
  <2>3. QED
    BY <2>1, <2>2 DEF ModePhase, ModeKnown, Switched, Sending
<1>4. QED
  BY <1>1, <1>2, <1>3, TypeCorrect, PTL DEF Spec

-----------------------------------------------------------------------------
(* The session and the run state.                                          *)

(* connect() is called only as the second half of reconnect(), which drops *)
(* the handles first, and estop() only on an open session: connect() on    *)
(* top of a session appends the handles a second time, and an estop()      *)
(* forces even a disconnected arm to FAULT.                                *)
FreshSessions ==
  /\ \A t \in Threads : "connect" \notin Menu[t]
  /\ "estop" \in OpenOnly

(* A call that has returned leaves nothing behind.                         *)
IdleIsBlank ==
  \A t \in Threads :
    /\ pc[t] = "idle" => loc[t] = NoCall
    /\ pc[t] \in {"ensure", "ensure_joint"} => loc[t].after # "idle"

(* Where thread t is idle, or about to switch modes, after a step.         *)
LEMMA BlankGoes ==
  ASSUME TypeOK, IdleIsBlank, NEW t \in Threads, Step(t)
  PROVE  /\ pc'[t] = "idle" => loc'[t] = NoCall
         /\ pc'[t] \in {"ensure", "ensure_joint"} => loc'[t].after # "idle"
<1> USE DEF Lands
<1>1. CASE Connecting(t)
  <2>1. CASE ConnectPrev(t)
    BY <2>1, ConnectPrevLands
  <2>2. CASE ConnectAdd(t)
    BY <2>2, GotoLands, AdvanceLands DEF ConnectAdd, At
  <2>3. CASE ~ConnectPrev(t) /\ ~ConnectAdd(t)
    BY <1>1, <2>3, GotoLands, ReturnLands
       DEF Connecting, ConnectTransition, ConnectOpen, ConnectCache,
           ConnectRollback
  <2>4. QED
    BY <2>1, <2>2, <2>3
<1>2. CASE Closing(t)
  BY <1>2, GotoLands, ReturnLands
     DEF Closing, CloseAbort, CloseForce, CloseDisable, CloseClear, CloseCache
<1>3. CASE Powering(t)
  BY <1>3, GotoLands, ReturnLands
     DEF Powering, EnableTransition, EnableMotors, EnableCache,
         DisableTransitions, DisableMotors, DisableCache
<1>4. CASE Moving(t)
  <2>1. CASE Aiming(t) \/ MotionGate(t) \/ MotionCache(t) \/ Waypoint(t)
             \/ MotionEnd(t) \/ HomeStart(t)
    BY <2>1, AimingShape, GotoLands, ReturnLands
       DEF MotionGate, MotionCache, Waypoint, MotionEnd, HomeStart
  <2>2. CASE MotionRun(t)
    <3>1. CASE At(t, "motion_run")
      BY <2>2, <3>1, GotoLands, ReturnLands DEF MotionRun, At
    <3>2. CASE ~At(t, "motion_run")
      BY <2>2, <3>2, MotionSaveLands
    <3>3. QED
      BY <3>1, <3>2
  <2>3. CASE WaypointSend(t) \/ RampSend(t)
    <3>1. pc'[t] \in {"waypoint", "ramp", "motion_end"}
      BY <2>3, SendPointLands DEF WaypointSend, RampSend
    <3>2. QED
      BY <3>1
  <2>4. CASE MotionRestore(t)
    <3>1. CASE MotionReturn(t)
      BY <3>1, MotionReturnLands
    <3>2. CASE EnsureMode(t, loc[t].saved, "motion_recache")
      BY <3>2, EnsureLands
    <3>3. QED
      BY <2>4, <3>1, <3>2 DEF MotionRestore
  <2>5. CASE HomeRamp(t)
    <3>1. CASE Return(t)
      BY <3>1, ReturnLands
    <3>2. CASE At(t, "home_mode") /\ ~Return(t)
      BY <2>5, <3>2, EnsureLands DEF HomeRamp, At
    <3>3. CASE At(t, "ramp_run") /\ ~Return(t)
      BY <2>5, <3>3, RampStartLands DEF HomeRamp, At
    <3>4. CASE At(t, "ramp_cache") \/ At(t, "ramp")
      <4>1. pc'[t] \in {"ramp", "ramp_send", "motion_end"}
        BY <2>5, <3>4, GotoLands DEF HomeRamp, At
      <4>2. QED
        BY <4>1
    <3>5. QED
      BY <2>5, <3>1, <3>2, <3>3, <3>4 DEF HomeRamp
  <2>6. QED
    BY <1>4, <2>1, <2>2, <2>3, <2>4, <2>5 DEF Moving
<1>5. CASE Stopping(t)
  BY <1>5, GotoLands, ReturnLands, EnsureLands
     DEF Stopping, EstopAbort, EstopDamp, EstopDisable, EstopForce, EstopCache
<1>6. CASE Commanding(t)
  <2>1. CASE EnsureCached(t) \/ EnsureJoint(t)
    <3>1. /\ pc[t] \in {"ensure", "ensure_joint"}
          /\ loc[t].after \in Continuations /\ loc[t].after # "idle"
      BY <2>1, LocalsTyped DEF EnsureCached, EnsureJoint, At, IdleIsBlank
    <3>2. loc[t].after \notin {"ensure", "ensure_joint"}
      BY <3>1 DEF Continuations
    <3>3. QED
      BY <2>1, <3>1, <3>2, GotoLands, ReturnLands, AdvanceLands
         DEF EnsureCached, EnsureJoint, At, Keeps
  <2>2. CASE ZeroCalibrate(t)
    BY <2>2, ReturnLands, AdvanceLands DEF ZeroCalibrate, At
  <2>3. CASE ~(EnsureCached(t) \/ EnsureJoint(t) \/ ZeroCalibrate(t))
    BY <1>6, <2>3, GotoLands, ReturnLands, EnsureLands
       DEF Commanding, ClearFaults, SetToDamping, Direct, DirectSend,
           JointCommand, ZeroJoint, WriteParam, ReadParam, GetFaults, Refused
  <2>4. QED
    BY <2>1, <2>2, <2>3
<1>7. QED
  BY <1>1, <1>2, <1>3, <1>4, <1>5, <1>6 DEF Step

(* Every step of a call leaves an idle thread blank.                       *)
LEMMA BlankStep ==
  ASSUME TypeOK, IdleIsBlank, NEW t \in Threads, Step(t)
  PROVE  IdleIsBlank'
BY BlankGoes, StepOthers DEF IdleIsBlank, Others

(* An idle thread is blank, however the calls interleave.                  *)
LEMMA BlankInv == Spec => []IdleIsBlank
<1>1. Init => IdleIsBlank
  BY DEF Init, IdleIsBlank
<1>2. TypeOK /\ IdleIsBlank /\ [Next]_vars => IdleIsBlank'
  <2>1. SUFFICES ASSUME TypeOK, IdleIsBlank, [Next]_vars
                 PROVE  IdleIsBlank'
    OBVIOUS
  <2>2. CASE UNCHANGED vars
    BY <2>1, <2>2 DEF vars, IdleIsBlank
  <2>3. ASSUME NEW t \in Threads, Step(t)
        PROVE  IdleIsBlank'
    BY <2>1, <2>3, BlankStep
  <2>4. ASSUME NEW t \in Threads, NEW op \in Operations, Call(t, op)
        PROVE  IdleIsBlank'
    <3>1. FirstStep(op) \notin {"idle", "ensure", "ensure_joint"}
      BY DEF FirstStep, Operations
    <3>2. QED
      BY <2>1, <2>4, <3>1 DEF Call, TypeOK, IdleIsBlank
  <2>5. CASE OtherUser
    BY <2>1, <2>5 DEF OtherUser, IdleIsBlank
  <2>6. QED
    BY <2>1, <2>2, <2>3, <2>4, <2>5 DEF Next
<1>3. QED
  BY <1>1, <1>2, TypeCorrect, PTL DEF Spec

AddFails == "add" \in Faults

Opened == controller /\ (AddFails \/ handles = [j \in Joints |-> j])
Closed == ~controller /\ handles = <<>>

(* Outside connect() and close() the session and the run state agree; an   *)
(* add_joint() that fails leaves the session half open for good.           *)
Settled == IF run = "DISCONNECTED" THEN AddFails \/ Closed ELSE Opened

Unsettled == {"close_disable", "close_clear", "connect_open", "connect_add",
              "connect_force"}

(* Between close()'s force of DISCONNECTED and connect()'s transition.     *)
Down == {"close_disable", "close_clear", "close_cache", "connect",
         "connect_transition"}

(* Thread t, alone in a call, and the session.                             *)
SessionPhase(t) ==
  /\ pc[t] \notin Unsettled => Settled
  /\ pc[t] \in Down \cup {"connect_uncache"} => run = "DISCONNECTED"
  /\ pc[t] \in {"connect_open", "connect_add", "connect_force",
                "connect_cache"} => run = "IDLE"
  /\ pc[t] \in {"close_cache", "connect", "connect_transition",
                "connect_open"} => Closed
  /\ pc[t] = "connect_add" =>
       /\ controller /\ loc[t].i \in 1 .. NumJoints + 1
       /\ handles = [j \in 1 .. loc[t].i - 1 |-> j]
  /\ pc[t] = "connect_force" => AddFails \/ Closed
  /\ pc[t] \in {"connect_transition", "connect_open", "connect_add",
                "connect_force", "connect_uncache"} =>
       loc[t].prev = "DISCONNECTED"
  /\ pc[t] \in Down \cup {"idle", "close", "close_force", "connect_open"} =>
       loc[t].i = 1
  /\ pc[t] = "disable_idle" => run # "DISCONNECTED"
  /\ InEstop(t) => controller

(* A step outside connect() and close() that keeps the session.            *)
LEMMA QuietSession ==
  ASSUME NEW t \in Threads, SessionPhase(t), pc[t] \notin Unsettled,
         UNCHANGED <<controller, handles>>,
         run' = "DISCONNECTED" <=> run = "DISCONNECTED",
         pc'[t] \notin SessionSteps \cup {"disable_idle"},
         pc'[t] = "idle" => loc'[t].i = 1,
         InEstop(t)' => InEstop(t)
  PROVE  SessionPhase(t)'
BY DEF SessionPhase, Settled, Opened, Closed, SessionSteps, UndoSteps, Down,
       Unsettled

(* connect() and close() keep SessionPhase.                                *)
LEMMA ConnectingSession ==
  ASSUME TypeOK, NEW t \in Threads, SessionPhase(t), Connecting(t)
  PROVE  SessionPhase(t)'
<1> USE DEF Lands
<1>1. CASE ConnectPrev(t)
  <2>1. /\ pc[t] = "connect" /\ UNCHANGED <<run, controller, handles>>
        /\ pc'[t] = "connect_transition" /\ loc'[t].prev = run
        /\ loc'[t].i = loc[t].i
    BY <1>1, ConnectPrevLands
       DEF ConnectPrev, At, Keeps, armVars, sessionVars
  <2>2. QED
    BY <2>1
       DEF SessionPhase, Settled, Closed, Unsettled, Down, InEstop, EstopSteps
<1>2. CASE ConnectTransition(t)
  <2>1. /\ pc[t] = "connect_transition" /\ UNCHANGED <<controller, handles>>
        /\ run = "DISCONNECTED" /\ Closed /\ loc[t].i = 1
        /\ loc[t].prev = "DISCONNECTED"
    BY <1>2
       DEF ConnectTransition, At, sessionVars, SessionPhase, Down
  <2>2. pc'[t] = "connect_open" /\ loc' = loc /\ run' = "IDLE"
    BY <1>2, <2>1, GotoLands
       DEF ConnectTransition, Runtime!Transition, Runtime!Accepts,
           Runtime!Allowed
  <2>3. QED
    BY <2>1, <2>2
       DEF SessionPhase, Closed, Unsettled, Down, InEstop, EstopSteps
<1>3. CASE ConnectOpen(t)
  <2>1. /\ pc[t] = "connect_open" /\ UNCHANGED <<run, handles>>
        /\ run = "IDLE" /\ Closed /\ loc[t].i = 1
        /\ loc[t].prev = "DISCONNECTED"
    BY <1>3 DEF ConnectOpen, At, armVars, SessionPhase
  <2>2. /\ loc' = loc
        /\ \/ pc'[t] = "connect_add" /\ controller'
           \/ pc'[t] = "connect_force" /\ ~controller'
    BY <1>3, <2>1, GotoLands DEF ConnectOpen, Closed
  <2>3. handles = [j \in 1 .. 1 - 1 |-> j] /\ 1 \in 1 .. NumJoints + 1
    BY <2>1, ConstantsAssumption DEF Closed
  <2>4. QED
    BY <2>1, <2>2, <2>3
       DEF SessionPhase, Closed, Unsettled, Down, InEstop, EstopSteps
<1>4. CASE ConnectAdd(t)
  <2>1. /\ pc[t] = "connect_add" /\ UNCHANGED <<run, controller>>
        /\ run = "IDLE" /\ controller /\ loc[t].prev = "DISCONNECTED"
        /\ loc[t].i \in 1 .. NumJoints + 1
        /\ handles = [j \in 1 .. loc[t].i - 1 |-> j]
    BY <1>4 DEF ConnectAdd, At, armVars, SessionPhase
  <2>2. NumJoints \in Nat
    BY ConstantsAssumption
  <2>3. CASE loc[t].i > NumJoints /\ Goto(t, "connect_cache") /\ UNCHANGED handles
    <3>1. loc[t].i - 1 = NumJoints
      BY <2>1, <2>2, <2>3
    <3>2. handles = [j \in Joints |-> j]
      BY <2>1, <3>1 DEF Joints
    <3>3. pc'[t] = "connect_cache" /\ loc' = loc
      BY <2>3, GotoLands
    <3>4. QED
      BY <2>1, <2>3, <3>2, <3>3
         DEF SessionPhase, Settled, Opened, Unsettled, Down, InEstop,
             EstopSteps
  <2>4. CASE /\ loc[t].i <= NumJoints
             /\ handles' = Append(handles, loc[t].i)
             /\ loc' = [loc EXCEPT ![t].i = @ + 1] /\ UNCHANGED pc
    <3>1. /\ pc'[t] = "connect_add" /\ loc'[t].i = loc[t].i + 1
          /\ loc'[t].prev = loc[t].prev
      BY <2>1, <2>4, AdvanceLands DEF Keeps
    <3>2. loc[t].i + 1 \in 1 .. NumJoints + 1
      BY <2>1, <2>2, <2>4
    <3>3. handles' = [j \in 1 .. (loc[t].i + 1) - 1 |-> j]
      <4>1. handles \in Seq(Joints) /\ Len(handles) = loc[t].i - 1
        BY <2>1, <2>2 DEF TypeOK
      <4>2. loc[t].i \in Joints
        BY <2>1, <2>2, <2>4 DEF Joints
      <4>3. handles' \in Seq(Joints) /\ Len(handles') = loc[t].i
        BY <2>1, <2>4, <4>1, <4>2
      <4>4. \A j \in 1 .. loc[t].i : handles'[j] = j
        BY <2>1, <2>2, <2>4, <4>1, <4>2
      <4>5. handles' = [j \in 1 .. loc[t].i |-> handles'[j]]
        BY <4>3
      <4>6. (loc[t].i + 1) - 1 = loc[t].i
        BY <2>1, <2>2
      <4>7. QED
        BY <4>4, <4>5, <4>6
    <3>4. QED
      BY <2>1, <3>1, <3>2, <3>3
         DEF SessionPhase, Unsettled, Down, InEstop, EstopSteps
  <2>5. CASE /\ Fails("add") \/ ~controller
             /\ Goto(t, "connect_force") /\ UNCHANGED handles
    <3>1. pc'[t] = "connect_force" /\ loc' = loc /\ AddFails
      BY <2>1, <2>5, GotoLands DEF Fails, AddFails
    <3>2. QED
      BY <2>1, <3>1 DEF SessionPhase, Unsettled, Down, InEstop, EstopSteps
  <2>6. QED
    BY <1>4, <2>3, <2>4, <2>5 DEF ConnectAdd
<1>5. CASE ConnectCache(t)
  <2>1. /\ pc[t] = "connect_cache" /\ UNCHANGED <<run, controller, handles>>
        /\ pc'[t] = "idle" /\ loc'[t].i = 1
    BY <1>5, ReturnLands DEF ConnectCache, At, NoCall, sessionVars
  <2>2. QED
    BY <2>1, QuietSession
       DEF Unsettled, SessionSteps, UndoSteps, InEstop, EstopSteps
<1>6. CASE ConnectRollback(t)
  <2>1. CASE At(t, "connect_force")
    <3>1. /\ pc[t] = "connect_force" /\ UNCHANGED <<controller, handles>>
          /\ loc[t].prev = "DISCONNECTED" /\ (AddFails \/ Closed)
      BY <1>6, <2>1 DEF ConnectRollback, At, sessionVars, SessionPhase
    <3>2. pc'[t] = "connect_uncache" /\ loc' = loc /\ run' = "DISCONNECTED"
      BY <1>6, <2>1, <3>1, GotoLands DEF ConnectRollback, At, Runtime!Force
    <3>3. QED
      BY <3>1, <3>2
         DEF SessionPhase, Settled, Closed, Unsettled, Down, InEstop, EstopSteps
  <2>2. CASE At(t, "connect_uncache")
    <3>1. /\ pc[t] = "connect_uncache" /\ UNCHANGED <<run, controller, handles>>
          /\ pc'[t] = "idle" /\ loc'[t].i = 1
      BY <1>6, <2>2, ReturnLands DEF ConnectRollback, At, NoCall, sessionVars
    <3>2. QED
      BY <3>1, QuietSession
         DEF Unsettled, SessionSteps, UndoSteps, InEstop, EstopSteps
  <2>3. QED
    BY <1>6, <2>1, <2>2 DEF ConnectRollback
<1>7. QED
  BY <1>1, <1>2, <1>3, <1>4, <1>5, <1>6 DEF Connecting

(* close(), and the first half of reconnect(), keep SessionPhase.          *)
LEMMA ClosingSession ==
  ASSUME TypeOK, NEW t \in Threads, SessionPhase(t), Closing(t)
  PROVE  SessionPhase(t)'
<1> USE DEF Lands
<1>1. CASE CloseAbort(t)
  <2>1. /\ pc[t] = "close" /\ UNCHANGED <<run, controller, handles>>
        /\ pc'[t] = "close_force" /\ loc' = loc
    BY <1>1, GotoLands DEF CloseAbort, At, sessionVars
  <2>2. QED
    BY <2>1
       DEF SessionPhase, Settled, Opened, Closed, Unsettled, Down, InEstop,
           EstopSteps
<1>2. CASE CloseForce(t)
  <2>1. /\ pc[t] = "close_force" /\ run' = "DISCONNECTED"
        /\ pc'[t] = "close_disable" /\ loc' = loc
    BY <1>2, GotoLands DEF CloseForce, At, Runtime!Force
  <2>2. QED
    BY <2>1 DEF SessionPhase, Unsettled, Down, InEstop, EstopSteps
<1>3. CASE CloseDisable(t)
  <2>1. /\ pc[t] = "close_disable" /\ UNCHANGED run
        /\ pc'[t] = "close_clear" /\ loc' = loc
    BY <1>3, GotoLands DEF CloseDisable, At, armVars
  <2>2. QED
    BY <2>1 DEF SessionPhase, Unsettled, Down, InEstop, EstopSteps
<1>4. CASE CloseClear(t)
  <2>1. /\ pc[t] = "close_clear" /\ UNCHANGED run
        /\ ~controller' /\ handles' = <<>>
        /\ pc'[t] = "close_cache" /\ loc' = loc
    BY <1>4, GotoLands DEF CloseClear, At, armVars
  <2>2. QED
    BY <2>1
       DEF SessionPhase, Settled, Closed, Unsettled, Down, InEstop, EstopSteps
<1>5. CASE CloseCache(t)
  <2>1. pc[t] = "close_cache" /\ UNCHANGED <<run, controller, handles>>
    BY <1>5 DEF CloseCache, At, sessionVars
  <2>2. \/ pc'[t] = "connect" /\ loc' = loc
        \/ pc'[t] = "idle" /\ loc'[t].i = 1
    BY <1>5, GotoLands, ReturnLands DEF CloseCache, NoCall
  <2>3. QED
    BY <2>1, <2>2
       DEF SessionPhase, Settled, Closed, Unsettled, Down, InEstop, EstopSteps
<1>6. QED
  BY <1>1, <1>2, <1>3, <1>4, <1>5 DEF Closing

(* Where the step of a motion leads, unless to a mode switch or back to    *)
(* the caller.                                                             *)
MovingSteps == {"move_j", "motion", "motion_clear", "motion_run",
  "motion_save", "waypoint", "waypoint_send", "motion_end", "motion_enabled",
  "motion_uncache", "motion_restore", "home_enabled", "home_cache",
  "home_pose", "home_mode", "ramp_cache", "ramp", "ramp_send"}

(* Every step of a motion leads to one of these.                           *)
LEMMA MovingLands ==
  ASSUME TypeOK, NEW t \in Threads, Moving(t)
  PROVE  \/ pc'[t] \in MovingSteps \cup {"idle"}
         \/ /\ pc'[t] = "ensure"
            /\ loc'[t].after \in {"motion_cache", "motion_recache", "ramp_run"}
<1> USE DEF Lands, MovingSteps
<1>1. CASE Aiming(t) \/ MotionGate(t) \/ MotionCache(t) \/ Waypoint(t)
           \/ MotionEnd(t) \/ HomeStart(t)
  BY <1>1, AimingShape, GotoLands, ReturnLands
     DEF MotionGate, MotionCache, Waypoint, MotionEnd, HomeStart
<1>2. CASE MotionRun(t)
  <2>1. CASE At(t, "motion_run")
    BY <1>2, <2>1, GotoLands, ReturnLands DEF MotionRun, At
  <2>2. CASE ~At(t, "motion_run")
    BY <1>2, <2>2, MotionSaveLands
  <2>3. QED
    BY <2>1, <2>2
<1>3. CASE WaypointSend(t) \/ RampSend(t)
  <2>1. pc'[t] \in {"waypoint", "ramp", "motion_end"}
    BY <1>3, SendPointLands DEF WaypointSend, RampSend
  <2>2. QED
    BY <2>1
<1>4. CASE MotionRestore(t)
  <2>1. CASE MotionReturn(t)
    BY <2>1, MotionReturnLands
  <2>2. CASE EnsureMode(t, loc[t].saved, "motion_recache")
    BY <2>2, EnsureLands
  <2>3. QED
    BY <1>4, <2>1, <2>2 DEF MotionRestore
<1>5. CASE HomeRamp(t)
  <2>1. CASE Return(t)
    BY <2>1, ReturnLands
  <2>2. CASE At(t, "home_mode") /\ ~Return(t)
    BY <1>5, <2>2, EnsureLands DEF HomeRamp, At
  <2>3. CASE At(t, "ramp_run") /\ ~Return(t)
    BY <1>5, <2>3, RampStartLands DEF HomeRamp, At
  <2>4. CASE At(t, "ramp_cache") \/ At(t, "ramp")
    <3>1. pc'[t] \in {"ramp", "ramp_send", "motion_end"}
      BY <1>5, <2>4, GotoLands DEF HomeRamp, At
    <3>2. QED
      BY <3>1
  <2>5. QED
    BY <1>5, <2>1, <2>2, <2>3, <2>4 DEF HomeRamp
<1>6. QED
  BY <1>1, <1>2, <1>3, <1>4, <1>5 DEF Moving

(* Where another command leads: the mode switch to its continuation, or,   *)
(* when a motor refuses it, into the except branch of its caller.          *)
LEMMA CommandingLands ==
  ASSUME TypeOK, NEW t \in Threads, Commanding(t)
  PROVE  /\ pc[t] \in {"ensure", "ensure_joint"} =>
              \/ /\ pc'[t] \in {"ensure_joint", loc[t].after}
                 /\ loc'[t].after = loc[t].after
              \/ /\ "mode" \in Faults
                 /\ \/ pc'[t] = "idle"
                    \/ pc'[t] = "estop_disable" /\ loc[t].after = "estop_damp"
                    \/ /\ pc'[t] = "motion_recache"
                       /\ loc[t].after = "motion_recache"
         /\ pc[t] \notin {"ensure", "ensure_joint"} =>
              \/ pc'[t] \in {"idle", "damp_cache", "zero"}
              \/ /\ pc'[t] = "ensure"
                 /\ loc'[t].after \in {"damp_send", "direct_send"}
<1> USE DEF Lands
<1>1. CASE EnsureCached(t)
  BY <1>1, GotoLands DEF EnsureCached, At
<1>2. CASE EnsureJoint(t)
  <2>1. pc[t] = "ensure_joint"
    BY <1>2 DEF EnsureJoint, At
  <2>2. CASE loc' = [loc EXCEPT ![t].i = @ + 1] /\ UNCHANGED pc
    BY <2>1, <2>2, AdvanceLands DEF Keeps
  <2>3. CASE Goto(t, loc[t].after)
    BY <2>1, <2>3, GotoLands
  <2>4. CASE /\ Fails("mode")
             /\ CASE loc[t].after = "motion_recache" -> Goto(t, "motion_recache")
                  [] loc[t].after = "estop_damp"     -> Goto(t, "estop_disable")
                  [] OTHER                           -> Return(t)
    BY <2>1, <2>4, GotoLands, ReturnLands DEF Fails
  <2>5. QED
    BY <1>2, <2>2, <2>3, <2>4 DEF EnsureJoint
<1>3. CASE SetToDamping(t) \/ Direct(t)
  <2>1. pc[t] \notin {"ensure", "ensure_joint"}
    BY <1>3 DEF SetToDamping, Direct, At
  <2>2. QED
    BY <1>3, <2>1, GotoLands, ReturnLands, EnsureLands DEF SetToDamping, Direct
<1>4. CASE ZeroCalibrate(t)
  BY <1>4, ReturnLands, AdvanceLands DEF ZeroCalibrate, At
<1>5. CASE ~(\/ EnsureCached(t) \/ EnsureJoint(t) \/ SetToDamping(t)
             \/ Direct(t) \/ ZeroCalibrate(t))
  BY <1>5, ReturnLands
     DEF Commanding, ClearFaults, DirectSend, JointCommand, ZeroJoint,
         WriteParam, ReadParam, GetFaults, Refused, At
<1>6. QED
  BY <1>1, <1>2, <1>3, <1>4, <1>5

(* The other steps keep SessionPhase.                                      *)
LEMMA SessionStep ==
  ASSUME TypeOK, IdleIsBlank, NEW t \in Threads, SessionPhase(t), Step(t)
  PROVE  SessionPhase(t)'
<1>0. pc'[t] = "idle" => loc'[t].i = 1
  BY BlankGoes DEF NoCall
<1>1. CASE Connecting(t) \/ Closing(t)
  BY <1>1, ConnectingSession, ClosingSession
<1>2. CASE Powering(t)
  <2>1. /\ UNCHANGED <<controller, handles>> /\ pc[t] \notin Unsettled
        /\ pc[t] = "disable_idle" => run # "DISCONNECTED"
    BY <1>2
       DEF Powering, EnableTransition, EnableMotors, EnableCache,
           DisableTransitions, DisableMotors, DisableCache, At, Unsettled,
           sessionVars, SessionPhase
  <2>2. run' = "DISCONNECTED" <=> run = "DISCONNECTED"
    BY <1>2, <2>1
       DEF Powering, EnableTransition, EnableMotors, EnableCache,
           DisableTransitions, DisableMotors, DisableCache, At, armVars,
           Runtime!Transition, Runtime!Accepts, Runtime!Allowed
  <2>3. CASE pc'[t] = "disable_idle"
    <3>1. run' # "DISCONNECTED"
      BY <1>2, <2>1, <2>3, GotoLands, ReturnLands
         DEF Powering, EnableTransition, EnableMotors, EnableCache,
             DisableTransitions, DisableMotors, DisableCache, At, Lands,
             Runtime!Transition
    <3>2. QED
      BY <2>1, <2>2, <2>3, <3>1
         DEF SessionPhase, Settled, Opened, Closed, Unsettled, Down, InEstop,
             EstopSteps
  <2>4. CASE pc'[t] # "disable_idle"
    <3>1. pc'[t] \in {"enable_motors", "enable_cache", "disable_stop",
                      "disable_motors", "disable_cache", "idle"}
      BY <1>2, <2>4, GotoLands, ReturnLands
         DEF Powering, EnableTransition, EnableMotors, EnableCache,
             DisableTransitions, DisableMotors, DisableCache, Lands
    <3>2. QED
      BY <1>0, <2>1, <2>2, <3>1, QuietSession
         DEF SessionSteps, UndoSteps, InEstop, EstopSteps
  <2>5. QED
    BY <2>3, <2>4
<1>3. CASE Moving(t)
  <2>1. UNCHANGED <<controller, handles>> /\ pc[t] \notin Unsettled
    BY <1>3, AimingShape
       DEF Moving, Aiming, MoveJ, MoveJoint, GripperMove, MoveCartesian, Aim,
           UnknownJoint, NoGripper, Unsolvable, Refused, MotionGate, MotionRun,
           MotionCache, Waypoint, WaypointSend, RampSend, SendPoint, MotionEnd,
           MotionRestore, HomeStart, HomeRamp, At, Unsettled, sessionVars
  <2>2. run' = "DISCONNECTED" <=> run = "DISCONNECTED"
    BY <1>3, AimingShape
       DEF Moving, MotionGate, MotionRun, MotionCache, Waypoint, WaypointSend,
           RampSend, SendPoint, MotionEnd, MotionRestore, HomeStart, HomeRamp,
           armVars, Runtime!Transition, Runtime!Accepts, Runtime!Allowed
  <2>3. /\ pc'[t] \notin SessionSteps \cup {"disable_idle"}
        /\ ~InEstop(t)'
    BY <1>3, MovingLands
       DEF MovingSteps, SessionSteps, UndoSteps, InEstop, EstopSteps
  <2>4. QED
    BY <1>0, <2>1, <2>2, <2>3, QuietSession
<1>4. CASE Stopping(t)
  <2>1. UNCHANGED <<controller, handles>> /\ InEstop(t) /\ pc[t] \notin Unsettled
    BY <1>4
       DEF Stopping, EstopAbort, EstopDamp, EstopDisable, EstopForce,
           EstopCache, At, Unsettled, sessionVars, InEstop, EstopSteps
  <2>2. pc'[t] \in {"estop_pose", "ensure", "estop_disable", "estop_force",
                    "estop_cache", "idle"}
    BY <1>4, GotoLands, ReturnLands, EnsureLands
       DEF Stopping, EstopAbort, EstopDamp, EstopDisable, EstopForce,
           EstopCache, Lands
  <2>3. CASE UNCHANGED run
    BY <1>0, <2>1, <2>2, <2>3, QuietSession DEF SessionSteps, UndoSteps
  <2>4. CASE run' = "FAULT"
    BY <1>0, <2>1, <2>2, <2>4
       DEF SessionPhase, Settled, Opened, Closed, Unsettled, Down, AddFails
  <2>5. QED
    BY <1>4, <2>3, <2>4
       DEF Stopping, EstopAbort, EstopDamp, EstopDisable, EstopForce,
           EstopCache, Runtime!Force, armVars
<1>5. CASE Commanding(t)
  <2>1. /\ UNCHANGED <<run, controller, handles>>
        /\ pc[t] \notin Unsettled
    BY <1>5
       DEF Commanding, EnsureCached, EnsureJoint, ClearFaults, SetToDamping,
           Direct, DirectSend, JointCommand, ZeroCalibrate, ZeroJoint,
           WriteParam, ReadParam, GetFaults, Refused, At, Unsettled, armVars,
           sessionVars
  <2>2. /\ pc'[t] \notin SessionSteps \cup {"disable_idle"}
        /\ InEstop(t)' => InEstop(t)
    BY <1>5, CommandingLands, LocalsTyped
       DEF Continuations, SessionSteps, UndoSteps, InEstop, EstopSteps
  <2>3. QED
    BY <1>0, <2>1, <2>2, QuietSession
<1>6. QED
  BY <1>1, <1>2, <1>3, <1>4, <1>5 DEF Step

(* A call that starts.                                                     *)
LEMMA SessionCall ==
  ASSUME TypeOK, FreshSessions, OneAtATime', NEW t \in Threads,
         NEW op \in Operations, SessionPhase(t), Call(t, op)
  PROVE  SessionPhase(t)'
<1>1. /\ pc[t] = "idle" /\ pc'[t] = FirstStep(op) /\ loc'[t].i = loc[t].i
      /\ UNCHANGED <<run, controller, handles>>
      /\ op # "connect" /\ (op = "estop" => controller)
  BY CallSole DEF Keeps, FreshSessions, armVars, sessionVars
<1>2. CASE FirstStep(op) \in {"close", "estop"}
  <2>1. FirstStep(op) = "estop" => op = "estop"
    BY DEF FirstStep, Operations
  <2>2. QED
    BY <1>1, <1>2, <2>1
       DEF SessionPhase, Settled, Opened, Closed, Unsettled, Down, InEstop,
           EstopSteps
<1>3. CASE FirstStep(op) \notin {"close", "estop"}
  <2>1. FirstStep(op) \notin SessionSteps \cup EstopSteps \cup
          {"disable_idle", "idle", "ensure", "ensure_joint"}
    BY <1>1, <1>3
       DEF FirstStep, Operations, SessionSteps, UndoSteps, EstopSteps
  <2>2. QED
    BY <1>1, <2>1, QuietSession DEF Unsettled, InEstop
<1>4. QED
  BY <1>2, <1>3

(* The thread that is alone in a call, if there is one, keeps its part.    *)
Session == \A t \in Threads : Sole(t) => SessionPhase(t)

(* The inductive invariant of the session.                                 *)
LEMMA SessionInv ==
  ASSUME FreshSessions
  PROVE  Spec /\ []OneAtATime => []Session
<1>1. Init => Session
  BY DEF Init, Session, SessionPhase, Settled, Closed, Unsettled, Down, InEstop,
         EstopSteps, NoCall
<1>2. /\ TypeOK /\ IdleIsBlank /\ IdleIsBlank' /\ OneAtATime /\ OneAtATime'
      /\ Session /\ [Next]_vars
      => Session'
  <2>1. SUFFICES ASSUME TypeOK, IdleIsBlank, IdleIsBlank', OneAtATime,
                        OneAtATime', Session, [Next]_vars,
                        NEW u \in Threads, Sole(u)'
                 PROVE  SessionPhase(u)'
    BY DEF Session
  <2>2. CASE UNCHANGED vars
    BY <2>1, <2>2
       DEF vars, armVars, sessionVars, Session, Sole, SessionPhase, Settled,
           Opened, Closed, InEstop
  <2>3. ASSUME NEW t \in Threads, Step(t)
        PROVE  SessionPhase(u)'
    <3>1. SessionPhase(t)'
      BY <2>1, <2>3, StepSole, SessionStep DEF Session
    <3>2. CASE u # t
      <4>1. pc'[u] = "idle" /\ pc'[t] = "idle"
        BY <2>1, <2>3, <3>2, StepSole DEF Sole
      <4>2. loc'[u] = NoCall
        BY <2>1, <4>1 DEF IdleIsBlank
      <4>3. QED
        BY <3>1, <4>1, <4>2
           DEF SessionPhase, Unsettled, Down, InEstop, EstopSteps, NoCall
    <3>3. QED
      BY <3>1, <3>2
  <2>4. ASSUME NEW t \in Threads, NEW op \in Operations, Call(t, op)
        PROVE  SessionPhase(u)'
    <3>1. Sole(t) /\ pc'[t] # "idle"
      BY <2>1, <2>4, CallSole
    <3>2. u = t
      BY <2>1, <3>1 DEF Sole
    <3>3. QED
      BY <2>1, <2>4, <3>1, <3>2, SessionCall DEF Session
  <2>5. CASE OtherUser
    BY <2>1, <2>5
       DEF OtherUser, armVars, sessionVars, Session, Sole, SessionPhase,
           Settled, Opened, Closed, InEstop
  <2>6. QED
    BY <2>1, <2>2, <2>3, <2>4, <2>5 DEF Next
<1>3. QED
  BY <1>1, <1>2, TypeCorrect, BlankInv, PTL DEF Spec

(* Between calls a connected arm has one handle per configured joint, in   *)
(* order, and a disconnected one has closed the bus and dropped them all   *)
(* (session.py:82, session.py:121): for any callers that do not overlap    *)
(* and make their sessions afresh, and any failure but that of             *)
(* add_joint(), after which connect() leaves the session half open.        *)
THEOREM SessionsMatchRun ==
  ASSUME Threads # {}, FreshSessions, "add" \notin Faults
  PROVE  Spec /\ []OneAtATime => []SessionMatchesRun
<1>1. Session => SessionMatchesRun
  <2>1. SUFFICES ASSUME Session, Quiet
                 PROVE  /\ run \in {"IDLE", "ENABLED", "RUNNING"} =>
                             controller /\ handles = [j \in Joints |-> j]
                        /\ run = "DISCONNECTED" => ~controller /\ handles = <<>>
    BY DEF SessionMatchesRun
  <2>2. PICK t \in Threads : TRUE
    OBVIOUS
  <2>3. pc[t] = "idle" /\ SessionPhase(t)
    BY <2>1 DEF Quiet, At, Session, Sole
  <2>4. QED
    BY <2>3 DEF SessionPhase, Unsettled, Settled, Opened, Closed, AddFails
<1>2. QED
  BY <1>1, SessionInv, PTL

-----------------------------------------------------------------------------
(* The run state of an arm whose calls do not overlap.                     *)

(* The stretch from the end of a motion or enable() to its return.         *)
EndsEnabled(t) ==
  \/ pc[t] \in {"enable_motors", "enable_cache", "motion_uncache",
                "motion_restore", "motion_recache"}
  \/ pc[t] \in {"ensure", "ensure_joint"} /\ loc[t].after = "motion_recache"

(* Thread t, alone in a call, and the run state.                           *)
RunPhase(t) ==
  /\ OwnsRunning(t) <=> run = "RUNNING"
  /\ EndsEnabled(t) => run = "ENABLED"
  /\ pc[t] \in {"disable_motors", "disable_cache"} => run = "IDLE"
  /\ pc[t] = "estop_cache" => run = "FAULT"
  /\ pc[t] \notin {"disable_stop", "home_enabled", "home_cache"}

(* A step that keeps out of the marked stretches.                          *)
LEMMA QuietRun ==
  ASSUME NEW t \in Threads, RunPhase(t), run' = run \/ run' # "RUNNING",
         ~OwnsRunning(t), ~OwnsRunning(t)', ~EndsEnabled(t)',
         pc'[t] \notin {"disable_motors", "disable_cache", "estop_cache",
                        "disable_stop", "home_enabled", "home_cache"}
  PROVE  RunPhase(t)'
BY DEF RunPhase

(* Every step of a call that overlaps no other keeps RunPhase.             *)
LEMMA RunPhaseStep ==
  ASSUME TypeOK, "mode" \notin Faults, NEW t \in Threads,
         SessionPhase(t), RunPhase(t), Step(t)
  PROVE  RunPhase(t)'
<1> USE DEF Lands
<1>0. /\ OwnsRunning(t) => run = "RUNNING"
      /\ ~OwnsRunning(t) => run # "RUNNING"
  BY DEF RunPhase
<1>1. CASE Connecting(t) \/ Closing(t)
  <2>1. run' = run \/ run' # "RUNNING"
    BY <1>1
       DEF Connecting, ConnectPrev, ConnectTransition, ConnectOpen, ConnectAdd,
           ConnectCache, ConnectRollback, At, Closing, CloseAbort, CloseForce,
           CloseDisable, CloseClear, CloseCache, Runtime!Transition,
           Runtime!Force, armVars, SessionPhase
  <2>2. ~OwnsRunning(t)
    BY <1>1
       DEF Connecting, ConnectPrev, ConnectTransition, ConnectOpen, ConnectAdd,
           ConnectCache, ConnectRollback, Closing, CloseAbort, CloseForce,
           CloseDisable, CloseClear, CloseCache, At, OwnsRunning
  <2>3. pc'[t] \in SessionSteps \cup {"idle"}
    <3>1. CASE Connecting(t)
      BY <3>1, ConnectPrevLands, GotoLands, ReturnLands, AdvanceLands
         DEF Connecting, ConnectTransition, ConnectOpen, ConnectAdd,
             ConnectCache, ConnectRollback, At, SessionSteps, UndoSteps
    <3>2. CASE Closing(t)
      BY <3>2, GotoLands, ReturnLands
         DEF Closing, CloseAbort, CloseForce, CloseDisable, CloseClear,
             CloseCache, SessionSteps, UndoSteps
    <3>3. QED
      BY <1>1, <3>1, <3>2
  <2>4. QED
    BY <2>1, <2>2, <2>3, QuietRun
       DEF SessionSteps, UndoSteps, OwnsRunning, EndsEnabled
<1>2. CASE Powering(t)
  <2>1. run # "RUNNING" /\ pc[t] # "disable_stop"
    BY <1>0, <1>2
       DEF Powering, EnableTransition, EnableMotors, EnableCache,
           DisableTransitions, DisableMotors, DisableCache, At, OwnsRunning,
           RunPhase
  <2>2. /\ run' # "RUNNING"
        /\ \/ pc'[t] \in {"idle", "disable_idle"}
           \/ pc'[t] \in {"enable_motors", "enable_cache"} /\ run' = "ENABLED"
           \/ pc'[t] \in {"disable_motors", "disable_cache"} /\ run' = "IDLE"
    BY <1>2, <2>1, GotoLands, ReturnLands
       DEF Powering, EnableTransition, EnableMotors, EnableCache,
           DisableTransitions, DisableMotors, DisableCache, At, armVars,
           Runtime!Transition, RunPhase, EndsEnabled
  <2>3. QED
    BY <2>2 DEF RunPhase, OwnsRunning, EndsEnabled
<1>3. CASE Stopping(t)
  <2>1. run # "RUNNING"
    BY <1>0, <1>3
       DEF Stopping, EstopAbort, EstopDamp, EstopDisable, EstopForce,
           EstopCache, At, OwnsRunning
  <2>2. /\ run' # "RUNNING"
        /\ \/ pc'[t] \in {"estop_pose", "estop_disable", "estop_force", "idle"}
           \/ pc'[t] = "ensure" /\ loc'[t].after = "estop_damp"
           \/ pc'[t] = "estop_cache" /\ run' = "FAULT"
    BY <1>3, <2>1, GotoLands, ReturnLands, EnsureLands
       DEF Stopping, EstopAbort, EstopDamp, EstopDisable, EstopForce,
           EstopCache, armVars, Runtime!Force
  <2>3. QED
    BY <2>2 DEF RunPhase, OwnsRunning, EndsEnabled
<1>4. CASE Commanding(t)
  <2>1. UNCHANGED run
    BY <1>4
       DEF Commanding, EnsureCached, EnsureJoint, ClearFaults, SetToDamping,
           Direct, DirectSend, JointCommand, ZeroCalibrate, ZeroJoint,
           WriteParam, ReadParam, GetFaults, Refused, armVars
  <2>2. CASE pc[t] \in {"ensure", "ensure_joint"}
    BY <1>4, <2>1, <2>2, CommandingLands, LocalsTyped
       DEF Commanding, RunPhase, OwnsRunning, EndsEnabled, Continuations
  <2>3. CASE pc[t] \notin {"ensure", "ensure_joint"}
    <3>1. ~OwnsRunning(t)
      BY <1>4, <2>3
         DEF Commanding, EnsureCached, EnsureJoint, ClearFaults, SetToDamping,
             Direct, DirectSend, JointCommand, ZeroCalibrate, ZeroJoint,
             WriteParam, ReadParam, GetFaults, Refused, At, OwnsRunning
    <3>2. QED
      BY <1>4, <2>1, <2>3, <3>1, CommandingLands, QuietRun
         DEF OwnsRunning, EndsEnabled
  <2>4. QED
    BY <2>2, <2>3
<1>5. CASE Moving(t)
  <2>1. CASE Aiming(t) \/ MotionGate(t)
    <3>1. UNCHANGED run /\ ~OwnsRunning(t)
      BY <2>1, AimingShape
         DEF Aiming, MoveJ, MoveJoint, GripperMove, MoveCartesian, Aim,
             UnknownJoint, NoGripper, Unsolvable, Refused, MotionGate, At,
             OwnsRunning, armVars
    <3>2. pc'[t] \in {"move_j", "motion", "motion_clear", "motion_run", "idle"}
      BY <2>1, AimingShape, GotoLands, ReturnLands DEF MotionGate
    <3>3. QED
      BY <3>1, <3>2, QuietRun DEF OwnsRunning, EndsEnabled
  <2>2. CASE HomeStart(t)
    <3>1. /\ UNCHANGED run /\ ~OwnsRunning(t)
          /\ pc[t] \in {"reset_to_home", "home_pose"}
      BY <2>2, <1>0 DEF HomeStart, At, OwnsRunning, RunPhase
    <3>2. pc'[t] \in {"home_pose", "move_j", "idle"}
      BY <2>2, <1>0, <3>1, GotoLands, ReturnLands DEF HomeStart, At
    <3>3. QED
      BY <3>1, <3>2, QuietRun DEF OwnsRunning, EndsEnabled
  <2>3. CASE MotionRun(t)
    <3>1. CASE At(t, "motion_run")
      <4>1. \/ pc'[t] = "motion_save" /\ run' = "RUNNING"
            \/ pc'[t] = "idle" /\ run' = run /\ run # "RUNNING"
        BY <1>0, <2>3, <3>1, GotoLands, ReturnLands
           DEF MotionRun, At, OwnsRunning, Runtime!Transition
      <4>2. QED
        BY <4>1 DEF RunPhase, OwnsRunning, EndsEnabled
    <3>2. CASE ~At(t, "motion_run")
      <4>1. /\ pc'[t] = "ensure" /\ loc'[t].after = "motion_cache"
            /\ run' = "RUNNING"
        BY <1>0, <2>3, <3>2, MotionSaveLands DEF At, OwnsRunning
      <4>2. QED
        BY <4>1 DEF RunPhase, OwnsRunning, EndsEnabled
    <3>3. QED
      BY <3>1, <3>2
  <2>4. CASE MotionCache(t) \/ Waypoint(t) \/ WaypointSend(t) \/ RampSend(t)
    <3>1. OwnsRunning(t) /\ UNCHANGED run
      BY <2>4
         DEF MotionCache, Waypoint, WaypointSend, RampSend, SendPoint, At,
             OwnsRunning, armVars
    <3>2. pc'[t] \in {"waypoint", "waypoint_send", "ramp", "motion_end"}
      <4>1. CASE MotionCache(t) \/ Waypoint(t)
        BY <4>1, GotoLands DEF MotionCache, Waypoint
      <4>2. CASE WaypointSend(t) \/ RampSend(t)
        BY <4>2, SendPointLands DEF WaypointSend, RampSend
      <4>3. QED
        BY <2>4, <4>1, <4>2
    <3>3. QED
      BY <1>0, <3>1, <3>2 DEF RunPhase, OwnsRunning, EndsEnabled
  <2>5. CASE MotionEnd(t)
    <3>1. CASE At(t, "motion_end")
      <4>1. pc'[t] = "motion_enabled" /\ run' = "RUNNING"
        BY <1>0, <2>5, <3>1, GotoLands DEF MotionEnd, At, OwnsRunning
      <4>2. QED
        BY <4>1 DEF RunPhase, OwnsRunning, EndsEnabled
    <3>2. CASE At(t, "motion_enabled")
      <4>1. pc'[t] = "motion_uncache" /\ run' = "ENABLED"
        BY <1>0, <2>5, <3>2, GotoLands
           DEF MotionEnd, At, OwnsRunning, Runtime!Transition, Runtime!Accepts,
               Runtime!Allowed
      <4>2. QED
        BY <4>1 DEF RunPhase, OwnsRunning, EndsEnabled
    <3>3. CASE At(t, "motion_uncache")
      <4>1. pc'[t] = "motion_restore" /\ run' = "ENABLED"
        BY <2>5, <3>3, GotoLands DEF MotionEnd, At, RunPhase, EndsEnabled
      <4>2. QED
        BY <4>1 DEF RunPhase, OwnsRunning, EndsEnabled
    <3>4. QED
      BY <2>5, <3>1, <3>2, <3>3 DEF MotionEnd
  <2>6. CASE MotionRestore(t)
    <3>1. run' = "ENABLED"
      BY <2>6 DEF MotionRestore, At, RunPhase, EndsEnabled
    <3>2. \/ pc'[t] \in {"idle", "home_mode"}
          \/ pc'[t] = "ensure" /\ loc'[t].after = "motion_recache"
      BY <2>6, MotionReturnLands, EnsureLands DEF MotionRestore
    <3>3. QED
      BY <3>1, <3>2 DEF RunPhase, OwnsRunning, EndsEnabled
  <2>7. CASE HomeRamp(t)
    <3>1. CASE At(t, "home_mode")
      <4>1. UNCHANGED run /\ ~OwnsRunning(t)
        BY <2>7, <3>1 DEF HomeRamp, At, OwnsRunning
      <4>2. \/ pc'[t] = "idle"
            \/ pc'[t] = "ensure" /\ loc'[t].after = "ramp_run"
        BY <2>7, <3>1, ReturnLands, EnsureLands DEF HomeRamp, At
      <4>3. QED
        BY <4>1, <4>2, QuietRun DEF OwnsRunning, EndsEnabled
    <3>2. CASE At(t, "ramp_run") /\ ~Runtime!Accepts(run, "RUNNING")
      <4>1. /\ UNCHANGED run /\ ~OwnsRunning(t)
            /\ Return(t)
        BY <2>7, <3>2 DEF HomeRamp, At, OwnsRunning, Runtime!Transition
      <4>2. pc'[t] = "idle"
        BY <4>1, ReturnLands
      <4>3. QED
        BY <4>1, <4>2, QuietRun DEF OwnsRunning, EndsEnabled
    <3>3. CASE At(t, "ramp_run") /\ Runtime!Accepts(run, "RUNNING")
      <4>1. pc'[t] = "ramp_cache" /\ run' = "RUNNING"
        BY <2>7, <3>3, RampStartLands DEF HomeRamp, At, Runtime!Transition
      <4>2. QED
        BY <4>1 DEF RunPhase, OwnsRunning, EndsEnabled
    <3>4. CASE At(t, "ramp_cache") \/ At(t, "ramp")
      <4>1. run' = "RUNNING" /\ pc'[t] \in {"ramp", "ramp_send", "motion_end"}
        BY <1>0, <2>7, <3>4, GotoLands DEF HomeRamp, At, OwnsRunning
      <4>2. QED
        BY <4>1 DEF RunPhase, OwnsRunning, EndsEnabled
    <3>5. QED
      BY <2>7, <3>1, <3>2, <3>3, <3>4 DEF HomeRamp
  <2>8. QED
    BY <1>5, <2>1, <2>2, <2>3, <2>4, <2>5, <2>6, <2>7 DEF Moving
<1>6. QED
  BY <1>1, <1>2, <1>3, <1>4, <1>5 DEF Step

RunKnown == \A t \in Threads : Sole(t) => RunPhase(t)

(* The inductive invariant of the run state.                               *)
LEMMA RunInv ==
  ASSUME FreshSessions, "mode" \notin Faults
  PROVE  Spec /\ []OneAtATime => []RunKnown
<1>1. Init => RunKnown
  BY DEF Init, RunKnown, RunPhase, OwnsRunning, EndsEnabled
<1>2. /\ TypeOK /\ OneAtATime /\ OneAtATime' /\ Session /\ RunKnown
      /\ [Next]_vars
      => RunKnown'
  <2>1. SUFFICES ASSUME TypeOK, OneAtATime, OneAtATime', Session, RunKnown,
                        [Next]_vars, NEW u \in Threads, Sole(u)'
                 PROVE  RunPhase(u)'
    BY DEF RunKnown
  <2>2. CASE UNCHANGED vars
    BY <2>1, <2>2
       DEF vars, armVars, RunKnown, Sole, RunPhase, OwnsRunning, EndsEnabled
  <2>3. ASSUME NEW t \in Threads, Step(t)
        PROVE  RunPhase(u)'
    <3>1. RunPhase(t)'
      BY <2>1, <2>3, StepSole, RunPhaseStep DEF Session, RunKnown
    <3>2. CASE u # t
      <4>1. pc'[u] = "idle" /\ pc'[t] = "idle"
        BY <2>1, <2>3, <3>2, StepSole DEF Sole
      <4>2. QED
        BY <3>1, <4>1 DEF RunPhase, OwnsRunning, EndsEnabled
    <3>3. QED
      BY <3>1, <3>2
  <2>4. ASSUME NEW t \in Threads, NEW op \in Operations, Call(t, op)
        PROVE  RunPhase(u)'
    <3>1. /\ Sole(t) /\ pc[t] = "idle" /\ pc'[t] = FirstStep(op)
          /\ pc'[t] # "idle" /\ UNCHANGED run
      BY <2>1, <2>4, CallSole DEF armVars
    <3>2. u = t
      BY <2>1, <3>1 DEF Sole
    <3>3. ~OwnsRunning(t) /\ RunPhase(t)
      BY <2>1, <3>1 DEF OwnsRunning, RunKnown
    <3>4. /\ ~OwnsRunning(t)' /\ ~EndsEnabled(t)'
          /\ pc'[t] \notin {"disable_motors", "disable_cache", "estop_cache",
                            "disable_stop", "home_enabled", "home_cache"}
      BY <3>1 DEF FirstStep, Operations, OwnsRunning, EndsEnabled
    <3>5. QED
      BY <3>1, <3>2, <3>3, <3>4, QuietRun
  <2>5. CASE OtherUser
    BY <2>1, <2>5
       DEF OtherUser, armVars, RunKnown, Sole, RunPhase, OwnsRunning, EndsEnabled
  <2>6. QED
    BY <2>1, <2>2, <2>3, <2>4, <2>5 DEF Next
<1>3. QED
  BY <1>1, <1>2, TypeCorrect, SessionInv, PTL DEF Spec

-----------------------------------------------------------------------------
(* The cache and the run state.                                            *)

(* set_to_damping() caches ENABLED, whatever the arm is.                   *)
NoDamping == \A t \in Threads : "set_to_damping" \notin Menu[t]

DampSteps == {"damp", "damp_send", "damp_cache"}

(* Between a change of the run state and the one of the cache.             *)
Uncached(t) ==
  \/ pc[t] \in {"close_disable", "close_clear", "close_cache",
                "connect_open", "connect_add", "connect_force",
                "connect_cache", "connect_uncache", "enable_motors",
                "enable_cache", "disable_motors", "disable_cache",
                "motion_save", "motion_cache", "motion_uncache",
                "ramp_cache", "estop_cache"}
  \/ pc[t] \in {"ensure", "ensure_joint"} /\ loc[t].after = "motion_cache"

CachePhase(t) ==
  /\ ~Uncached(t) => cache = run
  /\ pc[t] \notin DampSteps
  /\ pc[t] \in {"ensure", "ensure_joint"} => loc[t].after # "damp_send"

(* A step that leaves both alone, and one that leads to the stretch        *)
(* between them or out of it.                                              *)
LEMMA QuietCache ==
  ASSUME NEW t \in Threads, CachePhase(t), UNCHANGED <<run, cache>>,
         ~Uncached(t) \/ Uncached(t)', pc'[t] \notin DampSteps,
         pc'[t] \in {"ensure", "ensure_joint"} => loc'[t].after # "damp_send"
  PROVE  CachePhase(t)'
BY DEF CachePhase

(* Every step of a call that overlaps no other keeps CachePhase.           *)
LEMMA CachePhaseStep ==
  ASSUME TypeOK, {"mode", "enable", "disable"} \cap Faults = {},
         NEW t \in Threads, SessionPhase(t), RunPhase(t), CachePhase(t), Step(t)
  PROVE  CachePhase(t)'
<1> USE DEF Lands, DampSteps
<1>1. CASE Connecting(t)
  <2>1. CASE ConnectPrev(t)
    <3>1. /\ pc[t] = "connect" /\ pc'[t] = "connect_transition"
          /\ UNCHANGED <<run, cache>>
      BY <2>1, ConnectPrevLands DEF ConnectPrev, At, armVars
    <3>2. QED
      BY <3>1 DEF CachePhase, Uncached
  <2>2. CASE ConnectTransition(t)
    <3>1. run = "DISCONNECTED"
      BY <2>2 DEF ConnectTransition, At, SessionPhase, Down
    <3>2. pc'[t] = "connect_open"
      BY <2>2, <3>1, GotoLands
         DEF ConnectTransition, Runtime!Accepts, Runtime!Allowed
    <3>3. QED
      BY <3>2 DEF CachePhase, Uncached
  <2>3. CASE ConnectOpen(t) \/ ConnectAdd(t)
    <3>1. pc'[t] \in {"connect_add", "connect_force", "connect_cache"}
      BY <2>3, GotoLands DEF ConnectOpen, ConnectAdd, At
    <3>2. QED
      BY <3>1 DEF CachePhase, Uncached
  <2>4. CASE ConnectCache(t)
    <3>1. run' = cache' /\ pc'[t] = "idle"
      BY <2>4, ReturnLands DEF ConnectCache, At, SessionPhase
    <3>2. QED
      BY <3>1 DEF CachePhase
  <2>5. CASE ConnectRollback(t)
    <3>1. CASE At(t, "connect_force")
      <4>1. pc'[t] = "connect_uncache"
        BY <2>5, <3>1, GotoLands DEF ConnectRollback, At
      <4>2. QED
        BY <4>1 DEF CachePhase, Uncached
    <3>2. CASE At(t, "connect_uncache")
      <4>1. run' = cache' /\ pc'[t] = "idle"
        BY <2>5, <3>2, ReturnLands DEF ConnectRollback, At, SessionPhase
      <4>2. QED
        BY <4>1 DEF CachePhase
    <3>3. QED
      BY <2>5, <3>1, <3>2 DEF ConnectRollback
  <2>6. QED
    BY <1>1, <2>1, <2>2, <2>3, <2>4, <2>5 DEF Connecting
<1>2. CASE Closing(t)
  <2>1. CASE CloseAbort(t)
    <3>1. /\ pc[t] = "close" /\ pc'[t] = "close_force"
          /\ UNCHANGED <<run, cache>>
      BY <2>1, GotoLands DEF CloseAbort, At
    <3>2. QED
      BY <3>1 DEF CachePhase, Uncached
  <2>2. CASE CloseForce(t) \/ CloseDisable(t) \/ CloseClear(t)
    <3>1. pc'[t] \in {"close_disable", "close_clear", "close_cache"}
      BY <2>2, GotoLands DEF CloseForce, CloseDisable, CloseClear
    <3>2. QED
      BY <3>1 DEF CachePhase, Uncached
  <2>3. CASE CloseCache(t)
    <3>1. run' = cache' /\ pc'[t] \in {"connect", "idle"}
      BY <2>3, GotoLands, ReturnLands DEF CloseCache, At, SessionPhase, Down
    <3>2. QED
      BY <3>1 DEF CachePhase
  <2>4. QED
    BY <1>2, <2>1, <2>2, <2>3 DEF Closing
<1>3. CASE Powering(t)
  <2>1. CASE EnableTransition(t) \/ DisableTransitions(t)
    <3>1. /\ pc[t] \in {"enable", "disable", "disable_idle"} /\ UNCHANGED cache
          /\ \/ pc'[t] \in {"enable_motors", "disable_motors"}
             \/ pc'[t] \in {"idle", "disable_idle", "disable_stop"} /\ run' = run
      BY <2>1, GotoLands, ReturnLands
         DEF EnableTransition, DisableTransitions, At, RunPhase
    <3>2. QED
      BY <3>1 DEF CachePhase, Uncached
  <2>2. CASE EnableMotors(t) \/ DisableMotors(t)
    <3>1. pc'[t] \in {"enable_cache", "disable_cache"}
      <4>1. CASE EnableMotors(t)
        <5>1. controller
          BY <4>1
             DEF EnableMotors, At, RunPhase, EndsEnabled, SessionPhase,
                 Unsettled, Settled, Opened
        <5>2. QED
          BY <4>1, <5>1, GotoLands DEF EnableMotors, Fails
      <4>2. CASE DisableMotors(t)
        BY <4>2, GotoLands DEF DisableMotors, Fails
      <4>3. QED
        BY <2>2, <4>1, <4>2
    <3>2. QED
      BY <3>1 DEF CachePhase, Uncached
  <2>3. CASE EnableCache(t) \/ DisableCache(t)
    <3>1. run' = cache' /\ pc'[t] = "idle"
      BY <2>3, ReturnLands
         DEF EnableCache, DisableCache, At, RunPhase, EndsEnabled
    <3>2. QED
      BY <3>1 DEF CachePhase
  <2>4. QED
    BY <1>3, <2>1, <2>2, <2>3 DEF Powering
<1>4. CASE Moving(t)
  <2>0. /\ pc'[t] \notin DampSteps
        /\ pc'[t] \in {"ensure", "ensure_joint"} => loc'[t].after # "damp_send"
    BY <1>4, MovingLands DEF MovingSteps
  <2>1. CASE \/ Aiming(t) \/ MotionGate(t) \/ Waypoint(t) \/ WaypointSend(t)
             \/ RampSend(t)
    <3>1. UNCHANGED <<run, cache>> /\ ~Uncached(t)
      BY <2>1
         DEF Aiming, MoveJ, MoveJoint, GripperMove, MoveCartesian, Aim,
             UnknownJoint, NoGripper, Unsolvable, Refused, MotionGate,
             Waypoint, WaypointSend, RampSend, SendPoint, At, Uncached, armVars
    <3>2. QED
      BY <2>0, <3>1, QuietCache
  <2>2. CASE MotionRun(t)
    <3>1. CASE At(t, "motion_run")
      <4>1. \/ pc'[t] = "motion_save"
            \/ pc'[t] = "idle" /\ UNCHANGED <<run, cache>>
        BY <2>2, <3>1, GotoLands, ReturnLands DEF MotionRun, At
      <4>2. ~Uncached(t)
        BY <3>1 DEF At, Uncached
      <4>3. QED
        BY <2>0, <4>1, <4>2 DEF CachePhase, Uncached
    <3>2. CASE ~At(t, "motion_run")
      <4>1. Uncached(t)'
        BY <2>2, <3>2, MotionSaveLands DEF Uncached
      <4>2. QED
        BY <2>0, <4>1 DEF CachePhase
    <3>3. QED
      BY <3>1, <3>2
  <2>3. CASE MotionCache(t) \/ At(t, "ramp_cache")
    <3>1. run = "RUNNING"
      BY <2>3 DEF MotionCache, At, RunPhase, OwnsRunning
    <3>2. run' = run /\ cache' = "RUNNING"
      <4>1. CASE MotionCache(t)
        BY <4>1 DEF MotionCache
      <4>2. CASE At(t, "ramp_cache")
        <5>1. HomeRamp(t)
          BY <1>4, <4>2
             DEF Moving, Aiming, MoveJ, MoveJoint, GripperMove, MoveCartesian,
                 Aim, UnknownJoint, NoGripper, Unsolvable, Refused, MotionGate,
                 MotionRun, MotionCache, Waypoint, WaypointSend, RampSend,
                 SendPoint, MotionEnd, MotionRestore, HomeStart, At
        <5>2. QED
          BY <4>2, <5>1 DEF HomeRamp, At
      <4>3. QED
        BY <2>3, <4>1, <4>2
    <3>3. QED
      BY <2>0, <3>1, <3>2 DEF CachePhase
  <2>4. CASE MotionEnd(t)
    <3>1. CASE At(t, "motion_end")
      BY <2>0, <2>4, <3>1, QuietCache DEF MotionEnd, At, Uncached
    <3>2. CASE At(t, "motion_enabled")
      <4>1. run = "RUNNING"
        BY <3>2 DEF At, RunPhase, OwnsRunning
      <4>2. pc'[t] = "motion_uncache"
        BY <2>4, <3>2, <4>1, GotoLands
           DEF MotionEnd, At, Runtime!Accepts, Runtime!Allowed
      <4>3. QED
        BY <4>2 DEF CachePhase, Uncached
    <3>3. CASE At(t, "motion_uncache")
      <4>1. run' = cache'
        BY <2>4, <3>3 DEF MotionEnd, At, RunPhase, EndsEnabled
      <4>2. QED
        BY <2>0, <4>1 DEF CachePhase
    <3>4. QED
      BY <2>4, <3>1, <3>2, <3>3 DEF MotionEnd
  <2>5. CASE MotionRestore(t)
    <3>1. CASE At(t, "motion_restore")
      BY <2>0, <2>5, <3>1, QuietCache DEF MotionRestore, At, Uncached
    <3>2. CASE At(t, "motion_recache")
      <4>1. run' = cache'
        BY <2>5, <3>2 DEF MotionRestore, At, RunPhase, EndsEnabled
      <4>2. QED
        BY <2>0, <4>1 DEF CachePhase
    <3>3. QED
      BY <2>5, <3>1, <3>2 DEF MotionRestore
  <2>6. CASE HomeStart(t)
    <3>1. UNCHANGED <<run, cache>> /\ ~Uncached(t)
      BY <2>6 DEF HomeStart, At, Uncached, RunPhase
    <3>2. QED
      BY <2>0, <3>1, QuietCache
  <2>7. CASE HomeRamp(t) /\ ~At(t, "ramp_cache")
    <3>1. ~Uncached(t) /\ UNCHANGED cache
      BY <2>7 DEF HomeRamp, At, Uncached
    <3>2. CASE UNCHANGED run
      BY <2>0, <3>1, <3>2, QuietCache
    <3>3. CASE run' # run
      <4>1. pc'[t] = "ramp_cache"
        BY <2>7, <3>3, RampStartLands DEF HomeRamp, At
      <4>2. QED
        BY <4>1 DEF CachePhase, Uncached
    <3>4. QED
      BY <3>2, <3>3
  <2>8. QED
    BY <1>4, <2>1, <2>2, <2>3, <2>4, <2>5, <2>6, <2>7 DEF Moving
<1>5. CASE Stopping(t)
  <2>0. /\ pc'[t] \in {"estop_pose", "ensure", "estop_disable", "estop_force",
                       "estop_cache", "idle"}
        /\ pc'[t] = "ensure" => loc'[t].after = "estop_damp"
    BY <1>5, GotoLands, ReturnLands, EnsureLands
       DEF Stopping, EstopAbort, EstopDamp, EstopDisable, EstopForce, EstopCache
  <2>1. CASE EstopAbort(t) \/ EstopDamp(t) \/ EstopDisable(t)
    <3>1. UNCHANGED <<run, cache>> /\ ~Uncached(t)
      BY <2>1 DEF EstopAbort, EstopDamp, EstopDisable, At, Uncached, armVars
    <3>2. QED
      BY <2>0, <3>1, QuietCache
  <2>2. CASE EstopForce(t)
    <3>1. pc'[t] = "estop_cache"
      BY <2>2, GotoLands DEF EstopForce
    <3>2. QED
      BY <3>1 DEF CachePhase, Uncached
  <2>3. CASE EstopCache(t)
    <3>1. run' = cache'
      BY <2>3 DEF EstopCache, At, RunPhase
    <3>2. QED
      BY <2>0, <3>1 DEF CachePhase
  <2>4. QED
    BY <1>5, <2>1, <2>2, <2>3 DEF Stopping
<1>6. CASE Commanding(t)
  <2>1. ~SetToDamping(t)
    BY DEF SetToDamping, At, CachePhase
  <2>2. UNCHANGED <<run, cache>>
    BY <1>6, <2>1
       DEF Commanding, EnsureCached, EnsureJoint, ClearFaults, Direct,
           DirectSend, JointCommand, ZeroCalibrate, ZeroJoint, WriteParam,
           ReadParam, GetFaults, Refused, armVars
  <2>3. CASE EnsureCached(t) \/ EnsureJoint(t)
    <3>1. pc[t] \in {"ensure", "ensure_joint"}
      BY <2>3 DEF EnsureCached, EnsureJoint, At
    <3>2. /\ pc'[t] \in {"ensure_joint", loc[t].after}
          /\ loc'[t].after = loc[t].after
      BY <1>6, <3>1, CommandingLands
    <3>3. loc[t].after \in Continuations /\ loc[t].after # "damp_send"
      BY <3>1, LocalsTyped DEF CachePhase
    <3>4. QED
      BY <2>2, <3>1, <3>2, <3>3, QuietCache DEF Uncached, Continuations
  <2>4. CASE Direct(t)
    <3>1. /\ pc[t] = "direct"
          /\ pc'[t] \in {"idle", "ensure"}
          /\ pc'[t] = "ensure" => loc'[t].after = "direct_send"
      BY <2>4, ReturnLands, EnsureLands DEF Direct, At
    <3>2. QED
      BY <2>2, <3>1, QuietCache DEF Uncached
  <2>5. CASE ~(EnsureCached(t) \/ EnsureJoint(t) \/ Direct(t))
    <3>1. ~Uncached(t) /\ pc'[t] \in {"zero", "idle"}
      BY <1>6, <2>1, <2>5, ReturnLands, AdvanceLands
         DEF Commanding, ClearFaults, DirectSend, JointCommand, ZeroCalibrate,
             ZeroJoint, WriteParam, ReadParam, GetFaults, Refused, At, Uncached
    <3>2. QED
      BY <2>2, <3>1, QuietCache
  <2>6. QED
    BY <2>3, <2>4, <2>5
<1>7. QED
  BY <1>1, <1>2, <1>3, <1>4, <1>5, <1>6 DEF Step

(* Between calls get_state() reports the run state the arm is in           *)
(* (state_cache.py:56): for any callers that do not overlap, make their    *)
(* sessions afresh and never call set_to_damping(), and any failure but    *)
(* those of a mode switch, enable_all() and disable_all(), each of which   *)
(* raises between the two.                                                 *)
THEOREM CachesTrackRun ==
  ASSUME Threads # {}, FreshSessions, NoDamping,
         {"mode", "enable", "disable"} \cap Faults = {}
  PROVE  Spec /\ []OneAtATime => []CacheTracksRun
<1> DEFINE Cached == \A t \in Threads : Sole(t) => CachePhase(t)
<1>1. Init => Cached
  BY DEF Init, CachePhase, DampSteps
<1>2. /\ TypeOK /\ OneAtATime /\ OneAtATime' /\ Session /\ RunKnown
      /\ Cached /\ [Next]_vars
      => Cached'
  <2>1. SUFFICES ASSUME TypeOK, OneAtATime, OneAtATime', Session, RunKnown,
                        Cached, [Next]_vars, NEW u \in Threads, Sole(u)'
                 PROVE  CachePhase(u)'
    OBVIOUS
  <2>2. CASE UNCHANGED vars
    BY <2>1, <2>2 DEF vars, armVars, Sole, CachePhase, Uncached
  <2>3. ASSUME NEW t \in Threads, Step(t)
        PROVE  CachePhase(u)'
    <3>1. CachePhase(t)'
      BY <2>1, <2>3, StepSole, CachePhaseStep DEF Session, RunKnown
    <3>2. CASE u # t
      <4>1. pc'[u] = "idle" /\ pc'[t] = "idle"
        BY <2>1, <2>3, <3>2, StepSole DEF Sole
      <4>2. QED
        BY <3>1, <4>1 DEF CachePhase, Uncached, DampSteps
    <3>3. QED
      BY <3>1, <3>2
  <2>4. ASSUME NEW t \in Threads, NEW op \in Operations, Call(t, op)
        PROVE  CachePhase(u)'
    <3>1. /\ Sole(t) /\ pc[t] = "idle" /\ pc'[t] = FirstStep(op)
          /\ pc'[t] # "idle" /\ UNCHANGED <<run, cache>>
          /\ op # "set_to_damping"
      BY <2>1, <2>4, CallSole DEF armVars, NoDamping
    <3>2. u = t
      BY <2>1, <3>1 DEF Sole
    <3>3. ~Uncached(t) /\ CachePhase(t)
      BY <2>1, <3>1 DEF Uncached
    <3>4. pc'[t] \notin DampSteps \cup {"ensure", "ensure_joint"}
      BY <3>1 DEF FirstStep, Operations, DampSteps
    <3>5. QED
      BY <3>1, <3>2, <3>3, <3>4, QuietCache
  <2>5. CASE OtherUser
    BY <2>1, <2>5 DEF OtherUser, armVars, Sole, CachePhase, Uncached
  <2>6. QED
    BY <2>1, <2>2, <2>3, <2>4, <2>5 DEF Next
<1>3. Cached => CacheTracksRun
  <2>1. SUFFICES ASSUME Cached, Quiet
                 PROVE  cache = run
    BY DEF CacheTracksRun
  <2>2. PICK t \in Threads : TRUE
    OBVIOUS
  <2>3. pc[t] = "idle" /\ CachePhase(t)
    BY <2>1 DEF Quiet, At, Sole
  <2>4. QED
    BY <2>3 DEF CachePhase, Uncached
<1>4. Spec /\ []OneAtATime => []Session /\ []RunKnown
  BY SessionInv, RunInv
<1>5. QED
  BY <1>1, <1>2, <1>3, <1>4, TypeCorrect, PTL DEF Spec

-----------------------------------------------------------------------------
(* The power stage and the run state.                                      *)

(* zero_calibrate() takes the power of a motor and leaves ENABLED.         *)
NoZeroing ==
  \A t \in Threads : Menu[t] \cap {"zero_calibrate", "zero_joint"} = {}

(* The motors the run state promises to be energised.                      *)
Powered == IF run \in {"ENABLED", "RUNNING"} THEN Joints ELSE {}

PowerPhase(t) ==
  /\ pc[t] \notin {"close_disable", "enable_motors", "disable_motors",
                   "estop_force"} => motorOn = Powered
  /\ pc[t] = "estop_force" => motorOn = {}
  /\ pc[t] = "close_disable" =>
       motorOn \subseteq (IF controller THEN Wired ELSE {})
  /\ pc[t] \notin {"zero", "zero_joint"}

(* A step that switches no motor and promises what was promised.           *)
LEMMA QuietPowered ==
  ASSUME NEW t \in Threads, PowerPhase(t), UNCHANGED motorOn,
         Powered' = Powered,
         pc[t] \notin {"close_disable", "enable_motors", "disable_motors",
                       "estop_force"},
         pc'[t] \notin {"close_disable", "estop_force", "zero", "zero_joint"}
  PROVE  PowerPhase(t)'
BY DEF PowerPhase

(* An open session reaches every motor.                                    *)
LEMMA OpenedWired ==
  ASSUME Opened, ~AddFails
  PROVE  controller /\ Wired = Joints
<1>1. controller /\ handles = [j \in 1 .. NumJoints |-> j]
  BY DEF Opened, Joints
<1>2. NumJoints \in Nat
  BY ConstantsAssumption
<1>3. Len(handles) = NumJoints
  BY <1>1, <1>2
<1>4. QED
  BY <1>1, <1>2, <1>3 DEF Wired, Joints

(* Every step of a call that overlaps no other keeps PowerPhase.           *)
LEMMA PowerPhaseStep ==
  ASSUME TypeOK,
         {"mode", "add", "enable", "disable", "status"} \cap Faults = {},
         NEW t \in Threads, SessionPhase(t), RunPhase(t), PowerPhase(t), Step(t)
  PROVE  PowerPhase(t)'
<1> USE DEF Lands
<1>0. ~AddFails
  BY DEF AddFails
<1>1. CASE Connecting(t)
  <2>1. UNCHANGED motorOn
    BY <1>1
       DEF Connecting, ConnectPrev, ConnectTransition, ConnectOpen, ConnectAdd,
           ConnectCache, ConnectRollback, motorVars
  <2>2. pc'[t] \notin {"close_disable", "estop_force", "zero", "zero_joint"}
    BY <1>1, ConnectPrevLands, GotoLands, ReturnLands, AdvanceLands
       DEF Connecting, ConnectTransition, ConnectOpen, ConnectAdd,
           ConnectCache, ConnectRollback, At
  <2>3. /\ pc[t] \notin {"close_disable", "enable_motors", "disable_motors",
                         "estop_force"}
        /\ run' = run \/ {run, run'} = {"DISCONNECTED", "IDLE"}
    BY <1>1
       DEF Connecting, ConnectPrev, ConnectTransition, ConnectOpen, ConnectAdd,
           ConnectCache, ConnectRollback, At, armVars, Runtime!Transition,
           Runtime!Force, SessionPhase, Down
  <2>4. Powered' = Powered
    BY <2>3 DEF Powered
  <2>5. QED
    BY <2>1, <2>2, <2>3, <2>4, QuietPowered
<1>2. CASE Closing(t)
  <2>1. CASE CloseForce(t)
    <3>1. /\ pc[t] = "close_force" /\ pc'[t] = "close_disable"
          /\ UNCHANGED <<controller, handles, motorOn>>
      BY <2>1, GotoLands DEF CloseForce, At, sessionVars, motorVars
    <3>2. motorOn = Powered /\ Settled
      BY <3>1 DEF PowerPhase, SessionPhase, Unsettled
    <3>3. motorOn \subseteq (IF controller THEN Wired ELSE {})
      <4>1. CASE run = "DISCONNECTED"
        BY <3>2, <4>1 DEF Powered
      <4>2. CASE run # "DISCONNECTED"
        BY <1>0, <3>2, <4>2, OpenedWired DEF Settled, Powered
      <4>3. QED
        BY <4>1, <4>2
    <3>4. QED
      BY <3>1, <3>3 DEF PowerPhase, Wired
  <2>2. CASE CloseDisable(t)
    <3>1. /\ pc[t] = "close_disable" /\ pc'[t] = "close_clear"
          /\ motorOn' = motorOn \ (IF controller THEN Wired ELSE {})
          /\ run' = run /\ run = "DISCONNECTED"
      BY <2>2, GotoLands
         DEF CloseDisable, At, Fails, armVars, SessionPhase, Down
    <3>2. motorOn' = {}
      BY <3>1 DEF PowerPhase
    <3>3. QED
      BY <3>1, <3>2 DEF PowerPhase, Powered
  <2>3. CASE CloseAbort(t) \/ CloseClear(t) \/ CloseCache(t)
    <3>1. /\ pc[t] \in {"close", "close_clear", "close_cache"}
          /\ UNCHANGED <<run, motorOn>>
          /\ pc'[t] \in {"close_force", "close_cache", "connect", "idle"}
      BY <2>3, GotoLands, ReturnLands
         DEF CloseAbort, CloseClear, CloseCache, At, armVars, motorVars
    <3>2. QED
      BY <3>1, QuietPowered DEF Powered
  <2>4. QED
    BY <1>2, <2>1, <2>2, <2>3 DEF Closing
<1>3. CASE Powering(t)
  <2>1. CASE EnableTransition(t) \/ DisableTransitions(t)
    <3>1. /\ pc[t] \in {"enable", "disable", "disable_idle"}
          /\ UNCHANGED motorOn
          /\ \/ pc'[t] \in {"enable_motors", "disable_motors"}
             \/ pc'[t] \in {"idle", "disable_idle", "disable_stop"} /\ run' = run
      BY <2>1, GotoLands, ReturnLands
         DEF EnableTransition, DisableTransitions, At, RunPhase, motorVars
    <3>2. QED
      BY <3>1 DEF PowerPhase, Powered
  <2>2. CASE EnableMotors(t)
    <3>1. pc[t] = "enable_motors" /\ run = "ENABLED" /\ UNCHANGED run
      BY <2>2 DEF EnableMotors, At, armVars, RunPhase, EndsEnabled
    <3>2. controller /\ Wired = Joints
      BY <1>0, <3>1, OpenedWired DEF SessionPhase, Unsettled, Settled
    <3>3. motorOn' = motorOn \cup Wired /\ pc'[t] = "enable_cache"
      BY <2>2, <3>2, GotoLands DEF EnableMotors, Fails
    <3>4. motorOn' = Joints
      BY <3>2, <3>3 DEF TypeOK
    <3>5. QED
      BY <3>1, <3>3, <3>4 DEF PowerPhase, Powered
  <2>3. CASE DisableMotors(t)
    <3>1. pc[t] = "disable_motors" /\ run = "IDLE" /\ UNCHANGED run
      BY <2>3 DEF DisableMotors, At, armVars, RunPhase
    <3>2. controller /\ Wired = Joints
      BY <1>0, <3>1, OpenedWired DEF SessionPhase, Unsettled, Settled
    <3>3. motorOn' = motorOn \ Wired /\ pc'[t] = "disable_cache"
      BY <2>3, <3>2, GotoLands DEF DisableMotors, Fails
    <3>4. motorOn' = {}
      BY <3>2, <3>3 DEF TypeOK
    <3>5. QED
      BY <3>1, <3>3, <3>4 DEF PowerPhase, Powered
  <2>4. CASE EnableCache(t) \/ DisableCache(t)
    <3>1. /\ pc[t] \in {"enable_cache", "disable_cache"} /\ pc'[t] = "idle"
          /\ UNCHANGED <<run, motorOn>>
      BY <2>4, ReturnLands DEF EnableCache, DisableCache, At, motorVars
    <3>2. QED
      BY <3>1, QuietPowered DEF Powered
  <2>5. QED
    BY <1>3, <2>1, <2>2, <2>3, <2>4 DEF Powering
<1>4. CASE Moving(t)
  <2>1. /\ UNCHANGED motorOn
        /\ pc[t] \notin {"close_disable", "enable_motors", "disable_motors",
                         "estop_force"}
    BY <1>4
       DEF Moving, Aiming, MoveJ, MoveJoint, GripperMove, MoveCartesian, Aim,
           UnknownJoint, NoGripper, Unsolvable, Refused, MotionGate, MotionRun,
           MotionCache, Waypoint, WaypointSend, RampSend, SendPoint, MotionEnd,
           MotionRestore, HomeStart, HomeRamp, At, motorVars
  <2>2. run' = run \/ {run, run'} = {"ENABLED", "RUNNING"}
    BY <1>4, AimingShape
       DEF Moving, MotionGate, MotionRun, MotionCache, Waypoint, WaypointSend,
           RampSend, SendPoint, MotionEnd, MotionRestore, HomeStart, HomeRamp,
           At, armVars, Runtime!Transition, Runtime!Accepts, Runtime!Allowed,
           RunPhase, OwnsRunning
  <2>3. Powered' = Powered
    BY <2>2 DEF Powered
  <2>4. pc'[t] \notin {"close_disable", "estop_force", "zero", "zero_joint"}
    BY <1>4, MovingLands DEF MovingSteps
  <2>5. QED
    BY <2>1, <2>3, <2>4, QuietPowered
<1>5. CASE Stopping(t)
  <2>1. CASE EstopAbort(t) \/ EstopDamp(t) \/ EstopCache(t)
    <3>1. /\ pc[t] \in {"estop", "estop_pose", "estop_damp", "estop_cache"}
          /\ UNCHANGED <<run, motorOn>>
          /\ pc'[t] \in {"estop_pose", "ensure", "estop_disable", "idle"}
      BY <2>1, GotoLands, ReturnLands, EnsureLands
         DEF EstopAbort, EstopDamp, EstopCache, At, armVars, motorVars
    <3>2. QED
      BY <3>1, QuietPowered DEF Powered
  <2>2. CASE EstopDisable(t)
    <3>1. pc[t] = "estop_disable" /\ controller
      BY <2>2 DEF EstopDisable, At, SessionPhase, InEstop, EstopSteps
    <3>2. Wired = Joints
      BY <1>0, <3>1, OpenedWired DEF SessionPhase, Unsettled, Settled, Closed
    <3>3. pc'[t] = "estop_force" /\ motorOn' = motorOn \ Wired
      BY <2>2, <3>1, GotoLands DEF EstopDisable, Fails
    <3>4. QED
      BY <3>2, <3>3 DEF PowerPhase, TypeOK
  <2>3. CASE EstopForce(t)
    <3>1. /\ motorOn' = {} /\ run' = "FAULT" /\ pc'[t] = "estop_cache"
      BY <2>3, GotoLands
         DEF EstopForce, At, PowerPhase, motorVars, Runtime!Force
    <3>2. QED
      BY <3>1 DEF PowerPhase, Powered
  <2>4. QED
    BY <1>5, <2>1, <2>2, <2>3 DEF Stopping
<1>6. CASE Commanding(t)
  <2>1. ~ZeroCalibrate(t) /\ ~ZeroJoint(t)
    BY DEF ZeroCalibrate, ZeroJoint, At, PowerPhase
  <2>2. /\ UNCHANGED <<run, motorOn>>
        /\ pc[t] \notin {"close_disable", "enable_motors", "disable_motors",
                         "estop_force", "zero"}
    BY <1>6, <2>1
       DEF Commanding, EnsureCached, EnsureJoint, ClearFaults, SetToDamping,
           Direct, DirectSend, JointCommand, WriteParam, ReadParam, GetFaults,
           Refused, At, armVars, motorVars
  <2>3. pc'[t] \notin {"close_disable", "estop_force", "zero", "zero_joint"}
    <3>1. CASE EnsureCached(t) \/ EnsureJoint(t)
      BY <1>6, <3>1, CommandingLands, LocalsTyped
         DEF EnsureCached, EnsureJoint, At, Continuations
    <3>2. CASE ~(EnsureCached(t) \/ EnsureJoint(t))
      BY <1>6, <2>1, <3>2, GotoLands, ReturnLands, EnsureLands
         DEF Commanding, ClearFaults, SetToDamping, Direct, DirectSend,
             JointCommand, WriteParam, ReadParam, GetFaults, Refused
    <3>3. QED
      BY <3>1, <3>2
  <2>4. QED
    BY <2>2, <2>3, QuietPowered DEF Powered
<1>7. QED
  BY <1>1, <1>2, <1>3, <1>4, <1>5, <1>6 DEF Step

(* Between calls the run state tells the truth about the power stage: the  *)
(* motors are energised in ENABLED and off in IDLE, FAULT and              *)
(* DISCONNECTED, and no motion is left marked RUNNING (arm.py:216): for    *)
(* any callers that do not overlap, make their sessions afresh and do not  *)
(* calibrate a zero, where opening the bus, the feedback, a setpoint and a *)
(* timeout may still fail.                                                 *)
THEOREM PowersTrackRun ==
  ASSUME Threads # {}, FreshSessions, NoZeroing,
         {"mode", "add", "enable", "disable", "status"} \cap Faults = {}
  PROVE  Spec /\ []OneAtATime => []PowerTracksRun
<1> DEFINE Truthful == \A t \in Threads : Sole(t) => PowerPhase(t)
<1>1. Init => Truthful
  BY DEF Init, PowerPhase, Powered
<1>2. /\ TypeOK /\ OneAtATime /\ OneAtATime' /\ Session /\ RunKnown
      /\ Truthful /\ [Next]_vars
      => Truthful'
  <2>1. SUFFICES ASSUME TypeOK, OneAtATime, OneAtATime', Session, RunKnown,
                        Truthful, [Next]_vars, NEW u \in Threads, Sole(u)'
                 PROVE  PowerPhase(u)'
    OBVIOUS
  <2>2. CASE UNCHANGED vars
    BY <2>1, <2>2
       DEF vars, armVars, sessionVars, motorVars, Sole, PowerPhase, Powered,
           Wired
  <2>3. ASSUME NEW t \in Threads, Step(t)
        PROVE  PowerPhase(u)'
    <3>1. PowerPhase(t)'
      BY <2>1, <2>3, StepSole, PowerPhaseStep DEF Session, RunKnown
    <3>2. CASE u # t
      <4>1. pc'[u] = "idle" /\ pc'[t] = "idle"
        BY <2>1, <2>3, <3>2, StepSole DEF Sole
      <4>2. QED
        BY <3>1, <4>1 DEF PowerPhase
    <3>3. QED
      BY <3>1, <3>2
  <2>4. ASSUME NEW t \in Threads, NEW op \in Operations, Call(t, op)
        PROVE  PowerPhase(u)'
    <3>1. /\ Sole(t) /\ pc[t] = "idle" /\ pc'[t] = FirstStep(op)
          /\ pc'[t] # "idle" /\ UNCHANGED <<run, motorOn>>
          /\ op \notin {"zero_calibrate", "zero_joint"}
      BY <2>1, <2>4, CallSole DEF armVars, motorVars, NoZeroing
    <3>2. u = t
      BY <2>1, <3>1 DEF Sole
    <3>3. PowerPhase(t)
      BY <2>1, <3>1
    <3>4. pc'[t] \notin {"close_disable", "estop_force", "zero", "zero_joint"}
      BY <3>1 DEF FirstStep, Operations
    <3>5. QED
      BY <3>1, <3>2, <3>3, <3>4, QuietPowered DEF Powered
  <2>5. CASE OtherUser
    BY <2>1, <2>5
       DEF OtherUser, armVars, sessionVars, Sole, PowerPhase, Powered, Wired
  <2>6. QED
    BY <2>1, <2>2, <2>3, <2>4, <2>5 DEF Next
<1>3. TypeOK /\ RunKnown /\ Truthful => PowerTracksRun
  <2>1. SUFFICES ASSUME TypeOK, RunKnown, Truthful, Quiet
                 PROVE  /\ run \in {"IDLE", "ENABLED", "FAULT", "DISCONNECTED"}
                        /\ motorOn = IF run = "ENABLED" THEN Joints ELSE {}
    BY DEF PowerTracksRun
  <2>2. PICK t \in Threads : TRUE
    OBVIOUS
  <2>3. pc[t] = "idle" /\ PowerPhase(t) /\ RunPhase(t)
    BY <2>1 DEF Quiet, At, Sole, RunKnown
  <2>4. run # "RUNNING"
    BY <2>3 DEF RunPhase, OwnsRunning
  <2>5. QED
    BY <2>1, <2>3, <2>4 DEF PowerPhase, Powered, TypeOK, Runtime!RunStates
<1>4. Spec /\ []OneAtATime => []Session /\ []RunKnown
  BY SessionInv, RunInv
<1>5. QED
  BY <1>1, <1>2, <1>3, <1>4, TypeCorrect, PTL DEF Spec

-----------------------------------------------------------------------------
(* An application with a single thread needs no assumption on its          *)
(* behaviour: its calls cannot overlap.                                    *)
SingleCaller == \E t \in Threads : Threads = {t}

(* One thread makes one call at a time.                                    *)
LEMMA SingleCallerWaits ==
  ASSUME SingleCaller
  PROVE  Threads # {} /\ OneAtATime
BY DEF SingleCaller, OneAtATime

(* Every setpoint of a single caller goes to motors that are in the mode   *)
(* it is meant for (session.py:162).                                       *)
COROLLARY SingleCallerModes ==
  ASSUME SingleCaller, KeepsModes, "mode" \notin Faults
  PROVE  Spec => []SetpointMeetsMode
BY SingleCallerWaits, SetpointsMeetModes, PTL

(* Between the calls of a single caller the session, the cache and the     *)
(* power stage agree with the run state, whatever it calls in whatever     *)
(* order: the three theorems above under the hypotheses of all three.      *)
COROLLARY SingleCallerBooks ==
  ASSUME SingleCaller, FreshSessions, NoDamping, NoZeroing,
         {"mode", "add", "enable", "disable", "status"} \cap Faults = {}
  PROVE  Spec => [](SessionMatchesRun /\ CacheTracksRun /\ PowerTracksRun)
<1>1. Threads # {} /\ OneAtATime
  BY SingleCallerWaits
<1>2. Spec /\ []OneAtATime => []SessionMatchesRun
  BY <1>1, SessionsMatchRun
<1>3. Spec /\ []OneAtATime => []CacheTracksRun
  BY <1>1, CachesTrackRun
<1>4. Spec /\ []OneAtATime => []PowerTracksRun
  BY <1>1, PowersTrackRun
<1>5. QED
  BY SingleCallerWaits, <1>2, <1>3, <1>4, PTL

-----------------------------------------------------------------------------
(***************************************************************************)
(* One commander: of all the threads only m opens, powers and moves the    *)
(* arm, and keeps connect() for an arm that is closed or in FAULT; besides *)
(* it only o disables the motors.  The others may close, stop and clear    *)
(* the arm and send it setpoints, in any number and at any time.           *)
(***************************************************************************)
Commands == {"connect", "reconnect", "enable", "move_j", "home", "move_joint",
             "gripper_move", "move_l", "execute", "reset_to_home"}

OneCommander(m, o) ==
  /\ "connect" \in Menu[m] => "connect" \in ClosedOnly
  /\ \A t \in Threads \ {m}    : Menu[t] \cap Commands = {}
  /\ \A t \in Threads \ {m, o} : "disable" \notin Menu[t]

(* The steps of these commands, and those of disable() that move the run   *)
(* state.                                                                  *)
ConnectSteps == {"connect", "connect_transition", "connect_open",
                 "connect_add", "connect_cache", "connect_force",
                 "connect_uncache"}
CommandSteps == ConnectSteps \cup EnableSteps \cup MovingSteps \cup
                {"move_joint", "gripper_move", "move_l", "motion_cache",
                 "motion_recache", "reset_to_home", "ramp_run"}
DisableSteps == {"disable", "disable_stop", "disable_idle"}

InCommand(t) ==
  \/ pc[t] \in CommandSteps
  \/ /\ pc[t] \in {"ensure", "ensure_joint"}
     /\ loc[t].after \in {"motion_cache", "motion_recache", "ramp_run"}

(* Thread t keeps to its role.                                             *)
InRole(m, o, t) ==
  /\ InCommand(t) => t = m
  /\ pc[t] \in DisableSteps => t \in {m, o}

(* What connect() finds, and rolls back to.  Between the close() and the   *)
(* connect() of a reconnect() the other threads can force FAULT or disable *)
(* the arm to IDLE, and then o is not in the middle of a disable() that    *)
(* saw RUNNING.  After that nobody moves the arm back to RUNNING, and from *)
(* every other state the table leads to IDLE.                              *)
FoundDown(m, o) ==
  /\ pc[m] \in {"close_disable", "close_clear", "close_cache", "connect"} =>
       \/ run \in {"DISCONNECTED", "FAULT"}
       \/ run = "IDLE" /\ ~At(o, "disable_stop")
  /\ pc[m] \in ConnectSteps \ {"connect"} =>
       /\ run # "RUNNING"
       /\ loc[m].prev \in {"DISCONNECTED", "IDLE", "FAULT"}

(* A rollback of connect() to a state the table leads to, or to one that   *)
(* estop() and close() may force as well.                                  *)
RollbackLegal ==
  \A t \in Threads :
    At(t, "connect_force") =>
      \/ loc[t].prev \in {"FAULT", "DISCONNECTED"}
      \/ Runtime!Accepts(run, loc[t].prev)

(* Every step of a call moves the run state as RuntimeStateMachine allows. *)
LEMMA RunStep ==
  ASSUME TypeOK, RollbackLegal, NEW t \in Threads, Step(t)
  PROVE  Runtime!Next \/ run' = run
<1>0. /\ {"IDLE", "ENABLED", "RUNNING"} \subseteq Runtime!RunStates
      /\ loc[t].prev \in Runtime!RunStates
  BY LocalsTyped DEF Runtime!RunStates
<1>1. CASE Connecting(t)
  <2>1. CASE ConnectRollback(t)
    <3>1. CASE At(t, "connect_force")
      BY <1>0, <2>1, <3>1
         DEF ConnectRollback, At, RollbackLegal, Runtime!Next,
             Runtime!Transition, Runtime!Force
    <3>2. CASE ~At(t, "connect_force")
      BY <2>1, <3>2 DEF ConnectRollback
    <3>3. QED
      BY <3>1, <3>2
  <2>2. CASE ~ConnectRollback(t)
    BY <1>0, <1>1, <2>2
       DEF Connecting, ConnectPrev, ConnectTransition, ConnectOpen, ConnectAdd,
           ConnectCache, Runtime!Next, armVars
  <2>3. QED
    BY <2>1, <2>2
<1>2. CASE Closing(t)
  BY <1>2
     DEF Closing, CloseAbort, CloseForce, CloseDisable, CloseClear,
         CloseCache, Runtime!Next, armVars
<1>3. CASE Powering(t)
  BY <1>0, <1>3
     DEF Powering, EnableTransition, EnableMotors, EnableCache,
         DisableTransitions, DisableMotors, DisableCache, Runtime!Next, armVars
<1>4. CASE Moving(t)
  <2>1. CASE \/ Aiming(t) \/ MotionGate(t) \/ MotionCache(t) \/ Waypoint(t)
             \/ WaypointSend(t) \/ RampSend(t) \/ MotionRestore(t)
    BY <2>1, AimingShape
       DEF MotionGate, MotionCache, Waypoint, WaypointSend, RampSend,
           SendPoint, MotionRestore, armVars
  <2>2. CASE MotionRun(t) \/ MotionEnd(t) \/ HomeStart(t) \/ HomeRamp(t)
    BY <1>0, <2>2
       DEF MotionRun, MotionEnd, HomeStart, HomeRamp, Runtime!Next
  <2>3. QED
    BY <1>4, <2>1, <2>2 DEF Moving
<1>5. CASE Stopping(t)
  BY <1>5
     DEF Stopping, EstopAbort, EstopDamp, EstopDisable, EstopForce,
         EstopCache, Runtime!Next, armVars
<1>6. CASE Commanding(t)
  BY <1>6
     DEF Commanding, EnsureCached, EnsureJoint, ClearFaults, SetToDamping,
         Direct, DirectSend, JointCommand, ZeroCalibrate, ZeroJoint,
         WriteParam, ReadParam, GetFaults, Refused, armVars
<1>7. QED
  BY <1>1, <1>2, <1>3, <1>4, <1>5, <1>6 DEF Step

(* A thread outside the commands has none of their steps to take.          *)
LEMMA BystanderIdle ==
  ASSUME NEW t \in Threads, ~InCommand(t)
  PROVE  ~Connecting(t) /\ ~Moving(t)
<1> USE DEF InCommand, CommandSteps, ConnectSteps, EnableSteps, MovingSteps
<1>1. ~Connecting(t)
  BY DEF Connecting, ConnectPrev, ConnectTransition, ConnectOpen, ConnectAdd,
         ConnectCache, ConnectRollback, At
<1>2. ~Aiming(t)
  BY DEF Aiming, MoveJ, MoveJoint, GripperMove, MoveCartesian, Aim, Refused,
         UnknownJoint, NoGripper, Unsolvable, At
<1>3. ~(MotionGate(t) \/ MotionRun(t) \/ MotionCache(t) \/ Waypoint(t))
  BY DEF MotionGate, MotionRun, MotionCache, Waypoint, At
<1>4. ~(MotionEnd(t) \/ MotionRestore(t) \/ HomeStart(t) \/ HomeRamp(t))
  BY DEF MotionEnd, MotionRestore, HomeStart, HomeRamp, At
<1>5. ~(WaypointSend(t) \/ RampSend(t))
  BY DEF WaypointSend, RampSend, SendPoint, At
<1>6. QED
  BY <1>1, <1>2, <1>3, <1>4, <1>5 DEF Moving

(* A step of another thread stays outside the commands, and enters         *)
(* disable() nowhere.                                                      *)
LEMMA BystanderStep ==
  ASSUME TypeOK, NEW t \in Threads, Step(t), ~InCommand(t),
         loc[t].op # "reconnect"
  PROVE  /\ ~InCommand(t)'
         /\ pc'[t] \in DisableSteps => pc[t] \in DisableSteps
<1> USE DEF InCommand, CommandSteps, ConnectSteps, EnableSteps, MovingSteps,
            DisableSteps
<1>1. ~Connecting(t) /\ ~Moving(t)
  BY BystanderIdle
<1>2. CASE Closing(t)
  <2>1. pc'[t] \in {"close_force", "close_disable", "close_clear",
                    "close_cache", "idle"}
    BY <1>2, GotoLands, ReturnLands
       DEF Closing, CloseAbort, CloseForce, CloseDisable, CloseClear,
           CloseCache, Lands
  <2>2. QED
    BY <2>1
<1>3. CASE Powering(t)
  <2>1. ~(EnableTransition(t) \/ EnableMotors(t) \/ EnableCache(t))
    BY DEF EnableTransition, EnableMotors, EnableCache, At
  <2>2. pc'[t] \in {"disable_stop", "disable_idle", "disable_motors",
                    "disable_cache", "idle"}
    BY <1>3, <2>1, GotoLands, ReturnLands
       DEF Powering, DisableTransitions, DisableMotors, DisableCache, Lands
  <2>3. pc'[t] \in DisableSteps => pc[t] \in DisableSteps
    BY <1>3, <2>1, GotoLands, ReturnLands
       DEF Powering, DisableTransitions, DisableMotors, DisableCache, Lands, At
  <2>4. QED
    BY <2>2, <2>3
<1>4. CASE Stopping(t)
  <2>1. CASE EnsureMode(t, "MIT", "estop_damp")
    BY <2>1, EnsureLands DEF Lands
  <2>2. CASE ~EnsureMode(t, "MIT", "estop_damp")
    <3>1. pc'[t] \in EstopSteps \cup {"idle"}
      BY <1>4, <2>2, GotoLands, ReturnLands
         DEF Stopping, EstopAbort, EstopDamp, EstopDisable, EstopForce,
             EstopCache, Lands, EstopSteps
    <3>2. QED
      BY <3>1 DEF EstopSteps
  <2>3. QED
    BY <2>1, <2>2
<1>5. CASE Commanding(t)
  <2>1. loc[t].after \in Continuations
    BY LocalsTyped
  <2>2. QED
    BY <1>5, <2>1, CommandingLands DEF Continuations
<1>6. QED
  BY <1>1, <1>2, <1>3, <1>4, <1>5 DEF Step

(* Each thread keeps to its role.                                          *)
LEMMA RolesKept ==
  ASSUME NEW m \in Threads, NEW o \in Threads, OneCommander(m, o)
  PROVE  Spec => [](\A t \in Threads : InRole(m, o, t))
<1> DEFINE Inv == \A t \in Threads : InRole(m, o, t)
<1>1. Init => Inv
  BY DEF Init, InRole, InCommand, CommandSteps, ConnectSteps, EnableSteps,
         MovingSteps, DisableSteps
<1>2. TypeOK /\ (\A t \in Threads : Origin(t)) /\ Inv /\ [Next]_vars => Inv'
  <2>1. SUFFICES ASSUME TypeOK, \A t \in Threads : Origin(t), Inv, [Next]_vars,
                        NEW u \in Threads
                 PROVE  InRole(m, o, u)'
    OBVIOUS
  <2>2. CASE UNCHANGED <<pc, loc>>
    BY <2>1, <2>2 DEF InRole, InCommand
  <2>3. ASSUME NEW t \in Threads, Step(t)
        PROVE  InRole(m, o, u)'
    <3>1. CASE u = t
      <4>1. CASE t = m
        BY <3>1, <4>1 DEF InRole
      <4>2. CASE t # m
        <5>1. loc[t].op # "reconnect"
          BY <2>1, <4>2 DEF Origin, OneCommander, Commands
        <5>2. ~InCommand(t)
          BY <2>1, <4>2 DEF InRole
        <5>3. QED
          BY <2>1, <2>3, <3>1, <5>1, <5>2, BystanderStep DEF InRole
      <4>3. QED
        BY <4>1, <4>2
    <3>2. CASE u # t
      BY <2>1, <2>3, <3>2, StepOthers DEF Others, InRole, InCommand
    <3>3. QED
      BY <3>1, <3>2
  <2>4. ASSUME NEW t \in Threads, NEW op \in Operations, Call(t, op)
        PROVE  InRole(m, o, u)'
    <3>1. CASE u = t
      <4>1. op \in Menu[t] /\ pc'[t] = FirstStep(op)
        BY <2>1, <2>4 DEF Call, TypeOK
      <4>2. /\ FirstStep(op) \in CommandSteps => op \in Commands
            /\ FirstStep(op) \in DisableSteps => op = "disable"
            /\ FirstStep(op) \notin {"ensure", "ensure_joint"}
        BY DEF FirstStep, Operations, CommandSteps, ConnectSteps, EnableSteps,
               MovingSteps, DisableSteps, Commands
      <4>3. QED
        BY <3>1, <4>1, <4>2 DEF InRole, InCommand, OneCommander
    <3>2. CASE u # t
      <4>1. pc'[u] = pc[u] /\ loc'[u] = loc[u]
        BY <2>1, <2>4, <3>2 DEF Call, TypeOK
      <4>2. QED
        BY <2>1, <4>1 DEF InRole, InCommand
    <3>3. QED
      BY <3>1, <3>2
  <2>5. QED
    BY <2>1, <2>2, <2>3, <2>4 DEF Next, OtherUser, vars
<1>3. QED
  BY <1>1, <1>2, TypeCorrect, OriginInv, PTL DEF Spec

(* What a thread outside the commands may do to the run state: force it,   *)
(* or move it on behalf of disable().                                      *)
LEMMA BystanderRun ==
  ASSUME TypeOK, NEW t \in Threads, Step(t), ~InCommand(t)
  PROVE  /\ \/ UNCHANGED run
            \/ run' \in {"DISCONNECTED", "FAULT"}
            \/ /\ At(t, "disable_stop")
               /\ Runtime!Accepts(run, "ENABLED") /\ run' = "ENABLED"
            \/ /\ At(t, "disable_idle") /\ run' = "IDLE"
               /\ pc'[t] # "disable_stop"
         /\ pc'[t] = "disable_stop" => run = "RUNNING"
<1> USE DEF InCommand, CommandSteps, ConnectSteps, EnableSteps, MovingSteps
<1>1. ~Connecting(t) /\ ~Moving(t)
  BY BystanderIdle
<1>2. CASE Closing(t)
  BY <1>2, GotoLands, ReturnLands
     DEF Closing, CloseAbort, CloseForce, CloseDisable, CloseClear,
         CloseCache, Lands, Runtime!Force, armVars
<1>3. CASE Powering(t)
  <2>1. ~(EnableTransition(t) \/ EnableMotors(t) \/ EnableCache(t))
    BY DEF EnableTransition, EnableMotors, EnableCache, At
  <2>2. CASE At(t, "disable")
    BY <1>3, <2>1, <2>2, GotoLands, ReturnLands
       DEF Powering, DisableTransitions, DisableMotors, DisableCache, At, Lands
  <2>3. CASE At(t, "disable_stop")
    BY <1>3, <2>1, <2>3, GotoLands, ReturnLands
       DEF Powering, DisableTransitions, DisableMotors, DisableCache, At,
           Lands, Runtime!Transition
  <2>4. CASE At(t, "disable_idle")
    BY <1>3, <2>1, <2>4, GotoLands, ReturnLands
       DEF Powering, DisableTransitions, DisableMotors, DisableCache, At,
           Lands, Runtime!Transition
  <2>5. CASE DisableMotors(t) \/ DisableCache(t)
    BY <2>5, GotoLands, ReturnLands
       DEF DisableMotors, DisableCache, Lands, armVars
  <2>6. QED
    BY <1>3, <2>1, <2>2, <2>3, <2>4, <2>5 DEF Powering, DisableTransitions
<1>4. CASE Stopping(t)
  <2>1. UNCHANGED run \/ run' = "FAULT"
    BY <1>4
       DEF Stopping, EstopAbort, EstopDamp, EstopDisable, EstopForce,
           EstopCache, Runtime!Force, armVars
  <2>2. pc'[t] # "disable_stop"
    BY <1>4, GotoLands, ReturnLands, EnsureLands
       DEF Stopping, EstopAbort, EstopDamp, EstopDisable, EstopForce,
           EstopCache, Lands
  <2>3. QED
    BY <2>1, <2>2
<1>5. CASE Commanding(t)
  <2>1. UNCHANGED run
    BY <1>5
       DEF Commanding, EnsureCached, EnsureJoint, ClearFaults, SetToDamping,
           Direct, DirectSend, JointCommand, ZeroCalibrate, ZeroJoint,
           WriteParam, ReadParam, GetFaults, Refused, armVars
  <2>2. loc[t].after \in Continuations
    BY LocalsTyped
  <2>3. QED
    BY <1>5, <2>1, <2>2, CommandingLands DEF Continuations
<1>6. QED
  BY <1>1, <1>2, <1>3, <1>4, <1>5 DEF Step

(* A step of another thread leaves what connect() finds, and rolls back    *)
(* to, as it should be.                                                    *)
LEMMA FoundBystander ==
  ASSUME TypeOK, NEW m \in Threads, NEW o \in Threads, FoundDown(m, o),
         NEW t \in Threads, t # m, InRole(m, o, t), Step(t)
  PROVE  FoundDown(m, o)'
<1>1. ~InCommand(t) /\ (pc[t] \in DisableSteps => t = o)
  BY DEF InRole
<1>2. pc'[m] = pc[m] /\ loc'[m] = loc[m] /\ (t # o => pc'[o] = pc[o])
  BY StepOthers DEF Others
<1>3. /\ \/ UNCHANGED run
         \/ run' \in {"DISCONNECTED", "FAULT"}
         \/ /\ At(o, "disable_stop")
            /\ Runtime!Accepts(run, "ENABLED") /\ run' = "ENABLED"
         \/ run' = "IDLE" /\ ~At(o, "disable_stop")'
      /\ t = o /\ At(o, "disable_stop")' => run = "RUNNING"
  BY <1>1, BystanderRun DEF At, DisableSteps
<1>4. QED
  BY <1>2, <1>3 DEF FoundDown, At, Runtime!Accepts, Runtime!Allowed

(* The commander's own steps do so as well.                                *)
LEMMA FoundCommander ==
  ASSUME TypeOK, NEW m \in Threads, NEW o \in Threads, FoundDown(m, o), Step(m)
  PROVE  FoundDown(m, o)'
<1> USE DEF ConnectSteps
<1>0. o # m => pc'[o] = pc[o]
  BY StepOthers DEF Others
<1>1. CASE Connecting(m)
  <2>1. CASE ConnectPrev(m)
    <3>1. /\ pc'[m] = "connect_transition" /\ loc'[m].prev = run
          /\ UNCHANGED run
      BY <2>1, ConnectPrevLands DEF Lands, ConnectPrev, armVars
    <3>2. pc[m] = "connect"
      BY <2>1 DEF ConnectPrev, At
    <3>3. QED
      BY <3>1, <3>2 DEF FoundDown
  <2>2. CASE ConnectAdd(m) /\ UNCHANGED pc
    <3>1. pc[m] = "connect_add" /\ UNCHANGED run
      BY <2>2 DEF ConnectAdd, At, armVars
    <3>2. loc'[m].prev = loc[m].prev
      BY <2>2, AdvanceLands, GotoLands DEF ConnectAdd, Keeps
    <3>3. QED
      BY <2>2, <3>1, <3>2 DEF FoundDown
  <2>3. CASE ~ConnectPrev(m) /\ ~(ConnectAdd(m) /\ UNCHANGED pc)
    <3>1. /\ pc[m] \in ConnectSteps \ {"connect"}
          /\ UNCHANGED run \/ run' = "IDLE" \/ pc'[m] = "connect_uncache"
          /\ \/ pc'[m] = "idle"
             \/ pc'[m] \in ConnectSteps \ {"connect"} /\ loc' = loc
      BY <1>1, <2>3, GotoLands, ReturnLands
         DEF Connecting, ConnectTransition, ConnectOpen, ConnectAdd,
             ConnectCache, ConnectRollback, At, Lands, Runtime!Transition,
             armVars
    <3>2. CASE pc'[m] # "connect_uncache"
      BY <3>1, <3>2 DEF FoundDown
    <3>3. CASE pc'[m] = "connect_uncache"
      <4>1. ConnectRollback(m) /\ At(m, "connect_force")
        BY <1>1, <2>3, <3>3, GotoLands, ReturnLands
           DEF Connecting, ConnectTransition, ConnectOpen, ConnectAdd,
               ConnectCache, ConnectRollback, Lands
      <4>2. run' = loc[m].prev
        BY <4>1 DEF ConnectRollback, At, Runtime!Force
      <4>3. QED
        BY <3>1, <3>3, <4>2 DEF FoundDown
    <3>4. QED
      BY <3>2, <3>3
  <2>4. QED
    BY <2>1, <2>2, <2>3
<1>2. CASE Closing(m)
  <2>1. CASE CloseForce(m)
    BY <2>1, GotoLands DEF CloseForce, Runtime!Force, Lands, FoundDown
  <2>2. CASE CloseAbort(m)
    BY <2>2, GotoLands DEF CloseAbort, Lands, FoundDown
  <2>3. CASE CloseDisable(m) \/ CloseClear(m) \/ CloseCache(m)
    <3>1. /\ pc[m] \in {"close_disable", "close_clear", "close_cache"}
          /\ pc'[m] \in {"close_clear", "close_cache", "connect", "idle"}
          /\ UNCHANGED run
      BY <2>3, GotoLands, ReturnLands
         DEF CloseDisable, CloseClear, CloseCache, At, Lands, armVars
    <3>2. o = m => ~At(o, "disable_stop")'
      BY <3>1 DEF At
    <3>3. QED
      BY <1>0, <3>1, <3>2 DEF FoundDown, At
  <2>4. QED
    BY <1>2, <2>1, <2>2, <2>3 DEF Closing
<1>3. CASE Powering(m) \/ Moving(m) \/ Stopping(m) \/ Commanding(m)
  BY <1>3, StepElsewhere DEF FoundDown, UndoSteps
<1>4. QED
  BY <1>1, <1>2, <1>3 DEF Step

(* connect() finds the arm closed, idle or in FAULT.                       *)
LEMMA FoundInv ==
  ASSUME NEW m \in Threads, NEW o \in Threads, OneCommander(m, o)
  PROVE  Spec => []FoundDown(m, o)
<1> DEFINE Roles == \A t \in Threads : InRole(m, o, t)
<1>1. Init => FoundDown(m, o)
  BY DEF Init, FoundDown, ConnectSteps
<1>2. TypeOK /\ Roles /\ FoundDown(m, o) /\ [Next]_vars => FoundDown(m, o)'
  <2>1. SUFFICES ASSUME TypeOK, Roles, FoundDown(m, o), [Next]_vars
                 PROVE  FoundDown(m, o)'
    OBVIOUS
  <2>2. CASE UNCHANGED <<run, pc, loc>>
    BY <2>1, <2>2 DEF FoundDown, At
  <2>3. ASSUME NEW t \in Threads, Step(t)
        PROVE  FoundDown(m, o)'
    BY <2>1, <2>3, FoundBystander, FoundCommander
  <2>4. ASSUME NEW t \in Threads, NEW op \in Operations, Call(t, op)
        PROVE  FoundDown(m, o)'
    <3>1. /\ UNCHANGED run
          /\ op \in Menu[t] /\ At(t, "idle") /\ pc'[t] = FirstStep(op)
          /\ op \in ClosedOnly => run \in {"DISCONNECTED", "FAULT"}
          /\ \A u \in Threads \ {t} : pc'[u] = pc[u] /\ loc'[u] = loc[u]
      BY <2>1, <2>4 DEF Call, TypeOK, armVars
    <3>2. /\ FirstStep(op) # "disable_stop"
          /\ FirstStep(op) \notin {"close_disable", "close_clear",
                                   "close_cache"} \cup (ConnectSteps \ {"connect"})
          /\ FirstStep(op) = "connect" => op = "connect"
      BY DEF FirstStep, Operations, ConnectSteps
    <3>3. ~At(o, "disable_stop") => ~At(o, "disable_stop")'
      BY <3>1, <3>2 DEF At
    <3>4. CASE t = m
      BY <3>1, <3>2, <3>4 DEF FoundDown, OneCommander
    <3>5. CASE t # m
      BY <2>1, <3>1, <3>3, <3>5 DEF FoundDown
    <3>6. QED
      BY <3>4, <3>5
  <2>5. QED
    BY <2>1, <2>2, <2>3, <2>4 DEF Next, OtherUser, vars, armVars
<1>3. QED
  BY <1>1, <1>2, RolesKept, TypeCorrect, PTL DEF Spec

(* One commander's connect() rolls back to where the table or a force      *)
(* leads, and never to RUNNING.                                            *)
LEMMA FoundRollback ==
  ASSUME TypeOK, NEW m \in Threads, NEW o \in Threads, FoundDown(m, o),
         \A t \in Threads : InRole(m, o, t)
  PROVE  RollbackLegal /\ NoRollback
<1>1. ASSUME NEW t \in Threads, At(t, "connect_force")
      PROVE  t = m
  BY <1>1 DEF InRole, InCommand, CommandSteps, ConnectSteps, At
<1>2. At(m, "connect_force") =>
        /\ run \in Runtime!RunStates \ {"RUNNING"}
        /\ loc[m].prev \in {"DISCONNECTED", "IDLE", "FAULT"}
  BY DEF FoundDown, ConnectSteps, At, TypeOK
<1>3. run \in Runtime!RunStates \ {"RUNNING"} => Runtime!Accepts(run, "IDLE")
  BY DEF Runtime!RunStates, Runtime!Accepts, Runtime!Allowed
<1>4. QED
  BY <1>1, <1>2, <1>3 DEF RollbackLegal, NoRollback

(* Under one commander the arm implements the run state machine: for any   *)
(* number of threads that close, stop, clear and command it meanwhile and  *)
(* any failures, those in the middle of connect() included, the run state  *)
(* moves along _ALLOWED or is forced to FAULT or DISCONNECTED              *)
(* (state_machine.py:20, arm.py:121).                                      *)
THEOREM ArmRuntime ==
  ASSUME NEW m \in Threads, NEW o \in Threads, OneCommander(m, o)
  PROVE  Spec => RuntimeSpec
<1>1. Init => Runtime!Init
  BY DEF Init, Runtime!Init
<1>2. TypeOK /\ RollbackLegal /\ [Next]_vars => [Runtime!Next]_run
  <2>1. SUFFICES ASSUME TypeOK, RollbackLegal, [Next]_vars
                 PROVE  Runtime!Next \/ run' = run
    OBVIOUS
  <2>2. ASSUME NEW t \in Threads, Step(t)
        PROVE  Runtime!Next \/ run' = run
    BY <2>1, <2>2, RunStep
  <2>3. CASE ~\E t \in Threads : Step(t)
    BY <2>1, <2>3 DEF Next, Call, OtherUser, vars, armVars
  <2>4. QED
    BY <2>2, <2>3
<1>3. TypeOK /\ FoundDown(m, o) /\ (\A t \in Threads : InRole(m, o, t)) =>
        RollbackLegal
  BY FoundRollback
<1>4. QED
  BY <1>1, <1>2, <1>3, TypeCorrect, FoundInv, RolesKept, PTL
     DEF Spec, RuntimeSpec, Runtime!Spec

(* Under one commander RUNNING has an owner too, over every close(),       *)
(* reconnect() and failing connect(), where mode switches do not fail.     *)
COROLLARY CommandedRunningIsOwned ==
  ASSUME NEW m \in Threads, NEW o \in Threads, OneCommander(m, o),
         "mode" \notin Faults
  PROVE  Spec => []RunningHasMotion
<1>1. TypeOK /\ FoundDown(m, o) /\ (\A t \in Threads : InRole(m, o, t)) =>
        NoRollback
  BY FoundRollback
<1>2. QED
  BY <1>1, TypeCorrect, FoundInv, RolesKept, RunningIsOwned, PTL
=============================================================================
