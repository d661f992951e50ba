-------------------------- MODULE CartesianControl --------------------------
(***************************************************************************)
(* CartesianController (controllers/cartesian_controller.py) over a        *)
(* RealtimeController (controllers/realtime_controller.py) and its         *)
(* JointStateInterpolator: the application starts and stops the controller *)
(* and replaces the trajectory, the thread of the loop queries it at its   *)
(* own time and sends what it gets.  The two share _traj without a lock:   *)
(* each access of the loop to it is a step, and so is each assignment or   *)
(* append of the application.                                              *)
(*                                                                         *)
(* Each controller counts time from its own _t0.  The arm is where it was  *)
(* commanded last, and a tick is shorter than the two seconds stop() waits *)
(* for the thread.  Inverse kinematics is the application's choice of a    *)
(* position, and takes time.                                               *)
(***************************************************************************)
EXTENDS Interpolator

CONSTANTS
  Positions,   (* the positions the application asks for                   *)
  Home,        (* default_home                                             *)
  HomeTime,    (* the two seconds of reset_to_home()                       *)
  Speed,       (* no waypoint is further than this per unit of time        *)
  MaxLag,      (* bound: lag; twice this time is enough to go anywhere     *)
  MaxClock,    (* bound: the clock                                         *)
  MaxCalls     (* bound: calls of the application                          *)

ASSUME ConstantsAssumption ==
  /\ Positions \subseteq Int /\ Home \in Int
  /\ HomeTime \in Nat \ {0} /\ Speed \in Nat
  /\ MaxLag \in Nat /\ MaxClock \in Nat /\ MaxCalls \in Nat
  /\ \A p, q \in Positions \cup {Home} : p - q <= 2 * Speed * MaxLag

VARIABLES
  clock,           (* time.monotonic()                                     *)
  traj,            (* JointStateInterpolator._traj                         *)
  running, t0,     (* CartesianController._running, _t0                    *)
  rtRunning, rt0,  (* RealtimeController._running, _t0                     *)
  stopEvent,       (* RealtimeController._stop_event                       *)
  apc,             (* application: its next step                           *)
  call,            (* application: the time its call began, the position   *)
                   (*   it has read, the lists it has still to append      *)
  lpc,             (* loop: its next step                                  *)
  tick,            (* loop: query time, index, loop bound, left waypoint   *)
  cmd,             (* the last command sent, and its query time            *)
  calls,           (* calls so far, to bound the model                     *)
  raised,          (* history: a start() failed and no stop() since        *)
  stray,           (* history: since start() a query has met a change of   *)
                   (*   traj, or a reset_to_home() a command               *)
  lag              (* history: between the time a change of traj reckons   *)
                   (*   with and the time it is made, since the command    *)

ctrlVars == <<running, t0, rtRunning, rt0, stopEvent>>
appVars  == <<apc, call, calls, raised>>
loopVars == <<lpc, tick, cmd>>
vars == <<clock, traj, ctrlVars, appVars, loopVars, stray, lag>>

Distance(a, b) == IF a < b THEN b - a ELSE a - b

(* CartesianController.time, and the time of the loop. *)
Time   == IF running THEN clock - t0 ELSE 0
RtTime == clock - rt0

LoopAlive == lpc # "none"
Querying  == lpc \notin {"none", "test"}

NoCall == [now |-> 0, q |-> Home, rest |-> <<>>]
NoTick == [time |-> 0, i |-> 1, size |-> 0, s |-> [ts |-> 0, pos |-> Home]]

Init ==
  /\ clock = 0 /\ traj = <<>>
  /\ running = FALSE /\ t0 = 0 /\ rtRunning = FALSE /\ rt0 = 0
  /\ stopEvent = FALSE
  /\ apc = "idle" /\ call = NoCall
  /\ lpc = "none" /\ tick = NoTick
  /\ cmd = [pos |-> Home, time |-> 0]
  /\ calls = 0 /\ raised = FALSE
  /\ stray = FALSE /\ lag = 0

(* Bound: no time passes while the controller does not run; every use of   *)
(* the clock is relative to the start.                                     *)
Clock ==
  /\ running /\ clock < MaxClock
  /\ clock' = clock + 1
  /\ UNCHANGED <<traj, ctrlVars, appVars, loopVars, stray, lag>>

-----------------------------------------------------------------------------
(***************************************************************************)
(* The application.  An exception ends its call.                           *)
(***************************************************************************)
Call(step) ==
  /\ apc = "idle" /\ calls < MaxCalls
  /\ calls' = calls + 1
  /\ apc' = step

Return == apc' = "idle" /\ call' = NoCall

(* The list is replaced, or grows; the change reckons with time began and  *)
(* position q.                                                             *)
ChangeFrom(q, list, began) ==
  /\ traj' = list
  /\ stray' = (stray \/ Querying \/ (LoopAlive /\ q # cmd.pos))
  /\ lag' = LET late == lag + Distance(RtTime, began) IN
            IF ~LoopAlive THEN lag ELSE IF late < MaxLag THEN late ELSE MaxLag

Change(list, began) == ChangeFrom(cmd.pos, list, began)

(* What may be asked for: one or two waypoints to come, each within the    *)
(* model's time.                                                           *)
Waypoints(from) ==
  {wp \in [ts : 1 .. MaxClock, pos : Positions] :
     from < wp.ts /\ rt0 + wp.ts <= MaxClock}

Segments(from) ==
  {<<wp>> : wp \in Waypoints(from)} \cup
  {seg \in Waypoints(from) \X Waypoints(from) : Ascending(seg)}

(* CartesianController.start() while it runs already. *)
StartAgain ==
  /\ running
  /\ Call("idle")
  /\ UNCHANGED <<clock, traj, ctrlVars, call, raised, loopVars, stray, lag>>

Start ==
  /\ ~running
  /\ Call("mode")
  /\ t0' = clock /\ running' = TRUE
  /\ UNCHANGED <<clock, traj, rtRunning, rt0, stopEvent, call, raised,
                 loopVars, stray, lag>>

(* mode_mit() raises, in either start(). *)
StartRaises ==
  /\ apc \in {"mode", "rtStart"}
  /\ apc' = "idle" /\ raised' = TRUE
  /\ UNCHANGED <<clock, traj, ctrlVars, call, calls, loopVars, stray, lag>>

(* init_fixed() where the arm is. *)
StartHold ==
  /\ apc = "mode"
  /\ Change(<<[ts |-> 0, pos |-> cmd.pos]>>, 0)
  /\ apc' = "rtStart"
  /\ UNCHANGED <<clock, ctrlVars, call, calls, raised, loopVars>>

(* Mutant: the stop event is not cleared. *)
StartLoopStopped ==
  /\ apc = "rtStart" /\ ~rtRunning
  /\ rt0' = clock /\ rtRunning' = TRUE
  /\ lpc' = "test"
  /\ apc' = "idle"
  /\ UNCHANGED <<clock, traj, running, t0, stopEvent, call, calls, raised,
                 tick, cmd, stray, lag>>

(* RealtimeController.start() *)
StartLoop ==
  /\ apc = "rtStart" /\ ~rtRunning
  /\ stopEvent' = FALSE /\ rt0' = clock /\ rtRunning' = TRUE
  /\ lpc' = "test"
  /\ apc' = "idle"
  /\ UNCHANGED <<clock, traj, running, t0, call, calls, raised, tick,
                 cmd, stray, lag>>

Stop ==
  /\ Call("join")
  /\ stopEvent' = TRUE
  /\ UNCHANGED <<clock, traj, running, t0, rtRunning, rt0, call, raised,
                 loopVars, stray, lag>>

StopJoined ==
  /\ apc = "join" /\ ~LoopAlive
  /\ rtRunning' = FALSE /\ running' = FALSE
  /\ raised' = FALSE /\ stray' = FALSE
  /\ apc' = "idle"
  /\ UNCHANGED <<clock, traj, t0, rt0, stopEvent, call, calls, loopVars, lag>>

(* set_eef_traj() reads the time, and solves the inverse kinematics.       *)
SetEefTraj ==
  /\ Call("ik")
  /\ call' = [call EXCEPT !.now = Time]
  /\ UNCHANGED <<clock, traj, ctrlVars, raised, loopVars, stray, lag>>

(* It has: init() and append_traj() of an empty trajectory, override_traj()*)
(* of another.                                                             *)
SetEefTrajSolved ==
  /\ apc = "ik"
  /\ \E seg \in Segments(call.now) :
       IF traj = <<>>
       THEN Change(IF Len(seg) = 1
                   THEN <<[ts |-> call.now, pos |-> cmd.pos]>> \o seg
                   ELSE seg, call.now)
       ELSE LET list == <<CurrentState(traj, call.now)>> \o seg IN
            WithinSpeed(list, Speed) /\ Change(list, call.now)
  /\ Return
  /\ UNCHANGED <<clock, ctrlVars, calls, raised, loopVars>>

(* No point is to come, or none has a solution. *)
SetEefTrajEmpty ==
  /\ apc = "ik"
  /\ Return
  /\ UNCHANGED <<clock, traj, ctrlVars, calls, raised, loopVars,
                 stray, lag>>

(* interpolator.override_waypoint() *)
OverrideWaypoint ==
  /\ rtRunning /\ Call("idle")
  /\ \E end \in Waypoints(RtTime) :
       LET list == <<CurrentState(traj, RtTime), end>> IN
       WithinSpeed(list, Speed) /\ Change(list, RtTime)
  /\ UNCHANGED <<clock, ctrlVars, call, raised, loopVars>>

(* interpolator.append_waypoint() and append_traj() *)
AppendBegin ==
  /\ rtRunning /\ Call("append")
  /\ \E seg \in Segments(RtTime) :
       \E rest \in {AppendedTraj(traj, RtTime, seg)} \cup
                   (IF Len(seg) = 1
                    THEN {AppendedWaypoint(traj, RtTime, seg[1])} ELSE {}) :
         LET state == <<CurrentState(traj, RtTime)>> IN
         /\ WithinSpeed(state \o FlattenSeq(rest), Speed)
         /\ Change(state, RtTime)
         /\ call' = [call EXCEPT !.now = RtTime, !.rest = rest]
  /\ UNCHANGED <<clock, ctrlVars, raised, loopVars>>

AppendStep ==
  /\ apc = "append"
  /\ Change(traj \o Head(call.rest), call.now)
  /\ IF Len(call.rest) = 1 THEN Return
     ELSE call' = [call EXCEPT !.rest = Tail(@)] /\ UNCHANGED apc
  /\ UNCHANGED <<clock, ctrlVars, calls, raised, loopVars>>

(* reset_to_home(): the time and where the arm is, then init(). *)
ResetToHome ==
  /\ Call("home")
  /\ rt0 + RtTime + HomeTime <= MaxClock
  /\ Distance(cmd.pos, Home) <= Speed * HomeTime
  /\ call' = [call EXCEPT !.now = RtTime, !.q = cmd.pos]
  /\ UNCHANGED <<clock, traj, ctrlVars, raised, loopVars, stray, lag>>

ResetToHomeInit ==
  /\ apc = "home"
  /\ ChangeFrom(call.q, <<[ts |-> call.now, pos |-> call.q],
                          [ts |-> call.now + HomeTime, pos |-> Home]>>,
                call.now)
  /\ Return
  /\ UNCHANGED <<clock, ctrlVars, calls, raised, loopVars>>

App ==
  \/ StartAgain \/ Start \/ StartRaises \/ StartHold \/ StartLoop
  \/ Stop \/ StopJoined
  \/ SetEefTraj \/ SetEefTrajSolved \/ SetEefTrajEmpty
  \/ OverrideWaypoint \/ AppendBegin \/ AppendStep
  \/ ResetToHome \/ ResetToHomeInit

-----------------------------------------------------------------------------
(***************************************************************************)
(* The loop: _loop(), _tick() and _interpolate_at(), an access to _traj at *)
(* a time.                                                                 *)
(***************************************************************************)
Local(step) == lpc' = step /\ UNCHANGED <<tick, cmd, lag>>

(* The tick has its position and sends it, or the bus raises. *)
Answer(pos, sent) ==
  /\ lpc' = "test"
  /\ IF sent
     THEN cmd' = [pos |-> pos, time |-> tick.time] /\ lag' = 0
     ELSE UNCHANGED <<cmd, lag>>
  /\ tick' = NoTick

LoopTest ==
  /\ lpc = "test"
  /\ IF stopEvent
     THEN lpc' = "none" /\ cmd' = [cmd EXCEPT !.time = 0] /\ lag' = 0
          /\ UNCHANGED tick
     ELSE lpc' = "len" /\ tick' = [tick EXCEPT !.time = RtTime]
          /\ UNCHANGED <<cmd, lag>>

LoopLen ==
  /\ lpc = "len"
  /\ Local(IF Len(traj) = 1 THEN "only" ELSE "first")

LoopFirst ==
  /\ lpc = "first"
  /\ Local(IF tick.time <= traj[1].ts THEN "only" ELSE "last")

LoopLast ==
  /\ lpc = "last"
  /\ Local(IF tick.time >= Last(traj).ts THEN "end" ELSE "range")

LoopRange ==
  /\ lpc = "range"
  /\ lpc' = IF Len(traj) = 1 THEN "end" ELSE "left"
  /\ tick' = [tick EXCEPT !.i = 1, !.size = Len(traj) - 1]
  /\ UNCHANGED <<cmd, lag>>

LoopLeft ==
  /\ lpc = "left" /\ tick.i <= Len(traj)
  /\ lpc' = "right"
  /\ tick' = [tick EXCEPT !.s = traj[tick.i]]
  /\ UNCHANGED <<cmd, lag>>

(* The pair is not the one: the next, or the end of the loop. *)
LoopNext ==
  /\ lpc = "right" /\ tick.i < Len(traj)
  /\ ~Between(tick.s, traj[tick.i + 1], tick.time)
  /\ lpc' = IF tick.i = tick.size THEN "end" ELSE "left"
  /\ tick' = [tick EXCEPT !.i = @ + 1]
  /\ UNCHANGED <<cmd, lag>>

(* Mutant: the query tries again. *)
LoopIndexErrorRetry ==
  /\ \/ lpc = "left" /\ tick.i > Len(traj)
     \/ lpc = "right" /\ tick.i >= Len(traj)
  /\ Local("left")

(* The list is shorter than it was: an IndexError, which _loop() logs. *)
LoopIndexError ==
  /\ \/ lpc = "left" /\ tick.i > Len(traj)
     \/ lpc = "right" /\ tick.i >= Len(traj)
  /\ lpc' = "test" /\ tick' = NoTick
  /\ UNCHANGED <<cmd, lag>>

LoopAnswer(sent) ==
  /\ \/ lpc = "only" /\ Answer(traj[1].pos, sent)
     \/ lpc = "end" /\ Answer(Last(traj).pos, sent)
     \/ /\ lpc = "right" /\ tick.i < Len(traj)
        /\ Between(tick.s, traj[tick.i + 1], tick.time)
        /\ Answer(InterpPair(tick.s, traj[tick.i + 1], tick.time), sent)

Loop ==
  /\ \/ LoopTest \/ LoopLen \/ LoopFirst \/ LoopLast \/ LoopRange
     \/ LoopLeft \/ LoopNext \/ LoopIndexError
     \/ \E sent \in BOOLEAN : LoopAnswer(sent)
  /\ UNCHANGED <<clock, traj, ctrlVars, appVars, stray>>

Sends ==
  LoopAnswer(TRUE) /\ UNCHANGED <<clock, traj, ctrlVars, appVars, stray>>

Next == Clock \/ App \/ Loop

Spec == Init /\ [][Next]_vars

(* Time passes, the thread of the loop is scheduled, a join ends with the  *)
(* thread and the bus does not fail for ever.                              *)
FairSpec ==
  Spec /\ WF_vars(Clock) /\ WF_vars(Loop) /\ SF_vars(Sends)
-----------------------------------------------------------------------------
(***************************************************************************)
(* Properties.                                                             *)
(***************************************************************************)
(* The timestamps of the trajectory never descend, in the half-built lists *)
(* of append_waypoint() and append_traj() neither: the search of           *)
(* _interpolate_at() relies on it, and only the segment a caller hands in  *)
(* is validated, not the list it is merged into.                           *)
TrajOrdered == Ascending(traj)

(* No command is out of the range of the waypoints, a query that mixes two *)
(* trajectories included: _interpolate_at() clamps and never extrapolates. *)
InHull ==
  \A bound \in Positions \cup {Home} :
    /\ (\A p \in Positions \cup {Home} : p <= bound) => cmd.pos <= bound
    /\ (\A p \in Positions \cup {Home} : bound <= p) => bound <= cmd.pos

(* Replacing the trajectory while it is played does not make the arm jump: *)
(* a command is no further from the one before than the speed of the       *)
(* waypoints allows in the time between, plus twice the time by which a    *)
(* change came late (IK, a half-built list) or early (the two clocks).     *)
(* Once a query met a change halfway, or a command was sent between the    *)
(* reading of the posture by reset_to_home() and its init(), the bound is  *)
(* void: either does make the arm jump.                                    *)
JumpBounded ==
  [][Sends /\ ~stray =>
       Distance(cmd.pos, cmd'.pos)
         <= Speed * (cmd'.time - cmd.time + 2 * lag)]_vars

(* A controller that says it runs has a thread that plays the trajectory,  *)
(* unless a start() failed halfway, which leaves _running set and no       *)
(* thread, and makes the next start() do nothing.                          *)
RunningHasLoop ==
  apc = "idle" /\ running /\ ~raised => LoopAlive /\ ~stopEvent

(* Whatever queries were torn or lost on the way, a controller that is     *)
(* left running brings the arm to the last waypoint and keeps it there.    *)
Arrives ==
  <>[](LoopAlive /\ apc = "idle") =>
    <>[](traj # <<>> /\ cmd.pos = Last(traj).pos)
=============================================================================
