------------------------------ MODULE Gripper ------------------------------
(***************************************************************************)
(* The stand-alone gripper (gripper.py) on its MotorBridgeSession: the     *)
(* application and the thread of the gripper's control loop call it, with  *)
(* no lock between them.  todo[p] is what is left of the call thread p is  *)
(* in: one step for each access to the bus, the cached feedback or the     *)
(* state of the object.  A step that raises drops the rest of the call.    *)
(*                                                                         *)
(* The jaws are at a position 0 .. MaxPos, MaxPos when open, and cannot    *)
(* close further than Contact.  Commands count from zero, which set_zero() *)
(* moves.  Closing decreases the position (closing_direction = -1), the    *)
(* direction factor is 1, and a torque is over the force threshold exactly *)
(* when the motor presses against something.  The mode of the motor is     *)
(* left out: setting it may raise, and nothing here depends on it.         *)
(***************************************************************************)
EXTENDS Integers, Sequences, FiniteSets

CONSTANTS
  App,       (* the thread of the application                              *)
  Workers,   (* bound: the threads of the control loop                     *)
  MaxPos,    (* the mechanical stop of the opening                         *)
  Contact,   (* where the jaws meet what they grip                         *)
  MaxCalls   (* bound: calls of the application                            *)

ASSUME ConstantsAssumption ==
  /\ App \notin Workers
  /\ MaxPos \in Nat \ {0} /\ Contact \in 0 .. MaxPos - 1
  /\ MaxCalls \in Nat

VARIABLES
  session,    (* the session has a controller, and a joint                 *)
  handle,     (* Gripper._motor is not None                                *)
  thread,     (* _ctrl_thread, {} for None                                 *)
  stopEvent,  (* _stop_event                                               *)
  alive,      (* the threads of the control loop that run                  *)
  todo,       (* what is left of the call of each thread                   *)
  motor,      (* the motor: enabled, position, target, zero position       *)
  asked,      (* a feedback request is on the bus                          *)
  fb,         (* the feedback the driver holds                             *)
  calls,      (* calls so far, to bound the model                          *)
  givenUp,    (* history: the threads whose join timed out                 *)
  failed,     (* history: how often the last close() failed to disable     *)
  quiet       (* history: disable() or close() has disabled the motor, and *)
              (*   no loop was started since                               *)

objectVars == <<session, handle, thread, stopEvent, alive>>
busVars    == <<motor, asked, fb>>
history    == <<calls, givenUp, failed, quiet>>
vars == <<objectVars, busVars, todo, history>>

Threads == {App} \cup Workers

(* The torque, by its sign: the motor pushes against the object or a stop. *)
Torque ==
  IF motor.on /\ motor.target < motor.pos /\ motor.pos = Contact THEN -1
  ELSE IF motor.on /\ motor.target > motor.pos /\ motor.pos = MaxPos THEN 1
  ELSE 0

Squeezing == Torque = -1

Init ==
  /\ session = [controller |-> FALSE, joint |-> FALSE]
  /\ handle = FALSE /\ thread = {} /\ stopEvent = FALSE /\ alive = {}
  /\ todo = [p \in Threads |-> <<>>]
  /\ motor = [on |-> FALSE, pos |-> MaxPos, target |-> MaxPos, zero |-> 0]
  /\ asked = FALSE
  /\ fb = [on |-> FALSE, pos |-> MaxPos, torque |-> 0]
  /\ calls = 0 /\ givenUp = {} /\ failed = 0 /\ quiet = FALSE

-----------------------------------------------------------------------------
(***************************************************************************)
(* The calls, as the steps they are made of.                               *)
(***************************************************************************)
Open   == MaxPos    (* limit_pos_max *)
Closed == -MaxPos   (* limit_pos_min *)

Step(name, arg) == <<[do |-> name, arg |-> arg]>>

StopLoop == Step("stop", 0) \o Step("join", 0)

(* mit(): a command and a poll. *)
Command(pos) == Step("handle", 0) \o Step("send", pos) \o Step("poll", 0)

(* A velocity drives the jaws towards one of their ends. *)
SetVel == {Command(Open), Command(Closed)}

(* pos_vel(): and the force check. *)
PosVel(pos) ==
  Command(pos) \o Step("torque", pos) \o Step("direction", pos)
    \o Step("hold", 0)

Enable == Step("handle", 0) \o Step("enable", 0) \o Step("await", 1)

(* Mutant: the loop is stopped last. *)
DisableFirst ==
  Step("handleOrDone", 0) \o Step("disable", 0) \o Step("await", 0) \o StopLoop

Disable ==
  StopLoop \o Step("handleOrDone", 0) \o Step("disable", 0) \o Step("await", 0)

SetZero == Step("handleOrDone", 0) \o Step("zeroOff", 0) \o Step("zero", 0)

GetState == Step("handle", 0) \o Step("poll", 0)

(* mode_mit(), mode_pos_vel() with its gains, mode_vel() *)
Mode == Step("mode", 0)

Calibrate ==
  Step("handle", 0) \o Mode \o Command(Open) \o GetState
    \o Disable \o SetZero \o Enable
    \o Mode \o Command(Closed) \o GetState

Close == StopLoop \o Step("disable", 1) \o Step("closeSession", 0)
           \o Step("drop", 0)

AppCalls ==
  {Step("connect", 0), Close, Enable, Disable, SetZero, GetState, Mode,
   Calibrate, Step("start", 0), StopLoop}
    \cup {Command(pos) : pos \in {Open, Closed}} \cup SetVel
    \cup {PosVel(pos) : pos \in {Open, Closed}}

(* What the callback of the control loop calls. *)
LoopCalls == {PosVel(pos) : pos \in {Open, Closed}}

CallBegin ==
  /\ todo[App] = <<>> /\ calls < MaxCalls
  /\ calls' = calls + 1
  /\ \E call \in AppCalls : todo' = [todo EXCEPT ![App] = call]
  /\ UNCHANGED <<objectVars, busVars, givenUp, failed, quiet>>

-----------------------------------------------------------------------------
(***************************************************************************)
(* The steps.                                                              *)
(***************************************************************************)
At(p, name) == todo[p] # <<>> /\ Head(todo[p]).do = name
Arg(p) == Head(todo[p]).arg

Go(p)     == todo' = [todo EXCEPT ![p] = Tail(@)]
Return(p) == todo' = [todo EXCEPT ![p] = <<>>]
Raise(p)  == Return(p) /\ UNCHANGED <<objectVars, busVars>>

(* The first statement of most calls: raises without a motor. *)
NeedHandle(p) ==
  /\ At(p, "handle")
  /\ IF handle THEN Go(p) ELSE Return(p)
  /\ UNCHANGED <<objectVars, busVars, history>>

(* disable() and set_zero() return at once without a motor, to the rest of *)
(* calibrate() where it called them.                                       *)
NeedHandleOrDone(p) ==
  /\ At(p, "handleOrDone")
  /\ IF handle THEN Go(p)
     ELSE todo' = [todo EXCEPT ![p] = SubSeq(@, 4, Len(@))]
  /\ UNCHANGED <<objectVars, busVars, history>>

(* connect(): the controller, the joint, the motor; the first two raise.   *)
Connect(p) ==
  /\ At(p, "connect")
  /\ \/ /\ session' = [controller |-> TRUE, joint |-> TRUE]
        /\ handle' = TRUE
     \/ /\ session' = [session EXCEPT !.controller = TRUE]   (* add_joint() *)
        /\ UNCHANGED handle
     \/ UNCHANGED <<session, handle>>
  /\ Return(p)
  /\ UNCHANGED <<thread, stopEvent, alive, busVars, history>>

(* set_pos_vel_joint(), set_mit_joint(), set_vel_joint(). *)
Send(p) ==
  /\ At(p, "send")
  /\ \/ /\ session.joint
        /\ motor' = [motor EXCEPT !.target = Arg(p) + motor.zero]
        /\ Go(p)
        /\ UNCHANGED <<objectVars, asked, fb>>
     \/ Raise(p)
  /\ UNCHANGED history

(* _request_and_poll(): its exceptions are swallowed. *)
Poll(p) ==
  /\ At(p, "poll")
  /\ asked' \in {asked, handle}
  /\ Go(p)
  /\ UNCHANGED <<objectVars, motor, fb, history>>

(* _check_force(): the torque the driver holds is over the threshold. *)
CheckTorque(p) ==
  /\ At(p, "torque")
  /\ IF handle /\ fb.torque # 0 THEN Go(p) ELSE Return(p)
  /\ UNCHANGED <<objectVars, busVars, history>>

(* Mutant: takes the force for one that opens. *)
CheckDirectionOpening(p) ==
  /\ At(p, "direction")
  /\ IF handle /\ Arg(p) < fb.pos /\ fb.torque > 0 THEN Go(p) ELSE Return(p)
  /\ UNCHANGED <<objectVars, busVars, history>>

(* ... and the command would close further, with a force that closes. *)
CheckDirection(p) ==
  /\ At(p, "direction")
  /\ IF handle /\ Arg(p) < fb.pos /\ fb.torque < 0 THEN Go(p) ELSE Return(p)
  /\ UNCHANGED <<objectVars, busVars, history>>

(* pos_vel() commands the position the driver holds. *)
Hold(p) ==
  /\ At(p, "hold")
  /\ \/ /\ session.joint /\ handle
        /\ motor' = [motor EXCEPT !.target = fb.pos + motor.zero]
        /\ Go(p)
        /\ UNCHANGED <<objectVars, asked, fb>>
     \/ Raise(p)
  /\ UNCHANGED history

(* ensure_mode_joint(), write_pi_gains() *)
SetMode(p) ==
  /\ At(p, "mode")
  /\ \/ session.joint /\ Go(p)
     \/ Return(p)
  /\ UNCHANGED <<objectVars, busVars, history>>

(* enable_all(): a frame may get lost without an error. *)
EnableAll(p) ==
  /\ At(p, "enable")
  /\ \/ /\ session.controller
        /\ motor' \in {[motor EXCEPT !.on = TRUE], motor}
        /\ Go(p)
        /\ UNCHANGED <<objectVars, asked, fb>>
     \/ Raise(p)
  /\ UNCHANGED history

(* disable_all(), of disable() and, with argument 1, of close().  Both     *)
(* swallow the exception; a frame may get lost without one.                *)
DisableAll(p) ==
  /\ At(p, "disable")
  /\ Go(p)
  /\ \/ ~session.controller /\ UNCHANGED <<motor, failed>>
     \/ /\ session.controller
        /\ \/ motor' = [motor EXCEPT !.on = FALSE] /\ failed' = 0
           \/ UNCHANGED motor /\ failed' = Arg(p)
  /\ quiet' = (quiet \/ givenUp \cap alive = {})
  /\ UNCHANGED <<objectVars, asked, fb, calls, givenUp>>

(* The polls of enable() and disable(): until the driver holds the status  *)
(* that is awaited, or it is too late, which only the result shows.        *)
AwaitStatus(p) ==
  /\ At(p, "await")
  /\ \/ asked' = handle /\ UNCHANGED todo
     \/ Go(p) /\ UNCHANGED asked
  /\ UNCHANGED <<objectVars, motor, fb, history>>

(* set_zero_joint(): its exceptions end set_zero(), not calibrate(). *)
ZeroOff(p) ==
  /\ At(p, "zeroOff")
  /\ \/ /\ session.joint
        /\ motor' = [motor EXCEPT !.on = FALSE]
        /\ Go(p)
     \/ /\ todo' = [todo EXCEPT ![p] = Tail(Tail(@))]
        /\ UNCHANGED motor
  /\ UNCHANGED <<objectVars, asked, fb, history>>

Zero(p) ==
  /\ At(p, "zero")
  /\ Go(p)
  /\ \/ session.joint /\ motor' = [motor EXCEPT !.zero = motor.pos]
     \/ UNCHANGED motor
  /\ UNCHANGED <<objectVars, asked, fb, history>>

(* Mutant: session.close() relies on the disable_all() before it. *)
CloseSessionOnly(p) ==
  /\ At(p, "closeSession")
  /\ session' = [controller |-> FALSE, joint |-> FALSE]
  /\ Go(p)
  /\ UNCHANGED <<handle, thread, stopEvent, alive, busVars, history>>

(* session.close(): disables once more, drops the controller. *)
CloseSession(p) ==
  /\ At(p, "closeSession")
  /\ \/ ~session.controller /\ UNCHANGED <<motor, failed>>
     \/ /\ session.controller
        /\ \/ motor' = [motor EXCEPT !.on = FALSE] /\ failed' = 0
           \/ UNCHANGED motor /\ failed' = 2 * failed
  /\ session' = [controller |-> FALSE, joint |-> FALSE]
  /\ Go(p)
  /\ UNCHANGED <<handle, thread, stopEvent, alive, asked, fb, calls, givenUp,
                 quiet>>

Drop(p) ==
  /\ At(p, "drop")
  /\ handle' = FALSE
  /\ Go(p)
  /\ UNCHANGED <<session, thread, stopEvent, alive, busVars, history>>

(* start_control_loop() *)
StartLoop(p) ==
  /\ At(p, "start")
  /\ Return(p)
  /\ IF thread \cap alive # {}
     THEN UNCHANGED <<thread, stopEvent, alive, quiet>>
     ELSE \E w \in Workers \ alive :
            /\ thread' = {w} /\ alive' = alive \cup {w}
            /\ stopEvent' = FALSE /\ quiet' = FALSE
  /\ UNCHANGED <<session, handle, busVars, calls, givenUp, failed>>

(* stop_control_loop(): sets the event, joins for five seconds. *)
StopBegin(p) ==
  /\ At(p, "stop")
  /\ stopEvent' = TRUE
  /\ Go(p)
  /\ UNCHANGED <<session, handle, thread, alive, busVars, history>>

StopJoin(p) ==
  /\ At(p, "join")
  /\ thread' = {}
  /\ givenUp' = givenUp \cup (thread \cap alive)   (* 5 s are over         *)
  /\ Go(p)
  /\ UNCHANGED <<session, handle, stopEvent, alive, busVars, calls, failed,
                 quiet>>

(* The loop: tests the event, and calls its callback. *)
LoopTurn(w) ==
  /\ w \in alive /\ todo[w] = <<>>
  /\ \/ /\ stopEvent
        /\ alive' = alive \ {w} /\ givenUp' = givenUp \ {w}
        /\ UNCHANGED todo
     \/ /\ ~stopEvent
        /\ \E call \in LoopCalls : todo' = [todo EXCEPT ![w] = call]
        /\ UNCHANGED <<alive, givenUp>>
  /\ UNCHANGED <<session, handle, thread, stopEvent, busVars, calls, failed,
                 quiet>>

PosVelStep(p) ==
  NeedHandle(p) \/ Send(p) \/ Poll(p) \/ CheckTorque(p) \/ CheckDirection(p)
    \/ Hold(p)

Worker(w) == LoopTurn(w) \/ PosVelStep(w)

AppStep ==
  \/ PosVelStep(App) \/ NeedHandleOrDone(App) \/ Connect(App) \/ SetMode(App)
  \/ EnableAll(App) \/ DisableAll(App) \/ AwaitStatus(App)
  \/ ZeroOff(App) \/ Zero(App) \/ CloseSession(App) \/ Drop(App)
  \/ StartLoop(App) \/ StopBegin(App) \/ StopJoin(App)

-----------------------------------------------------------------------------
(* The motor answers a request with its state. *)
Feedback ==
  /\ asked
  /\ asked' = FALSE
  /\ fb' = [on |-> motor.on, pos |-> motor.pos - motor.zero,
            torque |-> Torque]
  /\ UNCHANGED <<objectVars, motor, todo, history>>

(* The jaws move towards the target as far as they can. *)
Move ==
  /\ motor.on
  /\ \/ /\ motor.target < motor.pos /\ motor.pos > Contact
        /\ motor' = [motor EXCEPT !.pos = @ - 1]
     \/ /\ motor.target > motor.pos /\ motor.pos < MaxPos
        /\ motor' = [motor EXCEPT !.pos = @ + 1]
  /\ UNCHANGED <<objectVars, asked, fb, todo, history>>

Next ==
  \/ CallBegin \/ AppStep
  \/ \E w \in Workers : Worker(w)
  \/ Feedback \/ Move

Spec == Init /\ [][Next]_vars

(* The threads are scheduled, the motor answers and moves, and the bus     *)
(* does not fail or lose the hold command for ever.                        *)
FairSpec ==
  /\ Spec
  /\ WF_vars(AppStep) /\ WF_vars(Feedback) /\ WF_vars(Move)
  /\ \A w \in Workers :
       /\ WF_vars(Worker(w))
       /\ SF_vars(Send(w) /\ todo'[w] # <<>>)
       /\ SF_vars(Poll(w) /\ asked')
       /\ SF_vars(Hold(w) /\ motor' # motor)
-----------------------------------------------------------------------------
(***************************************************************************)
(* Properties.                                                             *)
(***************************************************************************)
(* Once disable() or close() has disabled the motor, no command of the     *)
(* control loop reaches it, until a loop is started again: the loop was    *)
(* stopped first, and its thread waited for.  A thread whose join timed    *)
(* out is excepted (gripper.py:474): it does go on.                        *)
QuietOnceDisabled ==
  [][quiet => \A w \in Workers : ~(PosVelStep(w) /\ motor' # motor)]_vars

(* A gripper that is closed has left its motor disabled, if one of the two *)
(* attempts of close() got through (gripper.py:134, session.py:76), and    *)
(* whatever the calls before it have left behind.                          *)
ClosedIsOff == ~session.controller => ~motor.on \/ failed = 2

(* The force check lets go: while a control loop keeps streaming pos_vel(),*)
(* the gripper does not go on squeezing what it holds, though the check    *)
(* reads a feedback that may be older than the command (gripper.py:313).   *)
ForceReleased ==
  <>[](alive # {} /\ handle) => []<>~Squeezing
=============================================================================
