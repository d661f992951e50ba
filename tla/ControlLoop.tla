---------------------------- MODULE ControlLoop -----------------------------
(***************************************************************************)
(* The background control loops of Arm, Gripper and RealtimeController: a  *)
(* thread that calls a callback until a stop event is set, started and     *)
(* stopped by user threads and by the callback itself.  The three classes  *)
(* share the shape and differ in the details, so which one a behaviour is  *)
(* about is chosen at its start.                                           *)
(*                                                                         *)
(* One stop event serves all the loops an object ever starts, and its      *)
(* handle names the latest one only.  join() has a timeout: it may give up *)
(* on a loop whose callback takes long.  A callback makes at most one call *)
(* of start or stop each time it runs.  stop reads the handle once where   *)
(* the code reads it at each use: that differs only if calls overlap, a    *)
(* case the properties exempt.                                             *)
(***************************************************************************)
EXTENDS Integers, FiniteSets

CONSTANTS
  Callers,    (* the user threads                                          *)
  MaxLoops    (* bound: loops an object starts                             *)

ASSUME ConstantsAssumption == MaxLoops \in Nat

Kinds == {"arm", "gripper", "realtime"}
Loops == 1 .. MaxLoops
NoLoop == 0

ASSUME CallersAssumption == IsFiniteSet(Callers) /\ Callers \cap Loops = {}

VARIABLES
  kind,       (* whose control loop this is                                *)
  handle,     (* _ctrl_thread or _thread                                   *)
  stopEvent,  (* _ctrl_stop_event or _stop_event                           *)
  running,    (* RealtimeController._running                               *)
  loop,       (* where each loop thread is                                 *)
  call,       (* the step of each thread's call of start or stop           *)
  thread,     (* the loop that call joins or starts                        *)
  then,       (* what follows when its stop ends                           *)
  made,       (* loops created                                             *)
  overlap,    (* history: two calls were under way at once                 *)
  gaveUp      (* history: a stop left its loop alive                       *)

vars == <<kind, handle, stopEvent, running, loop, call, thread, then, made,
          overlap, gaveUp>>
history == <<overlap, gaveUp>>

Threads == Callers \cup Loops

Alive(l) == loop[l] \in {"check", "callback", "called"}

Live == {l \in Loops : Alive(l)}

Init ==
  /\ kind \in Kinds
  /\ handle = NoLoop /\ stopEvent = FALSE /\ running = FALSE
  /\ loop = [l \in Loops |-> "none"]
  /\ call = [t \in Threads |-> "idle"]
  /\ thread = [t \in Threads |-> NoLoop]
  /\ then = [t \in Threads |-> "idle"]
  /\ made = 0
  /\ overlap = FALSE /\ gaveUp = FALSE

(* Bound: starts under way that have not made their loop yet.              *)
Starting(t) ==
  \/ call[t] \in {"start_mode", "start_clear", "start_create"}
  \/ then[t] = "start_clear"

Promised == {t \in Threads : Starting(t)}

MayStart == made + Cardinality(Promised) < MaxLoops

Goto(t, step) == call' = [call EXCEPT ![t] = step]

(* A user thread may call at any time, a loop thread from its callback.    *)
Begin(t) ==
  /\ call[t] = "idle"
  /\ \/ t \in Callers /\ UNCHANGED loop
     \/ /\ t \in Loops /\ loop[t] = "callback"
        /\ loop' = [loop EXCEPT ![t] = "called"]
  /\ overlap' = (overlap \/ \E u \in Threads : call[u] # "idle")
-----------------------------------------------------------------------------
(***************************************************************************)
(* start_control_loop() and RealtimeController.start().                    *)
(***************************************************************************)
(* Mutant: starts without stopping the loop that is running. *)
StartUnchecked(t) ==
  /\ MayStart /\ Begin(t)
  /\ Goto(t, "start_clear")
  /\ UNCHANGED <<kind, handle, stopEvent, running, thread, then, made, gaveUp>>

(* An arm stops the loop that is running first; the others leave it alone. *)
StartCall(t) ==
  /\ MayStart /\ Begin(t)
  /\ \/ /\ kind = "arm" /\ handle # NoLoop /\ Alive(handle)
        /\ Goto(t, "stop_set")
        /\ then' = [then EXCEPT ![t] = "start_clear"]
     \/ /\ kind = "gripper" /\ handle # NoLoop /\ Alive(handle)
        /\ UNCHANGED <<call, then>>
     \/ /\ kind = "realtime" /\ running
        /\ UNCHANGED <<call, then>>
     \/ /\ kind # "realtime" /\ ~(handle # NoLoop /\ Alive(handle))
        /\ Goto(t, "start_clear") /\ UNCHANGED then
     \/ /\ kind = "realtime" /\ ~running
        /\ Goto(t, "start_mode") /\ UNCHANGED then
  /\ UNCHANGED <<kind, handle, stopEvent, running, thread, made, gaveUp>>

(* RealtimeController switches the arm to MIT mode first, which may raise. *)
StartMode(t) ==
  /\ call[t] = "start_mode"
  /\ call' \in {[call EXCEPT ![t] = "start_clear"], [call EXCEPT ![t] = "idle"]}
  /\ UNCHANGED <<kind, handle, stopEvent, running, loop, thread, then, made,
                 history>>

StartClear(t) ==
  /\ call[t] = "start_clear"
  /\ stopEvent' = FALSE
  /\ running' = (kind = "realtime")
  /\ Goto(t, "start_create")
  /\ UNCHANGED <<kind, handle, loop, thread, then, made, history>>

(* The new thread goes into the handle, and is started from there.         *)
StartCreate(t) ==
  /\ call[t] = "start_create"
  /\ made' = made + 1
  /\ handle' = made + 1
  /\ loop' = [loop EXCEPT ![made + 1] = "new"]
  /\ Goto(t, "start_run")
  /\ UNCHANGED <<kind, stopEvent, running, thread, then, history>>

(* start() raises if there is no thread any more, or it already runs.      *)
StartRun(t) ==
  /\ call[t] = "start_run"
  /\ IF handle # NoLoop /\ loop[handle] = "new"
     THEN loop' = [loop EXCEPT ![handle] = "check"]
     ELSE UNCHANGED loop
  /\ Goto(t, "idle")
  /\ UNCHANGED <<kind, handle, stopEvent, running, thread, then, made, history>>
-----------------------------------------------------------------------------
(***************************************************************************)
(* stop_control_loop() and RealtimeController.stop().                      *)
(***************************************************************************)
StopCall(t) ==
  /\ Begin(t)
  /\ Goto(t, "stop_set")
  /\ then' = [then EXCEPT ![t] = "idle"]
  /\ UNCHANGED <<kind, handle, stopEvent, running, thread, made, gaveUp>>

(* Mutant: forgets to tell the loop. *)
StopSetNothing(t) ==
  /\ call[t] = "stop_set"
  /\ IF handle = NoLoop THEN Goto(t, "stop_done") ELSE Goto(t, "stop_join")
  /\ thread' = [thread EXCEPT ![t] = handle]
  /\ UNCHANGED <<kind, handle, stopEvent, running, loop, then, made, history>>

StopSet(t) ==
  /\ call[t] = "stop_set"
  /\ stopEvent' = TRUE
  /\ IF handle = NoLoop THEN Goto(t, "stop_done") ELSE Goto(t, "stop_join")
  /\ thread' = [thread EXCEPT ![t] = handle]
  /\ UNCHANGED <<kind, handle, running, loop, then, made, history>>

(* Joining a loop that is not started yet raises, and so does a loop       *)
(* joining itself, which only Arm avoids.  Otherwise join() waits for the  *)
(* end of the loop, or until its timeout.                                  *)
StopJoin(t) ==
  /\ call[t] = "stop_join"
  /\ \/ /\ loop[thread[t]] = "new" \/ (thread[t] = t /\ kind # "arm")
        /\ Goto(t, "idle") /\ gaveUp' = TRUE
        /\ then' = [then EXCEPT ![t] = "idle"]
     \/ /\ thread[t] = t /\ kind = "arm"
        /\ Goto(t, "stop_drop") /\ gaveUp' = TRUE /\ UNCHANGED then
     \/ /\ loop[thread[t]] = "ended"
        /\ Goto(t, "stop_drop") /\ UNCHANGED <<gaveUp, then>>
     \/ /\ Alive(thread[t]) /\ thread[t] # t
        /\ Goto(t, "stop_drop") /\ gaveUp' = TRUE /\ UNCHANGED then
  /\ thread' = [thread EXCEPT ![t] = NoLoop]
  /\ UNCHANGED <<kind, handle, stopEvent, running, loop, made, overlap>>

StopDrop(t) ==
  /\ call[t] = "stop_drop"
  /\ handle' = NoLoop
  /\ Goto(t, "stop_done")
  /\ UNCHANGED <<kind, stopEvent, running, loop, thread, then, made, history>>

(* Mutant: leaves the controller marked as running. *)
StopDoneRunning(t) ==
  /\ call[t] = "stop_done"
  /\ Goto(t, then[t])
  /\ then' = [then EXCEPT ![t] = "idle"]
  /\ UNCHANGED <<kind, handle, stopEvent, running, loop, thread, made, history>>

StopDone(t) ==
  /\ call[t] = "stop_done"
  /\ running' = FALSE
  /\ Goto(t, then[t])
  /\ then' = [then EXCEPT ![t] = "idle"]
  /\ UNCHANGED <<kind, handle, stopEvent, loop, thread, made, history>>
-----------------------------------------------------------------------------
(***************************************************************************)
(* The loop itself: an exception of the callback is logged and swallowed.  *)
(***************************************************************************)
LoopCheck(l) ==
  /\ loop[l] = "check"
  /\ loop' = [loop EXCEPT ![l] = IF stopEvent THEN "ended" ELSE "callback"]
  /\ UNCHANGED <<kind, handle, stopEvent, running, call, thread, then, made,
                 history>>

LoopReturn(l) ==
  /\ loop[l] \in {"callback", "called"} /\ call[l] = "idle"
  /\ loop' = [loop EXCEPT ![l] = "check"]
  /\ UNCHANGED <<kind, handle, stopEvent, running, call, thread, then, made,
                 history>>

CallStep(t) ==
  \/ StartMode(t) \/ StartClear(t) \/ StartCreate(t) \/ StartRun(t)
  \/ StopSet(t) \/ StopJoin(t) \/ StopDrop(t) \/ StopDone(t)

LoopStep(l) == LoopCheck(l) \/ LoopReturn(l)

Next ==
  \/ \E t \in Threads : StartCall(t) \/ StopCall(t) \/ CallStep(t)
  \/ \E l \in Loops : LoopStep(l)

Spec == Init /\ [][Next]_vars

(* Threads run, join() has a timeout and callbacks return.                 *)
FairSpec ==
  /\ Spec
  /\ \A t \in Threads : WF_vars(CallStep(t))
  /\ \A l \in Loops : WF_vars(LoopStep(l))
-----------------------------------------------------------------------------
(***************************************************************************)
(* Properties.                                                             *)
(***************************************************************************)
Steps == {"idle", "start_mode", "start_clear", "start_create", "start_run",
          "stop_set", "stop_join", "stop_drop", "stop_done"}

(* The values each variable takes. *)
TypeOK ==
  /\ kind \in Kinds
  /\ handle \in Loops \cup {NoLoop}
  /\ stopEvent \in BOOLEAN /\ running \in BOOLEAN
  /\ loop \in [Loops -> {"none", "new", "check", "callback", "called", "ended"}]
  /\ call \in [Threads -> Steps]
  /\ thread \in [Threads -> Loops \cup {NoLoop}]
  /\ then \in [Threads -> {"idle", "start_clear"}]
  /\ made \in 0 .. MaxLoops
  /\ overlap \in BOOLEAN /\ gaveUp \in BOOLEAN

Quiet == \A t \in Threads : call[t] = "idle"

(* There is one loop at a time, the one of the handle, as long as the      *)
(* calls are made one after the other and no stop left its loop alive.     *)
OneLoopUnlessGivenUp ==
  ~overlap /\ ~gaveUp => Cardinality(Live) <= 1 /\ Live \subseteq {handle}

(* A controller that says it is running has a loop, under the same         *)
(* conditions: start() will not silently do nothing.                       *)
RunningHasLoop ==
  ~overlap /\ ~gaveUp /\ Quiet /\ running => handle # NoLoop /\ Alive(handle)

(* Calls made one at a time, if they end with no loop in the handle, end   *)
(* every loop ever started, also those a join() gave up on.                *)
StoppedLoopsEnd ==
  (<>[](Quiet /\ handle = NoLoop) /\ []~overlap) => <>[](Live = {})
=============================================================================
