----------------------------- MODULE Feedback ------------------------------
(***************************************************************************)
(* The feedback path of the Arm: refresh_state() (arm.py) reads what the   *)
(* driver of each motor holds, filters it (safety/outlier_filter.py), puts *)
(* it into the state cache (telemetry/state_cache.py), counts a frame      *)
(* (telemetry/fps_monitor.py), takes a snapshot of the cache and publishes *)
(* it in shared memory; a control cycle hands the snapshot to the          *)
(* overcurrent guard (safety/overcurrent.py).  Cache, filter, monitor and  *)
(* guard have a lock each and Arm has none, so the steps of two refreshes, *)
(* and of a close() and a connect(), interleave.                           *)
(*                                                                         *)
(* A reading is its number, counted per motor, and how large its torque    *)
(* is: "fine", "heavy" over the limit of the guard, "wild" over the limit  *)
(* of the filter.  A torque the filter took out is "None", and so is that  *)
(* of a joint without a reading.  The other channels go the same way.      *)
(***************************************************************************)
EXTENDS Integers, Sequences

CONSTANTS
  Threads,     (* the threads that call the arm                            *)
  Loop,        (* the thread whose refreshes are control cycles            *)
  NumJoints,   (* the joints of the configuration are 1 .. NumJoints       *)
  MaxCount,    (* OvercurrentGuard._max_count                              *)
  WindowSize,  (* FPSMonitor._window_size                                  *)
  MaxReadings, (* bound: readings of one motor                             *)
  MaxClock,    (* bound: the time                                          *)
  MaxCalls     (* MaxCalls[t], bound: the calls of thread t                *)

Joints == 1 .. NumJoints

ASSUME ConstantsAssumption ==
  /\ Loop \in Threads
  /\ NumJoints \in Nat \ {0} /\ MaxCount \in Nat \ {0}
  /\ WindowSize \in Nat /\ WindowSize >= 2
  /\ MaxReadings \in Nat /\ MaxClock \in Nat /\ MaxCalls \in [Threads -> Nat]

VARIABLES
  connected,  (* the run state is not DISCONNECTED                         *)
  handles,    (* MotorBridgeSession._joints                                *)
  driver,     (* the reading the driver of each motor holds                *)
  cache,      (* StateCache._state.joints                                  *)
  shm,        (* Arm._shm is not None                                      *)
  window,     (* the time stamps of the channel "feedback"                 *)
  counts,     (* OvercurrentGuard._counts                                  *)
  clock,      (* time.monotonic()                                          *)
  pc, loc,    (* the next step and the local variables of each thread      *)
  calls,      (* calls made so far, to bound the model                     *)
  frames,     (* history: the last frames the guard was given              *)
  reported,   (* history: what check() last returned                       *)
  crossed     (* history: two threads held a time stamp at once            *)

armVars  == <<connected, handles, shm>>
dataVars == <<driver, cache, window, counts, clock>>
ghosts   == <<calls, frames, reported, crossed>>
vars == <<armVars, dataVars, pc, loc, ghosts>>

Torques == {"fine", "heavy", "wild"}

NoReading == [number |-> 0, torq |-> "None"]

Missing(reading) == reading.torq = "None"

Readings == [number : Nat, torq : Torques \cup {"None"}]

(* The steps of refresh_state(). *)
Refreshing == {"read", "update", "tick", "snapshot", "publish", "write"}

Steps == Refreshing \cup
  {"idle", "check", "close", "clear", "drop", "connect", "add", "create"}

(* i, new, now and state are the variables of refresh_state(); the others  *)
(* are history: the numbers the drivers held when it began, the torques it *)
(* read, whether no other refresh was under way when it began (first) or   *)
(* at any time (alone), and whether close() dropped the handles meanwhile. *)
NoCall ==
  [op |-> "none", i |-> 1, new |-> NoReading, now |-> 0,
   state |-> [j \in Joints |-> NoReading],
   began |-> [j \in Joints |-> 0], saw |-> [j \in Joints |-> "None"],
   first |-> TRUE, alone |-> TRUE, cut |-> FALSE]

At(t, step) == pc[t] = step

Goto(t, step) == pc' = [pc EXCEPT ![t] = step]

Return(t) ==
  /\ Goto(t, "idle")
  /\ loc' = [loc EXCEPT ![t] = NoCall]

Busy == {t \in Threads : pc[t] \in Refreshing}

-----------------------------------------------------------------------------
(***************************************************************************)
(* The data structures.                                                    *)
(***************************************************************************)
(* Mutant: a value the comparison with the limit does not hold for passes. *)
IsOutlierByComparison(torq) == FALSE

(* OutlierFilter: a wild value is None, and a missing one stays None. *)
IsOutlier(torq) == torq = "wild"

FilterJoint(reading) ==
  IF IsOutlier(reading.torq) THEN [reading EXCEPT !.torq = "None"]
  ELSE reading

(* FPSMonitor.tick() appends to a deque of WindowSize stamps. *)
Ticked(now) ==
  LET all == Append(window, now)
  IN  IF Len(all) > WindowSize THEN Tail(all) ELSE all

(* FPSMonitor.fps(), as a fraction. *)
Fps ==
  LET n == Len(window)  span == window[n] - window[1]
  IN  IF n < 2 \/ span <= 0 THEN [frames |-> 0, span |-> 1]
      ELSE [frames |-> n - 1, span |-> span]

(* A guard that has counted nothing yet. *)
NoCounts == [j \in Joints |-> 0]

(* OvercurrentGuard.check(): a frame without a torque starts over. *)
Counted(state) ==
  [j \in Joints |-> IF state[j].torq \in {"heavy", "wild"}
                    THEN counts[j] + 1 ELSE 0]

-----------------------------------------------------------------------------
(***************************************************************************)
(* refresh_state(), and the check() of a control cycle.                    *)
(***************************************************************************)
(* It asks for answers and does not wait for them; without a connection,   *)
(* or when a request fails, it raises.  The requests change nothing here,  *)
(* so they are one step with the test of the connection.                   *)
Refresh(t) ==
  \/ /\ connected
     /\ Goto(t, "read")
     /\ loc' = [u \in Threads |->
          IF u = t
          THEN [NoCall EXCEPT
                  !.began = [j \in Joints |-> IF Missing(driver[j]) THEN 0
                                              ELSE driver[j].number],
                  !.first = Busy = {}, !.alone = Busy = {} \/ t # Loop]
          ELSE IF u = Loop /\ u \in Busy
               THEN [loc[u] EXCEPT !.alone = FALSE]
               ELSE loc[u]]
  \/ UNCHANGED <<pc, loc>>

(* One turn of the loop over the handles: a driver without a reading is    *)
(* passed over and leaves the cache as it was.                             *)
Read(t) ==
  /\ At(t, "read")
  /\ LET i == loc[t].i IN
     \/ /\ i <= Len(handles)
        /\ Missing(driver[handles[i]])
        /\ loc' = [loc EXCEPT ![t].i = @ + 1] /\ UNCHANGED pc
     \/ /\ i <= Len(handles)
        /\ ~Missing(driver[handles[i]])
        /\ loc' = [loc EXCEPT ![t].new = FilterJoint(driver[handles[i]]),
                              ![t].saw[i] = IF t = Loop
                                            THEN driver[handles[i]].torq
                                            ELSE "None"]
        /\ Goto(t, "update")
  /\ UNCHANGED <<armVars, dataVars, ghosts>>

(* get_state() of a driver raises: the refresh ends with part of the cache *)
(* updated, and the cycle goes without its check.                          *)
ReadRaises(t) ==
  /\ At(t, "read") /\ loc[t].i <= Len(handles)
  /\ Return(t)
  /\ UNCHANGED <<armVars, dataVars, ghosts>>

(* Mutant: keeps the last good reading when the filter took one out. *)
UpdateKeepsGood(t) ==
  /\ At(t, "update")
  /\ cache' = IF Missing(loc[t].new) THEN cache
              ELSE [cache EXCEPT ![loc[t].i] = loc[t].new]
  /\ loc' = [loc EXCEPT ![t].i = @ + 1, ![t].new = NoReading]
  /\ Goto(t, "read")
  /\ UNCHANGED <<armVars, driver, window, counts, clock, ghosts>>

(* StateCache.update_joint() *)
Update(t) ==
  /\ At(t, "update")
  /\ cache' = [cache EXCEPT ![loc[t].i] = loc[t].new]
  /\ loc' = [loc EXCEPT ![t].i = @ + 1, ![t].new = NoReading]
  /\ Goto(t, "read")
  /\ UNCHANGED <<armVars, driver, window, counts, clock, ghosts>>

(* Mutant: takes its stamps from a clock that may be set back. *)
StampWallClock(t) ==
  /\ At(t, "read") /\ loc[t].i > Len(handles)
  /\ clock' \in 0 .. MaxClock
  /\ loc' = [loc EXCEPT ![t].now = clock']
  /\ crossed' = (crossed \/ \E u \in Threads : At(u, "tick"))
  /\ Goto(t, "tick")
  /\ UNCHANGED <<armVars, driver, cache, window, counts, calls, frames,
                 reported>>

(* After the loop tick() reads the clock, and only then takes its lock. *)
Stamp(t) ==
  /\ At(t, "read") /\ loc[t].i > Len(handles)
  /\ clock' \in clock .. MaxClock
  /\ loc' = [loc EXCEPT ![t].now = clock']
  /\ crossed' = (crossed \/ \E u \in Threads : At(u, "tick"))
  /\ Goto(t, "tick")
  /\ UNCHANGED <<armVars, driver, cache, window, counts, calls, frames,
                 reported>>

Tick(t) ==
  /\ At(t, "tick")
  /\ window' = Ticked(loc[t].now)
  /\ loc' = [loc EXCEPT ![t].now = 0]
  /\ Goto(t, "snapshot")
  /\ UNCHANGED <<armVars, driver, cache, counts, clock, ghosts>>

(* StateCache.snapshot() *)
Snapshot(t) ==
  /\ At(t, "snapshot")
  /\ loc' = [loc EXCEPT ![t].state = cache]
  /\ Goto(t, "publish")
  /\ UNCHANGED <<armVars, dataVars, ghosts>>

(* A refresh has come to its end: only the cycle goes on. *)
Refreshed(t) ==
  IF t = Loop
  THEN /\ Goto(t, "check")
       /\ loc' = [loc EXCEPT ![t].began = NoCall.began]
  ELSE Return(t)

(* Mutant: takes it for granted that there is a segment. *)
PublishUntested(t) ==
  /\ At(t, "publish")
  /\ Goto(t, "write") /\ UNCHANGED loc
  /\ UNCHANGED <<armVars, dataVars, ghosts>>

(* The segment is looked up and then written to, or raises if it is gone.  *)
Publish(t) ==
  /\ At(t, "publish")
  /\ \/ shm /\ Goto(t, "write") /\ UNCHANGED loc
     \/ ~shm /\ Refreshed(t)
  /\ UNCHANGED <<armVars, dataVars, ghosts>>

Write(t) ==
  /\ At(t, "write")
  /\ IF shm THEN Refreshed(t) ELSE Return(t)
  /\ UNCHANGED <<armVars, dataVars, ghosts>>

Check(t) ==
  /\ At(t, "check")
  /\ counts' = Counted(loc[t].state)
  /\ reported' = {j \in Joints : counts'[j] >= MaxCount}
  /\ LET given == Append(frames, [saw  |-> loc[t].saw,
                                  sure |-> loc[t].alone])
     IN  frames' = IF Len(given) > MaxCount THEN Tail(given) ELSE given
  /\ Return(t)
  /\ UNCHANGED <<armVars, driver, cache, window, clock, calls, crossed>>

-----------------------------------------------------------------------------
(***************************************************************************)
(* The other calls.                                                        *)
(***************************************************************************)
(* close(): the run state, then the handles, then the segment. *)
Close(t) ==
  /\ \/ /\ At(t, "close")
        /\ connected' = FALSE
        /\ Goto(t, "clear") /\ UNCHANGED <<handles, shm, loc>>
     \/ /\ At(t, "clear")
        /\ handles' = <<>>
        /\ loc' = [u \in Threads |->
                     IF u \in Busy THEN [loc[u] EXCEPT !.cut = TRUE] ELSE loc[u]]
        /\ Goto(t, "drop") /\ UNCHANGED <<connected, shm>>
     \/ /\ At(t, "drop")
        /\ shm' = FALSE
        /\ IF loc[t].op = "reconnect"
           THEN Goto(t, "connect") /\ UNCHANGED loc ELSE Return(t)
        /\ UNCHANGED <<connected, handles>>
  /\ driver' = IF At(t, "clear")
               THEN [j \in Joints |-> [driver[j] EXCEPT !.torq = "None"]]
               ELSE driver
  /\ UNCHANGED <<cache, window, counts, clock, ghosts>>

(* connect() makes a driver for each joint and forgets nothing it cached;  *)
(* only reconnect() makes a segment again.                                 *)
Connect(t) ==
  /\ \/ /\ At(t, "connect")
        /\ connected' = TRUE
        /\ Goto(t, "add") /\ UNCHANGED <<handles, shm, loc>>
     \/ /\ At(t, "add") /\ Len(handles) < NumJoints
        /\ handles' = Append(handles, Len(handles) + 1)
        /\ UNCHANGED <<connected, shm, pc, loc>>
     \/ /\ At(t, "add") /\ Len(handles) = NumJoints
        /\ IF loc[t].op = "reconnect"
           THEN Goto(t, "create") /\ UNCHANGED loc ELSE Return(t)
        /\ UNCHANGED <<connected, handles, shm>>
     \/ /\ At(t, "create")
        /\ shm' = TRUE
        /\ Return(t) /\ UNCHANGED <<connected, handles>>
  /\ UNCHANGED <<dataVars, ghosts>>

(* OvercurrentGuard.reset() *)
Reset ==
  /\ counts' = NoCounts
  /\ frames' = <<>> /\ reported' = {}
  /\ UNCHANGED <<driver, cache, window, clock, pc, loc, crossed>>

(* The control loop only refreshes; the other threads call anything that   *)
(* makes sense in the state of the connection they left.                   *)
Call(t) ==
  /\ At(t, "idle") /\ calls[t] < MaxCalls[t]
  /\ calls' = [calls EXCEPT ![t] = @ + 1]
  /\ \/ Refresh(t) /\ UNCHANGED <<dataVars, frames, reported, crossed>>
     \/ t # Loop /\ Reset
     \/ /\ t # Loop /\ connected
        /\ \E op \in {"close", "reconnect"} :
             loc' = [loc EXCEPT ![t].op = op]
        /\ Goto(t, "close") /\ UNCHANGED <<dataVars, frames, reported, crossed>>
     \/ /\ t # Loop /\ ~connected
        /\ loc' = [loc EXCEPT ![t].op = "connect"]
        /\ Goto(t, "connect")
        /\ UNCHANGED <<dataVars, frames, reported, crossed>>
  /\ UNCHANGED armVars

(* An answer of a motor reaches the driver: to a request or to a command. *)
Answer(j) ==
  /\ \E k \in 1 .. Len(handles) : handles[k] = j
  /\ \E torq \in Torques :
       driver' = [driver EXCEPT ![j] = [number |-> @.number + 1, torq |-> torq]]
  /\ driver[j].number < MaxReadings
  /\ UNCHANGED <<armVars, cache, window, counts, clock, pc, loc, ghosts>>

(* The arm before or after its first connect(). *)
Init ==
  /\ connected \in BOOLEAN
  /\ handles = IF connected THEN [j \in Joints |-> j] ELSE <<>>
  /\ shm = TRUE
  /\ driver = [j \in Joints |-> NoReading]
  /\ cache = [j \in Joints |-> NoReading]
  /\ window = <<>> /\ counts = NoCounts /\ clock = 0
  /\ pc = [t \in Threads |-> "idle"]
  /\ loc = [t \in Threads |-> NoCall]
  /\ calls = [t \in Threads |-> 0]
  /\ frames = <<>> /\ reported = {} /\ crossed = FALSE

Next ==
  \/ \E t \in Threads :
       \/ Call(t) \/ Read(t) \/ ReadRaises(t) \/ Update(t) \/ Stamp(t)
       \/ Tick(t) \/ Snapshot(t) \/ Publish(t) \/ Write(t) \/ Check(t)
       \/ Close(t) \/ Connect(t)
  \/ \E j \in Joints : Answer(j)

Spec == Init /\ [][Next]_vars
-----------------------------------------------------------------------------
(***************************************************************************)
(* Properties.                                                             *)
(***************************************************************************)
(* A refresh returns for every joint a reading at least as recent as the   *)
(* one the driver held when it began (arm.py:393), unless close() took the *)
(* handles away meanwhile or another refresh was already under way, which  *)
(* may put an older reading back after this one has read.                  *)
Fresh ==
  \A t \in Threads :
    At(t, "publish") /\ loc[t].first /\ ~loc[t].cut =>
      \A j \in Joints : loc[t].state[j].number >= loc[t].began[j]

(* What the motors feel is what the guard reports, through filter, cache   *)
(* and snapshot: a joint whose torque was over the limit in the last       *)
(* MaxCount frames is reported, and one that is reported had no torque     *)
(* within the limit and none the filter takes out (overcurrent.py:94).     *)
(* Frames in which another refresh interfered prove nothing.               *)
OverloadTrips ==
  \A j \in Joints :
    /\ Len(frames) = MaxCount
         /\ (\A k \in 1 .. MaxCount :
               frames[k].sure /\ frames[k].saw[j] = "heavy") => j \in reported
    /\ j \in reported =>
         /\ Len(frames) = MaxCount
         /\ \A k \in 1 .. MaxCount :
              frames[k].sure => frames[k].saw[j] \in {"heavy", "None"}

(* The frames that get_fps() counts lie in the span it divides them by     *)
(* (fps_monitor.py:104), over several threads that stamp and tick in       *)
(* separate steps, unless two of them held a time stamp at once: then      *)
(* their stamps reach the window out of order.                             *)
FpsHonest ==
  Fps.frames > 0 /\ ~crossed =>
    \A k \in 1 .. Len(window) :
      window[1] <= window[k] /\ window[k] <= window[Len(window)]

(* The write of a refresh finds its segment gone, and raises, only when a  *)
(* close() came between the test and the write (arm.py:435).               *)
WriteFailsOnlyUnderClose ==
  \A t \in Threads : At(t, "write") /\ ~shm => loc[t].cut
=============================================================================
