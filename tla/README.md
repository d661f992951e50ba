# TLA+ verification of motorbridge-arm

This directory models the control and concurrency of the `motorbridge_arm_sdk`
package: the life cycle of an arm, its motions and its e-stop, the feedback path,
the background control loops, the gripper, the Cartesian controller and its
trajectory, the web gateway, and the three shared-memory structures that connect
the arm's process with others. TLC checks the models on small instances; TLAPS
proves the most important properties for every value of the constants.

All source paths below are relative to
`src/motorbridge_arm_sdk/motorbridge_arm_sdk/`.

1. [The system](#1-the-system)
2. [The modules and the code](#2-the-modules-and-the-code)
3. [The runs](#3-the-runs)
4. [Where code and documents disagree](#4-where-code-and-documents-disagree)
5. [The proofs](#5-the-proofs)
6. [What is not modelled](#6-what-is-not-modelled)
7. [Plan](#7-plan)

## 1. The system

### Components, their state and their operations

| component | state | operations | what makes it correct |
| --- | --- | --- | --- |
| Run state machine (`runtime/state_machine.py`) | one of DISCONNECTED, IDLE, ENABLED, RUNNING, FAULT, under a lock | `transition` (asks the table `_ALLOWED`), `force` | moves only along the table, or by a named force |
| Arm (`arm.py`) | the state machine, the abort event, the damping flag, the control-loop handle and stop event; no lock of its own | `connect`, `close`, `reconnect`, `enable`, `disable`, `estop`, `clear_faults`, `move_j`, `execute_joint_trajectory`, `reset_to_home`, `set_to_damping`, `mit`, `pos_vel`, `set_vel`, `joint_vel`, `joint_mit`, `zero_calibrate`, control loop, parameters, IK | the run state, the cache, the session and the power stage agree between calls; a stop stops every motion; RUNNING never outlives its motion |
| Session (`session.py`) | the bus controller, the joint handles, the cached mode `_current_mode`, a lock that only `connect` and `close` take | `connect`, `add_joint`, `close`, enable and disable with polling, `ensure_mode_all`, `ensure_mode_joint`, the setpoints | a setpoint reaches motors in the mode it is meant for |
| Motion executor (`motion/executor.py`) | none | `run`: waypoints at a fixed rate, an abort event, a deadline | looks at the abort event before every send, always returns |
| State cache (`telemetry/state_cache.py`) | the last joint readings and a copy of the run state, under a lock | `update_run_state`, `update_joint`, `snapshot` | the copy follows the original |
| Ring buffer (`ipc/ring_buffer.py`) | a tick and slots of (tick, words) in shared memory; a lock in the writer's process only | `put`, `get`, `get_last_k`, `clear` | no torn observation, the newest first, no spinning without progress |
| Queue (`ipc/queue.py`) | `head`, `tail` and slots in shared memory; a lock in each process only | `put` (drops the oldest when full), `put_batch`, `get`, `get_k`, `peek`, `clear`, `qsize` | first in first out, whole commands, head never passes tail |
| Shared arm state (`ipc/shared_state.py`) | a spinlock byte, a tick and a block per joint in shared memory | `write`, `read` | a reader sees all of one write; a reader returns |
| Control loops (`arm.py`, `gripper.py`, `controllers/realtime_controller.py`) | a thread handle, one stop event, a `_running` flag | start, stop (with a join that times out), the loop | one loop at a time; a stopped loop ends |
| Gripper (`gripper.py`) | a session of its own, a motor handle, a control loop, the force threshold | `connect`, `close`, `enable`, `disable`, `set_zero`, `mit`, `pos_vel`, `set_vel`, `calibrate`, the loop | a closed or disabled gripper is off and stays off; it does not go on squeezing |
| End-position controller (`controllers/arm_endpos.py`) | an arm | `safe_home` with a worker thread and a timeout; IK motions | the fallback does not undo an operator's stop |
| Cartesian controller (`controllers/cartesian_controller.py`) | a pending command under a lock, a realtime controller, a `_running` flag | `start`, `stop`, `set_eef_cmd`, `set_eef_traj` | a failed start does not leave it marked as running |
| Interpolator (`trajectory/timestamped_interpolator.py`) | a list of waypoints, no lock | `init`, `append_*`, `override_*`, the query of the loop | waypoints stay in order; a query stays within them; the arm does not jump and does arrive |
| Safety (`safety/`) | per-joint counters and last values, under locks | `OvercurrentGuard.check`, `OutlierFilter.filter`, clamps, watchdog | an overload that lasts is reported, and nothing else is |
| Telemetry (`telemetry/recorder.py`, `fps_monitor.py`) | bounded deques under locks | `add`, `save_json`, `tick`, `fps` | bounded, oldest dropped; the rate counts frames of the span it divides by |
| Web gateway (`web/`) | clients, waypoints, one motion task and its status | asyncio handlers that interleave at each `await` | one motion at a time; a stop stops it; the status is that of the task that runs |
| Simulator (`sim/`) | joint positions | the arm's interface without a bus | the gateway alone moves it |
| Kinematics, dynamics, planners (`model/`, `dynamics/`, `trajectory/`, `motion/`) | none, or caches of a library | floating-point functions | |
| Vendors, parameters (`vendors/`, `params/`) | tables | lookups | |

### How they interact

An application calls one `Arm` object, often from several threads: the
application itself, the worker of `safe_home()`, a control-loop callback, an
operator's e-stop. `Arm` calls its session, which calls the motor library; the
run state is changed through the state machine and copied to the cache in a
separate step. `refresh_state()` also publishes the joints in shared memory for
other processes. A motion runs in the caller's thread and learns of a stop only
through the abort event. The control loops call back into the arm from threads of
their own, and may call start or stop from there; the Cartesian controller puts a
trajectory into a list that such a loop is reading. The gripper has a session of its
own. The gateway runs on one asyncio loop and drives the simulator, not an arm.

### What is hard about it

* **Interleaving.** `Arm` has no lock, so every read-then-act pair in it (test
  the run state, then change it; test the abort event, then clear it; check the
  table, then energise) can be split by another thread.
* **Partial failure.** Any bus call may raise; what was done before it stays.
* **Stale state.** The cached mode, the cached run state, the `prev` of
  `connect()`, a cursor read at the head of `get()`, a feedback older than the
  command, a time read before the inverse kinematics are used after the truth may
  have changed.
* **Awaits.** The gateway tests, broadcasts and only then creates its task; every
  broadcast lets the handlers of the other clients run.
* **Lock-free memory.** The shared-memory structures rely on the order of
  single reads and writes, and on a second look after reading.
* **Crashes.** A process that dies leaves the segment as it is, a spinlock byte
  included; its successor attaches to it.
* **Timeouts.** A join gives up on a loop that is still alive; a motion's
  deadline sets the abort event; polling gives up on a motor.

`PROJECT.json` lists each hazard with the line where it bites and the properties
that would catch it. Where the code does go wrong in that way, a property can only be checked
for the histories in which it has not: the hazard then names no property and says so.

## 2. The modules and the code

| module | what it models | uses |
| --- | --- | --- |
| `RuntimeStateMachine` | `RuntimeStateMachine` of the code, and the abstract specification of the arm's run state | |
| `ArmLifecycle` | `Arm`, its session, the executor and the motors | instantiates `RuntimeStateMachine` |
| `MCArmLifecycle` | which thread calls what, for TLC | extends `ArmLifecycle` |
| `ArmLifecycleProofs` | theorems about it | extends `ArmLifecycle` |
| `Feedback`, `MCFeedback`, `FeedbackProofs` | `refresh_state()` with the filter, the cache, the frame counter and the overcurrent guard behind it, and theorems | |
| `ObservationLog`, `BoundedQueue`, `SnapshotRegister` | what the three shared structures are to their users: their abstract specifications | |
| `SharedRingBuffer`, `SharedRingBufferProofs` | `SharedRingBuffer` and its theorems | instantiates `ObservationLog` |
| `SharedQueue`, `SharedQueueProofs` | `SharedQueue` and its theorems | instantiates `BoundedQueue` |
| `SharedArmState`, `SharedArmStateProofs` | `SharedArmState`, the arm's process that dies and restarts, and theorems | instantiates `SnapshotRegister` |
| `ControlLoop`, `ControlLoopProofs` | the background loops of `Arm`, `Gripper`, `RealtimeController`, and theorems | |
| `Interpolator` | the trajectory operations as functions on sequences | |
| `CartesianControl` | the application and the loop thread on one unlocked trajectory | extends `Interpolator` |
| `Gripper`, `GripperProofs` | the gripper, its loop, its motor and the feedback the driver holds, and theorems | |
| `Gateway`, `GatewayProofs` | the handlers, the motion task and the state push of the web gateway, and theorems | |

Each module names its step after the function it belongs to; `map` in
`PROJECT.json` gives the lines of every definition. A definition whose comment
starts with *Mutant* is a plausible bug, used to show that a property can fail.

### ArmLifecycle

The state is that of the objects, under the names of the code: `run`
(`_runtime._state`), `cache` (the run state in the cache), `abort`
(`_abort_event`), `damping`, and of the session `controller`, `handles`
(`_joints`) and `curMode` (`_current_mode`). `motorOn` and `motorMode` are the
motors themselves: the model can compare what the software believes with what
the hardware does. `pc[t]` is the next step of thread `t`, `loc[t]` its local
variables.

One step is one access to shared state or one call of the bus: `enable()` is
`EnableTransition`, `EnableMotors`, `EnableCache`. The code of a call between
two such accesses is part of the step before or after it. A `finally` block is
reached from the normal and the failing path alike (`SendPoint` goes to
`motion_end` in both). The kinds of bus call that may fail are the constant
`Faults`; an instance lists those its question is about.

Abstractions: a trajectory is the number of waypoints left; joint values, gains
and limits are dropped; the polling of enable and disable is one step in which
one motor may stay as it was (`"status"`); all motors of a setpoint are reached
in one step, which is safe because no property looks between two motors.
`set_mode` of one motor is a step of its own, because `ensure_mode_all()` may
fail half way. While the session is closed the bus is free for other programs, which
may leave a motor in another mode (`OtherUser`, external to the source): that is why
the session must forget `_current_mode` when it closes. The join in `close()` and `estop()` is only a delay here;
`ControlLoop` models it. `move_j`, `move_joint`, `home`, `move_l`, `move_c` and the
gripper moves of the arm differ in what they may refuse before they reach
`_run_joint_points()` (an unknown joint, no gripper, no solution). `write_param()`
may write any register of one motor, the control mode included: which register that
is belongs to the vendor.

### RuntimeStateMachine as abstract specification

`RuntimeSpec` in `ArmLifecycle` is the specification of `RuntimeStateMachine`
with the arm's `run` for its `state`. It says that the run state is only ever moved along
`_ALLOWED`, or forced to FAULT or DISCONNECTED as `estop()` and `close()` do. The third
use of `force()` in the code is the one that may break it: a `connect()` that fails forces
the state it read before its transition (`arm.py:121`), which another thread may have
overtaken, so that an arm in FAULT may be forced to ENABLED. The specification does not
allow for that. It holds where every rollback happens to be a move of the table: for callers
who keep `connect()` for an arm that is closed or in FAULT. The constant `ClosedOnly` names
such operations, as `OpenOnly` names those kept for an open session. Section 4
(*Roll-back*) says what happens otherwise.

### SharedRingBuffer

One writer, any number of readers. `put()` writes the slot's tick, then the
words, then the published tick, each in a step of its own; `get()` and
`get_last_k()` read word by word. The words of an observation are replaced by the
number of the `put()` that wrote them, so a mixture shows. `WriterRestart` ends a
writer at any point; its successor continues from memory. `clear()` walks over
the segment; a call of a reader during which it ran is exempt from the
properties (`cleared`), because the tick then repeats itself.

`ObservationLog` is the buffer without its words and slots: a log to which `put()` adds
in one step, and of each reader the call it is in. `Log` gives each published tick the
observation behind it; `Seen` is the reader's call, *void* once the log was cleared
under it or its retries are used up. A `put()` happens when it publishes its tick, a
`get()` when it looks at the tick for the second time, and the slot tests and the
copying of words are no steps at all.

### SharedQueue

One producer, one consumer, two cursors. The module keeps every read of a cursor
apart from its use: `phead` and `chead` are the values that `put()` and `get()`
read. `raced` becomes true when the producer moves `head` inside a call of the
consumer (or after the consumer has moved it since `put()` read it): from there
on the code gives no order, see section 4. `PutAbandoned` is an exception in
`put()` or the death of the producer.

`BoundedQueue` is a sequence of at most `Capacity` commands. `Held`, the commands
between the cursors, is that sequence; a `put()` happens when it moves tail, a `get()`
when it moves head. The consumer's `clear()` is two steps of it, because it reads tail
before it moves head: what is put in between stays (`doomed`). It counts the calls of
`clear()`, so that no other step that loses commands passes for one. `QueueSpec` demands a step of
`BoundedQueue` of each step after which nothing has raced.

### SharedArmState

`write()` takes the spinlock in three steps (test, set, verify), or by force
after its attempts are used up, then counts the tick up, writes the joints and
releases. `read()` waits for the byte to be free, reads tick, joints, tick and the
byte again. Several writers are threads of one process. The segments and the name
are state of their own: `Open` makes a segment or attaches to the one that is named,
`Close` drops it and takes the name away, and a reader keeps the segment it has open
whatever the name stands for. `ProcessDies` ends all the writers with the segment as
it is; the next process goes on from there. `JointRaises` is a `write()` that raises half
way: its `finally` releases the lock all the same, over a mixture of two writes under a new
tick, until the next `write()` has ended. `half` are the segments in that state: a reader that
reads its first tick there is *late*, like one that reads it under the lock.

`SnapshotRegister` is what a segment is to its readers: versions that are published in one
step each while the writers are `busy` (the lock byte is set, or a `write()` that raised has
left its mixture), and a reader that looks in one
step. A `write()` publishes when it counts the tick up, and not when it has written the
joints: a reader that looks while the writers are busy may get anything. A `read()`
looks when it reads the tick for the first time; what it does later (the joints one by
one, tick and lock byte again) decides whether it returns, or looks again.
`RegisterSpec` demands a step of the register of each step after which no two
writers have held the lock at once.

### ControlLoop

`kind` selects one of the three classes at the start; they differ in whether a
start stops the old loop (`Arm`), returns (`Gripper`, `RealtimeController`), and
in whether a loop may stop itself (only `Arm` tests for it). The callers are user
threads and the loops. `StopJoin` has the outcomes of `join(timeout)`: the loop
ended, the timeout, the exceptions for joining oneself or a thread not started.
`overlap` and `gaveUp` record that two calls overlapped, or that a stop left its
loop alive.

### Feedback

A refresh asks the driver of each motor for what it holds (`request_feedback()` is
not waited for, so that may be old), filters it, puts it into the cache, takes a
time stamp and counts a frame, takes a snapshot and publishes it: each is a step,
for each has a lock of its own or none. One of the threads is a control cycle, which
hands its snapshot to the overcurrent guard. A refresh may raise at its start, or in its loop after some joints of the cache were
updated (`ReadRaises`). A torque is fine, over the limit of the
guard, or over the limit of the filter; what the filter takes out is `None`. `close()`
drops the handles and the segment at any point of a refresh.

### CartesianControl over Interpolator

The loop reads `_traj` without a lock at every step of its search (its length, its
first and last element, one pair after the other), so each is a step, and the
application may replace or extend the list between any two. `append_waypoint()` and
`append_traj()` build their list in place, one `append()` at a time. The two clocks
(`CartesianController._t0` and that of the realtime controller) start at different
steps. `lag` adds up by how much a change was made later than the time it reckons
with: it is the allowance in `JumpBounded`.

### Gripper

A call is written as the list of its accesses (`Disable == StopLoop \o ...`), which
reads like the method; `todo[p]` is what is left of the call of thread `p`, and a step
that raises drops the rest. The loop's callback streams `pos_vel()`. The motor moves
towards its target and stops at what it grips; the driver holds the feedback of the
last request that was answered.

### Gateway

What a handler, the motion task or the state push does from one `await` to the next
is one action; in between all others run. A broadcast is its first `await`. A
connection may be lost at any `await`, and `cancel()` reaches a task at its next one.
`overlap` records that two run requests were between the busy test and
`create_task()` at once.

### Common assumptions

* Memory fields of up to 8 bytes are read and written at once and in program
  order (x86, or the barriers the code's comment at `ipc/shared_state.py:419`
  claims). Tearing inside one unaligned field is not modelled.
* Python statements of two threads interleave between any two accesses to
  shared objects.
* The lock of `put()`/`clear()` in one process works; there is one process on
  each side of a ring buffer or a queue.

## 3. The runs

| run | instance | checks | distinct states |
| --- | --- | --- | --- |
| `arm_one_caller` | one thread, 2 joints, 12 calls out of connect (by reconnect), close, enable, disable, motions, estop, clear_faults, the all-joint setpoints, the reading calls; a healthy bus | `TypeOK`, `PowerTracksRun`, `CacheTracksRun`, `SetpointMeetsMode`, `SessionMatchesRun` | 43 thousand |
| `arm_threads` | an application that opens, reopens and moves the arm, and an operator who stops, disables and closes it; 3 calls each, 1 joint, 2 waypoints, every fault | `AbortStopsMotion`, `RuntimeSpec` | 2.4 million |
| `arm_motions` | two threads that both move, 3 calls each, failing sends, feedback and deadlines, fair threads | `RunningHasMotion`, `FaultPowerOff`, `CallsReturn` | 0.3 million |
| `feedback` | an application and a control cycle of 3 turns, 1 joint, 2 readings, 3 instants, a window of 3 time stamps, overload after 2 frames | `Fresh`, `OverloadTrips`, `FpsHonest`, `WriteFailsOnlyUnderClose` | 5.9 million |
| `ring_buffer` | 1 reader, 2 slots, 2 words, 5 puts, 1 clear, 2 tries | `ReturnsWhole`, `GetIsLatest`, `RetryMeansProgress`, `LogSpec` | 0.3 million |
| `shared_queue` | 2 slots, 2 words, 5 puts, 3 gets, 1 clear | `CursorsOrdered`, `FifoUnlessRaced`, `QueueSpec` | 0.6 million |
| `shared_state` | 2 writers, 1 reader, 2 joints, 2 tries, 2 writes, 2 segments, fair | `NoTornReadUnlessLate`, `TicksGoOn`, `RegisterSpec`, `ReadsReturn` | 1.1 million |
| `control_loop` | 2 user threads, 3 loops, all three classes, fair | `OneLoopUnlessGivenUp`, `RunningHasLoop`, `StoppedLoopsEnd` | 0.5 million |
| `tracking` | 4 calls of the application, 2 positions and a home, 4 instants, fair | `TrajOrdered`, `InHull`, `RunningHasLoop`, `JumpBounded`, `Arrives` | 1.2 million |
| `gripper` | 4 calls of the application, 1 loop thread, 3 positions, fair | `ClosedIsOff`, `QuietOnceDisabled`, `ForceReleased` | 0.2 million |
| `gateway` | 2 clients, one of which may be lost, 2 motion tasks, 1 waypoint, 2 points, 4 requests, fair | `OneMotionUnlessOverlap`, `StatusTellsTruth`, `StopHalts`, `EveryMotionEnds` | 0.7 million |
| `estop_bus_failure` | the smallest instance that shows the disagreement | `EstopEndsInFault`, violated | |

**Why the bounds are enough.** A torn read needs one writer that laps one reader
in one slot: with two slots, five puts go round the ring twice and meet the
reader at every word; readers do not write, so a second reader adds nothing. The
queue overflows at the third put and wraps at the fourth. In the arm, two
threads suffice for every pair of calls to interleave, and three calls each reach
a motion (connect, enable, move) and a stop and its acknowledgement by the other;
with one caller, twelve calls go round the life cycle more than once. Two
writes are enough for the two-writer hazards of the spinlock, and three loops for
a start, a restart and a restart from the callback; two segments for a reader that
stays on the old one. Four calls of the application reach a start that fails, a
start that works, a trajectory and one that replaces it while the loop searches the
first; two positions on either side of home make a jump visible. In the gripper, four
calls go through connect, enable, a loop and the call that has to end it; three
positions are open, in contact and one that cannot be reached. In the gateway four
requests are two runs that overlap, a stop and a change of the waypoints. Two frames
to trip and three control cycles let a guard trip, be reset, and count again. Three time
stamps are the fewest among which two can be out of order with the rate still over a
positive span. In `arm_threads` three calls reach a `reconnect()` of the open arm that
fails after the operator has stopped or disabled it, and the rollback that follows. The
theorems of section 5 remove the bounds where they are proved.

**Deadlock.** Runs with a bounded number of calls in total stop when the calls are
used up (`CHECK_DEADLOCK FALSE` in the configurations of the arm, of its feedback, the
trajectory, the gripper and the gateway), and a reader of
`shared_state` really is stuck once the process that held the lock has died. The
ring buffer, the queue and the control loop are checked for deadlock: there the
readers, or the stops, can always go on.

**Why one caller in `arm_one_caller`.** The agreement of run state, cache, session
and power stage is a fact about an arm used from one thread with a healthy bus and
calls in an order the documents describe. Each condition is needed: section 4
lists what breaks it.

**Fairness.** `FairSpec` gives weak fairness to each thread (or process) that is
inside a call, and to nothing else: no one has to make another call. The code
justifies it by its timeouts: bus calls return or raise, `join()` and the polling
have limits, a motion sleeps a bounded time between waypoints, and the operating
system schedules threads that can run. `StoppedLoopsEnd` also assumes that
callbacks return, and `ReadsReturn` excuses a reader once a writer has died
inside `write()`. `ReadsReturn` is about a lock left behind: the model makes finitely
many writes, so a reader that always finds the byte set by yet another write is not
part of it.
`Arrives` and `ForceReleased` need more: that the bus, which may fail at any call,
does not fail at the same call for ever (strong fairness of the send that gets
through, of the feedback that is answered, and of the hold command). A loop that runs
on is assumed in the formula itself. `EveryMotionEnds` needs only the event loop: a
send ends, because the connection's ping timeout ends it.

**The mutants.** For every property of a passing run `PROJECT.json` names a
plausible bug in a mapped definition (a dropped check, a swapped order, a value
not reset) that makes TLC report that very property.

## 4. Where code and documents disagree

One run shows a disagreement; the quotation is in `findings`.

* `estop_bus_failure`: `estop()` calls `disable_all()` before it forces FAULT, with
  no `try`; when the bus fails there the arm stays ENABLED or RUNNING. The docstring
  says FAULT is forced "regardless" (`arm.py:359`).

The models show more, for which the project keeps no run of its own. Where
one of them would break a property of a passing run, the property names it as the
condition under which it holds.

**Arm and session**

* *Stale mode.* `joint_vel()`, `joint_mit()` and `write_param()` may switch one motor and
  leave `_current_mode` as it is; the next `mit()` believes that all motors are in MIT
  mode (`session.py:162`).
* *Enable against e-stop.* An `enable()` past its transition energises the motors after
  an `estop()` has cut them: FAULT with the power on (`arm.py:217`, against
  `spec/spec.md:53`). `FaultPowerOff` holds where no other thread enables meanwhile.
* *Safe home.* When `safe_home()` times out it sets the abort event and, after a join of at
  most two seconds, clears it (`controllers/arm_endpos.py:108`): a motion that has not
  looked at it by then goes on, and an operator's stop of that time is gone.
* *Kinematics.* `move_l()` and `move_c()` apply the tool offset to the pose they start
  from and not to the target they solve for; `_gravity_torque()` turns any failure
  into zero torque.
* *Way out of FAULT.* The docstring of `estop()` (`arm.py:359`) names
  `clear_faults()` then `enable()`; the table has no move from FAULT to ENABLED,
  and `disable()` or `connect()` has to come first.
* *Reconnect.* `close()` sets the abort event and nothing but `clear_faults()`
  clears it, so the first motion after a `reconnect()` is refused.
* *Abort erased.* `_run_joint_points()` tests the abort event and then clears it;
  an `estop()` in between is lost to that motion.
* *Connect twice.* `connect()` from IDLE or ENABLED appends every joint again; the
  all-joint setpoints then fail on their length.
* *Unconfirmed motors.* `enable()` drops the list of motors that did not confirm.
* *Roll-back.* A failing `connect()` forces the state it saw at its start; a controller
  already opened stays open. When it was called on top of a connection, that takes an arm
  to ENABLED that an `estop()` has put into FAULT since. `RuntimeSpec` holds for callers who
  do not; and with two threads that disable beside the one that opens and moves the arm it
  does not hold even then: a `disable()` that saw RUNNING may still move IDLE to ENABLED
  before the `connect()` of a `reconnect()` reads it.
* *Cache.* A motion writes ENABLED into the cache in its `finally` block even when
  the run state is FAULT by then.
* *Disable during a motion.* It does not set the abort event; and between the
  motion's test for RUNNING and its transition, IDLE turns back into ENABLED with
  the motors off.
* *Damping flag.* Mode commands do not reset it.
* *Zero calibration.* It de-energises the motors and leaves the run state ENABLED.

**Feedback**

* *Old readings.* `request_feedback()` is not waited for; a frame may repeat the reading of
  the frame before, which the overcurrent guard counts again.
* *Taken out.* A torque beyond the limit of the outlier filter becomes `None`, and `None`
  resets the count of the guard: an overload that is too large is not one.
  `positions()` reads `None` as 0.0 (`types.py:117`).
* *Counting.* "more than max_consecutive_count" (`safety/overcurrent.py:50`) is "at least"
  in the code; the rate is (n - 1) / span where `telemetry/fps_monitor.py:122` says
  count / span, and two threads put their stamps into the window out of order.
* *Close.* The cache survives `close()`; the shared memory is never made again by `connect()`
  after `close()`, only by `reconnect()`.
* *Connect in a close.* A thread that connects between the last two steps of another
  one's `close()` gets an arm whose segment is about to be dropped: a refresh that begins
  then finds the segment gone when it writes, with no `close()` between its test and its
  write.

**Shared memory**

* *Queue overflow.* When `put()` drops the oldest command while `get()` is reading it,
  the command comes out torn, or twice, and head may go backwards; `Fifo` without
  `~raced` fails in the instance of `shared_queue`. The documents call the queue
  first-in-first-out (`ipc/queue.py:1`).
* *Torn read.* `write()` counts the tick up first, so a `read()` that arrives between the
  tick and the data trusts a mixture (`ipc/shared_state.py:235`, against line 200). So does any
  `read()` after a `write()` that raised half way, until the next one (line 251).
* *Reconnect.* A reader stays on the segment that lost its name, and is not told; one
  that was opened before there was a segment does nothing for good.
* *Names.* `close()` of a creator that only attached takes the name away from everybody.
  Under Python 3.10 to 3.12 the resource tracker of a reader may do so too.
* *Close in a write.* It leaves the lock byte set, and the readers of that segment spin.

**Control loops, trajectory, gripper**

* *Two loops.* The join of a stop gives up, the next start clears the stop event, and the
  old loop goes on beside the new one (`arm.py:1235`, against line 1221).
* *Half a start.* A `start()` that fails in `mode_mit()` leaves `_running` set, and the next
  one does nothing.
* *Dropped waypoints.* `append_traj()` keeps no waypoint before the current time, which
  its docstring promises (`trajectory/timestamped_interpolator.py:172`); so
  `set_eef_traj()` of two or more points on an empty trajectory loses the start it has
  just put there. `append_waypoint()` may put one time stamp in twice.
* *Never read.* What `set_eef_cmd()` stores has no reader: `_update_ik_target()` is not
  called.
* *Disable.* The gripper's `disable()` may answer True on feedback older than a
  `disable_all()` that failed (`gripper.py:169`). `close()` keeps its `_mode`, and
  `calibrate()` measures in a frame that it moves in between.
* *Force.* The force check is for closing only, where the documentation says closing or
  opening (`gripper.py:338`), and reads a feedback older than the command.

**Gateway**

* *Overlap.* Two run requests that pass the busy test during each other's broadcast both
  start a motion (`web/simu_gateway.py:210`), and the first can no longer be stopped.
* *Late events.* A broadcast to a slow client lets newer ones overtake it: clients may
  see "running" after "stopped".

## 5. The proofs

All theorems hold for every value of the constants that satisfies the named
assumptions of the module. No step is left unproved.

### ArmLifecycleProofs

`TypeCorrect`: `TypeOK` with `WantsMode` is inductive, for any number of threads
and joints, any menu and any faults. The strengthening says that a thread inside
`ensure_mode_all()` asks for a real mode: without it the mode of a motor is not
known to be one. There is one lemma per group of steps.

`AbortStops`: `AbortStopsMotion`, again for any instance. The argument: the count of
late waypoints is reset in the step that sets the abort event; while it stays set,
a thread at the head of the executor's loop never goes on to send, so only a
thread that is already at `waypoint_send` or `ramp_send` adds one, and it leaves
that step for the head of the loop, or the end. The inductive invariant says so for
every step a thread can be at.

*Threads that interleave.* The next three hold for any number of threads, and what they
assume is no more than what section 4 shows to break them. Where the assumption is one
on the behaviour, a corollary names the menus that guarantee it.

| theorem | property | assumes | because | corollary |
| --- | --- | --- | --- | --- |
| `FaultIsOff` | `FaultPowerOff` | `disable_all()` does not raise; `EnableApart`: no `enable()` is at its power-on while another call is between cutting the power and saying so, or may roll back to FAULT | *Enable against e-stop* | `OneOperatorFaultIsOff`: the thread that enables is the one that connects, closes and stops |
| `RunningIsOwned` | `RunningHasMotion` | no mode switch raises; `NoRollback`: no `connect()` rolls back to RUNNING | *Roll-back*; `_run_joint_points()` has entered RUNNING before the `try` that leaves it | `OpenRunningIsOwned`: sessions are only opened, and the bus lets them; `CommandedRunningIsOwned`: `OneCommander` |
| `ArmRuntime` | `RuntimeSpec` | nothing of the behaviour, any faults; `OneCommander`: one thread opens, powers and moves the arm and keeps `connect()` for an arm that is closed or in FAULT, and besides it one thread disables; any number of others close, stop, clear and command it | *Roll-back* | |

For FAULT the inductive invariant (`PowerInv`) adds that only motors with a handle are
energised, so that `disable_all()` reaches each of them; that a closed controller means
no power; and that the motors stay off from the step that cuts them to the one that says
FAULT. `RunningHasMotion` is inductive as it is, and its lemma says of each step whether it
takes the run state over, hands it on or leaves it to its owner.

`ArmRuntime` is the refinement. Every write of the run state but one asks the table, or
forces FAULT or DISCONNECTED (`RunStep`), so what has to be shown is `RollbackLegal`: the
state that a failing `connect()` goes back to is one the table leads to from wherever the
other threads have moved the arm in the meantime. It is not inductive. The invariant is
`FoundDown`: when `connect()` reads the state, the arm is closed, in FAULT, or IDLE with
no `disable()` half way through, because the `close()` of `reconnect()` has just left it or
the caller has seen to it; and from then on nobody moves it to RUNNING, because all
who could are the commander, which is inside `connect()` (`InRole`, `RolesKept`). So `prev` is
DISCONNECTED, IDLE or FAULT, and IDLE is in the row of the table of every state the arm may be
in then. `BystanderRun` says where the other threads may move the run state meanwhile,
`FoundBystander` and `FoundCommander` that the invariant outlives their steps and those
of the commander. `CommandedRunningIsOwned` uses the same invariant for `NoRollback`.

*Calls that do not overlap.* The other four properties are about an arm whose calls come
one after the other (`OneAtATime`), from one thread or from several that wait for each
other; `SingleCallerModes` and `SingleCallerBooks` state them for a single thread, where
nothing has to be assumed of the behaviour. Each invariant says what is true at every
step of the call under way (`\A t : Sole(t) => ...Phase(t)`), so that it is settled
again when the call returns. Each theorem has its own assumptions:

| theorem | property | no call of | no failing |
| --- | --- | --- | --- |
| `SetpointsMeetModes` (`ModePhase`) | `SetpointMeetsMode` | `connect()` on top of a session, `joint_vel()`, `joint_mit()`, `write_param()` (*Stale mode*) | mode switch |
| `SessionsMatchRun` (`SessionPhase`) | `SessionMatchesRun` | `connect()` on top of a session, `estop()` without one | `add_joint()` |
| `CachesTrackRun` (`CachePhase`, `RunPhase`) | `CacheTracksRun` | these, and `set_to_damping()` | mode switch, `add_joint()`, `enable_all()`, `disable_all()` |
| `PowersTrackRun` (`PowerPhase`, `RunPhase`) | `PowerTracksRun` | these without `set_to_damping()`, and the zero calibrations | the same, and no motor that does not confirm |

Any of the other failures (opening the bus, feedback, a setpoint, a deadline) may
happen. `arm_one_caller` satisfies all of these assumptions.

### SharedRingBufferProofs (at least two slots)

`Inv` has four parts: the types; `Shape`, where the writer can be; `MemInv`, what a
slot holds: a slot whose tick is that of a published observation, other than the
one being written, holds all the words of its `put()`; and `ReadInv`, what a reader
may rely on: as long as the slot still shows its tick (or, for `get()`, the
published tick has not moved), the words read so far are those of that observation.
`NoTornObservation`, `GetReturnsLatest` and `RetriesOnProgress` follow.
The assumption of two slots is needed: with one slot the writer always works on the
slot the reader is reading, under a tick that is still published.

`BufferTypes` is the type invariant alone, which comes first.

`LogImplements` is the refinement: `Spec => LogSpec`. Two facts carry it. That a `get()`
misses only when the log has grown, and returns its newest entry, is the argument of the
theorems above once more. That a `get_last_k()` ends early only when the writer has lapped
it needs an invariant of its own, `RecentInv`: the slots of the newest observations, as many
as fit beside the one that may be on its way, still show their ticks. It is inductive because
two ticks that differ by less than the number of slots have different slots
(`SlotsDiffer`). There is one lemma for what the log is (`LogIs`, `LogGrows`) and one for
each group of steps (`LogWriting`, `GetBegins`, `LastBegins`, `LogGetting`, `LogLasting`,
`VoidStays`).

### SharedQueueProofs

`QueueTypes` is the type invariant, which holds through every race.
`Inv` consists of the types, the order of the cursors with the copies the two
processes hold (`CursorInv`), the history of what was put (`SentInv`), and, as long
as nothing raced, `RaceFree`: the consumer's copy of head is head, the queue fits its
slots, every slot between head and tail holds the command put there, the words read
so far are those of that command, and what was returned is older. `CursorsStayOrdered`
needs only the first part, and so holds through every race; `FirstInFirstOut` and
`WithinCapacity` (at most `BufferSize` commands until something races) need all of it.

`QueueImplements` is the refinement: `Spec => QueueSpec`. `Inv` already says that the words
between the cursors are those of what was put; `PutInv` adds what the producer knows of the
`put()` it is in: it has a number, and it drops a command only where the queue it saw was full.
The rest is about sequences: `Held` loses its head, or gets one command more, when a cursor
moves (`HeldDrops`, `HeldGrows`).

### SharedArmStateProofs

`IInv` is the types, and, as long as no two writers have held the lock at once, two
halves. `WriterInv`: one writer is inside, with the lock held and the tick it read
(`LockInv`); each tick has its `write()`, and the blocks of the one under way are filled
in order (`FillInv`); a segment with the lock free is settled, that is, all its blocks
are those of its tick, unless a `write()` that raised has left it (`FreeInv`). `ReaderInv`, of each reader: while the tick is still
the one it read first with the lock free, its segment is settled and what it has copied
is in it (`ReadInv`); it is never ahead of its segment (`TickInv`). The step that makes
this work is the lemma that any step of the arm is `Onward` for a segment: ticks grow,
what was published stays, and the blocks of a segment nobody is filling change only
with its tick. `NoTornRead` and `TicksOnward` follow, over every close, death and
restart of the arm's process.

`RegisterImplements` is the refinement: `Spec => RegisterSpec`. With `late` read as *dirty*,
it says that `read()` is linearizable at the first tick it reads, where the lock was
free and no raising `write()` had left it. The invariant gives the data of a clean look; `CallInv` numbers the `write()`s under
way and the attempts left. Most of the work is that the log of a segment grows by
one entry in the step that moves the tick, and stays in all others (`ContentsGrow`,
`RegisterWriting`), whoever else is writing.

### ControlLoopProofs

`TypeCorrect` needs `RoomInv`, a count of the starts under way against the loops left:
it is where finite sets enter. `OneLoopAtATime` and `RunningHasALoop` follow from
`SeqInv`, which is about calls made one by one whose joins do not give up: one call at
a time (`OneCall`); the loop there is is the one of the handle (`HandleInv`); a call
joins that loop, and past the join, or on the way to a new loop, there is none
(`JoinInv`); a loop that is made is started by the call that made it (`NewInv`); and the
controller says it is running while it has a loop, or is about to make one, or to end
one (`RunningInv`).

### GatewayProofs

The invariant says, besides `OneMotionUnlessOverlap`, that at most one handler is
accepting a run request (`OneAccepting`), that a stop that stands has cancelled every
task that has moved (`StopCancels`), and whose motion the word "running" is about
(`WorkingHasMotion`, `MotionIsWorking`). `OneMotion` and `StatusIsTrue` are parts of it or
follow at once; `StopIsFinal` is an action property that follows from `StopCancels`,
for a cancelled task only ever takes the step that ends it.

### GripperProofs

A call of the application is the list of what it has still to do, so the invariant
speaks of that list: in every call a step that disables the motor comes after the join of the
loop, a step that closes the session comes right after the one that disables, and the
steps that `disable()` and `set_zero()` may pass over are where the code has them. Each
call has this shape when it begins (one lemma each), and every step keeps it. `Inv`
(`GripperInvariant`) adds that a thread of the loop that runs is the one of the handle or was
given up by a join (`ThreadsKnown`), that a quiet gripper has none (`QuietIsStopped`), and that
at the step that closes the session the motor is off or `disable_all()` has failed
(`AtClosing`). `ClosedGripperIsOff` and `DisabledStaysQuiet` follow for any number of loop
threads, positions and failures.

### FeedbackProofs

Four properties, for any number of threads and joints, each with an invariant of its own
over the types:

* `RefreshIsFresh` (`Fresh`): for a refresh that began alone and kept its handles, readings
  behind its place in the round are as recent as when it began in the drivers, and
  those before it in the cache as well (`FreshPhase`).
* `FrameRateIsHonest` (`FpsHonest`): as long as no two threads held a time stamp at once, the
  window is in order, its stamps have been, and the one about to be added is the most
  recent (`WindowInv`); so every frame the rate counts lies in the span it is divided by.
* `OverloadsTrip` (`OverloadTrips`), in two parts. `LoopInv`: a control cycle that refreshes
  alone carries the torques the drivers had into the cache, from there into its snapshot, and
  from there to the guard. `CountInv`: the guard reports the counts at their limit; a count
  is at least the overloads that end the frames, and of the frames it counts those of a
  cycle alone hold nothing but overloads and torques nobody knows.
* `WritesFailUnderClose` (`WriteFailsOnlyUnderClose`) assumes `ConnectsApart`: no thread
  connects while another one is at the last two steps of a `close()`. TLC finds the
  behaviour that makes it necessary as soon as there are two application threads
  (section 4, *Connect in a close*); the corollary `OneCallerWrites` is about one.

### Only model-checked

* Liveness: `CallsReturn`, `ReadsReturn`, `StoppedLoopsEnd`, `EveryMotionEnds`, `Arrives`
  and `ForceReleased`. Fairness is a statement about `ENABLED`, which the prover does not
  expand.
* `TrajOrdered`, `InHull` and `JumpBounded` of `CartesianControl`. They rest on what the
  trajectory operations compute: `append_traj()` keeps the waypoints that pass a test, which
  is a recursion over a list of any length. An induction over data is out of the
  prover's reach; the interpolated position of the other two also needs facts about
  integer division that its arithmetic does not find.
* `RunningHasLoop` of `CartesianControl`, the same statement about one application thread as
  the theorem `RunningHasALoop` about any number of threads of `ControlLoop`.

## 6. What is not modelled

* Kinematics, dynamics, planners, filters, trajectory sampling: floating-point functions
  without shared state. The clamps of the supervisor are of this kind; its pose-jump
  test and its watchdog have no caller in the package.
* The motor library and the bus: external, modelled by how `session.py` and `gripper.py`
  use them (a call returns, or raises).
* Gravity compensation, PI gains, tools, payloads, the recorder and its export: they
  read or write the bus or a file and touch none of the modelled state.
* The worker thread of `safe_home()`. The calls it makes are those of `ArmLifecycle`; a
  third thread with its timeout made the instance too large, and what it breaks (section
  4) contradicts no sentence of the documents. The other methods of the end-position
  controller are sequences of calls.
* `close()` and `unlink()` of the ring buffer and the queue (those of the shared arm state
  are modelled), and the objects' no-op form without shared memory.
* The publishers of the gateway (what they raise is swallowed before it reaches the
  gateway) and the protocol bus, a bounded log it writes to without waiting.
* Vendor tables, scripts and examples.

## 7. Plan

Done, in this order: `RuntimeStateMachine`, `ArmLifecycle` with its runs and first
theorems, `SharedRingBuffer`, `SharedQueue` (both with proofs), `ControlLoop`,
`SharedArmState`, then the Cartesian and joint motions of the arm, `Gateway`,
`Interpolator` and `CartesianControl`, `Gripper`, `Feedback`, the closing and restarting
of `SharedArmState`, the proofs of `ControlLoop`, `Gateway` and `SharedArmState`, those
of the other properties of the arm, of the gripper and of the feedback path, and the
abstract specifications of the three shared structures with the proofs that the code
implements them.

What is left, most important first:

1. `safe_home()` with its worker, over a smaller `ArmLifecycle`.
2. `RunningHasLoop` of `CartesianControl` as a theorem.
