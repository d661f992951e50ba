---------------------------- MODULE Interpolator ----------------------------
(***************************************************************************)
(* The trajectory of trajectory/timestamped_interpolator.py: a sequence of *)
(* waypoints [ts, pos] and the lists its operations make of it.  A posture *)
(* is one integer, times are integers, and a position between two          *)
(* waypoints is rounded down.  The waypoints of the controllers carry no   *)
(* velocity, so _interp_pair() is linear; torque and gripper follow pos.   *)
(***************************************************************************)
EXTENDS Integers, Sequences, SequencesExt

(* _interp_pair(), and the guard against dividing by no time. *)
InterpPair(s, e, time) ==
  IF e.ts = s.ts THEN s.pos
  ELSE s.pos + ((e.pos - s.pos) * (time - s.ts)) \div (e.ts - s.ts)

(* Mutant: any pair that begins early enough. *)
BetweenOpen(s, e, time) == s.ts <= time

Between(s, e, time) == s.ts <= time /\ time <= e.ts

(* _interpolate_at() on a list that nobody replaces meanwhile. *)
InterpolateAt(traj, time) ==
  LET n == Len(traj) IN
  IF n = 1 \/ time <= traj[1].ts THEN traj[1].pos
  ELSE IF time >= traj[n].ts THEN traj[n].pos
  ELSE LET i == CHOOSE k \in 1 .. n - 1 :
                  /\ Between(traj[k], traj[k + 1], time)
                  /\ \A j \in 1 .. k - 1 : ~Between(traj[j], traj[j + 1], time)
       IN InterpPair(traj[i], traj[i + 1], time)

(* Mutant: begins where the trajectory is to end. *)
CurrentStateLast(traj, time) == [ts |-> time, pos |-> Last(traj).pos]

(* The waypoint every modification begins with. *)
CurrentState(traj, time) == [ts |-> time, pos |-> InterpolateAt(traj, time)]

(* append() calls: each puts one waypoint into the list. *)
OneByOne(wps) == [i \in DOMAIN wps |-> <<wps[i]>>]

(* What append_waypoint() appends to the current state: the old waypoints  *)
(* up to the new end, and the end.                                         *)
AppendedWaypoint(traj, time, end) ==
  OneByOne(SelectSeq(traj, LAMBDA wp : time < wp.ts /\ wp.ts <= end.ts)
             \o <<end>>)

(* Mutant: keeps every old waypoint that is to come. *)
AppendedTrajAfter(traj, time, segment) ==
  Append(OneByOne(SelectSeq(traj, LAMBDA wp : time < wp.ts)), segment)

(* What append_traj() appends: the old waypoints before the segment, and   *)
(* the segment at once.                                                    *)
AppendedTraj(traj, time, segment) ==
  Append(OneByOne(SelectSeq(traj, LAMBDA wp : /\ time < wp.ts
                                              /\ wp.ts < segment[1].ts)),
         segment)

(* _validate_traj() *)
Ascending(traj) == \A i \in 1 .. Len(traj) - 1 : traj[i].ts <= traj[i + 1].ts

(* No leg of the trajectory that goes forward in time is faster than speed.*)
WithinSpeed(traj, speed) ==
  \A i \in 1 .. Len(traj) - 1 :
    LET far  == traj[i + 1].pos - traj[i].pos
        time == traj[i + 1].ts - traj[i].ts
    IN time >= 0 => far <= speed * time /\ -far <= speed * time
=============================================================================
