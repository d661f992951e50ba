------------------------------ MODULE Gateway ------------------------------
(***************************************************************************)
(* The simulation gateway (web/simu_gateway.py): one asyncio loop that     *)
(* runs a handler for each client, the task of a motion and the loop that  *)
(* pushes the state.  They take turns at their awaits, so an action here   *)
(* is what one of them does from an await to the next: a send to one       *)
(* client, a sleep, the wait for a request.  pc[p] is what process p       *)
(* awaits.                                                                 *)
(*                                                                         *)
(* A pose is abstracted to the waypoint it belongs to, a trajectory to its *)
(* points 1 .. NumPoints, a request to its operation and waypoint ids.  A  *)
(* broadcast to no client at all awaits nothing in the code; here the      *)
(* process that makes it still lets the others run.                        *)
(***************************************************************************)
EXTENDS Integers, Sequences, FiniteSets

CONSTANTS
  Clients,       (* the connections; each is made once                     *)
  Fragile,       (* bound: the clients whose connection may be lost        *)
  Tasks,         (* bound: the motion tasks that can be created            *)
  NoTask,        (* _motion_task is None                                   *)
  Ids,           (* waypoint ids                                           *)
  MaxWaypoints,  (* _MAX_WAYPOINTS                                         *)
  NumPoints,     (* points of a trajectory, at least 2                     *)
  MaxRequests    (* bound: requests of all the clients                     *)

ASSUME ConstantsAssumption ==
  /\ Clients \cap Tasks = {}
  /\ Fragile \subseteq Clients
  /\ NoTask \notin Tasks
  /\ MaxWaypoints \in Nat \ {0}
  /\ NumPoints \in Nat \ {0, 1}
  /\ MaxRequests \in Nat

VARIABLES
  clients,     (* _clients                                                 *)
  open,        (* the connections that are up                              *)
  wps,         (* the ids in _waypoints                                    *)
  motionTask,  (* _motion_task                                             *)
  stop,        (* _motion_stop                                             *)
  status,      (* the name in _motion_status                               *)
  q,           (* the simulator's posture: <<waypoint, point>>             *)
  pc,          (* what each process awaits                                 *)
  leg,         (* a motion, and the one a handler is to create: its kind,  *)
               (*   its ids, the current one, its point                    *)
  cancelled,   (* the tasks cancel() was called on and that do not know    *)
  asked,       (* requests so far, to bound the model                      *)
  overlap      (* history: two run requests passed the busy test at once   *)

netVars    == <<clients, open>>
motionVars == <<motionTask, stop, status, q, leg, cancelled>>
vars == <<netVars, wps, motionVars, pc, asked, overlap>>

Processes == Clients \cup Tasks

Idling  == {"idle", "stopped", "done", "error"}    (* "running": False     *)
Working == {"accepted", "moving", "reached"}       (* "running": True      *)

IdSequences == Ids \X Ids  (* of the lists of at least 2 ids, the shortest *)
NoLeg == [kind |-> "none", ids |-> <<>>, i |-> 0, k |-> 0]

(* The task exists and _motion_task.done() is false. *)
Alive(t) == pc[t] \notin {"none", "done"}

Accepting(c) == pc[c] = "accept"

(* plan_l() from the posture at hand to the waypoint id. *)
Trajectory(id) == [k \in 1 .. NumPoints |-> <<id, k>>]

-----------------------------------------------------------------------------
(***************************************************************************)
(* Sending.  A broadcast awaits a send to each client in turn; a send to a *)
(* connection that is down raises, and when the broadcast is through those *)
(* clients go.  What is sent is left out.                                  *)
(***************************************************************************)
Broadcast(p, then) == pc' = [pc EXCEPT ![p] = then]

(* A broadcast is through: of the clients that are down it drops those     *)
(* that were when their turn came.                                         *)
DropDead ==
  /\ \E dead \in SUBSET (clients \ open) : clients' = clients \ dead
  /\ UNCHANGED open

Sent(p) == p \notin cancelled /\ DropDead

(***************************************************************************)
(* The motion task: _run_waypoints(), _run_sequence() and what they call.  *)
(***************************************************************************)
(* An outcome reported inside the try block, or by an except branch of it. *)
Finish(t, outcome) == status' = outcome /\ Broadcast(t, "finish")

(* Mutant: the except branch only sends the event. *)
FailSilently(t) ==
  /\ Broadcast(t, "last")
  /\ UNCHANGED <<status, q, leg>>

Fail(t) ==
  /\ status' = "error"
  /\ Broadcast(t, "last")
  /\ UNCHANGED <<q, leg>>

(* Mutant: _play_trajectory() relies on cancel() alone. *)
PointHeedless(t, i, k) ==
  /\ q' = Trajectory(leg[t].ids[i])[k]
  /\ leg' = [leg EXCEPT ![t].i = i, ![t].k = k]
  /\ status' = IF leg[t].kind = "sequence" THEN "moving" ELSE status
  /\ pc' = [pc EXCEPT ![t] = "move"]

(* The head of the loop of _play_trajectory(), before each point.  Only    *)
(* _run_sequence() announces the leg it starts.                            *)
Point(t, i, k) ==
  \/ stop /\ Finish(t, "stopped") /\ UNCHANGED <<q, leg>>
  \/ /\ ~stop
     /\ q' = Trajectory(leg[t].ids[i])[k]
     /\ leg' = [leg EXCEPT ![t].i = i, ![t].k = k]
     /\ status' = IF leg[t].kind = "sequence" THEN "moving" ELSE status
     /\ pc' = [pc EXCEPT ![t] = "move"]

(* plan_l() to the i-th waypoint and the first point.  _run_waypoints()    *)
(* has read both poses at its start, _run_sequence() reads each in turn.   *)
StartLeg(t, i) ==
  \/ /\ leg[t].kind = "waypoints" \/ stop \/ leg[t].ids[i] \in wps
     /\ Point(t, i, 1)
  \/ /\ leg[t].kind = "waypoints" \/ ~stop
     /\ Fail(t)   (* the waypoint is gone, or the planner raises          *)

TaskStart(t) ==
  /\ pc[t] = "new" /\ t \notin cancelled
  /\ \/ /\ \A i \in DOMAIN leg[t].ids : leg[t].ids[i] \in wps
        /\ StartLeg(t, 1)
     \/ /\ \E i \in DOMAIN leg[t].ids : leg[t].ids[i] \notin wps
        /\ Fail(t)
  /\ UNCHANGED <<netVars, wps, motionTask, stop, cancelled, asked, overlap>>

(* The sleep after a point is over; after the last one: _hold_waypoint().  *)
TaskPoint(t) ==
  /\ pc[t] = "move" /\ t \notin cancelled
  /\ \/ leg[t].k < NumPoints /\ Point(t, leg[t].i, leg[t].k + 1)
     \/ /\ leg[t].k = NumPoints
        /\ q' = Trajectory(leg[t].ids[leg[t].i])[NumPoints]
        /\ status' = "reached"
        /\ Broadcast(t, "reach")
        /\ UNCHANGED leg
  /\ UNCHANGED <<netVars, wps, motionTask, stop, cancelled, asked, overlap>>

TaskReached(t) ==
  /\ pc[t] = "reach"
  /\ Sent(t)
  /\ pc' = [pc EXCEPT ![t] = "dwell"]
  /\ UNCHANGED <<wps, motionVars, asked, overlap>>

(* Mutant: goes round the waypoints again. *)
TaskNextRound(t) ==
  /\ pc[t] = "dwell" /\ t \notin cancelled
  /\ StartLeg(t, (leg[t].i % Len(leg[t].ids)) + 1)
  /\ UNCHANGED <<netVars, wps, motionTask, stop, cancelled, asked, overlap>>

(* The dwell is over: the next waypoint, or the end. *)
TaskNext(t) ==
  /\ pc[t] = "dwell" /\ t \notin cancelled
  /\ \/ leg[t].i < Len(leg[t].ids) /\ StartLeg(t, leg[t].i + 1)
     \/ /\ leg[t].i = Len(leg[t].ids)
        /\ Finish(t, "done") /\ UNCHANGED <<q, leg>>
  /\ UNCHANGED <<netVars, wps, motionTask, stop, cancelled, asked, overlap>>

(* The task wakes up to a CancelledError.  One that has not started, or is *)
(* in an except branch already, ends with it.                              *)
TaskCancel(t) ==
  /\ t \in cancelled
  /\ cancelled' = cancelled \ {t}
  /\ \/ /\ pc[t] \in {"move", "reach", "dwell", "finish"}
        /\ status' = "stopped"
        /\ Broadcast(t, "last")
     \/ /\ pc[t] \in {"new", "last"}
        /\ pc' = [pc EXCEPT ![t] = "done"]
        /\ UNCHANGED <<status>>
  /\ UNCHANGED <<netVars, wps, motionTask, stop, q, leg, asked, overlap>>

TaskEnd(t) ==
  /\ pc[t] \in {"finish", "last"}
  /\ Sent(t)
  /\ pc' = [pc EXCEPT ![t] = "done"]
  /\ UNCHANGED <<wps, motionVars, asked, overlap>>

Task(t) ==
  \/ TaskStart(t) \/ TaskPoint(t) \/ TaskReached(t) \/ TaskNext(t)
  \/ TaskCancel(t) \/ TaskEnd(t)

-----------------------------------------------------------------------------
(***************************************************************************)
(* The handlers.  A request that is answered without an await in between   *)
(* goes straight to the reply.                                             *)
(***************************************************************************)
(* _handler() takes a message and _dispatch() it; requests that arrived    *)
(* before the connection broke are still served.                           *)
Request(c) ==
  /\ pc[c] = "idle" /\ asked < MaxRequests
  /\ asked' = asked + 1

Reply(c) == pc' = [pc EXCEPT ![c] = "reply"]

Connect(c) ==
  /\ pc[c] = "none"
  /\ clients' = clients \cup {c} /\ open' = open \cup {c}
  /\ pc' = [pc EXCEPT ![c] = "idle"]
  /\ UNCHANGED <<wps, motionVars, asked, overlap>>

(* The connection breaks: the handler learns of it when it next sends or   *)
(* waits for a message.                                                    *)
Disconnect(c) ==
  /\ c \in open \cap Fragile
  /\ open' = open \ {c}
  /\ UNCHANGED <<clients, wps, motionVars, pc, asked, overlap>>

(* The finally block of _handler(): the connection is down, or a request   *)
(* made _dispatch() raise, which closes it.                                *)
HandlerEnd(c) ==
  /\ \/ pc[c] = "idle" /\ c \in Fragile
     \/ pc[c] = "reply" /\ c \notin open
  /\ clients' = clients \ {c} /\ open' = open \ {c}
  /\ pc' = [pc EXCEPT ![c] = "closed"]
  /\ UNCHANGED <<wps, motionVars, asked, overlap>>

(* ping, state, waypoint_list, bus_config, bus_snapshot, and every request *)
(* that is refused.                                                        *)
Query(c) ==
  /\ Request(c)
  /\ Reply(c)
  /\ UNCHANGED <<netVars, wps, motionVars, overlap>>

(* waypoint_validate: the kinematics solve for a pose from the posture at  *)
(* hand, and the simulator does not move.                                  *)
WaypointValidate(c) == Query(c)

(* The last point of a path to a pose that is no waypoint. *)
MoveL == Trajectory(NoTask)[NumPoints]

(* sim_set_joint_targets, sim_move_l: at once, whatever motion is running. *)
DirectMove(c) ==
  /\ Request(c)
  /\ q' \in {<<NoTask, 0>>, MoveL}
  /\ Reply(c)
  /\ UNCHANGED <<netVars, wps, motionTask, stop, status, leg, cancelled,
                 overlap>>

WaypointAdd(c) ==
  /\ Request(c)
  /\ Cardinality(wps) < MaxWaypoints
  /\ \E id \in Ids : wps' = wps \cup {id}
  /\ Broadcast(c, "answer")
  /\ UNCHANGED <<netVars, motionVars, overlap>>

(* Its pose changes, which the model does not show. *)
WaypointUpdate(c) ==
  /\ Request(c)
  /\ wps # {}
  /\ Broadcast(c, "answer")
  /\ UNCHANGED <<netVars, wps, motionVars, overlap>>

WaypointRemove(c) ==
  /\ Request(c)
  /\ \E id \in wps : wps' = wps \ {id}
  /\ Broadcast(c, "answer")
  /\ UNCHANGED <<netVars, motionVars, overlap>>

WaypointClear(c) ==
  /\ Request(c)
  /\ wps' = {}
  /\ Broadcast(c, "answer")
  /\ UNCHANGED <<netVars, motionVars, overlap>>

(* Mutant: the busy test is missing. *)
RunAcceptBusy(c) ==
  /\ Request(c)
  /\ \E kind \in {"waypoints", "sequence"}, ids \in IdSequences :
       /\ \A i \in DOMAIN ids : ids[i] \in wps
       /\ leg' = [leg EXCEPT ![c] = [NoLeg EXCEPT !.kind = kind, !.ids = ids]]
  /\ stop' = FALSE /\ status' = "accepted"
  /\ Broadcast(c, "accept")
  /\ overlap' = (overlap \/ \E d \in Clients : Accepting(d))
  /\ UNCHANGED <<netVars, wps, motionTask, q, cancelled>>

(* sim_run_waypoints, sim_run_sequence: the waypoints exist and no motion  *)
(* is running.  The task is created only after the broadcast.              *)
RunAccept(c) ==
  /\ Request(c)
  /\ \E kind \in {"waypoints", "sequence"}, ids \in IdSequences :
       /\ \A i \in DOMAIN ids : ids[i] \in wps
       /\ leg' = [leg EXCEPT ![c] = [NoLeg EXCEPT !.kind = kind, !.ids = ids]]
  /\ motionTask \in Tasks => ~Alive(motionTask)
  /\ stop' = FALSE /\ status' = "accepted"
  /\ Broadcast(c, "accept")
  /\ overlap' = (overlap \/ \E d \in Clients : Accepting(d))
  /\ UNCHANGED <<netVars, wps, motionTask, q, cancelled>>

(* The broadcast is through: create_task(), and the reply. *)
RunCreate(c) ==
  /\ Accepting(c)
  /\ Sent(c)
  /\ \E t \in Tasks :
       /\ pc[t] = "none"
       /\ motionTask' = t
       /\ pc' = [pc EXCEPT ![t] = "new", ![c] = "reply"]
       /\ leg' = [leg EXCEPT ![t] = leg[c], ![c] = NoLeg]
  /\ UNCHANGED <<wps, stop, status, q, cancelled, asked, overlap>>

(* sim_stop *)
Stop(c) ==
  /\ Request(c)
  /\ stop' = TRUE /\ status' = "stopped"
  /\ cancelled' = IF motionTask \in Tasks /\ Alive(motionTask)
                  THEN cancelled \cup {motionTask} ELSE cancelled
  /\ Broadcast(c, "answer")
  /\ UNCHANGED <<netVars, wps, motionTask, q, leg, overlap>>

Answer(c) ==
  /\ pc[c] = "answer"
  /\ Sent(c)
  /\ Reply(c)
  /\ UNCHANGED <<wps, motionVars, asked, overlap>>

Replied(c) ==
  /\ pc[c] = "reply" /\ c \in open
  /\ pc' = [pc EXCEPT ![c] = "idle"]
  /\ UNCHANGED <<netVars, wps, motionVars, asked, overlap>>

(* What a handler does on its own once it has a request. *)
Serve(c) == RunCreate(c) \/ Answer(c) \/ Replied(c)

Client(c) ==
  \/ Connect(c) \/ Disconnect(c) \/ HandlerEnd(c) \/ Serve(c)
  \/ Query(c) \/ WaypointValidate(c) \/ DirectMove(c)
  \/ WaypointAdd(c) \/ WaypointUpdate(c) \/ WaypointRemove(c)
  \/ WaypointClear(c) \/ RunAccept(c) \/ Stop(c)

(***************************************************************************)
(* _state_loop(): every 50 ms the snapshot goes to the clients, which only *)
(* shows in the ones it drops.                                             *)
(***************************************************************************)
StatePush ==
  /\ clients # {}
  /\ DropDead
  /\ UNCHANGED <<wps, motionVars, pc, asked, overlap>>

Init ==
  /\ clients = {} /\ open = {}
  /\ wps = {} /\ motionTask = NoTask /\ stop = FALSE /\ status = "idle"
  /\ q = <<NoTask, 0>>
  /\ pc = [p \in Processes |-> "none"]
  /\ leg = [p \in Clients \cup Tasks |-> NoLeg]
  /\ cancelled = {}
  /\ asked = 0
  /\ overlap = FALSE

Next ==
  \/ \E c \in Clients : Client(c)
  \/ \E t \in Tasks : Task(t)
  \/ StatePush

Spec == Init /\ [][Next]_vars

(* The event loop serves every process that is ready: a send ends (or      *)
(* fails, by the ping timeout), a sleep ends.  No client has to ask.       *)
FairSpec ==
  /\ Spec
  /\ \A c \in Clients : WF_vars(Serve(c))
  /\ \A t \in Tasks : WF_vars(Task(t))
-----------------------------------------------------------------------------
(***************************************************************************)
(* Properties.                                                             *)
(***************************************************************************)
(* The busy test of sim_run_waypoints and sim_run_sequence keeps the       *)
(* motions apart: one is alive at most, the one _motion_task refers to, if *)
(* no two run requests were between the test and create_task() together    *)
(* (simu_gateway.py:210 to 221: the broadcast in between awaits).          *)
OneMotionUnlessOverlap ==
  ~overlap => /\ \A t \in Tasks : Alive(t) => t = motionTask
              /\ \A c \in Clients : Accepting(c) =>
                   \A t \in Tasks : ~Alive(t)

(* sim_stop stops: while the stop request stands, until the next run is    *)
(* accepted, no motion task moves the simulator or announces that it has   *)
(* reached a waypoint, not even one that was accepted before the stop and  *)
(* created after it.                                                       *)
StopHalts ==
  [][\A t \in Tasks :
       Task(t) /\ stop /\ ~overlap => q' = q /\ status' \notin Working]_vars

(* _motion_status tells the truth: it says "running" only while a motion   *)
(* is being accepted or its task is alive, and while a task has neither    *)
(* ended nor been told to stop it does say so.                             *)
StatusTellsTruth ==
  /\ status \in Working => \/ \E c \in Clients : Accepting(c)
                           \/ \E t \in Tasks : Alive(t)
  /\ ~overlap => \A t \in Tasks :
       pc[t] \in {"move", "reach", "dwell"} =>
         status \in Working \/ t \in cancelled

(* A motion that was created ends: it is done, stopped or has failed,      *)
(* whatever the clients do to it and to its waypoints meanwhile, so that   *)
(* "motion_busy" is never the answer for ever.                             *)
EveryMotionEnds ==
  \A t \in Tasks : pc[t] = "new" ~> pc[t] = "done"
=============================================================================
