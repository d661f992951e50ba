---------------------------- MODULE GatewayProofs ----------------------------
(***************************************************************************)
(* What holds of Gateway for any number of clients, waypoints, points and  *)
(* requests: one motion at a time, a stop that stops it, and a status that *)
(* tells the truth.                                                        *)
(***************************************************************************)
EXTENDS Gateway, TLAPS

Steps == {"none", "idle", "closed", "accept", "answer", "reply",
          "new", "move", "reach", "dwell", "finish", "last", "done"}

(* Under way: the motion has not come to an outcome yet. *)
UnderWay == {"new", "move", "reach", "dwell"}

(* The types of the variables the proofs look into. *)
Typed ==
  /\ pc \in [Processes -> Steps]
  /\ motionTask \in Tasks \cup {NoTask}
  /\ stop \in BOOLEAN /\ overlap \in BOOLEAN
  /\ cancelled \subseteq Tasks

OneAccepting ==
  ~overlap =>
    \A c, d \in Clients : Accepting(c) /\ Accepting(d) => c = d

(* cancel() was called on tasks that were alive, and they are until they   *)
(* know.                                                                   *)
CancelledAlive == \A t \in cancelled : Alive(t)

(* A stop that stands has cancelled every task that has moved already.     *)
StopCancels ==
  ~overlap /\ stop =>
    \A t \in Tasks : pc[t] \in {"move", "reach", "dwell"} => t \in cancelled

(* "running" is said on behalf of a motion that nobody has stopped ...     *)
WorkingHasMotion ==
  status \in Working =>
    \/ \E c \in Clients : Accepting(c)
    \/ \E t \in Tasks \ cancelled : pc[t] \in UnderWay

(* ... and of every such motion, until it is to be stopped.                *)
MotionIsWorking ==
  ~overlap =>
    /\ \A c \in Clients : Accepting(c) => status \in Working \/ stop
    /\ \A t \in Tasks : pc[t] \in UnderWay =>
         status \in Working \/ stop \/ t \in cancelled

IInv ==
  /\ Typed /\ OneAccepting /\ OneMotionUnlessOverlap /\ CancelledAlive
  /\ StopCancels /\ WorkingHasMotion /\ MotionIsWorking
-----------------------------------------------------------------------------
(***************************************************************************)
(* The invariant is inductive.  The steps fall into a few shapes.          *)
(***************************************************************************)
LEMMA Apart ==
  /\ \A c \in Clients, t \in Tasks : c # t
  /\ \A p \in Clients \cup Tasks : p \in Processes
  /\ NoTask \notin Tasks
BY ConstantsAssumption DEF Processes

(* No task exists yet. *)
LEMMA IInit == Init => IInv
<1>1. Init => Typed
  BY DEF Init, Typed, Steps
<1>2. Init => \A p \in Processes : pc[p] = "none"
  BY DEF Init
<1>3. Init => status \notin Working /\ cancelled = {} /\ ~stop
  BY DEF Init, Working
<1>4. QED
  BY <1>1, <1>2, <1>3, Apart
  DEF IInv, OneAccepting, OneMotionUnlessOverlap, CancelledAlive, StopCancels,
      WorkingHasMotion, MotionIsWorking, Accepting, Alive, UnderWay

(* A step that leaves the motions and the handlers that accept one alone.  *)
LEMMA Calm ==
  ASSUME IInv, Typed',
         UNCHANGED <<motionTask, stop, status, cancelled, overlap>>,
         \A t \in Tasks : pc'[t] = pc[t],
         \A c \in Clients : Accepting(c)' <=> Accepting(c)
  PROVE  IInv'
<1>1. OneAccepting'
  BY DEF IInv, OneAccepting
<1>2. OneMotionUnlessOverlap'
  BY DEF IInv, OneMotionUnlessOverlap, Alive
<1>3. CancelledAlive'
  BY DEF IInv, CancelledAlive, Alive, Typed
<1>4. StopCancels'
  BY DEF IInv, StopCancels
<1>5. WorkingHasMotion'
  BY DEF IInv, WorkingHasMotion
<1>6. MotionIsWorking'
  BY DEF IInv, MotionIsWorking
<1>7. QED
  BY <1>1, <1>2, <1>3, <1>4, <1>5, <1>6 DEF IInv

(* A step of a handler that leaves the motions alone.                      *)
LEMMA HandlerStep ==
  ASSUME IInv, NEW c \in Clients, NEW s \in Steps \ {"accept"},
         ~Accepting(c), pc' = [pc EXCEPT ![c] = s],
         UNCHANGED <<motionTask, stop, status, cancelled, overlap>>
  PROVE  IInv'
<1>1. Typed'
  BY Apart DEF IInv, Typed
<1>2. \A p \in Processes : p # c => pc'[p] = pc[p]
  BY DEF IInv, Typed
<1>3. pc'[c] = s
  BY Apart DEF IInv, Typed
<1>4. \A d \in Clients : Accepting(d)' <=> Accepting(d)
  BY <1>2, <1>3, Apart DEF Accepting
<1>5. \A t \in Tasks : pc'[t] = pc[t]
  BY <1>2, Apart
<1>6. QED
  BY <1>1, <1>4, <1>5, Calm

(* A task moves on, or ends: what its step changes.                        *)
TaskMoves(t, s) ==
  /\ t \notin cancelled
  /\ pc' = [pc EXCEPT ![t] = s]
  /\ UNCHANGED <<motionTask, stop, cancelled, overlap>>

(* A step of one task, seen by the others. *)
LEMMA OthersStay ==
  ASSUME IInv, NEW t \in Tasks, NEW s \in Steps, pc' = [pc EXCEPT ![t] = s]
  PROVE  /\ pc'[t] = s
         /\ \A u \in Tasks : u # t => pc'[u] = pc[u]
         /\ \A c \in Clients : Accepting(c)' <=> Accepting(c)
         /\ pc' \in [Processes -> Steps]
BY Apart DEF IInv, Typed, Accepting

(* A task that goes on keeps the gateway busy. *)
LEMMA TaskAdvances ==
  ASSUME IInv, NEW t \in Tasks, NEW s \in {"move", "reach", "dwell"},
         TaskMoves(t, s), pc[t] \in UnderWay,
         status' \in Working \/ status' = status,
         ~stop \/ pc[t] # "new"
  PROVE  IInv'
<1>0. /\ pc'[t] = s
      /\ \A u \in Tasks : u # t => pc'[u] = pc[u]
      /\ \A c \in Clients : Accepting(c)' <=> Accepting(c)
      /\ pc' \in [Processes -> Steps]
  <2>1. s \in Steps
    BY DEF Steps
  <2>2. QED
    BY <2>1, OthersStay DEF TaskMoves
<1>1. Typed'
  BY <1>0 DEF IInv, Typed, TaskMoves
<1>2. OneAccepting'
  BY <1>0 DEF IInv, OneAccepting, TaskMoves
<1>3. OneMotionUnlessOverlap'
  BY <1>0 DEF IInv, OneMotionUnlessOverlap, Alive, UnderWay, TaskMoves
<1>4. CancelledAlive'
  BY <1>0 DEF IInv, CancelledAlive, Alive, TaskMoves, Typed
<1>5. StopCancels'
  BY <1>0 DEF IInv, StopCancels, TaskMoves, UnderWay
<1>6. WorkingHasMotion'
  BY <1>0 DEF WorkingHasMotion, TaskMoves, UnderWay
<1>7. MotionIsWorking'
  <2>1. ASSUME ~overlap', NEW c \in Clients, Accepting(c)'
        PROVE  FALSE
    BY <1>0, <2>1 DEF IInv, OneMotionUnlessOverlap, Alive, UnderWay, TaskMoves
  <2>2. ASSUME ~overlap', NEW u \in Tasks, pc'[u] \in UnderWay
        PROVE  status' \in Working \/ stop' \/ u \in cancelled'
    <3>1. u = t
      BY <1>0, <2>2
      DEF IInv, OneMotionUnlessOverlap, Alive, UnderWay, TaskMoves
    <3>2. QED
      BY <3>1, <2>2 DEF IInv, MotionIsWorking, TaskMoves
  <2>3. QED
    BY <2>1, <2>2 DEF MotionIsWorking
<1>8. QED
  BY <1>1, <1>2, <1>3, <1>4, <1>5, <1>6, <1>7 DEF IInv

(* A task that ends gives the gateway free. *)
LEMMA TaskFinishes ==
  ASSUME IInv, NEW t \in Tasks, NEW s \in {"finish", "last"},
         TaskMoves(t, s), pc[t] \in UnderWay, status' \notin Working
  PROVE  IInv'
<1>0. /\ pc'[t] = s
      /\ \A u \in Tasks : u # t => pc'[u] = pc[u]
      /\ \A c \in Clients : Accepting(c)' <=> Accepting(c)
      /\ pc' \in [Processes -> Steps]
  <2>1. s \in Steps
    BY DEF Steps
  <2>2. QED
    BY <2>1, OthersStay DEF TaskMoves
<1>1. Typed'
  BY <1>0 DEF IInv, Typed, TaskMoves
<1>2. OneAccepting'
  BY <1>0 DEF IInv, OneAccepting, TaskMoves
<1>3. OneMotionUnlessOverlap'
  BY <1>0 DEF IInv, OneMotionUnlessOverlap, Alive, UnderWay, TaskMoves
<1>4. CancelledAlive'
  BY <1>0 DEF IInv, CancelledAlive, Alive, TaskMoves, Typed
<1>5. StopCancels'
  BY <1>0 DEF IInv, StopCancels, TaskMoves
<1>6. WorkingHasMotion'
  BY DEF WorkingHasMotion
<1>7. MotionIsWorking'
  BY <1>0
  DEF IInv, MotionIsWorking, OneMotionUnlessOverlap, Alive, UnderWay, TaskMoves
<1>8. QED
  BY <1>1, <1>2, <1>3, <1>4, <1>5, <1>6, <1>7 DEF IInv

(* The head of the loop of _play_trajectory() either stops or moves.       *)
LEMMA LegStep ==
  ASSUME IInv, NEW t \in Tasks, NEW i, t \notin cancelled, pc[t] \in UnderWay,
         StartLeg(t, i), UNCHANGED <<motionTask, stop, cancelled, overlap>>
  PROVE  IInv'
<1>1. CASE Point(t, i, 1)
  <2>1. CASE stop /\ Finish(t, "stopped")
    <3>1. TaskMoves(t, "finish") /\ status' \notin Working
      BY <2>1 DEF Finish, Broadcast, TaskMoves, Working
    <3>2. QED
      BY <3>1, TaskFinishes
  <2>2. CASE ~stop /\ pc' = [pc EXCEPT ![t] = "move"]
               /\ status' = IF leg[t].kind = "sequence" THEN "moving"
                            ELSE status
    <3>1. TaskMoves(t, "move") /\ (status' \in Working \/ status' = status)
      BY <2>2 DEF TaskMoves, Working
    <3>2. QED
      BY <2>2, <3>1, TaskAdvances
  <2>3. QED
    BY <1>1, <2>1, <2>2 DEF Point
<1>2. CASE Fail(t)
  <2>1. TaskMoves(t, "last") /\ status' \notin Working
    BY <1>2 DEF Fail, Broadcast, TaskMoves, Working
  <2>2. QED
    BY <2>1, TaskFinishes
<1>3. QED
  BY <1>1, <1>2 DEF StartLeg

(* The steps of a task. *)
LEMMA TaskStep ==
  ASSUME IInv, NEW t \in Tasks, Task(t)
  PROVE  IInv'
<1>1. CASE TaskStart(t)
  <2>1. /\ t \notin cancelled /\ pc[t] \in UnderWay
        /\ UNCHANGED <<motionTask, stop, cancelled, overlap>>
    BY <1>1 DEF TaskStart, UnderWay
  <2>2. CASE StartLeg(t, 1)
    BY <2>1, <2>2, LegStep
  <2>3. CASE Fail(t)
    <3>1. TaskMoves(t, "last") /\ status' \notin Working
      BY <2>1, <2>3 DEF Fail, Broadcast, TaskMoves, Working
    <3>2. QED
      BY <2>1, <3>1, TaskFinishes
  <2>4. QED
    BY <1>1, <2>2, <2>3 DEF TaskStart
<1>2. CASE TaskPoint(t)
  <2>1. /\ t \notin cancelled /\ pc[t] = "move"
        /\ UNCHANGED <<motionTask, stop, cancelled, overlap>>
    BY <1>2 DEF TaskPoint
  <2>2. CASE Point(t, leg[t].i, leg[t].k + 1)
    <3>1. CASE stop /\ Finish(t, "stopped")
      <4>1. TaskMoves(t, "finish") /\ status' \notin Working
        BY <2>1, <3>1 DEF Finish, Broadcast, TaskMoves, Working
      <4>2. QED
        BY <2>1, <4>1, TaskFinishes DEF UnderWay
    <3>2. CASE ~stop /\ pc' = [pc EXCEPT ![t] = "move"]
                 /\ status' = IF leg[t].kind = "sequence" THEN "moving"
                              ELSE status
      <4>1. TaskMoves(t, "move") /\ (status' \in Working \/ status' = status)
        BY <2>1, <3>2 DEF TaskMoves, Working
      <4>2. QED
        BY <2>1, <4>1, TaskAdvances DEF UnderWay
    <3>3. QED
      BY <2>2, <3>1, <3>2 DEF Point
  <2>3. CASE status' = "reached" /\ Broadcast(t, "reach")
    <3>1. TaskMoves(t, "reach") /\ status' \in Working
      BY <2>1, <2>3 DEF Broadcast, TaskMoves, Working
    <3>2. QED
      BY <2>1, <3>1, TaskAdvances DEF UnderWay
  <2>4. QED
    BY <1>2, <2>2, <2>3 DEF TaskPoint
<1>3. CASE TaskReached(t)
  <2>1. TaskMoves(t, "dwell") /\ pc[t] = "reach" /\ status' = status
    BY <1>3 DEF TaskReached, Sent, TaskMoves, motionVars
  <2>2. QED
    BY <2>1, TaskAdvances DEF UnderWay
<1>4. CASE TaskNext(t)
  <2>1. /\ t \notin cancelled /\ pc[t] = "dwell"
        /\ UNCHANGED <<motionTask, stop, cancelled, overlap>>
    BY <1>4 DEF TaskNext
  <2>2. CASE StartLeg(t, leg[t].i + 1)
    BY <2>1, <2>2, LegStep DEF UnderWay
  <2>3. CASE Finish(t, "done")
    <3>1. TaskMoves(t, "finish") /\ status' \notin Working
      BY <2>1, <2>3 DEF Finish, Broadcast, TaskMoves, Working
    <3>2. QED
      BY <2>1, <3>1, TaskFinishes DEF UnderWay
  <2>4. QED
    BY <1>4, <2>2, <2>3 DEF TaskNext
<1>5. CASE TaskCancel(t)
  <2>1. PICK s \in {"last", "done"} :
          /\ pc' = [pc EXCEPT ![t] = s]
          /\ s = "last" => status' = "stopped" /\ pc[t] # "done"
          /\ s = "done" => status' = status
    BY <1>5 DEF TaskCancel, Broadcast
  <2>2. /\ t \in cancelled /\ cancelled' = cancelled \ {t}
        /\ UNCHANGED <<motionTask, stop, overlap>> /\ Alive(t)
    BY <1>5 DEF TaskCancel, IInv, CancelledAlive
  <2>3. s \in Steps /\ s \notin UnderWay
    BY DEF Steps, UnderWay
  <2>4. /\ pc'[t] = s
        /\ \A u \in Tasks : u # t => pc'[u] = pc[u]
        /\ \A c \in Clients : Accepting(c)' <=> Accepting(c)
        /\ pc' \in [Processes -> Steps]
    BY <2>1, <2>3, OthersStay
  <2>5. Typed'
    BY <2>2, <2>4 DEF IInv, Typed
  <2>6. OneAccepting'
    BY <2>2, <2>4 DEF IInv, OneAccepting
  <2>7. OneMotionUnlessOverlap'
    BY <2>2, <2>4 DEF IInv, OneMotionUnlessOverlap, Alive
  <2>8. CancelledAlive'
    BY <2>2, <2>4 DEF IInv, CancelledAlive, Alive, Typed
  <2>9. StopCancels'
    BY <2>2, <2>3, <2>4 DEF IInv, StopCancels, UnderWay
  <2>10. WorkingHasMotion'
    <3>1. CASE s = "last"
      BY <2>1, <3>1 DEF WorkingHasMotion, Working
    <3>2. CASE s = "done"
      BY <2>1, <2>2, <2>4, <3>2 DEF IInv, WorkingHasMotion
    <3>3. QED
      BY <3>1, <3>2
  <2>11. MotionIsWorking'
    BY <2>2, <2>3, <2>4
    DEF IInv, MotionIsWorking, OneMotionUnlessOverlap, Alive, UnderWay
  <2>12. QED
    BY <2>5, <2>6, <2>7, <2>8, <2>9, <2>10, <2>11 DEF IInv
<1>6. CASE TaskEnd(t)
  <2>1. TaskMoves(t, "done") /\ pc[t] \in {"finish", "last"} /\ status' = status
    BY <1>6 DEF TaskEnd, Sent, TaskMoves, motionVars
  <2>2. "done" \in Steps
    BY DEF Steps
  <2>3. /\ pc'[t] = "done"
        /\ \A u \in Tasks : u # t => pc'[u] = pc[u]
        /\ \A c \in Clients : Accepting(c)' <=> Accepting(c)
        /\ pc' \in [Processes -> Steps]
    BY <2>1, <2>2, OthersStay DEF TaskMoves
  <2>4. Typed' /\ OneAccepting'
    BY <2>1, <2>3 DEF IInv, Typed, OneAccepting, TaskMoves
  <2>5. OneMotionUnlessOverlap' /\ CancelledAlive'
    BY <2>1, <2>3
    DEF IInv, OneMotionUnlessOverlap, CancelledAlive, Alive, Typed, TaskMoves
  <2>6. StopCancels' /\ WorkingHasMotion' /\ MotionIsWorking'
    BY <2>1, <2>3
    DEF IInv, StopCancels, WorkingHasMotion, MotionIsWorking, UnderWay,
        TaskMoves
  <2>7. QED
    BY <2>4, <2>5, <2>6 DEF IInv
<1>7. QED
  BY <1>1, <1>2, <1>3, <1>4, <1>5, <1>6 DEF Task

(* A handler goes to another await: what that leaves alone.                *)
LEMMA ClientMoves ==
  ASSUME IInv, NEW c \in Clients, NEW s \in Steps, pc' = [pc EXCEPT ![c] = s]
  PROVE  /\ pc'[c] = s
         /\ \A d \in Clients : d # c => pc'[d] = pc[d]
         /\ \A t \in Tasks : pc'[t] = pc[t]
         /\ pc' \in [Processes -> Steps]
BY Apart DEF IInv, Typed

(* A request to run is accepted only when nothing runs. *)
LEMMA RunAcceptStep ==
  ASSUME IInv, NEW c \in Clients, RunAccept(c)
  PROVE  IInv'
<1>1. /\ pc' = [pc EXCEPT ![c] = "accept"] /\ pc[c] = "idle"
      /\ stop' = FALSE /\ status' = "accepted"
      /\ overlap' = (overlap \/ \E d \in Clients : Accepting(d))
      /\ motionTask \in Tasks => ~Alive(motionTask)
      /\ UNCHANGED <<motionTask, cancelled>>
  BY DEF RunAccept, Request, Broadcast
<1>2. "accept" \in Steps
  BY DEF Steps
<1>3. /\ pc'[c] = "accept"
      /\ \A d \in Clients : d # c => pc'[d] = pc[d]
      /\ \A t \in Tasks : pc'[t] = pc[t]
      /\ pc' \in [Processes -> Steps]
  BY <1>1, <1>2, ClientMoves
<1>4. overlap \in BOOLEAN
  BY DEF IInv, Typed
<1>5. ASSUME ~overlap'
      PROVE  /\ \A d \in Clients : ~Accepting(d)
             /\ \A t \in Tasks : ~Alive(t)
  <2>1. ~overlap /\ \A d \in Clients : ~Accepting(d)
    BY <1>1, <1>4, <1>5
  <2>2. QED
    BY <1>1, <2>1 DEF IInv, OneMotionUnlessOverlap
<1>6. Typed'
  BY <1>1, <1>3, <1>4 DEF IInv, Typed
<1>7. OneAccepting' /\ OneMotionUnlessOverlap'
  BY <1>3, <1>5 DEF OneAccepting, OneMotionUnlessOverlap, Accepting, Alive
<1>8. CancelledAlive'
  BY <1>1, <1>3 DEF IInv, CancelledAlive, Alive, Typed
<1>9. StopCancels'
  BY <1>1 DEF StopCancels
<1>10. WorkingHasMotion'
  BY <1>3 DEF WorkingHasMotion, Accepting
<1>11. MotionIsWorking'
  BY <1>1 DEF MotionIsWorking, Working
<1>12. QED
  BY <1>6, <1>7, <1>8, <1>9, <1>10, <1>11 DEF IInv

(* The task of an accepted request is created. *)
LEMMA RunCreateStep ==
  ASSUME IInv, NEW c \in Clients, RunCreate(c)
  PROVE  IInv'
<1>1. PICK t \in Tasks :
        /\ pc[t] = "none" /\ motionTask' = t
        /\ pc' = [pc EXCEPT ![t] = "new", ![c] = "reply"]
  BY DEF RunCreate
<1>2. /\ Accepting(c)
      /\ UNCHANGED <<stop, status, cancelled, overlap>>
  BY DEF RunCreate
<1>3. /\ pc'[t] = "new" /\ pc'[c] = "reply"
      /\ \A d \in Clients : d # c => pc'[d] = pc[d]
      /\ \A u \in Tasks : u # t => pc'[u] = pc[u]
      /\ pc' \in [Processes -> Steps]
  BY <1>1, Apart DEF IInv, Typed, Steps
<1>4. t \notin cancelled
  BY <1>1 DEF IInv, CancelledAlive, Alive
<1>5. ASSUME ~overlap
      PROVE  /\ \A d \in Clients : d # c => ~Accepting(d)
             /\ \A u \in Tasks : ~Alive(u)
             /\ status \in Working \/ stop
  BY <1>2, <1>5
  DEF IInv, OneAccepting, OneMotionUnlessOverlap, MotionIsWorking
<1>6. Typed'
  BY <1>1, <1>2, <1>3 DEF IInv, Typed
<1>7. OneAccepting' /\ OneMotionUnlessOverlap'
  BY <1>1, <1>2, <1>3, <1>5
  DEF OneAccepting, OneMotionUnlessOverlap, Accepting, Alive
<1>8. CancelledAlive'
  BY <1>2, <1>3, <1>4 DEF IInv, CancelledAlive, Alive, Typed
<1>9. StopCancels'
  BY <1>2, <1>3, <1>5 DEF StopCancels, Alive
<1>10. WorkingHasMotion'
  BY <1>2, <1>3, <1>4 DEF WorkingHasMotion, UnderWay
<1>11. MotionIsWorking'
  BY <1>2, <1>3, <1>5 DEF MotionIsWorking, Alive, Accepting, UnderWay
<1>12. QED
  BY <1>6, <1>7, <1>8, <1>9, <1>10, <1>11 DEF IInv

(* A request to stop. *)
LEMMA StopStep ==
  ASSUME IInv, NEW c \in Clients, Stop(c)
  PROVE  IInv'
<1>1. /\ pc' = [pc EXCEPT ![c] = "answer"] /\ pc[c] = "idle"
      /\ stop' = TRUE /\ status' = "stopped"
      /\ cancelled' = IF motionTask \in Tasks /\ Alive(motionTask)
                      THEN cancelled \cup {motionTask} ELSE cancelled
      /\ UNCHANGED <<motionTask, overlap>>
  BY DEF Stop, Request, Broadcast
<1>2. "answer" \in Steps
  BY DEF Steps
<1>3. /\ pc'[c] = "answer"
      /\ \A d \in Clients : d # c => pc'[d] = pc[d]
      /\ \A t \in Tasks : pc'[t] = pc[t]
      /\ pc' \in [Processes -> Steps]
  BY <1>1, <1>2, ClientMoves
<1>4. \A d \in Clients : Accepting(d)' => Accepting(d)
  BY <1>3 DEF Accepting
<1>5. Typed'
  BY <1>1, <1>3 DEF IInv, Typed
<1>6. OneAccepting' /\ OneMotionUnlessOverlap'
  BY <1>1, <1>3, <1>4 DEF IInv, OneAccepting, OneMotionUnlessOverlap, Alive
<1>7. CancelledAlive'
  BY <1>1, <1>3 DEF IInv, CancelledAlive, Alive, Typed
<1>8. StopCancels'
  <2>1. ASSUME ~overlap, NEW t \in Tasks, pc[t] \in {"move", "reach", "dwell"}
        PROVE  t \in cancelled'
    <3>1. Alive(t)
      BY <2>1 DEF Alive
    <3>2. t = motionTask
      BY <2>1, <3>1 DEF IInv, OneMotionUnlessOverlap
    <3>3. QED
      BY <1>1, <3>1, <3>2
  <2>2. QED
    BY <1>1, <1>3, <2>1 DEF StopCancels
<1>9. WorkingHasMotion'
  BY <1>1 DEF WorkingHasMotion, Working
<1>10. MotionIsWorking'
  BY <1>1 DEF MotionIsWorking
<1>11. QED
  BY <1>5, <1>6, <1>7, <1>8, <1>9, <1>10 DEF IInv

(* Every other step of a handler goes to an await that is not the one in   *)
(* which it accepts a run.                                                 *)
LEMMA ClientStep ==
  ASSUME IInv, NEW c \in Clients, Client(c)
  PROVE  IInv'
<1>1. CASE RunAccept(c)
  BY <1>1, RunAcceptStep
<1>2. CASE RunCreate(c)
  BY <1>2, RunCreateStep
<1>3. CASE Stop(c)
  BY <1>3, StopStep
<1>4. CASE Disconnect(c)
  <2>1. UNCHANGED <<motionTask, stop, status, cancelled, overlap, pc>>
    BY <1>4 DEF Disconnect, motionVars
  <2>2. Typed' /\ \A d \in Clients : Accepting(d)' <=> Accepting(d)
    BY <2>1 DEF IInv, Typed, Accepting
  <2>3. QED
    BY <2>1, <2>2, Calm
<1>5. ASSUME NEW s \in {"idle", "closed", "reply", "answer"},
             ~Accepting(c), pc' = [pc EXCEPT ![c] = s],
             UNCHANGED <<motionTask, stop, status, cancelled, overlap>>
      PROVE  IInv'
  BY <1>5, HandlerStep DEF Steps
<1>6. CASE Connect(c) \/ HandlerEnd(c) \/ Answer(c) \/ Replied(c)
  BY <1>5, <1>6
  DEF Connect, HandlerEnd, Answer, Replied, Reply, Accepting, motionVars
<1>7. CASE Query(c) \/ WaypointValidate(c) \/ DirectMove(c)
  BY <1>5, <1>7
  DEF Query, WaypointValidate, DirectMove, Request, Reply, Accepting,
      motionVars
<1>8. CASE WaypointAdd(c) \/ WaypointUpdate(c) \/ WaypointRemove(c)
             \/ WaypointClear(c)
  BY <1>5, <1>8
  DEF WaypointAdd, WaypointUpdate, WaypointRemove, WaypointClear, Request,
      Broadcast, Accepting, motionVars
<1>9. QED
  BY <1>1, <1>2, <1>3, <1>4, <1>6, <1>7, <1>8 DEF Client, Serve

(* IInv is inductive. *)
LEMMA IStep ==
  ASSUME IInv, [Next]_vars
  PROVE  IInv'
<1>1. CASE UNCHANGED vars
  BY <1>1, Calm DEF vars, motionVars, IInv, Typed, Accepting
<1>2. CASE StatePush
  BY <1>2, Calm DEF StatePush, motionVars, IInv, Typed, Accepting
<1>3. QED
  BY <1>1, <1>2, TaskStep, ClientStep DEF Next

(* IInv is an invariant. *)
LEMMA Invariance == Spec => []IInv
BY IInit, IStep, PTL DEF Spec
-----------------------------------------------------------------------------
(* However many clients ask, and whatever they do to the waypoints, one    *)
(* motion is alive at a time unless two run requests overlap               *)
(* (simu_gateway.py:210 to 221).                                           *)
THEOREM OneMotion == Spec => []OneMotionUnlessOverlap
<1>1. IInv => OneMotionUnlessOverlap
  BY DEF IInv
<1>2. QED
  BY <1>1, Invariance, PTL

(* The status that clients see says "running" for a motion that is, and    *)
(* only for one.                                                           *)
THEOREM StatusIsTrue == Spec => []StatusTellsTruth
<1>1. ASSUME IInv, status \in Working
      PROVE  (\E c \in Clients : Accepting(c)) \/ (\E t \in Tasks : Alive(t))
  BY <1>1 DEF IInv, WorkingHasMotion, UnderWay, Alive
<1>2. ASSUME IInv, ~overlap, NEW t \in Tasks,
             pc[t] \in {"move", "reach", "dwell"}
      PROVE  status \in Working \/ t \in cancelled
  BY <1>2 DEF IInv, MotionIsWorking, StopCancels, UnderWay
<1>3. IInv => StatusTellsTruth
  BY <1>1, <1>2 DEF StatusTellsTruth
<1>4. QED
  BY <1>3, Invariance, PTL

(* A stop halts the motion at its next step: between sim_stop and the next *)
(* accepted run no task moves the simulator or says that it moves, though  *)
(* cancel() reaches a task only when it next wakes up.                     *)
THEOREM StopIsFinal == Spec => StopHalts
<1>1. ASSUME IInv, NEW t \in Tasks, Task(t), stop, ~overlap
      PROVE  q' = q /\ status' \notin Working
  <2>1. pc[t] \in {"move", "reach", "dwell"} => t \in cancelled
    BY <1>1 DEF IInv, StopCancels
  <2>2. ASSUME pc[t] \notin UnderWay \/ t \in cancelled, Alive(t)
        PROVE  status \notin Working
    BY <1>1, <2>2 DEF IInv, WorkingHasMotion, OneMotionUnlessOverlap, UnderWay,
                      Alive
  <2>3. CASE TaskStart(t)
    BY <1>1, <2>3
    DEF TaskStart, StartLeg, Point, Finish, Fail, Broadcast, Working
  <2>4. CASE TaskPoint(t) \/ TaskReached(t) \/ TaskNext(t)
    BY <2>1, <2>4 DEF TaskPoint, TaskReached, TaskNext, Sent
  <2>5. CASE TaskCancel(t)
    <3>1. Alive(t) /\ t \in cancelled /\ q' = q
      BY <1>1, <2>5 DEF TaskCancel, IInv, CancelledAlive
    <3>2. status' = "stopped" \/ status' = status
      BY <2>5 DEF TaskCancel
    <3>3. QED
      BY <2>2, <3>1, <3>2 DEF Working
  <2>6. CASE TaskEnd(t)
    BY <2>2, <2>6 DEF TaskEnd, motionVars, Alive, UnderWay
  <2>7. QED
    BY <1>1, <2>3, <2>4, <2>5, <2>6 DEF Task
<1>2. IInv /\ [Next]_vars =>
        [\A t \in Tasks :
           Task(t) /\ stop /\ ~overlap => q' = q /\ status' \notin Working]_vars
  BY <1>1
<1>3. QED
  BY <1>2, Invariance, PTL DEF Spec, StopHalts
=============================================================================
