------------------------- MODULE ControlLoopProofs --------------------------
(***************************************************************************)
(* What holds of ControlLoop for any number of user threads and loops:     *)
(* calls of start and stop that are made one after the other, and whose    *)
(* joins do not give up, keep one loop at a time, and a controller that    *)
(* says it is running has one.                                             *)
(***************************************************************************)
EXTENDS ControlLoop, FiniteSetTheorems, TLAPS

LoopStates == {"none", "new", "check", "callback", "called", "ended"}

(* There are finitely many threads, ... *)
LEMMA ThreadsFinite == IsFiniteSet(Threads)
<1>1. IsFiniteSet(Loops)
  BY FS_Interval, ConstantsAssumption DEF Loops
<1>2. QED
  BY <1>1, FS_Union, CallersAssumption DEF Threads

(* ... and so finitely many whose thread is still to be counted. *)
LEMMA PromisedFinite == IsFiniteSet(Promised) /\ Cardinality(Promised) \in Nat
<1>1. IsFiniteSet(Promised)
  BY ThreadsFinite, FS_Subset DEF Promised
<1>2. QED
  BY <1>1, FS_CardinalityType
-----------------------------------------------------------------------------
(***************************************************************************)
(* Type correctness: it rests on the count of the starts under way, for a  *)
(* loop that is made must be one of the bound.                             *)
(***************************************************************************)
Stopping == {"stop_set", "stop_join", "stop_drop", "stop_done"}

(* A call that stops first on behalf of start is in its stop.              *)
ThenInv == \A t \in Threads : then[t] = "start_clear" => call[t] \in Stopping

RoomInv == made + Cardinality(Promised) <= MaxLoops

TInv == TypeOK /\ ThenInv /\ RoomInv

(* No thread has been started yet. *)
LEMMA TInvInit == Init => TInv
<1>1. ASSUME Init PROVE Promised = {}
  BY <1>1 DEF Init, Promised, Starting
<1>2. ASSUME Init PROVE RoomInv
  <2>1. made = 0 /\ Cardinality(Promised) = 0
    BY <1>1, <1>2, FS_EmptySet DEF Init
  <2>2. QED
    BY <2>1, ConstantsAssumption DEF RoomInv
<1>3. ASSUME Init PROVE TypeOK
  <2>1. /\ kind \in Kinds /\ handle = NoLoop /\ stopEvent = FALSE
        /\ running = FALSE /\ overlap = FALSE /\ gaveUp = FALSE /\ made = 0
    BY <1>3 DEF Init
  <2>2. made \in 0 .. MaxLoops
    BY <2>1, ConstantsAssumption
  <2>3. /\ loop \in [Loops -> LoopStates]
        /\ call \in [Threads -> Steps]
        /\ thread \in [Threads -> Loops \cup {NoLoop}]
        /\ then \in [Threads -> {"idle", "start_clear"}]
    BY <1>3 DEF Init, Steps, LoopStates
  <2>4. QED
    BY <2>1, <2>2, <2>3 DEF TypeOK, LoopStates
<1>4. ASSUME Init PROVE ThenInv
  BY <1>4 DEF Init, ThenInv
<1>5. QED
  BY <1>2, <1>3, <1>4 DEF TInv

(* A step that adds no thread to Promised and makes no loop keeps the room.*)
LEMMA RoomKept ==
  ASSUME TInv, made' = made, Promised' \subseteq Promised
  PROVE  RoomInv'
<1>1. IsFiniteSet(Promised') /\ Cardinality(Promised') <= Cardinality(Promised)
  BY PromisedFinite, FS_Subset
<1>2. Cardinality(Promised') \in Nat
  BY <1>1, FS_CardinalityType
<1>3. made \in Nat
  BY ConstantsAssumption DEF TInv, TypeOK
<1>4. QED
  BY <1>1, <1>2, <1>3, PromisedFinite, ConstantsAssumption DEF TInv, RoomInv

(* The bound of MayStart: one more start may be under way.                 *)
LEMMA RoomTaken ==
  ASSUME TInv, NEW t \in Threads, MayStart, made' = made,
         Promised' \subseteq Promised \cup {t}
  PROVE  RoomInv'
<1>1. /\ IsFiniteSet(Promised \cup {t})
      /\ Cardinality(Promised \cup {t}) <= Cardinality(Promised) + 1
      /\ Cardinality(Promised \cup {t}) \in Nat
  <2>1. IsFiniteSet(Promised \cup {t})
    BY PromisedFinite, FS_AddElement
  <2>2. Cardinality(Promised \cup {t}) =
          IF t \in Promised THEN Cardinality(Promised)
          ELSE Cardinality(Promised) + 1
    BY PromisedFinite, FS_AddElement
  <2>3. QED
    BY <2>1, <2>2, PromisedFinite
<1>2. /\ IsFiniteSet(Promised')
      /\ Cardinality(Promised') <= Cardinality(Promised \cup {t})
  BY <1>1, FS_Subset
<1>3. Cardinality(Promised') \in Nat
  BY <1>2, FS_CardinalityType
<1>4. made \in Nat
  BY ConstantsAssumption DEF TInv, TypeOK
<1>5. QED
  BY <1>1, <1>2, <1>3, <1>4, PromisedFinite, ConstantsAssumption
  DEF MayStart, RoomInv

(* A start that makes its loop has a number for it.                        *)
LEMMA RoomUsed ==
  ASSUME TInv, NEW t \in Threads, StartCreate(t)
  PROVE  RoomInv' /\ made + 1 \in Loops
<1>1. t \in Promised
  BY DEF StartCreate, Promised, Starting
<1>2. Promised' \subseteq Promised \ {t}
  <2>1. call[t] = "start_create" /\ then[t] # "start_clear"
    BY DEF StartCreate, TInv, ThenInv, Stopping
  <2>2. \A u \in Threads : u # t => call'[u] = call[u] /\ then'[u] = then[u]
    BY DEF StartCreate, Goto, TInv, TypeOK
  <2>3. call'[t] = "start_run" /\ then'[t] = then[t]
    BY DEF StartCreate, Goto, TInv, TypeOK
  <2>4. QED
    BY <2>1, <2>2, <2>3 DEF Promised, Starting
<1>3. /\ IsFiniteSet(Promised \ {t})
      /\ Cardinality(Promised \ {t}) = Cardinality(Promised) - 1
  BY <1>1, PromisedFinite, FS_RemoveElement
<1>4. /\ IsFiniteSet(Promised')
      /\ Cardinality(Promised') <= Cardinality(Promised) - 1
  BY <1>2, <1>3, FS_Subset
<1>5. Cardinality(Promised') \in Nat
  BY <1>4, FS_CardinalityType
<1>6. made \in Nat /\ made' = made + 1
  BY ConstantsAssumption DEF TInv, TypeOK, StartCreate
<1>7. QED
  BY <1>4, <1>5, <1>6, PromisedFinite, ConstantsAssumption
  DEF TInv, RoomInv, Loops

(* TInv is inductive. *)
LEMMA TInvStep ==
  ASSUME TInv, [Next]_vars
  PROVE  TInv'
<1>0. TypeOK /\ ThenInv /\ RoomInv
  BY DEF TInv
<1>1. CASE UNCHANGED vars
  <2>1. TypeOK' /\ ThenInv'
    BY <1>0, <1>1 DEF vars, TypeOK, ThenInv
  <2>2. Promised' \subseteq Promised /\ made' = made
    BY <1>1 DEF vars, Promised, Starting
  <2>3. QED
    BY <2>1, <2>2, RoomKept DEF TInv
<1>2. ASSUME NEW t \in Threads, StartCall(t)
      PROVE  TInv'
  <2>1. TypeOK'
    BY <1>0, <1>2 DEF StartCall, Begin, Goto, TypeOK, Steps
  <2>2. ThenInv'
    BY <1>0, <1>2 DEF StartCall, Begin, Goto, TypeOK, Steps, ThenInv, Stopping
  <2>3. \A u \in Threads : u # t => call'[u] = call[u] /\ then'[u] = then[u]
    BY <1>0, <1>2 DEF StartCall, Goto, TypeOK
  <2>4. Promised' \subseteq Promised \cup {t}
    BY <2>3 DEF Promised, Starting
  <2>5. RoomInv'
    BY <1>2, <2>4, RoomTaken DEF StartCall
  <2>6. QED
    BY <2>1, <2>2, <2>5 DEF TInv
<1>3. ASSUME NEW t \in Threads, StopCall(t)
      PROVE  TInv'
  <2>1. TypeOK'
    BY <1>0, <1>3 DEF StopCall, Begin, Goto, TypeOK, Steps
  <2>2. ThenInv'
    BY <1>0, <1>3 DEF StopCall, Goto, TypeOK, ThenInv, Stopping
  <2>3. Promised' \subseteq Promised
    BY <1>0, <1>3 DEF StopCall, Goto, TypeOK, Promised, Starting
  <2>4. QED
    BY <1>3, <2>1, <2>2, <2>3, RoomKept DEF TInv, StopCall
<1>4. ASSUME NEW t \in Threads, StartMode(t)
      PROVE  TInv'
  <2>0. PICK step \in {"start_clear", "idle"} : Goto(t, step)
    BY <1>4 DEF StartMode, Goto
  <2>1. TypeOK' /\ ThenInv'
    <3>1. call' \in [Threads -> Steps]
      BY <1>0, <2>0 DEF Goto, TypeOK, Steps
    <3>2. TypeOK'
      BY <1>0, <1>4, <3>1 DEF StartMode, TypeOK, history
    <3>3. ThenInv'
      BY <1>0, <1>4, <2>0 DEF StartMode, Goto, TypeOK, ThenInv, Stopping
    <3>4. QED
      BY <3>2, <3>3
  <2>2. Promised' \subseteq Promised
    BY <1>0, <1>4, <2>0 DEF StartMode, Goto, TypeOK, Promised, Starting
  <2>3. QED
    BY <1>4, <2>1, <2>2, RoomKept DEF TInv, StartMode
<1>5. ASSUME NEW t \in Threads, StartClear(t)
      PROVE  TInv'
  <2>1. TypeOK'
    BY <1>0, <1>5 DEF StartClear, Goto, TypeOK, Steps, history
  <2>2. ThenInv'
    BY <1>0, <1>5 DEF StartClear, Goto, TypeOK, ThenInv, Stopping
  <2>3. Promised' \subseteq Promised
    BY <1>0, <1>5 DEF StartClear, Goto, TypeOK, Promised, Starting
  <2>4. QED
    BY <1>5, <2>1, <2>2, <2>3, RoomKept DEF TInv, StartClear
<1>6. ASSUME NEW t \in Threads, StartCreate(t)
      PROVE  TInv'
  <2>1. RoomInv' /\ made + 1 \in Loops
    BY <1>6, RoomUsed
  <2>2. made + 1 \in 0 .. MaxLoops
    BY <2>1, ConstantsAssumption DEF Loops
  <2>3. TypeOK'
    BY <1>0, <1>6, <2>1, <2>2 DEF StartCreate, Goto, TypeOK, Steps, history
  <2>4. ThenInv'
    BY <1>0, <1>6 DEF StartCreate, Goto, TypeOK, ThenInv, Stopping
  <2>5. QED
    BY <2>1, <2>3, <2>4 DEF TInv
<1>7. ASSUME NEW t \in Threads, StartRun(t)
      PROVE  TInv'
  <2>1. TypeOK'
    BY <1>0, <1>7 DEF StartRun, Goto, TypeOK, Steps, history
  <2>2. ThenInv'
    BY <1>0, <1>7 DEF StartRun, Goto, TypeOK, ThenInv, Stopping
  <2>3. Promised' \subseteq Promised
    BY <1>0, <1>7 DEF StartRun, Goto, TypeOK, Promised, Starting
  <2>4. QED
    BY <1>7, <2>1, <2>2, <2>3, RoomKept DEF TInv, StartRun
<1>8. ASSUME NEW t \in Threads, StopSet(t)
      PROVE  TInv'
  <2>1. TypeOK'
    BY <1>0, <1>8 DEF StopSet, Goto, TypeOK, Steps, history
  <2>2. ThenInv'
    BY <1>0, <1>8 DEF StopSet, Goto, TypeOK, ThenInv, Stopping
  <2>3. Promised' \subseteq Promised
    BY <1>0, <1>8 DEF StopSet, Goto, TypeOK, Promised, Starting
  <2>4. QED
    BY <1>8, <2>1, <2>2, <2>3, RoomKept DEF TInv, StopSet
<1>9. ASSUME NEW t \in Threads, StopJoin(t)
      PROVE  TInv'
  <2>1. TypeOK'
    BY <1>0, <1>9 DEF StopJoin, Goto, TypeOK, Steps
  <2>2. ThenInv'
    BY <1>0, <1>9 DEF StopJoin, Goto, TypeOK, ThenInv, Stopping
  <2>3. Promised' \subseteq Promised
    BY <1>0, <1>9 DEF StopJoin, Goto, TypeOK, Promised, Starting
  <2>4. QED
    BY <1>9, <2>1, <2>2, <2>3, RoomKept DEF TInv, StopJoin
<1>10. ASSUME NEW t \in Threads, StopDrop(t)
       PROVE  TInv'
  <2>1. TypeOK'
    BY <1>0, <1>10 DEF StopDrop, Goto, TypeOK, Steps, history
  <2>2. ThenInv'
    BY <1>0, <1>10 DEF StopDrop, Goto, TypeOK, ThenInv, Stopping
  <2>3. Promised' \subseteq Promised
    BY <1>0, <1>10 DEF StopDrop, Goto, TypeOK, Promised, Starting
  <2>4. QED
    BY <1>10, <2>1, <2>2, <2>3, RoomKept DEF TInv, StopDrop
<1>11. ASSUME NEW t \in Threads, StopDone(t)
       PROVE  TInv'
  <2>1. TypeOK'
    BY <1>0, <1>11 DEF StopDone, Goto, TypeOK, Steps, history
  <2>2. ThenInv'
    BY <1>0, <1>11 DEF StopDone, Goto, TypeOK, ThenInv, Stopping
  <2>3. Promised' \subseteq Promised
    BY <1>0, <1>11 DEF StopDone, Goto, TypeOK, Promised, Starting
  <2>4. QED
    BY <1>11, <2>1, <2>2, <2>3, RoomKept DEF TInv, StopDone
<1>12. ASSUME NEW l \in Loops, LoopStep(l)
       PROVE  TInv'
  <2>1. TypeOK' /\ ThenInv'
    BY <1>0, <1>12
    DEF LoopStep, LoopCheck, LoopReturn, TypeOK, ThenInv, history
  <2>2. Promised' \subseteq Promised /\ made' = made
    BY <1>12 DEF LoopStep, LoopCheck, LoopReturn, Promised, Starting
  <2>3. QED
    BY <2>1, <2>2, RoomKept DEF TInv
<1>13. QED
  BY <1>1, <1>2, <1>3, <1>4, <1>5, <1>6, <1>7, <1>8, <1>9, <1>10, <1>11,
     <1>12
  DEF Next, CallStep

(* The variables keep their types, for any number of threads and loops: a  *)
(* start never runs out of the loops it is bound to.                       *)
THEOREM TypeCorrect == Spec => []TypeOK
<1>1. Spec => []TInv
  BY TInvInit, TInvStep, PTL DEF Spec
<1>2. TInv => TypeOK
  BY DEF TInv
<1>3. QED
  BY <1>1, <1>2, PTL
-----------------------------------------------------------------------------
(***************************************************************************)
(* One loop at a time.                                                     *)
(***************************************************************************)
(* A loop that was made and has not ended. *)
Active(l) == loop[l] \in {"new", "check", "callback", "called"}

NoneActive == \A l \in Loops : ~Active(l)

(* While the calls come one by one and no stop has left its loop alive:    *)
OneCall == \A t, u \in Threads : call[t] # "idle" /\ call[u] # "idle" => t = u

(* the one loop there is is the one of the handle,                         *)
HandleInv == \A l \in Loops : Active(l) => l = handle

(* a call joins that loop, and past the join, or on the way to a new loop, *)
(* there is none,                                                          *)
JoinInv ==
  \A t \in Threads :
    /\ call[t] = "stop_join" => thread[t] = handle /\ handle # NoLoop
    /\ call[t] \in {"stop_drop", "stop_done", "start_mode", "start_clear",
                    "start_create"} => NoneActive

(* a loop that is made is started by the call that made it,                *)
NewInv ==
  \A l \in Loops :
    loop[l] = "new" => \E t \in Threads : call[t] = "start_run"

(* and the controller says it is running while it has a loop, or is about  *)
(* to make one, or to end one.                                             *)
RunningInv ==
  /\ running => kind = "realtime"
  /\ kind = "realtime" /\ ~NoneActive => running
  /\ \A t \in Threads :
       call[t] = "start_create" /\ kind = "realtime" => running
  /\ running =>
       \/ \E t \in Threads : call[t] \in {"stop_join", "stop_drop", "stop_done"}
       \/ /\ ~stopEvent
          /\ \/ \E t \in Threads : call[t] = "start_create"
             \/ handle \in Loops /\ Active(handle)

InTurn == ~overlap /\ ~gaveUp

SeqInv ==
  InTurn => OneCall /\ HandleInv /\ JoinInv /\ NewInv /\ RunningInv

(* No call has been made yet. *)
LEMMA SeqInit == Init => SeqInv
BY DEF Init, SeqInv, OneCall, HandleInv, JoinInv, NewInv, RunningInv, Active,
       NoneActive, InTurn

(* Calls that are in turn now were in turn before. *)
LEMMA InTurnBefore ==
  ASSUME TInv, [Next]_vars, InTurn'
  PROVE  InTurn
<1>1. overlap \in BOOLEAN /\ gaveUp \in BOOLEAN
  BY DEF TInv, TypeOK
<1>2. overlap => overlap'
  BY <1>1
  DEF Next, CallStep, StartCall, StopCall, Begin, StartMode, StartClear,
    StartCreate, StartRun, StopSet, StopJoin, StopDrop, StopDone, LoopStep,
    LoopCheck, LoopReturn, history, vars
<1>3. gaveUp => gaveUp'
  BY <1>1
  DEF Next, CallStep, StartCall, StopCall, Begin, StartMode, StartClear,
    StartCreate, StartRun, StopSet, StopJoin, StopDrop, StopDone, LoopStep,
    LoopCheck, LoopReturn, history, vars
<1>4. QED
  BY <1>2, <1>3 DEF InTurn

(* SeqInv is inductive, given TInv. *)
LEMMA SeqStep ==
  ASSUME TInv, SeqInv, [Next]_vars
  PROVE  SeqInv'
<1> SUFFICES ASSUME InTurn'
             PROVE  (OneCall /\ HandleInv /\ JoinInv /\ NewInv /\ RunningInv)'
  BY DEF SeqInv
<1>0. InTurn
  BY InTurnBefore
<1>a. OneCall /\ HandleInv /\ JoinInv /\ NewInv /\ RunningInv
  BY <1>0 DEF SeqInv
<1>b. TypeOK
  BY DEF TInv
<1>c. ~overlap' /\ ~gaveUp'
  BY DEF InTurn
<1>1. CASE UNCHANGED vars
  BY <1>1, <1>a DEF vars, OneCall, HandleInv, JoinInv, NewInv, RunningInv,
                    Active, NoneActive
<1>2. ASSUME NEW t \in Threads, StartCall(t)
      PROVE  (OneCall /\ HandleInv /\ JoinInv /\ NewInv /\ RunningInv)'
  <2>1. \A u \in Threads : call[u] = "idle" /\ (u # t => call'[u] = "idle")
    BY <1>a, <1>b, <1>c, <1>2 DEF StartCall, Begin, Goto, TypeOK
  <2>2. \A l \in Loops : (Active(l) <=> Active(l)') /\ loop[l] # "new" /\ loop'[l] # "new"
    BY <1>a, <1>b, <1>2, <2>1 DEF StartCall, Begin, TypeOK, Active, NewInv
  <2>3. OneCall'
    BY <1>a, <1>b, <1>2, <2>1, <2>2
    DEF StartCall, Begin, Goto, TypeOK, Alive, NoLoop, OneCall
  <2>4. HandleInv'
    BY <1>a, <1>b, <1>2, <2>1, <2>2
    DEF StartCall, Begin, Goto, TypeOK, Alive, NoLoop, HandleInv, JoinInv,
        Active, NoneActive
  <2>5. JoinInv'
    <3>1. kind = "realtime" /\ ~running => NoneActive
      BY <1>a DEF RunningInv
    <3>2. ~(handle # NoLoop /\ Alive(handle)) => NoneActive
      <4>1. ASSUME NEW l \in Loops, Active(l)
            PROVE  handle # NoLoop /\ Alive(handle)
        <5>1. l = handle /\ loop[l] # "new"
          BY <1>a, <2>2, <4>1 DEF HandleInv
        <5>2. l # NoLoop
          BY ConstantsAssumption DEF Loops, NoLoop
        <5>3. QED
          BY <4>1, <5>1, <5>2 DEF Active, Alive
      <4>2. QED
        BY <4>1 DEF NoneActive
    <3>3. \/ call'[t] = "idle"
          \/ call'[t] = "stop_set"
          \/ (call'[t] = "start_clear" \/ call'[t] = "start_mode") /\ NoneActive
      <4>1. call[t] = "idle"
        BY <2>1
      <4>2. ASSUME NEW step, Goto(t, step) PROVE call'[t] = step
        BY <1>b, <4>2 DEF Goto, TypeOK
      <4>3. CASE call' = call
        BY <4>1, <4>3
      <4>4. CASE Goto(t, "stop_set")
        BY <4>2, <4>4
      <4>5. CASE NoneActive /\ Goto(t, "start_clear")
        BY <4>2, <4>5
      <4>6. CASE NoneActive /\ Goto(t, "start_mode")
        BY <4>2, <4>6
      <4>7. QED
        BY <1>2, <3>1, <3>2, <4>3, <4>4, <4>5, <4>6 DEF StartCall
    <3>4. NoneActive => NoneActive'
      BY <2>2 DEF NoneActive
    <3>5. QED
      BY <2>1, <3>3, <3>4 DEF JoinInv
  <2>6. NewInv'
    BY <1>a, <1>b, <1>2, <2>1, <2>2
    DEF StartCall, Begin, Goto, TypeOK, Alive, NoLoop, NewInv
  <2>7. RunningInv'
    BY <1>a, <1>b, <1>2, <2>1, <2>2
    DEF StartCall, Begin, Goto, TypeOK, Alive, NoLoop, JoinInv, RunningInv,
        Active, NoneActive
  <2>8. QED
    BY <2>3, <2>4, <2>5, <2>6, <2>7
<1>3. ASSUME NEW t \in Threads, StopCall(t)
      PROVE  (OneCall /\ HandleInv /\ JoinInv /\ NewInv /\ RunningInv)'
  <2>1. \A u \in Threads : call[u] = "idle" /\ (u # t => call'[u] = "idle")
    BY <1>a, <1>b, <1>c, <1>3 DEF StopCall, Begin, Goto, TypeOK
  <2>2. \A l \in Loops : (Active(l) <=> Active(l)') /\ loop[l] # "new" /\ loop'[l] # "new"
    BY <1>a, <1>b, <1>3, <2>1 DEF StopCall, Begin, TypeOK, Active, NewInv
  <2>3. OneCall'
    BY <1>a, <1>b, <1>3, <2>1, <2>2
    DEF StopCall, Begin, Goto, TypeOK, Alive, NoLoop, OneCall
  <2>4. HandleInv'
    BY <1>a, <1>b, <1>3, <2>1, <2>2
    DEF StopCall, Begin, Goto, TypeOK, Alive, NoLoop, HandleInv, JoinInv,
        Active, NoneActive
  <2>5. JoinInv'
    BY <1>a, <1>b, <1>3, <2>1, <2>2
    DEF StopCall, Begin, Goto, TypeOK, Alive, NoLoop, HandleInv, JoinInv,
        Active, NoneActive
  <2>6. NewInv'
    BY <1>a, <1>b, <1>3, <2>1, <2>2
    DEF StopCall, Begin, Goto, TypeOK, Alive, NoLoop, NewInv
  <2>7. RunningInv'
    BY <1>a, <1>b, <1>3, <2>1, <2>2
    DEF StopCall, Begin, Goto, TypeOK, Alive, NoLoop, JoinInv, RunningInv,
        Active, NoneActive
  <2>8. QED
    BY <2>3, <2>4, <2>5, <2>6, <2>7
<1>4. ASSUME NEW t \in Threads, StartMode(t)
      PROVE  (OneCall /\ HandleInv /\ JoinInv /\ NewInv /\ RunningInv)'
  <2>1. \A u \in Threads : u # t => call[u] = "idle" /\ call'[u] = "idle"
    BY <1>a, <1>b, <1>4 DEF OneCall, StartMode, Goto, TypeOK
  <2>2. OneCall'
    BY <1>a, <1>b, <1>c, <1>4, <2>1
    DEF StartMode, Goto, TypeOK, history, OneCall
  <2>3. HandleInv'
    BY <1>a, <1>b, <1>c, <1>4, <2>1
    DEF StartMode, Goto, TypeOK, history, HandleInv, JoinInv, Active,
        NoneActive
  <2>4. JoinInv'
    BY <1>a, <1>b, <1>c, <1>4, <2>1
    DEF StartMode, Goto, TypeOK, history, HandleInv, JoinInv, Active,
        NoneActive
  <2>5. NewInv'
    BY <1>a, <1>b, <1>c, <1>4, <2>1
    DEF StartMode, Goto, TypeOK, history, NewInv
  <2>6. RunningInv'
    BY <1>a, <1>b, <1>c, <1>4, <2>1
    DEF StartMode, Goto, TypeOK, history, JoinInv, RunningInv, Active,
        NoneActive
  <2>7. QED
    BY <2>2, <2>3, <2>4, <2>5, <2>6
<1>5. ASSUME NEW t \in Threads, StartClear(t)
      PROVE  (OneCall /\ HandleInv /\ JoinInv /\ NewInv /\ RunningInv)'
  <2>1. \A u \in Threads : u # t => call[u] = "idle" /\ call'[u] = "idle"
    BY <1>a, <1>b, <1>5 DEF OneCall, StartClear, Goto, TypeOK
  <2>2. OneCall'
    BY <1>a, <1>b, <1>c, <1>5, <2>1
    DEF StartClear, Goto, TypeOK, history, OneCall
  <2>3. HandleInv'
    BY <1>a, <1>b, <1>c, <1>5, <2>1
    DEF StartClear, Goto, TypeOK, history, HandleInv, JoinInv, Active,
        NoneActive
  <2>4. JoinInv'
    BY <1>a, <1>b, <1>c, <1>5, <2>1
    DEF StartClear, Goto, TypeOK, history, HandleInv, JoinInv, Active,
        NoneActive
  <2>5. NewInv'
    BY <1>a, <1>b, <1>c, <1>5, <2>1
    DEF StartClear, Goto, TypeOK, history, NewInv
  <2>6. RunningInv'
    BY <1>a, <1>b, <1>c, <1>5, <2>1
    DEF StartClear, Goto, TypeOK, history, JoinInv, RunningInv, Active,
        NoneActive
  <2>7. QED
    BY <2>2, <2>3, <2>4, <2>5, <2>6
<1>6. ASSUME NEW t \in Threads, StartCreate(t)
      PROVE  (OneCall /\ HandleInv /\ JoinInv /\ NewInv /\ RunningInv)'
  <2>1. \A u \in Threads : u # t => call[u] = "idle" /\ call'[u] = "idle"
    BY <1>a, <1>b, <1>6 DEF OneCall, StartCreate, Goto, TypeOK
  <2>2. OneCall'
    BY <1>a, <1>b, <1>c, <1>6, <2>1
    DEF StartCreate, Goto, TypeOK, history, OneCall
  <2>3. HandleInv'
    BY <1>a, <1>b, <1>c, <1>6, <2>1
    DEF StartCreate, Goto, TypeOK, history, HandleInv, JoinInv, Active,
        NoneActive
  <2>4. JoinInv'
    BY <1>a, <1>b, <1>c, <1>6, <2>1
    DEF StartCreate, Goto, TypeOK, history, HandleInv, JoinInv, Active,
        NoneActive
  <2>5. NewInv'
    BY <1>a, <1>b, <1>c, <1>6, <2>1
    DEF StartCreate, Goto, TypeOK, history, NewInv
  <2>6. RunningInv'
    <3>1. made + 1 \in Loops /\ handle' = made + 1 /\ loop'[made + 1] = "new"
      BY <1>b, <1>6, RoomUsed DEF StartCreate, TypeOK
    <3>2. running => ~stopEvent
      BY <1>a, <1>6, <2>1 DEF RunningInv, StartCreate
    <3>3. kind = "realtime" => running
      BY <1>a, <1>6 DEF RunningInv, StartCreate
    <3>4. handle' \in Loops /\ Active(handle)'
      BY <3>1 DEF Active
    <3>5. \A u \in Threads : call'[u] # "start_create"
      BY <1>b, <1>6, <2>1 DEF StartCreate, Goto, TypeOK
    <3>6. UNCHANGED <<kind, running, stopEvent>>
      BY <1>6 DEF StartCreate
    <3>7. QED
      BY <1>a, <3>2, <3>3, <3>4, <3>5, <3>6 DEF RunningInv
  <2>7. QED
    BY <2>2, <2>3, <2>4, <2>5, <2>6
<1>7. ASSUME NEW t \in Threads, StartRun(t)
      PROVE  (OneCall /\ HandleInv /\ JoinInv /\ NewInv /\ RunningInv)'
  <2>1. \A u \in Threads : u # t => call[u] = "idle" /\ call'[u] = "idle"
    BY <1>a, <1>b, <1>7 DEF OneCall, StartRun, Goto, TypeOK
  <2>2. OneCall'
    BY <1>a, <1>b, <1>c, <1>7, <2>1
    DEF StartRun, Goto, TypeOK, history, OneCall
  <2>3. HandleInv'
    BY <1>a, <1>b, <1>c, <1>7, <2>1
    DEF StartRun, Goto, TypeOK, history, HandleInv, JoinInv, Active,
        NoneActive
  <2>4. JoinInv'
    BY <1>a, <1>b, <1>c, <1>7, <2>1
    DEF StartRun, Goto, TypeOK, history, HandleInv, JoinInv, Active,
        NoneActive
  <2>5. NewInv'
    <3>1. ASSUME NEW l \in Loops, loop'[l] = "new"
          PROVE  FALSE
      <4>1. loop[l] = "new"
        BY <1>b, <1>7, <3>1 DEF StartRun, TypeOK
      <4>2. l = handle
        BY <1>a, <4>1 DEF HandleInv, Active
      <4>3. l # NoLoop
        BY ConstantsAssumption DEF Loops, NoLoop
      <4>4. loop'[l] = "check"
        BY <1>b, <1>7, <4>1, <4>2, <4>3 DEF StartRun, TypeOK
      <4>5. QED
        BY <3>1, <4>4
    <3>2. QED
      BY <3>1 DEF NewInv
  <2>6. RunningInv'
    BY <1>a, <1>b, <1>c, <1>7, <2>1
    DEF StartRun, Goto, TypeOK, history, JoinInv, RunningInv, Active,
        NoneActive
  <2>7. QED
    BY <2>2, <2>3, <2>4, <2>5, <2>6
<1>8. ASSUME NEW t \in Threads, StopSet(t)
      PROVE  (OneCall /\ HandleInv /\ JoinInv /\ NewInv /\ RunningInv)'
  <2>1. \A u \in Threads : u # t => call[u] = "idle" /\ call'[u] = "idle"
    BY <1>a, <1>b, <1>8 DEF OneCall, StopSet, Goto, TypeOK
  <2>2. OneCall'
    BY <1>a, <1>b, <1>c, <1>8, <2>1 DEF StopSet, Goto, TypeOK, history, OneCall
  <2>3. HandleInv'
    BY <1>a, <1>b, <1>c, <1>8, <2>1
    DEF StopSet, Goto, TypeOK, history, HandleInv, JoinInv, Active,
        NoneActive
  <2>4. JoinInv'
    <3>1. handle = NoLoop => NoneActive
      <4>1. NoLoop \notin Loops
        BY ConstantsAssumption DEF Loops, NoLoop
      <4>2. QED
        BY <1>a, <4>1 DEF HandleInv, NoneActive
    <3>2. \/ call'[t] = "stop_done" /\ handle = NoLoop
          \/ /\ call'[t] = "stop_join" /\ handle # NoLoop
             /\ thread'[t] = handle
      BY <1>b, <1>8 DEF StopSet, Goto, TypeOK
    <3>3. UNCHANGED <<loop, handle>> /\ (NoneActive => NoneActive')
      BY <1>8 DEF StopSet, NoneActive, Active
    <3>4. QED
      BY <2>1, <3>1, <3>2, <3>3 DEF JoinInv
  <2>5. NewInv'
    BY <1>a, <1>b, <1>c, <1>8, <2>1 DEF StopSet, Goto, TypeOK, history, NewInv
  <2>6. RunningInv'
    BY <1>a, <1>b, <1>c, <1>8, <2>1
    DEF StopSet, Goto, TypeOK, history, JoinInv, RunningInv, Active,
        NoneActive
  <2>7. QED
    BY <2>2, <2>3, <2>4, <2>5, <2>6
<1>9. ASSUME NEW t \in Threads, StopJoin(t)
      PROVE  (OneCall /\ HandleInv /\ JoinInv /\ NewInv /\ RunningInv)'
  <2>1. \A u \in Threads : u # t => call[u] = "idle" /\ call'[u] = "idle"
    BY <1>a, <1>b, <1>9 DEF OneCall, StopJoin, Goto, TypeOK
  <2>2. OneCall'
    BY <1>a, <1>b, <1>c, <1>9, <2>1
    DEF StopJoin, Goto, TypeOK, history, OneCall
  <2>3. HandleInv'
    BY <1>a, <1>b, <1>c, <1>9, <2>1
    DEF StopJoin, Goto, TypeOK, history, HandleInv, JoinInv, Active,
        NoneActive
  <2>4. JoinInv'
    BY <1>a, <1>b, <1>c, <1>9, <2>1
    DEF StopJoin, Goto, TypeOK, history, HandleInv, JoinInv, Active,
        NoneActive
  <2>5. NewInv'
    BY <1>a, <1>b, <1>c, <1>9, <2>1 DEF StopJoin, Goto, TypeOK, history, NewInv
  <2>6. RunningInv'
    BY <1>a, <1>b, <1>c, <1>9, <2>1
    DEF StopJoin, Goto, TypeOK, history, JoinInv, RunningInv, Active,
        NoneActive
  <2>7. QED
    BY <2>2, <2>3, <2>4, <2>5, <2>6
<1>10. ASSUME NEW t \in Threads, StopDrop(t)
       PROVE  (OneCall /\ HandleInv /\ JoinInv /\ NewInv /\ RunningInv)'
  <2>1. \A u \in Threads : u # t => call[u] = "idle" /\ call'[u] = "idle"
    BY <1>a, <1>b, <1>10 DEF OneCall, StopDrop, Goto, TypeOK
  <2>2. OneCall'
    BY <1>a, <1>b, <1>c, <1>10, <2>1
    DEF StopDrop, Goto, TypeOK, history, OneCall
  <2>3. HandleInv'
    BY <1>a, <1>b, <1>c, <1>10, <2>1
    DEF StopDrop, Goto, TypeOK, history, HandleInv, JoinInv, Active,
        NoneActive
  <2>4. JoinInv'
    BY <1>a, <1>b, <1>c, <1>10, <2>1
    DEF StopDrop, Goto, TypeOK, history, HandleInv, JoinInv, Active,
        NoneActive
  <2>5. NewInv'
    BY <1>a, <1>b, <1>c, <1>10, <2>1
    DEF StopDrop, Goto, TypeOK, history, NewInv
  <2>6. RunningInv'
    BY <1>a, <1>b, <1>c, <1>10, <2>1
    DEF StopDrop, Goto, TypeOK, history, JoinInv, RunningInv, Active,
        NoneActive
  <2>7. QED
    BY <2>2, <2>3, <2>4, <2>5, <2>6
<1>11. ASSUME NEW t \in Threads, StopDone(t)
       PROVE  (OneCall /\ HandleInv /\ JoinInv /\ NewInv /\ RunningInv)'
  <2>1. \A u \in Threads : u # t => call[u] = "idle" /\ call'[u] = "idle"
    BY <1>a, <1>b, <1>11 DEF OneCall, StopDone, Goto, TypeOK
  <2>2. OneCall'
    BY <1>a, <1>b, <1>c, <1>11, <2>1
    DEF StopDone, Goto, TypeOK, history, OneCall
  <2>3. HandleInv'
    BY <1>a, <1>b, <1>c, <1>11, <2>1
    DEF StopDone, Goto, TypeOK, history, HandleInv, JoinInv, Active,
        NoneActive
  <2>4. JoinInv'
    BY <1>a, <1>b, <1>c, <1>11, <2>1
    DEF StopDone, Goto, TypeOK, history, HandleInv, JoinInv, Active,
        NoneActive
  <2>5. NewInv'
    BY <1>a, <1>b, <1>c, <1>11, <2>1
    DEF StopDone, Goto, TypeOK, history, NewInv
  <2>6. RunningInv'
    BY <1>a, <1>b, <1>c, <1>11, <2>1
    DEF StopDone, Goto, TypeOK, history, JoinInv, RunningInv, Active,
        NoneActive
  <2>7. QED
    BY <2>2, <2>3, <2>4, <2>5, <2>6
<1>12. ASSUME NEW l \in Loops, LoopStep(l)
       PROVE  (OneCall /\ HandleInv /\ JoinInv /\ NewInv /\ RunningInv)'
  <2>1. OneCall'
    BY <1>a, <1>b, <1>12
    DEF LoopStep, LoopCheck, LoopReturn, TypeOK, history, OneCall
  <2>2. HandleInv'
    BY <1>a, <1>b, <1>12
    DEF LoopStep, LoopCheck, LoopReturn, TypeOK, history, HandleInv,
        JoinInv, Active, NoneActive
  <2>3. JoinInv'
    BY <1>a, <1>b, <1>12
    DEF LoopStep, LoopCheck, LoopReturn, TypeOK, history, HandleInv,
        JoinInv, Active, NoneActive
  <2>4. NewInv'
    BY <1>a, <1>b, <1>12
    DEF LoopStep, LoopCheck, LoopReturn, TypeOK, history, NewInv
  <2>5. RunningInv'
    BY <1>a, <1>b, <1>12
    DEF LoopStep, LoopCheck, LoopReturn, TypeOK, history, JoinInv,
        RunningInv, Active, NoneActive
  <2>6. QED
    BY <2>1, <2>2, <2>3, <2>4, <2>5
<1>13. QED
  BY <1>1, <1>2, <1>3, <1>4, <1>5, <1>6, <1>7, <1>8, <1>9, <1>10, <1>11,
     <1>12
  DEF Next, CallStep

(* The two invariants together. *)
LEMMA SeqCorrect == Spec => [](TInv /\ SeqInv)
<1>1. Init => TInv /\ SeqInv
  BY TInvInit, SeqInit
<1>2. TInv /\ SeqInv /\ [Next]_vars => TInv' /\ SeqInv'
  BY TInvStep, SeqStep
<1>3. QED
  BY <1>1, <1>2, PTL DEF Spec

(* Never two loops call back at once, as long as the calls of start and    *)
(* stop are made one after the other and no join gave up on a loop         *)
(* (arm.py:1266).                                                          *)
THEOREM OneLoopAtATime == Spec => []OneLoopUnlessGivenUp
<1>1. ASSUME TInv, SeqInv, InTurn
      PROVE  Cardinality(Live) <= 1 /\ Live \subseteq {handle}
  <2>1. Live \subseteq {handle}
    BY <1>1 DEF SeqInv, HandleInv, Live, Alive, Active
  <2>2. IsFiniteSet({handle}) /\ Cardinality({handle}) = 1
    BY FS_Singleton
  <2>3. Cardinality(Live) <= Cardinality({handle})
    BY <2>1, <2>2, FS_Subset
  <2>4. QED
    BY <2>1, <2>2, <2>3
<1>2. TInv /\ SeqInv => OneLoopUnlessGivenUp
  BY <1>1 DEF OneLoopUnlessGivenUp, InTurn
<1>3. QED
  BY <1>2, SeqCorrect, PTL

(* Under the same conditions a RealtimeController that says it is running  *)
(* has a live loop, so that its start() does not silently do nothing.      *)
THEOREM RunningHasALoop == Spec => []RunningHasLoop
<1>1. ASSUME TInv, SeqInv, InTurn, Quiet, running
      PROVE  handle # NoLoop /\ Alive(handle)
  <2>1. handle \in Loops /\ Active(handle)
    BY <1>1 DEF SeqInv, RunningInv, Quiet
  <2>2. loop[handle] # "new"
    BY <1>1, <2>1 DEF SeqInv, NewInv, Quiet
  <2>3. handle # NoLoop
    BY <2>1, ConstantsAssumption DEF Loops, NoLoop
  <2>4. QED
    BY <2>1, <2>2, <2>3 DEF Active, Alive
<1>2. TInv /\ SeqInv => RunningHasLoop
  BY <1>1 DEF RunningHasLoop, InTurn
<1>3. QED
  BY <1>2, SeqCorrect, PTL
=============================================================================
