-------------------------- MODULE FeedbackProofs ---------------------------
(***************************************************************************)
(* Proofs about Feedback: how recent the readings of a refresh are, what   *)
(* the frame rate counts, which overloads the guard reports, and when the  *)
(* write to the segment fails.                                             *)
(***************************************************************************)
EXTENDS Feedback, SequenceTheorems, TLAPS

Ops == {"none", "close", "reconnect", "connect"}

Locals ==
  [op : Ops, i : Nat \ {0}, new : Readings, now : Nat,
   state : [Joints -> Readings], began : [Joints -> Nat],
   saw : [Joints -> Torques \cup {"None"}],
   first : BOOLEAN, alone : BOOLEAN, cut : BOOLEAN]

Frames == [saw : [Joints -> Torques \cup {"None"}], sure : BOOLEAN]

(* The types of the state, and which joints the handles stand for: those   *)
(* of the first calls of add_joint().                                      *)
ArmTypes ==
  /\ connected \in BOOLEAN /\ shm \in BOOLEAN
  /\ handles \in Seq(Nat) /\ Len(handles) <= NumJoints
  /\ \A k \in 1 .. Len(handles) : handles[k] = k

DataTypes ==
  /\ driver \in [Joints -> Readings] /\ cache \in [Joints -> Readings]
  /\ window \in Seq(Nat) /\ Len(window) <= WindowSize
  /\ clock \in Nat
  /\ counts \in [Joints -> Nat]

ThreadTypes ==
  /\ pc \in [Threads -> Steps]
  /\ loc \in [Threads -> Locals]
  /\ \A t \in Threads : At(t, "update") => loc[t].i \in Joints

GhostTypes ==
  /\ frames \in Seq(Frames) /\ Len(frames) <= MaxCount
  /\ reported \subseteq Joints
  /\ crossed \in BOOLEAN

(* A driver that has a reading belongs to a handle. *)
DriversHandled ==
  \A j \in Joints : ~Missing(driver[j]) => j <= Len(handles)

TypeOK ==
  /\ ArmTypes /\ DataTypes /\ ThreadTypes /\ GhostTypes /\ DriversHandled

(* The local variables of a thread that is in no call. *)
LEMMA NoCallType == NoCall \in Locals /\ NoReading \in Readings
BY ConstantsAssumption
   DEF NoCall, Locals, NoReading, Readings, Ops, Torques, Joints

(* The step of a thread that changes its local variables. *)
LEMMA LocalStep ==
  ASSUME TypeOK, NEW t \in Threads, NEW l \in Locals, NEW step \in Steps,
         loc' = [loc EXCEPT ![t] = l], Goto(t, step),
         step = "update" => l.i \in Joints
  PROVE  /\ ThreadTypes'
         /\ loc'[t] = l /\ pc'[t] = step
         /\ \A u \in Threads : u # t => loc'[u] = loc[u] /\ pc'[u] = pc[u]
<1>1. pc \in [Threads -> Steps] /\ loc \in [Threads -> Locals]
  BY DEF TypeOK, ThreadTypes
<1>2. pc' = [pc EXCEPT ![t] = step]
  BY DEF Goto
<1>3. /\ pc' \in [Threads -> Steps] /\ loc' \in [Threads -> Locals]
      /\ loc'[t] = l /\ pc'[t] = step
      /\ \A u \in Threads : u # t => loc'[u] = loc[u] /\ pc'[u] = pc[u]
  BY <1>1, <1>2
<1>4. \A u \in Threads : At(u, "update")' => loc'[u].i \in Joints
  BY <1>3 DEF TypeOK, ThreadTypes, At
<1> QED  BY <1>3, <1>4 DEF ThreadTypes

(* The step of a thread that keeps its local variables. *)
LEMMA GotoStep ==
  ASSUME TypeOK, NEW t \in Threads, NEW step \in Steps, step # "update",
         Goto(t, step), UNCHANGED loc
  PROVE  /\ ThreadTypes'
         /\ pc'[t] = step /\ loc' = loc
         /\ \A u \in Threads : u # t => pc'[u] = pc[u]
<1>1. pc \in [Threads -> Steps]
  BY DEF TypeOK, ThreadTypes
<1>2. pc' = [pc EXCEPT ![t] = step]
  BY DEF Goto
<1>3. /\ pc' \in [Threads -> Steps] /\ pc'[t] = step
      /\ \A u \in Threads : u # t => pc'[u] = pc[u]
  BY <1>1, <1>2
<1> QED  BY <1>3 DEF TypeOK, ThreadTypes, At

(* The end of a call. *)
LEMMA ReturnStep ==
  ASSUME TypeOK, NEW t \in Threads, Return(t)
  PROVE  /\ ThreadTypes'
         /\ pc'[t] = "idle" /\ loc'[t] = NoCall
         /\ \A u \in Threads : u # t => loc'[u] = loc[u] /\ pc'[u] = pc[u]
<1>1. "idle" \in Steps
  BY DEF Steps
<1> QED  BY <1>1, NoCallType, LocalStep DEF Return

(* What is not the concern of a step keeps its type. *)
LEMMA DataKept ==
  ASSUME TypeOK, UNCHANGED <<armVars, dataVars, ghosts>>, ThreadTypes'
  PROVE  TypeOK'
<1>1. /\ UNCHANGED <<connected, handles, shm>>
      /\ UNCHANGED <<driver, cache, window, counts, clock>>
      /\ UNCHANGED <<frames, reported, crossed>>
  BY DEF armVars, dataVars, ghosts
<1>2. ArmTypes'
  BY <1>1 DEF TypeOK, ArmTypes
<1>3. DataTypes'
  BY <1>1 DEF TypeOK, DataTypes
<1>4. GhostTypes' /\ DriversHandled'
  BY <1>1 DEF TypeOK, GhostTypes, DriversHandled
<1> QED  BY <1>2, <1>3, <1>4 DEF TypeOK

(* One turn of the loop over the handles, in its two forms. *)
LEMMA ReadPost ==
  ASSUME TypeOK, NEW t \in Threads, Read(t)
  PROVE  /\ TypeOK' /\ At(t, "read")
         /\ UNCHANGED <<armVars, dataVars, ghosts>>
         /\ loc[t].i \in Joints /\ loc[t].i <= Len(handles)
         /\ loc'[t].first = loc[t].first /\ loc'[t].cut = loc[t].cut
         /\ loc'[t].alone = loc[t].alone /\ loc'[t].began = loc[t].began
         /\ loc'[t].state = loc[t].state /\ loc'[t].now = loc[t].now
         /\ loc'[t].op = loc[t].op
         /\ \A u \in Threads : u # t => loc'[u] = loc[u] /\ pc'[u] = pc[u]
         /\ \/ /\ Missing(driver[loc[t].i]) /\ pc'[t] = "read"
               /\ loc'[t].i = loc[t].i + 1 /\ loc'[t].saw = loc[t].saw
            \/ /\ ~Missing(driver[loc[t].i]) /\ pc'[t] = "update"
               /\ loc'[t].i = loc[t].i
               /\ loc'[t].new = FilterJoint(driver[loc[t].i])
               /\ t = Loop =>
                    loc'[t].saw = [loc[t].saw EXCEPT
                                     ![loc[t].i] = driver[loc[t].i].torq]
<1> DEFINE i == loc[t].i
           d == driver[handles[i]]
<1>1. /\ loc[t] \in Locals /\ loc \in [Threads -> Locals]
      /\ i \in Nat \ {0}
      /\ driver \in [Joints -> Readings]
  BY DEF TypeOK, ThreadTypes, DataTypes, Locals
<1>2. At(t, "read") /\ UNCHANGED <<armVars, dataVars, ghosts>>
  BY DEF Read
<1>3. i <= Len(handles)
  BY DEF Read
<1>4. i \in Joints /\ handles[i] = i
  <2>1. Len(handles) \in Nat /\ Len(handles) <= NumJoints
    BY DEF TypeOK, ArmTypes
  <2>2. i \in 1 .. Len(handles)
    BY <1>1, <1>3, <2>1
  <2> QED  BY <2>1, <2>2, ConstantsAssumption DEF TypeOK, ArmTypes, Joints
<1>5. d \in Readings
  BY <1>1, <1>4
<1>6. CASE Missing(d) /\ loc' = [loc EXCEPT ![t].i = @ + 1] /\ UNCHANGED pc
  <2> DEFINE l == [loc[t] EXCEPT !.i = @ + 1]
  <2>1. /\ l \in Locals /\ l.i = i + 1
        /\ l.first = loc[t].first /\ l.cut = loc[t].cut
        /\ l.alone = loc[t].alone /\ l.began = loc[t].began
        /\ l.state = loc[t].state /\ l.now = loc[t].now
        /\ l.op = loc[t].op /\ l.saw = loc[t].saw
    BY <1>1 DEF Locals
  <2>2. loc' = [loc EXCEPT ![t] = l]
    BY <1>6
  <2> HIDE DEF l
  <2>3. Goto(t, "read") /\ "read" \in Steps
    <3>1. pc \in [Threads -> Steps]
      BY DEF TypeOK, ThreadTypes
    <3> QED  BY <3>1, <1>6, <1>2 DEF Goto, At, Steps, Refreshing
  <2>4. /\ ThreadTypes' /\ loc'[t] = l /\ pc'[t] = "read"
        /\ \A u \in Threads : u # t => loc'[u] = loc[u] /\ pc'[u] = pc[u]
    BY <2>1, <2>2, <2>3, LocalStep
  <2>5. TypeOK'
    BY <2>4, <1>2, DataKept
  <2> QED  BY <1>2, <1>3, <1>4, <1>6, <2>1, <2>4, <2>5
<1>7. CASE /\ ~Missing(d) /\ Goto(t, "update")
           /\ loc' = [loc EXCEPT ![t].new = FilterJoint(d),
                                 ![t].saw[i] = IF t = Loop THEN d.torq
                                               ELSE "None"]
  <2> DEFINE saw == [loc[t].saw EXCEPT
                       ![i] = IF t = Loop THEN d.torq ELSE "None"]
             l == [loc[t] EXCEPT !.new = FilterJoint(d), !.saw = saw]
  <2>1. FilterJoint(d) \in Readings
    BY <1>5 DEF FilterJoint, Readings, Torques
  <2>2. saw \in [Joints -> Torques \cup {"None"}]
    BY <1>1, <1>5 DEF Locals, Readings, Torques
  <2>3. loc' = [loc EXCEPT ![t] = l]
    BY <1>1, <1>7
  <2>4. t = Loop => saw = [loc[t].saw EXCEPT ![i] = d.torq]
    OBVIOUS
  <2> HIDE DEF saw
  <2>5. /\ l \in Locals /\ l.i = i /\ l.new = FilterJoint(d) /\ l.saw = saw
        /\ l.first = loc[t].first /\ l.cut = loc[t].cut
        /\ l.alone = loc[t].alone /\ l.began = loc[t].began
        /\ l.state = loc[t].state /\ l.now = loc[t].now
        /\ l.op = loc[t].op
    BY <1>1, <2>1, <2>2 DEF Locals
  <2> HIDE DEF l
  <2>6. "update" \in Steps
    BY DEF Steps, Refreshing
  <2>7. /\ ThreadTypes' /\ loc'[t] = l /\ pc'[t] = "update"
        /\ \A u \in Threads : u # t => loc'[u] = loc[u] /\ pc'[u] = pc[u]
    BY <1>4, <1>7, <2>3, <2>5, <2>6, LocalStep
  <2>8. TypeOK'
    BY <2>7, <1>2, DataKept
  <2> QED  BY <1>2, <1>3, <1>4, <1>7, <2>4, <2>5, <2>7, <2>8
<1> QED  BY <1>6, <1>7 DEF Read

(* A driver that does not answer ends the refresh. *)
LEMMA RaisesPost ==
  ASSUME TypeOK, NEW t \in Threads, ReadRaises(t)
  PROVE  /\ TypeOK' /\ At(t, "read")
         /\ UNCHANGED <<armVars, dataVars, ghosts>>
         /\ pc'[t] = "idle"
         /\ \A u \in Threads : u # t => loc'[u] = loc[u] /\ pc'[u] = pc[u]
<1>1. At(t, "read") /\ Return(t) /\ UNCHANGED <<armVars, dataVars, ghosts>>
  BY DEF ReadRaises
<1> QED  BY <1>1, ReturnStep, DataKept

(* StateCache.update_joint(). *)
LEMMA UpdatePost ==
  ASSUME TypeOK, NEW t \in Threads, Update(t)
  PROVE  /\ TypeOK' /\ At(t, "update") /\ pc'[t] = "read"
         /\ UNCHANGED <<armVars, driver, window, counts, clock, ghosts>>
         /\ loc[t].i \in Joints /\ loc[t].new \in Readings
         /\ cache' = [cache EXCEPT ![loc[t].i] = loc[t].new]
         /\ loc'[t].i = loc[t].i + 1 /\ loc'[t].saw = loc[t].saw
         /\ loc'[t].first = loc[t].first /\ loc'[t].cut = loc[t].cut
         /\ loc'[t].alone = loc[t].alone /\ loc'[t].began = loc[t].began
         /\ \A u \in Threads : u # t => loc'[u] = loc[u] /\ pc'[u] = pc[u]
<1>1. /\ At(t, "update") /\ Goto(t, "read")
      /\ cache' = [cache EXCEPT ![loc[t].i] = loc[t].new]
      /\ loc' = [loc EXCEPT ![t].i = @ + 1, ![t].new = NoReading]
      /\ UNCHANGED <<armVars, driver, window, counts, clock, ghosts>>
  BY DEF Update
<1>2. /\ loc[t] \in Locals /\ loc \in [Threads -> Locals]
      /\ loc[t].i \in Joints
  BY <1>1 DEF TypeOK, ThreadTypes
<1> DEFINE l == [loc[t] EXCEPT !.i = @ + 1, !.new = NoReading]
<1>3. /\ l \in Locals /\ l.i = loc[t].i + 1 /\ l.saw = loc[t].saw
      /\ l.first = loc[t].first /\ l.cut = loc[t].cut
      /\ l.alone = loc[t].alone /\ l.began = loc[t].began
      /\ loc[t].new \in Readings
  <2>1. /\ loc[t].i \in Nat \ {0} /\ loc[t].i + 1 \in Nat \ {0}
        /\ NoReading \in Readings
    BY <1>2, NoCallType DEF Locals
  <2> HIDE DEF NoReading
  <2> QED  BY <1>2, <2>1 DEF Locals
<1>4. loc' = [loc EXCEPT ![t] = l]
  <2>1. loc' = [loc EXCEPT ![t].i = @ + 1, ![t].new = NoReading]
    BY <1>1
  <2>2. loc \in [Threads -> Locals]
    BY <1>2
  <2> QED  BY <2>1, <2>2
<1> HIDE DEF l
<1>5. "read" \in Steps
  BY DEF Steps, Refreshing
<1>6. /\ ThreadTypes' /\ loc'[t] = l /\ pc'[t] = "read"
      /\ \A u \in Threads : u # t => loc'[u] = loc[u] /\ pc'[u] = pc[u]
  <2>1. Goto(t, "read") /\ l \in Locals /\ "read" # "update"
    BY <1>1, <1>3
  <2> QED  BY <2>1, <1>4, <1>5, LocalStep
<1>7. TypeOK'
  <2>1. /\ UNCHANGED <<connected, handles, shm>>
        /\ UNCHANGED <<driver, window, counts, clock>>
        /\ UNCHANGED <<frames, reported, crossed>>
    BY <1>1 DEF armVars, ghosts
  <2>2. cache' \in [Joints -> Readings]
    BY <1>1, <1>2, <1>3 DEF TypeOK, DataTypes
  <2>3. ArmTypes'
    BY <2>1 DEF TypeOK, ArmTypes
  <2>4. DataTypes'
    BY <2>1, <2>2 DEF TypeOK, DataTypes
  <2>5. GhostTypes' /\ DriversHandled'
    BY <2>1 DEF TypeOK, GhostTypes, DriversHandled
  <2> QED  BY <1>6, <2>3, <2>4, <2>5 DEF TypeOK
<1> QED  BY <1>1, <1>2, <1>3, <1>6, <1>7

(* A thread takes a stamp: the clock goes on, and the stamp is its value. *)
LEMMA StampPost ==
  ASSUME TypeOK, NEW t \in Threads, Stamp(t)
  PROVE  /\ TypeOK' /\ At(t, "read") /\ pc'[t] = "tick"
         /\ loc[t].i > Len(handles)
         /\ UNCHANGED <<armVars, driver, cache, window, counts, frames, reported>>
         /\ clock' >= clock
         /\ crossed' = (crossed \/ \E u \in Threads : At(u, "tick"))
         /\ loc'[t].now = clock'
         /\ loc'[t].i = loc[t].i /\ loc'[t].saw = loc[t].saw
         /\ loc'[t].first = loc[t].first /\ loc'[t].cut = loc[t].cut
         /\ loc'[t].alone = loc[t].alone /\ loc'[t].began = loc[t].began
         /\ \A u \in Threads : u # t => loc'[u] = loc[u] /\ pc'[u] = pc[u]
<1>1. /\ At(t, "read") /\ Goto(t, "tick") /\ loc[t].i > Len(handles)
      /\ crossed' = (crossed \/ \E u \in Threads : At(u, "tick"))
      /\ UNCHANGED <<armVars, driver, cache, window, counts, frames, reported>>
  BY DEF Stamp
<1>2. loc[t] \in Locals /\ loc \in [Threads -> Locals]
  BY DEF TypeOK, ThreadTypes
<1>3. clock' \in Nat /\ clock' >= clock
  BY ConstantsAssumption DEF Stamp, TypeOK, DataTypes
<1> DEFINE l == [loc[t] EXCEPT !.now = clock']
<1>4. /\ l \in Locals /\ l.now = clock' /\ l.i = loc[t].i
      /\ l.saw = loc[t].saw
      /\ l.first = loc[t].first /\ l.cut = loc[t].cut
      /\ l.alone = loc[t].alone /\ l.began = loc[t].began
  BY <1>2, <1>3 DEF Locals
<1>5. loc' = [loc EXCEPT ![t] = l]
  <2>1. loc' = [loc EXCEPT ![t].now = clock']
    BY DEF Stamp
  <2> QED  BY <2>1, <1>2
<1> HIDE DEF l
<1>6. "tick" \in Steps
  BY DEF Steps, Refreshing
<1>7. /\ ThreadTypes' /\ loc'[t] = l /\ pc'[t] = "tick"
      /\ \A u \in Threads : u # t => loc'[u] = loc[u] /\ pc'[u] = pc[u]
  <2>1. Goto(t, "tick") /\ l \in Locals /\ "tick" # "update"
    BY <1>1, <1>4
  <2> QED  BY <2>1, <1>5, <1>6, LocalStep
<1>8. TypeOK'
  <2>1. /\ UNCHANGED <<connected, handles, shm>>
        /\ UNCHANGED <<driver, cache, window, counts>>
        /\ UNCHANGED <<frames, reported>>
    BY <1>1 DEF armVars
  <2>2. crossed' \in BOOLEAN
    BY <1>1 DEF TypeOK, GhostTypes
  <2>3. ArmTypes'
    BY <2>1 DEF TypeOK, ArmTypes
  <2>4. DataTypes'
    BY <2>1, <1>3 DEF TypeOK, DataTypes
  <2>5. GhostTypes' /\ DriversHandled'
    BY <2>1, <2>2 DEF TypeOK, GhostTypes, DriversHandled
  <2> QED  BY <1>7, <2>3, <2>4, <2>5 DEF TypeOK
<1> QED  BY <1>1, <1>3, <1>4, <1>7, <1>8

(* What the window holds after a stamp was appended to it. *)
LEMMA TickedWindow ==
  ASSUME TypeOK, NEW now \in Nat
  PROVE  /\ Ticked(now) \in Seq(Nat) /\ Len(Ticked(now)) <= WindowSize
         /\ \E k \in {0, 1} :
              /\ Len(Ticked(now)) = Len(window) + 1 - k
              /\ Ticked(now)[Len(Ticked(now))] = now
              /\ \A i \in 1 .. Len(Ticked(now)) :
                   i < Len(Ticked(now)) =>
                     /\ i + k \in 1 .. Len(window)
                     /\ Ticked(now)[i] = window[i + k]
<1> DEFINE all == Append(window, now)
<1>1. /\ window \in Seq(Nat) /\ Len(window) \in Nat
      /\ Len(window) <= WindowSize
      /\ WindowSize \in Nat /\ WindowSize >= 2
  BY ConstantsAssumption DEF TypeOK, DataTypes
<1>2. /\ all \in Seq(Nat) /\ Len(all) = Len(window) + 1
      /\ \A i \in 1 .. Len(window) : all[i] = window[i]
      /\ all[Len(window) + 1] = now
  BY <1>1
<1> HIDE DEF all
<1>3. CASE Len(all) > WindowSize
  <2>1. Ticked(now) = Tail(all)
    BY <1>3 DEF Ticked, all
  <2>2. /\ Tail(all) \in Seq(Nat) /\ Len(Tail(all)) = Len(window)
        /\ \A i \in 1 .. Len(window) : Tail(all)[i] = all[i + 1]
    BY <1>1, <1>2, <1>3
  <2>3. Len(window) \in 1 .. Len(window) /\ Len(window) + 1 - 1 = Len(window)
    BY <1>1, <1>2, <1>3
  <2>4. \A i \in 1 .. Len(window) :
          i < Len(window) => /\ i + 1 \in 1 .. Len(window)
                             /\ Tail(all)[i] = window[i + 1]
    <3> SUFFICES ASSUME NEW i \in 1 .. Len(window), i < Len(window)
                 PROVE  /\ i + 1 \in 1 .. Len(window)
                        /\ Tail(all)[i] = window[i + 1]
      OBVIOUS
    <3>1. i + 1 \in 1 .. Len(window)
      BY <1>1
    <3>2. all[i + 1] = window[i + 1]
      BY <3>1, <1>2
    <3>3. Tail(all)[i] = all[i + 1]
      BY <2>2
    <3> QED  BY <3>1, <3>2, <3>3
  <2>5. Tail(all)[Len(window)] = now
    BY <1>2, <2>2, <2>3
  <2> QED  BY <1>1, <2>1, <2>2, <2>3, <2>4, <2>5
<1>4. CASE ~(Len(all) > WindowSize)
  <2>1. Ticked(now) = all
    BY <1>4 DEF Ticked, all
  <2>2. /\ Len(all) = Len(window) + 1 - 0 /\ Len(all) <= WindowSize
        /\ \A i \in 1 .. Len(all) :
             i < Len(all) => i + 0 \in 1 .. Len(window) /\ all[i] = window[i + 0]
        /\ all[Len(all)] = now
    BY <1>1, <1>2, <1>4
  <2> QED  BY <1>2, <2>1, <2>2
<1> QED  BY <1>3, <1>4

(* The stamp is put into the window. *)
LEMMA TickPost ==
  ASSUME TypeOK, NEW t \in Threads, Tick(t)
  PROVE  /\ TypeOK' /\ At(t, "tick") /\ pc'[t] = "snapshot"
         /\ UNCHANGED <<armVars, driver, cache, counts, clock, ghosts>>
         /\ loc[t].now \in Nat
         /\ window' = Ticked(loc[t].now)
         /\ loc'[t].i = loc[t].i /\ loc'[t].saw = loc[t].saw
         /\ loc'[t].first = loc[t].first /\ loc'[t].cut = loc[t].cut
         /\ loc'[t].alone = loc[t].alone /\ loc'[t].began = loc[t].began
         /\ \A u \in Threads : u # t => loc'[u] = loc[u] /\ pc'[u] = pc[u]
<1>1. /\ At(t, "tick") /\ Goto(t, "snapshot")
      /\ window' = Ticked(loc[t].now)
      /\ UNCHANGED <<armVars, driver, cache, counts, clock, ghosts>>
  BY DEF Tick
<1>2. loc[t] \in Locals /\ loc \in [Threads -> Locals]
  BY DEF TypeOK, ThreadTypes
<1> DEFINE l == [loc[t] EXCEPT !.now = 0]
<1>4. /\ l \in Locals /\ l.i = loc[t].i /\ loc[t].now \in Nat
      /\ l.saw = loc[t].saw
      /\ l.first = loc[t].first /\ l.cut = loc[t].cut
      /\ l.alone = loc[t].alone /\ l.began = loc[t].began
  BY <1>2 DEF Locals
<1>5. loc' = [loc EXCEPT ![t] = l]
  <2>1. loc' = [loc EXCEPT ![t].now = 0]
    BY DEF Tick
  <2> QED  BY <2>1, <1>2
<1> HIDE DEF l
<1>6. "snapshot" \in Steps
  BY DEF Steps, Refreshing
<1>7. /\ ThreadTypes' /\ loc'[t] = l /\ pc'[t] = "snapshot"
      /\ \A u \in Threads : u # t => loc'[u] = loc[u] /\ pc'[u] = pc[u]
  <2>1. Goto(t, "snapshot") /\ l \in Locals /\ "snapshot" # "update"
    BY <1>1, <1>4
  <2> QED  BY <2>1, <1>5, <1>6, LocalStep
<1>8. TypeOK'
  <2>1. /\ UNCHANGED <<connected, handles, shm>>
        /\ UNCHANGED <<driver, cache, counts, clock>>
        /\ UNCHANGED <<frames, reported, crossed>>
    BY <1>1 DEF armVars, ghosts
  <2>2. window' \in Seq(Nat) /\ Len(window') <= WindowSize
    BY <1>1, <1>4, TickedWindow
  <2>3. ArmTypes'
    BY <2>1 DEF TypeOK, ArmTypes
  <2>4. DataTypes'
    BY <2>1, <2>2 DEF TypeOK, DataTypes
  <2>5. GhostTypes' /\ DriversHandled'
    BY <2>1 DEF TypeOK, GhostTypes, DriversHandled
  <2> QED  BY <1>7, <2>3, <2>4, <2>5 DEF TypeOK
<1> QED  BY <1>1, <1>4, <1>7, <1>8

(* The snapshot is a copy of the whole cache. *)
LEMMA SnapshotPost ==
  ASSUME TypeOK, NEW t \in Threads, Snapshot(t)
  PROVE  /\ TypeOK' /\ At(t, "snapshot") /\ pc'[t] = "publish"
         /\ UNCHANGED <<armVars, dataVars, ghosts>>
         /\ loc'[t].state = cache
         /\ loc'[t].saw = loc[t].saw
         /\ loc'[t].first = loc[t].first /\ loc'[t].cut = loc[t].cut
         /\ loc'[t].alone = loc[t].alone /\ loc'[t].began = loc[t].began
         /\ \A u \in Threads : u # t => loc'[u] = loc[u] /\ pc'[u] = pc[u]
<1>1. /\ At(t, "snapshot") /\ Goto(t, "publish")
      /\ UNCHANGED <<armVars, dataVars, ghosts>>
  BY DEF Snapshot
<1>2. /\ loc[t] \in Locals /\ loc \in [Threads -> Locals]
      /\ cache \in [Joints -> Readings]
  BY DEF TypeOK, ThreadTypes, DataTypes
<1> DEFINE l == [loc[t] EXCEPT !.state = cache]
<1>4. /\ l \in Locals /\ l.state = cache
      /\ l.saw = loc[t].saw
      /\ l.first = loc[t].first /\ l.cut = loc[t].cut
      /\ l.alone = loc[t].alone /\ l.began = loc[t].began
  BY <1>2 DEF Locals
<1>5. loc' = [loc EXCEPT ![t] = l]
  <2>1. loc' = [loc EXCEPT ![t].state = cache]
    BY DEF Snapshot
  <2> QED  BY <2>1, <1>2
<1> HIDE DEF l
<1>6. "publish" \in Steps
  BY DEF Steps, Refreshing
<1>7. /\ ThreadTypes' /\ loc'[t] = l /\ pc'[t] = "publish"
      /\ \A u \in Threads : u # t => loc'[u] = loc[u] /\ pc'[u] = pc[u]
  <2>1. Goto(t, "publish") /\ l \in Locals /\ "publish" # "update"
    BY <1>1, <1>4
  <2> QED  BY <2>1, <1>5, <1>6, LocalStep
<1>8. TypeOK'
  BY <1>1, <1>7, DataKept
<1> QED  BY <1>1, <1>4, <1>7, <1>8

(* The end of a refresh: the cycle keeps what it read, the other callers   *)
(* are done.                                                               *)
LEMMA RefreshedPost ==
  ASSUME TypeOK, NEW t \in Threads, Refreshed(t)
  PROVE  /\ ThreadTypes'
         /\ \/ /\ t = Loop /\ pc'[t] = "check"
               /\ loc'[t].state = loc[t].state /\ loc'[t].saw = loc[t].saw
               /\ loc'[t].alone = loc[t].alone
            \/ t # Loop /\ pc'[t] = "idle" /\ loc'[t] = NoCall
         /\ \A u \in Threads : u # t => loc'[u] = loc[u] /\ pc'[u] = pc[u]
<1>1. CASE t = Loop
  <2>1. loc[t] \in Locals /\ loc \in [Threads -> Locals]
    BY DEF TypeOK, ThreadTypes
  <2> DEFINE l == [loc[t] EXCEPT !.began = NoCall.began]
  <2>2. NoCall.began \in [Joints -> Nat]
    BY DEF NoCall
  <2>3. /\ l \in Locals
        /\ l.state = loc[t].state /\ l.saw = loc[t].saw
        /\ l.alone = loc[t].alone
    BY <2>1, <2>2 DEF Locals
  <2>4. loc' = [loc EXCEPT ![t] = l]
    <3>1. loc' = [loc EXCEPT ![t].began = NoCall.began]
      BY <1>1 DEF Refreshed
    <3> HIDE DEF NoCall
    <3> QED  BY <3>1, <2>1
  <2> HIDE DEF l
  <2>5. Goto(t, "check") /\ "check" \in Steps /\ "check" # "update"
    BY <1>1 DEF Refreshed, Steps, Refreshing
  <2>6. /\ ThreadTypes' /\ loc'[t] = l /\ pc'[t] = "check"
        /\ \A u \in Threads : u # t => loc'[u] = loc[u] /\ pc'[u] = pc[u]
    BY <2>3, <2>4, <2>5, LocalStep
  <2> QED  BY <1>1, <2>3, <2>6
<1>2. CASE t # Loop
  BY <1>2, ReturnStep DEF Refreshed
<1> QED  BY <1>1, <1>2

(* A refresh tests for the segment, and is over when there is none. *)
LEMMA PublishPost ==
  ASSUME TypeOK, NEW t \in Threads, Publish(t)
  PROVE  /\ TypeOK' /\ At(t, "publish")
         /\ UNCHANGED <<armVars, dataVars, ghosts>>
         /\ \A u \in Threads : u # t => loc'[u] = loc[u] /\ pc'[u] = pc[u]
         /\ \/ shm /\ pc'[t] = "write" /\ loc' = loc
            \/ /\ t = Loop /\ pc'[t] = "check"
               /\ loc'[t].state = loc[t].state /\ loc'[t].saw = loc[t].saw
               /\ loc'[t].alone = loc[t].alone
            \/ t # Loop /\ pc'[t] = "idle" /\ loc'[t] = NoCall
<1>1. At(t, "publish") /\ UNCHANGED <<armVars, dataVars, ghosts>>
  BY DEF Publish
<1>2. CASE shm /\ Goto(t, "write") /\ UNCHANGED loc
  <2>1. "write" \in Steps /\ "write" # "update"
    BY DEF Steps, Refreshing
  <2>2. /\ ThreadTypes' /\ pc'[t] = "write" /\ loc' = loc
        /\ \A u \in Threads : u # t => pc'[u] = pc[u]
    BY <1>2, <2>1, GotoStep
  <2>3. TypeOK'
    BY <2>2, <1>1, DataKept
  <2> QED  BY <1>1, <1>2, <2>2, <2>3
<1>3. CASE Refreshed(t)
  <2>1. ThreadTypes'
    BY <1>3, RefreshedPost
  <2>2. TypeOK'
    BY <2>1, <1>1, DataKept
  <2> QED  BY <1>1, <1>3, <2>2, RefreshedPost
<1> QED  BY <1>2, <1>3 DEF Publish

(* A refresh writes, or raises; either way it is over. *)
LEMMA WritePost ==
  ASSUME TypeOK, NEW t \in Threads, Write(t)
  PROVE  /\ TypeOK' /\ At(t, "write")
         /\ UNCHANGED <<armVars, dataVars, ghosts>>
         /\ \A u \in Threads : u # t => loc'[u] = loc[u] /\ pc'[u] = pc[u]
         /\ \/ /\ t = Loop /\ pc'[t] = "check"
               /\ loc'[t].state = loc[t].state /\ loc'[t].saw = loc[t].saw
               /\ loc'[t].alone = loc[t].alone
            \/ pc'[t] = "idle" /\ loc'[t] = NoCall
<1>1. At(t, "write") /\ UNCHANGED <<armVars, dataVars, ghosts>>
  BY DEF Write
<1>2. CASE Return(t)
  <2>1. TypeOK'
    BY <1>1, <1>2, ReturnStep, DataKept
  <2> QED  BY <1>1, <1>2, <2>1, ReturnStep
<1>3. CASE Refreshed(t)
  <2>1. ThreadTypes'
    BY <1>3, RefreshedPost
  <2>2. TypeOK'
    BY <2>1, <1>1, DataKept
  <2> QED  BY <1>1, <1>3, <2>2, RefreshedPost
<1> QED  BY <1>2, <1>3 DEF Write

(* The frame m calls of check() ago, the last one for m = 1. *)
Ago(f, m) == f[Len(f) + 1 - m]

(* The frames after a call of check(): the new one comes first, and the    *)
(* oldest is forgotten when there are enough.                              *)
Pushed(frame) ==
  LET given == Append(frames, frame)
  IN  IF Len(given) > MaxCount THEN Tail(given) ELSE given

(* The new frame is the last one, and the others move one back. *)
LEMMA PushedFrames ==
  ASSUME TypeOK, NEW frame \in Frames
  PROVE  LET new == Pushed(frame) IN
         /\ new \in Seq(Frames)
         /\ Len(new) \in 1 .. MaxCount /\ Len(frames) \in Nat
         /\ Len(new) = Len(frames) + 1 \/ Len(new) = MaxCount
         /\ Ago(new, 1) = frame
         /\ \A m \in 2 .. Len(new) :
              m - 1 \in 1 .. Len(frames) /\ Ago(new, m) = Ago(frames, m - 1)
<1> DEFINE given == Append(frames, frame)
           new == Pushed(frame)
<1>1. /\ frames \in Seq(Frames) /\ Len(frames) \in Nat
      /\ Len(frames) <= MaxCount
      /\ MaxCount \in Nat /\ MaxCount >= 1
  BY ConstantsAssumption DEF TypeOK, GhostTypes
<1>2. /\ given \in Seq(Frames) /\ Len(given) = Len(frames) + 1
      /\ \A i \in 1 .. Len(frames) : given[i] = frames[i]
      /\ given[Len(frames) + 1] = frame
  BY <1>1
<1>3. new = IF Len(given) > MaxCount THEN Tail(given) ELSE given
  BY DEF Pushed
<1> HIDE DEF given, new
<1>4. CASE Len(given) > MaxCount
  <2> DEFINE n == Len(frames)
  <2>1. new = Tail(given) /\ n = MaxCount
    BY <1>1, <1>2, <1>3, <1>4
  <2>2. /\ new \in Seq(Frames) /\ Len(new) = n
        /\ \A i \in 1 .. n : new[i] = given[i + 1]
    BY <1>1, <1>2, <1>3, <1>4
  <2>3. Ago(new, 1) = frame
    <3>1. n \in 1 .. n /\ n + 1 - 1 = n
      BY <1>1, <2>1
    <3>2. new[n] = given[n + 1]
      BY <3>1, <2>2
    <3> QED  BY <3>1, <3>2, <2>2, <1>2 DEF Ago
  <2>4. ASSUME NEW m \in 2 .. Len(new)
        PROVE  m - 1 \in 1 .. n /\ Ago(new, m) = Ago(frames, m - 1)
    <3> DEFINE i == n + 1 - m
    <3>1. /\ m - 1 \in 1 .. n
          /\ i \in 1 .. n /\ i + 1 \in 1 .. n
          /\ n + 1 - (m - 1) = i + 1
      BY <1>1, <2>2
    <3>2. new[i] = given[i + 1] /\ given[i + 1] = frames[i + 1]
      BY <3>1, <2>2, <1>2
    <3> QED  BY <3>1, <3>2, <2>2 DEF Ago
  <2> QED  BY <1>1, <2>1, <2>2, <2>3, <2>4 DEF new
<1>5. CASE ~(Len(given) > MaxCount)
  <2> DEFINE n == Len(frames)
  <2>1. new = given /\ n + 1 <= MaxCount
    BY <1>1, <1>2, <1>3, <1>5
  <2>2. /\ new \in Seq(Frames) /\ Len(new) = n + 1
        /\ \A i \in 1 .. n : new[i] = frames[i]
        /\ new[n + 1] = frame
    BY <1>2, <2>1
  <2>3. Ago(new, 1) = frame
    <3>1. Len(new) + 1 - 1 = n + 1
      BY <1>1, <2>2
    <3> QED  BY <3>1, <2>2 DEF Ago
  <2>4. ASSUME NEW m \in 2 .. Len(new)
        PROVE  m - 1 \in 1 .. n /\ Ago(new, m) = Ago(frames, m - 1)
    <3> DEFINE i == n + 2 - m
    <3>1. /\ m - 1 \in 1 .. n /\ i \in 1 .. n
          /\ n + 1 - (m - 1) = i /\ Len(new) + 1 - m = i
      BY <1>1, <2>2
    <3> QED  BY <3>1, <2>2 DEF Ago
  <2> QED  BY <1>1, <2>1, <2>2, <2>3, <2>4 DEF new
<1> QED  BY <1>4, <1>5

(* A count is a number, whatever the snapshot holds. *)
LEMMA CountedType ==
  ASSUME TypeOK, NEW state
  PROVE  Counted(state) \in [Joints -> Nat]
BY DEF TypeOK, DataTypes, Counted

(* The guard counts, reports and forgets the oldest frame. *)
LEMMA CheckPost ==
  ASSUME TypeOK, NEW t \in Threads, Check(t)
  PROVE  /\ TypeOK' /\ At(t, "check") /\ pc'[t] = "idle" /\ loc'[t] = NoCall
         /\ UNCHANGED <<armVars, driver, cache, window, clock, crossed>>
         /\ counts' = Counted(loc[t].state)
         /\ reported' = {j \in Joints : counts'[j] >= MaxCount}
         /\ loc[t].saw \in [Joints -> Torques \cup {"None"}]
         /\ [saw |-> loc[t].saw, sure |-> loc[t].alone] \in Frames
         /\ frames' = Pushed([saw |-> loc[t].saw, sure |-> loc[t].alone])
         /\ \A u \in Threads : u # t => loc'[u] = loc[u] /\ pc'[u] = pc[u]
<1>1. /\ At(t, "check") /\ Return(t)
      /\ UNCHANGED <<armVars, driver, cache, window, clock, crossed>>
      /\ counts' = Counted(loc[t].state)
      /\ reported' = {j \in Joints : counts'[j] >= MaxCount}
  BY DEF Check
<1>2. /\ loc[t].saw \in [Joints -> Torques \cup {"None"}]
      /\ [saw |-> loc[t].saw, sure |-> loc[t].alone] \in Frames
  <2>1. loc[t] \in Locals
    BY DEF TypeOK, ThreadTypes
  <2> QED  BY <2>1 DEF Locals, Frames
<1> DEFINE frame == [saw |-> loc[t].saw, sure |-> loc[t].alone]
<1>3. frames' = Pushed(frame)
  BY DEF Check, Pushed
<1> HIDE DEF frame
<1>4. frames' \in Seq(Frames) /\ Len(frames') <= MaxCount
  <2>1. frame \in Frames
    BY <1>2 DEF frame
  <2>2. frames' \in Seq(Frames) /\ Len(frames') \in 1 .. MaxCount
    BY <2>1, <1>3, PushedFrames
  <2> QED  BY <2>2, ConstantsAssumption
<1>5. /\ ThreadTypes' /\ pc'[t] = "idle" /\ loc'[t] = NoCall
      /\ \A u \in Threads : u # t => loc'[u] = loc[u] /\ pc'[u] = pc[u]
  BY <1>1, ReturnStep
<1>6. TypeOK'
  <2>1. /\ UNCHANGED <<connected, handles, shm>>
        /\ UNCHANGED <<driver, cache, window, clock>>
        /\ UNCHANGED crossed
    BY <1>1 DEF armVars
  <2>2. counts' \in [Joints -> Nat]
    BY <1>1, CountedType
  <2>3. ArmTypes'
    BY <2>1 DEF TypeOK, ArmTypes
  <2>4. DataTypes'
    BY <2>1, <2>2 DEF TypeOK, DataTypes
  <2>5. GhostTypes' /\ DriversHandled'
    BY <1>1, <1>4, <2>1 DEF TypeOK, GhostTypes, DriversHandled
  <2> QED  BY <1>5, <2>3, <2>4, <2>5 DEF TypeOK
<1> QED  BY <1>1, <1>2, <1>3, <1>5, <1>6 DEF frame

(* close() in its three steps. *)
LEMMA ClosePost ==
  ASSUME TypeOK, NEW t \in Threads, Close(t)
  PROVE  /\ TypeOK'
         /\ UNCHANGED <<cache, window, counts, clock, ghosts>>
         /\ \A u \in Threads : u # t => pc'[u] = pc[u]
         /\ pc'[t] \in {"clear", "drop", "connect", "idle"}
         /\ \/ /\ At(t, "close") /\ ~connected' /\ pc'[t] = "clear"
               /\ UNCHANGED <<handles, shm, loc, driver>>
            \/ /\ At(t, "clear") /\ handles' = <<>> /\ pc'[t] = "drop"
               /\ UNCHANGED <<connected, shm>>
               /\ loc' = [u \in Threads |->
                            IF u \in Busy THEN [loc[u] EXCEPT !.cut = TRUE]
                            ELSE loc[u]]
               /\ driver' = [j \in Joints |->
                               [driver[j] EXCEPT !.torq = "None"]]
            \/ /\ At(t, "drop") /\ ~shm'
               /\ UNCHANGED <<connected, handles, driver>>
               /\ pc'[t] \in {"connect", "idle"}
               /\ \A u \in Threads : u # t => loc'[u] = loc[u]
<1>1. UNCHANGED <<cache, window, counts, clock, ghosts>>
  BY DEF Close
<1>2. /\ pc \in [Threads -> Steps] /\ loc \in [Threads -> Locals]
      /\ driver \in [Joints -> Readings]
  BY DEF TypeOK, ThreadTypes, DataTypes
<1>3. /\ "clear" \in Steps \ {"update"} /\ "drop" \in Steps \ {"update"}
      /\ "connect" \in Steps \ {"update"}
  BY DEF Steps
<1>4. CASE At(t, "close")
  <2>1. /\ connected' = FALSE /\ Goto(t, "clear")
        /\ UNCHANGED <<handles, shm, loc>> /\ UNCHANGED driver
    BY <1>4 DEF Close, At
  <2>2. /\ ThreadTypes' /\ pc'[t] = "clear"
        /\ \A u \in Threads : u # t => pc'[u] = pc[u]
    BY <1>3, <2>1, GotoStep
  <2>3. ArmTypes' /\ DataTypes' /\ GhostTypes' /\ DriversHandled'
    BY <1>1, <2>1 DEF TypeOK, ArmTypes, DataTypes, GhostTypes, ghosts,
       DriversHandled
  <2> QED  BY <1>1, <1>4, <2>1, <2>2, <2>3 DEF TypeOK
<1>5. CASE At(t, "clear")
  <2>1. /\ handles' = <<>> /\ Goto(t, "drop")
        /\ UNCHANGED <<connected, shm>>
        /\ loc' = [u \in Threads |->
                     IF u \in Busy THEN [loc[u] EXCEPT !.cut = TRUE] ELSE loc[u]]
        /\ driver' = [j \in Joints |-> [driver[j] EXCEPT !.torq = "None"]]
    BY <1>5 DEF Close, At
  <2>2. /\ pc' \in [Threads -> Steps] /\ pc'[t] = "drop"
        /\ \A u \in Threads : u # t => pc'[u] = pc[u]
    BY <1>2, <1>3, <2>1 DEF Goto
  <2>3. \A u \in Threads : loc'[u] \in Locals /\ loc'[u].i = loc[u].i
    BY <1>2, <2>1 DEF Locals
  <2>4. loc' \in [Threads -> Locals]
    BY <2>1, <2>3
  <2>5. ThreadTypes'
    BY <2>2, <2>3, <2>4 DEF TypeOK, ThreadTypes, At
  <2>6. driver' \in [Joints -> Readings] /\ \A j \in Joints : Missing(driver'[j])
    BY <1>2, <2>1 DEF Readings, Missing
  <2>7. DataTypes' /\ DriversHandled'
    BY <1>1, <2>6 DEF TypeOK, DataTypes, DriversHandled
  <2>8. ArmTypes' /\ GhostTypes'
    BY <1>1, <2>1, ConstantsAssumption DEF TypeOK, ArmTypes, GhostTypes, ghosts
  <2> QED  BY <1>1, <1>5, <2>1, <2>2, <2>5, <2>7, <2>8 DEF TypeOK
<1>6. CASE At(t, "drop")
  <2>1. /\ shm' = FALSE /\ UNCHANGED <<connected, handles>> /\ UNCHANGED driver
        /\ \/ Goto(t, "connect") /\ UNCHANGED loc
           \/ Return(t)
    BY <1>6 DEF Close, At
  <2>2. /\ ThreadTypes' /\ pc'[t] \in {"connect", "idle"}
        /\ \A u \in Threads : u # t => loc'[u] = loc[u] /\ pc'[u] = pc[u]
    <3>1. CASE Goto(t, "connect") /\ UNCHANGED loc
      BY <3>1, <1>3, GotoStep
    <3>2. CASE Return(t)
      BY <3>2, ReturnStep
    <3> QED  BY <2>1, <3>1, <3>2
  <2>3. ArmTypes' /\ DataTypes' /\ GhostTypes' /\ DriversHandled'
    BY <1>1, <2>1 DEF TypeOK, ArmTypes, DataTypes, GhostTypes, ghosts,
       DriversHandled
  <2> QED  BY <1>1, <1>6, <2>1, <2>2, <2>3 DEF TypeOK
<1> QED  BY <1>4, <1>5, <1>6 DEF Close

(* connect() in its steps, and the new segment of reconnect(). *)
LEMMA ConnectPost ==
  ASSUME TypeOK, NEW t \in Threads, Connect(t)
  PROVE  /\ TypeOK' /\ UNCHANGED <<dataVars, ghosts>>
         /\ \A u \in Threads : u # t => loc'[u] = loc[u] /\ pc'[u] = pc[u]
         /\ Len(handles') >= Len(handles) /\ pc[t] \notin Refreshing
         /\ pc'[t] \in {"add", "create", "idle"}
         /\ \/ At(t, "connect") /\ pc'[t] = "add" /\ UNCHANGED shm
            \/ At(t, "add") /\ UNCHANGED <<connected, shm>>
            \/ At(t, "create") /\ shm' /\ UNCHANGED connected
<1>1. /\ UNCHANGED <<dataVars, ghosts>>
      /\ UNCHANGED <<driver, cache, window, counts, clock>>
      /\ UNCHANGED <<frames, reported, crossed>>
  BY DEF Connect, dataVars, ghosts
<1>2. /\ "add" \in Steps \ {"update"} /\ "create" \in Steps \ {"update"}
      /\ "add" \notin Refreshing /\ "connect" \notin Refreshing
      /\ "create" \notin Refreshing
  BY DEF Steps, Refreshing
<1>3. /\ handles \in Seq(Nat) /\ Len(handles) \in Nat
      /\ Len(handles) <= NumJoints
      /\ \A k \in 1 .. Len(handles) : handles[k] = k
      /\ connected \in BOOLEAN /\ shm \in BOOLEAN
  BY DEF TypeOK, ArmTypes
<1>4. CASE /\ At(t, "connect") /\ connected' = TRUE /\ Goto(t, "add")
           /\ UNCHANGED <<handles, shm, loc>>
  <2>1. /\ ThreadTypes' /\ pc'[t] = "add" /\ loc' = loc
        /\ \A u \in Threads : u # t => pc'[u] = pc[u]
    BY <1>2, <1>4, GotoStep
  <2>2. ArmTypes' /\ DataTypes' /\ GhostTypes' /\ DriversHandled'
    BY <1>1, <1>4 DEF TypeOK, ArmTypes, DataTypes, GhostTypes, DriversHandled
  <2> QED  BY <1>1, <1>2, <1>3, <1>4, <2>1, <2>2 DEF TypeOK, At
<1>5. CASE /\ At(t, "add") /\ Len(handles) < NumJoints
           /\ handles' = Append(handles, Len(handles) + 1)
           /\ UNCHANGED <<connected, shm, pc, loc>>
  <2>1. /\ handles' \in Seq(Nat) /\ Len(handles') = Len(handles) + 1
        /\ Len(handles') <= NumJoints
        /\ \A k \in 1 .. Len(handles') : handles'[k] = k
    BY <1>3, <1>5, ConstantsAssumption
  <2>2. ArmTypes'
    BY <1>3, <1>5, <2>1 DEF ArmTypes
  <2>3. DataTypes' /\ GhostTypes' /\ ThreadTypes'
    BY <1>1, <1>5 DEF TypeOK, DataTypes, GhostTypes, ThreadTypes, At
  <2>4. DriversHandled'
    BY <1>1, <1>3, <2>1, ConstantsAssumption DEF TypeOK, DriversHandled, Joints
  <2>5. pc'[t] = "add"
    BY <1>5 DEF At
  <2> QED
    BY <1>1, <1>2, <1>3, <1>5, <2>1, <2>2, <2>3, <2>4, <2>5 DEF TypeOK, At
<1>6. CASE /\ At(t, "add") /\ UNCHANGED <<connected, handles, shm>>
           /\ \/ Goto(t, "create") /\ UNCHANGED loc
              \/ Return(t)
  <2>1. /\ ThreadTypes' /\ pc'[t] \in {"create", "idle"}
        /\ \A u \in Threads : u # t => loc'[u] = loc[u] /\ pc'[u] = pc[u]
    <3>1. CASE Goto(t, "create") /\ UNCHANGED loc
      BY <3>1, <1>2, GotoStep
    <3>2. CASE Return(t)
      BY <3>2, ReturnStep
    <3> QED  BY <1>6, <3>1, <3>2
  <2>2. ArmTypes' /\ DataTypes' /\ GhostTypes' /\ DriversHandled'
    BY <1>1, <1>6 DEF TypeOK, ArmTypes, DataTypes, GhostTypes, DriversHandled
  <2> QED  BY <1>1, <1>2, <1>3, <1>6, <2>1, <2>2 DEF TypeOK, At
<1>7. CASE /\ At(t, "create") /\ shm' = TRUE /\ Return(t)
           /\ UNCHANGED <<connected, handles>>
  <2>1. /\ ThreadTypes' /\ pc'[t] = "idle"
        /\ \A u \in Threads : u # t => loc'[u] = loc[u] /\ pc'[u] = pc[u]
    BY <1>7, ReturnStep
  <2>2. ArmTypes' /\ DataTypes' /\ GhostTypes' /\ DriversHandled'
    BY <1>1, <1>7 DEF TypeOK, ArmTypes, DataTypes, GhostTypes, DriversHandled
  <2> QED  BY <1>1, <1>2, <1>3, <1>7, <2>1, <2>2 DEF TypeOK, At
<1> QED  BY <1>4, <1>5, <1>6, <1>7 DEF Connect

(* A refresh begins: it knows how recent the readings of the drivers are,  *)
(* and whether it is alone; a cycle that is under way no longer is.        *)
LEMMA RefreshPost ==
  ASSUME TypeOK, NEW t \in Threads, At(t, "idle"), Refresh(t), pc' # pc \/ loc' # loc
  PROVE  /\ ThreadTypes' /\ connected /\ pc'[t] = "read"
         /\ loc'[t].i = 1 /\ loc'[t].new = NoReading
         /\ loc'[t].cut = FALSE
         /\ loc'[t].began = [j \in Joints |-> IF Missing(driver[j]) THEN 0
                                              ELSE driver[j].number]
         /\ loc'[t].saw = [j \in Joints |-> "None"]
         /\ loc'[t].first = (Busy = {})
         /\ loc'[t].alone = (Busy = {} \/ t # Loop)
         /\ \A u \in Threads : u # t =>
              /\ pc'[u] = pc[u]
              /\ loc'[u] = IF u = Loop /\ u \in Busy
                           THEN [loc[u] EXCEPT !.alone = FALSE] ELSE loc[u]
<1> DEFINE began == [j \in Joints |-> IF Missing(driver[j]) THEN 0
                                     ELSE driver[j].number]
           l == [NoCall EXCEPT !.began = began, !.first = Busy = {},
                               !.alone = Busy = {} \/ t # Loop]
           other(u) == IF u = Loop /\ u \in Busy
                       THEN [loc[u] EXCEPT !.alone = FALSE] ELSE loc[u]
<1>1. /\ connected /\ Goto(t, "read")
      /\ loc' = [u \in Threads |-> IF u = t THEN l ELSE other(u)]
  BY DEF Refresh
<1>2. /\ pc \in [Threads -> Steps] /\ loc \in [Threads -> Locals]
      /\ driver \in [Joints -> Readings]
  BY DEF TypeOK, ThreadTypes, DataTypes
<1>3. began \in [Joints -> Nat]
  BY <1>2 DEF Readings
<1> HIDE DEF began
<1>4. /\ l \in Locals /\ l.i = 1 /\ l.new = NoReading /\ l.cut = FALSE
      /\ l.began = began /\ l.saw = [j \in Joints |-> "None"]
      /\ l.first = (Busy = {}) /\ l.alone = (Busy = {} \/ t # Loop)
  <2>1. NoCall \in Locals
    BY NoCallType
  <2>2. l \in Locals
    <3> HIDE DEF NoCall
    <3> QED  BY <2>1, <1>3 DEF Locals
  <2> QED  BY <2>2 DEF NoCall
<1> HIDE DEF l
<1>5. \A u \in Threads : other(u) \in Locals /\ other(u).i = loc[u].i
  BY <1>2 DEF Locals
<1>6. /\ loc' \in [Threads -> Locals] /\ loc'[t] = l
      /\ \A u \in Threads : u # t => loc'[u] = other(u)
  BY <1>1, <1>4, <1>5
<1>7. /\ pc' \in [Threads -> Steps] /\ pc'[t] = "read"
      /\ \A u \in Threads : u # t => pc'[u] = pc[u]
  <2>1. "read" \in Steps
    BY DEF Steps, Refreshing
  <2> QED  BY <1>1, <1>2, <2>1 DEF Goto
<1>8. \A u \in Threads : At(u, "update")' => loc'[u].i \in Joints
  BY <1>5, <1>6, <1>7 DEF TypeOK, ThreadTypes, At
<1>9. ThreadTypes'
  BY <1>6, <1>7, <1>8 DEF ThreadTypes
<1> QED
  BY <1>1, <1>4, <1>6, <1>7, <1>9 DEF began

(* The four kinds of call: a refresh that begins, one that raises, a       *)
(* reset, and the first step of the others.                                *)
LEMMA CallPost ==
  ASSUME TypeOK, NEW t \in Threads, Call(t)
  PROVE  /\ TypeOK' /\ At(t, "idle")
         /\ UNCHANGED <<armVars, driver, cache, window, clock, crossed>>
         /\ \/ /\ UNCHANGED <<counts, frames, reported>>
               /\ Refresh(t) /\ (pc' # pc \/ loc' # loc)
            \/ /\ UNCHANGED <<counts, frames, reported>>
               /\ UNCHANGED <<pc, loc>>
            \/ /\ t # Loop /\ UNCHANGED <<pc, loc>>
               /\ counts' = NoCounts /\ frames' = <<>> /\ reported' = {}
            \/ /\ t # Loop /\ UNCHANGED <<counts, frames, reported>>
               /\ pc'[t] \in {"close", "connect"}
               /\ \A u \in Threads : u # t => loc'[u] = loc[u] /\ pc'[u] = pc[u]
<1>1. At(t, "idle") /\ UNCHANGED armVars
  BY DEF Call
<1>2. UNCHANGED <<connected, handles, shm>>
  BY <1>1 DEF armVars
<1>3. ArmTypes'
  BY <1>2 DEF TypeOK, ArmTypes
<1>4. ASSUME UNCHANGED <<dataVars, frames, reported, crossed>>
      PROVE  /\ DataTypes' /\ GhostTypes' /\ DriversHandled'
             /\ UNCHANGED <<driver, cache, window, clock, crossed>>
             /\ UNCHANGED <<counts, frames, reported>>
  BY <1>2, <1>4 DEF TypeOK, DataTypes, GhostTypes, DriversHandled, dataVars
<1>5. ASSUME UNCHANGED <<pc, loc>>
      PROVE  ThreadTypes'
  BY <1>5 DEF TypeOK, ThreadTypes, At
<1>6. CASE Refresh(t) /\ UNCHANGED <<dataVars, frames, reported, crossed>>
  <2>1. CASE UNCHANGED <<pc, loc>>
    BY <1>1, <1>3, <1>4, <1>5, <1>6, <2>1 DEF TypeOK
  <2>2. CASE pc' # pc \/ loc' # loc
    <3>1. ThreadTypes'
      BY <1>1, <1>6, <2>2, RefreshPost
    <3> QED  BY <1>1, <1>3, <1>4, <1>6, <2>2, <3>1 DEF TypeOK
  <2> QED  BY <2>1, <2>2
<1>7. CASE t # Loop /\ Reset
  <2>1. /\ counts' = NoCounts /\ frames' = <<>> /\ reported' = {}
        /\ UNCHANGED <<driver, cache, window, clock, crossed>>
        /\ UNCHANGED <<pc, loc>>
    BY <1>7 DEF Reset
  <2>2. DataTypes' /\ DriversHandled'
    <3>1. counts' \in [Joints -> Nat]
      BY <2>1 DEF NoCounts
    <3> QED  BY <1>2, <2>1, <3>1 DEF TypeOK, DataTypes, DriversHandled
  <2>3. GhostTypes'
    BY <2>1, ConstantsAssumption DEF TypeOK, GhostTypes
  <2>4. ThreadTypes'
    BY <2>1, <1>5
  <2> QED  BY <1>1, <1>3, <1>7, <2>1, <2>2, <2>3, <2>4 DEF TypeOK
<1>8. ASSUME t # Loop, NEW op \in Ops, loc' = [loc EXCEPT ![t].op = op],
             NEW step \in {"close", "connect"}, Goto(t, step),
             UNCHANGED <<dataVars, frames, reported, crossed>>
      PROVE  /\ TypeOK'
             /\ UNCHANGED <<driver, cache, window, clock, crossed>>
             /\ UNCHANGED <<counts, frames, reported>>
             /\ pc'[t] \in {"close", "connect"}
             /\ \A u \in Threads : u # t => loc'[u] = loc[u] /\ pc'[u] = pc[u]
  <2> DEFINE l == [loc[t] EXCEPT !.op = op]
  <2>1. loc[t] \in Locals /\ loc \in [Threads -> Locals]
    BY DEF TypeOK, ThreadTypes
  <2>2. l \in Locals
    BY <2>1 DEF Locals
  <2>3. loc' = [loc EXCEPT ![t] = l]
    BY <1>8, <2>1
  <2> HIDE DEF l
  <2>4. step \in Steps /\ step # "update"
    BY DEF Steps
  <2>5. /\ ThreadTypes' /\ pc'[t] = step
        /\ \A u \in Threads : u # t => loc'[u] = loc[u] /\ pc'[u] = pc[u]
    BY <1>8, <2>2, <2>3, <2>4, LocalStep
  <2> QED  BY <1>3, <1>4, <1>8, <2>5 DEF TypeOK
<1>9. CASE /\ t # Loop /\ connected
           /\ \E op \in {"close", "reconnect"} : loc' = [loc EXCEPT ![t].op = op]
           /\ Goto(t, "close") /\ UNCHANGED <<dataVars, frames, reported, crossed>>
  BY <1>1, <1>8, <1>9 DEF Ops
<1>10. CASE /\ t # Loop /\ ~connected
            /\ loc' = [loc EXCEPT ![t].op = "connect"]
            /\ Goto(t, "connect")
            /\ UNCHANGED <<dataVars, frames, reported, crossed>>
  BY <1>1, <1>8, <1>10 DEF Ops
<1> QED  BY <1>6, <1>7, <1>9, <1>10 DEF Call

(* An answer of a motor is more recent than the one before it. *)
LEMMA AnswerPost ==
  ASSUME TypeOK, NEW j \in Joints, Answer(j)
  PROVE  /\ TypeOK'
         /\ UNCHANGED <<armVars, cache, window, counts, clock, pc, loc, ghosts>>
         /\ \A k \in Joints :
              /\ driver'[k].number >= driver[k].number
              /\ Missing(driver'[k]) => Missing(driver[k])
<1>1. UNCHANGED <<armVars, cache, window, counts, clock, pc, loc, ghosts>>
  BY DEF Answer
<1>2. driver \in [Joints -> Readings]
  BY DEF TypeOK, DataTypes
<1>3. PICK torq \in Torques :
        driver' = [driver EXCEPT ![j] = [number |-> @.number + 1, torq |-> torq]]
  BY DEF Answer
<1>4. /\ driver[j].number \in Nat
      /\ [number |-> driver[j].number + 1, torq |-> torq] \in Readings
  BY <1>2 DEF Readings
<1>5. driver' \in [Joints -> Readings]
  BY <1>2, <1>3, <1>4
<1>6. /\ driver'[j].number = driver[j].number + 1 /\ ~Missing(driver'[j])
      /\ \A k \in Joints : k # j => driver'[k] = driver[k]
  BY <1>2, <1>3 DEF Missing, Torques
<1>7. \A k \in Joints :
        /\ driver'[k].number >= driver[k].number
        /\ Missing(driver'[k]) => Missing(driver[k])
  <2>1. \A k \in Joints : driver[k].number \in Nat
    BY <1>2 DEF Readings
  <2> QED  BY <1>6, <2>1
<1>8. j <= Len(handles)
  <2>1. PICK k \in 1 .. Len(handles) : handles[k] = j
    BY DEF Answer
  <2>2. k = j /\ Len(handles) \in Nat
    BY <2>1 DEF TypeOK, ArmTypes
  <2> QED  BY <2>1, <2>2
<1>9. TypeOK'
  <2>1. /\ UNCHANGED <<connected, handles, shm>>
        /\ UNCHANGED <<cache, window, counts, clock>> /\ UNCHANGED <<pc, loc>>
        /\ UNCHANGED <<frames, reported, crossed>>
    BY <1>1 DEF armVars, ghosts
  <2>2. ArmTypes' /\ ThreadTypes' /\ GhostTypes'
    BY <2>1 DEF TypeOK, ArmTypes, ThreadTypes, At, GhostTypes
  <2>3. DataTypes'
    BY <2>1, <1>5 DEF TypeOK, DataTypes
  <2>4. DriversHandled'
    BY <2>1, <1>6, <1>8 DEF TypeOK, DriversHandled
  <2> QED  BY <2>2, <2>3, <2>4 DEF TypeOK
<1> QED  BY <1>1, <1>7, <1>9

(* An arm that was just made. *)
LEMMA InitTypeOK == Init => TypeOK
<1> SUFFICES ASSUME Init PROVE TypeOK
  OBVIOUS
<1>1. ArmTypes
  <2>1. CASE connected
    <3>1. handles = [j \in 1 .. NumJoints |-> j]
      BY <2>1 DEF Init, Joints
    <3>2. handles \in Seq(Nat) /\ Len(handles) = NumJoints
      BY <3>1, ConstantsAssumption
    <3> QED  BY <3>1, <3>2, ConstantsAssumption DEF Init, ArmTypes
  <2>2. CASE ~connected
    BY <2>2, ConstantsAssumption DEF Init, ArmTypes
  <2> QED  BY <2>1, <2>2
<1>2. DataTypes
  BY NoCallType, ConstantsAssumption DEF Init, DataTypes, NoCounts
<1>3. ThreadTypes
  BY NoCallType DEF Init, ThreadTypes, Steps, At
<1>4. GhostTypes
  <2>1. frames = <<>> /\ reported = {} /\ crossed = FALSE
    BY DEF Init
  <2>2. frames \in Seq(Frames) /\ Len(frames) <= MaxCount
    BY <2>1, ConstantsAssumption
  <2>3. crossed \in BOOLEAN
    BY <2>1
  <2> QED  BY <2>1, <2>2, <2>3 DEF GhostTypes
<1>5. DriversHandled
  BY DEF Init, DriversHandled, Missing, NoReading
<1> QED  BY <1>1, <1>2, <1>3, <1>4, <1>5 DEF TypeOK

(* TypeOK is inductive. *)
LEMMA NextTypeOK == TypeOK /\ [Next]_vars => TypeOK'
<1> SUFFICES ASSUME TypeOK, [Next]_vars PROVE TypeOK'
  OBVIOUS
<1>1. ASSUME NEW t \in Threads,
             \/ Call(t) \/ Read(t) \/ ReadRaises(t) \/ Update(t) \/ Stamp(t)
             \/ Tick(t) \/ Snapshot(t) \/ Publish(t) \/ Write(t) \/ Check(t)
             \/ Close(t) \/ Connect(t)
      PROVE  TypeOK'
  BY <1>1, CallPost, ReadPost, RaisesPost, UpdatePost, StampPost, TickPost,
     SnapshotPost,
     PublishPost, WritePost, CheckPost, ClosePost, ConnectPost
<1>2. ASSUME NEW j \in Joints, Answer(j)
      PROVE  TypeOK'
  BY <1>2, AnswerPost
<1>3. CASE UNCHANGED vars
  <2>1. UNCHANGED <<armVars, dataVars, ghosts>> /\ UNCHANGED <<pc, loc>>
    BY <1>3 DEF vars
  <2>2. ThreadTypes'
    BY <2>1 DEF TypeOK, ThreadTypes, At
  <2> QED  BY <2>1, <2>2, DataKept
<1> QED  BY <1>1, <1>2, <1>3 DEF Next

(* The state stays well typed, the handles are those of the first joints,  *)
(* and a driver that holds a reading has its handle (session.py).          *)
THEOREM FeedbackTypes == Spec => []TypeOK
BY InitTypeOK, NextTypeOK, PTL DEF Spec

-----------------------------------------------------------------------------
(***************************************************************************)
(* Fresh: the readings of a refresh are no older than its beginning.       *)
(***************************************************************************)
(* A refresh that began alone, and lost no handle, under way. *)
Watched(t) == t \in Busy /\ loc[t].first /\ ~loc[t].cut

(* The drivers still hold what they held when it began, or more recent     *)
(* readings.                                                               *)
DriversFresh(t) ==
  \A j \in Joints :
    /\ driver[j].number >= loc[t].began[j]
    /\ loc[t].began[j] > 0 => ~Missing(driver[j])

(* So do the readings on their way into the cache, of whichever thread:    *)
(* every one of them began later.                                          *)
UpdatesFresh(t) ==
  \A u \in Threads :
    At(u, "update") => loc[u].new.number >= loc[t].began[loc[u].i]

(* So does the cache, for the joints that were read.                       *)
CacheFresh(t) ==
  /\ pc[t] \in {"read", "update"} =>
       \A j \in Joints : j < loc[t].i => cache[j].number >= loc[t].began[j]
  /\ pc[t] \in {"tick", "snapshot"} =>
       \A j \in Joints : cache[j].number >= loc[t].began[j]
  /\ At(t, "publish") =>
       \A j \in Joints : loc[t].state[j].number >= loc[t].began[j]

FreshPhase(t) ==
  Watched(t) => DriversFresh(t) /\ UpdatesFresh(t) /\ CacheFresh(t)

FreshInv == \A t \in Threads : FreshPhase(t)

(* The types that the comparisons need. *)
LEMMA NumberTypes ==
  ASSUME TypeOK
  PROVE  /\ \A j \in Joints : driver[j].number \in Nat /\ cache[j].number \in Nat
         /\ \A t \in Threads :
              /\ loc[t].i \in Nat /\ loc[t].new.number \in Nat
              /\ loc[t].first \in BOOLEAN /\ loc[t].cut \in BOOLEAN
              /\ At(t, "update") => loc[t].i \in Joints
              /\ \A j \in Joints :
                   loc[t].began[j] \in Nat /\ loc[t].state[j].number \in Nat
         /\ Len(handles) \in Nat
         /\ Joints \subseteq Nat
<1>1. \A r \in Readings : r.number \in Nat
  BY DEF Readings
<1>2. driver \in [Joints -> Readings] /\ cache \in [Joints -> Readings]
  BY DEF TypeOK, DataTypes
<1>3. ASSUME NEW t \in Threads
      PROVE  /\ loc[t].i \in Nat /\ loc[t].new \in Readings
             /\ loc[t].first \in BOOLEAN /\ loc[t].cut \in BOOLEAN
             /\ loc[t].began \in [Joints -> Nat]
             /\ loc[t].state \in [Joints -> Readings]
             /\ At(t, "update") => loc[t].i \in Joints
  <2>1. loc[t] \in Locals
    BY DEF TypeOK, ThreadTypes
  <2> QED  BY <2>1 DEF Locals, TypeOK, ThreadTypes
<1>4. Len(handles) \in Nat
  BY DEF TypeOK, ArmTypes
<1>5. Joints \subseteq Nat
  BY ConstantsAssumption DEF Joints
<1> QED  BY <1>1, <1>2, <1>3, <1>4, <1>5

(* A step that adds no reading of its own and moves t, if at all, to a     *)
(* step of which nothing is claimed.                                       *)
LEMMA FreshKept ==
  ASSUME TypeOK, NEW t \in Threads, FreshPhase(t), Watched(t), UNCHANGED cache,
         \A j \in Joints : /\ driver'[j].number >= driver[j].number
                           /\ Missing(driver'[j]) => Missing(driver[j]),
         loc'[t].began = loc[t].began, loc'[t].i = loc[t].i,
         loc'[t].state = loc[t].state,
         pc'[t] = pc[t] \/ pc'[t] \notin {"read", "update", "tick", "snapshot",
                                          "publish"},
         \A u \in Threads :
           At(u, "update")' => /\ At(u, "update")
                               /\ loc'[u].new = loc[u].new /\ loc'[u].i = loc[u].i,
         TypeOK'
  PROVE  FreshPhase(t)'
<1>1. DriversFresh(t) /\ UpdatesFresh(t) /\ CacheFresh(t)
  BY DEF FreshPhase
<1>2. DriversFresh(t)'
  <2>1. \A j \in Joints : /\ driver[j].number \in Nat /\ driver'[j].number \in Nat
                          /\ loc[t].began[j] \in Nat
    BY NumberTypes DEF TypeOK, DataTypes, Readings
  <2> QED  BY <1>1, <2>1 DEF DriversFresh
<1>3. UpdatesFresh(t)'
  BY <1>1 DEF UpdatesFresh
<1>4. CacheFresh(t)'
  BY <1>1 DEF CacheFresh, At
<1> QED  BY <1>2, <1>3, <1>4 DEF FreshPhase

(* A refresh that begins knows what the drivers hold. *)
LEMMA RefreshFresh ==
  ASSUME TypeOK, FreshInv, NEW a \in Threads, Call(a), TypeOK', NEW t \in Threads,
         Watched(t)'
  PROVE  FreshPhase(t)'
<1>1. /\ At(a, "idle")
      /\ UNCHANGED <<armVars, driver, cache, window, clock, crossed>>
  BY CallPost
<1>2. CASE Refresh(a) /\ (pc' # pc \/ loc' # loc)
  <2>1. /\ pc'[a] = "read" /\ loc'[a].i = 1
        /\ loc'[a].began = [j \in Joints |-> IF Missing(driver[j]) THEN 0
                                             ELSE driver[j].number]
        /\ loc'[a].first = (Busy = {})
        /\ \A u \in Threads : u # a =>
             /\ pc'[u] = pc[u]
             /\ loc'[u] = IF u = Loop /\ u \in Busy
                          THEN [loc[u] EXCEPT !.alone = FALSE] ELSE loc[u]
    BY <1>1, <1>2, RefreshPost
  <2>2. \A u \in Threads : u # a =>
          /\ pc'[u] = pc[u] /\ loc'[u].i = loc[u].i /\ loc'[u].new = loc[u].new
          /\ loc'[u].began = loc[u].began /\ loc'[u].state = loc[u].state
          /\ loc'[u].first = loc[u].first /\ loc'[u].cut = loc[u].cut
    <3> SUFFICES ASSUME NEW u \in Threads, u # a
                 PROVE  /\ pc'[u] = pc[u] /\ loc'[u].i = loc[u].i
                        /\ loc'[u].new = loc[u].new
                        /\ loc'[u].began = loc[u].began
                        /\ loc'[u].state = loc[u].state
                        /\ loc'[u].first = loc[u].first
                        /\ loc'[u].cut = loc[u].cut
      OBVIOUS
    <3>1. loc[u] \in Locals
      BY DEF TypeOK, ThreadTypes
    <3>2. /\ pc'[u] = pc[u]
          /\ loc'[u] = loc[u] \/ loc'[u] = [loc[u] EXCEPT !.alone = FALSE]
      BY <2>1
    <3> QED  BY <3>1, <3>2 DEF Locals
  <2>3. \A u \in Threads : At(u, "update")' => u # a /\ At(u, "update")
    BY <2>1, <2>2 DEF At
  <2>4. CASE t = a
    <3>1. Busy = {}
      BY <2>1, <2>4 DEF Watched
    <3>2. \A u \in Threads : ~At(u, "update")'
      BY <3>1, <2>3 DEF Busy, At, Refreshing
    <3>3. DriversFresh(t)'
      <4>1. driver' = driver
        BY <1>1
      <4>2. \A j \in Joints : driver[j].number \in Nat
        BY NumberTypes
      <4> QED  BY <2>1, <2>4, <4>1, <4>2 DEF DriversFresh
    <3>4. CacheFresh(t)'
      BY <2>1, <2>4, ConstantsAssumption DEF CacheFresh, At, Joints
    <3> QED  BY <3>2, <3>3, <3>4 DEF FreshPhase, UpdatesFresh
  <2>5. CASE t # a
    <3>1. Watched(t)
      BY <2>2, <2>5 DEF Watched, Busy
    <3>2. UNCHANGED driver /\ UNCHANGED cache
      BY <1>1
    <3>3. \A j \in Joints : driver[j].number \in Nat
      BY NumberTypes
    <3> QED  BY <2>2, <2>3, <2>5, <3>1, <3>2, <3>3, FreshKept DEF FreshInv
  <2> QED  BY <2>4, <2>5
<1>3. CASE UNCHANGED <<pc, loc>>
  BY <1>1, <1>3 DEF FreshInv, FreshPhase, Watched, Busy, DriversFresh,
     UpdatesFresh, CacheFresh, At
<1>4. CASE /\ pc'[a] \in {"close", "connect"}
           /\ \A u \in Threads : u # a => loc'[u] = loc[u] /\ pc'[u] = pc[u]
  <2>1. t # a
    BY <1>4 DEF Watched, Busy, Refreshing
  <2>2. Watched(t)
    BY <1>4, <2>1 DEF Watched, Busy
  <2>3. UNCHANGED driver /\ UNCHANGED cache
    BY <1>1
  <2>4. \A j \in Joints : driver[j].number \in Nat
    BY NumberTypes
  <2>5. \A u \in Threads : At(u, "update")' =>
          At(u, "update") /\ loc'[u].new = loc[u].new /\ loc'[u].i = loc[u].i
    BY <1>4 DEF At
  <2> QED  BY <1>4, <2>1, <2>2, <2>3, <2>4, <2>5, FreshKept DEF FreshInv
<1> QED  BY <1>2, <1>3, <1>4, CallPost

(* What is read is at least as recent as what was held. *)
LEMMA ReadFresh ==
  ASSUME TypeOK, FreshInv, NEW a \in Threads, Read(a), NEW t \in Threads,
         Watched(t)'
  PROVE  FreshPhase(t)'
<1> DEFINE i == loc[a].i
<1>1. /\ TypeOK' /\ At(a, "read")
      /\ UNCHANGED <<armVars, dataVars, ghosts>>
      /\ i \in Joints
      /\ loc'[a].first = loc[a].first /\ loc'[a].cut = loc[a].cut
      /\ loc'[a].began = loc[a].began
      /\ \A u \in Threads : u # a => loc'[u] = loc[u] /\ pc'[u] = pc[u]
      /\ \/ /\ Missing(driver[i]) /\ pc'[a] = "read"
            /\ loc'[a].i = i + 1
         \/ /\ ~Missing(driver[i]) /\ pc'[a] = "update"
            /\ loc'[a].i = i
            /\ loc'[a].new = FilterJoint(driver[i])
  BY ReadPost
<1>2. UNCHANGED driver /\ UNCHANGED cache
  BY <1>1 DEF dataVars
<1>3. Watched(t)
  BY <1>1 DEF Watched, Busy, At, Refreshing
<1>4. DriversFresh(t) /\ UpdatesFresh(t) /\ CacheFresh(t)
  BY <1>3 DEF FreshInv, FreshPhase
<1>5. loc'[t].began = loc[t].began
  BY <1>1
<1>6. DriversFresh(t)'
  BY <1>2, <1>4, <1>5 DEF DriversFresh
<1>7. FilterJoint(driver[i]).number = driver[i].number
  <2>1. driver[i] \in Readings
    BY <1>1 DEF TypeOK, DataTypes
  <2> QED  BY <2>1 DEF FilterJoint, Readings
<1>8. UpdatesFresh(t)'
  <2> SUFFICES ASSUME NEW u \in Threads, At(u, "update")'
               PROVE  loc'[u].new.number >= loc'[t].began[loc'[u].i]
    BY DEF UpdatesFresh
  <2>1. CASE u = a
    <3>1. loc'[a].i = i /\ loc'[a].new.number = driver[i].number
      BY <1>1, <1>7, <2>1 DEF At
    <3> QED  BY <1>1, <1>4, <1>5, <2>1, <3>1 DEF DriversFresh
  <2>2. CASE u # a
    BY <1>1, <1>4, <1>5, <2>2 DEF UpdatesFresh, At
  <2> QED  BY <2>1, <2>2
<1>9. CacheFresh(t)'
  <2>1. CASE t # a
    BY <1>1, <1>2, <1>4, <2>1 DEF CacheFresh, At
  <2>2. CASE t = a
    <3>1. /\ pc'[t] \in {"read", "update"}
          /\ \A j \in Joints : j < i => cache[j].number >= loc[t].began[j]
      BY <1>1, <1>4, <2>2 DEF CacheFresh, At
    <3>2. CASE loc'[a].i = i
      BY <1>2, <1>5, <2>2, <3>1, <3>2 DEF CacheFresh, At
    <3>3. CASE Missing(driver[i]) /\ loc'[a].i = i + 1
      <4>1. /\ loc[t].began[i] \in Nat /\ cache[i].number \in Nat
            /\ Joints \subseteq Nat
        BY <1>1, NumberTypes
      <4>2. cache[i].number >= loc[t].began[i]
        <5>1. i \in Joints /\ Missing(driver[i])
          BY <1>1, <3>3
        <5> HIDE DEF i
        <5>2. ~(loc[t].began[i] > 0)
          BY <1>4, <5>1 DEF DriversFresh
        <5> QED  BY <4>1, <5>2
      <4>3. \A j \in Joints : j < i + 1 => j < i \/ j = i
        <5>1. i \in Nat /\ \A j \in Joints : j \in Nat
          BY <1>1, <4>1
        <5> HIDE DEF i
        <5> QED  BY <5>1
      <4>4. \A j \in Joints : j < loc'[t].i => cache'[j].number >= loc'[t].began[j]
        <5>1. UNCHANGED cache /\ loc'[t].i = i + 1
          BY <1>2, <2>2, <3>3
        <5> HIDE DEF i
        <5> QED  BY <5>1, <1>5, <3>1, <4>2, <4>3
      <4> QED  BY <3>1, <4>4 DEF CacheFresh, At
    <3> QED  BY <1>1, <3>2, <3>3
  <2> QED  BY <2>1, <2>2
<1> QED  BY <1>6, <1>8, <1>9 DEF FreshPhase

(* What is put into the cache is, too, whichever refresh puts it there. *)
LEMMA UpdateFresh ==
  ASSUME TypeOK, FreshInv, NEW a \in Threads, Update(a), NEW t \in Threads,
         Watched(t)'
  PROVE  FreshPhase(t)'
<1> DEFINE i == loc[a].i
<1>1. /\ TypeOK' /\ At(a, "update") /\ pc'[a] = "read"
      /\ UNCHANGED <<armVars, driver, window, counts, clock, ghosts>>
      /\ i \in Joints
      /\ cache' = [cache EXCEPT ![i] = loc[a].new]
      /\ loc'[a].i = i + 1
      /\ loc'[a].first = loc[a].first /\ loc'[a].cut = loc[a].cut
      /\ loc'[a].began = loc[a].began
      /\ \A u \in Threads : u # a => loc'[u] = loc[u] /\ pc'[u] = pc[u]
  BY UpdatePost
<1>2. UNCHANGED driver
  BY <1>1
<1>3. Watched(t)
  BY <1>1 DEF Watched, Busy, At, Refreshing
<1>4. DriversFresh(t) /\ UpdatesFresh(t) /\ CacheFresh(t)
  BY <1>3 DEF FreshInv, FreshPhase
<1>5. loc'[t].began = loc[t].began
  BY <1>1
<1>6. DriversFresh(t)'
  BY <1>2, <1>4, <1>5 DEF DriversFresh
<1>7. UpdatesFresh(t)'
  BY <1>1, <1>4, <1>5 DEF UpdatesFresh, At
<1> HIDE DEF i
<1>8. /\ cache'[i] = loc[a].new
      /\ \A j \in Joints : j # i => cache'[j] = cache[j]
  BY <1>1 DEF TypeOK, DataTypes
<1>9. cache'[i].number >= loc[t].began[i]
  BY <1>1, <1>4, <1>8 DEF UpdatesFresh, i
<1>10. CacheFresh(t)'
  <2>1. CASE t # a
    <3>1. pc'[t] = pc[t] /\ loc'[t] = loc[t]
      BY <1>1, <2>1
    <3> QED  BY <1>4, <1>8, <1>9, <3>1 DEF CacheFresh, At
  <2>2. CASE t = a
    <3>1. \A j \in Joints : j < i => cache[j].number >= loc[t].began[j]
      BY <1>1, <1>4, <2>2 DEF CacheFresh, At, i
    <3>2. i \in Nat /\ \A j \in Joints : j \in Nat
      BY <1>1, NumberTypes
    <3>3. \A j \in Joints : j < i + 1 => cache'[j].number >= loc[t].began[j]
      BY <1>8, <1>9, <3>1, <3>2
    <3> QED  BY <1>1, <1>5, <2>2, <3>3 DEF CacheFresh, At
  <2> QED  BY <2>1, <2>2
<1> QED  BY <1>6, <1>7, <1>10 DEF FreshPhase

(* After the loop the whole cache is. *)
LEMMA StampFresh ==
  ASSUME TypeOK, FreshInv, NEW a \in Threads, Stamp(a), NEW t \in Threads,
         Watched(t)'
  PROVE  FreshPhase(t)'
<1>1. /\ TypeOK' /\ At(a, "read") /\ pc'[a] = "tick"
      /\ loc[a].i > Len(handles)
      /\ UNCHANGED <<armVars, driver, cache, window, counts, frames, reported>>
      /\ loc'[a].i = loc[a].i
      /\ loc'[a].first = loc[a].first /\ loc'[a].cut = loc[a].cut
      /\ loc'[a].began = loc[a].began
      /\ \A u \in Threads : u # a => loc'[u] = loc[u] /\ pc'[u] = pc[u]
  BY StampPost
<1>2. UNCHANGED driver /\ UNCHANGED cache
  BY <1>1
<1>3. Watched(t)
  BY <1>1 DEF Watched, Busy, At, Refreshing
<1>4. DriversFresh(t) /\ UpdatesFresh(t) /\ CacheFresh(t)
  BY <1>3 DEF FreshInv, FreshPhase
<1>5. loc'[t].began = loc[t].began
  BY <1>1
<1>6. DriversFresh(t)'
  BY <1>2, <1>4, <1>5 DEF DriversFresh
<1>7. UpdatesFresh(t)'
  BY <1>1, <1>4, <1>5 DEF UpdatesFresh, At
<1>8. CacheFresh(t)'
  <2>1. CASE t # a
    BY <1>1, <1>2, <1>4, <2>1 DEF CacheFresh, At
  <2>2. CASE t = a
    <3>1. ASSUME NEW j \in Joints
          PROVE  cache[j].number >= loc[t].began[j]
      <4>1. /\ loc[t].began[j] \in Nat /\ cache[j].number \in Nat
            /\ loc[t].i \in Nat /\ j \in Nat /\ Len(handles) \in Nat
        BY NumberTypes
      <4>2. CASE loc[t].began[j] > 0
        <5>1. ~Missing(driver[j])
          BY <1>4, <4>2 DEF DriversFresh
        <5>2. j <= Len(handles)
          BY <5>1 DEF TypeOK, DriversHandled
        <5>3. j < loc[t].i
          BY <1>1, <2>2, <4>1, <5>2
        <5> QED  BY <1>1, <1>4, <2>2, <5>3 DEF CacheFresh, At
      <4>3. CASE ~(loc[t].began[j] > 0)
        BY <4>1, <4>3
      <4> QED  BY <4>2, <4>3
    <3> QED  BY <1>1, <1>2, <1>5, <2>2, <3>1 DEF CacheFresh, At
  <2> QED  BY <2>1, <2>2
<1> QED  BY <1>6, <1>7, <1>8 DEF FreshPhase

(* From the stamp to the snapshot the cache is what counts. *)
LEMMA TickFresh ==
  ASSUME TypeOK, FreshInv, NEW a \in Threads, Tick(a) \/ Snapshot(a),
         NEW t \in Threads, Watched(t)'
  PROVE  FreshPhase(t)'
<1>1. /\ UNCHANGED driver /\ UNCHANGED cache
      /\ loc'[a].first = loc[a].first /\ loc'[a].cut = loc[a].cut
      /\ loc'[a].began = loc[a].began
      /\ \A u \in Threads : u # a => loc'[u] = loc[u] /\ pc'[u] = pc[u]
      /\ \/ At(a, "tick") /\ pc'[a] = "snapshot"
         \/ /\ At(a, "snapshot") /\ pc'[a] = "publish"
            /\ loc'[a].state = cache
  <2>1. CASE Tick(a)
    BY <2>1, TickPost
  <2>2. CASE Snapshot(a)
    BY <2>2, SnapshotPost DEF dataVars
  <2> QED  BY <2>1, <2>2
<1>3. Watched(t)
  BY <1>1 DEF Watched, Busy, At, Refreshing
<1>4. DriversFresh(t) /\ UpdatesFresh(t) /\ CacheFresh(t)
  BY <1>3 DEF FreshInv, FreshPhase
<1>5. loc'[t].began = loc[t].began
  BY <1>1
<1>6. DriversFresh(t)'
  BY <1>1, <1>4, <1>5 DEF DriversFresh
<1>7. UpdatesFresh(t)'
  BY <1>1, <1>4, <1>5 DEF UpdatesFresh, At
<1>8. CacheFresh(t)'
  <2>1. CASE t # a
    BY <1>1, <1>4, <2>1 DEF CacheFresh, At
  <2>2. CASE t = a
    BY <1>1, <1>4, <1>5, <2>2 DEF CacheFresh, At
  <2> QED  BY <2>1, <2>2
<1> QED  BY <1>6, <1>7, <1>8 DEF FreshPhase

(* The steps after the snapshot, and those of close() and connect(), touch *)
(* no reading but in close(), which every refresh under way remembers.     *)
LEMMA OthersFresh ==
  ASSUME TypeOK, FreshInv, NEW a \in Threads,
         \/ ReadRaises(a) \/ Publish(a) \/ Write(a) \/ Check(a)
         \/ Close(a) \/ Connect(a),
         TypeOK', NEW t \in Threads, Watched(t)'
  PROVE  FreshPhase(t)'
<1>0. \A j \in Joints : driver[j].number \in Nat
  BY NumberTypes
<1>1. ASSUME UNCHANGED driver, UNCHANGED cache,
             \A u \in Threads : u # a => loc'[u] = loc[u] /\ pc'[u] = pc[u],
             pc'[a] \notin {"read", "update", "tick", "snapshot", "publish"},
             pc'[a] = "write" => loc' = loc /\ At(a, "publish")
      PROVE  FreshPhase(t)'
  <2>1. t = a => At(a, "publish") /\ loc' = loc
    BY <1>1 DEF Watched, Busy, Refreshing
  <2>2. Watched(t) /\ loc'[t] = loc[t]
    BY <1>1, <2>1 DEF Watched, Busy, Refreshing, At
  <2>3. \A u \in Threads : At(u, "update")' => At(u, "update") /\ loc'[u] = loc[u]
    BY <1>1 DEF At
  <2>4. pc'[t] = pc[t] \/ pc'[t] \notin {"read", "update", "tick", "snapshot",
                                        "publish"}
    BY <1>1
  <2>5. FreshPhase(t)
    BY DEF FreshInv
  <2> QED  BY <1>0, <1>1, <2>2, <2>3, <2>4, <2>5, FreshKept
<1>2. CASE Publish(a)
  BY <1>1, <1>2, PublishPost DEF dataVars
<1>3. CASE Write(a)
  BY <1>1, <1>3, WritePost DEF dataVars
<1>4. CASE Check(a)
  BY <1>1, <1>4, CheckPost
<1>5. CASE Connect(a)
  BY <1>1, <1>5, ConnectPost DEF dataVars
<1>6. CASE Close(a)
  <2>1. /\ UNCHANGED cache
        /\ \A u \in Threads : u # a => pc'[u] = pc[u]
        /\ pc'[a] \in {"clear", "drop", "connect", "idle"}
    BY <1>6, ClosePost
  <2>2. CASE UNCHANGED <<loc, driver>>
    BY <1>1, <2>1, <2>2
  <2>3. CASE loc' = [u \in Threads |->
                      IF u \in Busy THEN [loc[u] EXCEPT !.cut = TRUE]
                      ELSE loc[u]]
    <3>1. t # a
      BY <2>1 DEF Watched, Busy, Refreshing
    <3>2. t \in Busy
      BY <2>1, <3>1 DEF Watched, Busy
    <3>3. loc[t] \in Locals
      BY DEF TypeOK, ThreadTypes
    <3>4. loc'[t].cut = TRUE
      BY <2>3, <3>2, <3>3 DEF Locals
    <3> QED  BY <3>4 DEF Watched
  <2>4. CASE UNCHANGED driver /\ \A u \in Threads : u # a => loc'[u] = loc[u]
    BY <1>1, <2>1, <2>4
  <2> QED  BY <1>6, <2>2, <2>3, <2>4, ClosePost
<1>7. CASE ReadRaises(a)
  BY <1>1, <1>7, RaisesPost DEF dataVars
<1> QED  BY <1>2, <1>3, <1>4, <1>5, <1>6, <1>7

(* FreshInv is inductive, given the types. *)
LEMMA FreshNext == TypeOK /\ FreshInv /\ [Next]_vars => FreshInv'
<1> SUFFICES ASSUME TypeOK, FreshInv, [Next]_vars, NEW t \in Threads
             PROVE  FreshPhase(t)'
  BY DEF FreshInv
<1> SUFFICES ASSUME Watched(t)' PROVE FreshPhase(t)'
  BY DEF FreshPhase
<1>1. TypeOK'
  BY NextTypeOK
<1>2. ASSUME NEW a \in Threads,
             \/ Call(a) \/ Read(a) \/ ReadRaises(a) \/ Update(a) \/ Stamp(a)
             \/ Tick(a) \/ Snapshot(a) \/ Publish(a) \/ Write(a) \/ Check(a)
             \/ Close(a) \/ Connect(a)
      PROVE  FreshPhase(t)'
  BY <1>1, <1>2, RefreshFresh, ReadFresh, UpdateFresh, StampFresh, TickFresh,
     OthersFresh
<1>3. ASSUME NEW j \in Joints, Answer(j)
      PROVE  FreshPhase(t)'
  <2>1. /\ UNCHANGED <<armVars, cache, window, counts, clock, pc, loc, ghosts>>
        /\ \A k \in Joints :
             /\ driver'[k].number >= driver[k].number
             /\ Missing(driver'[k]) => Missing(driver[k])
    BY <1>3, AnswerPost
  <2>2. UNCHANGED pc /\ UNCHANGED loc /\ UNCHANGED cache
    BY <2>1
  <2>3. Watched(t) /\ FreshPhase(t)
    BY <2>2 DEF Watched, Busy, FreshInv
  <2>4. \A u \in Threads : At(u, "update")' => At(u, "update")
    BY <2>2 DEF At
  <2> QED  BY <1>1, <2>1, <2>2, <2>3, <2>4, FreshKept
<1>4. CASE UNCHANGED vars
  <2>1. UNCHANGED driver /\ UNCHANGED cache /\ UNCHANGED pc /\ UNCHANGED loc
    BY <1>4 DEF vars, dataVars
  <2> QED
    BY <2>1 DEF FreshInv, FreshPhase, Watched, Busy, DriversFresh,
       UpdatesFresh, CacheFresh, At
<1> QED  BY <1>2, <1>3, <1>4 DEF Next

(* A refresh returns for every joint a reading at least as recent as the   *)
(* one the driver held when it began, unless close() took the handles away *)
(* meanwhile or another refresh was under way when it began (arm.py:393).  *)
THEOREM RefreshIsFresh == Spec => []Fresh
<1>1. Init => FreshInv
  BY DEF Init, FreshInv, FreshPhase, Watched, Busy, Refreshing
<1>2. TypeOK /\ FreshInv => Fresh
  <2> SUFFICES ASSUME FreshInv, NEW t \in Threads, At(t, "publish"),
                      loc[t].first, ~loc[t].cut, NEW j \in Joints
               PROVE  loc[t].state[j].number >= loc[t].began[j]
    BY DEF Fresh
  <2>1. Watched(t)
    BY DEF Watched, Busy, At, Refreshing
  <2> QED  BY <2>1 DEF FreshInv, FreshPhase, CacheFresh
<1> QED  BY <1>1, <1>2, FreshNext, FeedbackTypes, PTL DEF Spec

-----------------------------------------------------------------------------
(***************************************************************************)
(* FpsHonest: the stamps of the window are in order.                       *)
(***************************************************************************)
Ordered ==
  \A i, k \in 1 .. Len(window) : i <= k => window[i] <= window[k]

(* The stamps are times that have been, and the one that a thread is about *)
(* to append is the most recent of them.                                   *)
StampsPast ==
  /\ \A i \in 1 .. Len(window) : window[i] <= clock
  /\ \A t \in Threads :
       At(t, "tick") => /\ loc[t].now <= clock
                        /\ \A i \in 1 .. Len(window) : window[i] <= loc[t].now

OneStamp == \A t, u \in Threads : At(t, "tick") /\ At(u, "tick") => t = u

WindowInv == ~crossed => Ordered /\ StampsPast /\ OneStamp

(* A step that is not concerned with stamps. *)
LEMMA WindowKept ==
  ASSUME WindowInv, UNCHANGED window, UNCHANGED clock, UNCHANGED crossed,
         \A u \in Threads :
           At(u, "tick")' => At(u, "tick") /\ loc'[u].now = loc[u].now
  PROVE  WindowInv'
BY DEF WindowInv, Ordered, StampsPast, OneStamp

(* A new stamp is at least as late as those of the window. *)
LEMMA StampWindow ==
  ASSUME TypeOK, WindowInv, NEW a \in Threads, Stamp(a)
  PROVE  WindowInv'
<1>1. /\ TypeOK' /\ At(a, "read") /\ pc'[a] = "tick"
      /\ UNCHANGED <<armVars, driver, cache, window, counts, frames, reported>>
      /\ clock' >= clock
      /\ crossed' = (crossed \/ \E u \in Threads : At(u, "tick"))
      /\ loc'[a].now = clock'
      /\ \A u \in Threads : u # a => loc'[u] = loc[u] /\ pc'[u] = pc[u]
  BY StampPost
<1> SUFFICES ASSUME ~crossed' PROVE Ordered' /\ StampsPast' /\ OneStamp'
  BY DEF WindowInv
<1>2. /\ Ordered /\ StampsPast /\ UNCHANGED window
      /\ \A u \in Threads : ~At(u, "tick")
  BY <1>1 DEF WindowInv
<1>3. \A u \in Threads : At(u, "tick")' => u = a
  BY <1>1, <1>2 DEF At
<1>4. /\ clock \in Nat /\ clock' \in Nat
      /\ \A i \in 1 .. Len(window) : window[i] \in Nat
  BY <1>1 DEF TypeOK, DataTypes
<1>5. \A i \in 1 .. Len(window) : window[i] <= clock'
  BY <1>1, <1>2, <1>4 DEF StampsPast
<1>6. Ordered'
  BY <1>2 DEF Ordered
<1>7. StampsPast'
  BY <1>1, <1>2, <1>3, <1>4, <1>5 DEF StampsPast
<1> QED  BY <1>3, <1>6, <1>7 DEF OneStamp

(* The only stamp that is held goes to the end of the window. *)
LEMMA TickWindow ==
  ASSUME TypeOK, WindowInv, NEW a \in Threads, Tick(a)
  PROVE  WindowInv'
<1> DEFINE now == loc[a].now
<1>1. /\ TypeOK' /\ At(a, "tick") /\ pc'[a] = "snapshot"
      /\ UNCHANGED <<armVars, driver, cache, counts, clock, ghosts>>
      /\ now \in Nat
      /\ window' = Ticked(now)
      /\ \A u \in Threads : u # a => loc'[u] = loc[u] /\ pc'[u] = pc[u]
  BY TickPost
<1> SUFFICES ASSUME ~crossed' PROVE Ordered' /\ StampsPast' /\ OneStamp'
  BY DEF WindowInv
<1>2. UNCHANGED clock /\ UNCHANGED crossed
  BY <1>1 DEF ghosts
<1>3. Ordered /\ StampsPast /\ OneStamp
  BY <1>2 DEF WindowInv
<1>4. /\ now <= clock
      /\ \A i \in 1 .. Len(window) : window[i] <= now
  BY <1>1, <1>3 DEF StampsPast
<1>5. \A u \in Threads : ~At(u, "tick")'
  <2>1. \A u \in Threads : u # a => ~At(u, "tick")
    BY <1>1, <1>3 DEF OneStamp
  <2> QED  BY <1>1, <2>1 DEF At
<1> HIDE DEF now
<1>6. PICK k \in {0, 1} :
        /\ Len(window') = Len(window) + 1 - k
        /\ window'[Len(window')] = now
        /\ \A i \in 1 .. Len(window') :
             i < Len(window') => /\ i + k \in 1 .. Len(window)
                                 /\ window'[i] = window[i + k]
  BY <1>1, TickedWindow
<1>7. /\ clock \in Nat /\ Len(window) \in Nat /\ Len(window') \in Nat
      /\ \A i \in 1 .. Len(window) : window[i] \in Nat
      /\ \A i \in 1 .. Len(window') : window'[i] \in Nat
  BY <1>1 DEF TypeOK, DataTypes
<1>8. ASSUME NEW i \in 1 .. Len(window')
      PROVE  window'[i] <= now
  <2>1. CASE i = Len(window')
    BY <1>1, <1>6, <2>1
  <2>2. CASE i < Len(window')
    BY <1>4, <1>6, <2>2
  <2> QED  BY <1>7, <2>1, <2>2
<1>9. Ordered'
  <2> SUFFICES ASSUME NEW i \in 1 .. Len(window'), NEW m \in 1 .. Len(window'),
                      i <= m
               PROVE  window'[i] <= window'[m]
    BY DEF Ordered
  <2>1. CASE m = Len(window')
    BY <1>6, <1>8, <2>1
  <2>2. CASE m < Len(window')
    <3>1. /\ i + k \in 1 .. Len(window) /\ window'[i] = window[i + k]
          /\ m + k \in 1 .. Len(window) /\ window'[m] = window[m + k]
      <4>1. i < Len(window')
        BY <1>7, <2>2
      <4> QED  BY <1>6, <2>2, <4>1
    <3>2. i + k <= m + k
      OBVIOUS
    <3> QED  BY <1>3, <3>1, <3>2 DEF Ordered
  <2> QED  BY <1>7, <2>1, <2>2
<1>10. StampsPast'
  <2>1. \A i \in 1 .. Len(window') : window'[i] <= clock'
    BY <1>1, <1>2, <1>4, <1>7, <1>8
  <2> QED  BY <1>5, <2>1 DEF StampsPast
<1> QED  BY <1>5, <1>9, <1>10 DEF OneStamp

(* WindowInv is inductive, given the types. *)
LEMMA WindowNext == TypeOK /\ WindowInv /\ [Next]_vars => WindowInv'
<1> SUFFICES ASSUME TypeOK, WindowInv, [Next]_vars PROVE WindowInv'
  OBVIOUS
<1>1. ASSUME NEW a \in Threads, UNCHANGED <<window, clock, crossed>>,
             pc'[a] # "tick",
             \A u \in Threads : u # a =>
               loc'[u].now = loc[u].now /\ pc'[u] = pc[u]
      PROVE  WindowInv'
  BY <1>1, WindowKept DEF At
<1>2. ASSUME NEW a \in Threads, Call(a)
      PROVE  WindowInv'
  <2>1. At(a, "idle") /\ UNCHANGED <<window, clock, crossed>>
    BY <1>2, CallPost
  <2>2. CASE Refresh(a) /\ (pc' # pc \/ loc' # loc)
    <3>1. /\ pc'[a] = "read"
          /\ \A u \in Threads : u # a =>
               /\ pc'[u] = pc[u]
               /\ loc'[u] = IF u = Loop /\ u \in Busy
                            THEN [loc[u] EXCEPT !.alone = FALSE] ELSE loc[u]
      BY <2>1, <2>2, RefreshPost
    <3>2. ASSUME NEW u \in Threads, u # a
          PROVE  loc'[u].now = loc[u].now
      <4>1. loc[u] \in Locals
        BY DEF TypeOK, ThreadTypes
      <4>2. \/ loc'[u] = loc[u]
            \/ loc'[u] = [loc[u] EXCEPT !.alone = FALSE]
        BY <3>1, <3>2
      <4> QED  BY <4>1, <4>2 DEF Locals
    <3> QED  BY <1>1, <2>1, <3>1, <3>2
  <2>3. CASE UNCHANGED <<pc, loc>>
    BY <2>1, <2>3, WindowKept DEF At
  <2>4. CASE /\ pc'[a] \in {"close", "connect"}
             /\ \A u \in Threads : u # a => loc'[u] = loc[u] /\ pc'[u] = pc[u]
    BY <1>1, <2>1, <2>4
  <2> QED  BY <1>2, <2>2, <2>3, <2>4, CallPost
<1>3. ASSUME NEW a \in Threads, Read(a) \/ Snapshot(a)
      PROVE  WindowInv'
  <2>1. CASE Read(a)
    BY <1>1, <2>1, ReadPost DEF dataVars, ghosts
  <2>2. CASE Snapshot(a)
    BY <1>1, <2>2, SnapshotPost DEF dataVars, ghosts
  <2> QED  BY <1>3, <2>1, <2>2
<1>4. ASSUME NEW a \in Threads, Update(a)
      PROVE  WindowInv'
  BY <1>1, <1>4, UpdatePost DEF ghosts
<1>5. ASSUME NEW a \in Threads, ReadRaises(a) \/ Publish(a) \/ Write(a)
      PROVE  WindowInv'
  BY <1>1, <1>5, RaisesPost, PublishPost, WritePost DEF dataVars, ghosts
<1>6. ASSUME NEW a \in Threads, Check(a)
      PROVE  WindowInv'
  BY <1>1, <1>6, CheckPost
<1>7. ASSUME NEW a \in Threads, Close(a)
      PROVE  WindowInv'
  <2>1. /\ UNCHANGED <<window, clock, crossed>>
        /\ \A u \in Threads : u # a => pc'[u] = pc[u]
        /\ pc'[a] \in {"clear", "drop", "connect", "idle"}
    BY <1>7, ClosePost DEF ghosts
  <2>2. \A u \in Threads : u # a => loc'[u].now = loc[u].now
    <3>1. CASE loc' = [u \in Threads |->
                        IF u \in Busy THEN [loc[u] EXCEPT !.cut = TRUE]
                        ELSE loc[u]]
      <4>1. \A u \in Threads : loc[u] \in Locals
        BY DEF TypeOK, ThreadTypes
      <4> QED  BY <3>1, <4>1 DEF Locals
    <3>2. CASE \A u \in Threads : u # a => loc'[u] = loc[u]
      BY <3>2
    <3> QED  BY <1>7, <3>1, <3>2, ClosePost
  <2> QED  BY <1>1, <2>1, <2>2
<1>8. ASSUME NEW a \in Threads, Connect(a)
      PROVE  WindowInv'
  BY <1>1, <1>8, ConnectPost DEF dataVars, ghosts
<1>9. ASSUME NEW j \in Joints, Answer(j)
      PROVE  WindowInv'
  BY <1>9, AnswerPost, WindowKept DEF ghosts, At
<1>10. CASE UNCHANGED vars
  BY <1>10, WindowKept DEF vars, dataVars, ghosts, At
<1> QED
  BY <1>2, <1>3, <1>4, <1>5, <1>6, <1>7, <1>8, <1>9, <1>10, StampWindow,
     TickWindow DEF Next

(* The frames that the rate counts lie in the span they are divided by,    *)
(* unless two threads held a stamp at once (fps_monitor.py:104).           *)
THEOREM FrameRateIsHonest == Spec => []FpsHonest
<1>1. Init => WindowInv
  BY DEF Init, WindowInv, Ordered, StampsPast, OneStamp, At
<1>2. TypeOK /\ WindowInv => FpsHonest
  <2> SUFFICES ASSUME TypeOK, WindowInv PROVE FpsHonest
    OBVIOUS
  <2>1. /\ Len(window) \in Nat
        /\ \A i \in 1 .. Len(window) : window[i] \in Nat
    BY DEF TypeOK, DataTypes
  <2> DEFINE n == Len(window)
             span == window[n] - window[1]
  <2>2. CASE n < 2 \/ span <= 0
    <3>1. Fps = [frames |-> 0, span |-> 1]
      BY <2>2 DEF Fps
    <3> QED  BY <3>1 DEF FpsHonest
  <2>3. CASE ~(n < 2 \/ span <= 0)
    <3>1. 1 \in 1 .. n /\ n \in 1 .. n
      BY <2>1, <2>3
    <3>2. ~crossed => \A k \in 1 .. n : window[1] <= window[k] /\ window[k] <= window[n]
      BY <2>1, <3>1 DEF WindowInv, Ordered
    <3> QED  BY <3>2 DEF FpsHonest
  <2> QED  BY <2>2, <2>3
<1> QED  BY <1>1, <1>2, WindowNext, FeedbackTypes, PTL DEF Spec

-----------------------------------------------------------------------------
(***************************************************************************)
(* OverloadTrips: what the control cycle saw, and what the guard counted.  *)
(***************************************************************************)
(* The loop does nothing but refresh and check, and nobody else checks. *)
Roles ==
  /\ \A t \in Threads : At(t, "check") => t = Loop
  /\ pc[Loop] \in Refreshing \cup {"idle", "check"}

(* The torque that reached the cache is the one that was read, but for a   *)
(* wild one; nothing is known where nothing was read.                      *)
Seen(torq, saw) ==
  saw # "None" => torq = IF saw = "wild" THEN "None" ELSE saw

(* A cycle without another refresh is the only refresh there is, ... *)
LoopAlone == loc[Loop].alone /\ Loop \in Busy => Busy = {Loop}

(* ... and it carries the torques it saw from the drivers into the cache,  *)
(* joint by joint, ...                                                     *)
ReadSeen ==
  LET l == loc[Loop] IN
  l.alone /\ pc[Loop] \in {"read", "update"} =>
    \A j \in Joints :
      /\ j < l.i => Seen(cache[j].torq, l.saw[j])
      /\ j > l.i => l.saw[j] = "None"
      /\ j = l.i /\ pc[Loop] = "read" => l.saw[j] = "None"
      /\ j = l.i /\ pc[Loop] = "update" => Seen(l.new.torq, l.saw[j])

(* ... and from the cache into the snapshot it hands to the guard. *)
StateSeen ==
  LET l == loc[Loop] IN
  l.alone =>
    /\ pc[Loop] \in {"tick", "snapshot"} =>
         \A j \in Joints : Seen(cache[j].torq, l.saw[j])
    /\ pc[Loop] \in {"publish", "write", "check"} =>
         \A j \in Joints : Seen(l.state[j].torq, l.saw[j])

LoopInv == Roles /\ LoopAlone /\ ReadSeen /\ StateSeen

(* No cycle is under way when the arm is made. *)
LEMMA InitLoop == Init => LoopInv
BY ConstantsAssumption
   DEF Init, LoopInv, Roles, LoopAlone, ReadSeen, StateSeen, At, Busy, Refreshing

(* A step of another thread that leaves the cycle what it knows. *)
LEMMA LoopKept ==
  ASSUME LoopInv, pc'[Loop] = pc[Loop],
         loc'[Loop].i = loc[Loop].i, loc'[Loop].new = loc[Loop].new,
         loc'[Loop].saw = loc[Loop].saw, loc'[Loop].state = loc[Loop].state,
         loc'[Loop].alone = loc[Loop].alone,
         \A u \in Threads : At(u, "check")' => At(u, "check"),
         \/ UNCHANGED cache /\ Busy' = Busy
         \/ ~loc[Loop].alone
         \/ Loop \notin Busy
  PROVE  LoopInv'
<1>0. Loop \in Threads
  BY ConstantsAssumption
<1>1. Roles'
  BY DEF LoopInv, Roles
<1>2. CASE ~loc[Loop].alone
  BY <1>1, <1>2 DEF LoopInv, LoopAlone, ReadSeen, StateSeen
<1>3. CASE Loop \notin Busy
  <2>1. pc[Loop] \notin Refreshing /\ Loop \notin Busy'
    BY <1>0, <1>3 DEF Busy
  <2> QED
    BY <1>1, <2>1
       DEF LoopInv, LoopAlone, ReadSeen, StateSeen, Refreshing
<1>4. CASE UNCHANGED cache /\ Busy' = Busy
  BY <1>1, <1>4 DEF LoopInv, LoopAlone, ReadSeen, StateSeen
<1> QED  BY <1>2, <1>3, <1>4

(* A step of another thread that does not touch the cycle's variables. *)
LEMMA OthersStep ==
  ASSUME LoopInv, NEW a \in Threads, a # Loop, pc'[a] # "check",
         \A u \in Threads : u # a => loc'[u] = loc[u] /\ pc'[u] = pc[u],
         \/ a \in Busy
         \/ UNCHANGED cache /\ pc[a] \notin Refreshing /\ pc'[a] \notin Refreshing
  PROVE  LoopInv'
<1>1. Loop \in Threads /\ loc'[Loop] = loc[Loop] /\ pc'[Loop] = pc[Loop]
  BY ConstantsAssumption
<1>2. \A u \in Threads : At(u, "check")' => At(u, "check")
  BY DEF At
<1>3. CASE a \in Busy
  <2>1. ~loc[Loop].alone \/ Loop \notin Busy
    BY <1>3 DEF LoopInv, LoopAlone
  <2> QED  BY <1>1, <1>2, <2>1, LoopKept
<1>4. CASE UNCHANGED cache /\ pc[a] \notin Refreshing /\ pc'[a] \notin Refreshing
  <2>1. Busy' = Busy
    BY <1>4 DEF Busy
  <2> QED  BY <1>1, <1>2, <1>4, <2>1, LoopKept
<1> QED  BY <1>3, <1>4

(* A step of the cycle itself keeps Roles and LoopAlone. *)
LEMMA CycleStep ==
  ASSUME LoopInv, pc'[Loop] \in Refreshing \cup {"idle", "check"},
         \A u \in Threads : u # Loop => pc'[u] = pc[u],
         \/ pc'[Loop] \notin Refreshing
         \/ Loop \in Busy /\ loc'[Loop].alone = loc[Loop].alone
  PROVE  Roles' /\ LoopAlone'
<1>0. Loop \in Threads
  BY ConstantsAssumption
<1>1. Roles'
  BY DEF LoopInv, Roles, At
<1>2. CASE pc'[Loop] \notin Refreshing
  BY <1>1, <1>2 DEF LoopAlone, Busy
<1>3. CASE /\ Loop \in Busy /\ loc'[Loop].alone = loc[Loop].alone
           /\ pc'[Loop] \in Refreshing
  <2>1. Busy' = Busy
    BY <1>0, <1>3 DEF Busy
  <2> QED  BY <1>1, <1>3, <2>1 DEF LoopInv, LoopAlone
<1> QED  BY <1>1, <1>2, <1>3

(* The cycle reads a driver, and notes what it saw. *)
LEMMA ReadLoop ==
  ASSUME TypeOK, LoopInv, Read(Loop)
  PROVE  LoopInv'
<1> DEFINE l == loc[Loop]
           i == l.i
<1>0. Loop \in Threads
  BY ConstantsAssumption
<1>1. /\ At(Loop, "read") /\ UNCHANGED cache /\ i \in Joints
      /\ loc'[Loop].alone = l.alone
      /\ \A u \in Threads : u # Loop => pc'[u] = pc[u]
      /\ \/ /\ pc'[Loop] = "read"
            /\ loc'[Loop].i = i + 1 /\ loc'[Loop].saw = l.saw
         \/ /\ pc'[Loop] = "update" /\ loc'[Loop].i = i
            /\ ~Missing(driver[i])
            /\ loc'[Loop].new = FilterJoint(driver[i])
            /\ loc'[Loop].saw = [l.saw EXCEPT ![i] = driver[i].torq]
  BY <1>0, ReadPost DEF dataVars
<1>2. Roles' /\ LoopAlone'
  <2>1. Loop \in Busy /\ pc'[Loop] \in Refreshing
    BY <1>0, <1>1 DEF At, Busy, Refreshing
  <2> QED  BY <1>1, <2>1, CycleStep
<1>3. /\ l \in Locals /\ i \in Nat
      /\ driver[i] \in Readings
  BY <1>0, <1>1 DEF TypeOK, ThreadTypes, DataTypes, Locals
<1>4. l.saw \in [Joints -> Torques \cup {"None"}]
  BY <1>3 DEF Locals
<1>5. l.alone => \A j \in Joints :
        /\ j < i => Seen(cache[j].torq, l.saw[j])
        /\ j >= i => l.saw[j] = "None"
  BY <1>1, <1>3 DEF LoopInv, ReadSeen, At, Joints
<1>6. Seen(FilterJoint(driver[i]).torq, driver[i].torq)
  BY <1>3 DEF Seen, FilterJoint, IsOutlier, Readings
<1> HIDE DEF l, i
<1>7. StateSeen'
  BY <1>1 DEF StateSeen
<1>8. ReadSeen'
  <2>1. CASE /\ pc'[Loop] = "read"
             /\ loc'[Loop].i = i + 1 /\ loc'[Loop].saw = l.saw
    <3>1. l.alone => \A j \in Joints :
            /\ j < i + 1 => Seen(cache[j].torq, l.saw[j])
            /\ j > i => l.saw[j] = "None"
            /\ j = i + 1 => l.saw[j] = "None"
      BY <1>3, <1>5 DEF Seen, Joints
    <3> QED  BY <1>1, <1>3, <2>1, <3>1 DEF ReadSeen, Joints
  <2>2. CASE /\ pc'[Loop] = "update" /\ loc'[Loop].i = i
             /\ loc'[Loop].new = FilterJoint(driver[i])
             /\ loc'[Loop].saw = [l.saw EXCEPT ![i] = driver[i].torq]
    <3> DEFINE saw == [l.saw EXCEPT ![i] = driver[i].torq]
    <3>1. /\ saw[i] = driver[i].torq
          /\ \A j \in Joints : j # i => saw[j] = l.saw[j]
      BY <1>1, <1>4
    <3> HIDE DEF saw
    <3>2. l.alone => \A j \in Joints :
            /\ j < i => Seen(cache[j].torq, saw[j])
            /\ j > i => saw[j] = "None"
            /\ j = i => Seen(FilterJoint(driver[i]).torq, saw[j])
      BY <1>3, <1>5, <1>6, <3>1 DEF Joints
    <3>3. loc'[Loop].saw = saw
      BY <2>2 DEF saw
    <3> QED  BY <1>1, <2>2, <3>2, <3>3 DEF ReadSeen
  <2> QED  BY <1>1, <2>1, <2>2
<1> QED  BY <1>2, <1>7, <1>8 DEF LoopInv

(* The cycle puts what it read into the cache. *)
LEMMA UpdateLoop ==
  ASSUME TypeOK, LoopInv, Update(Loop)
  PROVE  LoopInv'
<1> DEFINE l == loc[Loop]
           i == l.i
<1>0. Loop \in Threads
  BY ConstantsAssumption
<1>1. /\ At(Loop, "update") /\ pc'[Loop] = "read" /\ i \in Joints
      /\ cache' = [cache EXCEPT ![i] = l.new]
      /\ loc'[Loop].i = i + 1 /\ loc'[Loop].saw = l.saw
      /\ loc'[Loop].alone = l.alone
      /\ \A u \in Threads : u # Loop => pc'[u] = pc[u]
  BY <1>0, UpdatePost
<1>2. Roles' /\ LoopAlone'
  <2>1. Loop \in Busy /\ pc'[Loop] \in Refreshing
    BY <1>0, <1>1 DEF At, Busy, Refreshing
  <2> QED  BY <1>1, <2>1, CycleStep
<1>3. l \in Locals /\ i \in Nat /\ cache \in [Joints -> Readings]
  BY <1>0, <1>1 DEF TypeOK, ThreadTypes, DataTypes, Locals
<1>4. /\ cache'[i] = l.new
      /\ \A j \in Joints : j # i => cache'[j] = cache[j]
  BY <1>1, <1>3
<1>5. l.alone => \A j \in Joints :
        /\ j < i => Seen(cache[j].torq, l.saw[j])
        /\ j > i => l.saw[j] = "None"
        /\ j = i => Seen(l.new.torq, l.saw[j])
  BY <1>1 DEF LoopInv, ReadSeen, At
<1> HIDE DEF l, i
<1>6. l.alone => \A j \in Joints :
        /\ j < i + 1 => Seen(cache'[j].torq, l.saw[j])
        /\ j >= i + 1 => l.saw[j] = "None"
  <2> SUFFICES ASSUME l.alone, NEW j \in Joints
               PROVE  /\ j < i + 1 => Seen(cache'[j].torq, l.saw[j])
                      /\ j >= i + 1 => l.saw[j] = "None"
    OBVIOUS
  <2>1. CASE j = i
    BY <1>3, <1>4, <1>5, <2>1
  <2>2. CASE j # i
    <3>1. cache'[j] = cache[j]
      BY <1>4, <2>2
    <3>2. j \in Nat
      BY DEF Joints
    <3>3. j < i + 1 => j < i
      BY <1>3, <2>2, <3>2
    <3>4. j >= i + 1 => j > i
      BY <1>3, <3>2
    <3> QED  BY <1>5, <3>1, <3>3, <3>4
  <2> QED  BY <2>1, <2>2
<1>7. ReadSeen'
  BY <1>1, <1>3, <1>6 DEF ReadSeen, Joints
<1>8. StateSeen'
  BY <1>1 DEF StateSeen
<1> QED  BY <1>2, <1>7, <1>8 DEF LoopInv

(* The other steps of the cycle carry what it saw to the guard. *)
LEMMA CycleLoop ==
  ASSUME TypeOK, LoopInv,
         \/ ReadRaises(Loop) \/ Stamp(Loop) \/ Tick(Loop) \/ Snapshot(Loop)
         \/ Publish(Loop) \/ Write(Loop) \/ Check(Loop)
  PROVE  LoopInv'
<1>0. Loop \in Threads
  BY ConstantsAssumption
<1>1. ASSUME Loop \in Busy, loc'[Loop].alone = loc[Loop].alone,
             pc'[Loop] \in {"tick", "snapshot", "publish", "write", "check"},
             \A u \in Threads : u # Loop => pc'[u] = pc[u],
             StateSeen'
      PROVE  LoopInv'
  <2>1. Roles' /\ LoopAlone'
    BY <1>1, CycleStep DEF Refreshing
  <2>2. ReadSeen'
    BY <1>1 DEF ReadSeen
  <2> QED  BY <1>1, <2>1, <2>2 DEF LoopInv
<1>2. CASE Stamp(Loop)
  <2>1. /\ At(Loop, "read") /\ pc'[Loop] = "tick" /\ UNCHANGED cache
        /\ loc'[Loop].saw = loc[Loop].saw /\ loc'[Loop].alone = loc[Loop].alone
        /\ \A u \in Threads : u # Loop => pc'[u] = pc[u]
    BY <1>0, <1>2, StampPost
  <2>2. loc[Loop].i \in Nat
    BY <1>0 DEF TypeOK, ThreadTypes, Locals
  <2>3. loc[Loop].alone => \A j \in Joints : Seen(cache[j].torq, loc[Loop].saw[j])
    BY <2>1, <2>2 DEF LoopInv, ReadSeen, At, Seen, Joints
  <2>4. StateSeen'
    BY <2>1, <2>3 DEF StateSeen
  <2>5. Loop \in Busy
    BY <1>0, <2>1 DEF At, Busy, Refreshing
  <2> QED  BY <1>1, <2>1, <2>4, <2>5
<1>3. CASE Tick(Loop)
  <2>1. /\ At(Loop, "tick") /\ pc'[Loop] = "snapshot" /\ UNCHANGED cache
        /\ loc'[Loop].saw = loc[Loop].saw /\ loc'[Loop].alone = loc[Loop].alone
        /\ \A u \in Threads : u # Loop => pc'[u] = pc[u]
    BY <1>0, <1>3, TickPost
  <2>2. StateSeen'
    BY <2>1 DEF LoopInv, StateSeen, At
  <2>3. Loop \in Busy
    BY <1>0, <2>1 DEF At, Busy, Refreshing
  <2> QED  BY <1>1, <2>1, <2>2, <2>3
<1>4. CASE Snapshot(Loop)
  <2>1. /\ At(Loop, "snapshot") /\ pc'[Loop] = "publish"
        /\ loc'[Loop].state = cache
        /\ loc'[Loop].saw = loc[Loop].saw /\ loc'[Loop].alone = loc[Loop].alone
        /\ \A u \in Threads : u # Loop => pc'[u] = pc[u]
    BY <1>0, <1>4, SnapshotPost
  <2>2. StateSeen'
    BY <2>1 DEF LoopInv, StateSeen, At
  <2>3. Loop \in Busy
    BY <1>0, <2>1 DEF At, Busy, Refreshing
  <2> QED  BY <1>1, <2>1, <2>2, <2>3
<1>5. ASSUME At(Loop, "publish") \/ At(Loop, "write"),
             pc'[Loop] \in {"write", "check"},
             loc'[Loop].state = loc[Loop].state, loc'[Loop].saw = loc[Loop].saw,
             loc'[Loop].alone = loc[Loop].alone,
             \A u \in Threads : u # Loop => pc'[u] = pc[u]
      PROVE  LoopInv'
  <2>1. StateSeen'
    BY <1>5 DEF LoopInv, StateSeen, At
  <2>2. Loop \in Busy
    BY <1>0, <1>5 DEF At, Busy, Refreshing
  <2> QED  BY <1>1, <1>5, <2>1, <2>2
<1>6. ASSUME pc'[Loop] = "idle", \A u \in Threads : u # Loop => pc'[u] = pc[u]
      PROVE  LoopInv'
  <2>1. Roles' /\ LoopAlone'
    BY <1>6, CycleStep DEF Refreshing
  <2>2. ReadSeen' /\ StateSeen'
    BY <1>6 DEF ReadSeen, StateSeen
  <2> QED  BY <2>1, <2>2 DEF LoopInv
<1>7. CASE Publish(Loop)
  BY <1>0, <1>5, <1>7, PublishPost
<1>8. CASE Write(Loop)
  BY <1>0, <1>5, <1>6, <1>8, WritePost
<1>9. CASE Check(Loop)
  BY <1>0, <1>6, <1>9, CheckPost
<1>10. CASE ReadRaises(Loop)
  BY <1>0, <1>6, <1>10, RaisesPost
<1> QED  BY <1>2, <1>3, <1>4, <1>7, <1>8, <1>9, <1>10

(* A refresh that begins, and the other calls. *)
LEMMA CallLoop ==
  ASSUME TypeOK, LoopInv, NEW a \in Threads, Call(a)
  PROVE  LoopInv'
<1>0. Loop \in Threads /\ loc[Loop] \in Locals
  BY ConstantsAssumption DEF TypeOK, ThreadTypes
<1>1. At(a, "idle") /\ UNCHANGED cache /\ a \notin Busy
  BY CallPost DEF At, Busy, Refreshing
<1>2. CASE Refresh(a) /\ (pc' # pc \/ loc' # loc)
  <2>1. /\ pc'[a] = "read"
        /\ loc'[a].i = 1 /\ loc'[a].saw = [j \in Joints |-> "None"]
        /\ loc'[a].alone = (Busy = {} \/ a # Loop)
        /\ \A u \in Threads : u # a =>
             /\ pc'[u] = pc[u]
             /\ loc'[u] = IF u = Loop /\ u \in Busy
                          THEN [loc[u] EXCEPT !.alone = FALSE] ELSE loc[u]
    BY <1>1, <1>2, RefreshPost
  <2>2. CASE a = Loop
    <3>1. Roles'
      BY <2>1, <2>2 DEF LoopInv, Roles, At, Refreshing
    <3>2. LoopAlone'
      <4> SUFFICES ASSUME loc'[Loop].alone PROVE Busy' = {Loop}
        BY DEF LoopAlone
      <4>1. Busy = {}
        BY <2>1, <2>2
      <4> QED  BY <2>1, <2>2, <4>1 DEF Busy, Refreshing
    <3>3. ReadSeen'
      <4>1. \A j \in Joints :
              loc'[Loop].saw[j] = "None" /\ ~(j < loc'[Loop].i)
        <5>1. \A j \in Joints : ~(j < 1)
          BY DEF Joints
        <5> QED  BY <2>1, <2>2, <5>1
      <4>2. pc'[Loop] = "read"
        BY <2>1, <2>2
      <4> DEFINE l == loc[Loop]
      <4>3. ASSUME NEW j \in Joints
            PROVE  /\ j < l'.i => Seen(cache'[j].torq, l'.saw[j])
                   /\ j > l'.i => l'.saw[j] = "None"
                   /\ j = l'.i /\ pc'[Loop] = "read" => l'.saw[j] = "None"
                   /\ j = l'.i /\ pc'[Loop] = "update"
                        => Seen(l'.new.torq, l'.saw[j])
        BY <4>1, <4>2
      <4> QED  BY <4>3 DEF ReadSeen
    <3>4. StateSeen'
      BY <2>1, <2>2 DEF StateSeen
    <3> QED  BY <3>1, <3>2, <3>3, <3>4 DEF LoopInv
  <2>3. CASE a # Loop /\ Loop \in Busy
    <3>1. loc'[Loop] = [loc[Loop] EXCEPT !.alone = FALSE]
      BY <1>0, <2>1, <2>3
    <3>2. loc'[Loop].alone = FALSE
      BY <1>0, <3>1 DEF Locals
    <3>3. Roles'
      BY <1>0, <2>1, <2>3 DEF LoopInv, Roles, At
    <3> QED  BY <3>2, <3>3 DEF LoopInv, LoopAlone, ReadSeen, StateSeen
  <2>4. CASE a # Loop /\ Loop \notin Busy
    <3>1. loc'[Loop] = loc[Loop] /\ pc'[Loop] = pc[Loop]
      BY <1>0, <2>1, <2>4
    <3>2. \A u \in Threads : At(u, "check")' => At(u, "check")
      BY <2>1 DEF At
    <3> QED  BY <2>4, <3>1, <3>2, LoopKept
  <2> QED  BY <2>2, <2>3, <2>4
<1>3. CASE UNCHANGED <<pc, loc>>
  <2>1. Busy' = Busy /\ loc' = loc /\ pc' = pc
    BY <1>3 DEF Busy
  <2> QED  BY <1>1, <2>1, LoopKept DEF At
<1>4. CASE /\ a # Loop /\ pc'[a] \in {"close", "connect"}
           /\ \A u \in Threads : u # a => loc'[u] = loc[u] /\ pc'[u] = pc[u]
  <2>1. pc[a] \notin Refreshing /\ pc'[a] \notin Refreshing
    BY <1>1, <1>4 DEF Refreshing, At
  <2> QED  BY <1>1, <1>4, <2>1, OthersStep
<1> QED  BY <1>2, <1>3, <1>4, CallPost

(* The steps of the other threads. *)
LEMMA OthersLoop ==
  ASSUME TypeOK, LoopInv, NEW a \in Threads, a # Loop,
         \/ Read(a) \/ ReadRaises(a) \/ Update(a) \/ Stamp(a) \/ Tick(a)
         \/ Snapshot(a) \/ Publish(a) \/ Write(a) \/ Check(a) \/ Connect(a)
  PROVE  LoopInv'
<1>1. ASSUME a \in Busy, pc'[a] # "check",
             \A u \in Threads : u # a => loc'[u] = loc[u] /\ pc'[u] = pc[u]
      PROVE  LoopInv'
  BY <1>1, OthersStep
<1>2. CASE Read(a)
  BY <1>1, <1>2, ReadPost DEF At, Busy, Refreshing
<1>3. CASE Update(a)
  BY <1>1, <1>3, UpdatePost DEF At, Busy, Refreshing
<1>4. CASE Stamp(a)
  BY <1>1, <1>4, StampPost DEF At, Busy, Refreshing
<1>5. CASE Tick(a)
  BY <1>1, <1>5, TickPost DEF At, Busy, Refreshing
<1>6. CASE Snapshot(a)
  BY <1>1, <1>6, SnapshotPost DEF At, Busy, Refreshing
<1>7. CASE Publish(a)
  BY <1>1, <1>7, PublishPost DEF At, Busy, Refreshing
<1>8. CASE Write(a)
  BY <1>1, <1>8, WritePost DEF At, Busy, Refreshing
<1>9. CASE Check(a)
  <2>1. At(a, "check")
    BY <1>9, CheckPost
  <2> QED  BY <2>1 DEF LoopInv, Roles
<1>10. CASE Connect(a)
  <2>1. /\ UNCHANGED <<dataVars, ghosts>> /\ pc[a] \notin Refreshing
        /\ pc'[a] \in {"add", "create", "idle"}
        /\ \A u \in Threads : u # a => loc'[u] = loc[u] /\ pc'[u] = pc[u]
    BY <1>10, ConnectPost
  <2>2. UNCHANGED cache
    BY <2>1 DEF dataVars
  <2>3. pc'[a] \notin Refreshing
    BY <2>1 DEF Refreshing
  <2> QED  BY <2>1, <2>2, <2>3, OthersStep
<1>11. CASE ReadRaises(a)
  BY <1>1, <1>11, RaisesPost DEF At, Busy, Refreshing
<1> QED
  BY <1>2, <1>3, <1>4, <1>5, <1>6, <1>7, <1>8, <1>9, <1>10, <1>11

(* close() by another thread marks the cycle, and leaves it what it knows. *)
LEMMA CloseLoop ==
  ASSUME TypeOK, LoopInv, NEW a \in Threads, Close(a)
  PROVE  LoopInv'
<1>0. Loop \in Threads /\ loc[Loop] \in Locals
  BY ConstantsAssumption DEF TypeOK, ThreadTypes
<1>1. /\ UNCHANGED cache
      /\ \A u \in Threads : u # a => pc'[u] = pc[u]
      /\ pc[a] \in {"close", "clear", "drop"}
      /\ pc'[a] \in {"clear", "drop", "connect", "idle"}
  BY ClosePost DEF At
<1>2. a # Loop
  BY <1>1 DEF LoopInv, Roles, Refreshing
<1>3. Busy' = Busy
  <2>1. pc[a] \notin Refreshing /\ pc'[a] \notin Refreshing
    BY <1>1 DEF Refreshing
  <2> QED  BY <1>1, <2>1 DEF Busy
<1>4. \A u \in Threads : At(u, "check")' => At(u, "check")
  BY <1>1 DEF At
<1>5. \/ loc'[Loop] = loc[Loop]
      \/ loc'[Loop] = [loc[Loop] EXCEPT !.cut = TRUE]
  <2>1. CASE loc' = [u \in Threads |->
                      IF u \in Busy THEN [loc[u] EXCEPT !.cut = TRUE]
                      ELSE loc[u]]
    BY <1>0, <2>1
  <2>2. CASE UNCHANGED loc
    BY <2>2
  <2>3. CASE \A u \in Threads : u # a => loc'[u] = loc[u]
    BY <1>0, <1>2, <2>3
  <2> QED  BY <2>1, <2>2, <2>3, ClosePost
<1>6. /\ loc'[Loop].i = loc[Loop].i /\ loc'[Loop].new = loc[Loop].new
      /\ loc'[Loop].saw = loc[Loop].saw /\ loc'[Loop].state = loc[Loop].state
      /\ loc'[Loop].alone = loc[Loop].alone
  BY <1>0, <1>5 DEF Locals
<1>7. pc'[Loop] = pc[Loop]
  BY <1>0, <1>1, <1>2
<1> QED  BY <1>1, <1>3, <1>4, <1>6, <1>7, LoopKept

(* LoopInv is inductive, given the types. *)
LEMMA LoopNext == TypeOK /\ LoopInv /\ [Next]_vars => LoopInv'
<1> SUFFICES ASSUME TypeOK, LoopInv, [Next]_vars PROVE LoopInv'
  OBVIOUS
<1>1. ASSUME NEW a \in Threads, Close(a)
      PROVE  LoopInv'
  BY <1>1, CloseLoop
<1>2. ASSUME NEW a \in Threads, Call(a)
      PROVE  LoopInv'
  BY <1>2, CallLoop
<1>3. ASSUME NEW a \in Threads,
             \/ Read(a) \/ ReadRaises(a) \/ Update(a) \/ Stamp(a) \/ Tick(a)
             \/ Snapshot(a) \/ Publish(a) \/ Write(a) \/ Check(a) \/ Connect(a)
      PROVE  LoopInv'
  <2>1. CASE a # Loop
    BY <1>3, <2>1, OthersLoop
  <2>2. CASE a = Loop /\ ~Connect(a)
    BY <1>3, <2>2, ReadLoop, UpdateLoop, CycleLoop
  <2>3. CASE a = Loop /\ Connect(a)
    <3>1. pc[Loop] \in {"connect", "add", "create"}
      BY <2>3 DEF Connect, At
    <3> QED  BY <3>1 DEF LoopInv, Roles, Refreshing
  <2> QED  BY <2>1, <2>2, <2>3
<1>4. ASSUME UNCHANGED <<cache, pc, loc>>
      PROVE  LoopInv'
  <2>1. cache' = cache /\ pc' = pc /\ loc' = loc /\ Busy' = Busy
    BY <1>4 DEF Busy
  <2> QED  BY <2>1, LoopKept DEF At
<1>5. ASSUME NEW j \in Joints, Answer(j)
      PROVE  LoopInv'
  BY <1>4, <1>5, AnswerPost
<1>6. CASE UNCHANGED vars
  BY <1>4, <1>6 DEF vars, dataVars
<1> QED  BY <1>1, <1>2, <1>3, <1>5, <1>6 DEF Next

(* What the guard counted, against the frames it was given: at most them,  *)
(* at least the sure overloads at their end, and of the sure ones nothing  *)
(* but overloads and torques that are not known.                           *)
Bounded(j) == counts[j] <= Len(frames) \/ Len(frames) = MaxCount

Heavy(f, j, m) ==
  \A k \in 1 .. m : Ago(f, k).sure /\ Ago(f, k).saw[j] = "heavy"

Reached(j) ==
  \A m \in 1 .. Len(frames) : Heavy(frames, j, m) => counts[j] >= m

Honest(j) ==
  \A m \in 1 .. Len(frames) :
    m <= counts[j] /\ Ago(frames, m).sure =>
      Ago(frames, m).saw[j] \in {"heavy", "None"}

CountInv ==
  /\ reported = {j \in Joints : counts[j] >= MaxCount}
  /\ \A j \in Joints : Bounded(j) /\ Reached(j) /\ Honest(j)

(* A guard that was made or reset has nothing counted. *)
LEMMA NoCountsInv ==
  ASSUME counts = NoCounts, frames = <<>>, reported = {}
  PROVE  CountInv
BY ConstantsAssumption
   DEF CountInv, NoCounts, Bounded, Reached, Honest

(* One more frame, and one more count or none. *)
LEMMA CheckCount ==
  ASSUME TypeOK, LoopInv, CountInv, NEW a \in Threads, Check(a)
  PROVE  CountInv'
<1> DEFINE state == loc[Loop].state
           saw == loc[Loop].saw
           frame == [saw |-> saw, sure |-> loc[Loop].alone]
<1>1. a = Loop /\ Loop \in Threads /\ At(Loop, "check")
  <2>1. At(a, "check")
    BY CheckPost
  <2> QED  BY <2>1 DEF LoopInv, Roles
<1>2. /\ TypeOK' /\ counts' = Counted(state)
      /\ reported' = {j \in Joints : counts'[j] >= MaxCount}
      /\ frame \in Frames
      /\ frames' = Pushed(frame)
  BY <1>1, CheckPost
<1>3. /\ Len(frames') \in 1 .. MaxCount /\ Len(frames) \in Nat
      /\ Len(frames') = Len(frames) + 1 \/ Len(frames') = MaxCount
      /\ Ago(frames', 1) = frame
      /\ \A m \in 2 .. Len(frames') :
           /\ m - 1 \in 1 .. Len(frames)
           /\ Ago(frames', m) = Ago(frames, m - 1)
  <2> HIDE DEF frame
  <2>1. /\ frame \in Frames
        /\ frames' = Pushed(frame)
    BY <1>2
  <2> QED  BY <2>1, PushedFrames
<1>4. frame.sure => \A j \in Joints : Seen(state[j].torq, saw[j])
  BY <1>1 DEF LoopInv, StateSeen, At
<1>5. /\ frame.saw = saw
      /\ MaxCount \in Nat /\ Len(frames) <= MaxCount
  BY ConstantsAssumption DEF TypeOK, GhostTypes
<1>6. saw \in [Joints -> Torques \cup {"None"}]
  BY <1>1, CheckPost
<1>7. ASSUME NEW j \in Joints
      PROVE  /\ counts[j] \in Nat
             /\ counts'[j] = IF state[j].torq \in {"heavy", "wild"}
                             THEN counts[j] + 1 ELSE 0
  BY <1>2 DEF TypeOK, DataTypes, Counted
<1> HIDE DEF state, saw, frame
<1>8. ASSUME NEW j \in Joints
      PROVE  Bounded(j)'
  <2>1. Bounded(j)
    BY DEF CountInv
  <2> QED  BY <1>3, <1>5, <1>7, <2>1 DEF Bounded
<1>9. ASSUME NEW j \in Joints
      PROVE  Reached(j)'
  <2> SUFFICES ASSUME NEW m \in 1 .. Len(frames'), Heavy(frames', j, m)
               PROVE  counts'[j] >= m
    BY DEF Reached
  <2>1. m \in Nat /\ m >= 1
    BY <1>3
  <2>2. counts'[j] = counts[j] + 1
    <3>1. frame.sure /\ saw[j] = "heavy"
      BY <1>3, <1>5, <2>1 DEF Heavy
    <3>2. state[j].torq = "heavy"
      BY <1>4, <3>1 DEF Seen
    <3> QED  BY <1>7, <3>2
  <2>3. CASE m = 1
    BY <1>7, <2>2, <2>3
  <2>4. CASE m # 1
    <3>1. m \in 2 .. Len(frames') /\ m - 1 \in 1 .. Len(frames)
      BY <1>3, <2>1, <2>4
    <3>2. Heavy(frames, j, m - 1)
      <4> SUFFICES ASSUME NEW k \in 1 .. m - 1
                   PROVE  Ago(frames, k).sure /\ Ago(frames, k).saw[j] = "heavy"
        BY DEF Heavy
      <4>1. k + 1 \in 2 .. Len(frames') /\ k + 1 \in 1 .. m /\ (k + 1) - 1 = k
        BY <1>3, <2>1, <3>1
      <4>2. Ago(frames', k + 1) = Ago(frames, k)
        BY <1>3, <4>1
      <4>3. Ago(frames', k + 1).sure /\ Ago(frames', k + 1).saw[j] = "heavy"
        BY <4>1 DEF Heavy
      <4> QED  BY <4>2, <4>3
    <3>3. counts[j] >= m - 1
      BY <3>1, <3>2 DEF CountInv, Reached
    <3> QED  BY <1>7, <2>1, <2>2, <3>3
  <2> QED  BY <2>3, <2>4
<1>10. ASSUME NEW j \in Joints
       PROVE  Honest(j)'
  <2> SUFFICES ASSUME NEW m \in 1 .. Len(frames'), m <= counts'[j],
                      Ago(frames', m).sure
               PROVE  Ago(frames', m).saw[j] \in {"heavy", "None"}
    BY DEF Honest
  <2>1. m \in Nat /\ m >= 1
    BY <1>3
  <2>2. /\ state[j].torq \in {"heavy", "wild"}
        /\ counts'[j] = counts[j] + 1
    BY <1>7, <2>1
  <2>3. CASE m = 1
    <3>1. frame.sure /\ Ago(frames', m).saw[j] = saw[j]
      BY <1>3, <1>5, <2>3
    <3>2. Seen(state[j].torq, saw[j]) /\ saw[j] \in Torques \cup {"None"}
      BY <1>4, <1>6, <3>1
    <3> QED  BY <2>2, <3>1, <3>2 DEF Seen, Torques
  <2>4. CASE m # 1
    <3>1. /\ m \in 2 .. Len(frames') /\ m - 1 \in 1 .. Len(frames)
          /\ Ago(frames', m) = Ago(frames, m - 1)
      BY <1>3, <2>1, <2>4
    <3>2. m - 1 <= counts[j]
      BY <1>7, <2>1, <2>2
    <3> QED  BY <3>1, <3>2 DEF CountInv, Honest
  <2> QED  BY <2>3, <2>4
<1> QED  BY <1>2, <1>8, <1>9, <1>10 DEF CountInv

(* CountInv is inductive, given the types and what the cycle knows. *)
LEMMA CountNext == TypeOK /\ LoopInv /\ CountInv /\ [Next]_vars => CountInv'
<1> SUFFICES ASSUME TypeOK, LoopInv, CountInv, [Next]_vars PROVE CountInv'
  OBVIOUS
<1>1. ASSUME UNCHANGED counts, UNCHANGED frames, UNCHANGED reported
      PROVE  CountInv'
  BY <1>1 DEF CountInv, Bounded, Reached, Honest, Heavy
<1>2. ASSUME NEW a \in Threads, Check(a)
      PROVE  CountInv'
  BY <1>2, CheckCount
<1>3. ASSUME NEW a \in Threads, Call(a)
      PROVE  CountInv'
  <2>1. CASE UNCHANGED <<counts, frames, reported>>
    BY <1>1, <2>1
  <2>2. CASE counts' = NoCounts /\ frames' = <<>> /\ reported' = {}
    <3>1. NoCounts' = NoCounts
      BY DEF NoCounts
    <3> QED  BY <2>2, ConstantsAssumption
            DEF CountInv, NoCounts, Bounded, Reached, Honest
  <2> QED  BY <1>3, <2>1, <2>2, CallPost
<1>4. ASSUME NEW a \in Threads,
             \/ Read(a) \/ ReadRaises(a) \/ Update(a) \/ Stamp(a) \/ Tick(a)
             \/ Snapshot(a) \/ Publish(a) \/ Write(a) \/ Close(a) \/ Connect(a)
      PROVE  CountInv'
  BY <1>1, <1>4
     DEF Read, ReadRaises, Update, Stamp, Tick, Snapshot, Publish, Write, Close,
         Connect, dataVars, ghosts
<1>5. ASSUME NEW j \in Joints, Answer(j)
      PROVE  CountInv'
  BY <1>1, <1>5 DEF Answer, ghosts
<1>6. CASE UNCHANGED vars
  BY <1>1, <1>6 DEF vars, dataVars, ghosts
<1> QED  BY <1>2, <1>3, <1>4, <1>5, <1>6 DEF Next

(* What the motors feel is what the guard reports: a joint that was over   *)
(* the limit in the last MaxCount frames is reported, and one that is      *)
(* reported was within it in none of them (overcurrent.py:94), as far as   *)
(* the frames are those of a cycle that refreshed alone.                   *)
THEOREM OverloadsTrip == Spec => []OverloadTrips
<1>1. Init => CountInv
  BY NoCountsInv DEF Init
<1>2. TypeOK /\ CountInv => OverloadTrips
  <2> SUFFICES ASSUME TypeOK, CountInv, NEW j \in Joints
               PROVE  /\ Len(frames) = MaxCount
                           /\ (\A k \in 1 .. MaxCount :
                                 frames[k].sure /\ frames[k].saw[j] = "heavy")
                           => j \in reported
                      /\ j \in reported =>
                           /\ Len(frames) = MaxCount
                           /\ \A k \in 1 .. MaxCount :
                                frames[k].sure =>
                                  frames[k].saw[j] \in {"heavy", "None"}
    BY DEF OverloadTrips
  <2>1. /\ MaxCount \in Nat /\ MaxCount >= 1
        /\ Len(frames) \in Nat /\ Len(frames) <= MaxCount
        /\ counts[j] \in Nat
        /\ reported = {i \in Joints : counts[i] >= MaxCount}
        /\ Bounded(j) /\ Reached(j) /\ Honest(j)
    BY ConstantsAssumption DEF TypeOK, GhostTypes, DataTypes, CountInv
  <2>2. ASSUME Len(frames) = MaxCount,
               \A k \in 1 .. MaxCount :
                 frames[k].sure /\ frames[k].saw[j] = "heavy"
        PROVE  j \in reported
    <3>1. Heavy(frames, j, MaxCount)
      <4>1. \A k \in 1 .. MaxCount : Len(frames) + 1 - k \in 1 .. MaxCount
        BY <2>1, <2>2
      <4> QED  BY <2>2, <4>1 DEF Heavy, Ago
    <3>2. MaxCount \in 1 .. Len(frames)
      BY <2>1, <2>2
    <3> QED  BY <2>1, <3>1, <3>2 DEF Reached
  <2>3. ASSUME j \in reported
        PROVE  /\ Len(frames) = MaxCount
               /\ \A k \in 1 .. MaxCount :
                    frames[k].sure => frames[k].saw[j] \in {"heavy", "None"}
    <3>1. counts[j] >= MaxCount
      BY <2>1, <2>3
    <3>2. Len(frames) = MaxCount
      BY <2>1, <3>1 DEF Bounded
    <3>3. ASSUME NEW k \in 1 .. MaxCount, frames[k].sure
          PROVE  frames[k].saw[j] \in {"heavy", "None"}
      <4> DEFINE m == MaxCount + 1 - k
      <4>1. m \in 1 .. Len(frames) /\ m <= counts[j] /\ Len(frames) + 1 - m = k
        BY <2>1, <3>1, <3>2
      <4>2. Ago(frames, m) = frames[k]
        BY <4>1 DEF Ago
      <4> QED  BY <2>1, <3>3, <4>1, <4>2 DEF Honest
    <3> QED  BY <3>2, <3>3
  <2> QED  BY <2>2, <2>3
<1> QED
  BY <1>1, <1>2, InitLoop, LoopNext, CountNext, FeedbackTypes, PTL DEF Spec

-----------------------------------------------------------------------------
(***************************************************************************)
(* WriteFailsOnlyUnderClose: the segment goes after the connection.        *)
(***************************************************************************)
(* No thread connects between the steps of a close(): nothing in Arm keeps *)
(* them apart, and a refresh that begins after such a connect() finds its  *)
(* segment gone without a close() that came between.                       *)
ConnectsApart ==
  \A t, u \in Threads : At(t, "connect") => pc[u] \notin {"clear", "drop"}

(* The connection is gone from the first step of a close() to the last, so *)
(* that nothing begins then; what was under way is marked by the second.   *)
ClosePhase(t) ==
  /\ pc[t] \in {"clear", "drop"} => ~connected
  /\ At(t, "drop") => \A u \in Busy : loc[u].cut

WriteCut(t) == At(t, "write") /\ ~shm => loc[t].cut

CloseInv == \A t \in Threads : ClosePhase(t) /\ WriteCut(t)

(* A step that neither connects nor closes, and begins no refresh. *)
LEMMA CloseKept ==
  ASSUME CloseInv, NEW a \in Threads, UNCHANGED connected, UNCHANGED shm,
         \A u \in Threads : u # a => loc'[u] = loc[u] /\ pc'[u] = pc[u],
         pc'[a] \notin {"clear", "drop"},
         pc'[a] \in Refreshing => a \in Busy /\ loc'[a].cut = loc[a].cut,
         pc'[a] = "write" => shm
  PROVE  CloseInv'
<1> SUFFICES ASSUME NEW t \in Threads PROVE ClosePhase(t)' /\ WriteCut(t)'
  BY DEF CloseInv
<1>1. ClosePhase(t) /\ WriteCut(t)
  BY DEF CloseInv
<1>2. ClosePhase(t)'
  <2>1. pc'[t] \in {"clear", "drop"} => t # a /\ pc'[t] = pc[t]
    OBVIOUS
  <2>2. \A u \in Busy' : u \in Busy /\ loc'[u].cut = loc[u].cut
    BY DEF Busy
  <2> QED  BY <1>1, <2>1, <2>2 DEF ClosePhase, At
<1>3. WriteCut(t)'
  BY <1>1 DEF WriteCut, At
<1> QED  BY <1>2, <1>3

(* A refresh begins only while there is a connection, so not during the    *)
(* last steps of a close().                                                *)
LEMMA CallClose ==
  ASSUME TypeOK, CloseInv, NEW a \in Threads, Call(a)
  PROVE  CloseInv'
<1>1. /\ At(a, "idle") /\ UNCHANGED <<connected, shm>>
  BY CallPost DEF armVars
<1>2. CASE Refresh(a) /\ (pc' # pc \/ loc' # loc)
  <2>1. /\ connected /\ pc'[a] = "read"
        /\ \A u \in Threads : u # a =>
             /\ pc'[u] = pc[u]
             /\ loc'[u] = IF u = Loop /\ u \in Busy
                          THEN [loc[u] EXCEPT !.alone = FALSE] ELSE loc[u]
    BY <1>1, <1>2, RefreshPost
  <2> SUFFICES ASSUME NEW t \in Threads PROVE ClosePhase(t)' /\ WriteCut(t)'
    BY DEF CloseInv
  <2>2. ClosePhase(t)'
    <3>1. pc[t] \notin {"clear", "drop"}
      BY <2>1 DEF CloseInv, ClosePhase
    <3>2. pc'[t] \notin {"clear", "drop"}
      BY <2>1, <3>1
    <3> QED  BY <3>2 DEF ClosePhase, At
  <2>3. WriteCut(t)'
    <3> SUFFICES ASSUME pc'[t] = "write", ~shm PROVE loc'[t].cut
      BY <1>1 DEF WriteCut, At
    <3>1. t # a /\ pc[t] = "write"
      BY <2>1
    <3>2. loc[t].cut
      BY <3>1 DEF CloseInv, WriteCut, At
    <3>3. loc[t] \in Locals
      BY DEF TypeOK, ThreadTypes
    <3>4. loc'[t] = loc[t] \/ loc'[t] = [loc[t] EXCEPT !.alone = FALSE]
      BY <2>1, <3>1
    <3> QED  BY <3>2, <3>3, <3>4 DEF Locals
  <2> QED  BY <2>2, <2>3
<1>3. CASE UNCHANGED <<pc, loc>>
  BY <1>1, <1>3 DEF CloseInv, ClosePhase, WriteCut, At, Busy
<1>4. CASE /\ pc'[a] \in {"close", "connect"}
           /\ \A u \in Threads : u # a => loc'[u] = loc[u] /\ pc'[u] = pc[u]
  BY <1>1, <1>4, CloseKept DEF Refreshing
<1> QED  BY <1>2, <1>3, <1>4, CallPost

(* The steps of a refresh: it comes to the write only with a segment. *)
LEMMA RefreshClose ==
  ASSUME TypeOK, CloseInv, NEW a \in Threads,
         \/ Read(a) \/ ReadRaises(a) \/ Update(a) \/ Stamp(a) \/ Tick(a)
         \/ Snapshot(a) \/ Publish(a) \/ Write(a) \/ Check(a)
  PROVE  CloseInv'
<1>1. ASSUME UNCHANGED armVars, a \in Busy, loc'[a].cut = loc[a].cut,
             pc'[a] \in {"read", "update", "tick", "snapshot", "publish"},
             \A u \in Threads : u # a => loc'[u] = loc[u] /\ pc'[u] = pc[u]
      PROVE  CloseInv'
  BY <1>1, CloseKept DEF armVars
<1>2. ASSUME UNCHANGED armVars, pc'[a] \in {"check", "idle"},
             \A u \in Threads : u # a => loc'[u] = loc[u] /\ pc'[u] = pc[u]
      PROVE  CloseInv'
  BY <1>2, CloseKept DEF armVars, Refreshing
<1>3. CASE Read(a)
  BY <1>1, <1>3, ReadPost DEF At, Busy, Refreshing
<1>4. CASE Update(a)
  BY <1>1, <1>4, UpdatePost DEF At, Busy, Refreshing
<1>5. CASE Stamp(a)
  BY <1>1, <1>5, StampPost DEF At, Busy, Refreshing
<1>6. CASE Tick(a)
  BY <1>1, <1>6, TickPost DEF At, Busy, Refreshing
<1>7. CASE Snapshot(a)
  BY <1>1, <1>7, SnapshotPost DEF At, Busy, Refreshing
<1>8. CASE Publish(a)
  <2>1. CASE shm /\ pc'[a] = "write" /\ loc' = loc
    <3>1. a \in Busy /\ UNCHANGED <<connected, shm>>
      BY <1>8, PublishPost DEF At, Busy, Refreshing, armVars
    <3>2. \A u \in Threads : u # a => loc'[u] = loc[u] /\ pc'[u] = pc[u]
      BY <1>8, PublishPost
    <3> QED  BY <2>1, <3>1, <3>2, CloseKept
  <2>2. CASE pc'[a] \in {"check", "idle"}
    BY <1>2, <1>8, <2>2, PublishPost
  <2> QED  BY <1>8, <2>1, <2>2, PublishPost
<1>9. CASE Write(a)
  BY <1>2, <1>9, WritePost
<1>10. CASE Check(a)
  BY <1>2, <1>10, CheckPost
<1>11. CASE ReadRaises(a)
  BY <1>2, <1>11, RaisesPost
<1> QED
  BY <1>3, <1>4, <1>5, <1>6, <1>7, <1>8, <1>9, <1>10, <1>11

(* The three steps of close(): what is under way is marked before the      *)
(* segment goes.                                                           *)
LEMMA CloseClose ==
  ASSUME TypeOK, CloseInv, NEW a \in Threads, Close(a)
  PROVE  CloseInv'
<1>1. \A u \in Threads : u # a => pc'[u] = pc[u]
  BY ClosePost
<1>2. Busy' = Busy /\ a \notin Busy
  <2>1. pc[a] \notin Refreshing /\ pc'[a] \notin Refreshing
    BY ClosePost DEF Refreshing, At
  <2> QED  BY <1>1, <2>1 DEF Busy
<1>3. \A t \in Threads : pc'[t] = "write" => pc[t] = "write" /\ t # a
  BY <1>1, ClosePost
<1>4. CASE /\ At(a, "close") /\ ~connected' /\ pc'[a] = "clear"
           /\ UNCHANGED <<handles, shm, loc, driver>>
  <2>1. \A t \in Threads : ClosePhase(t)'
    BY <1>1, <1>2, <1>4 DEF CloseInv, ClosePhase, At
  <2>2. \A t \in Threads : WriteCut(t)'
    BY <1>3, <1>4 DEF CloseInv, WriteCut, At
  <2> QED  BY <2>1, <2>2 DEF CloseInv
<1>5. CASE /\ At(a, "clear") /\ pc'[a] = "drop" /\ UNCHANGED <<connected, shm>>
           /\ loc' = [u \in Threads |->
                        IF u \in Busy THEN [loc[u] EXCEPT !.cut = TRUE]
                        ELSE loc[u]]
  <2>1. \A u \in Busy : u \in Threads /\ loc[u] \in Locals
    BY DEF TypeOK, ThreadTypes, Busy
  <2>2. \A u \in Busy : loc'[u] = [loc[u] EXCEPT !.cut = TRUE]
    BY <1>5, <2>1
  <2>3. \A u \in Busy : loc'[u].cut
    BY <2>1, <2>2 DEF Locals
  <2>4. ~connected'
    BY <1>5 DEF CloseInv, ClosePhase, At
  <2>5. \A t \in Threads : ClosePhase(t)'
    BY <1>2, <2>3, <2>4 DEF ClosePhase
  <2>6. \A t \in Threads : WriteCut(t)'
    BY <1>2, <2>3 DEF WriteCut, At, Busy, Refreshing
  <2> QED  BY <2>5, <2>6 DEF CloseInv
<1>6. CASE /\ At(a, "drop") /\ ~shm' /\ UNCHANGED connected
           /\ pc'[a] \in {"connect", "idle"}
           /\ \A u \in Threads : u # a => loc'[u] = loc[u]
  <2>1. \A u \in Busy : loc'[u].cut
    <3>1. \A u \in Busy : u \in Threads /\ u # a /\ loc[u].cut
      BY <1>2, <1>6 DEF CloseInv, ClosePhase, Busy
    <3> QED  BY <1>6, <3>1
  <2>2. \A t \in Threads : ClosePhase(t)'
    BY <1>1, <1>2, <1>6, <2>1 DEF CloseInv, ClosePhase, At
  <2>3. \A t \in Threads : WriteCut(t)'
    BY <1>2, <2>1 DEF WriteCut, At, Busy, Refreshing
  <2> QED  BY <2>2, <2>3 DEF CloseInv
<1> QED  BY <1>4, <1>5, <1>6, ClosePost

(* A connection that is made while no close() is at its last steps. *)
LEMMA ConnectClose ==
  ASSUME TypeOK, CloseInv, ConnectsApart, NEW a \in Threads, Connect(a)
  PROVE  CloseInv'
<1>1. /\ pc[a] \notin Refreshing
      /\ pc'[a] \in {"add", "create", "idle"}
      /\ \A u \in Threads : u # a => loc'[u] = loc[u] /\ pc'[u] = pc[u]
  BY ConnectPost
<1>2. pc'[a] \notin Refreshing /\ pc'[a] \notin {"clear", "drop", "write"}
  BY <1>1 DEF Refreshing
<1>3. Busy' = Busy /\ a \notin Busy
  BY <1>1, <1>2 DEF Busy
<1>4. CASE At(a, "add") /\ UNCHANGED <<connected, shm>>
  BY <1>1, <1>2, <1>4, CloseKept
<1>5. CASE At(a, "connect") /\ UNCHANGED shm
  <2>1. \A t \in Threads : ClosePhase(t)'
    <3>1. \A t \in Threads : pc'[t] \notin {"clear", "drop"}
      BY <1>1, <1>2, <1>5 DEF ConnectsApart
    <3> QED  BY <3>1 DEF ClosePhase, At
  <2>2. \A t \in Threads : WriteCut(t)'
    BY <1>1, <1>2, <1>5 DEF CloseInv, WriteCut, At
  <2> QED  BY <2>1, <2>2 DEF CloseInv
<1>6. CASE shm' /\ UNCHANGED connected
  <2>1. \A t \in Threads : ClosePhase(t)'
    <3> SUFFICES ASSUME NEW t \in Threads PROVE ClosePhase(t)'
      OBVIOUS
    <3>1. pc'[t] \in {"clear", "drop"} => t # a /\ pc'[t] = pc[t]
      BY <1>1, <1>2
    <3>2. \A u \in Busy : loc'[u] = loc[u]
      BY <1>1, <1>3 DEF Busy
    <3> QED  BY <1>3, <1>6, <3>1, <3>2 DEF CloseInv, ClosePhase, At
  <2>2. \A t \in Threads : WriteCut(t)'
    BY <1>6 DEF WriteCut
  <2> QED  BY <2>1, <2>2 DEF CloseInv
<1> QED  BY <1>4, <1>5, <1>6, ConnectPost

(* CloseInv is inductive, as long as connections are made apart. *)
LEMMA CloseNext ==
  TypeOK /\ CloseInv /\ ConnectsApart /\ [Next]_vars => CloseInv'
<1> SUFFICES ASSUME TypeOK, CloseInv, ConnectsApart, [Next]_vars
             PROVE  CloseInv'
  OBVIOUS
<1>1. ASSUME NEW a \in Threads,
             \/ Call(a) \/ Read(a) \/ ReadRaises(a) \/ Update(a) \/ Stamp(a)
             \/ Tick(a) \/ Snapshot(a) \/ Publish(a) \/ Write(a) \/ Check(a)
             \/ Close(a) \/ Connect(a)
      PROVE  CloseInv'
  BY <1>1, CallClose, RefreshClose, CloseClose, ConnectClose
<1>2. ASSUME UNCHANGED <<armVars, pc, loc>>
      PROVE  CloseInv'
  BY <1>2 DEF armVars, CloseInv, ClosePhase, WriteCut, At, Busy
<1>3. ASSUME NEW j \in Joints, Answer(j)
      PROVE  CloseInv'
  BY <1>2, <1>3, AnswerPost
<1>4. CASE UNCHANGED vars
  BY <1>2, <1>4 DEF vars
<1> QED  BY <1>1, <1>3, <1>4 DEF Next

(* The write of a refresh finds its segment gone only when a close() came  *)
(* between the test and the write (arm.py:435), in every behaviour in      *)
(* which no thread connects between the steps of another one's close().    *)
THEOREM WritesFailUnderClose ==
  Spec /\ []ConnectsApart => []WriteFailsOnlyUnderClose
<1>1. Init => CloseInv
  BY DEF Init, CloseInv, ClosePhase, WriteCut, At
<1>2. CloseInv => WriteFailsOnlyUnderClose
  BY DEF CloseInv, WriteCut, WriteFailsOnlyUnderClose
<1> QED  BY <1>1, <1>2, CloseNext, FeedbackTypes, PTL DEF Spec

(* One thread calls the arm besides the control loop. *)
OneCaller == \A t, u \in Threads \ {Loop} : t = u

(* The same with one application thread, which cannot connect while it     *)
(* closes: the loop does neither.                                          *)
COROLLARY OneCallerWrites ==
  ASSUME OneCaller
  PROVE  Spec => []WriteFailsOnlyUnderClose
<1>1. LoopInv => ConnectsApart
  BY DEF OneCaller, LoopInv, Roles, ConnectsApart, At, Refreshing
<1>2. Spec => []ConnectsApart
  BY <1>1, InitLoop, LoopNext, FeedbackTypes, PTL DEF Spec
<1> QED  BY <1>2, WritesFailUnderClose, PTL
=============================================================================
