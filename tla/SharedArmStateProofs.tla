------------------------ MODULE SharedArmStateProofs ------------------------
(***************************************************************************)
(* What holds of SharedArmState for any number of writers, readers, joints *)
(* and segments: while no two writers held the lock at once, the tick of a *)
(* segment only grows, and a reader that read its first tick with the lock *)
(* free, and not over what a write() that raised left half written, returns*)
(* no torn state, over every close, death and restart of the arm's process.*)
(***************************************************************************)
EXTENDS SharedArmState, SequenceTheorems, TLAPS

WriterSteps == {"idle", "test", "set", "verify", "tick_read", "tick_write",
                "joint", "release"}

ReaderSteps == {"idle", "spin", "before", "joint", "after", "lock"}

Names == 0 .. MaxWrites

Blocks == [Joints -> Names]

(* The values each variable takes, and who needs a segment. *)
Typed ==
  /\ mem \in [Segments -> [lock : BOOLEAN, tick : Nat, block : Blocks]]
  /\ seg \in Segments \cup {NoSegment} /\ named \in Segments \cup {NoSegment}
  /\ made \in Nat
  /\ rseg \in [Readers -> Segments \cup {NoSegment}]
  /\ wpc \in [Writers -> WriterSteps] /\ old \in [Writers -> Nat]
  /\ wi \in [Writers -> Nat] /\ name \in [Writers -> Names]
  /\ rpc \in [Readers -> ReaderSteps] /\ before \in [Readers -> Nat]
  /\ ri \in [Readers -> Nat] /\ got \in [Readers -> Blocks]
  /\ tries \in [Readers -> Nat]
  /\ out \in [Readers -> [tick : Int, data : Blocks]]
  /\ writes \in Names /\ published \in [Segments -> Seq(Nat)]
  /\ both \in BOOLEAN /\ half \subseteq Segments /\ late \in [Readers -> BOOLEAN]
  /\ \A w \in Writers : wpc[w] # "idle" => seg \in Segments
  /\ \A r \in Readers : rpc[r] # "idle" => rseg[r] \in Segments

-----------------------------------------------------------------------------
(***************************************************************************)
(* The inductive invariant.                                                *)
(***************************************************************************)
(* Data is what the write() of this tick published in segment s. *)
DataOf(s, tick, data) ==
  \/ tick = 0 /\ data = Blank
  \/ /\ tick \in 1 .. Len(published[s])
     /\ data = [j \in Joints |-> published[s][tick]]

(* The blocks of the segment are all of the write() its tick counts. *)
Settled(s) == DataOf(s, mem[s].tick, mem[s].block)

(* A writer has moved the tick of this segment and not released it yet. *)
Filling(w) == wpc[w] \in {"joint", "release"}
Busy(s) == seg = s /\ \E w \in Writers : Filling(w)

(* One writer at a time is inside, with the lock held and the tick it read.*)
LockInv ==
  /\ \A w, v \in Writers : Inside(w) /\ Inside(v) => w = v
  /\ \A w \in Writers : Inside(w) => mem[seg].lock
  /\ \A w \in Writers : wpc[w] = "tick_write" => old[w] = mem[seg].tick

(* Each tick has its write(), and the blocks are filled in order.          *)
FillInv ==
  /\ \A s \in Segments : Len(published[s]) = mem[s].tick
  /\ \A w \in Writers : IF Filling(w)
       THEN /\ mem[seg].tick > 0
            /\ published[seg][mem[seg].tick] = name[w]
            /\ \A j \in Joints : j < wi[w] => mem[seg].block[j] = name[w]
            /\ wpc[w] = "release" /\ seg \notin half => wi[w] > NumJoints
       ELSE wi[w] = 1

(* Where the lock is free nothing is half written, unless a write() raised.*)
FreeInv == \A s \in Segments : ~mem[s].lock /\ s \notin half => Settled(s)

(* What a reader has of its segment is settled as long as the tick is the  *)
(* one it read first, if it read it with the lock free.                    *)
ReadInv(r) ==
  /\ rpc[r] \in {"joint", "after"} /\ ~late[r]
       /\ mem[rseg[r]].tick = before[r] =>
       /\ Settled(rseg[r]) /\ ~Busy(rseg[r])
       /\ \A j \in Joints : j < ri[r] => got[r][j] = mem[rseg[r]].block[j]
  /\ rpc[r] = "after" => ri[r] > NumJoints
  /\ rpc[r] = "lock" /\ ~late[r] => DataOf(rseg[r], before[r], got[r])

(* A reader is never ahead of its segment. *)
TickInv(r) ==
  /\ rseg[r] = NoSegment => out[r].tick = -1
  /\ rseg[r] \in Segments => out[r].tick <= mem[rseg[r]].tick
  /\ rpc[r] \in {"joint", "after", "lock"} =>
       out[r].tick <= before[r] /\ before[r] <= mem[rseg[r]].tick

(* NoTornReadUnlessLate, of one reader. *)
OutInv(r) ==
  rpc[r] = "idle" /\ tries[r] < MaxTries /\ ~late[r] => Whole(out[r], rseg[r])

WriterInv == LockInv /\ FillInv /\ FreeInv
ReaderInv(r) == ReadInv(r) /\ TickInv(r) /\ OutInv(r)

IInv ==
  /\ Typed
  /\ ~both => WriterInv /\ \A r \in Readers : ReaderInv(r)
-----------------------------------------------------------------------------
(***************************************************************************)
(* Type correctness.                                                       *)
(***************************************************************************)
LEMMA Numbers ==
  /\ NoSegment \notin Segments
  /\ Blank \in Blocks
  /\ 1 \in Joints
  /\ 0 \in Names /\ Names \subseteq Nat
BY ConstantsAssumption DEF NoSegment, Segments, Blank, Blocks, Joints, Names

(* No segment exists yet. *)
LEMMA TypedInit == Init => Typed
<1>1. Fresh \in [lock : BOOLEAN, tick : Nat, block : Blocks]
  BY Numbers DEF Fresh
<1>2. NoResult \in [tick : Int, data : Blocks]
  BY Numbers DEF NoResult
<1>3. Blank \in Blocks
  BY Numbers
<1>4. HAVE Init
<1>5. mem \in [Segments -> [lock : BOOLEAN, tick : Nat, block : Blocks]]
  BY <1>1, <1>4 DEF Init
<1>6. /\ wpc \in [Writers -> WriterSteps] /\ rpc \in [Readers -> ReaderSteps]
      /\ \A w \in Writers : wpc[w] = "idle"
      /\ \A r \in Readers : rpc[r] = "idle"
  BY <1>4 DEF Init, WriterSteps, ReaderSteps
<1>7. /\ old \in [Writers -> Nat] /\ wi \in [Writers -> Nat]
      /\ name \in [Writers -> Names] /\ writes \in Names
      /\ published \in [Segments -> Seq(Nat)] /\ both \in BOOLEAN
      /\ half \subseteq Segments
  <2>1. <<>> \in Seq(Nat)
    OBVIOUS
  <2>2. QED
    BY <1>4, <2>1, Numbers DEF Init
<1>8. /\ before \in [Readers -> Nat] /\ ri \in [Readers -> Nat]
      /\ got \in [Readers -> Blocks] /\ tries \in [Readers -> Nat]
      /\ out \in [Readers -> [tick : Int, data : Blocks]]
      /\ late \in [Readers -> BOOLEAN]
  BY <1>2, <1>3, <1>4 DEF Init
<1>9. /\ seg \in Segments \cup {NoSegment} /\ named \in Segments \cup {NoSegment}
      /\ made \in Nat /\ rseg \in [Readers -> Segments \cup {NoSegment}]
  BY <1>4 DEF Init
<1>10. QED
  BY <1>5, <1>6, <1>7, <1>8, <1>9 DEF Typed

(* Types: segments are made and removed. *)
LEMMA TypedOpening ==
  ASSUME Typed, Open \/ Close \/ ProcessDies
  PROVE  Typed'
<1>1. CASE Open
  <2>1. made' \in Nat /\ seg' \in Segments /\ named' \in Segments \cup {NoSegment}
    BY <1>1, ConstantsAssumption DEF Open, Typed, Segments
  <2>2. QED
    BY <1>1, <2>1 DEF Open, Typed, writerVars, readerVars
<1>2. CASE LetGo /\ named' \in {named, NoSegment}
  BY <1>2, Numbers DEF LetGo, Typed, readerVars, WriterSteps
<1>3. QED
  BY <1>1, <1>2 DEF Close, ProcessDies

(* Types: the steps of a writer. *)
LEMMA TypedWriting ==
  ASSUME Typed, NEW w \in Writers,
         WriteCall(w) \/ WriteStep(w) \/ JointRaises(w)
  PROVE  Typed'
<1>1. CASE WriteCall(w)
  <2>1. writes + 1 \in Names
    BY <1>1, ConstantsAssumption DEF WriteCall, Typed, Names
  <2>2. QED
    BY <1>1, <2>1 DEF WriteCall, WriteGoto, Typed, openVars, readerVars, WriterSteps
<1>2. CASE AcquireTest(w)
  BY <1>2
  DEF AcquireTest, Enter, WriteGoto, Typed, openVars, readerVars, WriterSteps
<1>3. CASE AcquireSet(w)
  BY <1>3 DEF AcquireSet, WriteGoto, Typed, openVars, readerVars, WriterSteps
<1>4. CASE AcquireVerify(w)
  BY <1>4
  DEF AcquireVerify, Enter, WriteGoto, Typed, openVars, readerVars, WriterSteps
<1>5. CASE TickRead(w)
  BY <1>5 DEF TickRead, WriteGoto, Typed, openVars, readerVars, WriterSteps
<1>6. CASE TickWrite(w)
  <2>1. Append(published[seg], name[w]) \in Seq(Nat) /\ seg \in Segments
    BY <1>6, Numbers DEF TickWrite, Typed
  <2>2. old[w] + 1 \in Nat
    BY DEF Typed
  <2>3. QED
    BY <1>6, <2>1, <2>2
    DEF TickWrite, WriteGoto, Typed, openVars, readerVars, WriterSteps
<1>7. CASE JointWrite(w)
  <2>1. seg \in Segments
    BY <1>7 DEF JointWrite, Typed
  <2>2. CASE wi[w] <= NumJoints /\ UNCHANGED <<wpc, half>>
    <3>1. mem' = [mem EXCEPT ![seg].block[wi[w]] = name[w]]
          /\ wi' = [wi EXCEPT ![w] = @ + 1]
      BY <1>7, <2>2 DEF JointWrite, WriteGoto, Typed, WriterSteps
    <3>2. [mem[seg].block EXCEPT ![wi[w]] = name[w]] \in Blocks
      BY <2>1 DEF Typed, Blocks
    <3>3. mem' \in [Segments -> [lock : BOOLEAN, tick : Nat, block : Blocks]]
      BY <2>1, <3>1, <3>2 DEF Typed
    <3>4. UNCHANGED <<seg, named, made, rseg, wpc, old, name, rpc, before, ri,
                      got, tries, out, writes, published, both, half, late>>
      BY <1>7, <2>2 DEF JointWrite, openVars, readerVars
    <3>5. wi' \in [Writers -> Nat]
      BY <3>1 DEF Typed
    <3>6. QED
      BY <3>3, <3>4, <3>5 DEF Typed
  <2>3. CASE WriteGoto(w, "release") /\ UNCHANGED <<mem, wi>> /\ half' = half \ {seg}
    BY <1>7, <2>1, <2>3
    DEF JointWrite, WriteGoto, Typed, openVars, readerVars, WriterSteps
  <2>4. QED
    BY <1>7, <2>2, <2>3 DEF JointWrite
<1>8. CASE Release(w)
  BY <1>8, Numbers DEF Release, WriteGoto, Typed, openVars, readerVars, WriterSteps
<1>9. CASE JointRaises(w)
  <2>1. seg \in Segments
    BY <1>9 DEF JointRaises, Typed
  <2>2. QED
    BY <1>9, <2>1
    DEF JointRaises, WriteGoto, Typed, openVars, readerVars, WriterSteps
<1>10. QED
  BY <1>1, <1>2, <1>3, <1>4, <1>5, <1>6, <1>7, <1>8, <1>9 DEF WriteStep

(* Types: the steps of a reader. *)
LEMMA TypedReading ==
  ASSUME Typed, NEW r \in Readers,
         ReaderOpen(r) \/ ReaderClose(r) \/ ReadCall(r) \/ ReadStep(r)
  PROVE  Typed'
<1>a. ASSUME Return(r)
      PROVE  /\ out' \in [Readers -> [tick : Int, data : Blocks]]
             /\ rpc' \in [Readers -> ReaderSteps]
             /\ before' \in [Readers -> Nat] /\ ri' \in [Readers -> Nat]
             /\ got' \in [Readers -> Blocks]
             /\ rpc' = [rpc EXCEPT ![r] = "idle"]
  <2>1. Result(r) \in [tick : Int, data : Blocks]
    BY DEF Result, Typed
  <2>2. QED
    BY <1>a, <2>1, Numbers DEF Return, Forget, ReadGoto, Typed, ReaderSteps
<1>1. CASE ReaderOpen(r)
  BY <1>1 DEF ReaderOpen, Typed, writerVars, readerVars
<1>2. CASE ReaderClose(r)
  <2>1. NoResult \in [tick : Int, data : Blocks]
    BY Numbers DEF NoResult
  <2>2. QED
    BY <1>2, <2>1 DEF ReaderClose, Typed, writerVars
<1>3. CASE ReadCall(r)
  BY <1>3 DEF ReadCall, ReadGoto, Typed, openVars, writerVars, ReaderSteps
<1>4. CASE ReadSpin(r)
  BY <1>4 DEF ReadSpin, ReadGoto, Typed, openVars, writerVars, ReaderSteps
<1>5. CASE ReadBefore(r)
  BY <1>5
  DEF ReadBefore, ReadGoto, At, Typed, openVars, writerVars, ReaderSteps
<1>6. CASE ReadJoint(r)
  <2>1. rseg[r] \in Segments
    BY <1>6 DEF ReadJoint, Typed
  <2>2. CASE /\ ri[r] <= NumJoints /\ UNCHANGED rpc
             /\ got' = [got EXCEPT ![r][ri[r]] = At(r).block[ri[r]]]
             /\ ri' = [ri EXCEPT ![r] = @ + 1]
    <3>1. CASE ri[r] \in Joints
      <4>1. [got[r] EXCEPT ![ri[r]] = At(r).block[ri[r]]] \in Blocks
        BY <2>1, <3>1 DEF Typed, Blocks, At
      <4>2. got' \in [Readers -> Blocks]
        BY <2>2, <4>1 DEF Typed
      <4>3. QED
        BY <1>6, <2>2, <4>2 DEF ReadJoint, Typed, openVars, writerVars
    <3>2. CASE ri[r] \notin Joints
      <4>1. [got[r] EXCEPT ![ri[r]] = At(r).block[ri[r]]] = got[r]
        BY <3>2 DEF Typed, Blocks
      <4>2. got' \in [Readers -> Blocks]
        BY <2>2, <4>1 DEF Typed
      <4>3. QED
        BY <1>6, <2>2, <4>2 DEF ReadJoint, Typed, openVars, writerVars
    <3>3. QED
      BY <3>1, <3>2
  <2>3. CASE ReadGoto(r, "after") /\ UNCHANGED <<got, ri>>
    BY <1>6, <2>1, <2>3
    DEF ReadJoint, ReadGoto, Typed, openVars, writerVars, ReaderSteps
  <2>4. QED
    BY <1>6, <2>2, <2>3 DEF ReadJoint
<1>7. ASSUME Again(r), UNCHANGED <<mem, openVars, writerVars, late>>,
             rpc[r] # "idle"
      PROVE  Typed'
  <2>1. CASE ReadGoto(r, "spin") /\ Forget(r) /\ UNCHANGED out
    <3>1. tries' \in [Readers -> Nat]
      BY <1>7 DEF Again, Typed
    <3>2. rpc' \in [Readers -> ReaderSteps]
          /\ \A q \in Readers : rpc'[q] # "idle" => rpc[q] # "idle"
      BY <1>7, <2>1 DEF ReadGoto, Typed, ReaderSteps
    <3>3. /\ before' \in [Readers -> Nat] /\ ri' \in [Readers -> Nat]
          /\ got' \in [Readers -> Blocks]
      BY <2>1, Numbers DEF Forget, Typed
    <3>4. QED
      BY <1>7, <2>1, <3>1, <3>2, <3>3 DEF Typed, openVars, writerVars
  <2>2. CASE Return(r)
    <3>1. tries' \in [Readers -> Nat]
      BY <1>7 DEF Again, Typed
    <3>2. \A q \in Readers : rpc'[q] # "idle" => rpc[q] # "idle"
      BY <1>a, <2>2 DEF Typed
    <3>3. QED
      BY <1>7, <1>a, <2>2, <3>1, <3>2 DEF Typed, openVars, writerVars
  <2>3. QED
    BY <1>7, <2>1, <2>2 DEF Again
<1>8. CASE ReadAfter(r)
  <2>1. CASE ReadGoto(r, "lock") /\ UNCHANGED <<before, ri, got, tries, out>>
    BY <1>8, <2>1
    DEF ReadAfter, ReadGoto, Typed, openVars, writerVars, ReaderSteps
  <2>2. CASE Again(r)
    BY <1>7, <1>8, <2>2 DEF ReadAfter
  <2>3. QED
    BY <1>8, <2>1, <2>2 DEF ReadAfter
<1>9. CASE ReadLock(r)
  <2>1. CASE Return(r) /\ UNCHANGED tries
    BY <1>9, <1>a, <2>1 DEF ReadLock, Typed, openVars, writerVars
  <2>2. CASE Again(r)
    BY <1>7, <1>9, <2>2 DEF ReadLock
  <2>3. QED
    BY <1>9, <2>1, <2>2 DEF ReadLock
<1>10. QED
  BY <1>1, <1>2, <1>3, <1>4, <1>5, <1>6, <1>8, <1>9 DEF ReadStep

(* Typed is inductive. *)
LEMMA TypedStep == Typed /\ [Next]_vars => Typed'
<1>1. Typed /\ UNCHANGED vars => Typed'
  BY DEF Typed, vars, openVars, writerVars, readerVars
<1>2. QED
  BY <1>1, TypedOpening, TypedWriting, TypedReading DEF Next
-----------------------------------------------------------------------------
(***************************************************************************)
(* The arm's side: what a step of it leaves to the readers.                *)
(***************************************************************************)
(* The tick of no segment goes back, what was published stays, and a block *)
(* only changes while its segment is busy or with the tick.                *)
Onward ==
  /\ UNCHANGED <<rseg, readerVars>>
  /\ \A s \in Segments :
       /\ mem'[s].tick >= mem[s].tick
       /\ mem'[s].tick = mem[s].tick /\ ~Busy(s) =>
            ~Busy(s)' /\ mem'[s].block = mem[s].block
       /\ Len(published'[s]) >= Len(published[s])
       /\ \A i \in 1 .. Len(published[s]) : published'[s][i] = published[s][i]

(* What was the data of a tick stays the data of that tick. *)
LEMMA DataKept ==
  ASSUME Typed, Typed', Onward, NEW s \in Segments, NEW t, NEW d, DataOf(s, t, d)
  PROVE  DataOf(s, t, d)'
<1>1. Len(published[s]) \in Nat /\ Len(published'[s]) \in Nat
  <2>1. published[s] \in Seq(Nat) /\ published'[s] \in Seq(Nat)
    BY DEF Typed
  <2>2. QED
    BY <2>1
<1>2. CASE t = 0 /\ d = Blank
  BY <1>2 DEF DataOf
<1>3. CASE /\ t \in 1 .. Len(published[s])
           /\ d = [j \in Joints |-> published[s][t]]
  <2>1. t \in 1 .. Len(published'[s]) /\ published'[s][t] = published[s][t]
    BY <1>1, <1>3 DEF Onward
  <2>2. QED
    BY <1>3, <2>1 DEF DataOf
<1>4. QED
  BY <1>2, <1>3 DEF DataOf

(* A whole result is nothing, or the data of its tick. *)
LEMMA WholeIsDataOf ==
  ASSUME NEW x, NEW s
  PROVE  Whole(x, s) <=> x = NoResult \/ DataOf(s, x.tick, x.data)
BY DEF Whole, DataOf

(* A reader whose object has no segment has returned nothing. *)
LEMMA NothingYet ==
  ASSUME NEW r \in Readers, Typed, TickInv(r), OutInv(r),
         rseg[r] = NoSegment, rpc[r] = "idle", tries[r] < MaxTries, ~late[r]
  PROVE  out[r] = NoResult
<1>1. out[r].tick = -1
  BY DEF TickInv
<1>2. Whole(out[r], rseg[r])
  BY DEF OutInv
<1>3. QED
  BY <1>1, <1>2 DEF Whole

(* What a reader knows outlives every step that only adds to memory. *)
LEMMA ReadersKeep ==
  ASSUME Typed, Typed', Onward, NEW r \in Readers, ReaderInv(r)
  PROVE  ReaderInv(r)'
<1>1. /\ rseg' = rseg /\ rpc' = rpc /\ before' = before /\ ri' = ri
      /\ got' = got /\ tries' = tries /\ out' = out /\ late' = late
  BY DEF Onward, readerVars
<1>2. rpc[r] # "idle" => rseg[r] \in Segments
  BY DEF Typed
<1>3. /\ before[r] \in Nat /\ out[r].tick \in Int
      /\ \A s \in Segments : mem[s].tick \in Nat /\ mem'[s].tick \in Nat
  BY DEF Typed
<1>4. ReadInv(r)'
  <2>1. ASSUME rpc[r] \in {"joint", "after"}, ~late[r],
               mem'[rseg[r]].tick = before[r]
        PROVE  /\ Settled(rseg[r])' /\ ~Busy(rseg[r])'
               /\ \A j \in Joints :
                    j < ri[r] => got[r][j] = mem'[rseg[r]].block[j]
    <3>1. rseg[r] \in Segments /\ mem[rseg[r]].tick = before[r]
      BY <1>2, <1>3, <2>1 DEF ReaderInv, TickInv, Onward
    <3>2. /\ Settled(rseg[r]) /\ ~Busy(rseg[r])
          /\ \A j \in Joints : j < ri[r] => got[r][j] = mem[rseg[r]].block[j]
      BY <2>1, <3>1 DEF ReaderInv, ReadInv
    <3>3. ~Busy(rseg[r])' /\ mem'[rseg[r]].block = mem[rseg[r]].block
      <4>1. \A s \in Segments : s = rseg[r] => ~Busy(s)' /\ mem'[s].block = mem[s].block
        BY <2>1, <3>1, <3>2 DEF Onward
      <4>2. QED
        BY <1>1, <3>1, <4>1 DEF Busy
    <3>4. DataOf(rseg[r], mem[rseg[r]].tick, mem[rseg[r]].block)
      BY <3>2 DEF Settled
    <3>5. Settled(rseg[r])'
      BY <1>1, <2>1, <3>1, <3>3, <3>4, DataKept DEF Settled, DataOf
    <3>6. QED
      BY <3>2, <3>3, <3>5
  <2>2. ASSUME rpc[r] = "lock", ~late[r]
        PROVE  DataOf(rseg[r], before[r], got[r])'
    <3>1. rseg[r] \in Segments /\ DataOf(rseg[r], before[r], got[r])
      BY <1>2, <2>2 DEF ReaderInv, ReadInv
    <3>2. QED
      BY <1>1, <3>1, DataKept DEF DataOf
  <2>3. QED
    BY <1>1, <2>1, <2>2 DEF ReadInv, ReaderInv
<1>5. TickInv(r)'
  BY <1>1, <1>2, <1>3 DEF TickInv, ReaderInv, Onward
<1>6. OutInv(r)'
  <2>1. SUFFICES ASSUME rpc[r] = "idle", tries[r] < MaxTries, ~late[r]
                 PROVE  Whole(out[r], rseg[r])'
    BY <1>1 DEF OutInv
  <2>2. CASE rseg[r] = NoSegment
    BY <1>1, <2>1, <2>2, NothingYet DEF ReaderInv, Whole
  <2>3. CASE rseg[r] \in Segments
    <3>1. Whole(out[r], rseg[r])
      BY <2>1 DEF ReaderInv, OutInv
    <3>2. CASE out[r] = NoResult
      BY <1>1, <3>2 DEF Whole
    <3>3. CASE DataOf(rseg[r], out[r].tick, out[r].data)
      <4>1. DataOf(rseg[r], out[r].tick, out[r].data)'
        BY <1>1, <2>3, <3>3, DataKept DEF DataOf
      <4>2. QED
        BY <4>1 DEF Whole, DataOf
    <3>4. QED
      BY <3>1, <3>2, <3>3, WholeIsDataOf
  <2>4. QED
    BY <2>2, <2>3 DEF Typed
<1>7. QED
  BY <1>4, <1>5, <1>6 DEF ReaderInv

-----------------------------------------------------------------------------
(***************************************************************************)
(* The arm's side: its own invariant, action by action.                    *)
(***************************************************************************)
(* Nobody is writing: what is left of WriterInv is that the free segments  *)
(* are settled.                                                            *)
LEMMA NobodyWrites ==
  ASSUME Typed, WriterInv, \A w \in Writers : wpc'[w] = "idle" /\ wi'[w] = 1,
         UNCHANGED <<mem, published, half>>
  PROVE  WriterInv' /\ \A s \in Segments : ~Busy(s)'
BY DEF WriterInv, LockInv, FillInv, FreeInv, Settled, DataOf, Inside, Filling,
       Busy

(* A new segment, or the end of one, leaves the writers what they know. *)
LEMMA OpeningKeeps ==
  ASSUME Typed, WriterInv, Open \/ Close \/ ProcessDies
  PROVE  WriterInv' /\ Onward
<1>1. /\ \A w \in Writers : wpc'[w] = "idle" /\ wi'[w] = 1
      /\ UNCHANGED <<mem, published, half, rseg, readerVars>>
  <2>1. CASE Open
    <3>1. \A w \in Writers : wpc[w] = "idle"
      BY <2>1, Numbers DEF Open, Typed
    <3>2. \A w \in Writers : wi[w] = 1
      BY <3>1 DEF WriterInv, FillInv, Filling
    <3>3. QED
      BY <2>1, <3>1, <3>2 DEF Open, writerVars
  <2>2. CASE LetGo
    BY <2>2 DEF LetGo
  <2>3. QED
    BY <2>1, <2>2 DEF Close, ProcessDies
<1>2. WriterInv' /\ \A s \in Segments : ~Busy(s)'
  BY <1>1, NobodyWrites
<1>3. Onward
  BY <1>1, <1>2 DEF Onward, Typed
<1>4. QED
  BY <1>2, <1>3

(* What an assignment to one field of one segment does. *)
LEMMA OneLock ==
  ASSUME Typed, NEW s \in Segments, NEW x, mem' = [mem EXCEPT ![s].lock = x]
  PROVE  /\ mem'[s].lock = x /\ mem'[s].tick = mem[s].tick
         /\ mem'[s].block = mem[s].block
         /\ \A u \in Segments : u # s => mem'[u] = mem[u]
<1>1. mem \in [Segments -> [lock : BOOLEAN, tick : Nat, block : Blocks]]
  BY DEF Typed
<1>2. QED
  BY <1>1

(* A store into a tick touches nothing else. *)
LEMMA OneTick ==
  ASSUME Typed, NEW s \in Segments, NEW x, mem' = [mem EXCEPT ![s].tick = x]
  PROVE  /\ mem'[s].lock = mem[s].lock /\ mem'[s].tick = x
         /\ mem'[s].block = mem[s].block
         /\ \A u \in Segments : u # s => mem'[u] = mem[u]
<1>1. mem \in [Segments -> [lock : BOOLEAN, tick : Nat, block : Blocks]]
  BY DEF Typed
<1>2. QED
  BY <1>1

(* A store into one word of a block touches nothing else. *)
LEMMA OneBlock ==
  ASSUME Typed, NEW s \in Segments, NEW i \in Nat, NEW x, mem' = [mem EXCEPT ![s].block[i] = x]
  PROVE  /\ mem'[s].lock = mem[s].lock /\ mem'[s].tick = mem[s].tick
         /\ mem'[s].block = [mem[s].block EXCEPT ![i] = x]
         /\ \A u \in Segments : u # s => mem'[u] = mem[u]
<1>1. mem \in [Segments -> [lock : BOOLEAN, tick : Nat, block : Blocks]]
  BY DEF Typed
<1>2. QED
  BY <1>1

(* Steps on the way to the lock, and the one that reads the tick.          *)
LEMMA CallKeeps ==
  ASSUME Typed, Typed', WriterInv, NEW w \in Writers, WriteCall(w)
  PROVE  WriterInv' /\ Onward
<1>1. /\ wpc[w] = "idle" /\ wpc' = [wpc EXCEPT ![w] = "test"]
      /\ name' = [name EXCEPT ![w] = writes + 1]
      /\ UNCHANGED <<mem, openVars, old, wi, published, half, readerVars>>
  BY DEF WriteCall, WriteGoto
<1>2. /\ wpc'[w] = "test"
      /\ \A v \in Writers : v # w => wpc'[v] = wpc[v] /\ name'[v] = name[v]
  BY <1>1 DEF Typed
<1>3. \A v \in Writers : /\ Inside(v)' <=> Inside(v)
                         /\ Filling(v)' <=> Filling(v)
  BY <1>1, <1>2 DEF Inside, Filling
<1>4. LockInv'
  BY <1>1, <1>2, <1>3 DEF LockInv, WriterInv, openVars, Inside
<1>5. FillInv'
  BY <1>1, <1>2, <1>3 DEF FillInv, WriterInv, openVars, Filling
<1>6. FreeInv'
  BY <1>1 DEF FreeInv, WriterInv, Settled, DataOf
<1>7. Onward
  BY <1>1, <1>3 DEF Onward, openVars, Busy, Typed
<1>8. QED
  BY <1>4, <1>5, <1>6, <1>7 DEF WriterInv

(* The steps that take the lock, until two writers hold it at once. *)
LEMMA AcquireKeeps ==
  ASSUME Typed, Typed', WriterInv, ~both', NEW w \in Writers,
         AcquireTest(w) \/ AcquireSet(w) \/ AcquireVerify(w)
  PROVE  WriterInv' /\ Onward
<1>1. /\ wpc[w] \in {"test", "set", "verify"}
      /\ wpc'[w] \in {"test", "set", "verify", "tick_read"}
      /\ \A v \in Writers : v # w => wpc'[v] = wpc[v]
      /\ UNCHANGED <<openVars, old, wi, name, published, half, readerVars>>
  BY DEF AcquireTest, AcquireSet, AcquireVerify, Enter, WriteGoto, Typed
<1>2. /\ seg \in Segments
      /\ \A s \in Segments : /\ mem'[s].tick = mem[s].tick
                             /\ mem'[s].block = mem[s].block
                             /\ mem[s].lock => mem'[s].lock
  <2>1. seg \in Segments
    BY <1>1 DEF Typed
  <2>2. mem' = mem \/ mem' = [mem EXCEPT ![seg].lock = TRUE]
    BY DEF AcquireTest, AcquireSet, AcquireVerify
  <2>3. QED
    BY <2>1, <2>2, OneLock
<1>3. wpc'[w] = "tick_read" =>
        mem[seg].lock /\ \A v \in Writers \ {w} : ~Inside(v)
  BY <1>1, <1>2
  DEF AcquireTest, AcquireSet, AcquireVerify, Enter, WriteGoto, Typed
<1>4. \A v \in Writers : /\ v # w => (Inside(v)' <=> Inside(v))
                         /\ Inside(w)' => wpc'[w] = "tick_read"
                         /\ Filling(v)' <=> Filling(v)
  BY <1>1 DEF Inside, Filling
<1>5. LockInv'
  <2>1. \A v, u \in Writers : Inside(v)' /\ Inside(u)' => v = u
    BY <1>3, <1>4 DEF LockInv, WriterInv
  <2>2. \A v \in Writers : Inside(v)' => mem'[seg'].lock
    BY <1>1, <1>2, <1>3, <1>4 DEF LockInv, WriterInv, openVars
  <2>3. \A v \in Writers : wpc'[v] = "tick_write" => old'[v] = mem'[seg'].tick
    BY <1>1, <1>2 DEF LockInv, WriterInv, openVars
  <2>4. QED
    BY <2>1, <2>2, <2>3 DEF LockInv, Inside
<1>6. FillInv'
  <2>1. \A s \in Segments : Len(published'[s]) = mem'[s].tick
    BY <1>1, <1>2 DEF FillInv, WriterInv
  <2>2. ASSUME NEW v \in Writers, Filling(v)'
        PROVE  /\ mem'[seg].tick > 0
               /\ published[seg][mem'[seg].tick] = name[v]
               /\ \A j \in Joints : j < wi[v] => mem'[seg].block[j] = name[v]
               /\ wpc'[v] = "release" /\ seg \notin half => wi[v] > NumJoints
    BY <1>1, <1>2, <1>4, <2>2 DEF FillInv, WriterInv, Filling
  <2>3. ASSUME NEW v \in Writers, ~Filling(v)'
        PROVE  wi[v] = 1
    BY <1>4, <2>3 DEF FillInv, WriterInv
  <2>4. QED
    BY <1>1, <2>1, <2>2, <2>3 DEF FillInv, openVars, Filling
<1>7. FreeInv'
  <2>1. ASSUME NEW s \in Segments, ~mem'[s].lock, s \notin half'
        PROVE  Settled(s)'
    <3>1. Settled(s) /\ mem'[s].tick = mem[s].tick /\ mem'[s].block = mem[s].block
      BY <1>1, <1>2, <2>1 DEF FreeInv, WriterInv
    <3>2. QED
      BY <1>1, <3>1 DEF Settled, DataOf
  <2>2. QED
    BY <2>1 DEF FreeInv
<1>8. Onward
  BY <1>1, <1>2, <1>4 DEF Onward, openVars, Busy, Typed
<1>9. QED
  BY <1>5, <1>6, <1>7, <1>8 DEF WriterInv

(* A writer reads the tick it is going to raise. *)
LEMMA TickReadKeeps ==
  ASSUME Typed, Typed', WriterInv, NEW w \in Writers, TickRead(w)
  PROVE  WriterInv' /\ Onward
<1>1. /\ wpc[w] = "tick_read" /\ wpc' = [wpc EXCEPT ![w] = "tick_write"]
      /\ old' = [old EXCEPT ![w] = mem[seg].tick]
      /\ UNCHANGED <<mem, openVars, wi, name, published, half, readerVars>>
  BY DEF TickRead, WriteGoto
<1>2. /\ wpc'[w] = "tick_write" /\ old'[w] = mem[seg].tick
      /\ \A v \in Writers : v # w => wpc'[v] = wpc[v] /\ old'[v] = old[v]
  BY <1>1 DEF Typed
<1>3. \A v \in Writers : /\ Inside(v)' <=> Inside(v)
                         /\ Filling(v)' <=> Filling(v)
  BY <1>1, <1>2 DEF Inside, Filling
<1>4. LockInv'
  BY <1>1, <1>2, <1>3 DEF LockInv, WriterInv, openVars, Inside
<1>5. FillInv'
  BY <1>1, <1>2, <1>3 DEF FillInv, WriterInv, openVars, Filling
<1>6. FreeInv'
  BY <1>1 DEF FreeInv, WriterInv, Settled, DataOf
<1>7. Onward
  BY <1>1, <1>3 DEF Onward, openVars, Busy, Typed
<1>8. QED
  BY <1>4, <1>5, <1>6, <1>7 DEF WriterInv

(* The tick moves: the segment is no longer settled, but it is locked.     *)
LEMMA TickWriteKeeps ==
  ASSUME Typed, Typed', WriterInv, NEW w \in Writers, TickWrite(w)
  PROVE  WriterInv' /\ Onward
<1>1. /\ wpc[w] = "tick_write" /\ wpc' = [wpc EXCEPT ![w] = "joint"]
      /\ mem' = [mem EXCEPT ![seg].tick = old[w] + 1]
      /\ published' = [published EXCEPT ![seg] = Append(@, name[w])]
      /\ UNCHANGED <<openVars, old, wi, name, half, readerVars>>
  BY DEF TickWrite, WriteGoto
<1>2. /\ seg \in Segments /\ old[w] = mem[seg].tick /\ mem[seg].lock
      /\ \A v \in Writers : Inside(v) => v = w
  BY <1>1 DEF Typed, WriterInv, LockInv, Inside
<1>3. /\ wpc'[w] = "joint"
      /\ \A v \in Writers : v # w => wpc'[v] = wpc[v]
      /\ \A v \in Writers : /\ Inside(v)' <=> Inside(v)
                            /\ Filling(v)' <=> v = w
                            /\ ~Filling(v)
  BY <1>1, <1>2 DEF Typed, Inside, Filling
<1>4. /\ mem[seg].tick \in Nat /\ mem'[seg].tick = mem[seg].tick + 1
      /\ \A s \in Segments : /\ s # seg => mem'[s] = mem[s]
                             /\ mem'[s].lock = mem[s].lock
                             /\ mem'[s].block = mem[s].block
  <2>1. mem[seg].tick \in Nat
    BY <1>2 DEF Typed
  <2>2. /\ mem'[seg].tick = old[w] + 1 /\ mem'[seg].lock = mem[seg].lock
        /\ mem'[seg].block = mem[seg].block
        /\ \A s \in Segments : s # seg => mem'[s] = mem[s]
    <3>1. PICK x : x = old[w] + 1 /\ mem' = [mem EXCEPT ![seg].tick = x]
      BY <1>1
    <3>2. QED
      BY <1>2, <3>1, OneTick
  <2>3. QED
    BY <1>2, <2>1, <2>2
<1>5. /\ published'[seg] = Append(published[seg], name[w])
      /\ \A s \in Segments : s # seg => published'[s] = published[s]
      /\ published[seg] \in Seq(Nat) /\ Len(published[seg]) = mem[seg].tick
  BY <1>1, <1>2 DEF Typed, WriterInv, FillInv
<1>6. /\ Len(published'[seg]) = mem'[seg].tick
      /\ published'[seg][mem'[seg].tick] = name[w]
      /\ \A i \in 1 .. Len(published[seg]) :
           published'[seg][i] = published[seg][i]
  BY <1>4, <1>5
<1>7. LockInv'
  BY <1>1, <1>2, <1>3, <1>4 DEF LockInv, openVars, Inside
<1>8. FillInv'
  <2>1. \A s \in Segments : Len(published'[s]) = mem'[s].tick
    BY <1>4, <1>5, <1>6 DEF WriterInv, FillInv
  <2>2. \A v \in Writers : wi[v] = 1
    <3>1. \A v \in Writers : ~Filling(v)
      BY <1>3
    <3>2. QED
      BY <3>1 DEF WriterInv, FillInv
  <2>3. \A j \in Joints : ~(j < 1)
    BY DEF Joints
  <2>4. mem'[seg].tick > 0
    BY <1>4
  <2>5. ASSUME NEW v \in Writers, Filling(v)'
        PROVE  v = w /\ wpc'[v] # "release"
    BY <1>3, <2>5
  <2>6. seg' = seg /\ name' = name /\ wi' = wi
    BY <1>1 DEF openVars
  <2>7. QED
    BY <1>6, <2>1, <2>2, <2>3, <2>4, <2>5, <2>6 DEF FillInv
<1>9. FreeInv'
  <2>1. ASSUME NEW s \in Segments, ~mem'[s].lock, s \notin half'
        PROVE  Settled(s)'
    <3>1. s # seg /\ Settled(s)
      BY <1>1, <1>2, <1>4, <2>1 DEF FreeInv, WriterInv
    <3>2. QED
      BY <1>4, <1>5, <3>1 DEF Settled, DataOf
  <2>2. QED
    BY <2>1 DEF FreeInv
<1>10. Onward
  <2>1. ASSUME NEW s \in Segments, s # seg
        PROVE  /\ ~Busy(s)' /\ mem'[s] = mem[s] /\ published'[s] = published[s]
               /\ mem[s].tick \in Nat /\ Len(published[s]) \in Nat
    BY <1>1, <1>4, <1>5, <2>1 DEF Busy, openVars, Typed, FillInv, WriterInv
  <2>2. /\ mem'[seg].tick > mem[seg].tick
        /\ Len(published'[seg]) >= Len(published[seg])
    BY <1>4, <1>5, <1>6
  <2>3. QED
    BY <1>1, <1>4, <1>6, <2>1, <2>2 DEF Onward, openVars
<1>11. QED
  BY <1>7, <1>8, <1>9, <1>10 DEF WriterInv

(* A writer writes the words of one joint. *)
LEMMA JointWriteKeeps ==
  ASSUME Typed, Typed', WriterInv, NEW w \in Writers, JointWrite(w)
  PROVE  WriterInv' /\ Onward
<1>1. /\ wpc[w] = "joint"
      /\ UNCHANGED <<openVars, old, name, published, readerVars>>
      /\ half' \in {half, half \ {seg}}
  BY DEF JointWrite
<1>2. /\ seg \in Segments /\ mem[seg].lock
      /\ mem[seg].tick > 0 /\ published[seg][mem[seg].tick] = name[w]
      /\ \A j \in Joints : j < wi[w] => mem[seg].block[j] = name[w]
      /\ \A v \in Writers : Inside(v) => v = w
      /\ wi[w] \in Nat
  BY <1>1 DEF Typed, WriterInv, LockInv, FillInv, Inside, Filling
<1>3. /\ wpc'[w] \in {"joint", "release"}
      /\ wpc'[w] = "release" => wi'[w] > NumJoints
      /\ \A v \in Writers : v # w => wpc'[v] = wpc[v] /\ wi'[v] = wi[v]
  BY <1>1 DEF JointWrite, WriteGoto, Typed
<1>4. /\ \A s \in Segments : /\ s # seg => mem'[s] = mem[s]
                             /\ mem'[s].lock = mem[s].lock
                             /\ mem'[s].tick = mem[s].tick
      /\ \A j \in Joints : j < wi'[w] => mem'[seg].block[j] = name[w]
  <2>1. CASE /\ mem' = [mem EXCEPT ![seg].block[wi[w]] = name[w]]
             /\ wi' = [wi EXCEPT ![w] = @ + 1]
    <3>1. /\ mem'[seg].block = [mem[seg].block EXCEPT ![wi[w]] = name[w]]
          /\ mem[seg].block \in Blocks
          /\ wi'[w] = wi[w] + 1
      BY <1>2, <2>1 DEF Typed
    <3>2. ASSUME NEW j \in Joints, j < wi'[w]
          PROVE  mem'[seg].block[j] = name[w]
      <4>1. j < wi[w] \/ j = wi[w]
        BY <1>2, <3>1, <3>2 DEF Joints
      <4>2. QED
        BY <1>2, <3>1, <4>1 DEF Blocks
    <3>3. QED
      BY <1>2, <2>1, <3>2, OneBlock
  <2>2. CASE UNCHANGED <<mem, wi>>
    BY <1>2, <2>2
  <2>3. QED
    BY <2>1, <2>2 DEF JointWrite
<1>5. \A v \in Writers : /\ Inside(v)' <=> Inside(v)
                         /\ Filling(v)' <=> Filling(v)
                         /\ Filling(v) => v = w
  BY <1>1, <1>2, <1>3 DEF Inside, Filling
<1>6. LockInv'
  BY <1>1, <1>2, <1>3, <1>4, <1>5 DEF LockInv, WriterInv, openVars, Inside
<1>7. FillInv'
  <2>1. \A s \in Segments : Len(published'[s]) = mem'[s].tick
    BY <1>1, <1>4 DEF WriterInv, FillInv
  <2>2. \A v \in Writers : v # w => ~Filling(v) /\ wi'[v] = 1
    BY <1>3, <1>5 DEF WriterInv, FillInv
  <2>3. mem'[seg].tick = mem[seg].tick
    BY <1>2, <1>4
  <2>4. QED
    BY <1>1, <1>2, <1>3, <1>4, <1>5, <2>1, <2>2, <2>3
    DEF FillInv, openVars, Filling
<1>8. FreeInv'
  <2>1. ASSUME NEW s \in Segments, ~mem'[s].lock, s \notin half'
        PROVE  Settled(s)'
    <3>1. s # seg /\ Settled(s)
      BY <1>1, <1>2, <1>4, <2>1 DEF FreeInv, WriterInv
    <3>2. QED
      BY <1>1, <1>4, <3>1 DEF Settled, DataOf
  <2>2. QED
    BY <2>1 DEF FreeInv
<1>9. Onward
  <2>1. Busy(seg)
    BY <1>1 DEF Busy, Filling
  <2>2. ASSUME NEW s \in Segments, s # seg
        PROVE  ~Busy(s)' /\ mem'[s] = mem[s]
    BY <1>1, <1>4, <2>2 DEF Busy, openVars
  <2>3. \A s \in Segments : mem[s].tick \in Nat /\ Len(published[s]) \in Nat
    BY DEF Typed, FillInv, WriterInv
  <2>4. QED
    BY <1>1, <1>4, <2>1, <2>2, <2>3 DEF Onward, openVars
<1>10. QED
  BY <1>6, <1>7, <1>8, <1>9 DEF WriterInv

(* A writer raises: its segment is half written, and still locked. *)
LEMMA JointRaisesKeeps ==
  ASSUME Typed, Typed', WriterInv, NEW w \in Writers, JointRaises(w)
  PROVE  WriterInv' /\ Onward
<1>1. /\ wpc[w] = "joint" /\ wpc' = [wpc EXCEPT ![w] = "release"]
      /\ half' = half \cup {seg}
      /\ UNCHANGED <<mem, openVars, old, wi, name, published, readerVars>>
  BY DEF JointRaises, WriteGoto
<1>2. /\ wpc'[w] = "release"
      /\ \A v \in Writers : v # w => wpc'[v] = wpc[v]
  BY <1>1 DEF Typed
<1>3. \A v \in Writers : /\ Inside(v)' <=> Inside(v)
                         /\ Filling(v)' <=> Filling(v)
  BY <1>1, <1>2 DEF Inside, Filling
<1>4. LockInv'
  BY <1>1, <1>2, <1>3 DEF LockInv, WriterInv, openVars, Inside
<1>5. FillInv'
  BY <1>1, <1>2, <1>3 DEF FillInv, WriterInv, openVars, Filling
<1>6. FreeInv'
  BY <1>1 DEF FreeInv, WriterInv, Settled, DataOf
<1>7. Onward
  BY <1>1, <1>3 DEF Onward, openVars, Busy, Typed
<1>8. QED
  BY <1>4, <1>5, <1>6, <1>7 DEF WriterInv

(* All the blocks are written, unless the writer raised: the segment is    *)
(* settled when the lock goes.                                             *)
LEMMA ReleaseKeeps ==
  ASSUME Typed, Typed', WriterInv, NEW w \in Writers, Release(w)
  PROVE  WriterInv' /\ Onward
<1>1. /\ wpc[w] = "release" /\ wpc' = [wpc EXCEPT ![w] = "idle"]
      /\ mem' = [mem EXCEPT ![seg].lock = FALSE]
      /\ wi' = [wi EXCEPT ![w] = 1]
      /\ old' = [old EXCEPT ![w] = 0] /\ name' = [name EXCEPT ![w] = 0]
      /\ UNCHANGED <<openVars, published, half, readerVars>>
  BY DEF Release, WriteGoto
<1>2. /\ seg \in Segments /\ mem[seg].tick > 0
      /\ published[seg][mem[seg].tick] = name[w]
      /\ \A j \in Joints : j < wi[w] => mem[seg].block[j] = name[w]
      /\ seg \notin half => wi[w] > NumJoints
      /\ \A v \in Writers : Inside(v) => v = w
      /\ wi[w] \in Nat
  BY <1>1 DEF Typed, WriterInv, LockInv, FillInv, Inside, Filling
<1>3. /\ wpc'[w] = "idle" /\ wi'[w] = 1
      /\ \A v \in Writers : v # w => wpc'[v] = wpc[v] /\ wi'[v] = wi[v]
      /\ \A v \in Writers : ~Inside(v)' /\ ~Filling(v)'
  BY <1>1, <1>2 DEF Typed, Inside, Filling
<1>4. \A s \in Segments : /\ s # seg => mem'[s] = mem[s]
                          /\ mem'[s].tick = mem[s].tick
                          /\ mem'[s].block = mem[s].block
  BY <1>1, <1>2, OneLock
<1>5. LockInv'
  BY <1>3 DEF LockInv, Inside
<1>6. FillInv'
  <2>1. \A s \in Segments : Len(published'[s]) = mem'[s].tick
    BY <1>1, <1>4 DEF WriterInv, FillInv
  <2>2. \A v \in Writers : wi'[v] = 1
    <3>1. \A v \in Writers : v # w => ~Filling(v)
      BY <1>2 DEF Inside, Filling
    <3>2. QED
      BY <1>3, <3>1 DEF WriterInv, FillInv
  <2>3. QED
    BY <1>3, <2>1, <2>2 DEF FillInv
<1>7. ASSUME seg \notin half
      PROVE  Settled(seg)
  <2>1. /\ published[seg] \in Seq(Nat) /\ Len(published[seg]) = mem[seg].tick
        /\ mem[seg].block \in Blocks /\ mem[seg].tick \in Nat
    BY <1>2 DEF Typed, WriterInv, FillInv
  <2>2. mem[seg].tick \in 1 .. Len(published[seg])
    BY <1>2, <2>1
  <2>3. \A j \in Joints : mem[seg].block[j] = published[seg][mem[seg].tick]
    <3>1. \A j \in Joints : j < wi[w]
      BY <1>2, <1>7, ConstantsAssumption DEF Joints
    <3>2. QED
      BY <1>2, <3>1
  <2>4. mem[seg].block = [j \in Joints |-> published[seg][mem[seg].tick]]
    BY <2>1, <2>3 DEF Blocks
  <2>5. QED
    BY <2>2, <2>4 DEF Settled, DataOf
<1>8. FreeInv'
  <2>1. ASSUME NEW s \in Segments, ~mem'[s].lock, s \notin half'
        PROVE  Settled(s)'
    <3>1. Settled(s)
      <4>1. CASE s = seg
        BY <1>1, <1>7, <2>1, <4>1
      <4>2. CASE s # seg
        BY <1>1, <1>4, <2>1, <4>2 DEF FreeInv, WriterInv
      <4>3. QED
        BY <4>1, <4>2
    <3>2. QED
      BY <1>1, <1>4, <3>1 DEF Settled, DataOf
  <2>2. QED
    BY <2>1 DEF FreeInv
<1>9. Onward
  <2>1. \A s \in Segments : ~Busy(s)'
    BY <1>3 DEF Busy
  <2>2. \A s \in Segments : mem[s].tick \in Nat /\ Len(published[s]) \in Nat
    BY DEF Typed, FillInv, WriterInv
  <2>3. QED
    BY <1>1, <1>4, <2>1, <2>2 DEF Onward, openVars
<1>10. QED
  BY <1>5, <1>6, <1>8, <1>9 DEF WriterInv

(* The steps of a writer, until two hold the lock at once. *)
LEMMA WriterKeeps ==
  ASSUME Typed, Typed', WriterInv, ~both',
         NEW w \in Writers, WriteCall(w) \/ WriteStep(w) \/ JointRaises(w)
  PROVE  WriterInv' /\ Onward
BY CallKeeps, AcquireKeeps, TickReadKeeps, TickWriteKeeps, JointWriteKeeps,
   JointRaisesKeeps, ReleaseKeeps DEF WriteStep
-----------------------------------------------------------------------------
(***************************************************************************)
(* The readers' side.                                                      *)
(***************************************************************************)
(* A step of reader r touches nothing of the arm or of another reader.     *)
OnlyReader(r) ==
  /\ UNCHANGED <<mem, seg, writerVars>>
  /\ \A q \in Readers \ {r} :
       /\ rseg'[q] = rseg[q] /\ rpc'[q] = rpc[q] /\ before'[q] = before[q]
       /\ ri'[q] = ri[q] /\ got'[q] = got[q] /\ tries'[q] = tries[q]
       /\ out'[q] = out[q] /\ late'[q] = late[q]

ReaderAction(r) ==
  ReaderOpen(r) \/ ReaderClose(r) \/ ReadCall(r) \/ ReadStep(r)

(* A step of a reader changes that reader only, ... *)
LEMMA ReaderOnly ==
  ASSUME Typed, NEW r \in Readers, ReaderAction(r)
  PROVE  OnlyReader(r)
<1>a. ASSUME Return(r)
      PROVE  \A q \in Readers \ {r} :
               /\ rpc'[q] = rpc[q] /\ before'[q] = before[q] /\ ri'[q] = ri[q]
               /\ got'[q] = got[q] /\ out'[q] = out[q]
  BY <1>a DEF Return, Forget, ReadGoto, Typed
<1>b. ASSUME Again(r), UNCHANGED <<mem, openVars, writerVars, late>>
      PROVE  OnlyReader(r)
  <2>1. \A q \in Readers \ {r} : tries'[q] = tries[q]
    BY <1>b DEF Again, Typed
  <2>2. CASE ReadGoto(r, "spin") /\ Forget(r) /\ UNCHANGED out
    BY <1>b, <2>1, <2>2 DEF OnlyReader, Forget, ReadGoto, openVars, Typed
  <2>3. CASE Return(r)
    BY <1>a, <1>b, <2>1, <2>3 DEF OnlyReader, openVars
  <2>4. QED
    BY <1>b, <2>2, <2>3 DEF Again
<1>1. CASE ReaderOpen(r)
  BY <1>1 DEF ReaderOpen, OnlyReader, readerVars, Typed
<1>2. CASE ReaderClose(r)
  BY <1>2 DEF ReaderClose, OnlyReader, Typed
<1>3. CASE ReadCall(r) \/ ReadSpin(r) \/ ReadBefore(r)
  BY <1>3 DEF ReadCall, ReadSpin, ReadBefore, ReadGoto, OnlyReader, openVars, Typed
<1>4. CASE ReadJoint(r)
  BY <1>4 DEF ReadJoint, ReadGoto, OnlyReader, openVars, Typed
<1>5. CASE ReadAfter(r)
  <2>1. CASE ReadGoto(r, "lock") /\ UNCHANGED <<before, ri, got, tries, out>>
    BY <1>5, <2>1 DEF ReadAfter, ReadGoto, OnlyReader, openVars, Typed
  <2>2. QED
    BY <1>5, <1>b, <2>1 DEF ReadAfter
<1>6. CASE ReadLock(r)
  <2>1. CASE Return(r) /\ UNCHANGED tries
    BY <1>6, <1>a, <2>1 DEF ReadLock, OnlyReader, openVars
  <2>2. QED
    BY <1>6, <1>b, <2>1 DEF ReadLock
<1>7. QED
  BY <1>1, <1>2, <1>3, <1>4, <1>5, <1>6 DEF ReaderAction, ReadStep

(* ... so that the writers keep what they know, ... *)
LEMMA WritersKeep ==
  ASSUME WriterInv, NEW r \in Readers, OnlyReader(r)
  PROVE  WriterInv'
BY DEF OnlyReader, writerVars, WriterInv, LockInv, FillInv, FreeInv, Inside,
       Filling, Settled, DataOf

(* ... and so do the other readers. *)
LEMMA OthersKeep ==
  ASSUME NEW r \in Readers, OnlyReader(r), NEW q \in Readers, q # r, ReaderInv(q)
  PROVE  ReaderInv(q)'
BY DEF OnlyReader, writerVars, ReaderInv, ReadInv, TickInv, OutInv, Whole,
       Settled, DataOf, Busy, Filling

(* A reader attaches. *)
LEMMA OpenKeeps ==
  ASSUME Typed, Typed', NEW r \in Readers, ReaderInv(r), ReaderOpen(r)
  PROVE  ReaderInv(r)'
<1>1. /\ rpc[r] = "idle" /\ rseg[r] = NoSegment /\ rseg'[r] # NoSegment
      /\ UNCHANGED <<mem, published, readerVars>>
  BY DEF ReaderOpen, writerVars, Typed
<1>2. /\ rpc'[r] = "idle" /\ out'[r] = out[r] /\ tries'[r] = tries[r]
      /\ late'[r] = late[r] /\ out[r].tick = -1
  BY <1>1 DEF readerVars, ReaderInv, TickInv
<1>3. ReadInv(r)'
  BY <1>2 DEF ReadInv
<1>4. TickInv(r)'
  <2>1. \A s \in Segments : mem'[s].tick \in Nat
    BY DEF Typed
  <2>2. QED
    BY <1>1, <1>2, <2>1 DEF TickInv
<1>5. OutInv(r)'
  <2>1. tries[r] < MaxTries /\ ~late[r] => out[r] = NoResult
    BY <1>1, NothingYet DEF ReaderInv
  <2>2. QED
    BY <1>2, <2>1 DEF OutInv, Whole
<1>6. QED
  BY <1>3, <1>4, <1>5 DEF ReaderInv

(* A reader detaches. *)
LEMMA CloseKeeps ==
  ASSUME Typed, NEW r \in Readers, ReaderClose(r)
  PROVE  ReaderInv(r)'
<1>1. /\ rpc'[r] = "idle" /\ rseg'[r] = NoSegment /\ out'[r] = NoResult
  BY DEF ReaderClose, Typed
<1>2. NoResult.tick = -1
  BY DEF NoResult
<1>3. QED
  BY <1>1, <1>2, Numbers DEF ReaderInv, ReadInv, TickInv, OutInv, Whole

(* Up to the first tick nothing has been read. *)
LEMMA SpinKeeps ==
  ASSUME Typed, Typed', NEW r \in Readers, ReaderInv(r),
         ReadCall(r) \/ ReadSpin(r)
  PROVE  ReaderInv(r)'
<1>1. /\ rpc'[r] \in {"spin", "before"}
      /\ UNCHANGED <<mem, rseg, out>>
  BY DEF ReadCall, ReadSpin, ReadGoto, openVars, Typed
<1>2. TickInv(r)'
  BY <1>1 DEF TickInv, ReaderInv
<1>3. QED
  BY <1>1, <1>2 DEF ReaderInv, ReadInv, OutInv

(* A reader reads the tick before the data. *)
LEMMA BeforeKeeps ==
  ASSUME Typed, Typed', WriterInv, NEW r \in Readers, ReaderInv(r), ReadBefore(r)
  PROVE  ReaderInv(r)'
<1>1. /\ rpc[r] = "before" /\ rpc'[r] = "joint" /\ ri'[r] = 1
      /\ before'[r] = mem[rseg[r]].tick
      /\ late'[r] = (mem[rseg[r]].lock \/ rseg[r] \in half)
      /\ UNCHANGED <<mem, openVars, writerVars, got, out>>
  BY DEF ReadBefore, ReadGoto, At, Typed
<1>2. rseg[r] \in Segments /\ mem[rseg[r]].tick \in Nat
  BY <1>1 DEF Typed
<1>3. ASSUME ~late'[r]
      PROVE  Settled(rseg[r])' /\ ~Busy(rseg[r])'
  <2>1. Settled(rseg[r])
    BY <1>1, <1>2, <1>3 DEF WriterInv, FreeInv
  <2>2. ~Busy(rseg[r])
    BY <1>1, <1>3 DEF WriterInv, LockInv, Busy, Filling, Inside
  <2>3. QED
    BY <1>1, <2>1, <2>2
    DEF Settled, DataOf, Busy, Filling, openVars, writerVars
<1>4. \A j \in Joints : ~(j < 1)
  BY DEF Joints
<1>5. ReadInv(r)'
  BY <1>1, <1>3, <1>4 DEF ReadInv
<1>6. TickInv(r)'
  BY <1>1, <1>2 DEF TickInv, ReaderInv, openVars
<1>7. QED
  BY <1>1, <1>5, <1>6 DEF ReaderInv, OutInv

(* A reader copies one joint. *)
LEMMA ReadJointKeeps ==
  ASSUME Typed, Typed', NEW r \in Readers, ReaderInv(r), ReadJoint(r)
  PROVE  ReaderInv(r)'
<1>1. /\ rpc[r] = "joint" /\ rpc'[r] \in {"joint", "after"}
      /\ UNCHANGED <<mem, openVars, writerVars, before, tries, out, late>>
      /\ rpc'[r] = "after" => ri'[r] > NumJoints
      /\ ri[r] \in Nat
  BY DEF ReadJoint, ReadGoto, Typed
<1>2. (\A j \in Joints : j < ri[r] => got[r][j] = mem[rseg[r]].block[j]) =>
      (\A j \in Joints : j < ri'[r] => got'[r][j] = mem[rseg[r]].block[j])
  <2>1. CASE /\ got' = [got EXCEPT ![r][ri[r]] = At(r).block[ri[r]]]
             /\ ri' = [ri EXCEPT ![r] = @ + 1]
    <3>1. /\ ri'[r] = ri[r] + 1 /\ got[r] \in Blocks
          /\ got'[r] = [got[r] EXCEPT ![ri[r]] = mem[rseg[r]].block[ri[r]]]
      BY <2>1 DEF Typed, At
    <3>2. ASSUME NEW j \in Joints, j < ri'[r],
                 j < ri[r] => got[r][j] = mem[rseg[r]].block[j]
          PROVE  got'[r][j] = mem[rseg[r]].block[j]
      <4>1. j < ri[r] \/ j = ri[r]
        BY <1>1, <3>1, <3>2 DEF Joints
      <4>2. QED
        BY <3>1, <3>2, <4>1 DEF Blocks
    <3>3. QED
      BY <3>2
  <2>2. CASE UNCHANGED <<got, ri>>
    BY <2>2
  <2>3. QED
    BY <2>1, <2>2 DEF ReadJoint
<1>3. ReadInv(r)'
  <2>1. ASSUME Settled(rseg[r]), ~Busy(rseg[r])
        PROVE  Settled(rseg[r])' /\ ~Busy(rseg[r])'
    BY <1>1, <2>1 DEF Settled, DataOf, Busy, Filling, openVars, writerVars
  <2>2. rseg' = rseg
    BY <1>1 DEF openVars
  <2>3. QED
    BY <1>1, <1>2, <2>1, <2>2 DEF ReadInv, ReaderInv
<1>4. TickInv(r)'
  BY <1>1 DEF TickInv, ReaderInv, openVars
<1>5. QED
  BY <1>1, <1>3, <1>4 DEF ReaderInv, OutInv

(* A read that returns has the data of its tick, and no older tick than    *)
(* the last one.                                                           *)
LEMMA ReturnsTick ==
  ASSUME Typed, NEW r \in Readers, ReaderInv(r), rpc[r] \in {"after", "lock"},
         Return(r), UNCHANGED <<mem, rseg>>
  PROVE  /\ TickInv(r)' /\ ReadInv(r)' /\ rpc'[r] = "idle"
         /\ out'[r] = [tick |-> before[r], data |-> got[r]]
         /\ out'[r].tick >= out[r].tick
<1>1. /\ rpc'[r] = "idle" /\ out'[r] = [tick |-> before[r], data |-> got[r]]
      /\ rseg[r] \in Segments /\ before[r] \in Nat /\ out[r].tick \in Int
  BY DEF Return, Forget, Result, ReadGoto, Typed
<1>2. out[r].tick <= before[r] /\ before[r] <= mem[rseg[r]].tick
  BY DEF ReaderInv, TickInv
<1>3. TickInv(r)'
  BY <1>1, <1>2, Numbers DEF TickInv
<1>4. out'[r].tick >= out[r].tick
  BY <1>1, <1>2
<1>5. QED
  BY <1>1, <1>3, <1>4 DEF ReadInv

(* A read that tries again. *)
LEMMA AgainKeeps ==
  ASSUME Typed, NEW r \in Readers, ReaderInv(r), rpc[r] \in {"after", "lock"},
         Again(r), UNCHANGED <<mem, rseg, late>>
  PROVE  ReaderInv(r)'
<1>1. CASE ReadGoto(r, "spin") /\ Forget(r) /\ UNCHANGED out
  <2>1. rpc'[r] = "spin"
    BY <1>1 DEF ReadGoto, Typed
  <2>2. TickInv(r)'
    BY <1>1, <2>1 DEF ReaderInv, TickInv
  <2>3. QED
    BY <2>1, <2>2 DEF ReaderInv, ReadInv, OutInv
<1>2. CASE tries[r] + 1 >= MaxTries /\ Return(r)
  <2>1. TickInv(r)' /\ ReadInv(r)'
    BY <1>2, ReturnsTick
  <2>2. ~(tries'[r] < MaxTries)
    <3>1. tries'[r] = tries[r] + 1 /\ tries[r] \in Nat
      BY DEF Again, Typed
    <3>2. QED
      BY <1>2, <3>1, ConstantsAssumption
  <2>3. QED
    BY <2>1, <2>2 DEF ReaderInv, OutInv
<1>3. QED
  BY <1>1, <1>2 DEF Again

(* The tick is the first one again: what was read is all of its write().   *)
LEMMA AfterKeeps ==
  ASSUME Typed, Typed', NEW r \in Readers, ReaderInv(r), ReadAfter(r)
  PROVE  ReaderInv(r)'
<1>1. /\ rpc[r] = "after" /\ rseg[r] \in Segments
      /\ UNCHANGED <<mem, rseg, published, late>>
  BY DEF ReadAfter, Typed, openVars, writerVars
<1>2. CASE /\ mem[rseg[r]].tick = before[r] /\ ReadGoto(r, "lock")
           /\ UNCHANGED <<before, ri, got, tries, out>>
  <2>1. rpc'[r] = "lock"
    BY <1>2 DEF ReadGoto, Typed
  <2>2. ASSUME ~late[r]
        PROVE  DataOf(rseg[r], before[r], got[r])
    <3>1. /\ Settled(rseg[r]) /\ ri[r] > NumJoints
          /\ \A j \in Joints : j < ri[r] => got[r][j] = mem[rseg[r]].block[j]
      BY <1>1, <1>2, <2>2 DEF ReaderInv, ReadInv
    <3>2. \A j \in Joints : j < ri[r]
      BY <3>1, ConstantsAssumption DEF Joints, Typed
    <3>3. got[r] \in Blocks /\ mem[rseg[r]].block \in Blocks
      BY <1>1 DEF Typed
    <3>4. got[r] = mem[rseg[r]].block
      BY <3>1, <3>2, <3>3 DEF Blocks
    <3>5. QED
      BY <1>2, <3>1, <3>4 DEF Settled
  <2>3. TickInv(r)'
    BY <1>1, <1>2, <2>1 DEF ReaderInv, TickInv
  <2>4. ReadInv(r)'
    BY <1>1, <1>2, <2>1, <2>2 DEF ReadInv, DataOf
  <2>5. QED
    BY <2>1, <2>3, <2>4 DEF ReaderInv, OutInv
<1>3. CASE Again(r)
  BY <1>1, <1>3, AgainKeeps
<1>4. QED
  BY <1>2, <1>3 DEF ReadAfter, At

(* A read that looks at the lock. *)
LEMMA LockKeeps ==
  ASSUME Typed, NEW r \in Readers, ReaderInv(r), ReadLock(r)
  PROVE  ReaderInv(r)'
<1>1. /\ rpc[r] = "lock" /\ UNCHANGED <<mem, rseg, published, late>>
  BY DEF ReadLock, openVars, writerVars
<1>2. CASE Return(r)
  <2>1. /\ TickInv(r)' /\ ReadInv(r)'
        /\ out'[r] = [tick |-> before[r], data |-> got[r]]
    BY <1>1, <1>2, ReturnsTick
  <2>2. ~late[r] => DataOf(rseg[r], out'[r].tick, out'[r].data)
    BY <1>1, <2>1 DEF ReaderInv, ReadInv
  <2>3. OutInv(r)'
    BY <1>1, <2>2 DEF OutInv, Whole, DataOf
  <2>4. QED
    BY <2>1, <2>3 DEF ReaderInv
<1>3. CASE Again(r)
  BY <1>1, <1>3, AgainKeeps
<1>4. QED
  BY <1>2, <1>3 DEF ReadLock

(* The steps of a reader. *)
LEMMA ReaderKeeps ==
  ASSUME Typed, Typed', WriterInv, NEW r \in Readers, ReaderInv(r), ReaderAction(r)
  PROVE  ReaderInv(r)'
BY OpenKeeps, CloseKeeps, SpinKeeps, BeforeKeeps, ReadJointKeeps, AfterKeeps,
   LockKeeps DEF ReaderAction, ReadStep
-----------------------------------------------------------------------------
(***************************************************************************)
(* The theorems.                                                           *)
(***************************************************************************)
LEMMA InitIInv == Init => IInv
<1>1. SUFFICES ASSUME Init PROVE IInv
  OBVIOUS
<1>2. Typed
  BY <1>1, TypedInit
<1>3. /\ \A w \in Writers : wpc[w] = "idle" /\ wi[w] = 1
      /\ \A s \in Segments : mem[s] = Fresh /\ published[s] = <<>>
      /\ \A r \in Readers : /\ rpc[r] = "idle" /\ out[r] = NoResult
                            /\ rseg[r] = NoSegment
  BY <1>1 DEF Init
<1>4. WriterInv
  <2>1. LockInv
    BY <1>3 DEF LockInv, Inside
  <2>2. FillInv
    BY <1>3 DEF FillInv, Filling, Fresh
  <2>3. FreeInv
    BY <1>3 DEF FreeInv, Settled, DataOf, Fresh
  <2>4. QED
    BY <2>1, <2>2, <2>3 DEF WriterInv
<1>5. ASSUME NEW r \in Readers PROVE ReaderInv(r)
  BY <1>3, <1>5, Numbers
  DEF ReaderInv, ReadInv, TickInv, OutInv, Whole, NoResult
<1>6. QED
  BY <1>2, <1>4, <1>5 DEF IInv

(* Two writers that held the lock at once are not forgotten. *)
LEMMA BothStays == [Next]_vars => (both => both')
BY DEF Next, Open, Close, ProcessDies, LetGo, WriteCall, WriteStep, AcquireTest,
       AcquireSet, AcquireVerify, Enter, TickRead, TickWrite, JointWrite,
       JointRaises, Release, ReaderOpen, ReaderClose, ReadCall, ReadStep, ReadSpin,
       ReadBefore, ReadJoint, ReadAfter, ReadLock, vars, writerVars

(* IInv is inductive. *)
LEMMA StepIInv == IInv /\ [Next]_vars => IInv'
<1>1. SUFFICES ASSUME IInv, [Next]_vars PROVE IInv'
  OBVIOUS
<1>2. Typed /\ Typed'
  BY <1>1, TypedStep DEF IInv
<1>3. ASSUME ~both' PROVE WriterInv' /\ \A r \in Readers : ReaderInv(r)'
  <2>1. WriterInv /\ \A r \in Readers : ReaderInv(r)
    BY <1>1, <1>3, BothStays DEF IInv
  <2>2. CASE Open \/ Close \/ ProcessDies
    <3>1. WriterInv' /\ Onward
      BY <1>2, <2>1, <2>2, OpeningKeeps
    <3>2. QED
      BY <1>2, <2>1, <3>1, ReadersKeep
  <2>3. CASE \E w \in Writers : WriteCall(w) \/ WriteStep(w) \/ JointRaises(w)
    <3>1. WriterInv' /\ Onward
      BY <1>2, <1>3, <2>1, <2>3, WriterKeeps
    <3>2. QED
      BY <1>2, <2>1, <3>1, ReadersKeep
  <2>4. ASSUME NEW r \in Readers, ReaderAction(r)
        PROVE  WriterInv' /\ \A q \in Readers : ReaderInv(q)'
    <3>1. OnlyReader(r)
      BY <1>2, <2>4, ReaderOnly
    <3>2. WriterInv'
      BY <2>1, <3>1, WritersKeep
    <3>3. ReaderInv(r)'
      BY <1>2, <2>1, <2>4, ReaderKeeps
    <3>4. ASSUME NEW q \in Readers, q # r PROVE ReaderInv(q)'
      BY <2>1, <3>1, <3>4, OthersKeep
    <3>5. QED
      BY <3>2, <3>3, <3>4
  <2>5. CASE UNCHANGED vars
    <3>1. WriterInv'
      BY <2>1, <2>5
      DEF vars, openVars, writerVars, WriterInv, LockInv, FillInv, FreeInv,
          Settled, DataOf, Filling, Inside
    <3>2. ASSUME NEW r \in Readers PROVE ReaderInv(r)'
      BY <2>1, <2>5
      DEF vars, openVars, writerVars, readerVars, ReaderInv, ReadInv, TickInv,
          OutInv, Whole, Settled, DataOf, Busy, Filling
    <3>3. QED
      BY <3>1, <3>2
  <2>6. QED
    BY <1>1, <2>2, <2>3, <2>4, <2>5 DEF Next, ReaderAction
<1>4. QED
  BY <1>2, <1>3 DEF IInv

(* The strengthened invariant holds in every state the arm's process and   *)
(* the readers of shared_state.py can reach.                               *)
THEOREM Invariance == Spec => []IInv
BY InitIInv, StepIInv, PTL DEF Spec

(* A reader that read its first tick with the lock free, and did not run   *)
(* out of attempts, returns the joints of one write() (read() and write()  *)
(* of shared_state.py), for any number of joints, readers and segments and *)
(* over every close(), death and restart of the arm's process, as long as  *)
(* no writer took the lock by force from another, and unless a write()     *)
(* that raised half way left it that segment and none has ended since.     *)
THEOREM NoTornRead == Spec => []NoTornReadUnlessLate
<1>1. IInv => NoTornReadUnlessLate
  BY DEF IInv, NoTornReadUnlessLate, ReaderInv, OutInv
<1>2. QED
  BY <1>1, Invariance, PTL

(* A reader that stays attached is never given an older tick. *)
LEMMA ReturnsOnward ==
  ASSUME IInv, [Next]_vars, ~both, NEW q \in Readers, rseg'[q] = rseg[q]
  PROVE  out'[q].tick >= out[q].tick
<1>1. Typed /\ ReaderInv(q) /\ out[q].tick \in Int
  BY DEF IInv, Typed
<1>2. CASE UNCHANGED out
  BY <1>1, <1>2
<1>3. ASSUME NEW r \in Readers, ReaderAction(r), out' # out
      PROVE  out'[q].tick >= out[q].tick
  <2>1. CASE q # r
    BY <1>1, <1>3, <2>1, ReaderOnly DEF OnlyReader
  <2>2. CASE q = r /\ ReaderClose(r)
    <3>1. rseg'[r] = NoSegment /\ rseg[r] # NoSegment
      BY <1>1, <2>2 DEF ReaderClose, Typed
    <3>2. QED
      BY <2>2, <3>1
  <2>3. CASE q = r /\ (ReadAfter(r) \/ ReadLock(r))
    <3>1. /\ Return(r) /\ rpc[r] \in {"after", "lock"}
          /\ UNCHANGED <<mem, rseg>>
      BY <1>3, <2>3 DEF ReadAfter, ReadLock, Again, openVars
    <3>2. QED
      BY <1>1, <2>3, <3>1, ReturnsTick
  <2>4. QED
    BY <1>3, <2>1, <2>2, <2>3
    DEF ReaderAction, ReadStep, ReaderOpen, ReadCall, ReadSpin, ReadBefore,
        ReadJoint, readerVars
<1>4. CASE \E r \in Readers : ReaderAction(r)
  BY <1>2, <1>3, <1>4
<1>5. QED
  BY <1>2, <1>4
  DEF Next, ReaderAction, Open, Close, ProcessDies, LetGo, WriteCall, WriteStep,
      AcquireTest, AcquireSet, AcquireVerify, TickRead, TickWrite, JointWrite,
      JointRaises, Release, readerVars, vars

(* The tick a reader is given never goes back while it keeps its segment   *)
(* open (the tick of write(), read twice by read()), over every close(),   *)
(* death and restart of the arm's process.                                 *)
THEOREM TicksOnward == Spec => TicksGoOn
<1>1. IInv /\ [Next]_vars =>
        [\A r \in Readers :
           rseg'[r] = rseg[r] /\ ~both => out'[r].tick >= out[r].tick]_vars
  BY ReturnsOnward
<1>2. QED
  BY <1>1, Invariance, PTL DEF Spec, TicksGoOn
-----------------------------------------------------------------------------
(***************************************************************************)
(* The register that a segment is to its readers.                          *)
(***************************************************************************)
(* Each write() under way has a number, each read() an attempt left. *)
CallInv ==
  /\ \A w \in Writers : wpc[w] # "idle" => name[w] \in 1 .. MaxWrites
  /\ \A r \in Readers : tries[r] <= MaxTries
  /\ \A r \in Readers : rpc[r] # "idle" => tries[r] < MaxTries

(* No call is under way when the process starts. *)
LEMMA CallInit == Init => CallInv
BY ConstantsAssumption DEF Init, CallInv

(* The steps of a writer keep the numbers. *)
LEMMA CallWriting ==
  ASSUME Typed, CallInv, NEW w \in Writers,
         WriteCall(w) \/ WriteStep(w) \/ JointRaises(w)
  PROVE  CallInv'
<1>1. UNCHANGED readerVars
  BY DEF WriteCall, WriteStep, AcquireTest, AcquireSet, AcquireVerify, TickRead,
         TickWrite, JointWrite, JointRaises, Release
<1>2. CASE WriteCall(w)
  <2>1. writes \in Nat /\ writes < MaxWrites
    BY <1>2, Numbers DEF WriteCall, Typed
  <2>2. writes + 1 \in 1 .. MaxWrites
    BY <2>1, ConstantsAssumption
  <2>3. QED
    BY <1>1, <1>2, <2>2 DEF WriteCall, WriteGoto, CallInv, Typed, readerVars
<1>3. CASE AcquireTest(w) \/ AcquireSet(w) \/ AcquireVerify(w) \/ TickRead(w)
           \/ TickWrite(w) \/ JointWrite(w) \/ JointRaises(w)
  <2>1. name' = name /\ wpc[w] # "idle"
    BY <1>3
       DEF AcquireTest, AcquireSet, AcquireVerify, TickRead, TickWrite, JointWrite,
           JointRaises
  <2>2. \A v \in Writers : v # w => wpc'[v] = wpc[v]
    BY <1>3
       DEF AcquireTest, AcquireSet, AcquireVerify, TickRead, TickWrite, JointWrite,
           JointRaises, Enter, WriteGoto, Typed
  <2>3. QED
    BY <1>1, <2>1, <2>2 DEF CallInv, readerVars
<1>4. CASE Release(w)
  BY <1>1, <1>4 DEF Release, WriteGoto, CallInv, Typed, readerVars
<1>5. QED
  BY <1>2, <1>3, <1>4 DEF WriteStep

(* The steps of a reader keep the attempts. *)
LEMMA CallReading ==
  ASSUME Typed, CallInv, NEW r \in Readers, ReaderAction(r)
  PROVE  CallInv'
<1>1. OnlyReader(r)
  BY ReaderOnly
<1>2. tries[r] \in Nat /\ MaxTries \in Nat \ {0}
  BY ConstantsAssumption DEF Typed
<1>3. ASSUME Again(r), rpc[r] # "idle"
      PROVE  tries'[r] <= MaxTries /\ (rpc'[r] # "idle" => tries'[r] < MaxTries)
  <2>1. tries'[r] = tries[r] + 1 /\ tries[r] < MaxTries
    BY <1>3 DEF Again, CallInv, Typed
  <2>2. CASE tries[r] + 1 < MaxTries
    BY <1>2, <2>1, <2>2
  <2>3. CASE Return(r)
    BY <1>2, <2>1, <2>3 DEF Return, Forget, ReadGoto, Typed
  <2>4. QED
    BY <1>3, <2>2, <2>3 DEF Again
<1>4. tries'[r] <= MaxTries /\ (rpc'[r] # "idle" => tries'[r] < MaxTries)
  <2>1. CASE ReaderOpen(r) \/ ReaderClose(r) \/ ReadCall(r)
    BY <1>2, <2>1
       DEF ReaderOpen, ReaderClose, ReadCall, ReadGoto, readerVars, CallInv, Typed
  <2>2. CASE ReadSpin(r) \/ ReadBefore(r) \/ ReadJoint(r)
    BY <2>2 DEF ReadSpin, ReadBefore, ReadJoint, CallInv
  <2>3. CASE ReadAfter(r) \/ ReadLock(r)
    <3>1. rpc[r] # "idle"
      BY <2>3 DEF ReadAfter, ReadLock
    <3>2. CASE UNCHANGED tries
      BY <3>1, <3>2 DEF CallInv
    <3>3. CASE Again(r)
      BY <1>3, <3>1, <3>3
    <3>4. QED
      BY <2>3, <3>2, <3>3 DEF ReadAfter, ReadLock
  <2>4. QED
    BY <2>1, <2>2, <2>3 DEF ReaderAction, ReadStep
<1>5. QED
  BY <1>1, <1>4 DEF OnlyReader, CallInv, writerVars

(* CallInv is inductive. *)
LEMMA CallStep == Typed /\ CallInv /\ [Next]_vars => CallInv'
<1>1. SUFFICES ASSUME Typed, CallInv, [Next]_vars PROVE CallInv'
  OBVIOUS
<1>2. CASE Open \/ Close \/ ProcessDies
  <2>1. /\ UNCHANGED readerVars
        /\ UNCHANGED <<wpc, name>> \/ \A w \in Writers : wpc'[w] = "idle"
    BY <1>2 DEF Open, Close, ProcessDies, LetGo, writerVars
  <2>2. QED
    BY <1>1, <2>1 DEF CallInv, readerVars
<1>3. CASE UNCHANGED vars
  BY <1>1, <1>3 DEF CallInv, vars, writerVars, readerVars
<1>4. QED
  BY <1>1, <1>2, <1>3, CallWriting, CallReading DEF Next, ReaderAction
-----------------------------------------------------------------------------
AllData == {Data(n) : n \in Nat}

(* What Contents() makes of a sequence of names, ... *)
LEMMA ContentsIs ==
  ASSUME NEW names \in Seq(Nat)
  PROVE  /\ Contents(names) \in Seq(AllData)
         /\ Len(Contents(names)) = Len(names)
         /\ \A i \in 1 .. Len(names) : Contents(names)[i] = Data(names[i])
<1> DEFINE n == Len(names)
           e(i) == Data(names[i])
<1>1. n \in Nat /\ \A i \in 1 .. n : e(i) \in AllData
  BY DEF AllData
<1>2. Contents(names) = [i \in 1 .. n |-> e(i)]
  BY DEF Contents
<1> HIDE DEF n, e
<1>3. Contents(names) \in Seq(AllData)
  BY <1>1, <1>2, IsASeq
<1>4. Len(Contents(names)) = n
  BY <1>1, <1>2, <1>3, LenProperties
<1>5. \A i \in 1 .. n : Contents(names)[i] = e(i)
  BY <1>2
<1>6. QED
  BY <1>3, <1>4, <1>5 DEF n, e

(* ... and of one more name. *)
LEMMA ContentsGrow ==
  ASSUME NEW names \in Seq(Nat), NEW n \in Nat
  PROVE  Contents(Append(names, n)) = Append(Contents(names), Data(n))
<1> DEFINE more == Append(names, n)
           left == Contents(more)
           right == Append(Contents(names), Data(n))
<1>1. /\ more \in Seq(Nat) /\ Len(more) = Len(names) + 1 /\ Len(names) \in Nat
      /\ \A i \in 1 .. Len(names) : more[i] = names[i]
      /\ more[Len(names) + 1] = n
  BY AppendProperties
<1>2. Data(n) \in AllData
  BY DEF AllData
<1>3. /\ Contents(names) \in Seq(AllData) /\ Len(Contents(names)) = Len(names)
      /\ \A i \in 1 .. Len(names) : Contents(names)[i] = Data(names[i])
  BY ContentsIs
<1>4. /\ right \in Seq(AllData) /\ Len(right) = Len(names) + 1
      /\ \A i \in 1 .. Len(names) : right[i] = Contents(names)[i]
      /\ right[Len(names) + 1] = Data(n)
  BY <1>2, <1>3, AppendProperties
<1>5. /\ left \in Seq(AllData) /\ Len(left) = Len(names) + 1
      /\ \A i \in 1 .. Len(names) + 1 : left[i] = Data(more[i])
  <2> HIDE DEF more
  <2> QED
    BY <1>1, ContentsIs
<1> HIDE DEF more, left, right
<1>6. ASSUME NEW i \in 1 .. Len(names) + 1
      PROVE  left[i] = right[i]
  <2>1. i \in 1 .. Len(names) \/ i = Len(names) + 1
    BY <1>1
  <2>2. CASE i \in 1 .. Len(names)
    BY <1>1, <1>3, <1>4, <1>5, <2>2, Zenon
  <2>3. CASE i = Len(names) + 1
    BY <1>1, <1>4, <1>5, <2>3, Zenon
  <2>4. QED
    BY <2>1, <2>2, <2>3
<1>7. left = right
  BY <1>1, <1>4, <1>5, <1>6, SeqEqual
<1>8. QED
  BY <1>7 DEF left, right, more
-----------------------------------------------------------------------------
(* What a reader can tell of a segment, where its ticks have their names. *)
LEMMA LogIs ==
  ASSUME Typed, FillInv, NEW s \in Segments
  PROVE  /\ Unready[s] = (mem[s].lock \/ s \in half) /\ Log[s] = Contents(published[s])
         /\ Len(Log[s]) = mem[s].tick
         /\ \A i \in 1 .. mem[s].tick : Log[s][i] = Data(published[s][i])
<1>1. /\ Log[s] = Contents(published[s]) /\ published[s] \in Seq(Nat)
      /\ Len(published[s]) = mem[s].tick
  BY DEF Log, Typed, FillInv
<1>2. QED
  BY <1>1, ContentsIs DEF Unready

(* Opening a segment, closing it and dying is nothing to the readers. *)
LEMMA RegisterOpening ==
  ASSUME Open \/ Close \/ ProcessDies
  PROVE  UNCHANGED Register!vars
<1>1. UNCHANGED <<mem, published, half, rseg, readerVars>>
  BY DEF Open, Close, ProcessDies, LetGo, writerVars
<1>2. QED
  BY <1>1 DEF Unready, Log, Look, LookOf, Left, readerVars, Register!vars

(* A write() is one step of the register: the one that moves the tick. *)
LEMMA RegisterWriting ==
  ASSUME Typed, WriterInv, CallInv, NEW w \in Writers,
         WriteCall(w) \/ WriteStep(w) \/ JointRaises(w)
  PROVE  Register!Next \/ UNCHANGED Register!vars
<1>1. UNCHANGED <<rseg, Look, Left, out>>
  <2>1. UNCHANGED <<rseg, readerVars>>
    BY DEF WriteCall, WriteStep, AcquireTest, AcquireSet, AcquireVerify, TickRead,
           TickWrite, JointWrite, JointRaises, Release, openVars
  <2>2. QED
    BY <2>1 DEF Look, LookOf, Left, readerVars
<1>2. CASE WriteCall(w) \/ AcquireTest(w) \/ AcquireVerify(w) \/ TickRead(w)
  <2>1. UNCHANGED <<mem, published, half>>
    BY <1>2 DEF WriteCall, AcquireTest, AcquireVerify, TickRead
  <2>2. QED
    BY <1>1, <2>1 DEF Unready, Log, Register!vars
<1>3. CASE AcquireSet(w)
  <2>1. /\ seg \in Segments /\ mem' = [mem EXCEPT ![seg].lock = TRUE]
        /\ UNCHANGED <<published, half>>
    BY <1>3 DEF AcquireSet, Typed
  <2>2. Unready' = [Unready EXCEPT ![seg] = TRUE] /\ Log' = Log
    BY <2>1 DEF Unready, Log, Typed
  <2>3. Register!Hold(seg)
    BY <1>1, <2>2 DEF Register!Hold
  <2>4. QED
    BY <2>1, <2>3 DEF Register!Next
<1>4. CASE Release(w)
  <2>1. /\ seg \in Segments /\ mem' = [mem EXCEPT ![seg].lock = FALSE]
        /\ UNCHANGED <<published, half>> /\ mem[seg].lock
    BY <1>4 DEF Release, Typed, WriterInv, LockInv, Inside
  <2>2. Log' = Log
    BY <2>1 DEF Log
  <2>3. CASE seg \in half
    <3>1. Unready' = Unready
      BY <2>1, <2>3 DEF Unready, Typed
    <3>2. QED
      BY <1>1, <2>2, <3>1 DEF Register!vars
  <2>4. CASE seg \notin half
    <3>1. Unready' = [Unready EXCEPT ![seg] = FALSE]
      BY <2>1, <2>4 DEF Unready, Typed
    <3>2. Register!Free(seg)
      BY <1>1, <2>2, <3>1 DEF Register!Free
    <3>3. QED
      BY <2>1, <3>2 DEF Register!Next
  <2>5. QED
    BY <2>3, <2>4
<1>5. CASE JointWrite(w) \/ JointRaises(w)
  <2>1. /\ published' = published /\ seg \in Segments /\ mem[seg].lock
        /\ \A s \in Segments : s # seg => (s \in half' <=> s \in half)
    BY <1>5 DEF JointWrite, JointRaises, Typed, WriterInv, LockInv, Inside
  <2>2. \A s \in Segments : mem'[s].lock = mem[s].lock
    <3>1. CASE mem' = mem
      BY <3>1
    <3>2. CASE mem' = [mem EXCEPT ![seg].block[wi[w]] = name[w]]
      BY <2>1, <3>2, OneBlock DEF Typed
    <3>3. QED
      BY <1>5, <3>1, <3>2 DEF JointWrite, JointRaises
  <2>3. \A s \in Segments : (mem'[s].lock \/ s \in half') = (mem[s].lock \/ s \in half)
    BY <2>1, <2>2
  <2>4. Unready' = Unready /\ Log' = Log
    BY <2>1, <2>3 DEF Unready, Log
  <2>5. QED
    BY <1>1, <2>4 DEF Register!vars
<1>6. CASE TickWrite(w)
  <2>1. /\ seg \in Segments /\ mem' = [mem EXCEPT ![seg].tick = old[w] + 1]
        /\ published' = [published EXCEPT ![seg] = Append(@, name[w])]
        /\ wpc[w] = "tick_write" /\ half' = half
    BY <1>6 DEF TickWrite, Typed
  <2>2. Unready[seg] /\ Unready' = Unready
    <3>1. mem[seg].lock
      BY <2>1 DEF WriterInv, LockInv, Inside
    <3>2. \A s \in Segments : mem'[s].lock = mem[s].lock
      BY <2>1, OneTick
    <3>3. QED
      BY <2>1, <3>1, <3>2 DEF Unready
  <2>3. name[w] \in 1 .. MaxWrites /\ name[w] \in Nat
    BY <2>1 DEF CallInv
  <2>4. Contents(Append(published[seg], name[w]))
          = Append(Contents(published[seg]), Data(name[w]))
    BY <2>1, <2>3, ContentsGrow DEF Typed
  <2>5. Log' = [Log EXCEPT ![seg] = Append(@, Data(name[w]))]
    <3>1. Log' = [s \in Segments |-> Contents(published'[s])]
      BY DEF Log, Contents, Data
    <3>2. \A s \in Segments : s # seg => published'[s] = published[s]
      BY <2>1 DEF Typed
    <3>3. published'[seg] = Append(published[seg], name[w])
      BY <2>1 DEF Typed
    <3>4. \A s \in Segments : s # seg => Contents(published'[s]) = Contents(published[s])
      BY <3>2
    <3>5. Log = [s \in Segments |-> Contents(published[s])]
      BY DEF Log
    <3>6. Contents(published'[seg]) = Append(Contents(published[seg]), Data(name[w]))
      BY <2>4, <3>3
    <3>7. QED
      BY <2>1, <3>1, <3>4, <3>5, <3>6
  <2>6. Register!Publish(seg)
    BY <1>1, <2>2, <2>3, <2>5 DEF Register!Publish
  <2>7. QED
    BY <2>1, <2>6 DEF Register!Next
<1>7. QED
  BY <1>2, <1>3, <1>4, <1>5, <1>6 DEF WriteStep

(* A step of a reader is a step of what it looks at. *)
LEMMA LookStep ==
  ASSUME Typed, NEW r \in Readers, OnlyReader(r)
  PROVE  /\ Unready' = Unready /\ Log' = Log
         /\ Look[r] = LookOf(r) /\ Look' = [Look EXCEPT ![r] = LookOf(r)']
         /\ Left[r] = MaxTries - tries[r]
         /\ Left' = [Left EXCEPT ![r] = MaxTries - tries'[r]]
<1>1. Unready' = Unready /\ Log' = Log
  BY DEF OnlyReader, writerVars, Unready, Log
<1>2. \A q \in Readers : q # r => LookOf(q)' = LookOf(q) /\ tries'[q] = tries[q]
  BY DEF OnlyReader, LookOf
<1>3. Look' = [q \in Readers |-> LookOf(q)']
  BY DEF Look
<1>4. QED
  BY <1>1, <1>2, <1>3 DEF Look, Left

(* What a reader sees that has read the data of a tick. *)
LEMMA LookedAt ==
  ASSUME NEW r \in Readers, rpc[r] \in {"after", "lock"}
  PROVE  /\ LookOf(r).tick = before[r] /\ LookOf(r).how \in {"clean", "dirty"}
         /\ LookOf(r).how = "clean" => ~late[r]
<1>1. LookOf(r) = [how |-> IF late[r] THEN "dirty" ELSE "clean", tick |-> before[r]]
  BY DEF LookOf
<1>2. QED
  BY <1>1

(* A read() that returns what it has. *)
LEMMA RegisterReturns ==
  ASSUME Typed, NEW r \in Readers, OnlyReader(r), Return(r), UNCHANGED rseg,
         rpc[r] \in {"after", "lock"}
  PROVE  /\ Register!Looked(r) /\ got[r] \in [Joints -> 0 .. MaxWrites]
         /\ Register!Returns(r, got[r])
<1>1. Look[r].tick = before[r] /\ Look[r].how \in {"clean", "dirty"}
  BY LookStep, LookedAt
<1>2. out' = [out EXCEPT ![r] = [tick |-> Look[r].tick, data |-> got[r]]]
  BY <1>1 DEF Return, Result
<1>3. LookOf(r)' = [how |-> "none", tick |-> 0]
  <2>1. rpc'[r] = "idle"
    BY DEF Return, Forget, ReadGoto, Typed
  <2>2. QED
    BY <2>1 DEF LookOf
<1>4. Look' = [Look EXCEPT ![r] = Register!NoLook] /\ UNCHANGED <<Unready, Log>>
  BY <1>3, LookStep DEF Register!NoLook
<1>5. got[r] \in [Joints -> 0 .. MaxWrites]
  BY DEF Typed, Blocks, Names
<1>6. QED
  BY <1>1, <1>2, <1>4, <1>5 DEF Register!Looked, Register!Returns

(* A read() that looks again, unless its attempts are used up. *)
LEMMA RegisterAgain ==
  ASSUME Typed, CallInv, NEW r \in Readers, OnlyReader(r), Again(r), UNCHANGED rseg,
         rpc[r] \in {"after", "lock"}, Register!Disturbed(r)
  PROVE  Register!Retry(r) \/ Register!GiveUp(r)
<1>1. /\ tries[r] \in Nat /\ tries[r] < MaxTries /\ MaxTries \in Nat
      /\ tries'[r] = tries[r] + 1
  BY ConstantsAssumption DEF Again, CallInv, Typed
<1>2. Left[r] = MaxTries - tries[r] /\ Left' = [Left EXCEPT ![r] = Left[r] - 1]
  <2>1. MaxTries - tries'[r] = Left[r] - 1
    BY <1>1, LookStep
  <2>2. QED
    BY <2>1, LookStep
<1>3. Register!Looked(r)
  BY LookStep, LookedAt DEF Register!Looked
<1>4. CASE tries[r] + 1 < MaxTries /\ ReadGoto(r, "spin")
           /\ Forget(r) /\ UNCHANGED out
  <2>1. Left[r] > 1
    BY <1>1, <1>2, <1>4
  <2>2. LookOf(r)' = [how |-> "begun", tick |-> 0]
    <3>1. rpc'[r] = "spin"
      BY <1>4 DEF ReadGoto, Typed
    <3>2. QED
      BY <3>1 DEF LookOf
  <2>3. Look' = [Look EXCEPT ![r] = Register!ToLook] /\ UNCHANGED <<Unready, Log>>
    BY <2>2, LookStep DEF Register!ToLook
  <2>4. Register!Retry(r)
    BY <1>2, <1>3, <1>4, <2>1, <2>3 DEF Register!Retry
  <2>5. QED
    BY <2>4
<1>5. CASE tries[r] + 1 >= MaxTries /\ Return(r)
  <2>1. Left[r] = 1 /\ Left' = [Left EXCEPT ![r] = 0]
    <3>1. Left[r] = 1 /\ Left[r] - 1 = 0
      BY <1>1, <1>2, <1>5
    <3>2. QED
      BY <1>2, <3>1
  <2>2. got[r] \in [Joints -> 0 .. MaxWrites] /\ Register!Returns(r, got[r])
    BY <1>5, RegisterReturns
  <2>3. Register!GiveUp(r)
    BY <1>3, <2>1, <2>2 DEF Register!GiveUp
  <2>4. QED
    BY <2>3
<1>6. QED
  BY <1>4, <1>5 DEF Again

(* A read() is one step of the register: the one that reads the first tick.*)
LEMMA RegisterReading ==
  ASSUME Typed, WriterInv, CallInv, NEW r \in Readers, ReaderInv(r), ReaderAction(r)
  PROVE  Register!Next \/ UNCHANGED Register!vars
<1>1. OnlyReader(r)
  BY ReaderOnly
<1>2. /\ UNCHANGED <<Unready, Log>>
      /\ Look[r] = LookOf(r) /\ Look' = [Look EXCEPT ![r] = LookOf(r)']
      /\ Left' = [Left EXCEPT ![r] = MaxTries - tries'[r]]
      /\ Look \in [Readers -> {LookOf(q) : q \in Readers}]
      /\ Left \in [Readers -> Int]
  <2>1. Left \in [Readers -> Int]
    BY ConstantsAssumption DEF Left, Typed
  <2>2. QED
    BY <1>1, <2>1, LookStep DEF Look
<1>3. CASE ReaderOpen(r)
  <2>1. /\ rpc[r] = "idle" /\ rseg[r] = NoSegment /\ named \in Segments
        /\ rseg' = [rseg EXCEPT ![r] = named] /\ UNCHANGED readerVars
    BY <1>3 DEF ReaderOpen, Typed
  <2>2. Look[r] = Register!NoLook
    BY <1>2, <2>1 DEF LookOf, Register!NoLook
  <2>3. UNCHANGED <<Look, Left, out>>
    BY <2>1 DEF Look, LookOf, Left, readerVars
  <2>4. Register!Attach(r, named)
    BY <1>2, <2>1, <2>2, <2>3 DEF Register!Attach
  <2>5. QED
    BY <2>1, <2>4 DEF Register!Next
<1>4. CASE ReaderClose(r)
  <2>1. /\ rpc[r] = "idle" /\ rseg' = [rseg EXCEPT ![r] = NoSegment]
        /\ out' = [out EXCEPT ![r] = NoResult] /\ tries'[r] = 0 /\ rpc' = rpc
    BY <1>4 DEF ReaderClose, Typed
  <2>2. Look[r] = Register!NoLook
    BY <1>2, <2>1 DEF LookOf, Register!NoLook
  <2>3. Look' = Look
    <3>1. LookOf(r)' = LookOf(r)
      BY <2>1 DEF LookOf
    <3>2. QED
      BY <1>2, <3>1
  <2>4. Left' = [Left EXCEPT ![r] = MaxTries]
    <3>1. MaxTries - tries'[r] = MaxTries
      BY <2>1, ConstantsAssumption
    <3>2. QED
      BY <1>2, <3>1
  <2>5. Register!Detach(r)
    BY <1>2, <2>1, <2>2, <2>3, <2>4 DEF Register!Detach
  <2>6. QED
    BY <2>5 DEF Register!Next
<1>5. CASE ReadCall(r)
  <2>1. /\ rpc[r] = "idle" /\ rseg[r] # NoSegment /\ rpc'[r] = "spin"
        /\ tries'[r] = 0 /\ UNCHANGED <<rseg, out>>
    BY <1>5 DEF ReadCall, ReadGoto, openVars, Typed
  <2>2. Look[r] = Register!NoLook
    BY <1>2, <2>1 DEF LookOf, Register!NoLook
  <2>3. LookOf(r)' = Register!ToLook
    BY <2>1 DEF LookOf, Register!ToLook
  <2>4. Left' = [Left EXCEPT ![r] = MaxTries]
    <3>1. MaxTries - tries'[r] = MaxTries
      BY <2>1, ConstantsAssumption
    <3>2. QED
      BY <1>2, <3>1
  <2>5. Register!Begin(r)
    BY <1>2, <2>1, <2>2, <2>3, <2>4 DEF Register!Begin
  <2>6. QED
    BY <2>5 DEF Register!Next
<1>6. CASE ReadSpin(r) \/ ReadJoint(r)
  <2>1. UNCHANGED <<rseg, tries, out, before, late>>
    BY <1>6 DEF ReadSpin, ReadJoint, openVars
  <2>2. LookOf(r)' = LookOf(r)
    BY <1>6, <2>1 DEF ReadSpin, ReadJoint, ReadGoto, LookOf, Typed
  <2>3. QED
    BY <1>2, <2>1, <2>2 DEF Left, Register!vars
<1>7. CASE ReadBefore(r)
  <2>1. /\ rpc[r] = "before" /\ rpc'[r] = "joint" /\ UNCHANGED <<rseg, tries, out>>
        /\ before'[r] = mem[rseg[r]].tick
        /\ late'[r] = (mem[rseg[r]].lock \/ rseg[r] \in half)
        /\ rseg[r] \in Segments
    BY <1>7 DEF ReadBefore, ReadGoto, At, openVars, Typed
  <2>2. Look[r] = Register!ToLook
    BY <1>2, <2>1 DEF LookOf, Register!ToLook
  <2>3. /\ Unready[rseg[r]] = late'[r]
        /\ Len(Log[rseg[r]]) = mem[rseg[r]].tick
    BY <2>1, LogIs DEF WriterInv
  <2>4. LookOf(r)' = [how  |-> IF Unready[rseg[r]] THEN "dirty" ELSE "clean",
                      tick |-> Len(Log[rseg[r]])]
    BY <2>1, <2>3 DEF LookOf
  <2>5. Left' = Left
    BY <2>1 DEF Left
  <2>6. Register!Look(r)
    BY <1>2, <2>1, <2>2, <2>4, <2>5 DEF Register!Look
  <2>7. QED
    BY <2>6 DEF Register!Next
<1>8. CASE ReadAfter(r)
  <2>1. rpc[r] = "after" /\ rseg[r] \in Segments /\ UNCHANGED <<rseg, late>>
    BY <1>8 DEF ReadAfter, openVars, Typed
  <2>2. CASE ReadGoto(r, "lock") /\ UNCHANGED <<before, ri, got, tries, out>>
    <3>1. LookOf(r)' = LookOf(r)
      BY <2>1, <2>2 DEF ReadGoto, LookOf, Typed
    <3>2. QED
      BY <1>2, <2>1, <2>2, <3>1 DEF Left, Register!vars
  <2>3. CASE At(r).tick # before[r] /\ Again(r)
    <3>1. Register!Disturbed(r)
      BY <1>2, <2>1, <2>3, LogIs DEF At, LookOf, WriterInv, Register!Disturbed
    <3>2. QED
      BY <1>1, <2>1, <2>3, <3>1, RegisterAgain DEF Register!Next
  <2>4. QED
    BY <1>8, <2>2, <2>3 DEF ReadAfter
<1>9. CASE ReadLock(r)
  <2>1. rpc[r] = "lock" /\ rseg[r] \in Segments /\ UNCHANGED rseg
    BY <1>9 DEF ReadLock, openVars, Typed
  <2>2. CASE Return(r) /\ UNCHANGED tries
    <3>1. /\ Register!Looked(r) /\ Register!Returns(r, got[r])
          /\ got[r] \in [Joints -> 0 .. MaxWrites]
      BY <1>1, <2>1, <2>2, RegisterReturns
    <3>2. ASSUME Look[r].how = "clean"
          PROVE  got[r] = Register!Version(rseg[r], Look[r].tick)
      <4>1. ~late[r] /\ Look[r].tick = before[r]
        BY <1>2, <2>1, <3>2 DEF LookOf
      <4>2. DataOf(rseg[r], before[r], got[r])
        BY <2>1, <4>1 DEF ReaderInv, ReadInv
      <4>3. CASE before[r] = 0 /\ got[r] = Blank
        BY <4>1, <4>3 DEF Register!Version
      <4>4. CASE /\ before[r] \in 1 .. Len(published[rseg[r]])
                 /\ got[r] = Data(published[rseg[r]][before[r]])
        <5>1. before[r] \in 1 .. mem[rseg[r]].tick /\ before[r] # 0
          BY <2>1, <4>4 DEF WriterInv, FillInv, Typed
        <5>2. Log[rseg[r]][before[r]] = Data(published[rseg[r]][before[r]])
          BY <2>1, <5>1, LogIs DEF WriterInv
        <5>3. QED
          BY <4>1, <4>4, <5>1, <5>2 DEF Register!Version
      <4>5. QED
        BY <4>2, <4>3, <4>4 DEF DataOf, Data
    <3>3. Left' = Left
      BY <2>2 DEF Left
    <3>4. Register!Return(r)
      BY <3>1, <3>2, <3>3 DEF Register!Return
    <3>5. QED
      BY <3>4 DEF Register!Next
  <2>3. CASE At(r).lock /\ Again(r)
    <3>1. Register!Disturbed(r)
      BY <2>1, <2>3 DEF At, Unready, Register!Disturbed
    <3>2. QED
      BY <1>1, <2>1, <2>3, <3>1, RegisterAgain DEF Register!Next
  <2>4. QED
    BY <1>9, <2>2, <2>3 DEF ReadLock
<1>10. QED
  BY <1>3, <1>4, <1>5, <1>6, <1>7, <1>8, <1>9 DEF ReaderAction, ReadStep

(* As long as no two writers hold the lock at once, the segment that       *)
(* write() fills block by block and read() reads block by block is to its  *)
(* readers a register that is written in one step and read in one step,    *)
(* over every close, death and restart of the arm's process: a read() that *)
(* finds the lock free, and not over a write() that raised half way, gives *)
(* the state that was published last at the moment it read the first tick  *)
(* (shared_state.py).                                                      *)
THEOREM RegisterImplements == Spec => RegisterSpec
<1>1. Init => Register!Init
  <2>1. SUFFICES ASSUME Init PROVE Register!Init
    OBVIOUS
  <2>2. /\ Unready = [s \in Segments |-> FALSE]
        /\ rseg = [r \in Readers |-> NoSegment]
        /\ out = [r \in Readers |-> NoResult]
    BY <2>1 DEF Init, Unready, Fresh
  <2>3. Log = [s \in Segments |-> <<>>]
    <3>1. Contents(<<>>) = <<>>
      <4>1. <<>> \in Seq(Nat) /\ Len(<<>>) = 0
        OBVIOUS
      <4>2. Contents(<<>>) \in Seq(AllData) /\ Len(Contents(<<>>)) = 0
        BY <4>1, ContentsIs
      <4>3. QED
        BY <4>2, EmptySeq
    <3>2. QED
      BY <2>1, <3>1 DEF Init, Log
  <2>4. Look = [r \in Readers |-> Register!NoLook]
    BY <2>1 DEF Init, Look, LookOf, Register!NoLook
  <2>5. Left = [r \in Readers |-> MaxTries]
    BY <2>1, ConstantsAssumption DEF Init, Left
  <2>6. QED
    BY <2>2, <2>3, <2>4, <2>5 DEF Register!Init
<1>2. IInv /\ IInv' /\ CallInv /\ [Next]_vars
        => [~both' => Register!Next]_(Register!vars)
  <2>1. SUFFICES ASSUME IInv, CallInv, [Next]_vars, ~both'
                 PROVE  Register!Next \/ UNCHANGED Register!vars
    BY Zenon
  <2>2. Typed /\ WriterInv /\ \A r \in Readers : ReaderInv(r)
    BY <2>1, BothStays DEF IInv
  <2>3. CASE UNCHANGED vars
    BY <2>3
       DEF vars, openVars, writerVars, readerVars, Unready, Log, Look, LookOf, Left,
           Register!vars
  <2>4. QED
    BY <2>1, <2>2, <2>3, RegisterOpening, RegisterWriting, RegisterReading
       DEF Next, ReaderAction
<1>3. IInv /\ CallInv /\ [Next]_vars => CallInv'
  BY CallStep DEF IInv
<1>4. QED
  BY <1>1, <1>2, <1>3, CallInit, Invariance, PTL DEF Spec, RegisterSpec
=============================================================================
