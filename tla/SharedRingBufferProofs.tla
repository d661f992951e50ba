----------------------- MODULE SharedRingBufferProofs -----------------------
(***************************************************************************)
(* What holds of SharedRingBuffer for every number of readers, slots and   *)
(* words, however often the writer dies inside put() or clear().           *)
(***************************************************************************)
EXTENDS SharedRingBuffer, SequenceTheorems, TLAPS

(* Every tick has a slot, and its successor another one.                   *)
LEMMA SlotInRange ==
  ASSUME NEW t \in Nat
  PROVE  SlotOf(t) \in Slots
BY ConstantsAssumption DEF SlotOf, Slots

(* With two slots the next observation goes to another slot. *)
LEMMA NextSlotDiffers ==
  ASSUME BufferSize >= 2, NEW t \in Nat
  PROVE  SlotOf(t + 1) # SlotOf(t)
<1>1. ASSUME NEW b \in Nat, b >= 2, (t + 1) % b = t % b
      PROVE  FALSE
  <2>1. t = b * (t \div b) + (t % b) /\ t + 1 = b * ((t + 1) \div b) + ((t + 1) % b)
    BY <1>1
  <2>2. t \div b \in Int /\ (t + 1) \div b \in Int
    BY <1>1
  <2>3. PICK p \in Int : p = t \div b
    BY <2>2
  <2>4. PICK q \in Int : q = (t + 1) \div b
    BY <2>2
  <2>5. b * q = b * p + 1
    BY <1>1, <2>1, <2>3, <2>4
  <2>6. CASE q <= p
    <3>1. b * q <= b * p
      BY <1>1, <2>6
    <3>2. QED
      BY <1>1, <2>5, <3>1
  <2>7. CASE q >= p + 1
    <3>1. b * q >= b * (p + 1)
      BY <1>1, <2>7
    <3>2. b * (p + 1) = b * p + b
      BY <1>1
    <3>3. QED
      BY <1>1, <2>5, <3>1, <3>2
  <2>8. QED
    BY <2>6, <2>7
<1>2. QED
  BY <1>1, ConstantsAssumption DEF SlotOf
-----------------------------------------------------------------------------
(***************************************************************************)
(* The inductive invariant.                                                *)
(***************************************************************************)
Reading  == {"get_word", "get_check", "last_word", "last_check"}
Aiming   == Reading \cup {"get_slot", "last"}

(* What a reader's step says of its own variables.                         *)
Shape ==
  \A r \in Readers :
    /\ rpc[r] \in Reading => got[r] \in [Words -> Nat]
    /\ rpc[r] \in {"get_slot", "get_word", "get_check"} => target[r] >= 1
    /\ rpc[r] \in {"last", "last_word", "last_check"} => left[r] <= target[r]
    /\ rpc[r] \in {"last_word", "last_check"} => left[r] >= 1
    /\ rpc[r] \in {"get_check", "last_check"} => idx[r] > NumWords

(* The memory: each slot holds the observation of its tick, unless it is   *)
(* the one being written, whose tick is not published yet.                 *)
MemInv ==
  /\ Len(published) = tick
  /\ \A s \in Slots : slotTick[s] # 0 => SlotOf(slotTick[s]) = s
  /\ \A s \in Slots : slotTick[s] # 0 /\ slotTick[s] <= tick =>
       \A w \in Words : slotData[s][w] = published[slotTick[s]]
  /\ tick > 0 => slotTick[SlotOf(tick)] = tick
  /\ wpc = "put" =>
       /\ slotTick[SlotOf(tick + 1)] = tick + 1
       /\ \A w \in Words : w < wi => slotData[SlotOf(tick + 1)][w] = puts
  /\ wpc = "clear" => tick = 0

(* The readers: as long as the slot still has the tick a reader aims at,   *)
(* the words it has read are those of that tick.                           *)
AimsBack(r) == rpc[r] \in Aiming => target[r] <= tick

ReadsTarget(r) ==
  rpc[r] \in Reading /\ slotTick[SlotOf(target[r])] = target[r] =>
    \A w \in Words : w < idx[r] => got[r][w] = published[target[r]]

OutWhole(r) ==
  tries[r] < MaxRetries =>
    \A j \in 1 .. Len(out[r]) :
      /\ out[r][j].tick \in 1 .. Len(published)
      /\ Whole(out[r][j].data, published[out[r][j].tick])

ReadInv ==
  \A r \in Readers : ~cleared[r] => AimsBack(r) /\ ReadsTarget(r) /\ OutWhole(r)

Inv == TypeOK /\ Shape /\ MemInv /\ ReadInv

(* An empty buffer. *)
LEMMA InitInv ==
  ASSUME Init
  PROVE  Inv
<1>1. Blank \in [Words -> Nat]
  BY DEF Blank
<1>2. \A r \in Readers : out[r] = <<>> /\ rpc[r] = "idle"
  BY DEF Init
<1>3. TypeOK
  BY <1>1, ConstantsAssumption DEF Init, TypeOK, ReaderSteps
<1>4. Shape /\ ReadInv
  BY <1>2 DEF Shape, ReadInv, AimsBack, ReadsTarget, OutWhole, Reading, Aiming
<1>5. MemInv
  BY DEF Init, MemInv
<1>6. QED
  BY <1>3, <1>4, <1>5 DEF Inv

-----------------------------------------------------------------------------
(* The steps of the writer.                                                *)
LEMMA WriterTyped ==
  ASSUME Inv, Writer
  PROVE  TypeOK' /\ Shape'
<1>1. Shape'
  BY DEF Inv, Shape, Writer, PutSlotTick, PutWord, PutPublish, ClearTick,
         ClearSlot, WriterRestart, readerVars
<1>2. CASE PutSlotTick
  <2>1. slotTick' \in [Slots -> Nat]
    BY <1>2, SlotInRange DEF Inv, TypeOK, PutSlotTick
  <2>2. puts' \in Nat
    BY <1>2 DEF Inv, TypeOK, PutSlotTick
  <2>3. QED
    BY <1>1, <1>2, <2>1, <2>2 DEF Inv, TypeOK, PutSlotTick, readerVars
<1>3. CASE PutWord
  <2>1. SlotOf(tick + 1) \in Slots /\ wi \in Words \cup {0}
    BY <1>3, SlotInRange, ConstantsAssumption DEF Inv, TypeOK, PutWord, Words
  <2>2. slotData' \in [Slots -> [Words -> Nat]]
    BY <1>3, <2>1 DEF Inv, TypeOK, PutWord
  <2>3. QED
    BY <1>1, <1>3, <2>2 DEF Inv, TypeOK, PutWord, readerVars
<1>4. CASE PutPublish
  <2>1. tick' \in Nat /\ published' \in Seq(Nat)
    BY <1>4 DEF Inv, TypeOK, PutPublish
  <2>2. QED
    BY <1>1, <1>4, <2>1 DEF Inv, TypeOK, PutPublish, readerVars
<1>5. CASE ClearTick
  <2>1. tick' \in Nat /\ published' \in Seq(Nat) /\ clears' \in Nat
    BY <1>5 DEF Inv, TypeOK, ClearTick
  <2>2. cleared' \in [Readers -> BOOLEAN]
    BY <1>5 DEF ClearTick
  <2>3. QED
    BY <1>1, <1>5, <2>1, <2>2 DEF Inv, TypeOK, ClearTick, readerVars
<1>6. CASE ClearSlot
  <2>1. Blank \in [Words -> Nat]
    BY DEF Blank
  <2>2. CASE wi < BufferSize
    <3>1. slotTick' \in [Slots -> Nat]
      BY <1>6, <2>2 DEF Inv, TypeOK, ClearSlot
    <3>2. slotData' \in [Slots -> [Words -> Nat]]
      BY <1>6, <2>1, <2>2 DEF Inv, TypeOK, ClearSlot
    <3>3. wi' \in Nat /\ wpc' = wpc
      BY <1>6, <2>2 DEF Inv, TypeOK, ClearSlot
    <3>4. QED
      BY <1>1, <1>6, <3>1, <3>2, <3>3 DEF Inv, TypeOK, ClearSlot, readerVars
  <2>3. CASE wi = BufferSize
    BY <1>1, <1>6, <2>3 DEF Inv, TypeOK, ClearSlot, readerVars
  <2>4. wi < BufferSize \/ wi = BufferSize
    BY <1>6 DEF ClearSlot
  <2>5. QED
    BY <2>2, <2>3, <2>4
<1>7. CASE WriterRestart
  BY <1>1, <1>7 DEF Inv, TypeOK, WriterRestart, memory, readerVars
<1>8. QED
  BY <1>2, <1>3, <1>4, <1>5, <1>6, <1>7 DEF Writer

(* The steps of the writer keep what the slots hold. *)
LEMMA WriterMem ==
  ASSUME BufferSize >= 2, Inv, Writer
  PROVE  MemInv'
<1>1. SlotOf(tick) \in Slots /\ SlotOf(tick + 1) \in Slots
  BY SlotInRange DEF Inv, TypeOK
<1>2. SlotOf(tick + 1) # SlotOf(tick)
  BY NextSlotDiffers DEF Inv, TypeOK
<1>3. CASE PutSlotTick
  <2>1. slotTick' = [slotTick EXCEPT ![SlotOf(tick + 1)] = tick + 1]
        /\ UNCHANGED <<tick, slotData, published>> /\ wpc' = "put" /\ wi' = 1
    BY <1>3 DEF PutSlotTick
  <2>2. \A w \in Words : ~(w < 1)
    BY DEF Words
  <2>3. QED
    BY <1>1, <1>2, <2>1, <2>2 DEF Inv, TypeOK, MemInv
<1>4. CASE PutWord
  <2>1. /\ slotData' = [slotData EXCEPT ![SlotOf(tick + 1)][wi] = puts]
        /\ wi' = wi + 1 /\ wpc = "put"
        /\ UNCHANGED <<tick, slotTick, published, wpc, puts>>
    BY <1>4 DEF PutWord
  <2>2. \A s \in Slots : s # SlotOf(tick + 1) => slotData'[s] = slotData[s]
    BY <1>1, <2>1 DEF Inv, TypeOK
  <2>3. \A w \in Words : slotData'[SlotOf(tick + 1)][w] =
          IF w = wi THEN puts ELSE slotData[SlotOf(tick + 1)][w]
    BY <1>1, <2>1 DEF Inv, TypeOK
  <2>4. slotTick[SlotOf(tick + 1)] = tick + 1 /\ tick \in Nat /\ wi \in Nat
    BY <2>1 DEF Inv, MemInv, TypeOK
  <2>5. \A w \in Words : w < wi + 1 => slotData'[SlotOf(tick + 1)][w] = puts
    BY <2>1, <2>3, <2>4 DEF Inv, MemInv, Words
  <2>6. \A s \in Slots : slotTick[s] # 0 /\ slotTick[s] <= tick =>
          \A w \in Words : slotData'[s][w] = published[slotTick[s]]
    BY <2>2, <2>4 DEF Inv, MemInv
  <2>7. QED
    BY <2>1, <2>4, <2>5, <2>6 DEF Inv, MemInv
<1>5. CASE PutPublish
  <2>1. /\ tick' = tick + 1 /\ published' = Append(published, puts)
        /\ wpc = "put" /\ wpc' = "idle" /\ wi > NumWords
        /\ UNCHANGED <<slotTick, slotData, puts>>
    BY <1>5 DEF PutPublish
  <2>2. /\ published \in Seq(Nat) /\ tick \in Nat /\ Len(published) = tick
        /\ slotTick \in [Slots -> Nat]
    BY DEF Inv, TypeOK, MemInv
  <2>3. /\ Len(published') = tick + 1 /\ published'[tick + 1] = puts
        /\ \A i \in 1 .. tick : published'[i] = published[i]
    BY <2>1, <2>2
  <2>4. \A w \in Words : slotData[SlotOf(tick + 1)][w] = puts
    BY <2>1, ConstantsAssumption DEF Inv, MemInv, TypeOK, Words
  <2>5. ASSUME NEW s \in Slots, slotTick[s] # 0, slotTick[s] <= tick + 1,
               NEW w \in Words
        PROVE  slotData[s][w] = published'[slotTick[s]]
    <3>1. CASE slotTick[s] = tick + 1
      <4>1. s = SlotOf(tick + 1)
        BY <2>5, <3>1 DEF Inv, MemInv
      <4>2. QED
        BY <2>3, <2>4, <3>1, <4>1
    <3>2. CASE slotTick[s] <= tick
      <4>1. slotTick[s] \in 1 .. tick
        BY <2>2, <2>5, <3>2
      <4>2. QED
        BY <2>3, <2>5, <3>2, <4>1 DEF Inv, MemInv
    <3>3. QED
      BY <2>2, <2>5, <3>1, <3>2
  <2>6. QED
    BY <2>1, <2>3, <2>5 DEF Inv, MemInv
<1>6. CASE ClearTick
  BY <1>6 DEF Inv, TypeOK, MemInv, ClearTick
<1>7. CASE ClearSlot
  <2>1. tick = 0 /\ tick' = 0 /\ published' = published /\ wpc' # "put"
    BY <1>7 DEF ClearSlot, Inv, MemInv
  <2>2. \A s \in Slots : slotTick'[s] \in {0, slotTick[s]}
    BY <1>7 DEF ClearSlot, Inv, TypeOK
  <2>3. \A s \in Slots : slotTick[s] \in Nat
    BY DEF Inv, TypeOK
  <2>4. QED
    BY <2>1, <2>2, <2>3 DEF Inv, MemInv
<1>8. CASE WriterRestart
  BY <1>8 DEF Inv, MemInv, WriterRestart, memory
<1>9. QED
  BY <1>3, <1>4, <1>5, <1>6, <1>7, <1>8 DEF Writer

(* A writer's step never makes a slot hold the tick some reader aims at,   *)
(* and never rewrites what was published.                                  *)
LEMMA WriterReads ==
  ASSUME BufferSize >= 2, Inv, Writer
  PROVE  ReadInv'
<1>1. /\ tick \in Nat /\ published \in Seq(Nat) /\ Len(published) = tick
      /\ target \in [Readers -> Nat] /\ out \in [Readers -> Seq(Observations)]
      /\ SlotOf(tick + 1) \in Slots
  BY SlotInRange DEF Inv, TypeOK, MemInv
<1>2. UNCHANGED readerVars
  BY DEF Writer, PutSlotTick, PutWord, PutPublish, ClearTick, ClearSlot,
         WriterRestart
<1>3. CASE ClearTick
  BY <1>3 DEF ClearTick, ReadInv
<1>4. CASE ~ClearTick
  <2>1. cleared' = cleared /\ tick <= tick'
    BY <1>1, <1>4 DEF Writer, PutSlotTick, PutWord, PutPublish, ClearSlot,
                      WriterRestart, memory
  <2>2. /\ Len(published) <= Len(published')
        /\ \A i \in 1 .. Len(published) : published'[i] = published[i]
    BY <1>1, <1>4 DEF Writer, PutSlotTick, PutWord, PutPublish, ClearSlot,
                      WriterRestart
  <2>3. ASSUME NEW s \in Slots, slotTick'[s] # slotTick[s]
        PROVE  slotTick'[s] = 0 \/ slotTick'[s] > tick
    BY <1>1, <1>4, <2>3
       DEF Writer, PutSlotTick, PutWord, PutPublish, ClearSlot, WriterRestart,
           memory, Inv, TypeOK
  <2>4. SUFFICES ASSUME NEW r \in Readers, ~cleared[r]
                 PROVE  AimsBack(r)' /\ ReadsTarget(r)' /\ OutWhole(r)'
    BY <2>1, <2>4 DEF ReadInv
  <2>5. /\ rpc'[r] = rpc[r] /\ target'[r] = target[r] /\ idx'[r] = idx[r]
        /\ got'[r] = got[r] /\ tries'[r] = tries[r] /\ out'[r] = out[r]
    BY <1>2 DEF readerVars
  <2>6. AimsBack(r) /\ ReadsTarget(r) /\ OutWhole(r)
    BY <2>4 DEF Inv, ReadInv
  <2>7. AimsBack(r)'
    <3>1. tick' \in Nat /\ target[r] \in Nat
      BY <1>1, WriterTyped DEF TypeOK
    <3>2. QED
      BY <1>1, <2>1, <2>5, <2>6, <3>1 DEF AimsBack
  <2>8. ReadsTarget(r)'
    <3>1. SUFFICES ASSUME rpc[r] \in Reading,
                          slotTick'[SlotOf(target[r])] = target[r],
                          NEW w \in Words, w < idx[r]
                   PROVE  got[r][w] = published'[target[r]]
      BY <2>5, <3>1 DEF ReadsTarget
    <3>2. target[r] \in 1 .. tick
      <4>1. target[r] <= tick
        BY <2>6, <3>1 DEF AimsBack, Aiming
      <4>2. target[r] >= 1
        BY <1>1, <3>1 DEF Inv, TypeOK, Shape, Reading
      <4>3. QED
        BY <1>1, <4>1, <4>2
    <3>3. SlotOf(target[r]) \in Slots
      BY <3>2, SlotInRange
    <3>4. slotTick[SlotOf(target[r])] = target[r]
      <4>1. target[r] # 0 /\ ~(target[r] > tick)
        BY <1>1, <3>2
      <4>2. QED
        BY <2>3, <3>1, <3>3, <4>1
    <3>5. got[r][w] = published[target[r]]
      BY <2>6, <3>1, <3>4 DEF ReadsTarget
    <3>6. QED
      BY <1>1, <2>2, <3>2, <3>5
  <2>9. OutWhole(r)'
    <3>1. SUFFICES ASSUME tries[r] < MaxRetries, NEW j \in 1 .. Len(out[r])
                   PROVE  /\ out[r][j].tick \in 1 .. Len(published')
                          /\ Whole(out[r][j].data, published'[out[r][j].tick])
      BY <2>5, <3>1 DEF OutWhole, Whole
    <3>2. /\ out[r][j].tick \in 1 .. Len(published)
          /\ Whole(out[r][j].data, published[out[r][j].tick])
      BY <2>6, <3>1 DEF OutWhole
    <3>3. Len(published) \in Nat /\ Len(published') \in Nat
      BY <1>1, WriterTyped DEF TypeOK
    <3>4. QED
      BY <2>2, <3>2, <3>3 DEF Whole
  <2>10. QED
    BY <2>7, <2>8, <2>9
<1>5. QED
  BY <1>3, <1>4
-----------------------------------------------------------------------------
(* The steps of a reader.                                                  *)
LEMMA LeastTyped ==
  ASSUME NEW a \in Nat, NEW b \in Nat
  PROVE  Least(a, b) \in Nat /\ Least(a, b) <= a /\ Least(a, b) <= b
BY DEF Least

(* Types: a reader copies a word. *)
LEMMA ReadWordTyped ==
  ASSUME Inv, NEW r \in Readers, NEW step \in Reading, NEW next \in Reading,
         ReadWord(r, step, next)
  PROVE  /\ got' \in [Readers -> [Words -> Nat] \cup {NoData}]
         /\ got'[r] \in [Words -> Nat]
         /\ idx' \in [Readers -> Nat \ {0}]
         /\ rpc' \in [Readers -> ReaderSteps]
<1>1. got[r] \in [Words -> Nat]
  BY DEF ReadWord, Inv, Shape
<1>2. next \in ReaderSteps
  BY DEF Reading, ReaderSteps
<1>3. CASE idx[r] <= NumWords
  <2>1. idx[r] \in Words
    BY <1>3, ConstantsAssumption DEF Inv, TypeOK, Words
  <2>2. SlotOf(target[r]) \in Slots
    BY SlotInRange DEF Inv, TypeOK
  <2>3. slotData[SlotOf(target[r])][idx[r]] \in Nat
    BY <2>1, <2>2 DEF Inv, TypeOK
  <2>4. got' = [got EXCEPT ![r] =
                  [got[r] EXCEPT ![idx[r]] = slotData[SlotOf(target[r])][idx[r]]]]
        /\ idx' = [idx EXCEPT ![r] = idx[r] + 1] /\ rpc' = rpc
    BY <1>3, ConstantsAssumption DEF ReadWord, Inv, TypeOK
  <2>5. [got[r] EXCEPT ![idx[r]] = slotData[SlotOf(target[r])][idx[r]]]
          \in [Words -> Nat]
    BY <1>1, <2>3
  <2>6. QED
    BY <2>4, <2>5 DEF Inv, TypeOK
<1>4. CASE ~(idx[r] <= NumWords)
  BY <1>1, <1>2, <1>4 DEF ReadWord, Inv, TypeOK
<1>5. QED
  BY <1>3, <1>4

(* Types: the steps of a reader. *)
LEMMA ReaderTyped ==
  ASSUME Inv, NEW r \in Readers, Reader(r)
  PROVE  TypeOK' /\ Shape'
<1>0. /\ tick \in Nat
      /\ target \in [Readers -> Nat] /\ idx \in [Readers -> Nat \ {0}]
      /\ tries \in [Readers -> Nat] /\ left \in [Readers -> Nat]
      /\ out \in [Readers -> Seq(Observations)]
      /\ rpc \in [Readers -> ReaderSteps]
  BY DEF Inv, TypeOK
<1>1. Blank \in [Words -> Nat]
  BY DEF Blank
<1>2. CASE GetCall(r)
  <2>1. TypeOK'
    BY <1>2 DEF Inv, TypeOK, GetCall, ReaderSteps, memory, writerVars
  <2>2. Shape'
    BY <1>2 DEF Inv, TypeOK, Shape, GetCall, Reading
  <2>3. QED
    BY <2>1, <2>2
<1>3. CASE GetTick(r)
  <2>1. CASE tries[r] < MaxRetries
    <3>0. UNCHANGED out /\ target' = [target EXCEPT ![r] = tick]
          /\ rpc' = [rpc EXCEPT ![r] = IF tick = 0 THEN "idle" ELSE "get_slot"]
      BY <1>3, <2>1, ConstantsAssumption DEF Inv, TypeOK, GetTick
    <3>1. TypeOK'
      <4>1. rpc' \in [Readers -> ReaderSteps] /\ target' \in [Readers -> Nat]
        BY <3>0 DEF Inv, TypeOK, ReaderSteps
      <4>2. QED
        BY <1>3, <3>0, <4>1 DEF Inv, TypeOK, GetTick, memory, writerVars
    <3>2. Shape'
      BY <1>3, <2>1, ConstantsAssumption DEF Inv, TypeOK, Shape, GetTick, Reading
    <3>3. QED
      BY <3>1, <3>2
  <2>2. CASE tries[r] = MaxRetries
    <3>0. PICK o : /\ o = IF got[r] = NoData THEN <<>>
                          ELSE <<[tick |-> target[r], data |-> got[r]]>>
                   /\ out' = [out EXCEPT ![r] = o]
                   /\ rpc' = [rpc EXCEPT ![r] = "idle"] /\ UNCHANGED target
      BY <1>3, <2>2, ConstantsAssumption DEF Inv, TypeOK, GetTick
    <3>1. o \in Seq(Observations)
      <4>1. CASE got[r] = NoData
        BY <3>0, <4>1
      <4>2. CASE got[r] # NoData
        <5>1. [tick |-> target[r], data |-> got[r]] \in Observations
          BY <4>2 DEF Inv, TypeOK, Observations
        <5>2. QED
          BY <3>0, <4>2, <5>1
      <4>3. QED
        BY <4>1, <4>2
    <3>2. TypeOK'
      <4>1. out' \in [Readers -> Seq(Observations)]
        BY <3>0, <3>1 DEF Inv, TypeOK
      <4>2. rpc' \in [Readers -> ReaderSteps]
        BY <3>0 DEF Inv, TypeOK, ReaderSteps
      <4>3. QED
        BY <1>3, <3>0, <4>1, <4>2 DEF Inv, TypeOK, GetTick, memory, writerVars
    <3>3. Shape'
      BY <1>3, <2>2, ConstantsAssumption DEF Inv, TypeOK, Shape, GetTick, Reading
    <3>4. QED
      BY <3>2, <3>3
  <2>3. QED
    BY <1>3, <2>1, <2>2 DEF GetTick
<1>4. CASE GetSlot(r)
  <2>1. TypeOK'
    <3>1. rpc' \in [Readers -> ReaderSteps]
      BY <1>4 DEF Inv, TypeOK, GetSlot, ReadFrom, Retry, ReaderSteps
    <3>2. got' \in [Readers -> [Words -> Nat] \cup {NoData}]
      BY <1>1, <1>4 DEF Inv, TypeOK, GetSlot, ReadFrom
    <3>3. idx' \in [Readers -> Nat \ {0}]
      <4>1. idx' = [idx EXCEPT ![r] = 1] \/ idx' = idx
        BY <1>4 DEF GetSlot, ReadFrom
      <4>2. QED
        BY <1>0, <4>1
    <3>4. tries' \in [Readers -> Nat]
      BY <1>0, <1>4 DEF GetSlot, Retry
    <3>5. QED
      BY <1>4, <3>1, <3>2, <3>3, <3>4 DEF Inv, TypeOK, GetSlot, memory, writerVars
  <2>2. Shape'
    BY <1>1, <1>4 DEF Inv, TypeOK, Shape, GetSlot, ReadFrom, Retry, Reading
  <2>3. QED
    BY <2>1, <2>2
<1>5. CASE GetWord(r)
  <2>1. ReadWord(r, "get_word", "get_check")
    BY <1>5 DEF GetWord
  <2>2. /\ got' \in [Readers -> [Words -> Nat] \cup {NoData}]
        /\ got'[r] \in [Words -> Nat]
        /\ idx' \in [Readers -> Nat \ {0}]
        /\ rpc' \in [Readers -> ReaderSteps]
    BY <2>1, ReadWordTyped DEF Reading
  <2>3. TypeOK'
    BY <2>1, <2>2 DEF Inv, TypeOK, ReadWord, memory, writerVars
  <2>4. Shape'
    BY <2>1, <2>2, ConstantsAssumption DEF Inv, TypeOK, Shape, ReadWord, Reading
  <2>5. QED
    BY <2>3, <2>4
<1>6. CASE GetCheck(r)
  <2>1. Observation(r) \in Observations
    BY <1>6 DEF Inv, TypeOK, Shape, Reading, GetCheck, Observation, Observations
  <2>2. TypeOK'
    <3>1. rpc' \in [Readers -> ReaderSteps]
      BY <1>6 DEF Inv, TypeOK, GetCheck, Retry, ReaderSteps
    <3>2. out' \in [Readers -> Seq(Observations)]
      <4>1. out' = [out EXCEPT ![r] = <<Observation(r)>>] \/ out' = out
        BY <1>6 DEF GetCheck
      <4>2. <<Observation(r)>> \in Seq(Observations)
        BY <2>1
      <4>3. QED
        BY <1>0, <4>1, <4>2
    <3>3. tries' \in [Readers -> Nat]
      <4>1. tries' = [tries EXCEPT ![r] = tries[r] + 1] \/ tries' = tries
        BY <1>0, <1>6 DEF GetCheck, Retry
      <4>2. tries[r] + 1 \in Nat
        BY <1>0
      <4>3. QED
        BY <1>0, <4>1, <4>2
    <3>4. QED
      BY <1>6, <3>1, <3>2, <3>3 DEF Inv, TypeOK, GetCheck, memory, writerVars
  <2>3. Shape'
    BY <1>6 DEF Inv, TypeOK, Shape, GetCheck, Retry, Reading
  <2>4. QED
    BY <2>2, <2>3
<1>7. ASSUME NEW k \in 1 .. BufferSize + 1, LastCall(r, k)
      PROVE  TypeOK' /\ Shape'
  <2>1. /\ Least(k, Least(tick, BufferSize)) \in Nat
        /\ Least(k, Least(tick, BufferSize)) <= tick
    <3>1. tick \in Nat /\ BufferSize \in Nat /\ k \in Nat
      BY ConstantsAssumption DEF Inv, TypeOK
    <3>2. PICK n \in Nat : n = Least(tick, BufferSize) /\ n <= tick
      BY <3>1, LeastTyped
    <3>3. Least(k, n) \in Nat /\ Least(k, n) <= n
      BY <3>1, LeastTyped
    <3>4. QED
      BY <3>1, <3>2, <3>3
  <2>2. TypeOK'
    <3>1. target' \in [Readers -> Nat] /\ left' \in [Readers -> Nat]
      BY <1>7, <2>1 DEF Inv, TypeOK, LastCall
    <3>2. out' \in [Readers -> Seq(Observations)] /\ tries' \in [Readers -> Nat]
      BY <1>7 DEF Inv, TypeOK, LastCall
    <3>3. rpc' \in [Readers -> ReaderSteps] /\ cleared' \in [Readers -> BOOLEAN]
      BY <1>7 DEF Inv, TypeOK, LastCall, ReaderSteps
    <3>4. QED
      BY <1>7, <3>1, <3>2, <3>3 DEF Inv, TypeOK, LastCall, memory, writerVars
  <2>3. Shape'
    BY <1>7, <2>1 DEF Inv, TypeOK, Shape, LastCall, Reading
  <2>4. QED
    BY <2>2, <2>3
<1>8. CASE LastSlot(r)
  <2>1. TypeOK'
    <3>1. rpc' \in [Readers -> ReaderSteps]
      BY <1>0, <1>8 DEF LastSlot, ReadFrom, ReaderSteps
    <3>2. got' \in [Readers -> [Words -> Nat] \cup {NoData}]
      BY <1>1, <1>8 DEF Inv, TypeOK, LastSlot, ReadFrom
    <3>3. idx' \in [Readers -> Nat \ {0}]
      <4>1. idx' = [idx EXCEPT ![r] = 1] \/ idx' = idx
        BY <1>8 DEF LastSlot, ReadFrom
      <4>2. QED
        BY <1>0, <4>1
    <3>4. QED
      BY <1>8, <3>1, <3>2, <3>3 DEF Inv, TypeOK, LastSlot, memory, writerVars
  <2>2. Shape'
    BY <1>1, <1>8 DEF Inv, TypeOK, Shape, LastSlot, ReadFrom, Reading
  <2>3. QED
    BY <2>1, <2>2
<1>9. CASE LastWord(r)
  <2>1. ReadWord(r, "last_word", "last_check")
    BY <1>9 DEF LastWord
  <2>2. /\ got' \in [Readers -> [Words -> Nat] \cup {NoData}]
        /\ got'[r] \in [Words -> Nat]
        /\ idx' \in [Readers -> Nat \ {0}]
        /\ rpc' \in [Readers -> ReaderSteps]
    BY <2>1, ReadWordTyped DEF Reading
  <2>3. TypeOK'
    BY <2>1, <2>2 DEF Inv, TypeOK, ReadWord, memory, writerVars
  <2>4. Shape'
    BY <2>1, <2>2, ConstantsAssumption DEF Inv, TypeOK, Shape, ReadWord, Reading
  <2>5. QED
    BY <2>3, <2>4
<1>10. CASE LastCheck(r)
  <2>1. Observation(r) \in Observations
    BY <1>10 DEF Inv, TypeOK, Shape, Reading, LastCheck, Observation, Observations
  <2>2. target[r] - 1 \in Nat /\ left[r] - 1 \in Nat
    BY <1>10 DEF Inv, TypeOK, Shape, LastCheck
  <2>3. Append(out[r], Observation(r)) \in Seq(Observations)
    BY <2>1 DEF Inv, TypeOK
  <2>4. TypeOK'
    <3>1. target' \in [Readers -> Nat] /\ left' \in [Readers -> Nat]
      BY <1>0, <1>10, <2>2 DEF LastCheck
    <3>2. out' \in [Readers -> Seq(Observations)]
      BY <1>10, <2>3 DEF Inv, TypeOK, LastCheck
    <3>3. rpc' \in [Readers -> ReaderSteps]
      BY <1>10 DEF Inv, TypeOK, LastCheck, ReaderSteps
    <3>4. QED
      BY <1>10, <3>1, <3>2, <3>3 DEF Inv, TypeOK, LastCheck, memory, writerVars
  <2>5. Shape'
    <3>1. \A q \in Readers : q # r =>
            /\ rpc'[q] = rpc[q] /\ target'[q] = target[q] /\ left'[q] = left[q]
            /\ got'[q] = got[q] /\ idx'[q] = idx[q]
      BY <1>10 DEF Inv, TypeOK, LastCheck
    <3>2. (rpc'[r] = "last" /\ left'[r] <= target'[r]) \/ rpc'[r] = "idle"
      BY <1>10, <2>2 DEF Inv, TypeOK, Shape, LastCheck
    <3>3. QED
      BY <3>1, <3>2 DEF Inv, Shape, Reading
  <2>6. QED
    BY <2>4, <2>5
<1>11. QED
  BY <1>2, <1>3, <1>4, <1>5, <1>6, <1>7, <1>8, <1>9, <1>10 DEF Reader

(* A reader's step leaves the memory and the other readers alone.          *)
LEMMA ReaderFrame ==
  ASSUME Inv, NEW r \in Readers, Reader(r)
  PROVE  /\ UNCHANGED <<memory, writerVars>>
         /\ \A q \in Readers : q # r =>
              /\ rpc'[q] = rpc[q] /\ target'[q] = target[q] /\ idx'[q] = idx[q]
              /\ got'[q] = got[q] /\ tries'[q] = tries[q] /\ out'[q] = out[q]
              /\ cleared'[q] = cleared[q]
<1>1. UNCHANGED <<memory, writerVars>>
  BY DEF Reader, GetCall, GetTick, GetSlot, GetWord, GetCheck, LastCall,
         LastSlot, LastWord, LastCheck, ReadWord
<1>2. SUFFICES ASSUME NEW q \in Readers, q # r
      PROVE  /\ rpc'[q] = rpc[q] /\ target'[q] = target[q] /\ idx'[q] = idx[q]
             /\ got'[q] = got[q] /\ tries'[q] = tries[q] /\ out'[q] = out[q]
             /\ cleared'[q] = cleared[q]
  BY <1>1, <1>2
<1>3. CASE GetCall(r)
  BY <1>2, <1>3 DEF GetCall, Inv, TypeOK
<1>4. CASE GetTick(r)
  BY <1>2, <1>4 DEF GetTick, Inv, TypeOK
<1>5. CASE GetSlot(r)
  BY <1>2, <1>5 DEF GetSlot, ReadFrom, Retry, Inv, TypeOK
<1>6. CASE GetWord(r) \/ LastWord(r)
  BY <1>2, <1>6 DEF GetWord, LastWord, ReadWord, Inv, TypeOK
<1>7. CASE GetCheck(r)
  BY <1>2, <1>7 DEF GetCheck, Retry, Inv, TypeOK
<1>8. CASE \E k \in 1 .. BufferSize + 1 : LastCall(r, k)
  BY <1>2, <1>8 DEF LastCall, Inv, TypeOK
<1>9. CASE LastSlot(r)
  BY <1>2, <1>9 DEF LastSlot, ReadFrom, Inv, TypeOK
<1>10. CASE LastCheck(r)
  BY <1>2, <1>10 DEF LastCheck, Inv, TypeOK
<1>11. QED
  BY <1>3, <1>4, <1>5, <1>6, <1>7, <1>8, <1>9, <1>10 DEF Reader

(* When the slot still has the tick it read for, a reader has the words of *)
(* that tick.                                                              *)
LEMMA ReadWordReads ==
  ASSUME Inv, NEW r \in Readers, NEW step \in Reading, NEW next \in Reading,
         ReadWord(r, step, next), ~cleared[r]
  PROVE  ReadsTarget(r)'
<1>1. SUFFICES ASSUME slotTick[SlotOf(target[r])] = target[r],
                      NEW w \in Words, w < idx'[r]
               PROVE  got'[r][w] = published[target[r]]
  BY <1>1 DEF ReadsTarget, ReadWord, memory, writerVars
<1>2. /\ rpc[r] \in Reading /\ target[r] \in Nat /\ tick \in Nat
      /\ idx[r] \in Nat \ {0} /\ got[r] \in [Words -> Nat]
      /\ got \in [Readers -> [Words -> Nat] \cup {NoData}]
      /\ idx \in [Readers -> Nat \ {0}]
  BY DEF ReadWord, Inv, TypeOK, Shape
<1>3. \A v \in Words : v < idx[r] => got[r][v] = published[target[r]]
  BY <1>1, <1>2 DEF Inv, ReadInv, ReadsTarget
<1>4. CASE idx[r] <= NumWords
  <2>1. idx'[r] = idx[r] + 1 /\
        got'[r] = [got[r] EXCEPT ![idx[r]] = slotData[SlotOf(target[r])][idx[r]]]
    <3>1. /\ got' = [got EXCEPT ![r][idx[r]] =
                        slotData[SlotOf(target[r])][idx[r]]]
          /\ idx' = [idx EXCEPT ![r] = @ + 1]
      BY <1>2, <1>4, ConstantsAssumption DEF ReadWord
    <3>2. idx'[r] = idx[r] + 1
      BY <1>2, <3>1
    <3>3. got'[r] = [got[r] EXCEPT ![idx[r]] = slotData[SlotOf(target[r])][idx[r]]]
      BY <1>2, <3>1
    <3>4. QED
      BY <3>2, <3>3
  <2>2. CASE w = idx[r]
    <3>1. got'[r][w] = slotData[SlotOf(target[r])][w]
      BY <1>2, <2>1, <2>2
    <3>2. target[r] # 0 /\ target[r] <= tick
      <4>1. target[r] <= tick
        BY <1>2 DEF Inv, ReadInv, AimsBack, Aiming
      <4>2. target[r] # 0
        BY <1>2 DEF Inv, TypeOK, Shape, Reading
      <4>3. QED
        BY <4>1, <4>2
    <3>3. SlotOf(target[r]) \in Slots
      BY <1>2, SlotInRange
    <3>4. QED
      BY <1>1, <3>1, <3>2, <3>3 DEF Inv, MemInv
  <2>3. CASE w # idx[r]
    <3>1. w < idx[r]
      BY <1>1, <1>2, <2>1, <2>3 DEF Words
    <3>2. got'[r][w] = got[r][w]
      BY <2>1, <2>3, <1>2
    <3>3. QED
      BY <1>3, <3>1, <3>2
  <2>4. QED
    BY <2>2, <2>3
<1>5. CASE ~(idx[r] <= NumWords)
  BY <1>1, <1>3, <1>5 DEF ReadWord
<1>6. QED
  BY <1>4, <1>5

(* An observation whose slot still has its tick after it was read is whole. *)
LEMMA ObservationWhole ==
  ASSUME Inv, NEW r \in Readers, ~cleared[r],
         rpc[r] \in {"get_check", "last_check"},
         slotTick[SlotOf(target[r])] = target[r]
  PROVE  /\ target[r] \in 1 .. Len(published)
         /\ Whole(got[r], published[target[r]])
<1>1. /\ target[r] \in Nat /\ tick \in Nat /\ Len(published) = tick
      /\ got[r] \in [Words -> Nat] /\ idx[r] \in Nat /\ idx[r] > NumWords
  BY DEF Inv, TypeOK, Shape, MemInv, Reading
<1>2. target[r] >= 1 /\ target[r] <= tick
  BY <1>1 DEF Inv, TypeOK, Shape, ReadInv, AimsBack, Aiming, Reading
<1>3. \A w \in Words : got[r][w] = published[target[r]]
  BY <1>1, ConstantsAssumption DEF Inv, ReadInv, ReadsTarget, Reading, Words
<1>4. QED
  BY <1>1, <1>2, <1>3 DEF Whole

(* The slot of the published tick has that tick.                           *)
LEMMA NewestInPlace ==
  ASSUME Inv, tick # 0
  PROVE  slotTick[SlotOf(tick)] = tick
BY DEF Inv, TypeOK, MemInv

(* The reader that takes the step keeps its part of the invariant.         *)
LEMMA ReaderReads ==
  ASSUME Inv, NEW r \in Readers, Reader(r)
  PROVE  ReadInv'
<1>1. /\ tick' = tick /\ published' = published /\ slotTick' = slotTick
      /\ \A q \in Readers : q # r =>
           /\ rpc'[q] = rpc[q] /\ target'[q] = target[q] /\ idx'[q] = idx[q]
           /\ got'[q] = got[q] /\ tries'[q] = tries[q] /\ out'[q] = out[q]
           /\ cleared'[q] = cleared[q]
  BY ReaderFrame DEF memory, writerVars
<1>2. ASSUME NEW q \in Readers, q # r, ~cleared'[q]
      PROVE  AimsBack(q)' /\ ReadsTarget(q)' /\ OutWhole(q)'
  <2>1. AimsBack(q) /\ ReadsTarget(q) /\ OutWhole(q)
    BY <1>1, <1>2 DEF Inv, ReadInv
  <2>2. QED
    BY <1>1, <1>2, <2>1 DEF AimsBack, ReadsTarget, OutWhole
<1>3. ASSUME ~cleared'[r]
      PROVE  AimsBack(r)' /\ ReadsTarget(r)' /\ OutWhole(r)'
  <2>0. /\ tick \in Nat /\ Len(published) = tick /\ target[r] \in Nat
        /\ rpc \in [Readers -> ReaderSteps] /\ target \in [Readers -> Nat]
        /\ idx \in [Readers -> Nat \ {0}] /\ tries \in [Readers -> Nat]
        /\ out \in [Readers -> Seq(Observations)]
        /\ left \in [Readers -> Nat]
        /\ MaxRetries \in Nat \ {0}
    BY ConstantsAssumption DEF Inv, TypeOK, MemInv
  <2>1. CASE GetCall(r) \/ \E k \in 1 .. BufferSize + 1 : LastCall(r, k)
    <3>1. out'[r] = <<>> /\ rpc'[r] \notin Reading
      BY <2>0, <2>1 DEF GetCall, LastCall, Reading
    <3>2. AimsBack(r)'
      BY <1>1, <2>0, <2>1 DEF GetCall, LastCall, AimsBack, Aiming, Reading
    <3>3. QED
      BY <3>1, <3>2 DEF ReadsTarget, OutWhole
  <2>2. CASE ~GetCall(r) /\ ~\E k \in 1 .. BufferSize + 1 : LastCall(r, k)
    <3>1. cleared' = cleared
      BY <2>2 DEF Reader, GetTick, GetSlot, GetWord, GetCheck, LastSlot,
                  LastWord, LastCheck, ReadWord
    <3>2. ~cleared[r] /\ AimsBack(r) /\ ReadsTarget(r) /\ OutWhole(r)
      BY <1>3, <3>1 DEF Inv, ReadInv
    <3>3. CASE GetTick(r)
      <4>1. rpc'[r] \notin Reading
        BY <2>0, <3>3 DEF GetTick, Reading
      <4>2. AimsBack(r)'
        BY <1>1, <2>0, <3>3 DEF GetTick, AimsBack, Aiming, Reading
      <4>3. OutWhole(r)'
        BY <1>1, <2>0, <3>2, <3>3 DEF GetTick, OutWhole
      <4>4. QED
        BY <4>1, <4>2, <4>3 DEF ReadsTarget
    <3>4. CASE GetSlot(r) \/ LastSlot(r)
      <4>1. /\ target'[r] = target[r] /\ out'[r] = out[r]
            /\ tries'[r] \in {tries[r], tries[r] + 1}
        BY <2>0, <3>4 DEF GetSlot, LastSlot, Retry
      <4>2. rpc'[r] \in Reading => idx'[r] = 1
        BY <2>0, <3>4 DEF GetSlot, LastSlot, ReadFrom, Retry, Reading
      <4>3. AimsBack(r)'
        BY <1>1, <3>2, <3>4, <4>1 DEF AimsBack, Aiming, GetSlot, LastSlot
      <4>4. ReadsTarget(r)'
        BY <4>2 DEF ReadsTarget, Words
      <4>5. OutWhole(r)'
        BY <1>1, <2>0, <3>2, <4>1 DEF OutWhole
      <4>6. QED
        BY <4>3, <4>4, <4>5
    <3>5. CASE GetWord(r) \/ LastWord(r)
      <4>1. PICK step \in Reading, next \in Reading : ReadWord(r, step, next)
        BY <3>5 DEF GetWord, LastWord, Reading
      <4>2. ReadsTarget(r)'
        BY <3>2, <4>1, ReadWordReads
      <4>3. rpc[r] \in Aiming /\ UNCHANGED <<target, tries, out>>
        BY <4>1 DEF ReadWord, Aiming
      <4>4. QED
        BY <1>1, <3>2, <4>2, <4>3 DEF AimsBack, OutWhole
    <3>6. CASE GetCheck(r)
      <4>1. CASE tick = target[r]
        <5>1. rpc'[r] = "idle" /\ out'[r] = <<Observation(r)>>
          BY <2>0, <3>6, <4>1 DEF GetCheck
        <5>2. slotTick[SlotOf(target[r])] = target[r]
          BY <3>6, <4>1, NewestInPlace DEF GetCheck, Inv, Shape
        <5>3. /\ target[r] \in 1 .. Len(published)
              /\ Whole(got[r], published[target[r]])
          BY <3>2, <3>6, <5>2, ObservationWhole DEF GetCheck
        <5>4. OutWhole(r)'
          BY <1>1, <5>1, <5>3 DEF OutWhole, Observation, Whole
        <5>5. QED
          BY <5>1, <5>4 DEF AimsBack, ReadsTarget, Aiming, Reading
      <4>2. CASE tick # target[r]
        <5>1. rpc'[r] = "get" /\ tries'[r] = tries[r] + 1 /\ out'[r] = out[r]
          BY <2>0, <3>6, <4>2 DEF GetCheck, Retry
        <5>2. OutWhole(r)'
          BY <1>1, <2>0, <3>2, <5>1 DEF OutWhole
        <5>3. QED
          BY <5>1, <5>2 DEF AimsBack, ReadsTarget, Aiming, Reading
      <4>3. QED
        BY <4>1, <4>2
    <3>7. CASE LastCheck(r)
      <4>1. CASE slotTick[SlotOf(target[r])] = target[r]
        <5>1. /\ rpc'[r] = "last" /\ target'[r] = target[r] - 1
              /\ out'[r] = Append(out[r], Observation(r))
              /\ tries'[r] = tries[r]
          BY <2>0, <3>7, <4>1 DEF LastCheck
        <5>2. /\ target[r] \in 1 .. Len(published)
              /\ Whole(got[r], published[target[r]])
          BY <3>2, <3>7, <4>1, ObservationWhole DEF LastCheck
        <5>3. ASSUME NEW j \in 1 .. Len(out'[r]), tries[r] < MaxRetries
              PROVE  /\ out'[r][j].tick \in 1 .. Len(published)
                     /\ Whole(out'[r][j].data, published[out'[r][j].tick])
          <6>1. out[r] \in Seq(Observations)
            BY <2>0
          <6>2. CASE j <= Len(out[r])
            <7>1. out'[r][j] = out[r][j]
              BY <5>1, <5>3, <6>1, <6>2
            <7>2. QED
              BY <3>2, <5>3, <6>1, <6>2, <7>1 DEF OutWhole
          <6>3. CASE j = Len(out[r]) + 1
            <7>1. out'[r][j] = Observation(r)
              BY <5>1, <5>3, <6>1, <6>3
            <7>2. QED
              BY <5>2, <7>1 DEF Observation
          <6>4. QED
            BY <5>1, <5>3, <6>1, <6>2, <6>3
        <5>4. OutWhole(r)'
          BY <1>1, <5>1, <5>3 DEF OutWhole, Whole
        <5>5. AimsBack(r)'
          BY <1>1, <2>0, <5>1, <5>2 DEF AimsBack
        <5>6. QED
          BY <5>1, <5>4, <5>5 DEF ReadsTarget, Reading
      <4>2. CASE slotTick[SlotOf(target[r])] # target[r]
        <5>1. rpc'[r] = "idle" /\ out'[r] = out[r] /\ tries'[r] = tries[r]
          BY <2>0, <3>7, <4>2 DEF LastCheck
        <5>2. QED
          BY <1>1, <3>2, <5>1 DEF AimsBack, ReadsTarget, OutWhole, Aiming, Reading
      <4>3. QED
        BY <4>1, <4>2
    <3>8. QED
      BY <2>2, <3>3, <3>4, <3>5, <3>6, <3>7 DEF Reader
  <2>3. QED
    BY <2>1, <2>2
<1>4. QED
  BY <1>2, <1>3 DEF ReadInv
-----------------------------------------------------------------------------
(* Inv is inductive. *)
LEMMA Step ==
  ASSUME BufferSize >= 2, Inv, [Next]_vars
  PROVE  Inv'
<1>1. CASE Writer
  BY <1>1, WriterTyped, WriterMem, WriterReads DEF Inv
<1>2. ASSUME NEW r \in Readers, Reader(r)
      PROVE  Inv'
  <2>1. MemInv'
    BY <1>2, ReaderFrame DEF memory, writerVars, Inv, MemInv
  <2>2. QED
    BY <1>2, <2>1, ReaderTyped, ReaderReads DEF Inv
<1>3. CASE UNCHANGED vars
  BY <1>3 DEF Inv, TypeOK, Shape, MemInv, ReadInv, AimsBack, ReadsTarget, OutWhole,
              vars, memory, writerVars, readerVars
<1>4. QED
  BY <1>1, <1>2, <1>3 DEF Next

(* Inv is an invariant. *)
LEMMA Invariant ==
  ASSUME BufferSize >= 2
  PROVE  Spec => []Inv
<1>1. Init => Inv
  BY InitInv
<1>2. Inv /\ [Next]_vars => Inv'
  BY Step
<1>3. QED
  BY <1>1, <1>2, PTL DEF Spec

(* The words, ticks and cursors of the writer and the readers keep their   *)
(* types: no reader leaves the slots, and every copy it holds has as many  *)
(* words as an observation (ring_buffer.py).                               *)
THEOREM BufferTypes ==
  ASSUME BufferSize >= 2
  PROVE  Spec => []TypeOK
<1>1. Inv => TypeOK
  BY DEF Inv
<1>2. QED
  BY <1>1, Invariant, PTL

(* With at least two slots, no reader of the buffer is ever handed a torn  *)
(* observation by get() or get_last_k(), whatever the writer is doing and  *)
(* wherever it died, unless a clear() ran during the call or get() ran out *)
(* of tries (ring_buffer.py, the double read of the ticks).                *)
THEOREM NoTornObservation ==
  ASSUME BufferSize >= 2
  PROVE  Spec => []ReturnsWhole
<1>1. Inv => ReturnsWhole
  BY DEF Inv, ReadInv, OutWhole, ReturnsWhole
<1>2. QED
  BY <1>1, Invariant, PTL

(* What get() returns is the newest published observation at the moment it *)
(* returns.                                                                *)
THEOREM GetReturnsLatest ==
  ASSUME BufferSize >= 2
  PROVE  Spec => GetIsLatest
<1> DEFINE Latest == \A r \in Readers :
       rpc[r] = "get_check" /\ rpc'[r] = "idle" /\ ~cleared[r] =>
         /\ published # <<>>
         /\ Whole(out'[r][1].data, published[Len(published)])
<1>1. Inv /\ [Next]_vars => [Latest]_vars
  <2>1. SUFFICES ASSUME Inv, Next, NEW r \in Readers, rpc[r] = "get_check",
                        rpc'[r] = "idle", ~cleared[r]
                 PROVE  /\ published # <<>>
                        /\ Whole(out'[r][1].data, published[Len(published)])
    BY <2>1
  <2>2. GetCheck(r)
    <3>1. ~Writer
      BY <2>1 DEF Writer, PutSlotTick, PutWord, PutPublish, ClearTick, ClearSlot,
                  WriterRestart, readerVars
    <3>2. PICK q \in Readers : Reader(q)
      BY <2>1, <3>1 DEF Next
    <3>3. q = r
      BY <2>1, <3>2, ReaderFrame
    <3>4. QED
      BY <2>1, <3>2, <3>3 DEF Reader, GetCall, GetTick, GetSlot, GetWord, LastCall,
                              LastSlot, LastWord, LastCheck, ReadWord
  <2>3. tick = target[r] /\ out'[r] = <<Observation(r)>>
    BY <2>1, <2>2 DEF GetCheck, Retry, Inv, TypeOK
  <2>4. slotTick[SlotOf(target[r])] = target[r]
    BY <2>1, <2>3, NewestInPlace DEF Inv, Shape
  <2>5. target[r] \in 1 .. Len(published) /\ Whole(got[r], published[target[r]])
    BY <2>1, <2>4, ObservationWhole
  <2>6. Len(published) = tick /\ tick \in Nat
    BY <2>1 DEF Inv, MemInv, TypeOK
  <2>7. QED
    BY <2>3, <2>5, <2>6 DEF Observation, Whole
<1>2. QED
  BY <1>1, Invariant, PTL DEF Spec, GetIsLatest

(* get() tries again only after the writer published something new.        *)
THEOREM RetriesOnProgress ==
  ASSUME BufferSize >= 2
  PROVE  Spec => RetryMeansProgress
<1> DEFINE Progress == \A r \in Readers :
       tries'[r] > tries[r] /\ ~cleared[r] => Len(published) > target[r]
<1>1. Inv /\ [Next]_vars => [Progress]_vars
  <2>1. SUFFICES ASSUME Inv, Next, NEW r \in Readers, tries'[r] > tries[r],
                        ~cleared[r]
                 PROVE  Len(published) > target[r]
    BY <2>1
  <2>2. /\ tries \in [Readers -> Nat] /\ tick \in Nat /\ target[r] \in Nat
        /\ Len(published) = tick
    BY <2>1 DEF Inv, TypeOK, MemInv
  <2>3. GetSlot(r) \/ GetCheck(r)
    <3>1. ~Writer
      BY <2>1, <2>2 DEF Writer, PutSlotTick, PutWord, PutPublish, ClearTick,
                        ClearSlot, WriterRestart, readerVars
    <3>2. PICK q \in Readers : Reader(q)
      BY <2>1, <3>1 DEF Next
    <3>3. q = r
      BY <2>1, <2>2, <3>2, ReaderFrame
    <3>4. QED
      BY <2>1, <2>2, <3>2, <3>3
         DEF Reader, GetCall, GetTick, GetWord, LastCall, LastSlot, LastWord,
             LastCheck, ReadWord
  <2>4. /\ target[r] <= tick
        /\ tick # target[r] \/ slotTick[SlotOf(target[r])] # target[r]
    BY <2>1, <2>2, <2>3
       DEF GetSlot, GetCheck, ReadFrom, Inv, ReadInv, AimsBack, Aiming, Reading
  <2>5. tick # target[r]
    BY <2>1, <2>3, <2>4, NewestInPlace DEF GetSlot, GetCheck, Inv, Shape
  <2>6. QED
    BY <2>2, <2>4, <2>5
<1>2. QED
  BY <1>1, Invariant, PTL DEF Spec, RetryMeansProgress
-----------------------------------------------------------------------------
(***************************************************************************)
(* The log that the buffer is to its readers.                              *)
(***************************************************************************)
(* Fewer ticks apart than there are slots, two ticks have two slots. *)
LEMMA SlotsDiffer ==
  ASSUME NEW t \in Nat, NEW u \in Nat, t < u, u < t + BufferSize
  PROVE  SlotOf(t) # SlotOf(u)
<1>1. ASSUME NEW b \in Nat \ {0}, u < t + b, t % b = u % b
      PROVE  FALSE
  <2>1. t = b * (t \div b) + (t % b) /\ u = b * (u \div b) + (u % b)
    BY <1>1
  <2>2. t \div b \in Int /\ u \div b \in Int
    BY <1>1
  <2>3. PICK p \in Int : p = t \div b
    BY <2>2
  <2>4. PICK q \in Int : q = u \div b
    BY <2>2
  <2>5. b * q > b * p /\ b * q < b * p + b
    BY <1>1, <2>1, <2>3, <2>4
  <2>6. CASE q <= p
    <3>1. b * q <= b * p
      BY <1>1, <2>6
    <3>2. QED
      BY <1>1, <2>5, <3>1
  <2>7. CASE q >= p + 1
    <3>1. b * q >= b * (p + 1)
      BY <1>1, <2>7
    <3>2. b * (p + 1) = b * p + b
      BY <1>1
    <3>3. QED
      BY <1>1, <2>5, <3>1, <3>2
  <2>8. QED
    BY <2>6, <2>7
<1>2. QED
  BY <1>1, ConstantsAssumption DEF SlotOf

(* The slots still hold the newest observations, as many as fit beside the *)
(* one that may be on its way.                                             *)
RecentInv ==
  \A t \in 1 .. tick : tick + 1 < t + BufferSize => slotTick[SlotOf(t)] = t

(* Each put() under way has a number. *)
PutsInv == puts <= MaxPuts /\ (wpc = "put" => puts >= 1)

(* get() has returned nothing yet. *)
OutInv == \A r \in Readers : Getting(r) => out[r] = <<>>

LogInv == RecentInv /\ PutsInv /\ OutInv

(* Nothing was put and nothing returned at the start. *)
LEMMA LogInit == Init => LogInv
BY ConstantsAssumption DEF Init, LogInv, RecentInv, PutsInv, OutInv, Getting

(* The writer takes no slot of the newest observations, ... *)
LEMMA WriterRecent ==
  ASSUME Inv, RecentInv, Writer
  PROVE  RecentInv'
<1>1. tick \in Nat /\ slotTick \in [Slots -> Nat] /\ BufferSize \in Nat \ {0}
  BY ConstantsAssumption DEF Inv, TypeOK
<1>2. CASE PutSlotTick
  <2>1. /\ tick' = tick
        /\ slotTick' = [slotTick EXCEPT ![SlotOf(tick + 1)] = tick + 1]
    BY <1>2 DEF PutSlotTick
  <2>2. ASSUME NEW t \in 1 .. tick, tick + 1 < t + BufferSize
        PROVE  slotTick'[SlotOf(t)] = t
    <3>1. SlotOf(t) # SlotOf(tick + 1)
      BY <1>1, <2>2, SlotsDiffer
    <3>2. slotTick[SlotOf(t)] = t
      BY <2>2 DEF RecentInv
    <3>3. QED
      BY <1>1, <2>1, <3>1, <3>2
  <2>3. QED
    BY <2>1, <2>2 DEF RecentInv
<1>3. CASE PutPublish
  <2>1. tick' = tick + 1 /\ slotTick' = slotTick /\ wpc = "put"
    BY <1>3 DEF PutPublish
  <2>2. slotTick[SlotOf(tick + 1)] = tick + 1
    BY <2>1 DEF Inv, MemInv
  <2>3. ASSUME NEW t \in 1 .. tick + 1, tick + 2 < t + BufferSize
        PROVE  slotTick[SlotOf(t)] = t
    <3>1. CASE t = tick + 1
      BY <2>2, <3>1
    <3>2. CASE t \in 1 .. tick
      BY <1>1, <2>3, <3>2 DEF RecentInv
    <3>3. QED
      BY <1>1, <3>1, <3>2
  <2>4. QED
    BY <1>1, <2>1, <2>3 DEF RecentInv
<1>4. CASE ClearTick \/ ClearSlot
  <2>1. tick' = 0
    BY <1>4 DEF ClearTick, ClearSlot, Inv, MemInv
  <2>2. QED
    BY <2>1 DEF RecentInv
<1>5. CASE PutWord \/ WriterRestart
  BY <1>5 DEF PutWord, WriterRestart, memory, RecentInv
<1>6. QED
  BY <1>2, <1>3, <1>4, <1>5 DEF Writer

(* ... and each reader keeps its variables to itself. *)
LEMMA ReaderKeepsOut ==
  ASSUME Inv, OutInv, NEW r \in Readers, Reader(r)
  PROVE  OutInv' /\ \A q \in Readers : q # r => left'[q] = left[q]
<1>1. \A q \in Readers : q # r =>
        rpc'[q] = rpc[q] /\ out'[q] = out[q] /\ left'[q] = left[q]
  <2>1. \A q \in Readers : q # r => left'[q] = left[q]
    BY DEF Reader, GetCall, GetTick, GetSlot, GetWord, GetCheck, LastCall, LastSlot,
           LastWord, LastCheck, ReadWord, Inv, TypeOK
  <2>2. QED
    BY <2>1, ReaderFrame
<1>2. Getting(r)' => out'[r] = <<>>
  <2>1. CASE GetCall(r)
    BY <2>1 DEF GetCall, Inv, TypeOK
  <2>2. CASE GetTick(r) \/ GetSlot(r) \/ GetWord(r) \/ GetCheck(r)
    <3>1. Getting(r)
      BY <2>2 DEF GetTick, GetSlot, GetWord, GetCheck, ReadWord, Getting
    <3>2. out' = out \/ rpc'[r] = "idle"
      BY <2>2
         DEF GetTick, GetSlot, GetWord, GetCheck, ReadWord, Inv, TypeOK
    <3>3. QED
      BY <3>1, <3>2 DEF OutInv, Getting
  <2>3. CASE (\E k \in 1 .. BufferSize + 1 : LastCall(r, k)) \/ LastSlot(r)
             \/ LastWord(r) \/ LastCheck(r)
    <3>1. ~Getting(r)'
      BY <2>3
         DEF LastCall, LastSlot, LastWord, LastCheck, ReadWord, ReadFrom, Inv,
             TypeOK, Getting
    <3>2. QED
      BY <3>1
  <2>4. QED
    BY <2>1, <2>2, <2>3 DEF Reader
<1>3. QED
  BY <1>1, <1>2 DEF OutInv, Getting

(* LogInv is inductive. *)
LEMMA LogStep == Inv /\ LogInv /\ [Next]_vars => LogInv'
<1>1. SUFFICES ASSUME Inv, LogInv, [Next]_vars PROVE LogInv'
  OBVIOUS
<1>2. CASE Writer
  <2>1. RecentInv'
    BY <1>1, <1>2, WriterRecent DEF LogInv
  <2>2. PutsInv'
    BY <1>1, <1>2, ConstantsAssumption
       DEF LogInv, PutsInv, Inv, TypeOK, Writer, PutSlotTick, PutWord, PutPublish,
           ClearTick, ClearSlot, WriterRestart
  <2>3. OutInv'
    BY <1>1, <1>2
       DEF LogInv, OutInv, Getting, Writer, PutSlotTick, PutWord, PutPublish,
           ClearTick, ClearSlot, WriterRestart, readerVars
  <2>4. QED
    BY <2>1, <2>2, <2>3 DEF LogInv
<1>3. ASSUME NEW r \in Readers, Reader(r) PROVE LogInv'
  <2>1. UNCHANGED <<memory, writerVars>> /\ OutInv'
    BY <1>1, <1>3, ReaderFrame, ReaderKeepsOut DEF LogInv
  <2>2. QED
    BY <1>1, <2>1 DEF LogInv, RecentInv, PutsInv, memory, writerVars
<1>4. CASE UNCHANGED vars
  BY <1>1, <1>4
     DEF LogInv, RecentInv, PutsInv, OutInv, Getting, vars, memory, writerVars,
         readerVars
<1>5. QED
  BY <1>1, <1>2, <1>3, <1>4 DEF Next
-----------------------------------------------------------------------------
AllData == {Data(n) : n \in Nat}

(* The log has the data of each tick. *)
LEMMA LogIs ==
  ASSUME Inv
  PROVE  /\ Log \in Seq(AllData) /\ Len(Log) = tick
         /\ \A t \in 1 .. tick : Log[t] = Data(published[t])
<1> DEFINE n == Len(published)
           e(t) == Data(published[t])
<1>0. published \in Seq(Nat) /\ Len(published) = tick /\ tick \in Nat
  BY DEF Inv, TypeOK, MemInv
<1>1. /\ n \in Nat /\ n = tick
      /\ \A t \in 1 .. n : e(t) \in AllData
  <2>1. ASSUME NEW t \in 1 .. n PROVE e(t) \in AllData
    <3>1. published[t] \in Nat
      BY <1>0
    <3>2. QED
      BY <3>1, Zenon DEF AllData
  <2>2. QED
    BY <1>0, <2>1
<1>2. Log = [t \in 1 .. n |-> e(t)]
  BY DEF Log
<1> HIDE DEF n, e
<1>3. Log \in Seq(AllData)
  BY <1>1, <1>2, IsASeq
<1>4. Len(Log) = n
  BY <1>1, <1>2, <1>3, LenProperties
<1>5. \A t \in 1 .. n : Log[t] = e(t)
  BY <1>2
<1>6. QED
  BY <1>1, <1>3, <1>4, <1>5 DEF e

(* What put() publishes comes at the end of it. *)
LEMMA LogGrows ==
  ASSUME Inv, Inv', PutPublish
  PROVE  Log' = Append(Log, Data(puts))
<1> DEFINE more == Append(Log, Data(puts))
           next == Log'
<1>1. /\ tick \in Nat /\ puts \in Nat /\ published \in Seq(Nat)
      /\ Len(published) = tick
      /\ tick' = tick + 1 /\ published' = Append(published, puts)
  BY DEF Inv, TypeOK, MemInv, PutPublish
<1>2. /\ Log \in Seq(AllData) /\ Len(Log) = tick
      /\ \A t \in 1 .. tick : Log[t] = Data(published[t])
  BY LogIs
<1>3. /\ next \in Seq(AllData) /\ Len(next) = tick + 1
      /\ \A t \in 1 .. tick + 1 : next[t] = Data(published'[t])
  <2>1. /\ Log' \in Seq(AllData) /\ Len(Log') = tick'
        /\ \A t \in 1 .. tick' : Log'[t] = Data(published'[t])
    <3>1. (/\ Log \in Seq(AllData) /\ Len(Log) = tick
           /\ \A t \in 1 .. tick : Log[t] = Data(published[t]))'
      BY LogIs, PTL
    <3>2. QED
      BY <3>1 DEF AllData, Data
  <2>2. QED
    BY <1>1, <2>1
<1>4. Data(puts) \in AllData
  BY <1>1 DEF AllData
<1>5. /\ more \in Seq(AllData) /\ Len(more) = tick + 1
      /\ \A t \in 1 .. tick : more[t] = Log[t]
      /\ more[tick + 1] = Data(puts)
  BY <1>2, <1>4, AppendProperties
<1> HIDE DEF more, next
<1>6. ASSUME NEW t \in 1 .. tick + 1
      PROVE  next[t] = more[t]
  <2>1. CASE t = tick + 1
    <3>1. published'[t] = puts
      BY <1>1, <2>1
    <3>2. QED
      BY <1>3, <1>5, <2>1, <3>1, Zenon
  <2>2. CASE t \in 1 .. tick
    <3>1. published'[t] = published[t]
      BY <1>1, <2>2
    <3>2. QED
      BY <1>2, <1>3, <1>5, <2>2, <3>1, Zenon
  <2>3. t = tick + 1 \/ t \in 1 .. tick
    BY <1>1
  <2>4. QED
    BY <2>1, <2>2, <2>3
<1>7. next = more
  BY <1>1, <1>3, <1>5, <1>6, SeqEqual
<1>8. QED
  BY <1>7 DEF next, more

(* A step of the writer is a put() when it publishes, a clear() when it    *)
(* begins one, and nothing otherwise.                                      *)
LEMMA LogWriting ==
  ASSUME Inv, Inv', LogInv, Writer
  PROVE  ReadLog!Next \/ UNCHANGED ReadLog!vars
<1>1. CASE PutPublish
  <2>1. puts \in 1 .. MaxPuts
    BY <1>1, ConstantsAssumption DEF PutPublish, LogInv, PutsInv, Inv, TypeOK
  <2>2. Calls' = Calls
    BY <1>1 DEF PutPublish, Calls, Seen, IsVoid, Call, Getting, Lasting, readerVars
  <2>3. ReadLog!Put
    BY <1>1, <2>1, <2>2, LogGrows DEF ReadLog!Put
  <2>4. QED
    BY <2>3 DEF ReadLog!Next
<1>2. CASE ClearTick
  <2>1. tick' = 0 /\ \A r \in Readers : cleared'[r] = TRUE
    BY <1>2 DEF ClearTick
  <2>2. Log' = <<>>
    <3>1. (Log \in Seq(AllData) /\ Len(Log) = tick)'
      BY LogIs, PTL
    <3>2. Log' \in Seq(AllData) /\ Len(Log') = 0
      BY <2>1, <3>1 DEF AllData, Data
    <3>3. QED
      BY <3>2, EmptySeq
  <2>3. Calls' = [r \in Readers |-> ReadLog!Void]
    <3>1. \A r \in Readers : Seen(r)' = VoidCall
      BY <2>1 DEF Seen, IsVoid, VoidCall
    <3>2. ReadLog!Void = VoidCall
      BY DEF ReadLog!Void, ReadLog!State, VoidCall
    <3>3. QED
      BY <3>1, <3>2 DEF Calls
  <2>4. ReadLog!Clear
    BY <2>2, <2>3 DEF ReadLog!Clear
  <2>5. QED
    BY <2>4 DEF ReadLog!Next
<1>3. CASE PutSlotTick \/ PutWord \/ ClearSlot \/ WriterRestart
  BY <1>3
     DEF PutSlotTick, PutWord, ClearSlot, WriterRestart, readerVars, Log, Calls,
         Seen, IsVoid, Call, Getting, Lasting, ReadLog!vars
<1>4. QED
  BY <1>1, <1>2, <1>3 DEF Writer

(* A step of a reader is a step of its call. *)
LEMMA SeenStep ==
  ASSUME Inv, LogInv, NEW r \in Readers, Reader(r)
  PROVE  /\ Log' = Log /\ Calls[r] = Seen(r)
         /\ Calls' = [Calls EXCEPT ![r] = Seen(r)']
<1>1. Log' = Log
  BY ReaderFrame DEF writerVars, Log
<1>2. ASSUME NEW q \in Readers, q # r PROVE Seen(q)' = Seen(q)
  <2>1. /\ rpc'[q] = rpc[q] /\ target'[q] = target[q] /\ tries'[q] = tries[q]
        /\ out'[q] = out[q] /\ cleared'[q] = cleared[q] /\ left'[q] = left[q]
    BY <1>2, ReaderFrame, ReaderKeepsOut DEF LogInv
  <2>2. QED
    BY <2>1 DEF Seen, IsVoid, VoidCall, Call, Getting, Lasting
<1>3. Calls' = [q \in Readers |-> Seen(q)']
  BY DEF Calls
<1>4. QED
  BY <1>1, <1>2, <1>3 DEF Calls

(* The parts of a call, in the words of the log. *)
LEMMA GettingIs ==
  ASSUME NEW a, NEW m
  PROVE  /\ ReadLog!Getting(a, m).call = "get"
         /\ ReadLog!Getting(a, m).at = a
         /\ ReadLog!Getting(a, m).missed = m
BY DEF ReadLog!Getting, ReadLog!State

(* The parts of a get_last_k(). *)
LEMMA TakingIs ==
  ASSUME NEW a, NEW w, NEW x
  PROVE  /\ ReadLog!Taking(a, w, x).call = "last"
         /\ ReadLog!Taking(a, w, x).at = a
         /\ ReadLog!Taking(a, w, x).want = w
         /\ ReadLog!Taking(a, w, x).result = x
BY DEF ReadLog!Taking, ReadLog!State

(* A reader may call get() whatever became of its last call. *)
LEMMA GetBegins ==
  ASSUME Inv, LogInv, NEW r \in Readers, GetCall(r)
  PROVE  ReadLog!BeginGet(r)
<1>1. Log' = Log /\ Calls[r] = Seen(r) /\ Calls' = [Calls EXCEPT ![r] = Seen(r)']
  BY SeenStep DEF Reader
<1>2. /\ rpc[r] = "idle" /\ rpc'[r] = "get" /\ tries'[r] = 0 /\ out'[r] = <<>>
      /\ cleared'[r] = FALSE
  BY DEF GetCall, Inv, TypeOK
<1>3. Seen(r).call \in {"none", "void"}
  BY <1>2 DEF Seen, VoidCall, Call, Getting, Lasting
<1>4. Seen(r)' = ReadLog!Getting(0, 0)
  <2>1. ~IsVoid(r)' /\ Getting(r)' /\ ~Lasting(r)'
    BY <1>2, ConstantsAssumption DEF IsVoid, Getting, Lasting
  <2>2. QED
    BY <1>2, <2>1
       DEF Seen, Call, Getting, Lasting, ReadLog!Getting, ReadLog!State
<1>5. QED
  BY <1>1, <1>3, <1>4
     DEF ReadLog!BeginGet, ReadLog!Free, ReadLog!InCall, ReadLog!Becomes

(* get_last_k() wants no more observations than there are, or fit in. *)
LEMMA LastBegins ==
  ASSUME Inv, LogInv, NEW r \in Readers, NEW k \in 1 .. BufferSize + 1,
         LastCall(r, k)
  PROVE  ReadLog!BeginLast(r)
<1>1. Log' = Log /\ Calls[r] = Seen(r) /\ Calls' = [Calls EXCEPT ![r] = Seen(r)']
  BY SeenStep DEF Reader
<1>2. /\ rpc[r] = "idle" /\ rpc'[r] = "last" /\ tries'[r] = 0 /\ out'[r] = <<>>
      /\ cleared'[r] = FALSE /\ target'[r] = tick
      /\ left'[r] = Least(k, Least(tick, BufferSize))
  BY DEF LastCall, Inv, TypeOK
<1>3. Seen(r).call \in {"none", "void"}
  BY <1>2 DEF Seen, VoidCall, Call, Getting, Lasting
<1>4. left'[r] \in 0 .. BufferSize /\ left'[r] <= tick
  <2>1. k \in Nat /\ tick \in Nat /\ BufferSize \in Nat
    BY ConstantsAssumption DEF Inv, TypeOK
  <2>2. /\ Least(tick, BufferSize) \in Nat /\ Least(tick, BufferSize) <= tick
        /\ Least(tick, BufferSize) <= BufferSize
    BY <2>1, LeastTyped
  <2>3. left'[r] \in Nat /\ left'[r] <= Least(tick, BufferSize)
    BY <1>2, <2>1, <2>2, LeastTyped
  <2>4. QED
    BY <2>1, <2>2, <2>3
<1>5. Seen(r)' = ReadLog!Taking(tick, left'[r], <<>>)
  <2>1. ~IsVoid(r)' /\ ~Getting(r)' /\ Lasting(r)'
    BY <1>2, ConstantsAssumption DEF IsVoid, Getting, Lasting
  <2>2. QED
    BY <1>2, <2>1
       DEF Seen, Call, Getting, Lasting, ReadLog!Taking, ReadLog!State
<1>6. Len(Log) = tick
  BY LogIs
<1>7. QED
  BY <1>1, <1>3, <1>4, <1>5, <1>6
     DEF ReadLog!BeginLast, ReadLog!Free, ReadLog!InCall, ReadLog!Becomes

(* What a call is that has not become void. *)
LEMMA SeenIs ==
  ASSUME Inv, LogInv, NEW r \in Readers, ~IsVoid(r)
  PROVE  /\ Getting(r) =>
              Seen(r) = ReadLog!Getting(IF rpc[r] = "get" THEN 0 ELSE target[r],
                                        tries[r])
         /\ Lasting(r) => Seen(r) = ReadLog!Taking(target[r], left[r], out[r])
BY DEF Seen, Call, ReadLog!Getting, ReadLog!Taking, ReadLog!State, Getting, Lasting,
       LogInv, OutInv

(* A get() that fails its check misses: something new was published.       *)
LEMMA GetMisses ==
  ASSUME Inv, LogInv, NEW r \in Readers, Reader(r), ~IsVoid(r), Retry(r),
         rpc[r] \in {"get_slot", "get_check"},
         UNCHANGED <<target, out, cleared>>,
         tick # target[r] \/ slotTick[SlotOf(target[r])] # target[r]
  PROVE  ReadLog!Miss(r)
<1>1. /\ Log' = Log /\ Calls[r] = Seen(r)
      /\ Calls' = [Calls EXCEPT ![r] = Seen(r)'] /\ Len(Log) = tick
  BY SeenStep, LogIs
<1>2. /\ tick \in Nat /\ target[r] \in Nat /\ tries[r] \in Nat
      /\ target[r] >= 1 /\ target[r] <= tick /\ MaxRetries \in Nat
  BY ConstantsAssumption
     DEF Inv, TypeOK, Shape, ReadInv, AimsBack, Aiming, Reading, IsVoid
<1>3. tick > target[r]
  BY <1>2, NewestInPlace
<1>4. Seen(r) = ReadLog!Getting(target[r], tries[r])
  BY SeenIs DEF Getting
<1>5. Getting(r) /\ rpc'[r] = "get" /\ tries'[r] = tries[r] + 1 /\ out'[r] = <<>>
      /\ cleared'[r] = FALSE
  BY DEF Retry, Inv, TypeOK, Getting, LogInv, OutInv, IsVoid
<1>6. Seen(r)' = IF tries[r] + 1 < MaxRetries
                 THEN ReadLog!Getting(0, tries[r] + 1) ELSE VoidCall
  <2>1. CASE tries[r] + 1 < MaxRetries
    <3>1. ~IsVoid(r)' /\ Getting(r)' /\ ~Lasting(r)'
      BY <1>2, <1>5, <2>1 DEF IsVoid, Getting, Lasting
    <3>2. QED
      BY <1>5, <2>1, <3>1
         DEF Seen, Call, Getting, Lasting, ReadLog!Getting, ReadLog!State
  <2>2. CASE ~(tries[r] + 1 < MaxRetries)
    <3>1. IsVoid(r)'
      BY <1>2, <1>5, <2>2 DEF IsVoid
    <3>2. QED
      BY <2>2, <3>1 DEF Seen, VoidCall
  <2>3. QED
    BY <2>1, <2>2
<1>7. VoidCall = ReadLog!Void
  BY DEF VoidCall, ReadLog!Void, ReadLog!State
<1>8. Seen(r).call = "get" /\ Seen(r).at = target[r] /\ Seen(r).missed = tries[r]
  BY <1>4, GettingIs
<1>9. QED
  BY <1>1, <1>2, <1>3, <1>6, <1>7, <1>8
     DEF ReadLog!Miss, ReadLog!InCall, ReadLog!Becomes

(* The observation a reader has is the one of the log, where the tick of   *)
(* its slot is still the one it went for.                                  *)
LEMMA ObservationIs ==
  ASSUME Inv, NEW r \in Readers, ~cleared[r],
         rpc[r] \in {"get_check", "last_check"},
         slotTick[SlotOf(target[r])] = target[r]
  PROVE  Observation(r) = ReadLog!Entry(target[r])
<1>1. target[r] \in 1 .. Len(published) /\ Whole(got[r], published[target[r]])
  BY ObservationWhole
<1>2. got[r] = Data(published[target[r]])
  BY <1>1 DEF Whole, Data
<1>3. Log[target[r]] = Data(published[target[r]])
  BY <1>1, LogIs DEF Inv, MemInv
<1>4. QED
  BY <1>2, <1>3 DEF Observation, ReadLog!Entry

(* Each step of get() is one of the log's, or none. *)
LEMMA LogGetting ==
  ASSUME Inv, LogInv, NEW r \in Readers, ~IsVoid(r),
         GetTick(r) \/ GetSlot(r) \/ GetWord(r) \/ GetCheck(r)
  PROVE  ReadLog!Next \/ UNCHANGED ReadLog!vars
<1>0. Reader(r)
  BY DEF Reader
<1>1. /\ Log' = Log /\ Calls[r] = Seen(r)
      /\ Calls' = [Calls EXCEPT ![r] = Seen(r)'] /\ Len(Log) = tick
      /\ Log \in Seq(AllData)
  BY <1>0, SeenStep, LogIs
<1>2. /\ tick \in Nat /\ target[r] \in Nat /\ tries[r] \in Nat /\ MaxRetries \in Nat
      /\ tries[r] < MaxRetries /\ ~cleared[r]
  BY ConstantsAssumption DEF Inv, TypeOK, IsVoid
<1>3. Getting(r) /\ out[r] = <<>>
  BY DEF GetTick, GetSlot, GetWord, GetCheck, ReadWord, Getting, LogInv, OutInv
<1>4. CASE GetTick(r)
  <2>1. /\ rpc[r] = "get" /\ target'[r] = tick
        /\ rpc'[r] = (IF tick = 0 THEN "idle" ELSE "get_slot")
        /\ UNCHANGED <<out, tries, left, cleared>>
    BY <1>2, <1>4 DEF GetTick, Inv, TypeOK
  <2>2. Seen(r) = ReadLog!Getting(0, tries[r])
    BY <1>3, <2>1, SeenIs
  <2>3. CASE tick = 0
    <3>1. Seen(r)' = ReadLog!Returned(<<>>)
      <4>1. ~IsVoid(r)' /\ ~Getting(r)' /\ ~Lasting(r)' /\ rpc'[r] = "idle"
        BY <1>2, <2>1, <2>3 DEF IsVoid, Getting, Lasting
      <4>2. QED
        BY <1>3, <2>1, <4>1
           DEF Seen, Call, Getting, Lasting, ReadLog!Returned, ReadLog!State
    <3>2. Log = <<>> /\ Calls[r].call = "get"
      BY <1>1, <2>2, <2>3, EmptySeq, GettingIs
    <3>3. ReadLog!Nothing(r)
      BY <1>1, <3>1, <3>2
         DEF ReadLog!Nothing, ReadLog!InCall, ReadLog!Becomes
    <3>4. QED
      BY <3>3 DEF ReadLog!Next
  <2>4. CASE tick # 0
    <3>1. Seen(r)' = ReadLog!Getting(tick, tries[r])
      <4>1. ~IsVoid(r)' /\ Getting(r)' /\ ~Lasting(r)' /\ rpc'[r] = "get_slot"
        BY <1>2, <2>1, <2>4 DEF IsVoid, Getting, Lasting
      <4>2. QED
        BY <1>3, <2>1, <4>1
           DEF Seen, Call, Getting, Lasting, ReadLog!Getting, ReadLog!State
    <3>2. /\ Log # <<>>
          /\ Calls[r].call = "get" /\ Calls[r].missed = tries[r]
      BY <1>1, <2>2, <2>4, GettingIs
    <3>3. ReadLog!Look(r)
      BY <1>1, <3>1, <3>2
         DEF ReadLog!Look, ReadLog!InCall, ReadLog!Becomes
    <3>4. QED
      BY <3>3 DEF ReadLog!Next
  <2>5. QED
    BY <2>3, <2>4
<1>5. CASE GetSlot(r) /\ slotTick[SlotOf(target[r])] # target[r]
  <2>1. /\ rpc[r] = "get_slot" /\ Retry(r) /\ UNCHANGED <<target, out, cleared>>
    BY <1>5 DEF GetSlot
  <2>2. ReadLog!Miss(r)
    BY <1>0, <1>5, <2>1, GetMisses
  <2>3. QED
    BY <2>2 DEF ReadLog!Next
<1>6. CASE GetCheck(r) /\ tick # target[r]
  <2>1. /\ rpc[r] = "get_check" /\ Retry(r) /\ UNCHANGED <<target, out, cleared>>
    BY <1>6 DEF GetCheck
  <2>2. ReadLog!Miss(r)
    BY <1>0, <1>6, <2>1, GetMisses
  <2>3. QED
    BY <2>2 DEF ReadLog!Next
<1>7. CASE GetCheck(r) /\ tick = target[r]
  <2>1. /\ rpc[r] = "get_check" /\ rpc'[r] = "idle" /\ out'[r] = <<Observation(r)>>
        /\ UNCHANGED <<tries, cleared>>
    BY <1>7 DEF GetCheck, Inv, TypeOK
  <2>2. tick >= 1
    BY <1>7, <2>1 DEF Inv, Shape
  <2>3. Observation(r) = ReadLog!Entry(tick)
    BY <1>2, <1>7, <2>1, <2>2, NewestInPlace, ObservationIs
  <2>4. Seen(r)' = ReadLog!Returned(<<ReadLog!Entry(tick)>>)
    <3>1. ~IsVoid(r)' /\ ~Getting(r)' /\ ~Lasting(r)'
      BY <1>2, <2>1 DEF IsVoid, Getting, Lasting
    <3>2. QED
      BY <2>1, <2>3, <3>1
         DEF Seen, Call, Getting, Lasting, ReadLog!Returned, ReadLog!State
  <2>5. Log # <<>> /\ Seen(r).call = "get"
    BY <1>1, <1>3, <2>2, SeenIs, GettingIs
  <2>6. ReadLog!Get(r)
    BY <1>1, <2>4, <2>5
       DEF ReadLog!Get, ReadLog!InCall, ReadLog!Becomes
  <2>7. QED
    BY <2>6 DEF ReadLog!Next
<1>8. CASE GetWord(r) \/ (GetSlot(r) /\ slotTick[SlotOf(target[r])] = target[r])
  <2>1. /\ UNCHANGED <<target, tries, left, out, cleared>>
        /\ rpc[r] \in {"get_slot", "get_word"}
        /\ rpc'[r] \in {"get_word", "get_check"}
    BY <1>8 DEF GetWord, GetSlot, ReadWord, ReadFrom, Inv, TypeOK
  <2>2. Seen(r)' = Seen(r)
    BY <2>1 DEF Seen, IsVoid, VoidCall, Call, Getting, Lasting
  <2>3. QED
    BY <1>1, <2>2 DEF ReadLog!vars, Calls
<1>9. QED
  BY <1>4, <1>5, <1>6, <1>7, <1>8

(* Each step of get_last_k() is one of the log's, or none. *)
LEMMA LogLasting ==
  ASSUME Inv, LogInv, NEW r \in Readers, ~IsVoid(r),
         LastSlot(r) \/ LastWord(r) \/ LastCheck(r)
  PROVE  ReadLog!Next \/ UNCHANGED ReadLog!vars
<1>0. Reader(r)
  BY DEF Reader
<1>1. /\ Log' = Log /\ Calls[r] = Seen(r)
      /\ Calls' = [Calls EXCEPT ![r] = Seen(r)'] /\ Len(Log) = tick
  BY <1>0, SeenStep, LogIs
<1>2. /\ tick \in Nat /\ target[r] \in Nat /\ left[r] \in Nat /\ BufferSize \in Nat
      /\ ~cleared[r] /\ Lasting(r) /\ target[r] <= tick /\ left[r] <= target[r]
  BY ConstantsAssumption
     DEF Inv, TypeOK, IsVoid, Shape, ReadInv, AimsBack, Aiming, Reading, Lasting,
         LastSlot, LastWord, LastCheck, ReadWord
<1>3. Seen(r) = ReadLog!Taking(target[r], left[r], out[r])
  BY <1>2, SeenIs
<1>4. ASSUME left[r] = 0 \/ slotTick[SlotOf(target[r])] # target[r],
             rpc'[r] = "idle", UNCHANGED <<tries, out, cleared>>
      PROVE  ReadLog!Stop(r)
  <2>1. left[r] = 0 \/ tick + 1 >= target[r] + BufferSize
    <3>1. CASE left[r] # 0
      <4>1. target[r] \in 1 .. tick
        BY <1>2, <3>1
      <4>2. QED
        BY <1>2, <1>4, <3>1, <4>1 DEF LogInv, RecentInv
    <3>2. QED
      BY <3>1
  <2>2. Seen(r)' = ReadLog!Returned(out[r])
    <3>1. ~IsVoid(r)' /\ ~Getting(r)' /\ ~Lasting(r)'
      BY <1>4 DEF IsVoid, Getting, Lasting
    <3>2. QED
      BY <1>4, <3>1
         DEF Seen, Call, Getting, Lasting, ReadLog!Returned, ReadLog!State
  <2>3. /\ Seen(r).call = "last" /\ Seen(r).at = target[r]
        /\ Seen(r).want = left[r] /\ Seen(r).result = out[r]
    BY <1>3, TakingIs
  <2>4. QED
    BY <1>1, <2>1, <2>2, <2>3
       DEF ReadLog!Stop, ReadLog!InCall, ReadLog!Becomes
<1>5. CASE LastSlot(r) /\ ~(left[r] > 0 /\ slotTick[SlotOf(target[r])] = target[r])
  <2>1. /\ left[r] = 0 \/ slotTick[SlotOf(target[r])] # target[r]
        /\ rpc'[r] = "idle" /\ UNCHANGED <<tries, out, cleared>>
    BY <1>5 DEF LastSlot, Inv, TypeOK
  <2>2. QED
    BY <1>4, <2>1 DEF ReadLog!Next
<1>6. CASE LastCheck(r) /\ slotTick[SlotOf(target[r])] # target[r]
  <2>1. rpc'[r] = "idle" /\ UNCHANGED <<tries, out, cleared>>
    BY <1>6 DEF LastCheck, Inv, TypeOK
  <2>2. QED
    BY <1>4, <1>6, <2>1 DEF ReadLog!Next
<1>7. CASE LastCheck(r) /\ slotTick[SlotOf(target[r])] = target[r]
  <2>1. /\ rpc[r] = "last_check" /\ rpc'[r] = "last"
        /\ out'[r] = Append(out[r], Observation(r)) /\ target'[r] = target[r] - 1
        /\ left'[r] = left[r] - 1 /\ UNCHANGED <<tries, cleared>>
    BY <1>7 DEF LastCheck, Inv, TypeOK
  <2>2. Observation(r) = ReadLog!Entry(target[r]) /\ left[r] > 0
    <3>1. left[r] >= 1
      BY <2>1 DEF Inv, Shape
    <3>2. QED
      BY <1>2, <1>7, <2>1, <3>1, ObservationIs
  <2>3. Seen(r)' = ReadLog!Taking(target[r] - 1, left[r] - 1,
                                  Append(out[r], ReadLog!Entry(target[r])))
    <3>1. ~IsVoid(r)' /\ ~Getting(r)' /\ Lasting(r)'
      BY <2>1 DEF IsVoid, Getting, Lasting
    <3>2. QED
      BY <2>1, <2>2, <3>1
         DEF Seen, Call, Getting, Lasting, ReadLog!Taking, ReadLog!State
  <2>4. /\ Seen(r).call = "last" /\ Seen(r).at = target[r]
        /\ Seen(r).want = left[r] /\ Seen(r).result = out[r]
    BY <1>3, TakingIs
  <2>5. ReadLog!Take(r)
    BY <1>1, <2>2, <2>3, <2>4
       DEF ReadLog!Take, ReadLog!InCall, ReadLog!Becomes
  <2>6. QED
    BY <2>5 DEF ReadLog!Next
<1>8. CASE LastWord(r) \/ (LastSlot(r) /\ left[r] > 0
                            /\ slotTick[SlotOf(target[r])] = target[r])
  <2>1. /\ UNCHANGED <<target, tries, left, out, cleared>>
        /\ rpc[r] \in {"last", "last_word"}
        /\ rpc'[r] \in {"last_word", "last_check"}
    BY <1>2, <1>8 DEF LastWord, LastSlot, ReadWord, ReadFrom, Inv, TypeOK
  <2>2. Seen(r)' = Seen(r)
    BY <2>1 DEF Seen, IsVoid, VoidCall, Call, Getting, Lasting
  <2>3. QED
    BY <1>1, <2>2 DEF ReadLog!vars, Calls
<1>9. QED
  BY <1>5, <1>6, <1>7, <1>8

(* Until the next call, a void call stays void. *)
LEMMA VoidStays ==
  ASSUME Inv, LogInv, NEW r \in Readers, Reader(r), IsVoid(r), ~GetCall(r),
         ~(\E k \in 1 .. BufferSize + 1 : LastCall(r, k))
  PROVE  UNCHANGED ReadLog!vars
<1>1. Log' = Log /\ Calls[r] = Seen(r) /\ Calls' = [Calls EXCEPT ![r] = Seen(r)']
  BY SeenStep
<1>2. /\ tries[r] \in Nat /\ MaxRetries \in Nat
      /\ tries'[r] \in {tries[r], tries[r] + 1} /\ cleared' = cleared
  BY ConstantsAssumption
     DEF Reader, GetTick, GetSlot, GetWord, GetCheck, LastSlot, LastWord, LastCheck,
         ReadWord, ReadFrom, Retry, Inv, TypeOK
<1>3. IsVoid(r)'
  BY <1>2 DEF IsVoid
<1>4. Seen(r)' = Seen(r)
  BY <1>3 DEF Seen, VoidCall
<1>5. QED
  BY <1>1, <1>4 DEF ReadLog!vars, Calls

(* With at least two slots, the buffer whose words one process writes and  *)
(* others read with no lock between them is to its readers the log of what *)
(* was put: get() returns the newest observation in one step, get_last_k() *)
(* those before it, one after the other, and ends early only if the writer *)
(* has lapped it (ring_buffer.py).                                         *)
THEOREM LogImplements ==
  ASSUME BufferSize >= 2
  PROVE  Spec => LogSpec
<1>1. Init => ReadLog!Init
  <2>1. SUFFICES ASSUME Init PROVE ReadLog!Init
    OBVIOUS
  <2>2. Log = <<>>
    <3>1. Log \in Seq(AllData) /\ Len(Log) = tick /\ tick = 0
      BY <2>1, InitInv, LogIs DEF Init
    <3>2. QED
      BY <3>1, EmptySeq
  <2>3. ASSUME NEW r \in Readers PROVE Seen(r) = ReadLog!Returned(<<>>)
    <3>1. ~IsVoid(r) /\ rpc[r] = "idle" /\ out[r] = <<>>
      BY <2>1, ConstantsAssumption DEF Init, IsVoid
    <3>2. QED
      BY <3>1 DEF Seen, Call, Getting, Lasting, ReadLog!Returned, ReadLog!State
  <2>4. QED
    BY <2>2, <2>3 DEF Calls, ReadLog!Init
<1>2. Inv /\ Inv' /\ LogInv /\ [Next]_vars => [ReadLog!Next]_(ReadLog!vars)
  <2>1. SUFFICES ASSUME Inv, Inv', LogInv, [Next]_vars
                 PROVE  ReadLog!Next \/ UNCHANGED ReadLog!vars
    BY Zenon
  <2>2. CASE Writer
    BY <2>1, <2>2, LogWriting
  <2>3. ASSUME NEW r \in Readers, Reader(r)
        PROVE  ReadLog!Next \/ UNCHANGED ReadLog!vars
    <3>1. CASE GetCall(r) \/ \E k \in 1 .. BufferSize + 1 : LastCall(r, k)
      BY <2>1, <3>1, GetBegins, LastBegins DEF ReadLog!Next
    <3>2. CASE ~(GetCall(r) \/ \E k \in 1 .. BufferSize + 1 : LastCall(r, k))
      <4>1. CASE IsVoid(r)
        BY <2>1, <2>3, <3>2, <4>1, VoidStays
      <4>2. CASE ~IsVoid(r)
        BY <2>1, <2>3, <3>2, <4>2, LogGetting, LogLasting DEF Reader
      <4>3. QED
        BY <4>1, <4>2
    <3>3. QED
      BY <3>1, <3>2
  <2>4. CASE UNCHANGED vars
    BY <2>4
       DEF vars, writerVars, readerVars, Log, Calls, Seen, IsVoid, Call, Getting,
           Lasting, ReadLog!vars
  <2>5. QED
    BY <2>1, <2>2, <2>3, <2>4 DEF Next
<1>3. Inv /\ LogInv /\ [Next]_vars => LogInv'
  BY LogStep
<1>4. QED
  BY <1>1, <1>2, <1>3, LogInit, Invariant, PTL DEF Spec, LogSpec, ReadLog!Spec
=============================================================================
