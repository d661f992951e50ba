-------------------------- MODULE SharedRingBuffer --------------------------
(***************************************************************************)
(* The shared-memory ring buffer (ipc/ring_buffer.py): one writer process  *)
(* and any number of reader processes, with no lock between them.  put()   *)
(* and clear() hold a lock of the writer's process, so at most one of them *)
(* is under way; a writer that dies loses the lock with its process and    *)
(* its successor attaches to the segment as it was left.                   *)
(*                                                                         *)
(* Memory is read and written one 8-byte field at a time, in program order *)
(* (a strongly ordered machine).  The floats of an observation are         *)
(* abstracted to the number of the put() that wrote them, so a torn        *)
(* observation is one whose words differ.                                  *)
(***************************************************************************)
EXTENDS Integers, Sequences

CONSTANTS
  Readers,     (* the reader processes                                     *)
  BufferSize,  (* slots                                                    *)
  NumWords,    (* data words of a slot: num_joints * 3                     *)
  MaxRetries,  (* _MAX_RETRIES of get()                                    *)
  MaxPuts,     (* bound: calls of put()                                    *)
  MaxClears    (* bound: calls of clear()                                  *)

ASSUME ConstantsAssumption ==
  /\ BufferSize \in Nat \ {0}
  /\ NumWords \in Nat \ {0}
  /\ MaxRetries \in Nat \ {0}
  /\ MaxPuts \in Nat
  /\ MaxClears \in Nat

Slots == 0 .. BufferSize - 1
Words == 1 .. NumWords
Blank == [w \in Words |-> 0]
NoData == <<>>

VARIABLES
  tick,                (* the header's write counter                       *)
  slotTick, slotData,  (* the slots                                        *)
  wpc, wi,             (* the writer's next step and loop index            *)
  rpc,                 (* each reader's next step                          *)
  target, idx, got,    (* its tick_val or target_tick, loop index, data    *)
  tries,               (* failed attempts of its get()                     *)
  left,                (* observations its get_last_k() still wants        *)
  out,                 (* what its last call returned                      *)
  puts, clears,        (* calls made, to bound the model; puts names data  *)
  published,           (* history: the put() behind each tick              *)
  cleared              (* history: a clear() since the reader's call began *)

memory     == <<tick, slotTick, slotData>>
writerVars == <<wpc, wi, puts, clears, published>>
readerVars == <<rpc, target, idx, got, tries, left, out>>
vars == <<memory, writerVars, readerVars, cleared>>

Init ==
  /\ tick = 0
  /\ slotTick = [s \in Slots |-> 0]
  /\ slotData = [s \in Slots |-> Blank]
  /\ wpc = "idle" /\ wi = 1
  /\ rpc = [r \in Readers |-> "idle"]
  /\ target = [r \in Readers |-> 0]
  /\ idx = [r \in Readers |-> 1]
  /\ got = [r \in Readers |-> NoData]
  /\ tries = [r \in Readers |-> 0]
  /\ left = [r \in Readers |-> 0]
  /\ out = [r \in Readers |-> <<>>]
  /\ puts = 0 /\ clears = 0
  /\ published = <<>>
  /\ cleared = [r \in Readers |-> FALSE]

SlotOf(t) == t % BufferSize
-----------------------------------------------------------------------------
(***************************************************************************)
(* The writer.                                                             *)
(***************************************************************************)
(* Mutant: marks the slot with the tick that is still published. *)
PutSlotTickOld ==
  /\ wpc = "idle" /\ puts < MaxPuts
  /\ slotTick' = [slotTick EXCEPT ![SlotOf(tick)] = tick]
  /\ puts' = puts + 1
  /\ wpc' = "put" /\ wi' = 1
  /\ UNCHANGED <<tick, slotData, clears, published, readerVars, cleared>>

(* put() takes the lock, reads the tick and marks the slot of the next. *)
PutSlotTick ==
  /\ wpc = "idle" /\ puts < MaxPuts
  /\ slotTick' = [slotTick EXCEPT ![SlotOf(tick + 1)] = tick + 1]
  /\ puts' = puts + 1
  /\ wpc' = "put" /\ wi' = 1
  /\ UNCHANGED <<tick, slotData, clears, published, readerVars, cleared>>

PutWord ==
  /\ wpc = "put" /\ wi <= NumWords
  /\ slotData' = [slotData EXCEPT ![SlotOf(tick + 1)][wi] = puts]
  /\ wi' = wi + 1
  /\ UNCHANGED <<tick, slotTick, wpc, puts, clears, published, readerVars,
                 cleared>>

(* The tick is published last, and the lock released. *)
PutPublish ==
  /\ wpc = "put" /\ wi > NumWords
  /\ tick' = tick + 1
  /\ published' = Append(published, puts)
  /\ wpc' = "idle"
  /\ UNCHANGED <<slotTick, slotData, wi, puts, clears, readerVars, cleared>>

(* clear() zeroes the segment from its start. *)
ClearTick ==
  /\ wpc = "idle" /\ clears < MaxClears
  /\ tick' = 0
  /\ published' = <<>>
  /\ cleared' = [r \in Readers |-> TRUE]
  /\ clears' = clears + 1
  /\ wpc' = "clear" /\ wi' = 0
  /\ UNCHANGED <<slotTick, slotData, puts, readerVars>>

ClearSlot ==
  /\ wpc = "clear"
  /\ \/ /\ wi < BufferSize
        /\ slotTick' = [slotTick EXCEPT ![wi] = 0]
        /\ slotData' = [slotData EXCEPT ![wi] = Blank]
        /\ wi' = wi + 1 /\ UNCHANGED wpc
     \/ /\ wi = BufferSize
        /\ wpc' = "idle" /\ UNCHANGED <<slotTick, slotData, wi>>
  /\ UNCHANGED <<tick, puts, clears, published, readerVars, cleared>>

(* The writer dies; its successor finds the segment and attaches to it. *)
WriterRestart ==
  /\ wpc # "idle"
  /\ wpc' = "idle"
  /\ UNCHANGED <<memory, wi, puts, clears, published, readerVars, cleared>>
-----------------------------------------------------------------------------
(***************************************************************************)
(* get(): the newest observation.                                          *)
(***************************************************************************)
GetCall(r) ==
  /\ rpc[r] = "idle"
  /\ rpc' = [rpc EXCEPT ![r] = "get"]
  /\ tries' = [tries EXCEPT ![r] = 0]
  /\ got' = [got EXCEPT ![r] = NoData]
  /\ out' = [out EXCEPT ![r] = <<>>]
  /\ cleared' = [cleared EXCEPT ![r] = FALSE]
  /\ UNCHANGED <<memory, writerVars, target, idx, left>>

(* The head of the retry loop; after the last try the data is returned     *)
(* whatever it is, and an error is raised if none was ever read.           *)
GetTick(r) ==
  /\ rpc[r] = "get"
  /\ \/ /\ tries[r] < MaxRetries
        /\ target' = [target EXCEPT ![r] = tick]
        /\ rpc' = [rpc EXCEPT ![r] = IF tick = 0 THEN "idle" ELSE "get_slot"]
        /\ UNCHANGED out
     \/ /\ tries[r] = MaxRetries
        /\ out' = [out EXCEPT ![r] =
             IF got[r] = NoData THEN <<>>
             ELSE <<[tick |-> target[r], data |-> got[r]]>>]
        /\ rpc' = [rpc EXCEPT ![r] = "idle"]
        /\ UNCHANGED target
  /\ UNCHANGED <<memory, writerVars, idx, got, tries, left, cleared>>

(* Starts reading the words of a slot. *)
ReadFrom(r, next) ==
  /\ rpc' = [rpc EXCEPT ![r] = next]
  /\ idx' = [idx EXCEPT ![r] = 1]
  /\ got' = [got EXCEPT ![r] = Blank]

Retry(r) ==
  /\ rpc' = [rpc EXCEPT ![r] = "get"]
  /\ tries' = [tries EXCEPT ![r] = @ + 1]

GetSlot(r) ==
  /\ rpc[r] = "get_slot"
  /\ \/ /\ slotTick[SlotOf(target[r])] = target[r]
        /\ ReadFrom(r, "get_word") /\ UNCHANGED tries
     \/ /\ slotTick[SlotOf(target[r])] # target[r]
        /\ Retry(r) /\ UNCHANGED <<idx, got>>
  /\ UNCHANGED <<memory, writerVars, target, left, out, cleared>>

(* One word of the data; the same loop serves get() and get_last_k(). *)
ReadWord(r, step, next) ==
  /\ rpc[r] = step
  /\ \/ /\ idx[r] <= NumWords
        /\ got' = [got EXCEPT ![r][idx[r]] =
                     slotData[SlotOf(target[r])][idx[r]]]
        /\ idx' = [idx EXCEPT ![r] = @ + 1]
        /\ UNCHANGED rpc
     \/ /\ idx[r] > NumWords
        /\ rpc' = [rpc EXCEPT ![r] = next]
        /\ UNCHANGED <<got, idx>>
  /\ UNCHANGED <<memory, writerVars, target, tries, left, out, cleared>>

GetWord(r) == ReadWord(r, "get_word", "get_check")

Observation(r) == [tick |-> target[r], data |-> got[r]]

(* Mutant: returns without looking at the tick again. *)
GetUnchecked(r) ==
  /\ rpc[r] = "get_check"
  /\ out' = [out EXCEPT ![r] = <<Observation(r)>>]
  /\ rpc' = [rpc EXCEPT ![r] = "idle"]
  /\ UNCHANGED <<memory, writerVars, target, idx, got, tries, left, cleared>>

GetCheck(r) ==
  /\ rpc[r] = "get_check"
  /\ \/ /\ tick = target[r]
        /\ out' = [out EXCEPT ![r] = <<Observation(r)>>]
        /\ rpc' = [rpc EXCEPT ![r] = "idle"]
        /\ UNCHANGED tries
     \/ /\ tick # target[r]
        /\ Retry(r) /\ UNCHANGED out
  /\ UNCHANGED <<memory, writerVars, target, idx, got, left, cleared>>
-----------------------------------------------------------------------------
(***************************************************************************)
(* get_last_k(): the last k observations, newest first.                    *)
(***************************************************************************)
Least(a, b) == IF a < b THEN a ELSE b

LastCall(r, k) ==
  /\ rpc[r] = "idle"
  /\ target' = [target EXCEPT ![r] = tick]
  /\ left' = [left EXCEPT ![r] = Least(k, Least(tick, BufferSize))]
  /\ rpc' = [rpc EXCEPT ![r] = "last"]
  /\ tries' = [tries EXCEPT ![r] = 0]
  /\ out' = [out EXCEPT ![r] = <<>>]
  /\ cleared' = [cleared EXCEPT ![r] = FALSE]
  /\ UNCHANGED <<memory, writerVars, idx, got>>

(* Mutant: looks for more observations than were asked for. *)
LastSlotUnbounded(r) ==
  /\ rpc[r] = "last"
  /\ \/ /\ slotTick[SlotOf(target[r])] = target[r]
        /\ ReadFrom(r, "last_word")
     \/ /\ slotTick[SlotOf(target[r])] # target[r]
        /\ rpc' = [rpc EXCEPT ![r] = "idle"] /\ UNCHANGED <<idx, got>>
  /\ UNCHANGED <<memory, writerVars, target, tries, left, out, cleared>>

LastSlot(r) ==
  /\ rpc[r] = "last"
  /\ \/ /\ left[r] > 0 /\ slotTick[SlotOf(target[r])] = target[r]
        /\ ReadFrom(r, "last_word")
     \/ /\ left[r] = 0 \/ slotTick[SlotOf(target[r])] # target[r]
        /\ rpc' = [rpc EXCEPT ![r] = "idle"] /\ UNCHANGED <<idx, got>>
  /\ UNCHANGED <<memory, writerVars, target, tries, left, out, cleared>>

LastWord(r) == ReadWord(r, "last_word", "last_check")

(* Mutant: does not look at the slot's tick again. *)
LastUnchecked(r) ==
  /\ rpc[r] = "last_check"
  /\ out' = [out EXCEPT ![r] = Append(@, Observation(r))]
  /\ target' = [target EXCEPT ![r] = @ - 1]
  /\ left' = [left EXCEPT ![r] = @ - 1]
  /\ rpc' = [rpc EXCEPT ![r] = "last"]
  /\ UNCHANGED <<memory, writerVars, idx, got, tries, cleared>>

LastCheck(r) ==
  /\ rpc[r] = "last_check"
  /\ \/ /\ slotTick[SlotOf(target[r])] = target[r]
        /\ out' = [out EXCEPT ![r] = Append(@, Observation(r))]
        /\ target' = [target EXCEPT ![r] = @ - 1]
        /\ left' = [left EXCEPT ![r] = @ - 1]
        /\ rpc' = [rpc EXCEPT ![r] = "last"]
     \/ /\ slotTick[SlotOf(target[r])] # target[r]
        /\ rpc' = [rpc EXCEPT ![r] = "idle"]
        /\ UNCHANGED <<out, target, left>>
  /\ UNCHANGED <<memory, writerVars, idx, got, tries, cleared>>
-----------------------------------------------------------------------------
Writer ==
  \/ PutSlotTick \/ PutWord \/ PutPublish
  \/ ClearTick \/ ClearSlot \/ WriterRestart

Reader(r) ==
  \/ GetCall(r) \/ GetTick(r) \/ GetSlot(r) \/ GetWord(r) \/ GetCheck(r)
  \/ \E k \in 1 .. BufferSize + 1 : LastCall(r, k)
  \/ LastSlot(r) \/ LastWord(r) \/ LastCheck(r)

Next == Writer \/ \E r \in Readers : Reader(r)

Spec == Init /\ [][Next]_vars
-----------------------------------------------------------------------------
(***************************************************************************)
(* Properties.                                                             *)
(***************************************************************************)
ReaderSteps == {"idle", "get", "get_slot", "get_word", "get_check",
                "last", "last_word", "last_check"}

Observations == [tick : Nat, data : [Words -> Nat]]

(* The values each variable takes. *)
TypeOK ==
  /\ tick \in Nat
  /\ slotTick \in [Slots -> Nat] /\ slotData \in [Slots -> [Words -> Nat]]
  /\ wpc \in {"idle", "put", "clear"} /\ wi \in Nat
  /\ rpc \in [Readers -> ReaderSteps]
  /\ target \in [Readers -> Nat] /\ idx \in [Readers -> Nat \ {0}]
  /\ got \in [Readers -> [Words -> Nat] \cup {NoData}]
  /\ tries \in [Readers -> Nat] /\ left \in [Readers -> Nat]
  /\ out \in [Readers -> Seq(Observations)]
  /\ puts \in Nat /\ clears \in Nat
  /\ published \in Seq(Nat)
  /\ cleared \in [Readers -> BOOLEAN]

Whole(data, put) == data = [w \in Words |-> put]

(* No torn observation: whatever get() or get_last_k() returned, without a *)
(* clear() during the call and without running out of retries, is all of   *)
(* one put(), the one published under the tick it is returned with.        *)
ReturnsWhole ==
  \A r \in Readers : ~cleared[r] /\ tries[r] < MaxRetries =>
    \A j \in 1 .. Len(out[r]) :
      /\ out[r][j].tick \in 1 .. Len(published)
      /\ Whole(out[r][j].data, published[out[r][j].tick])

(* LIFO: the observation get() returns is the newest one there is when it  *)
(* returns, not only when it started.                                      *)
GetIsLatest ==
  [][\A r \in Readers :
       rpc[r] = "get_check" /\ rpc'[r] = "idle" /\ ~cleared[r] =>
         /\ published # <<>>
         /\ Whole(out'[r][1].data, published[Len(published)])]_vars

(* get() needs another try only if an observation was published since it   *)
(* read the tick: a writer that is slow, or died inside put(), never makes *)
(* a reader spin.                                                          *)
RetryMeansProgress ==
  [][\A r \in Readers :
       tries'[r] > tries[r] /\ ~cleared[r] => Len(published) > target[r]]_vars

(* The observations that were put, each in one piece. *)
Data(n) == [w \in Words |-> n]
Log == [t \in 1 .. Len(published) |-> Data(published[t])]

(* A call, unless a clear() or too many retries make it void. *)
Getting(r) == rpc[r] \in {"get", "get_slot", "get_word", "get_check"}
Lasting(r) == rpc[r] \in {"last", "last_word", "last_check"}

Call(r) ==
  [call   |-> IF Getting(r) THEN "get" ELSE IF Lasting(r) THEN "last" ELSE "none",
   at     |-> IF rpc[r] \in {"idle", "get"} THEN 0 ELSE target[r],
   missed |-> IF Getting(r) THEN tries[r] ELSE 0,
   want   |-> IF Lasting(r) THEN left[r] ELSE 0,
   result |-> out[r]]

VoidCall == [call |-> "void", at |-> 0, missed |-> 0, want |-> 0, result |-> <<>>]

IsVoid(r) == cleared[r] \/ tries[r] >= MaxRetries

Seen(r) == IF IsVoid(r) THEN VoidCall ELSE Call(r)

Calls == [r \in Readers |-> Seen(r)]

ReadLog == INSTANCE ObservationLog
  WITH Values <- {Data(n) : n \in 1 .. MaxPuts}, Size <- BufferSize,
       Attempts <- MaxRetries, log <- Log, reader <- Calls

(* Word by word, and with no lock between the processes, get() returns the *)
(* newest observation in one step, and get_last_k() the ones before it     *)
(* without a gap, the newest first, as many as it set out for unless the   *)
(* writer has lapped it; a writer that dies inside put() changes nothing.  *)
LogSpec == ReadLog!Spec
=============================================================================
