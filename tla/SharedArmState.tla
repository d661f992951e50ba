--------------------------- MODULE SharedArmState ---------------------------
(***************************************************************************)
(* The shared-memory segment an arm publishes its state in                 *)
(* (ipc/shared_state.py): write() holds a spinlock byte, read() takes no   *)
(* lock but looks at the lock byte and at the tick before and after.  The  *)
(* writers are the threads of the arm's process (any of them may call      *)
(* refresh_state()); the readers are other processes.                      *)
(*                                                                         *)
(* A segment has a name.  The arm makes one, or attaches to the one the    *)
(* name stands for, when its process starts and when it reconnects, and    *)
(* takes the name away when it closes; readers attach by name, and whoever *)
(* has a segment open keeps it.  The object of a reader that finds no      *)
(* segment does nothing for good: the model leaves it out.                 *)
(*                                                                         *)
(* A joint's block is abstracted to one word: the number of the write()    *)
(* that wrote it, 0 at first.  The _MAX_SPIN attempts to acquire the lock  *)
(* are abstracted to a choice: a writer that sees it held may at any time  *)
(* have made them all.                                                     *)
(***************************************************************************)
EXTENDS Integers, Sequences

CONSTANTS
  Writers,     (* threads of the arm's process                             *)
  Readers,     (* the reader processes                                     *)
  NumJoints,   (* joint blocks                                             *)
  MaxTries,    (* the _MAX_SPIN attempts of read()                         *)
  MaxWrites,   (* bound: calls of write()                                  *)
  MaxSegments  (* bound: segments made                                     *)

ASSUME ConstantsAssumption ==
  /\ NumJoints \in Nat \ {0}
  /\ MaxTries \in Nat \ {0}
  /\ MaxWrites \in Nat /\ MaxSegments \in Nat

Joints == 1 .. NumJoints
Segments == 1 .. MaxSegments
NoSegment == 0
Blank == [j \in Joints |-> 0]
NoResult == [tick |-> -1, data |-> Blank]

VARIABLES
  mem,                 (* each segment: is the byte _LOCK_HELD, the tick,  *)
                       (*   the blocks of the joints                       *)
  seg,                 (* the arm's segment: its _shm, while _active       *)
  named,               (* the segment the name stands for                  *)
  rseg,                (* each reader's segment                            *)
  made,                (* segments made                                    *)
  wpc, old, wi, name,  (* each writer: next step, old_tick, loop index,    *)
                       (*   the number of its write()                      *)
  rpc, before, ri, got,(* each reader: next step, tick_before, loop index, *)
  tries, out,          (*   the data read, attempts made, what it returned *)
  writes,              (* calls of write(), to bound the model; names data *)
  published,           (* history: the write() behind each tick            *)
  both,                (* history: two writers held the lock at once       *)
  half,                (* history: the segments that hold the blocks of a  *)
                       (*   write() that raised, and of the one before it  *)
  late,                (* history: reader read its tick under the lock, or *)
                       (*   over such blocks                               *)
  abandoned            (* history: the segments a write() was cut short in *)

openVars   == <<seg, named, rseg, made>>
writerVars == <<wpc, old, wi, name, writes, published, both, half,
                abandoned>>
readerVars == <<rpc, before, ri, got, tries, out, late>>
vars == <<mem, openVars, writerVars, readerVars>>

(* What _init_header() makes of a new segment. *)
Fresh == [lock |-> FALSE, tick |-> 0, block |-> Blank]

Init ==
  /\ mem = [s \in Segments |-> Fresh]
  /\ seg = NoSegment /\ named = NoSegment /\ made = 0
  /\ rseg = [r \in Readers |-> NoSegment]
  /\ wpc = [w \in Writers |-> "idle"]
  /\ old = [w \in Writers |-> 0]
  /\ wi = [w \in Writers |-> 1]
  /\ name = [w \in Writers |-> 0]
  /\ rpc = [r \in Readers |-> "idle"]
  /\ before = [r \in Readers |-> 0]
  /\ ri = [r \in Readers |-> 1]
  /\ got = [r \in Readers |-> Blank]
  /\ tries = [r \in Readers |-> 0]
  /\ out = [r \in Readers |-> NoResult]
  /\ writes = 0 /\ published = [s \in Segments |-> <<>>]
  /\ both = FALSE /\ half = {} /\ abandoned = {}
  /\ late = [r \in Readers |-> FALSE]
-----------------------------------------------------------------------------
(***************************************************************************)
(* Opening and closing.                                                    *)
(***************************************************************************)
(* Mutant: writes the header of a segment it only attaches to. *)
OpenInitialises ==
  /\ seg = NoSegment
  /\ \/ /\ named # NoSegment
        /\ seg' = named /\ UNCHANGED <<named, made>>
     \/ /\ named = NoSegment /\ made < MaxSegments
        /\ made' = made + 1 /\ seg' = made + 1 /\ named' = made + 1
  /\ mem' = [mem EXCEPT ![seg'] = Fresh]
  /\ published' = [published EXCEPT ![seg'] = <<>>]
  /\ UNCHANGED <<rseg, wpc, old, wi, name, writes, both, half, abandoned,
                 readerVars>>

(* The arm's process starts, or its arm reconnects. *)
Open ==
  /\ seg = NoSegment
  /\ \/ /\ named # NoSegment
        /\ seg' = named /\ UNCHANGED <<named, made>>
     \/ /\ named = NoSegment /\ made < MaxSegments
        /\ made' = made + 1 /\ seg' = made + 1 /\ named' = made + 1
  /\ UNCHANGED <<mem, rseg, writerVars, readerVars>>

(* The arm lets go of its segment and any write() under way ends where it  *)
(* stands: it raises, or the process is dead.                              *)
LetGo ==
  /\ seg # NoSegment
  /\ seg' = NoSegment
  /\ wpc' = [w \in Writers |-> "idle"]
  /\ old' = [w \in Writers |-> 0]
  /\ wi' = [w \in Writers |-> 1]
  /\ name' = [w \in Writers |-> 0]
  /\ abandoned' = IF \E w \in Writers : wpc[w] # "idle"
                  THEN abandoned \cup {seg} ELSE abandoned
  /\ UNCHANGED <<mem, rseg, made, writes, published, both, half, readerVars>>

(* close() takes the name away, also from a segment it had only attached   *)
(* to: _created says what was asked for.                                   *)
Close == LetGo /\ named' = NoSegment

(* The process dies: the name stays, unless Python's resource tracker      *)
(* cleans it up.                                                           *)
ProcessDies == LetGo /\ named' \in {named, NoSegment}

ReaderOpen(r) ==
  /\ rpc[r] = "idle" /\ rseg[r] = NoSegment
  /\ named # NoSegment
  /\ rseg' = [rseg EXCEPT ![r] = named]
  /\ UNCHANGED <<mem, seg, named, made, writerVars, readerVars>>

(* The tracker also works for a reader's process, when it ends. *)
ReaderClose(r) ==
  /\ rpc[r] = "idle" /\ rseg[r] # NoSegment
  /\ rseg' = [rseg EXCEPT ![r] = NoSegment]
  /\ named' \in {named, NoSegment}
  /\ out' = [out EXCEPT ![r] = NoResult]
  /\ tries' = [tries EXCEPT ![r] = 0]
  /\ late' = [late EXCEPT ![r] = FALSE]
  /\ UNCHANGED <<mem, seg, made, writerVars, rpc, before, ri, got>>
-----------------------------------------------------------------------------
(***************************************************************************)
(* write().                                                                *)
(***************************************************************************)
Inside(w) == wpc[w] \in {"tick_read", "tick_write", "joint", "release"}

WriteGoto(w, step) == wpc' = [wpc EXCEPT ![w] = step]

WriteCall(w) ==
  /\ wpc[w] = "idle" /\ seg # NoSegment /\ writes < MaxWrites
  /\ writes' = writes + 1
  /\ name' = [name EXCEPT ![w] = writes + 1]
  /\ WriteGoto(w, "test")
  /\ UNCHANGED <<mem, openVars, old, wi, published, both, half,
                 abandoned, readerVars>>

(* The writer has the lock, as far as it can tell. *)
Enter(w) ==
  /\ WriteGoto(w, "tick_read")
  /\ both' = (both \/ \E v \in Writers \ {w} : Inside(v))

(* Mutant: finds the lock free and does not set it. *)
AcquireTestEnters(w) ==
  /\ wpc[w] = "test"
  /\ Enter(w)
  /\ UNCHANGED <<mem, openVars, old, wi, name, writes, published, half,
                 abandoned, readerVars>>

(* Testing the byte and setting it are two steps. *)
AcquireTest(w) ==
  /\ wpc[w] = "test"
  /\ \/ /\ ~mem[seg].lock
        /\ WriteGoto(w, "set") /\ UNCHANGED both
     \/ /\ mem[seg].lock  (* every attempt failed: taken by force *)
        /\ Enter(w)
  /\ UNCHANGED <<mem, openVars, old, wi, name, writes, published, half,
                 abandoned, readerVars>>

AcquireSet(w) ==
  /\ wpc[w] = "set"
  /\ mem' = [mem EXCEPT ![seg].lock = TRUE]
  /\ WriteGoto(w, "verify")
  /\ UNCHANGED <<openVars, old, wi, name, writes, published, both, half,
                 abandoned, readerVars>>

AcquireVerify(w) ==
  /\ wpc[w] = "verify"
  /\ \/ mem[seg].lock /\ Enter(w)
     \/ ~mem[seg].lock /\ WriteGoto(w, "test") /\ UNCHANGED both
  /\ UNCHANGED <<mem, openVars, old, wi, name, writes, published, half,
                 abandoned, readerVars>>

TickRead(w) ==
  /\ wpc[w] = "tick_read"
  /\ old' = [old EXCEPT ![w] = mem[seg].tick]
  /\ WriteGoto(w, "tick_write")
  /\ UNCHANGED <<mem, openVars, wi, name, writes, published, both, half,
                 abandoned, readerVars>>

TickWrite(w) ==
  /\ wpc[w] = "tick_write"
  /\ mem' = [mem EXCEPT ![seg].tick = old[w] + 1]
  /\ published' = [published EXCEPT ![seg] = Append(@, name[w])]
  /\ WriteGoto(w, "joint")
  /\ UNCHANGED <<openVars, old, wi, name, writes, both, half, abandoned,
                 readerVars>>

JointWrite(w) ==
  /\ wpc[w] = "joint"
  /\ \/ /\ wi[w] <= NumJoints
        /\ mem' = [mem EXCEPT ![seg].block[wi[w]] = name[w]]
        /\ wi' = [wi EXCEPT ![w] = @ + 1] /\ UNCHANGED <<wpc, half>>
     \/ /\ wi[w] > NumJoints
        /\ half' = half \ {seg}
        /\ WriteGoto(w, "release") /\ UNCHANGED <<mem, wi>>
  /\ UNCHANGED <<openVars, old, name, writes, published, both, abandoned,
                 readerVars>>

(* A value of a joint is no number: the lock is released all the same, by  *)
(* the finally, under the new tick.                                        *)
JointRaises(w) ==
  /\ wpc[w] = "joint" /\ wi[w] <= NumJoints
  /\ half' = half \cup {seg}
  /\ WriteGoto(w, "release")
  /\ UNCHANGED <<mem, openVars, old, wi, name, writes, published, both,
                 abandoned, readerVars>>

(* Mutant: returns with the lock held. *)
ReleaseNothing(w) ==
  /\ wpc[w] = "release"
  /\ WriteGoto(w, "idle")
  /\ old' = [old EXCEPT ![w] = 0]
  /\ wi' = [wi EXCEPT ![w] = 1]
  /\ name' = [name EXCEPT ![w] = 0]
  /\ UNCHANGED <<mem, openVars, writes, published, both, half,
                 abandoned, readerVars>>

Release(w) ==
  /\ wpc[w] = "release"
  /\ mem' = [mem EXCEPT ![seg].lock = FALSE]
  /\ WriteGoto(w, "idle")
  /\ old' = [old EXCEPT ![w] = 0]
  /\ wi' = [wi EXCEPT ![w] = 1]
  /\ name' = [name EXCEPT ![w] = 0]
  /\ UNCHANGED <<openVars, writes, published, both, half,
                 abandoned, readerVars>>
-----------------------------------------------------------------------------
(***************************************************************************)
(* read().                                                                 *)
(***************************************************************************)
At(r) == mem[rseg[r]]

ReadGoto(r, step) == rpc' = [rpc EXCEPT ![r] = step]

ReadCall(r) ==
  /\ rpc[r] = "idle" /\ rseg[r] # NoSegment
  /\ tries' = [tries EXCEPT ![r] = 0]
  /\ ReadGoto(r, "spin")
  /\ UNCHANGED <<mem, openVars, writerVars, before, ri, got, out, late>>

(* Waits for the lock to be free, however long that takes. *)
ReadSpin(r) ==
  /\ rpc[r] = "spin" /\ ~At(r).lock
  /\ ReadGoto(r, "before")
  /\ UNCHANGED <<mem, openVars, writerVars, before, ri, got, tries, out, late>>

ReadBefore(r) ==
  /\ rpc[r] = "before"
  /\ before' = [before EXCEPT ![r] = At(r).tick]
  /\ late' = [late EXCEPT ![r] = At(r).lock \/ rseg[r] \in half]
  /\ ri' = [ri EXCEPT ![r] = 1]
  /\ ReadGoto(r, "joint")
  /\ UNCHANGED <<mem, openVars, writerVars, got, tries, out>>

ReadJoint(r) ==
  /\ rpc[r] = "joint"
  /\ \/ /\ ri[r] <= NumJoints
        /\ got' = [got EXCEPT ![r][ri[r]] = At(r).block[ri[r]]]
        /\ ri' = [ri EXCEPT ![r] = @ + 1] /\ UNCHANGED rpc
     \/ /\ ri[r] > NumJoints
        /\ ReadGoto(r, "after") /\ UNCHANGED <<got, ri>>
  /\ UNCHANGED <<mem, openVars, writerVars, before, tries, out, late>>

Result(r) == [tick |-> before[r], data |-> got[r]]

(* What the attempt has read is dropped. *)
Forget(r) ==
  /\ before' = [before EXCEPT ![r] = 0]
  /\ ri' = [ri EXCEPT ![r] = 1]
  /\ got' = [got EXCEPT ![r] = Blank]

Return(r) ==
  /\ out' = [out EXCEPT ![r] = Result(r)]
  /\ ReadGoto(r, "idle")
  /\ Forget(r)

(* After the last attempt the data is returned whatever it is. *)
Again(r) ==
  /\ tries' = [tries EXCEPT ![r] = @ + 1]
  /\ \/ /\ tries[r] + 1 < MaxTries
        /\ ReadGoto(r, "spin")
        /\ Forget(r) /\ UNCHANGED out
     \/ tries[r] + 1 >= MaxTries /\ Return(r)

(* Mutant: does not look at the tick again. *)
ReadAfterUnchecked(r) ==
  /\ rpc[r] = "after"
  /\ ReadGoto(r, "lock")
  /\ UNCHANGED <<mem, openVars, writerVars, before, ri, got, tries, out, late>>

ReadAfter(r) ==
  /\ rpc[r] = "after"
  /\ \/ /\ At(r).tick = before[r]
        /\ ReadGoto(r, "lock")
        /\ UNCHANGED <<before, ri, got, tries, out>>
     \/ At(r).tick # before[r] /\ Again(r)
  /\ UNCHANGED <<mem, openVars, writerVars, late>>

ReadLock(r) ==
  /\ rpc[r] = "lock"
  /\ \/ ~At(r).lock /\ Return(r) /\ UNCHANGED tries
     \/ At(r).lock /\ Again(r)
  /\ UNCHANGED <<mem, openVars, writerVars, late>>
-----------------------------------------------------------------------------
WriteStep(w) ==
  \/ AcquireTest(w) \/ AcquireSet(w) \/ AcquireVerify(w)
  \/ TickRead(w) \/ TickWrite(w) \/ JointWrite(w) \/ Release(w)

ReadStep(r) ==
  ReadSpin(r) \/ ReadBefore(r) \/ ReadJoint(r) \/ ReadAfter(r) \/ ReadLock(r)

Next ==
  \/ Open \/ Close \/ ProcessDies
  \/ \E w \in Writers : WriteCall(w) \/ WriteStep(w) \/ JointRaises(w)
  \/ \E r \in Readers :
       ReaderOpen(r) \/ ReaderClose(r) \/ ReadCall(r) \/ ReadStep(r)

Spec == Init /\ [][Next]_vars

(* The processes run; nobody has to call write() or read() again, or to    *)
(* restart the arm's process.                                              *)
FairSpec ==
  /\ Spec
  /\ \A w \in Writers : WF_vars(WriteStep(w))
  /\ \A r \in Readers : WF_vars(ReadStep(r))
-----------------------------------------------------------------------------
(***************************************************************************)
(* Properties.                                                             *)
(***************************************************************************)
(* All of the data is of the write() the tick counts. *)
Whole(result, s) ==
  \/ result = NoResult
  \/ result.tick = 0 /\ result.data = Blank
  \/ /\ result.tick \in 1 .. Len(published[s])
     /\ result.data = [j \in Joints |-> published[s][result.tick]]

(* "Concurrent readers will not see a partially-updated state", as long as *)
(* read() does not run out of attempts (shared_state.py:200): they do not  *)
(* if they read the first tick while nobody held the lock, no two writers  *)
(* ever held it at once, and no write() that raised half way has left its  *)
(* segment unlocked since the last one that came to its end.  A write()    *)
(* that was cut short by the death of the process or by a close() does no  *)
(* harm, and neither does the next process, which goes on in the segment   *)
(* as it was left.                                                         *)
NoTornReadUnlessLate ==
  \A r \in Readers :
    rpc[r] = "idle" /\ tries[r] < MaxTries /\ ~late[r] /\ ~both =>
      Whole(out[r], rseg[r])

(* The tick a reader sees never goes back while it has its segment open,   *)
(* over the deaths and restarts of the arm's process: a reader that waits  *)
(* for a larger tick does not wait for states it has had already.          *)
TicksGoOn ==
  [][\A r \in Readers :
       rseg'[r] = rseg[r] /\ ~both => out'[r].tick >= out[r].tick]_vars

(* read() returns, unless a write() was cut short in its segment, by the   *)
(* death of the process or by a close(): nothing else leaves the lock held *)
(* for good.                                                               *)
ReadsReturn ==
  \A r \in Readers : rpc[r] # "idle" ~> rpc[r] = "idle" \/ rseg[r] \in abandoned

(* A segment to its readers: that the writers are at it, or that one raised*)
(* and none has ended since, and the data of the write() behind each tick. *)
Unready == [s \in Segments |-> mem[s].lock \/ s \in half]
Data(n) == [j \in Joints |-> n]
Contents(names) == [i \in 1 .. Len(names) |-> Data(names[i])]
Log == [s \in Segments |-> Contents(published[s])]

(* A read() has looked once it has read the first tick. *)
LookOf(r) ==
  CASE rpc[r] = "idle" -> [how |-> "none", tick |-> 0]
    [] rpc[r] \in {"spin", "before"} -> [how |-> "begun", tick |-> 0]
    [] OTHER -> [how |-> IF late[r] THEN "dirty" ELSE "clean", tick |-> before[r]]

Look == [r \in Readers |-> LookOf(r)]
Left == [r \in Readers |-> MaxTries - tries[r]]

Register == INSTANCE SnapshotRegister
  WITH Values <- {Data(n) : n \in 1 .. MaxWrites},
       Anything <- [Joints -> 0 .. MaxWrites],
       First <- Blank, Attempts <- MaxTries, busy <- Unready, log <- Log,
       at <- rseg, look <- Look, left <- Left, result <- out

(* As long as no two writers hold the lock at once, the segment is to its  *)
(* readers a register that is read in one step, at the moment they read    *)
(* the first tick, whatever ends a write() half way: read() is linearizable*)
(* if the segment was ready then, and the attempts are not used up.        *)
RegisterSpec == Register!Init /\ [][~both' => Register!Next]_(Register!vars)
=============================================================================
