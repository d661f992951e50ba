---------------------------- MODULE SharedQueue -----------------------------
(***************************************************************************)
(* The shared-memory command queue (ipc/queue.py): one producer process    *)
(* and one consumer process on two cursors, head and tail, with no lock    *)
(* between them (each process has a lock of its own).  The consumer        *)
(* advances head; so does the producer when the queue is full, to drop the *)
(* oldest command, and whichever of them clears the queue.                 *)
(*                                                                         *)
(* Memory is accessed one 8-byte field at a time, in program order.  The   *)
(* timestamp and positions of a command are abstracted to the number of    *)
(* the put() that wrote them: a command whose words differ is torn.        *)
(* put_batch() and get_k() are sequences of put() and get().               *)
(***************************************************************************)
EXTENDS Integers, Sequences

CONSTANTS
  BufferSize,  (* slots                                                    *)
  NumWords,    (* words of a command: its timestamp and positions          *)
  MaxPuts,     (* bound: calls of put()                                    *)
  MaxGets,     (* bound: commands returned                                 *)
  MaxClears    (* bound: calls of clear()                                  *)

ASSUME ConstantsAssumption ==
  /\ BufferSize \in Nat \ {0}
  /\ NumWords \in Nat \ {0}
  /\ MaxPuts \in Nat /\ MaxGets \in Nat /\ MaxClears \in Nat

Slots == 0 .. BufferSize - 1
Words == 1 .. NumWords
Blank == [w \in Words |-> 0]

VARIABLES
  head, tail, slot,   (* the shared memory                                 *)
  ppc, phead, pi,     (* the producer: next step, head it read, loop index *)
  cpc, chead, ci, cmd,(* the consumer: likewise, and the words it has read *)
  out,                (* the commands get() returned, in order             *)
  sent,               (* history: the put() behind each cursor             *)
  raced,              (* history: head was moved under the consumer's feet *)
  puts, clears        (* calls made, to bound the model; puts names data   *)

memory   == <<head, tail, slot>>
producer == <<ppc, phead, pi>>
consumer == <<cpc, chead, ci, cmd>>
vars == <<memory, producer, consumer, out, sent, raced, puts, clears>>

Init ==
  /\ head = 0 /\ tail = 0 /\ slot = [s \in Slots |-> Blank]
  /\ ppc = "idle" /\ phead = 0 /\ pi = 1
  /\ cpc = "idle" /\ chead = 0 /\ ci = 1 /\ cmd = Blank
  /\ out = <<>> /\ sent = <<>>
  /\ raced = FALSE
  /\ puts = 0 /\ clears = 0

SlotOf(cursor) == cursor % BufferSize
-----------------------------------------------------------------------------
(***************************************************************************)
(* The producer.                                                           *)
(***************************************************************************)
(* Mutant: drops the oldest command although there is a slot left. *)
PutCallEarly ==
  /\ ppc = "idle" /\ puts < MaxPuts
  /\ phead' = head
  /\ ppc' = IF tail - head >= BufferSize - 1 THEN "drop" ELSE "write"
  /\ pi' = 1 /\ puts' = puts + 1
  /\ UNCHANGED <<memory, consumer, out, sent, raced, clears>>

(* put() reads both cursors.  Nobody else writes tail, so it still has its *)
(* value whenever put() uses it; head may have moved.                      *)
PutCall ==
  /\ ppc = "idle" /\ puts < MaxPuts
  /\ phead' = head
  /\ ppc' = IF tail - head >= BufferSize THEN "drop" ELSE "write"
  /\ pi' = 1 /\ puts' = puts + 1
  /\ UNCHANGED <<memory, consumer, out, sent, raced, clears>>

(* Drops the oldest command.  It is a race if the consumer is inside a     *)
(* call or has moved head since put() read it.                             *)
PutDrop ==
  /\ ppc = "drop"
  /\ head' = phead + 1
  /\ raced' = (raced \/ cpc # "idle" \/ head # phead)
  /\ ppc' = "write"
  /\ UNCHANGED <<tail, slot, phead, pi, consumer, out, sent, puts, clears>>

PutWord ==
  /\ ppc = "write" /\ pi <= NumWords
  /\ slot' = [slot EXCEPT ![SlotOf(tail)][pi] = puts]
  /\ pi' = pi + 1
  /\ UNCHANGED <<head, tail, ppc, phead, consumer, out, sent, raced, puts, clears>>

(* Mutant: publishes the command before its positions are written. *)
PutTailEarly ==
  /\ ppc = "write" /\ pi > 1
  /\ tail' = tail + 1
  /\ sent' = Append(sent, puts)
  /\ ppc' = "idle"
  /\ UNCHANGED <<head, slot, phead, pi, consumer, out, raced, puts, clears>>

PutTail ==
  /\ ppc = "write" /\ pi > NumWords
  /\ tail' = tail + 1
  /\ sent' = Append(sent, puts)
  /\ ppc' = "idle"
  /\ UNCHANGED <<head, slot, phead, pi, consumer, out, raced, puts, clears>>

(* put() raises on a value that is no number, or the producer dies and its *)
(* successor attaches to the queue as it was left.                         *)
PutAbandoned ==
  /\ ppc # "idle"
  /\ ppc' = "idle"
  /\ UNCHANGED <<memory, phead, pi, consumer, out, sent, raced, puts, clears>>

(* clear() called by the producer. *)
ProducerClear ==
  /\ ppc = "idle" /\ clears < MaxClears
  /\ head' = tail
  /\ raced' = (raced \/ cpc # "idle")
  /\ clears' = clears + 1
  /\ UNCHANGED <<tail, slot, producer, consumer, out, sent, puts>>
-----------------------------------------------------------------------------
(***************************************************************************)
(* The consumer.                                                           *)
(***************************************************************************)
(* get() or peek() reads head, then tail. *)
GetHead ==
  /\ cpc = "idle"
  /\ chead' = head
  /\ \/ cpc' = "get_tail" /\ Len(out) < MaxGets
     \/ cpc' = "peek_tail"
  /\ UNCHANGED <<memory, producer, ci, cmd, out, sent, raced, puts, clears>>

(* Mutant: takes a command from an empty queue. *)
GetTailUnchecked ==
  /\ cpc \in {"get_tail", "peek_tail"}
  /\ cpc' = IF cpc = "get_tail" THEN "get" ELSE "peek"
  /\ ci' = 1 /\ cmd' = Blank
  /\ UNCHANGED <<memory, producer, chead, out, sent, raced, puts, clears>>

GetTail ==
  /\ cpc \in {"get_tail", "peek_tail"}
  /\ \/ /\ chead >= tail
        /\ cpc' = "idle" /\ UNCHANGED <<ci, cmd>>
     \/ /\ chead < tail
        /\ cpc' = IF cpc = "get_tail" THEN "get" ELSE "peek"
        /\ ci' = 1 /\ cmd' = Blank
  /\ UNCHANGED <<memory, producer, chead, out, sent, raced, puts, clears>>

GetWord ==
  /\ cpc \in {"get", "peek"} /\ ci <= NumWords
  /\ cmd' = [cmd EXCEPT ![ci] = slot[SlotOf(chead)][ci]]
  /\ ci' = ci + 1
  /\ UNCHANGED <<memory, producer, cpc, chead, out, sent, raced, puts, clears>>

(* Mutant: skips a command. *)
GetAdvanceTwo ==
  /\ cpc = "get" /\ ci > NumWords
  /\ head' = chead + 2
  /\ out' = Append(out, cmd)
  /\ cpc' = "idle"
  /\ UNCHANGED <<tail, slot, producer, chead, ci, cmd, sent, raced, puts, clears>>

GetAdvance ==
  /\ cpc = "get" /\ ci > NumWords
  /\ head' = chead + 1
  /\ out' = Append(out, cmd)
  /\ cpc' = "idle"
  /\ UNCHANGED <<tail, slot, producer, chead, ci, cmd, sent, raced, puts, clears>>

(* peek() leaves the command in the queue. *)
PeekReturn ==
  /\ cpc = "peek" /\ ci > NumWords
  /\ cpc' = "idle"
  /\ UNCHANGED <<memory, producer, chead, ci, cmd, out, sent, raced, puts, clears>>

(* clear() called by the consumer reads tail, then moves head there. *)
ClearTail ==
  /\ cpc = "idle" /\ clears < MaxClears
  /\ chead' = tail
  /\ cpc' = "clear"
  /\ clears' = clears + 1
  /\ UNCHANGED <<memory, producer, ci, cmd, out, sent, raced, puts>>

ClearHead ==
  /\ cpc = "clear"
  /\ head' = chead
  /\ cpc' = "idle"
  /\ UNCHANGED <<tail, slot, producer, chead, ci, cmd, out, sent, raced, puts,
                 clears>>
-----------------------------------------------------------------------------
Producer ==
  \/ PutCall \/ PutDrop \/ PutWord \/ PutTail \/ PutAbandoned \/ ProducerClear

Consumer ==
  \/ GetHead \/ GetTail \/ GetWord \/ GetAdvance \/ PeekReturn
  \/ ClearTail \/ ClearHead

Next == Producer \/ Consumer

Spec == Init /\ [][Next]_vars
-----------------------------------------------------------------------------
(***************************************************************************)
(* Properties.                                                             *)
(***************************************************************************)
(* The values each variable takes. *)
TypeOK ==
  /\ head \in Nat /\ tail \in Nat /\ slot \in [Slots -> [Words -> Nat]]
  /\ ppc \in {"idle", "drop", "write"} /\ phead \in Nat /\ pi \in Nat \ {0}
  /\ cpc \in {"idle", "get_tail", "peek_tail", "get", "peek", "clear"}
  /\ chead \in Nat /\ ci \in Nat \ {0} /\ cmd \in [Words -> Nat]
  /\ out \in Seq([Words -> Nat]) /\ sent \in Seq(Nat)
  /\ raced \in BOOLEAN /\ puts \in Nat /\ clears \in Nat

(* Whatever the two processes do to the cursors without a lock, head never *)
(* passes tail: no command is taken that was not put, and qsize() never    *)
(* needs the max(0, ...) it has.                                           *)
CursorsOrdered == head <= tail

Whole(c) == \A w \in Words : c[w] = c[1]

(* First in, first out: the commands get() returns are whole and each was  *)
(* put after the one before.                                               *)
Fifo ==
  /\ \A j \in 1 .. Len(out) : Whole(out[j])
  /\ \A j \in 1 .. Len(out) - 1 : out[j][1] < out[j + 1][1]

(* As long as the producer has not moved head while the consumer was       *)
(* inside a call (by dropping the oldest command or by clear()), the queue *)
(* is first in, first out.                                                 *)
FifoUnlessRaced == ~raced => Fifo

(* The commands from head to tail, each in one piece; those that a clear() *)
(* of the consumer read as the last ones are about to go.                  *)
Command(n) == [w \in Words |-> n]
Held == [i \in 1 .. tail - head |-> Command(sent[head + i])]

Queue == INSTANCE BoundedQueue
  WITH Commands <- {Command(n) : n \in 1 .. MaxPuts}, Capacity <- BufferSize,
       queue <- Held, delivered <- out,
       doomed <- IF cpc = "clear" THEN chead - head ELSE 0

(* Until then, word by word and cursor by cursor, the two processes do     *)
(* what a bounded queue does in one step: no command is lost but the       *)
(* oldest of a full queue, none is returned twice, in parts or in another  *)
(* order, and clear() removes no command that was put after it was called. *)
QueueSpec == Queue!Init /\ [][~raced' => Queue!Next]_(Queue!vars)
=============================================================================
