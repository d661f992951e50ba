---------------------------- MODULE BoundedQueue ----------------------------
(***************************************************************************)
(* What the shared-memory queue is to its producer and its consumer: a     *)
(* sequence of at most Capacity commands, the oldest first, where put() on *)
(* a full queue drops the oldest (ipc/queue.py).  It keeps them in one     *)
(* piece, and every operation is one step; but the consumer's clear()      *)
(* removes what was there when it was called.                              *)
(***************************************************************************)
EXTENDS Integers, Sequences

CONSTANTS Commands, Capacity

VARIABLES
  queue,      (* the commands in the queue                                 *)
  delivered,  (* the commands get() has returned                           *)
  doomed,     (* how many a clear() under way is about to remove           *)
  clears      (* how often clear() was called: nothing else empties it     *)

vars == <<queue, delivered, doomed, clears>>

Init == queue = <<>> /\ delivered = <<>> /\ doomed = 0 /\ clears = 0

Put ==
  /\ Len(queue) < Capacity
  /\ \E c \in Commands : queue' = Append(queue, c)
  /\ UNCHANGED <<delivered, doomed, clears>>

MakeRoom ==
  /\ Len(queue) = Capacity
  /\ queue' = Tail(queue)
  /\ UNCHANGED <<delivered, doomed, clears>>

Get ==
  /\ queue # <<>>
  /\ delivered' = Append(delivered, Head(queue))
  /\ queue' = Tail(queue)
  /\ UNCHANGED <<doomed, clears>>

Clear ==
  /\ queue' = <<>>
  /\ clears' = clears + 1
  /\ UNCHANGED <<delivered, doomed>>

ClearCall ==
  /\ doomed' = Len(queue)
  /\ clears' = clears + 1
  /\ UNCHANGED <<queue, delivered>>

ClearDone ==
  /\ queue' = SubSeq(queue, doomed + 1, Len(queue))
  /\ doomed' = 0
  /\ UNCHANGED <<delivered, clears>>

Next == Put \/ MakeRoom \/ Get \/ Clear \/ ClearCall \/ ClearDone

Spec == Init /\ [][Next]_vars
=============================================================================
