--------------------------- MODULE ObservationLog ---------------------------
(***************************************************************************)
(* What the ring buffer is to its readers (ipc/ring_buffer.py): the log of *)
(* the observations that were put.  get() returns the newest one, in one   *)
(* step; get_last_k() sets out for as many as there are and as fit in, at  *)
(* most, takes them from the newest one of its call backwards, one by one, *)
(* and comes back with fewer only when the writer is so far ahead that it  *)
(* needs the slot.  get() misses only when something new was put since it  *)
(* looked.                                                                 *)
(*                                                                         *)
(* What a call returns during which the log was cleared, or that missed    *)
(* too often, is void: nothing is promised of it.                          *)
(***************************************************************************)
EXTENDS Integers, Sequences

CONSTANTS
  Readers,
  Values,     (* what an observation may be                                *)
  Size,       (* observations the buffer has room for                      *)
  Attempts    (* how often get() may miss                                  *)

VARIABLES
  log,        (* the observations                                          *)
  reader      (* each reader's call, the tick it is at, how often it       *)
              (*   missed, how many it still wants, its result             *)

vars == <<log, reader>>

(* A call: none, with what the last one returned; a get() that missed so   *)
(* often, at a tick or not yet at one; a get_last_k(); or one void.        *)
State(call, at, missed, want, result) ==
  [call |-> call, at |-> at, missed |-> missed, want |-> want, result |-> result]

Returned(result)         == State("none", 0, 0, 0, result)
Getting(at, missed)      == State("get", at, missed, 0, <<>>)
Taking(at, want, result) == State("last", at, 0, want, result)
Void                     == State("void", 0, 0, 0, <<>>)

Init == log = <<>> /\ reader = [r \in Readers |-> Returned(<<>>)]

Put ==
  /\ \E v \in Values : log' = Append(log, v)
  /\ UNCHANGED reader

Clear == log' = <<>> /\ reader' = [r \in Readers |-> Void]
-----------------------------------------------------------------------------
Becomes(r, state) == reader' = [reader EXCEPT ![r] = state] /\ UNCHANGED log

InCall(r, call) == reader[r].call = call

Free(r) == InCall(r, "none") \/ InCall(r, "void")

BeginGet(r) == Free(r) /\ Becomes(r, Getting(0, 0))

Look(r) ==
  /\ InCall(r, "get") /\ log # <<>>
  /\ Becomes(r, Getting(Len(log), reader[r].missed))

Nothing(r) == InCall(r, "get") /\ log = <<>> /\ Becomes(r, Returned(<<>>))

Entry(t) == [tick |-> t, data |-> log[t]]

Get(r) ==
  /\ InCall(r, "get") /\ log # <<>>
  /\ Becomes(r, Returned(<<Entry(Len(log))>>))

Miss(r) ==
  /\ InCall(r, "get") /\ reader[r].at > 0 /\ Len(log) > reader[r].at
  /\ Becomes(r, IF reader[r].missed + 1 < Attempts
                THEN Getting(0, reader[r].missed + 1) ELSE Void)
-----------------------------------------------------------------------------
BeginLast(r) ==
  /\ Free(r)
  /\ \E want \in 0 .. Size :
       want <= Len(log) /\ Becomes(r, Taking(Len(log), want, <<>>))

Take(r) ==
  /\ InCall(r, "last") /\ reader[r].want > 0
  /\ Becomes(r, Taking(reader[r].at - 1, reader[r].want - 1,
                       Append(reader[r].result, Entry(reader[r].at))))

Stop(r) ==
  /\ InCall(r, "last")
  /\ reader[r].want = 0 \/ Len(log) + 1 >= reader[r].at + Size
  /\ Becomes(r, Returned(reader[r].result))

Next ==
  \/ Put \/ Clear
  \/ \E r \in Readers :
       \/ BeginGet(r) \/ Look(r) \/ Nothing(r) \/ Get(r) \/ Miss(r)
       \/ BeginLast(r) \/ Take(r) \/ Stop(r)

Spec == Init /\ [][Next]_vars
=============================================================================
