-------------------------- MODULE SnapshotRegister --------------------------
(***************************************************************************)
(* What a segment of the shared state is to its readers                    *)
(* (ipc/shared_state.py): a register whose versions are published one by   *)
(* one, each in one step, while the writers are busy.  A reader looks at   *)
(* it in one step; if it looked while nobody was busy, what it returns is  *)
(* the version of that moment.  It looks again only when a version was     *)
(* published meanwhile or somebody is busy; after the last attempt it      *)
(* returns any data, and so does a reader that looked while somebody was   *)
(* busy.  The number of the version is right in either case.               *)
(*                                                                         *)
(* The arm's process does not occur: its death changes nothing here.       *)
(***************************************************************************)
EXTENDS Integers, Sequences

CONSTANTS
  Readers, Segments, NoSegment,
  Values,     (* what a version may be                                     *)
  Anything,   (* what a reader may get that looked at a bad moment         *)
  First,      (* what a segment holds before the first version             *)
  NoResult,
  Attempts    (* how often a reader looks                                  *)

VARIABLES
  busy,       (* each segment: the writers are at it, or left it unfinished*)
  log,        (* each segment: its versions; their number is the tick      *)
  at,         (* each reader's segment                                     *)
  look, left, (* each reader: how it looked, at which version; attempts    *)
              (*   left                                                    *)
  result      (* what each reader's last call returned                     *)

vars == <<busy, log, at, look, left, result>>

NoLook == [how |-> "none", tick |-> 0]
ToLook == [how |-> "begun", tick |-> 0]

Version(s, tick) == IF tick = 0 THEN First ELSE log[s][tick]

Init ==
  /\ busy = [s \in Segments |-> FALSE]
  /\ log = [s \in Segments |-> <<>>]
  /\ at = [r \in Readers |-> NoSegment]
  /\ look = [r \in Readers |-> NoLook]
  /\ left = [r \in Readers |-> Attempts]
  /\ result = [r \in Readers |-> NoResult]
-----------------------------------------------------------------------------
Hold(s) == busy' = [busy EXCEPT ![s] = TRUE] /\ UNCHANGED <<log, at, look, left, result>>

Free(s) == busy' = [busy EXCEPT ![s] = FALSE] /\ UNCHANGED <<log, at, look, left, result>>

Publish(s) ==
  /\ busy[s]
  /\ \E v \in Values : log' = [log EXCEPT ![s] = Append(@, v)]
  /\ UNCHANGED <<busy, at, look, left, result>>
-----------------------------------------------------------------------------
Attach(r, s) ==
  /\ look[r] = NoLook /\ at[r] = NoSegment
  /\ at' = [at EXCEPT ![r] = s]
  /\ UNCHANGED <<busy, log, look, left, result>>

Detach(r) ==
  /\ look[r] = NoLook
  /\ at' = [at EXCEPT ![r] = NoSegment]
  /\ left' = [left EXCEPT ![r] = Attempts]
  /\ result' = [result EXCEPT ![r] = NoResult]
  /\ UNCHANGED <<busy, log, look>>

Begin(r) ==
  /\ look[r] = NoLook /\ at[r] # NoSegment
  /\ look' = [look EXCEPT ![r] = ToLook]
  /\ left' = [left EXCEPT ![r] = Attempts]
  /\ UNCHANGED <<busy, log, at, result>>

Look(r) ==
  /\ look[r] = ToLook
  /\ look' = [look EXCEPT ![r] = [how  |-> IF busy[at[r]] THEN "dirty" ELSE "clean",
                                  tick |-> Len(log[at[r]])]]
  /\ UNCHANGED <<busy, log, at, left, result>>

Looked(r) == look[r].how \in {"clean", "dirty"}

Disturbed(r) == Len(log[at[r]]) # look[r].tick \/ busy[at[r]]

Retry(r) ==
  /\ Looked(r) /\ Disturbed(r) /\ left[r] > 1
  /\ look' = [look EXCEPT ![r] = ToLook]
  /\ left' = [left EXCEPT ![r] = @ - 1]
  /\ UNCHANGED <<busy, log, at, result>>

Returns(r, data) ==
  /\ result' = [result EXCEPT ![r] = [tick |-> look[r].tick, data |-> data]]
  /\ look' = [look EXCEPT ![r] = NoLook]
  /\ UNCHANGED <<busy, log, at>>

Return(r) ==
  /\ Looked(r)
  /\ \E data \in Anything :
       /\ look[r].how = "clean" => data = Version(at[r], look[r].tick)
       /\ Returns(r, data)
  /\ UNCHANGED left

GiveUp(r) ==
  /\ Looked(r) /\ Disturbed(r) /\ left[r] = 1
  /\ \E data \in Anything : Returns(r, data)
  /\ left' = [left EXCEPT ![r] = 0]

Next ==
  \/ \E s \in Segments : Hold(s) \/ Free(s) \/ Publish(s)
  \/ \E r \in Readers :
       \/ \E s \in Segments : Attach(r, s)
       \/ Detach(r) \/ Begin(r) \/ Look(r) \/ Retry(r) \/ Return(r) \/ GiveUp(r)

Spec == Init /\ [][Next]_vars
=============================================================================
