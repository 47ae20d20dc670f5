---------------------------- MODULE TimedEvents -----------------------------
(***************************************************************************)
(* What a queue of timed events promises to those who push events into it,   *)
(* workers and mutexes aside.  An event waits for its timeout, its function  *)
(* is called, by one thread at a time and never early, and it waits for the  *)
(* next timeout, one period after the last one, until the function returns   *)
(* false.                                                                  *)
(***************************************************************************)
EXTENDS Integers

CONSTANTS
  Events,
  Duration     \* the time to the first call, and the period

VARIABLES
  stage,       \* where each event is
  left         \* time left until its timeout; below 0, how long ago it was

vars == <<stage, left>>

Init ==
  /\ stage = [e \in Events |-> "out"]
  /\ left  = [e \in Events |-> 0]

Push(e) ==
  /\ stage[e] = "out"
  /\ stage' = [stage EXCEPT ![e] = "waiting"]
  /\ left'  = [left EXCEPT ![e] = Duration[e]]

Call(e) ==
  /\ stage[e] = "waiting" /\ left[e] <= 0
  /\ stage' = [stage EXCEPT ![e] = "running"]
  /\ UNCHANGED left

\* The function returned true.
Again(e) ==
  /\ stage[e] = "running"
  /\ stage' = [stage EXCEPT ![e] = "waiting"]
  /\ left'  = [left EXCEPT ![e] = left[e] + Duration[e]]

\* The function returned false.
Finish(e) ==
  /\ stage[e] = "running"
  /\ stage' = [stage EXCEPT ![e] = "out"]
  /\ left'  = [left EXCEPT ![e] = 0]

Tick ==
  /\ left' = [e \in Events |-> IF stage[e] # "out" THEN left[e] - 1 ELSE left[e]]
  /\ UNCHANGED stage

Next ==
  \/ \E e \in Events : Push(e) \/ Call(e) \/ Again(e) \/ Finish(e)
  \/ Tick

Spec == Init /\ [][Next]_vars
=============================================================================
