--------------------------- MODULE MCTimeoutQueue ---------------------------
(* Instances of TimeoutQueue for TLC. *)
EXTENDS TimeoutQueue

CONSTANTS w1, w2, e1, e2, e3

\* One event with a short and the others with a long timeout.
Durations == [e \in Events |-> IF e = e1 THEN 1 ELSE 2]
=============================================================================
