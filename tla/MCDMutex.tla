------------------------------ MODULE MCDMutex ------------------------------
(* Instances of DMutex for TLC. *)
EXTENDS DMutex, TLC

CONSTANTS m1, m2, server   \* server: a process that runs both DMutexes

OwnProcess == [m \in Mutexes |-> m]        \* every DMutex in a process of its own
OneProcess == [m \in Mutexes |-> server]   \* both of them in one process

\* Either way the DMutexes are interchangeable.
Swap == Permutations({m1, m2})
=============================================================================
