----------------------------- MODULE LeaseLock ------------------------------
(***************************************************************************)
(* What a distributed lock with expiry promises: a client that has the lock  *)
(* has a lease, the time for which it may rely on being the only one.  Time   *)
(* shortens the leases, a renewal prolongs one, and nothing else takes a      *)
(* client's lease away than the client itself when it gives the lock back or *)
(* dies.                                                                    *)
(***************************************************************************)
EXTENDS Naturals

CONSTANTS
  Clients,     \* who competes for the lock
  Term         \* the longest lease

VARIABLES
  held,        \* the clients that were granted the lock and have not left
  lease        \* time left to each of them; 0, the lease has run out

vars == <<held, lease>>

\* At most one client has a lease.
Leases ==
  {l \in [Clients -> 0..Term] : \A c, d \in Clients : l[c] > 0 /\ l[d] > 0 => c = d}

Init ==
  /\ held = {}
  /\ lease = [c \in Clients |-> 0]

\* A grant that came too late carries no lease.
Grant(c) ==
  /\ c \notin held
  /\ held' = held \cup {c}
  /\ lease' \in Leases
  /\ \A d \in Clients \ {c} : lease'[d] = lease[d]

\* The clients in S leave, by themselves or because they die; those who stay
\* may have their lease prolonged.
Leave(S) ==
  /\ held' = held \ S
  /\ lease' \in Leases
  /\ \A c \in Clients : IF c \in held \ S THEN lease'[c] >= lease[c] ELSE lease'[c] = 0

Tick ==
  /\ lease' = [c \in Clients |-> IF lease[c] > 0 THEN lease[c] - 1 ELSE 0]
  /\ UNCHANGED held

Next ==
  \/ \E c \in Clients : Grant(c)
  \/ \E S \in SUBSET held : Leave(S)
  \/ Tick

Spec == Init /\ [][Next]_vars
=============================================================================
