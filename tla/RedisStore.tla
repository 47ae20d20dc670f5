----------------------------- MODULE RedisStore -----------------------------
(***************************************************************************)
(* The Redis server as DBRedis (src/db-redis.cpp) uses it: one string key   *)
(* per numbered database, written with SET key value PX ms NX, read with    *)
(* EXISTS and GET, prolonged with PEXPIRE and removed with DEL.  All the    *)
(* DMutex objects of the model compete for the same key, so a database is   *)
(* just the entry it holds for that key.  The server executes a command     *)
(* atomically; commands of different connections interleave.                *)
(*                                                                         *)
(* Time is relative: an entry carries the number of clock ticks it has      *)
(* left, and Elapse is one tick.                                            *)
(*                                                                         *)
(* Definitions named X_What, here and in the other modules, are variants of  *)
(* X with a bug a programmer could have made.  No specification uses them;    *)
(* they replace X when the properties are tested for their ability to fail.  *)
(***************************************************************************)
EXTENDS Naturals

CONSTANTS
  Mutexes,     \* the competing DMutex objects; value_ identifies its object
  Nobody,      \* not a value: the entry is absent
  HostCount,   \* hosts_.size(): the databases used as "hosts"
  Validity     \* lock_validity_time_ in ticks, the PX/PEXPIRE argument

ASSUME StoreAssumption ==
  /\ Nobody \notin Mutexes
  /\ HostCount \in Nat \ {0}
  /\ Validity \in Nat \ {0}

Hosts == 1..HostCount

Absent == [val |-> Nobody, ttl |-> 0]
Entry  == [val : Mutexes \cup {Nobody}, ttl : 0..Validity]
Store  == [Hosts -> Entry]

EmptyStore == [h \in Hosts |-> Absent]

Exists(db, h) == db[h].val # Nobody

\* SET key v NX, without a time to live: the code never sends it, a variant of
\* DBRedis does.
SetNx(db, h, v) ==
  IF Exists(db, h) THEN db
                   ELSE [db EXCEPT ![h] = [val |-> v, ttl |-> 0]]

\* SET key v PX Validity NX
SetNxPx(db, h, v) ==
  IF Exists(db, h) THEN db
                   ELSE [db EXCEPT ![h] = [val |-> v, ttl |-> Validity]]

\* PEXPIRE key Validity: the server prolongs whatever value the key has.
PExpire(db, h) ==
  IF Exists(db, h) THEN [db EXCEPT ![h].ttl = Validity] ELSE db

\* DEL key: the server removes whatever value the key has.
DelKey(db, h) == [db EXCEPT ![h] = Absent]

\* One tick of the server's clock: an entry whose time is up disappears, one
\* without a time to live (0) stays.
Elapse(db) ==
  [h \in Hosts |-> CASE db[h].ttl = 0 -> db[h]
                     [] db[h].ttl = 1 -> Absent
                     [] OTHER -> [val |-> db[h].val, ttl |-> db[h].ttl - 1]]
=============================================================================
