---------------------------- MODULE DMutexProofs ----------------------------
(***************************************************************************)
(* Proofs about module DMutex, for any number of DMutexes, processes, hosts  *)
(* and events, any validity time and any faults.                            *)
(***************************************************************************)
EXTENDS DMutex, FiniteSetTheorems, TLAPS

-----------------------------------------------------------------------------
(***************************************************************************)
(* Type correctness.                                                        *)
(***************************************************************************)

\* The server commands turn a store into a store.
LEMMA StoreTypes ==
  ASSUME NEW db \in Store, NEW h, NEW v \in Mutexes
  PROVE  /\ SetNxPx(db, h, v) \in Store
         /\ PExpire(db, h) \in Store
         /\ DelKey(db, h) \in Store
<1>0. /\ Absent \in Entry
      /\ [val |-> v, ttl |-> Validity] \in Entry
  BY StoreAssumption DEF Absent, Entry
<1>1. SetNxPx(db, h, v) \in Store
  BY <1>0 DEF SetNxPx, Store
<1>2. PExpire(db, h) \in Store
  <2>1. CASE h \in Hosts
    <3>1. db[h] \in Entry
      BY <2>1 DEF Store
    <3>2. [db[h] EXCEPT !.ttl = Validity] \in Entry
      BY <3>1, StoreAssumption DEF Entry
    <3> QED BY <3>2 DEF PExpire, Store
  <2>2. CASE h \notin Hosts
    BY <2>2 DEF PExpire, Store
  <2> QED BY <2>1, <2>2
<1>3. DelKey(db, h) \in Store
  BY <1>0 DEF DelKey, Store
<1> QED BY <1>1, <1>2, <1>3

LEMMA ElapseTypes ==
  ASSUME NEW db \in Store
  PROVE  Elapse(db) \in Store
<1> SUFFICES ASSUME NEW h \in Hosts
             PROVE  (CASE db[h].ttl = 0 -> db[h]
                       [] db[h].ttl = 1 -> Absent
                       [] OTHER -> [val |-> db[h].val, ttl |-> db[h].ttl - 1]) \in Entry
  BY DEF Elapse, Store
<1>1. db[h] \in Entry
  BY DEF Store
<1> QED BY <1>1, StoreAssumption DEF Entry, Absent

\* A command leaves the client's state well typed, whatever becomes of it.
LEMMA CommandTypes ==
  ASSUME RedisTypeOK, NEW m \in Mutexes, NEW fate, NEW after \in Store,
         Command(m, fate, after)
  PROVE  keys' \in Store /\ conn' \in [Mutexes -> BOOLEAN] /\ faults' \in 0..MaxFaults
BY ClientAssumption DEF RedisTypeOK, Command

\* Leaving a call, and ending a process, preserve types.
LEMMA LeaveTypes ==
  ASSUME TypeOK, NEW m \in Mutexes, NEW l \in UserPC, Leave(m, l)
  PROVE  /\ pc' \in [Mutexes -> UserPC]
         /\ mtx' \in [Processes -> Threads \cup {Nobody}]
         /\ todo' \in [Mutexes -> SUBSET Hosts]
         /\ cur' \in [Mutexes -> Hosts]
         /\ age' \in [Mutexes -> 0..AgeCap]
<1>1. 0 \in 0..AgeCap /\ 1 \in Hosts
  BY StoreAssumption, MutexAssumption DEF AgeCap, Hosts
<1> QED BY <1>1 DEF TypeOK, Leave, Goto, Release

LEMMA CrashTypes ==
  ASSUME TypeOK, NEW p \in Processes, Crash(p)
  PROVE  /\ pc' \in [Mutexes -> UserPC]
         /\ kpc' \in [Keepers -> KeepPC]
         /\ mtx' \in [Processes -> Threads \cup {Nobody}]
BY DEF TypeOK, Crash, UserPC, KeepPC

LEMMA ThreadTypes ==
  /\ \A m \in Mutexes : User(m) \in Threads
  /\ \A k \in Keepers : k \in Threads /\ k[1] \in Mutexes /\ ProcOf[k[1]] \in Processes
BY MutexAssumption DEF User, Threads, Keepers, Slots

\* How UnlockAll goes on preserves types.
LEMMA UnlockTypes ==
  ASSUME TypeOK, NEW m \in Mutexes, NEW res, NEW l \in UserPC, UnlockGoesOn(m, res, l)
  PROVE  /\ pc' \in [Mutexes -> UserPC]
         /\ mtx' \in [Processes -> Threads \cup {Nobody}]
         /\ todo' \in [Mutexes -> SUBSET Hosts]
         /\ cur' \in [Mutexes -> Hosts]
         /\ age' \in [Mutexes -> 0..AgeCap]
         /\ wake' \in [Mutexes -> Nat]
         /\ UNCHANGED <<call, have_lock_num, since, flagVars, keepVars>>
<1>0. UNCHANGED <<call, have_lock_num, since, flagVars, keepVars>>
  BY DEF UnlockGoesOn
<1>1. CASE res = "throw"
  <2>1. Leave(m, "idle") /\ UNCHANGED wake
    BY <1>1 DEF UnlockGoesOn, Throw
  <2> QED BY <1>0, <2>1, LeaveTypes DEF UserPC, TypeOK
<1>2. CASE res = "go"
  <2>1. Goto(m, l) /\ UNCHANGED <<mtx, cur, wake, todo, age>>
    BY <1>2 DEF UnlockGoesOn
  <2> QED BY <1>0, <2>1 DEF TypeOK, Goto
<1>3. CASE res # "throw" /\ res # "go"
  <2>0. UnlockNext(m)
    BY <1>3 DEF UnlockGoesOn
  <2>1. CASE cur[m] < HostCount
    <3>1. cur[m] + 1 \in Hosts
      BY <2>1, StoreAssumption DEF TypeOK, Hosts
    <3> QED BY <1>0, <2>0, <2>1, <3>1 DEF TypeOK, UnlockNext, Goto, UserPC
  <2>2. CASE ~(cur[m] < HostCount)
    <3>1. Leave(m, Resume(m)) /\ wake' = [wake EXCEPT ![m] = Pause(m)]
      BY <2>0, <2>2 DEF UnlockNext
    <3>2. Resume(m) \in UserPC
      BY DEF Resume, UserPC
    <3>3. Pause(m) \in Nat
      BY StoreAssumption, MutexAssumption DEF Pause, LockPause
    <3> QED BY <1>0, <3>1, <3>2, <3>3, LeaveTypes DEF TypeOK
  <2> QED BY <2>1, <2>2
<1> QED BY <1>1, <1>2, <1>3

LEMMA UserTypes ==
  ASSUME TypeOK, NEW m \in Mutexes, UserCall(m) \/ UserStep(m)
  PROVE  TypeOK'
<1> USE StoreAssumption, ClientAssumption, MutexAssumption
<1>0. /\ RedisTypeOK
      /\ keys \in Store /\ 0 \in 0..AgeCap /\ 0 \in 0..Expire
      /\ clock' \in 0..Horizon
  BY DEF TypeOK, RedisTypeOK, AgeCap, UserCall, UserStep
<1>1. ASSUME NEW c \in Calls, CallLock(m, c) PROVE TypeOK'
  BY <1>0, <1>1 DEF TypeOK, RedisTypeOK, CallLock, BeginAttempt, Goto, UserPC, redisVars,
     flagVars, keepVars
<1>2. CASE CallUnlock(m)
  BY <1>0, <1>2 DEF TypeOK, RedisTypeOK, CallUnlock, Goto, UserPC, redisVars,
     flagVars, keepVars
<1>3. ASSUME NEW h \in Hosts, Select(m, h) PROVE TypeOK'
  <2>1. PICK fate : Command(m, fate, keys)
    BY <1>3 DEF Select
  <2>2. keys' \in Store /\ conn' \in [Mutexes -> BOOLEAN] /\ faults' \in 0..MaxFaults
    BY <1>0, <2>1, CommandTypes
  <2>3. sel' \in [Mutexes -> 0..HostCount] /\ pc' \in [Mutexes -> UserPC]
    BY <1>3 DEF Select, TypeOK, RedisTypeOK, Goto, UserPC, Hosts
  <2>4. mtx' \in [Processes -> Threads \cup {Nobody}]
    BY <1>3, ThreadTypes DEF Select, Acquire, TypeOK
  <2> QED BY <1>0, <1>3, <2>2, <2>3, <2>4 DEF TypeOK, RedisTypeOK, Select, flagVars, keepVars
<1>4. CASE Set(m)
  <2>1. PICK fate : Command(m, fate, SetNxPx(keys, sel[m], m))
    BY <1>4 DEF Set, SetKeyValue
  <2>2. keys' \in Store /\ conn' \in [Mutexes -> BOOLEAN] /\ faults' \in 0..MaxFaults
    BY <1>0, <2>1, CommandTypes, StoreTypes
  <2>3. have_lock_num' \in [Mutexes -> Seq(Hosts)] /\ pc' \in [Mutexes -> UserPC]
    <3>1. cur[m] \in Hosts /\ have_lock_num[m] \in Seq(Hosts)
      BY DEF TypeOK
    <3>2. Append(have_lock_num[m], cur[m]) \in Seq(Hosts)
      BY <3>1
    <3> QED BY <1>4, <3>2 DEF Set, TypeOK, Goto, UserPC
  <2>4. mtx' \in [Processes -> Threads \cup {Nobody}]
    BY <1>4, ThreadTypes DEF Set, Release, TypeOK
  <2> QED BY <1>0, <1>4, <2>2, <2>3, <2>4 DEF TypeOK, RedisTypeOK, Set, flagVars, keepVars
<1>5. CASE Count(m)
  BY <1>0, <1>5 DEF TypeOK, RedisTypeOK, Count, Goto, UserPC, redisVars, flagVars, keepVars
<1>6. CASE Grant(m)
  <2>1. Period \in Int /\ "queued" \in KeepPC
    BY DEF Period, KeepPC
  <2>2. kpc' \in [Keepers -> KeepPC]
    BY <1>6, <2>1 DEF TypeOK, Grant
  <2>3. due' \in [Keepers -> Int]
    BY <1>6, <2>1 DEF TypeOK, Grant
  <2> QED BY <1>0, <1>6, <2>2, <2>3 DEF TypeOK, RedisTypeOK, Grant, Goto, UserPC, redisVars
<1>7. CASE Relock(m) \/ NotConnected(m)
  <2>1. Leave(m, "idle") /\ UNCHANGED <<have_lock_num, wake, since, call>>
        /\ UNCHANGED <<redisVars, flagVars, keepVars>>
    BY <1>7 DEF Relock, NotConnected, Throw
  <2> QED BY <1>0, <2>1, LeaveTypes DEF TypeOK, RedisTypeOK, UserPC, redisVars, flagVars, keepVars
<1>8. CASE UnlockStart(m)
  <2>1. mtx' \in [Processes -> Threads \cup {Nobody}]
    BY <1>8, ThreadTypes DEF UnlockStart, Acquire, TypeOK
  <2>2. 1 \in Hosts
    BY DEF Hosts
  <2> QED BY <1>0, <1>8, <2>1, <2>2 DEF TypeOK, RedisTypeOK, UnlockStart, Goto, UserPC,
             redisVars, keepVars
<1>9. CASE UnlockSelect(m)
  <2>1. PICK fate, res : Command(m, fate, keys) /\ UnlockGoesOn(m, res, "uexists")
    BY <1>9 DEF UnlockSelect
  <2>2. keys' \in Store /\ conn' \in [Mutexes -> BOOLEAN] /\ faults' \in 0..MaxFaults
    BY <1>0, <2>1, CommandTypes
  <2>3. sel' \in [Mutexes -> 0..HostCount]
    BY <1>9 DEF UnlockSelect, TypeOK, RedisTypeOK, Hosts
  <2>4. "uexists" \in UserPC
    BY DEF UserPC
  <2> QED BY <1>0, <2>1, <2>2, <2>3, <2>4, UnlockTypes DEF TypeOK, RedisTypeOK, flagVars, keepVars
<1>10. CASE UnlockExists(m) \/ UnlockGet(m) \/ UnlockDel(m)
  <2>0. {"uget", "udel", "uselect"} \subseteq UserPC
    BY DEF UserPC
  <2>1. \E fate, res, l, after : /\ l \in UserPC /\ after \in Store
                                 /\ Command(m, fate, after)
                                 /\ UnlockGoesOn(m, res, l)
    <3>1. CASE UnlockExists(m)
      BY <1>0, <2>0, <3>1 DEF UnlockExists
    <3>2. CASE UnlockGet(m)
      BY <1>0, <2>0, <3>2 DEF UnlockGet
    <3>3. CASE UnlockDel(m)
      <4>1. DelKey(keys, sel[m]) \in Store
        BY <1>0, StoreTypes
      <4> QED BY <2>0, <3>3, <4>1 DEF UnlockDel
    <3> QED BY <1>10, <3>1, <3>2, <3>3
  <2>2. keys' \in Store /\ conn' \in [Mutexes -> BOOLEAN] /\ faults' \in 0..MaxFaults
    BY <1>0, <2>1, CommandTypes
  <2>3. UNCHANGED sel
    BY <1>10 DEF UnlockExists, UnlockGet, UnlockDel
  <2> QED BY <1>0, <2>1, <2>2, <2>3, UnlockTypes DEF TypeOK, RedisTypeOK, flagVars, keepVars
<1>11. CASE Retry(m)
  <2>1. /\ todo' \in [Mutexes -> SUBSET Hosts] /\ age' \in [Mutexes -> 0..AgeCap]
        /\ have_lock_num' \in [Mutexes -> Seq(Hosts)] /\ pc' \in [Mutexes -> UserPC]
    BY <1>0, <1>11 DEF TypeOK, Retry, BeginAttempt, Goto, UserPC
  <2> QED BY <1>0, <1>11, <2>1 DEF TypeOK, RedisTypeOK, Retry, redisVars, flagVars, keepVars
<1>12. CASE GiveUp(m)
  BY <1>0, <1>12 DEF TypeOK, RedisTypeOK, GiveUp, Goto, UserPC, redisVars, flagVars, keepVars
<1> QED BY <1>1, <1>2, <1>3, <1>4, <1>5, <1>6, <1>7, <1>8, <1>9, <1>10, <1>11, <1>12
           DEF UserCall, UserStep

LEMMA KeepTypes ==
  ASSUME TypeOK, NEW k \in Keepers, KeepStep(k)
  PROVE  TypeOK'
<1> USE StoreAssumption, ClientAssumption, MutexAssumption
<1>0. /\ RedisTypeOK /\ keys \in Store
      /\ clock' \in 0..Horizon
      /\ k[1] \in Mutexes /\ ProcOf[k[1]] \in Processes /\ k \in Threads
      /\ Period \in Int /\ kidx[k] \in Nat
  BY ThreadTypes DEF TypeOK, RedisTypeOK, KeepStep, Period
<1>1. CASE KeepStart(k)
  <2>0. {"free", "queued", "check"} \subseteq KeepPC /\ due[k] + Period \in Int
    BY <1>0 DEF KeepPC, TypeOK
  <2>1. /\ kpc' \in [Keepers -> KeepPC] /\ kidx' \in [Keepers -> Nat]
        /\ due' \in [Keepers -> Int]
    <3>1. CASE KeepGoto(k, "free") /\ due' = [due EXCEPT ![k] = 0] /\ UNCHANGED kidx
      BY <2>0, <3>1 DEF TypeOK, KeepGoto
    <3>2. CASE Requeue(k)
      BY <2>0, <3>2 DEF TypeOK, KeepGoto, Requeue
    <3>3. CASE KeepGoto(k, "check") /\ UNCHANGED <<kidx, due>>
      BY <2>0, <3>3 DEF TypeOK, KeepGoto
    <3> QED BY <1>1, <3>1, <3>2, <3>3 DEF KeepStart
  <2> QED BY <1>0, <1>1, <2>1 DEF TypeOK, RedisTypeOK, KeepStart, redisVars, userVars, flagVars
<1>2. CASE KeepCheck(k)
  <2>0. {"lock", "queued"} \subseteq KeepPC /\ due[k] + Period \in Int
    BY <1>0 DEF KeepPC, TypeOK
  <2>1. /\ kpc' \in [Keepers -> KeepPC] /\ kidx' \in [Keepers -> Nat]
        /\ due' \in [Keepers -> Int] /\ mtx' \in [Processes -> Threads \cup {Nobody}]
    <3>1. CASE KeepGoto(k, "lock") /\ UNCHANGED <<mtx, kidx, due>>
      BY <2>0, <3>1 DEF TypeOK, KeepGoto
    <3>2. CASE Requeue(k) /\ Release(k)
      BY <2>0, <3>2 DEF TypeOK, KeepGoto, Requeue, Release
    <3> QED BY <1>2, <3>1, <3>2 DEF KeepCheck
  <2> QED BY <1>0, <1>2, <2>1 DEF TypeOK, RedisTypeOK, KeepCheck, redisVars, userVars, flagVars
<1>3. CASE KeepSelect(k)
  <2>1. \E fate : Command(k[1], fate, keys)
    BY <1>3 DEF KeepSelect
  <2>2. keys' \in Store /\ conn' \in [Mutexes -> BOOLEAN] /\ faults' \in 0..MaxFaults
    BY <1>0, <2>1, CommandTypes
  <2>3. /\ sel' \in [Mutexes -> 0..HostCount] /\ kpc' \in [Keepers -> KeepPC]
        /\ kidx' \in [Keepers -> Nat]
    <3>1. PICK h \in Hosts, ok \in BOOLEAN :
            /\ sel' = IF ok THEN [sel EXCEPT ![k[1]] = h] ELSE sel
            /\ KeepGoto(k, IF ok THEN "exists" ELSE "check")
            /\ kidx' = [kidx EXCEPT ![k] = IF ok THEN @ ELSE @ + 1]
      BY <1>3 DEF KeepSelect
    <3>2. sel' \in [Mutexes -> 0..HostCount]
      BY <1>0, <3>1 DEF TypeOK, RedisTypeOK, Hosts
    <3>3. kpc' \in [Keepers -> KeepPC]
      BY <3>1 DEF KeepGoto, TypeOK, KeepPC
    <3>4. kidx' \in [Keepers -> Nat]
      BY <1>0, <3>1 DEF TypeOK
    <3> QED BY <3>2, <3>3, <3>4
  <2>4. mtx' \in [Processes -> Threads \cup {Nobody}]
    BY <1>0, <1>3 DEF KeepSelect, Acquire, TypeOK
  <2> QED BY <1>0, <1>3, <2>2, <2>3, <2>4 DEF TypeOK, RedisTypeOK, KeepSelect, userVars, flagVars
<1>4. CASE KeepExists(k)
  <2>1. \E fate : Command(k[1], fate, keys)
    BY <1>4 DEF KeepExists
  <2>2. keys' \in Store /\ conn' \in [Mutexes -> BOOLEAN] /\ faults' \in 0..MaxFaults
    BY <1>0, <2>1, CommandTypes
  <2>3. /\ pc' \in [Mutexes -> UserPC] /\ kpc' \in [Keepers -> KeepPC]
        /\ mtx' \in [Processes -> Threads \cup {Nobody}]
    <3>1. CASE Crash(ProcOf[k[1]])
      BY <1>0, <3>1, CrashTypes
    <3>2. CASE (KeepGoto(k, "set") \/ KeepGoto(k, "get")) /\ UNCHANGED <<pc, mtx>>
      BY <3>2 DEF KeepGoto, KeepPC, TypeOK
    <3> QED BY <1>4, <3>1, <3>2 DEF KeepExists
  <2> QED BY <1>0, <1>4, <2>2, <2>3 DEF TypeOK, RedisTypeOK, KeepExists, flagVars
<1>5. CASE KeepSet(k)
  <2>1. PICK fate : Command(k[1], fate, SetNxPx(keys, sel[k[1]], k[1]))
    BY <1>5 DEF KeepSet, SetKeyValue
  <2>2. keys' \in Store /\ conn' \in [Mutexes -> BOOLEAN] /\ faults' \in 0..MaxFaults
    BY <1>0, <2>1, CommandTypes, StoreTypes
  <2>3. /\ kpc' \in [Keepers -> KeepPC] /\ kidx' \in [Keepers -> Nat]
        /\ mtx' \in [Processes -> Threads \cup {Nobody}]
    BY <1>0, <1>5 DEF KeepSet, KeepLoop, KeepGoto, Release, TypeOK, KeepPC
  <2> QED BY <1>0, <1>5, <2>2, <2>3 DEF TypeOK, RedisTypeOK, KeepSet, userVars, flagVars
<1>6. CASE KeepGet(k)
  <2>1. \E fate : Command(k[1], fate, keys)
    BY <1>6 DEF KeepGet
  <2>2. keys' \in Store /\ conn' \in [Mutexes -> BOOLEAN] /\ faults' \in 0..MaxFaults
    BY <1>0, <2>1, CommandTypes
  <2>3. /\ pc' \in [Mutexes -> UserPC] /\ kpc' \in [Keepers -> KeepPC]
        /\ kidx' \in [Keepers -> Nat]
        /\ mtx' \in [Processes -> Threads \cup {Nobody}]
    <3>1. CASE Crash(ProcOf[k[1]]) /\ UNCHANGED kidx
      BY <1>0, <3>1, CrashTypes DEF TypeOK
    <3>2. CASE KeepGoto(k, "pexpire") /\ UNCHANGED <<pc, mtx, kidx>>
      BY <3>2 DEF KeepGoto, KeepPC, TypeOK
    <3>3. CASE KeepLoop(k, kidx[k]) /\ UNCHANGED pc
      BY <1>0, <3>3 DEF KeepLoop, KeepGoto, Release, KeepPC, TypeOK
    <3> QED BY <1>6, <3>1, <3>2, <3>3 DEF KeepGet
  <2> QED BY <1>0, <1>6, <2>2, <2>3 DEF TypeOK, RedisTypeOK, KeepGet, flagVars
<1>7. CASE KeepPexpire(k)
  <2>1. PICK fate : Command(k[1], fate, PExpire(keys, sel[k[1]]))
    BY <1>7 DEF KeepPexpire
  <2>2. keys' \in Store /\ conn' \in [Mutexes -> BOOLEAN] /\ faults' \in 0..MaxFaults
    BY <1>0, <2>1, CommandTypes, StoreTypes
  <2>3. /\ pc' \in [Mutexes -> UserPC] /\ kpc' \in [Keepers -> KeepPC]
        /\ kidx' \in [Keepers -> Nat]
        /\ mtx' \in [Processes -> Threads \cup {Nobody}]
    <3>1. CASE Crash(ProcOf[k[1]]) /\ UNCHANGED kidx
      BY <1>0, <3>1, CrashTypes DEF TypeOK
    <3>2. CASE (\E i \in {kidx[k], kidx[k] + 1} : KeepLoop(k, i)) /\ UNCHANGED pc
      BY <1>0, <3>2 DEF KeepLoop, KeepGoto, Release, KeepPC, TypeOK
    <3> QED BY <1>7, <3>1, <3>2 DEF KeepPexpire
  <2> QED BY <1>0, <1>7, <2>2, <2>3 DEF TypeOK, RedisTypeOK, KeepPexpire, flagVars
<1>8. CASE KeepThrows(k)
  BY <1>0, <1>8, CrashTypes DEF TypeOK, RedisTypeOK, KeepThrows, redisVars, flagVars
<1> QED BY <1>1, <1>2, <1>3, <1>4, <1>5, <1>6, <1>7, <1>8 DEF KeepStep

LEMMA OtherTypes ==
  ASSUME TypeOK, Mishap \/ Tick
  PROVE  TypeOK'
<1> USE StoreAssumption, ClientAssumption, MutexAssumption
<1>1. ASSUME NEW m \in Mutexes, RelockUndefined(m), UNCHANGED clock PROVE TypeOK'
  <2>1. Leave(m, "idle") /\ UNCHANGED <<have_lock_num, wake, since, call>>
        /\ UNCHANGED <<redisVars, flagVars, keepVars>>
    BY <1>1 DEF RelockUndefined, Throw
  <2> QED BY <1>1, <2>1, LeaveTypes DEF TypeOK, RedisTypeOK, UserPC, redisVars, flagVars, keepVars
<1>2. ASSUME NEW p \in Processes, Kill(p), UNCHANGED clock PROVE TypeOK'
  BY <1>2, CrashTypes, SMTT(30) DEF Kill, TypeOK, RedisTypeOK, flagVars
<1>4. ASSUME NEW m \in Mutexes, Drop(m), UNCHANGED clock PROVE TypeOK'
  BY <1>4 DEF Drop, TypeOK, RedisTypeOK, userVars, flagVars, keepVars
<1>3. CASE Tick
  <2>1. keys' \in Store
    BY <1>3, ElapseTypes DEF Tick, TypeOK, RedisTypeOK
  <2>2. age' \in [Mutexes -> 0..AgeCap]
    BY <1>3 DEF Tick, TypeOK, Plus1, AgeCap
  <2>3. wake' \in [Mutexes -> Nat]
    BY <1>3 DEF Tick, TypeOK, Minus1
  <2>4. since' \in [Mutexes -> 0..Expire]
    BY <1>3 DEF Tick, TypeOK, Plus1
  <2>5. due' \in [Keepers -> Int] /\ clock' \in 0..Horizon
    BY <1>3 DEF Tick, TypeOK, Period
  <2> QED BY <1>3, <2>1, <2>2, <2>3, <2>4, <2>5 DEF Tick, TypeOK, RedisTypeOK, flagVars
<1> QED BY <1>1, <1>2, <1>3, <1>4 DEF Mishap

\* Every variable of the user threads, the renewal events and the Redis client
\* keeps its type: in particular UnlockAll never walks past the last host and
\* have_lock_num_ holds hosts only.
THEOREM TypeCorrect == Spec => []TypeOK
<1>1. Init => TypeOK
  BY StoreAssumption, ClientAssumption, MutexAssumption
     DEF Init, RedisInit, TypeOK, RedisTypeOK, EmptyStore, Absent, Store, Entry, Hosts,
         UserPC, KeepPC, AgeCap
<1>2. TypeOK /\ [Next]_vars => TypeOK'
  <2> SUFFICES ASSUME TypeOK, [Next]_vars PROVE TypeOK'
    OBVIOUS
  <2>1. CASE UNCHANGED vars
    BY <2>1 DEF vars, redisVars, userVars, flagVars, keepVars, TypeOK, RedisTypeOK
  <2> QED BY <2>1, UserTypes, KeepTypes, OtherTypes DEF Next
<1> QED BY <1>1, <1>2, PTL DEF Spec

-----------------------------------------------------------------------------
(***************************************************************************)
(* What a step of one thread leaves alone.                                  *)
(***************************************************************************)
UserCritical == {"set", "uselect", "uexists", "uget", "udel"}
KeepCritical == {"exists", "set", "get", "pexpire"}

\* mtx_ is untouched, or thread t locks it, or gives it back if it has it.
MtxStep(t) == UNCHANGED mtx \/ Acquire(t) \/ Release(t)

\* A thread that holds mtx_ keeps it while another one locks or unlocks.
LEMMA OthersHold ==
  ASSUME TypeOK, NEW s \in Threads, NEW t \in Threads, s # t, MtxStep(s), Holds(t)
  PROVE  Holds(t)'
<1>1. ProcOf[s[1]] \in Processes /\ ProcOf[t[1]] \in Processes
  BY MutexAssumption DEF Threads
<1> QED BY <1>1, NobodyAssumption DEF TypeOK, MtxStep, Acquire, IsFree, Release, Holds

\* The end of a call, seen from outside.
LEMMA UnlockFrame ==
  ASSUME TypeOK, NEW m \in Mutexes, NEW res, NEW l, UnlockGoesOn(m, res, l)
  PROVE  /\ \A n \in Mutexes \ {m} :
              /\ pc'[n] = pc[n] /\ cur'[n] = cur[n] /\ todo'[n] = todo[n]
              /\ age'[n] = age[n]
         /\ \/ Release(User(m)) /\ pc'[m] \in {"idle", "sleep"}
            \/ UNCHANGED mtx /\ pc'[m] = "uselect"
            \/ UNCHANGED <<mtx, cur>> /\ pc'[m] = l /\ res = "go"
<1>1. CASE res = "throw"
  BY <1>1 DEF UnlockGoesOn, Throw, Leave, Goto, TypeOK
<1>2. CASE res = "go"
  BY <1>2 DEF UnlockGoesOn, Goto, TypeOK
<1>3. CASE res # "throw" /\ res # "go"
  BY <1>3 DEF UnlockGoesOn, UnlockNext, Leave, Resume, Goto, TypeOK
<1> QED BY <1>1, <1>2, <1>3

\* What the user thread of m does not touch of the others.
OnlyUser(m) ==
  /\ \A n \in Mutexes \ {m} :
       /\ pc'[n] = pc[n] /\ sel'[n] = sel[n] /\ cur'[n] = cur[n]
       /\ todo'[n] = todo[n] /\ have_lock_num'[n] = have_lock_num[n]
       /\ age'[n] = age[n] /\ call'[n] = call[n]
  /\ \A k \in Keepers : kpc'[k] \in KeepCritical => kpc[k] = kpc'[k]
  /\ MtxStep(User(m))

LEMMA UserFrame ==
  ASSUME TypeOK, NEW m \in Mutexes, UserCall(m) \/ UserStep(m) \/ RelockUndefined(m)
  PROVE  OnlyUser(m)
<1> USE DEF TypeOK, RedisTypeOK, MtxStep, KeepCritical, OnlyUser
<1>1. ASSUME NEW c \in Calls, CallLock(m, c) PROVE OnlyUser(m)
  BY <1>1 DEF CallLock, BeginAttempt, Goto, redisVars, keepVars
<1>2. CASE CallUnlock(m)
  BY <1>2 DEF CallUnlock, Goto, redisVars, keepVars
<1>3. ASSUME NEW h \in Hosts, Select(m, h) PROVE OnlyUser(m)
  BY <1>3 DEF Select, Goto, keepVars
<1>4. CASE Set(m)
  BY <1>4 DEF Set, Goto, keepVars
<1>5. CASE Count(m)
  BY <1>5 DEF Count, Goto, redisVars, keepVars
<1>6. CASE Grant(m)
  BY <1>6 DEF Grant, Goto, redisVars
<1>7. CASE Relock(m) \/ NotConnected(m) \/ RelockUndefined(m)
  BY <1>7 DEF Relock, NotConnected, RelockUndefined, Throw, Leave, Goto, redisVars, keepVars
<1>8. CASE UnlockStart(m)
  BY <1>8 DEF UnlockStart, Goto, redisVars, keepVars
<1>9. CASE UnlockSelect(m) \/ UnlockExists(m) \/ UnlockGet(m) \/ UnlockDel(m)
  <2>1. \E res, l : UnlockGoesOn(m, res, l)
    BY <1>9 DEF UnlockSelect, UnlockExists, UnlockGet, UnlockDel
  <2>2. \A n \in Mutexes \ {m} : sel'[n] = sel[n]
    BY <1>9 DEF UnlockSelect, UnlockExists, UnlockGet, UnlockDel
  <2>3. UNCHANGED <<call, have_lock_num, keepVars>>
    BY <2>1 DEF UnlockGoesOn
  <2> QED BY <2>1, <2>2, <2>3, UnlockFrame DEF keepVars
<1>10. CASE Retry(m)
  BY <1>10 DEF Retry, BeginAttempt, Goto, redisVars, keepVars
<1>11. CASE GiveUp(m)
  BY <1>11 DEF GiveUp, Goto, redisVars, keepVars
<1> QED BY <1>1, <1>2, <1>3, <1>4, <1>5, <1>6, <1>7, <1>8, <1>9, <1>10, <1>11
           DEF UserCall, UserStep

\* Only Grant makes a holder.
LEMMA NewHolder ==
  ASSUME TypeOK, NEW m \in Mutexes, UserCall(m) \/ UserStep(m) \/ RelockUndefined(m),
         ~Grant(m)
  PROVE  pc'[m] # "held"
<1>0. pc \in [Mutexes -> UserPC]
  BY DEF TypeOK
<1>1. ASSUME NEW c \in Calls, CallLock(m, c) PROVE pc'[m] # "held"
  BY <1>0, <1>1 DEF CallLock, BeginAttempt, Goto
<1>2. ASSUME NEW h \in Hosts, Select(m, h) PROVE pc'[m] # "held"
  BY <1>0, <1>2 DEF Select, Goto
<1>3. CASE \/ CallUnlock(m) \/ Set(m) \/ Count(m) \/ Relock(m) \/ NotConnected(m)
           \/ RelockUndefined(m) \/ UnlockStart(m) \/ Retry(m) \/ GiveUp(m)
  BY <1>0, <1>3 DEF CallUnlock, Set, Count, Relock, NotConnected, RelockUndefined,
     UnlockStart, Retry, GiveUp, BeginAttempt, Throw, Leave, Goto
<1>4. CASE UnlockSelect(m) \/ UnlockExists(m) \/ UnlockGet(m) \/ UnlockDel(m)
  <2>1. \E res, l : l \in {"uexists", "uget", "udel", "uselect"} /\ UnlockGoesOn(m, res, l)
    BY <1>4 DEF UnlockSelect, UnlockExists, UnlockGet, UnlockDel
  <2> QED BY <2>1, UnlockFrame
<1> QED BY <1>1, <1>2, <1>3, <1>4 DEF UserCall, UserStep

\* What a renewal event k does not touch: the process dies, or the user threads
\* stay where they are and so do the other events.
Dies(p) ==
  /\ Crash(p)
  /\ UNCHANGED sel

OnlyKeeper(k) ==
  /\ UNCHANGED <<call, todo, cur, have_lock_num, age>>
  /\ \/ Dies(ProcOf[k[1]])
     \/ /\ UNCHANGED pc
        /\ \A j \in Keepers \ {k} : kpc'[j] = kpc[j]
        /\ \/ UNCHANGED sel
           \/ Acquire(k) /\ \A n \in Mutexes \ {k[1]} : sel'[n] = sel[n]
        /\ MtxStep(k)
        /\ kpc'[k] \in KeepCritical => Holds(k)' \/ (kpc[k] \in KeepCritical /\ UNCHANGED mtx)

LEMMA KeepFrame ==
  ASSUME TypeOK, NEW k \in Keepers, KeepStep(k)
  PROVE  OnlyKeeper(k)
<1>0. /\ k[1] \in Mutexes /\ ProcOf[k[1]] \in Processes
      /\ kpc \in [Keepers -> KeepPC] /\ mtx \in [Processes -> Threads \cup {Nobody}]
      /\ sel \in [Mutexes -> 0..HostCount]
  BY ThreadTypes DEF TypeOK, RedisTypeOK
<1> USE DEF MtxStep, KeepCritical, OnlyKeeper, Dies
<1>1. CASE KeepStart(k)
  BY <1>0, <1>1 DEF KeepStart, Requeue, KeepGoto, redisVars, userVars
<1>2. CASE KeepCheck(k)
  BY <1>0, <1>2 DEF KeepCheck, Requeue, KeepGoto, redisVars, userVars
<1>3. CASE KeepSelect(k)
  <2>1. Acquire(k) /\ Holds(k)'
    BY <1>0, <1>3 DEF KeepSelect, Acquire, Holds
  <2>2. \A n \in Mutexes \ {k[1]} : sel'[n] = sel[n]
    BY <1>0, <1>3 DEF KeepSelect
  <2> QED BY <1>0, <1>3, <2>1, <2>2 DEF KeepSelect, KeepGoto, userVars
<1>4. CASE KeepExists(k)
  <2>1. \/ Crash(ProcOf[k[1]])
        \/ (KeepGoto(k, "set") \/ KeepGoto(k, "get")) /\ UNCHANGED <<pc, mtx>>
    BY <1>4 DEF KeepExists
  <2> QED BY <1>0, <1>4, <2>1 DEF KeepExists, KeepGoto
<1>5. CASE KeepSet(k)
  BY <1>0, <1>5 DEF KeepSet, KeepLoop, KeepGoto, userVars
<1>6. CASE KeepGet(k)
  <2>1. \/ Crash(ProcOf[k[1]])
        \/ KeepGoto(k, "pexpire") /\ UNCHANGED <<pc, mtx>>
        \/ KeepLoop(k, kidx[k]) /\ UNCHANGED pc
    BY <1>6 DEF KeepGet
  <2> QED BY <1>0, <1>6, <2>1 DEF KeepGet, KeepGoto, KeepLoop
<1>7. CASE KeepPexpire(k)
  <2>1. \/ Crash(ProcOf[k[1]])
        \/ (\E i : KeepLoop(k, i)) /\ UNCHANGED pc
    BY <1>7 DEF KeepPexpire
  <2> QED BY <1>0, <1>7, <2>1 DEF KeepPexpire, KeepGoto, KeepLoop
<1>8. CASE KeepThrows(k)
  BY <1>8 DEF KeepThrows, redisVars
<1> QED BY <1>1, <1>2, <1>3, <1>4, <1>5, <1>6, <1>7, <1>8 DEF KeepStep

-----------------------------------------------------------------------------
(***************************************************************************)
(* mtx_ protects the connection: a thread between its SELECT and its last    *)
(* command holds mtx_, so the database it selected stays selected.           *)
(***************************************************************************)
MtxInv ==
  /\ \A m \in Mutexes : pc[m] \in UserCritical => Holds(User(m))
  /\ \A k \in Keepers : kpc[k] \in KeepCritical => Holds(k)

ConnInv == TypeOK /\ MtxInv /\ RightDatabase

\* The user thread itself.
LEMMA UserHolds ==
  ASSUME ConnInv, NEW m \in Mutexes, UserCall(m) \/ UserStep(m) \/ RelockUndefined(m)
  PROVE  /\ pc'[m] \in UserCritical => Holds(User(m))'
         /\ pc'[m] \in {"set", "uexists", "uget", "udel"} => sel'[m] = cur'[m]
<1>0. /\ ProcOf[m] \in Processes /\ User(m)[1] = m
      /\ TypeOK /\ pc \in [Mutexes -> UserPC] /\ mtx \in [Processes -> Threads \cup {Nobody}]
      /\ sel \in [Mutexes -> 0..HostCount] /\ cur \in [Mutexes -> Hosts]
  BY MutexAssumption DEF ConnInv, TypeOK, RedisTypeOK, User
<1> USE DEF UserCritical, Goto
<1>1. ASSUME NEW c \in Calls, CallLock(m, c)
      PROVE  pc'[m] \notin UserCritical
  BY <1>0, <1>1 DEF CallLock, BeginAttempt
<1>2. CASE CallUnlock(m) \/ Count(m) \/ GiveUp(m) \/ Set(m) \/ Grant(m) \/ Retry(m)
  BY <1>0, <1>2 DEF CallUnlock, Count, GiveUp, Set, Grant, Retry, BeginAttempt
<1>3. ASSUME NEW h \in Hosts, Select(m, h)
      PROVE  /\ Holds(User(m))'
             /\ pc'[m] \in {"set", "uexists", "uget", "udel"} => sel'[m] = cur'[m]
  BY <1>0, <1>3 DEF Select, Acquire, Holds
<1>4. CASE Relock(m) \/ NotConnected(m) \/ RelockUndefined(m)
  BY <1>0, <1>4 DEF Relock, NotConnected, RelockUndefined, Throw, Leave
<1>5. CASE UnlockStart(m)
  BY <1>0, <1>5 DEF UnlockStart, Acquire, Holds
<1>6. CASE UnlockSelect(m)
  <2>1. PICK ok \in BOOLEAN :
           /\ sel' = IF ok THEN [sel EXCEPT ![m] = cur[m]] ELSE sel
           /\ UnlockGoesOn(m, IF ok THEN "go" ELSE "next", "uexists")
    BY <1>6 DEF UnlockSelect
  <2>2. Holds(User(m))
    BY <1>6 DEF UnlockSelect, ConnInv, MtxInv
  <2>3. CASE ok
    BY <1>0, <2>1, <2>2, <2>3 DEF UnlockGoesOn, Holds
  <2>4. CASE ~ok
    <3>1. UnlockNext(m)
      BY <2>1, <2>4 DEF UnlockGoesOn
    <3> QED BY <1>0, <2>2, <3>1 DEF UnlockNext, Leave, Resume, Holds
  <2> QED BY <2>3, <2>4
<1>7. CASE UnlockExists(m) \/ UnlockGet(m) \/ UnlockDel(m)
  <2>1. PICK res, l : /\ UnlockGoesOn(m, res, l)
                      /\ l \in {"uget", "udel", "uselect"}
    BY <1>7 DEF UnlockExists, UnlockGet, UnlockDel
  <2>2. UNCHANGED sel /\ Holds(User(m)) /\ sel[m] = cur[m]
    BY <1>7 DEF UnlockExists, UnlockGet, UnlockDel, ConnInv, MtxInv, RightDatabase
  <2>3. \/ pc'[m] \in {"idle", "sleep"}
        \/ UNCHANGED mtx /\ pc'[m] = "uselect"
        \/ UNCHANGED <<mtx, cur>>
    BY <1>0, <2>1, UnlockFrame
  <2> QED BY <2>2, <2>3 DEF Holds
<1> QED BY <1>1, <1>2, <1>3, <1>4, <1>5, <1>6, <1>7 DEF UserCall, UserStep

\* A process that ends takes its threads out of their critical sections and
\* leaves the threads of the other processes alone.
LEMMA DeathKeepsConn ==
  ASSUME ConnInv, NEW p \in Processes, Crash(p), UNCHANGED <<sel, cur>>
  PROVE  MtxInv' /\ RightDatabase'
<1>1. /\ mtx \in [Processes -> Threads \cup {Nobody}] /\ pc \in [Mutexes -> UserPC]
      /\ kpc \in [Keepers -> KeepPC]
  BY DEF ConnInv, TypeOK
<1>2. \A m \in Mutexes : pc'[m] \in UserCritical => Holds(User(m))'
  <2> SUFFICES ASSUME NEW m \in Mutexes, pc'[m] \in UserCritical PROVE Holds(User(m))'
    OBVIOUS
  <2>1. ProcOf[m] # p /\ pc[m] \in UserCritical
    BY DEF Crash, UserCritical
  <2> QED BY <1>1, <2>1 DEF ConnInv, MtxInv, Holds, Crash, User
<1>3. \A k \in Keepers : kpc'[k] \in KeepCritical => Holds(k)'
  <2> SUFFICES ASSUME NEW k \in Keepers, kpc'[k] \in KeepCritical PROVE Holds(k)'
    OBVIOUS
  <2>1. ProcOf[k[1]] # p /\ kpc[k] \in KeepCritical
    BY DEF Crash, KeepCritical
  <2> QED BY <1>1, <2>1 DEF ConnInv, MtxInv, Holds, Crash
<1>4. RightDatabase'
  BY DEF ConnInv, RightDatabase, Crash
<1> QED BY <1>2, <1>3, <1>4 DEF MtxInv

LEMMA ConnStep ==
  ASSUME ConnInv, [Next]_vars
  PROVE  MtxInv' /\ RightDatabase'
<1>0. TypeOK /\ MtxInv /\ RightDatabase
  BY DEF ConnInv
<1>1. ASSUME NEW m \in Mutexes, UserCall(m) \/ UserStep(m) \/ RelockUndefined(m)
      PROVE  MtxInv' /\ RightDatabase'
  <2>1. OnlyUser(m)
    BY <1>0, <1>1, UserFrame
  <2>2. /\ pc'[m] \in UserCritical => Holds(User(m))'
        /\ pc'[m] \in {"set", "uexists", "uget", "udel"} => sel'[m] = cur'[m]
    BY <1>1, UserHolds
  <2>3. ASSUME NEW n \in Mutexes \ {m}, pc'[n] \in UserCritical PROVE Holds(User(n))'
    <3>1. Holds(User(n))
      BY <1>0, <2>1, <2>3 DEF MtxInv, OnlyUser
    <3>2. User(n) # User(m)
      BY DEF User
    <3> QED BY <1>0, <2>1, <3>1, <3>2, ThreadTypes, OthersHold DEF OnlyUser
  <2>4. ASSUME NEW k \in Keepers, kpc'[k] \in KeepCritical PROVE Holds(k)'
    <3>1. Holds(k)
      BY <1>0, <2>1, <2>4 DEF MtxInv, OnlyUser
    <3>2. k # User(m)
      BY DEF User, Keepers, Slots
    <3> QED BY <1>0, <2>1, <3>1, <3>2, ThreadTypes, OthersHold DEF OnlyUser
  <2>5. RightDatabase'
    BY <1>0, <2>1, <2>2 DEF RightDatabase, OnlyUser
  <2> QED BY <2>2, <2>3, <2>4, <2>5 DEF MtxInv
<1>2. ASSUME NEW k \in Keepers, KeepStep(k) PROVE MtxInv' /\ RightDatabase'
  <2>1. OnlyKeeper(k)
    BY <1>0, <1>2, KeepFrame
  <2>2. CASE Dies(ProcOf[k[1]])
    BY <2>1, <2>2, ThreadTypes, DeathKeepsConn DEF Dies, OnlyKeeper
  <2>3. CASE ~Dies(ProcOf[k[1]])
    <3>1. UNCHANGED <<pc, cur>> /\ MtxStep(k)
      BY <2>1, <2>3 DEF OnlyKeeper
    <3>2. ASSUME NEW m \in Mutexes, pc'[m] \in UserCritical
          PROVE  Holds(User(m)) /\ Holds(User(m))'
      <4>1. Holds(User(m))
        BY <1>0, <3>1, <3>2 DEF MtxInv
      <4>2. k # User(m)
        BY DEF User, Keepers, Slots
      <4> QED BY <1>0, <3>1, <4>1, <4>2, ThreadTypes, OthersHold
    <3>3. ASSUME NEW j \in Keepers, kpc'[j] \in KeepCritical PROVE Holds(j)'
      <4>1. CASE j = k
        BY <1>0, <2>1, <2>3, <3>3, <4>1 DEF OnlyKeeper, MtxInv, Holds
      <4>2. CASE j # k
        <5>1. Holds(j)
          BY <1>0, <2>1, <2>3, <3>3, <4>2 DEF OnlyKeeper, MtxInv
        <5> QED BY <1>0, <3>1, <4>2, <5>1, ThreadTypes, OthersHold
      <4> QED BY <4>1, <4>2
    <3>4. ASSUME NEW m \in Mutexes, pc'[m] \in {"set", "uexists", "uget", "udel"}
          PROVE  sel'[m] = cur'[m]
      <4>1. Holds(User(m)) /\ sel[m] = cur[m]
        BY <1>0, <3>1, <3>2, <3>4 DEF RightDatabase, UserCritical
      <4>2. sel'[m] = sel[m]
        <5>1. CASE UNCHANGED sel
          BY <5>1
        <5>2. CASE Acquire(k) /\ \A n \in Mutexes \ {k[1]} : sel'[n] = sel[n]
          <6>1. m # k[1]
            BY <4>1, <5>2, NobodyAssumption, ThreadTypes DEF Acquire, IsFree, Holds, User
          <6> QED BY <5>2, <6>1
        <5> QED BY <2>1, <2>3, <5>1, <5>2 DEF OnlyKeeper
      <4> QED BY <3>1, <4>1, <4>2
    <3> QED BY <3>2, <3>3, <3>4 DEF MtxInv, RightDatabase
  <2> QED BY <2>2, <2>3
<1>3. ASSUME NEW p \in Processes, Kill(p) PROVE MtxInv' /\ RightDatabase'
  BY <1>3, DeathKeepsConn DEF Kill
<1>4. CASE Tick
  BY <1>0, <1>4 DEF Tick, MtxInv, RightDatabase, Holds
<1>5. CASE UNCHANGED vars \/ \E m \in Mutexes : Drop(m)
  BY <1>0, <1>5 DEF Drop, vars, userVars, keepVars, redisVars, MtxInv, RightDatabase, Holds
<1> QED BY <1>1, <1>2, <1>3, <1>4, <1>5 DEF Next, Mishap

LEMMA ConnInvariant == Spec => []ConnInv
<1>1. Init => ConnInv
  BY StoreAssumption, ClientAssumption, MutexAssumption
     DEF Init, RedisInit, TypeOK, RedisTypeOK, EmptyStore, Absent, Store, Entry, Hosts,
         UserPC, KeepPC, AgeCap, ConnInv, MtxInv, RightDatabase, UserCritical, KeepCritical
<1>2. ConnInv /\ [Next]_vars /\ TypeOK' => ConnInv'
  BY ConnStep DEF ConnInv
<1> QED BY <1>1, <1>2, TypeCorrect, PTL DEF Spec

\* The commands of lock() and unlock() go to the database these selected, while
\* renewals select databases on the same connection: for every number of
\* DMutexes, events and processes, and whatever faults there are.
THEOREM ConnectionProtected == Spec => []RightDatabase
<1>1. ConnInv => RightDatabase
  BY DEF ConnInv
<1> QED BY <1>1, ConnInvariant, PTL

-----------------------------------------------------------------------------
(***************************************************************************)
(* The databases.  Every key has a time to live, and a thread about to send  *)
(* DEL finds its own value in the database: so no command takes a key away    *)
(* from a DMutex but the DEL of its own UnlockAll.                            *)
(***************************************************************************)
Expiring(db) == \A h \in Hosts : db[h].val # Nobody => db[h].ttl >= 1
StoreInv == Expiring(keys)

DelOwn(m) == pc[m] = "udel" => keys[sel[m]].val = m

DelInv == ConnInv /\ StoreInv /\ \A m \in Mutexes : DelOwn(m)

\* Store d has the keys of store db, with as much time to live.
Keeps(db, d) ==
  \A g \in Hosts : db[g].val # Nobody => d[g].val = db[g].val /\ d[g].ttl >= db[g].ttl

\* SET NX and PEXPIRE take no key away, DEL takes only the one it is about.
LEMMA StoreKeeps ==
  ASSUME NEW db \in Store, Expiring(db), NEW h, NEW v \in Mutexes
  PROVE  /\ Keeps(db, SetNxPx(db, h, v)) /\ Expiring(SetNxPx(db, h, v))
         /\ Keeps(db, PExpire(db, h)) /\ Expiring(PExpire(db, h))
         /\ \A g \in Hosts : g # h => DelKey(db, h)[g] = db[g]
         /\ Expiring(DelKey(db, h))
<1>0. \A g \in Hosts : db[g].ttl \in 0..Validity
  BY DEF Store, Entry
<1> USE StoreAssumption DEF Keeps, Expiring, Store
<1>1. Keeps(db, SetNxPx(db, h, v)) /\ Expiring(SetNxPx(db, h, v))
  BY <1>0 DEF SetNxPx, Exists
<1>2. ASSUME NEW g \in Hosts
      PROVE  /\ PExpire(db, h)[g].val = db[g].val
             /\ PExpire(db, h)[g].ttl \in {db[g].ttl, Validity}
  BY DEF PExpire, Entry
<1>3. Keeps(db, PExpire(db, h)) /\ Expiring(PExpire(db, h))
  BY <1>0, <1>2
<1>4. /\ \A g \in Hosts : g # h => DelKey(db, h)[g] = db[g]
      /\ Expiring(DelKey(db, h))
  BY DEF DelKey, Absent
<1> QED BY <1>1, <1>3, <1>4

LEMMA CommandKeeps ==
  ASSUME keys \in Store, StoreInv, NEW m, NEW fate, NEW after, Command(m, fate, after),
         Expiring(after)
  PROVE  /\ StoreInv'
         /\ Keeps(keys, after) => Keeps(keys, keys')
<1>0. \A g \in Hosts : keys[g].ttl \in 0..Validity
  BY DEF Store, Entry
<1>1. keys' = after \/ keys' = keys
  BY DEF Command
<1>2. CASE keys' = after
  BY <1>2 DEF StoreInv, Expiring
<1>3. CASE keys' = keys
  BY <1>0, <1>3, StoreAssumption DEF StoreInv, Expiring, Keeps
<1> QED BY <1>1, <1>2, <1>3

\* A step of the user thread of m loses at most a key of m, and that only when
\* it deletes it.
KeepsOthers(m) ==
  \/ Keeps(keys, keys')
  \/ /\ pc[m] = "udel" /\ pc'[m] \in {"idle", "sleep", "uselect"}
     /\ \A g \in Hosts : keys[g].val # m => keys'[g] = keys[g]

LEMMA UserStore ==
  ASSUME DelInv, NEW m \in Mutexes, UserCall(m) \/ UserStep(m) \/ RelockUndefined(m)
  PROVE  StoreInv' /\ KeepsOthers(m)
<1>0. keys \in Store /\ StoreInv /\ Expiring(keys) /\ Keeps(keys, keys) /\ TypeOK
  <2>1. keys \in Store /\ StoreInv /\ TypeOK
    BY DEF DelInv, ConnInv, TypeOK, RedisTypeOK
  <2>2. \A g \in Hosts : keys[g].ttl \in 0..Validity
    BY <2>1 DEF Store, Entry
  <2> QED BY <2>1, <2>2, StoreAssumption DEF StoreInv, Keeps
<1>1. CASE UNCHANGED keys
  <2>1. Keeps(keys, keys')
    BY <1>0, <1>1
  <2>2. StoreInv'
    BY <1>0, <1>1 DEF StoreInv, Expiring
  <2> QED BY <2>1, <2>2 DEF KeepsOthers
<1>2. CASE \E fate : Command(m, fate, keys)
  BY <1>0, <1>2, CommandKeeps DEF KeepsOthers
<1>3. CASE Set(m)
  <2>1. PICK fate : Command(m, fate, SetNxPx(keys, sel[m], m))
    BY <1>3 DEF Set, SetKeyValue
  <2> QED BY <1>0, <2>1, StoreKeeps, CommandKeeps DEF KeepsOthers
<1>4. CASE UnlockDel(m)
  <2>1. PICK fate, res :
           Command(m, fate, DelKey(keys, sel[m])) /\ UnlockGoesOn(m, res, "uselect")
    BY <1>4 DEF UnlockDel
  <2>2. pc[m] = "udel" /\ keys[sel[m]].val = m
    BY <1>4 DEF UnlockDel, DelInv, DelOwn
  <2>3. pc'[m] \in {"idle", "sleep", "uselect"}
    BY <1>0, <2>1, UnlockFrame
  <2>4. \A g \in Hosts : keys[g].val # m => keys'[g] = keys[g]
    BY <1>0, <2>1, <2>2, StoreKeeps DEF Command
  <2>5. StoreInv'
    BY <1>0, <2>1, StoreKeeps, CommandKeeps
  <2> QED BY <2>2, <2>3, <2>4, <2>5 DEF KeepsOthers
<1>5. ASSUME NEW h \in Hosts, Select(m, h) PROVE \E fate : Command(m, fate, keys)
  BY <1>5 DEF Select
<1>6. CASE UnlockSelect(m) \/ UnlockExists(m) \/ UnlockGet(m)
  BY <1>2, <1>6 DEF UnlockSelect, UnlockExists, UnlockGet
<1>7. ASSUME NEW c \in Calls, CallLock(m, c) PROVE UNCHANGED keys
  BY <1>7 DEF CallLock, redisVars
<1>8. CASE \/ CallUnlock(m) \/ Count(m) \/ Grant(m) \/ Relock(m) \/ NotConnected(m)
           \/ RelockUndefined(m) \/ UnlockStart(m) \/ Retry(m) \/ GiveUp(m)
  BY <1>1, <1>8 DEF CallUnlock, Count, Grant, Relock, NotConnected, RelockUndefined,
     UnlockStart, Retry, GiveUp, redisVars
<1> QED BY <1>1, <1>2, <1>3, <1>4, <1>5, <1>6, <1>7, <1>8 DEF UserCall, UserStep

LEMMA KeepStore ==
  ASSUME DelInv, NEW k \in Keepers, KeepStep(k)
  PROVE  StoreInv' /\ Keeps(keys, keys')
<1>0. keys \in Store /\ StoreInv /\ Expiring(keys) /\ Keeps(keys, keys) /\ k[1] \in Mutexes
  <2>1. keys \in Store /\ StoreInv /\ k[1] \in Mutexes
    BY ThreadTypes DEF DelInv, ConnInv, TypeOK, RedisTypeOK
  <2>2. \A g \in Hosts : keys[g].ttl \in 0..Validity
    BY <2>1 DEF Store, Entry
  <2> QED BY <2>1, <2>2, StoreAssumption DEF StoreInv, Keeps
<1>1. CASE UNCHANGED keys
  BY <1>0, <1>1 DEF StoreInv, Expiring
<1>2. CASE \E fate : Command(k[1], fate, keys)
  BY <1>0, <1>2, CommandKeeps
<1>3. CASE KeepSet(k)
  <2>1. PICK fate : Command(k[1], fate, SetNxPx(keys, sel[k[1]], k[1]))
    BY <1>3 DEF KeepSet, SetKeyValue
  <2> QED BY <1>0, <2>1, StoreKeeps, CommandKeeps
<1>4. CASE KeepPexpire(k)
  <2>1. PICK fate : Command(k[1], fate, PExpire(keys, sel[k[1]]))
    BY <1>4 DEF KeepPexpire
  <2> QED BY <1>0, <2>1, StoreKeeps, CommandKeeps
<1>5. CASE KeepSelect(k) \/ KeepExists(k) \/ KeepGet(k)
  BY <1>2, <1>5 DEF KeepSelect, KeepExists, KeepGet
<1>6. CASE KeepStart(k) \/ KeepCheck(k) \/ KeepThrows(k)
  BY <1>1, <1>6 DEF KeepStart, KeepCheck, KeepThrows, redisVars
<1> QED BY <1>3, <1>4, <1>5, <1>6 DEF KeepStep

\* The actor itself: DEL follows a GET that returned the DMutex's own value.
LEMMA UserDel ==
  ASSUME DelInv, NEW m \in Mutexes, UserCall(m) \/ UserStep(m) \/ RelockUndefined(m)
  PROVE  DelOwn(m)'
<1>0. TypeOK /\ pc \in [Mutexes -> UserPC]
  BY DEF DelInv, ConnInv, TypeOK
<1>1. ASSUME NEW c \in Calls, CallLock(m, c) PROVE pc'[m] # "udel"
  BY <1>0, <1>1 DEF CallLock, BeginAttempt, Goto
<1>2. ASSUME NEW h \in Hosts, Select(m, h) PROVE pc'[m] # "udel"
  BY <1>0, <1>2 DEF Select, Goto
<1>3. CASE \/ CallUnlock(m) \/ Set(m) \/ Count(m) \/ Grant(m) \/ Relock(m) \/ NotConnected(m)
           \/ RelockUndefined(m) \/ UnlockStart(m) \/ Retry(m) \/ GiveUp(m)
  BY <1>0, <1>3 DEF CallUnlock, Set, Count, Grant, Relock, NotConnected, RelockUndefined,
     UnlockStart, Retry, GiveUp, BeginAttempt, Throw, Leave, Goto, DelOwn
<1>4. CASE UnlockSelect(m) \/ UnlockExists(m) \/ UnlockDel(m)
  <2>1. \E res, l : l \in {"uexists", "uget", "uselect"} /\ UnlockGoesOn(m, res, l)
    BY <1>4 DEF UnlockSelect, UnlockExists, UnlockDel
  <2> QED BY <1>0, <2>1, UnlockFrame DEF DelOwn
<1>5. CASE UnlockGet(m)
  <2>1. PICK fate :
          LET res == AfterGet(ReplyTo(fate, GetReply(sel[m])), m) IN
          /\ Command(m, fate, keys)
          /\ UnlockGoesOn(m, IF res = "match" THEN "go" ELSE res, "udel")
    BY <1>5 DEF UnlockGet
  <2>2. UNCHANGED <<sel, keys>>
    BY <1>5, <2>1 DEF UnlockGet, Command
  <2>3. pc'[m] \in {"idle", "sleep", "uselect"} \/
        (pc'[m] = "udel" /\ AfterGet(ReplyTo(fate, GetReply(sel[m])), m) \in {"match", "go"})
    BY <1>0, <2>1, UnlockFrame
  <2>4. AfterGet(ReplyTo(fate, GetReply(sel[m])), m) \in {"match", "go"} => keys[sel[m]].val = m
    BY DEF AfterGet, ReplyTo, GetReply, BulkReply, NullReply, ErrorReply, as_string_throws
  <2> QED BY <2>2, <2>3, <2>4 DEF DelOwn
<1> QED BY <1>1, <1>2, <1>3, <1>4, <1>5 DEF UserCall, UserStep, DelOwn

\* What a tick does to the keys.
LEMMA TickStore ==
  ASSUME DelInv, Tick
  PROVE  /\ StoreInv'
         /\ \A h \in Hosts :
              keys[h].val # Nobody /\ keys[h].ttl # 1 =>
                keys'[h].val = keys[h].val /\ keys'[h].ttl = keys[h].ttl - 1
         /\ \A h \in Hosts :
              keys'[h].val # Nobody =>
                keys[h].val = keys'[h].val /\ keys[h].ttl = keys'[h].ttl + 1
<1>0. StoreInv /\ keys \in Store /\ keys' = Elapse(keys)
  BY DEF DelInv, ConnInv, Tick, TypeOK, RedisTypeOK
<1>1. \A h \in Hosts : keys[h].ttl \in 0..Validity
  BY <1>0 DEF Store, Entry
<1>2. \A h \in Hosts : keys[h].ttl = 0 => keys[h].val = Nobody
  BY <1>0 DEF StoreInv, Expiring
<1>3. ASSUME NEW h \in Hosts, keys[h].val # Nobody, keys[h].ttl # 1
      PROVE  keys'[h].val = keys[h].val /\ keys'[h].ttl = keys[h].ttl - 1
  BY <1>0, <1>1, <1>2, <1>3, StoreAssumption DEF Elapse
<1>4. ASSUME NEW h \in Hosts, keys'[h].val # Nobody
      PROVE  /\ keys[h].val = keys'[h].val /\ keys[h].ttl = keys'[h].ttl + 1
             /\ keys'[h].ttl >= 1
  BY <1>0, <1>1, <1>2, <1>4, StoreAssumption DEF Elapse, Absent
<1> QED BY <1>3, <1>4 DEF StoreInv, Expiring

LEMMA DelStep ==
  ASSUME DelInv, "delete" \in Prompt, [Next]_vars, ConnInv'
  PROVE  DelInv'
<1>0. TypeOK /\ RightDatabase /\ RightDatabase' /\ keys \in Store /\ keys' \in Store /\ StoreInv
  BY DEF DelInv, ConnInv, TypeOK, RedisTypeOK
<1>1. SUFFICES StoreInv' /\ \A n \in Mutexes : DelOwn(n)'
  BY DEF DelInv
<1>2. ASSUME NEW n \in Mutexes, pc'[n] = "udel" => pc[n] = "udel" /\ cur'[n] = cur[n],
             \A g \in Hosts : keys[g].val = n => keys'[g].val = n
      PROVE  DelOwn(n)'
  BY <1>0, <1>2 DEF DelInv, DelOwn, RightDatabase, TypeOK
<1>3. ASSUME NEW m \in Mutexes, UserCall(m) \/ UserStep(m) \/ RelockUndefined(m)
      PROVE  StoreInv' /\ \A n \in Mutexes : DelOwn(n)'
  <2>1. StoreInv' /\ KeepsOthers(m) /\ OnlyUser(m) /\ DelOwn(m)'
    BY <1>0, <1>3, UserStore, UserFrame, UserDel
  <2>2. ASSUME NEW n \in Mutexes \ {m} PROVE DelOwn(n)'
    <3>1. \A g \in Hosts : keys[g].val = n => keys'[g].val = n
      BY <2>1, StoreAssumption DEF KeepsOthers, Keeps
    <3> QED BY <1>2, <2>1, <3>1 DEF OnlyUser
  <2> QED BY <2>1, <2>2
<1>4. ASSUME NEW k \in Keepers, KeepStep(k)
      PROVE  StoreInv' /\ \A n \in Mutexes : DelOwn(n)'
  <2>1. StoreInv' /\ Keeps(keys, keys') /\ OnlyKeeper(k)
    BY <1>0, <1>4, KeepStore, KeepFrame
  <2>2. ASSUME NEW n \in Mutexes PROVE DelOwn(n)'
    <3>1. \A g \in Hosts : keys[g].val = n => keys'[g].val = n
      BY <2>1, StoreAssumption DEF Keeps
    <3>2. pc'[n] \in {pc[n], "dead"} /\ UNCHANGED cur
      BY <1>0, <2>1 DEF OnlyKeeper, Dies, Crash
    <3> QED BY <1>2, <3>1, <3>2
  <2> QED BY <2>1, <2>2
<1>5. CASE \/ \E p \in Processes : Kill(p)
           \/ \E m \in Mutexes : Drop(m)
           \/ UNCHANGED vars
  <2>1. UNCHANGED <<keys, cur>> /\ \A n \in Mutexes : pc'[n] \in {pc[n], "dead"}
    BY <1>5 DEF Kill, Crash, Drop, vars, redisVars, userVars
  <2>2. StoreInv'
    BY <1>0, <2>1 DEF StoreInv, Expiring
  <2> QED BY <1>2, <2>1, <2>2
<1>6. CASE Tick
  <2>1. UNCHANGED <<sel, pc, cur>>
    BY <1>6 DEF Tick
  <2>2. ASSUME NEW n \in Mutexes, pc[n] = "udel" PROVE keys'[sel[n]].val = n
    <3>1. sel[n] \in Hosts /\ keys[sel[n]].val = n /\ keys[sel[n]].ttl # 1 /\ n # Nobody
      BY <1>0, <1>6, <2>2, StoreAssumption DEF TypeOK, RightDatabase, DelInv, DelOwn, Tick
    <3> QED BY <1>6, <3>1, TickStore
  <2> QED BY <1>6, <2>1, <2>2, TickStore DEF DelOwn
<1> QED BY <1>3, <1>4, <1>5, <1>6 DEF Next, Mishap

LEMMA DelInvariant ==
  ASSUME "delete" \in Prompt
  PROVE  Spec => []DelInv
<1>1. Init => DelInv
  <2> SUFFICES ASSUME Init PROVE DelInv
    OBVIOUS
  <2>1. ConnInv
    BY StoreAssumption, ClientAssumption, MutexAssumption
       DEF Init, RedisInit, TypeOK, RedisTypeOK, EmptyStore, Absent, Store, Entry, Hosts,
           UserPC, KeepPC, AgeCap, ConnInv, MtxInv, RightDatabase, UserCritical, KeepCritical
  <2>2. StoreInv
    BY DEF Init, RedisInit, StoreInv, Expiring, EmptyStore, Absent
  <2>3. \A m \in Mutexes : pc[m] = "idle"
    BY DEF Init
  <2> QED BY <2>1, <2>2, <2>3 DEF DelInv, DelOwn
<1>2. DelInv /\ [Next]_vars /\ ConnInv' => DelInv'
  BY DelStep
<1>3. DelInv => ConnInv
  BY DEF DelInv
<1> QED BY <1>1, <1>2, <1>3, ConnInvariant, PTL DEF Spec

\* No command takes a foreign key away: a key disappears with the passing of
\* time or by its owner's UnlockAll.
THEOREM ForeignKeysSafe ==
  ASSUME "delete" \in Prompt
  PROVE  Spec => KeysLostOnlyByOwner
<1> DEFINE A == \A m \in Mutexes : \A h \in Hosts :
                  keys[h].val = m /\ keys'[h].val # m => Tick \/ (pc[m] = "udel" /\ sel[m] = h)
<1>1. DelInv /\ [Next]_vars => [A]_vars
  <2> SUFFICES ASSUME DelInv, Next,
                      NEW m \in Mutexes, NEW h \in Hosts,
                      keys[h].val = m, keys'[h].val # m, ~Tick
               PROVE  pc[m] = "udel" /\ sel[m] = h
    OBVIOUS
  <2>0. m # Nobody /\ TypeOK /\ keys \in Store
    BY StoreAssumption DEF DelInv, ConnInv, TypeOK, RedisTypeOK
  <2>1. ~Keeps(keys, keys')
    BY <2>0 DEF Keeps
  <2>2. \A k \in Keepers : ~KeepStep(k)
    BY <2>1, KeepStore
  <2>3. (\A p \in Processes : ~Kill(p)) /\ (\A n \in Mutexes : ~Drop(n))
    BY DEF Kill, Drop
  <2>4. PICK n \in Mutexes : UserCall(n) \/ UserStep(n) \/ RelockUndefined(n)
    BY <2>2, <2>3 DEF Next, Mishap
  <2>5. pc[n] = "udel" /\ n = m
    BY <2>1, <2>4, UserStore DEF KeepsOthers
  <2>6. CASE UnlockDel(m)
    <3>1. keys' = DelKey(keys, sel[m]) \/ keys' = keys
      BY <2>6 DEF UnlockDel, Command
    <3>2. \A g \in Hosts : g # sel[m] => DelKey(keys, sel[m])[g] = keys[g]
      BY <2>0, StoreKeeps DEF DelInv, StoreInv
    <3> QED BY <2>5, <3>1, <3>2
  <2>7. CASE ~UnlockDel(m)
    <3>1. NotConnected(m) \/ Relock(m)
      BY <2>4, <2>5, <2>7 DEF UserCall, UserStep, RelockUndefined, CallLock, CallUnlock, Select,
         Set, Count, Grant, UnlockStart, UnlockSelect, UnlockExists, UnlockGet, Retry, GiveUp
    <3> QED BY <3>1 DEF NotConnected, Relock, redisVars
  <2> QED BY <2>6, <2>7
<1> QED BY <1>1, DelInvariant, PTL DEF Spec, KeysLostOnlyByOwner
-----------------------------------------------------------------------------
(***************************************************************************)
(* The lease.  The inductive invariant says of a DMutex that is collecting   *)
(* locks or holds the lock: have_lock_num_ lists different hosts, and as     *)
(* long as the validity time has not passed since the attempt began, each of *)
(* them still has the key of this DMutex, with at least the rest of the      *)
(* validity time to live.  That no DEL takes such a key away is DelInv.      *)
(***************************************************************************)
HostsOf(s) == {s[i] : i \in 1..Len(s)}

\* try_lock() does not clear have_lock_num_, so nothing is said of its caller.
Tracked(m) ==
  pc[m] \in {"pick", "again", "set", "grant", "held"} /\ call[m] # "try_lock"

Listed(m) ==
  Tracked(m) =>
    /\ HostsOf(have_lock_num[m]) \cap todo[m] = {}
    /\ pc[m] \in {"again", "set"} => cur[m] \notin HostsOf(have_lock_num[m]) \cup todo[m]
    /\ Cardinality(HostsOf(have_lock_num[m])) = Len(have_lock_num[m])
    /\ pc[m] \in {"grant", "held"} => Len(have_lock_num[m]) >= Majority

Backed(m) ==
  Tracked(m) /\ age[m] < Validity =>
    \A h \in HostsOf(have_lock_num[m]) :
      keys[h].val = m /\ keys[h].ttl >= Validity - age[m]

LeaseInv ==
  /\ DelInv
  /\ \A m \in Mutexes : Listed(m) /\ Backed(m)

\* A DMutex whose own state does not change keeps its part of the invariant as
\* long as its keys are kept.
LEMMA FrameLease ==
  ASSUME LeaseInv, NEW n \in Mutexes,
         \/ pc'[n] = pc[n]
         \/ pc'[n] = "dead",
         cur'[n] = cur[n], todo'[n] = todo[n],
         have_lock_num'[n] = have_lock_num[n], age'[n] = age[n], call'[n] = call[n],
         \A g \in Hosts : keys[g].val = n =>
                            keys'[g].val = n /\ keys'[g].ttl >= keys[g].ttl,
         keys' \in Store
  PROVE  Listed(n)' /\ Backed(n)'
<1>0. /\ Listed(n) /\ Backed(n)
      /\ cur[n] \in Hosts /\ have_lock_num[n] \in Seq(Hosts) /\ age[n] \in Nat
      /\ keys \in Store
  BY DEF LeaseInv, DelInv, ConnInv, TypeOK, RedisTypeOK, AgeCap
<1>2. Listed(n)'
  BY <1>0 DEF Listed, Tracked
<1>3. Backed(n)'
  <2>1. HostsOf(have_lock_num[n]) \subseteq Hosts
    BY <1>0 DEF HostsOf
  <2>2. \A g \in Hosts : keys[g].ttl \in Int /\ keys'[g].ttl \in Int
    BY <1>0 DEF Store, Entry
  <2> QED BY <1>0, <2>1, <2>2, StoreAssumption DEF Backed, Tracked
<1> QED BY <1>0, <1>2, <1>3

\* What have_lock_num_.push_back does to the hosts it lists.
LEMMA PushBack ==
  ASSUME NEW s \in Seq(Hosts), NEW h \in Hosts, h \notin HostsOf(s),
         Cardinality(HostsOf(s)) = Len(s)
  PROVE  /\ HostsOf(Append(s, h)) = HostsOf(s) \cup {h}
         /\ Cardinality(HostsOf(Append(s, h))) = Len(Append(s, h))
<1>1. HostsOf(Append(s, h)) = HostsOf(s) \cup {h}
  <2>1. /\ Len(Append(s, h)) = Len(s) + 1 /\ Len(s) \in Nat
        /\ \A i \in 1..Len(s) : Append(s, h)[i] = s[i]
        /\ Append(s, h)[Len(s) + 1] = h
    OBVIOUS
  <2>2. \A i \in 1..(Len(s) + 1) : i \in 1..Len(s) \/ i = Len(s) + 1
    BY <2>1
  <2>3. \A i \in 1..Len(s) : i \in 1..(Len(s) + 1)
    BY <2>1
  <2>4. Len(s) + 1 \in 1..(Len(s) + 1)
    BY <2>1
  <2> QED BY <2>1, <2>2, <2>3, <2>4, Zenon DEF HostsOf
<1>2. IsFiniteSet(HostsOf(s))
  <2>1. HostsOf(s) \in SUBSET Hosts
    <3>1. \A i \in 1..Len(s) : s[i] \in Hosts
      OBVIOUS
    <3> QED BY <3>1, Zenon DEF HostsOf
  <2>2. IsFiniteSet(Hosts)
    BY StoreAssumption, FS_Interval DEF Hosts
  <2> QED BY <2>1, <2>2, FS_Subset
<1>3. Len(Append(s, h)) = Len(s) + 1
  OBVIOUS
<1>4. Cardinality(HostsOf(s) \cup {h}) = Len(s) + 1
  BY <1>2, FS_AddElement
<1> QED BY <1>1, <1>3, <1>4

\* A SET that is reported to have succeeded did set the key.
LEMMA SetOutcome ==
  ASSUME keys \in Store, NEW m \in Mutexes, NEW h \in Hosts, NEW fate,
         Command(m, fate, SetNxPx(keys, h, m)),
         SetKeyValueResult(ReplyTo(fate, SetReply(h))) = "kSetKeySucceed"
  PROVE  keys'[h] = [val |-> m, ttl |-> Validity]
<1>1. fate = "ok"
  BY DEF SetKeyValueResult, ReplyTo, ErrorReply
<1>2. ~Exists(keys, h)
  <2> SUFFICES ASSUME Exists(keys, h) PROVE FALSE
    OBVIOUS
  <2>1. ReplyTo(fate, SetReply(h)).type = "null"
    BY <1>1 DEF ReplyTo, SetReply, NullReply
  <2> QED BY <2>1 DEF SetKeyValueResult
<1> QED BY <1>1, <1>2 DEF Command, SetNxPx, Store

\* The actor itself: a step of the user thread of m preserves m's part.
LEMMA UserLease ==
  ASSUME LeaseInv, NEW m \in Mutexes, UserCall(m) \/ UserStep(m) \/ RelockUndefined(m)
  PROVE  Listed(m)' /\ Backed(m)'
<1> DEFINE Goal == Listed(m)' /\ Backed(m)'
<1>0. /\ Listed(m) /\ Backed(m) /\ RightDatabase /\ TypeOK
      /\ cur[m] \in Hosts /\ have_lock_num[m] \in Seq(Hosts) /\ age[m] \in Nat
      /\ keys \in Store /\ todo[m] \in SUBSET Hosts /\ StoreInv /\ Expiring(keys)
      /\ HostsOf(have_lock_num[m]) \subseteq Hosts
  BY DEF LeaseInv, DelInv, ConnInv, TypeOK, RedisTypeOK, AgeCap, HostsOf, StoreInv
<1>1. ASSUME ~Tracked(m)' PROVE Goal
  BY <1>1 DEF Listed, Backed
<1>2. ASSUME NEW c, BeginAttempt(m, c), c # "try_lock" PROVE Goal
  <2>1. pc'[m] = "pick" /\ have_lock_num'[m] = <<>>
    BY <1>0, <1>2 DEF BeginAttempt, Goto, TypeOK
  <2>2. HostsOf(have_lock_num'[m]) = {} /\ Len(have_lock_num'[m]) = 0
    BY <2>1 DEF HostsOf
  <2> QED BY <2>1, <2>2, FS_EmptySet DEF Listed, Backed
<1>3. ASSUME NEW c \in Calls, CallLock(m, c) PROVE Goal
  <2>1. BeginAttempt(m, c) /\ call'[m] = c
    BY <1>0, <1>3 DEF CallLock, TypeOK
  <2> QED BY <1>1, <1>2, <2>1 DEF Tracked
<1>4. CASE Retry(m)
  <2>1. BeginAttempt(m, call[m]) /\ call'[m] = call[m]
    BY <1>4 DEF Retry
  <2> QED BY <1>1, <1>2, <2>1 DEF Tracked
<1>5. ASSUME NEW h \in Hosts, Select(m, h) PROVE Goal
  <2>1. /\ keys' = keys /\ pc[m] \in {"pick", "again"} /\ pc'[m] \in {"pick", "set"}
        /\ UNCHANGED <<have_lock_num, call, age>> /\ cur'[m] = h /\ todo'[m] = todo[m] \ {h}
    BY <1>0, <1>5 DEF Select, Command, Goto, TypeOK
  <2> SUFFICES ASSUME call[m] # "try_lock" PROVE Goal
    BY <1>1, <2>1 DEF Tracked
  <2>2. h \notin HostsOf(have_lock_num[m])
    BY <1>0, <1>5 DEF Select, Listed, Tracked
  <2>3. Listed(m)'
    BY <1>0, <2>1, <2>2 DEF Listed, Tracked
  <2>4. Backed(m)'
    BY <1>0, <2>1 DEF Backed, Tracked
  <2> QED BY <1>0, <2>1, <2>3, <2>4
<1>6. CASE Set(m)
  <2>1. PICK fate :
          LET res == SetKeyValueResult(ReplyTo(fate, SetReply(sel[m]))) IN
          /\ Command(m, fate, SetNxPx(keys, sel[m], m))
          /\ have_lock_num' = IF res = "kSetKeySucceed"
                              THEN [have_lock_num EXCEPT ![m] = Append(@, cur[m])]
                              ELSE have_lock_num
          /\ Goto(m, IF res = "kSetKeyFailed" /\ age[m] < TimeOutLimit
                     THEN "again" ELSE "pick")
    BY <1>6 DEF Set, SetKeyValue
  <2>2. /\ UNCHANGED <<todo, cur, age, call>> /\ pc[m] = "set" /\ sel[m] = cur[m]
        /\ pc'[m] \in {"again", "pick"}
    BY <1>0, <1>6, <2>1 DEF Set, RightDatabase, Goto, TypeOK
  <2> SUFFICES ASSUME call[m] # "try_lock" PROVE Goal
    BY <1>1, <2>2 DEF Tracked
  <2>3. Keeps(keys, keys')
    BY <1>0, <2>1, StoreKeeps, CommandKeeps
  <2>4. /\ HostsOf(have_lock_num[m]) \cap todo[m] = {}
        /\ cur[m] \notin HostsOf(have_lock_num[m]) \cup todo[m]
        /\ Cardinality(HostsOf(have_lock_num[m])) = Len(have_lock_num[m])
    BY <1>0, <2>2 DEF Listed, Tracked
  <2>5. \A g \in Hosts : keys[g].ttl \in Int /\ keys'[g].ttl \in Int
    <3>1. keys' \in Store
      BY <1>0, <2>1, StoreTypes, CommandTypes DEF TypeOK
    <3> QED BY <1>0, <3>1 DEF Store, Entry
  <2>6. age[m] < Validity => \A g \in HostsOf(have_lock_num[m]) :
                                keys'[g].val = m /\ keys'[g].ttl >= Validity - age[m]
    BY <1>0, <2>2, <2>3, <2>5, StoreAssumption DEF Backed, Tracked, Keeps
  <2>7. CASE SetKeyValueResult(ReplyTo(fate, SetReply(sel[m]))) = "kSetKeySucceed"
    <3>1. keys'[cur[m]] = [val |-> m, ttl |-> Validity]
      BY <1>0, <2>1, <2>2, <2>7, SetOutcome
    <3>2. have_lock_num'[m] = Append(have_lock_num[m], cur[m]) /\ pc'[m] = "pick"
      BY <1>0, <2>1, <2>7 DEF TypeOK, Goto
    <3>3. /\ HostsOf(have_lock_num'[m]) = HostsOf(have_lock_num[m]) \cup {cur[m]}
          /\ Cardinality(HostsOf(have_lock_num'[m])) = Len(have_lock_num'[m])
      BY <1>0, <2>4, <3>2, PushBack
    <3>4. Listed(m)'
      BY <2>2, <2>4, <3>2, <3>3 DEF Listed
    <3>5. Backed(m)'
      BY <1>0, <2>2, <2>6, <3>1, <3>3, StoreAssumption DEF Backed
    <3> QED BY <1>0, <2>2, <3>2, <3>4, <3>5
  <2>8. CASE SetKeyValueResult(ReplyTo(fate, SetReply(sel[m]))) # "kSetKeySucceed"
    <3>1. UNCHANGED have_lock_num
      BY <2>1, <2>8
    <3> QED BY <1>0, <2>2, <2>4, <2>6, <3>1 DEF Listed, Backed
  <2> QED BY <2>7, <2>8
<1>7. CASE Count(m)
  <2>1. /\ UNCHANGED <<keys, todo, have_lock_num, age, call>> /\ pc[m] = "pick"
        /\ \/ pc'[m] = "grant" /\ Len(have_lock_num[m]) >= Majority
           \/ pc'[m] = "unlock"
    BY <1>0, <1>7 DEF Count, redisVars, Goto, TypeOK
  <2> QED BY <1>0, <2>1 DEF Listed, Backed, Tracked
<1>8. CASE Grant(m)
  <2>1. /\ UNCHANGED <<keys, todo, have_lock_num, age, call>>
        /\ pc[m] = "grant" /\ pc'[m] = "held"
    BY <1>0, <1>8 DEF Grant, redisVars, Goto, TypeOK
  <2> QED BY <1>0, <2>1 DEF Listed, Backed, Tracked
<1>9. CASE Relock(m) \/ NotConnected(m) \/ RelockUndefined(m) \/ GiveUp(m)
  BY <1>0, <1>1, <1>9 DEF Relock, NotConnected, RelockUndefined, GiveUp, Throw, Leave, Goto,
     TypeOK, Tracked
<1>10. CASE CallUnlock(m) \/ UnlockStart(m)
  BY <1>0, <1>1, <1>10 DEF CallUnlock, UnlockStart, Goto, TypeOK, Tracked
<1>11. CASE UnlockSelect(m) \/ UnlockExists(m) \/ UnlockGet(m) \/ UnlockDel(m)
  <2>1. \E res, l : l \in {"uexists", "uget", "udel", "uselect"} /\ UnlockGoesOn(m, res, l)
    BY <1>11 DEF UnlockSelect, UnlockExists, UnlockGet, UnlockDel
  <2>2. pc'[m] \in {"idle", "sleep", "uselect", "uexists", "uget", "udel"} /\ UNCHANGED call
    BY <1>0, <2>1, UnlockFrame DEF UnlockGoesOn
  <2> QED BY <1>0, <1>1, <2>2 DEF Tracked
<1> QED BY <1>3, <1>4, <1>5, <1>6, <1>7, <1>8, <1>9, <1>10, <1>11 DEF UserCall, UserStep

LEMMA TickLease ==
  ASSUME LeaseInv, Tick
  PROVE  \A m \in Mutexes : Listed(m)' /\ Backed(m)'
<1>0. /\ TypeOK /\ DelInv /\ keys \in Store
      /\ UNCHANGED <<pc, call, todo, cur, have_lock_num>>
  BY DEF LeaseInv, DelInv, ConnInv, Tick, TypeOK, RedisTypeOK
<1>1. \A h \in Hosts : keys[h].ttl \in 0..Validity
  BY <1>0 DEF Store, Entry
<1>2. ASSUME NEW m \in Mutexes PROVE Listed(m)'
  BY <1>0 DEF LeaseInv, Listed, Tracked
<1>3. ASSUME NEW m \in Mutexes PROVE Backed(m)'
  <2> SUFFICES ASSUME Tracked(m), age'[m] < Validity, NEW h \in HostsOf(have_lock_num[m])
               PROVE  keys'[h].val = m /\ keys'[h].ttl >= Validity - age'[m]
    BY <1>0 DEF Backed, Tracked
  <2>1. h \in Hosts
    BY <1>0 DEF TypeOK, HostsOf
  <2>2. age[m] \in 0..AgeCap /\ age'[m] = Plus1(age[m], AgeCap)
    BY DEF LeaseInv, DelInv, ConnInv, TypeOK, Tick, Tracked, Attempting
  <2>3. age'[m] = age[m] + 1 /\ age[m] \in Nat
    BY <2>2, StoreAssumption, MutexAssumption DEF Plus1, AgeCap
  <2>4. keys[h].val = m /\ keys[h].ttl >= Validity - age[m] /\ m # Nobody
    BY <2>3, StoreAssumption DEF LeaseInv, Backed
  <2>5. keys[h].ttl # 1
    BY <1>1, <2>1, <2>3, <2>4, StoreAssumption
  <2> QED BY <1>0, <1>1, <2>1, <2>3, <2>4, <2>5, TickStore, StoreAssumption
<1> QED BY <1>2, <1>3

LEMMA LeaseStep ==
  ASSUME LeaseInv, [Next]_vars, DelInv'
  PROVE  LeaseInv'
<1> DEFINE Part(n) == Listed(n)' /\ Backed(n)'
<1>0. TypeOK /\ DelInv /\ keys \in Store /\ keys' \in Store
  BY DEF LeaseInv, DelInv, ConnInv, TypeOK, RedisTypeOK
<1>1. SUFFICES \A n \in Mutexes : Part(n)
  BY DEF LeaseInv
<1>2. ASSUME NEW m \in Mutexes, UserCall(m) \/ UserStep(m) \/ RelockUndefined(m)
      PROVE  \A n \in Mutexes : Part(n)
  <2>1. KeepsOthers(m) /\ OnlyUser(m) /\ Part(m)
    BY <1>0, <1>2, UserStore, UserFrame, UserLease
  <2>2. ASSUME NEW n \in Mutexes \ {m} PROVE Part(n)
    <3>1. \A g \in Hosts : keys[g].val = n =>
                             keys'[g].val = n /\ keys'[g].ttl >= keys[g].ttl
      <4>1. n # Nobody /\ \A g \in Hosts : keys[g].ttl \in 0..Validity
        BY <1>0, StoreAssumption DEF Store, Entry
      <4> QED BY <2>1, <4>1, StoreAssumption DEF KeepsOthers, Keeps
    <3> QED BY <1>0, <2>1, <3>1, FrameLease DEF OnlyUser
  <2> QED BY <2>1, <2>2
<1>3. ASSUME NEW k \in Keepers, KeepStep(k)
      PROVE  \A n \in Mutexes : Part(n)
  <2>1. Keeps(keys, keys') /\ OnlyKeeper(k)
    BY <1>0, <1>3, KeepStore, KeepFrame
  <2>2. ASSUME NEW n \in Mutexes PROVE Part(n)
    <3>1. \A g \in Hosts : keys[g].val = n =>
                             keys'[g].val = n /\ keys'[g].ttl >= keys[g].ttl
      BY <2>1, StoreAssumption DEF Keeps
    <3>2. pc'[n] = pc[n] \/ pc'[n] = "dead"
      BY <1>0, <2>1 DEF OnlyKeeper, Dies, Crash
    <3>3. UNCHANGED <<call, todo, cur, have_lock_num, age>>
      BY <2>1 DEF OnlyKeeper
    <3> QED BY <1>0, <3>1, <3>2, <3>3, FrameLease
  <2> QED BY <2>2
<1>4. ASSUME UNCHANGED <<keys, call, todo, cur, have_lock_num, age>>,
             \A n \in Mutexes : pc'[n] = pc[n] \/ pc'[n] = "dead"
      PROVE  \A n \in Mutexes : Part(n)
  <2>1. \A g \in Hosts : keys[g].ttl \in Int
    BY <1>0 DEF Store, Entry
  <2>2. ASSUME NEW n \in Mutexes PROVE Part(n)
    BY <1>0, <1>4, <2>1, FrameLease
  <2> QED BY <2>2
<1>5. CASE \/ \E p \in Processes : Kill(p)
           \/ \E m \in Mutexes : Drop(m)
           \/ UNCHANGED vars
  BY <1>4, <1>5 DEF Kill, Crash, Drop, vars, redisVars, userVars
<1>6. CASE Tick
  BY <1>6, TickLease
<1> QED BY <1>2, <1>3, <1>4, <1>5, <1>6 DEF Next, Mishap

\* The hosts have_lock_num_ lists are a majority: of m's keys, if they have m's.
LEMMA ListMajority ==
  ASSUME LeaseInv, NEW m \in Mutexes, pc[m] = "held", call[m] # "try_lock",
         \A h \in HostsOf(have_lock_num[m]) : keys[h].val = m
  PROVE  /\ OwnKeys(m) \subseteq Hosts /\ IsFiniteSet(Hosts)
         /\ Cardinality(OwnKeys(m)) \in Nat /\ Cardinality(Hosts) = HostCount
         /\ 2 * Cardinality(OwnKeys(m)) > HostCount
<1>1. IsFiniteSet(Hosts) /\ Cardinality(Hosts) = HostCount
  BY StoreAssumption, FS_Interval DEF Hosts
<1>2. OwnKeys(m) \in SUBSET Hosts
  BY DEF OwnKeys
<1>3. IsFiniteSet(OwnKeys(m)) /\ Cardinality(OwnKeys(m)) \in Nat
  BY <1>1, <1>2, FS_Subset, FS_CardinalityType
<1>4. /\ Cardinality(HostsOf(have_lock_num[m])) = Len(have_lock_num[m])
      /\ Len(have_lock_num[m]) >= Majority
  BY DEF LeaseInv, Listed, Tracked
<1>5. HostsOf(have_lock_num[m]) \subseteq Hosts /\ Len(have_lock_num[m]) \in Nat
  <2>1. have_lock_num[m] \in Seq(Hosts)
    BY DEF LeaseInv, DelInv, ConnInv, TypeOK
  <2> QED BY <2>1 DEF HostsOf
<1>6. HostsOf(have_lock_num[m]) \in SUBSET OwnKeys(m)
  BY <1>5 DEF OwnKeys
<1>7. Cardinality(HostsOf(have_lock_num[m])) <= Cardinality(OwnKeys(m))
  BY <1>3, <1>6, FS_Subset
<1>8. 2 * Majority > HostCount /\ Majority \in Nat
  BY StoreAssumption DEF Majority
<1> QED BY <1>1, <1>2, <1>3, <1>4, <1>5, <1>7, <1>8, StoreAssumption

\* Two DMutexes do not both have their keys in a majority of the databases.
LEMMA OneQuorum ==
  ASSUME NEW m, NEW n, IsFiniteSet(Hosts), Cardinality(Hosts) = HostCount,
         OwnKeys(m) \subseteq Hosts, OwnKeys(n) \subseteq Hosts,
         Cardinality(OwnKeys(m)) \in Nat, Cardinality(OwnKeys(n)) \in Nat,
         2 * Cardinality(OwnKeys(m)) > HostCount, 2 * Cardinality(OwnKeys(n)) > HostCount
  PROVE  m = n
<1>1. Cardinality(OwnKeys(m)) + Cardinality(OwnKeys(n)) > Cardinality(Hosts)
  BY StoreAssumption
<1>2. OwnKeys(m) \cap OwnKeys(n) # {}
  BY <1>1, FS_MajoritiesIntersect
<1> QED BY <1>2 DEF OwnKeys

LEMMA LeaseMajority ==
  ASSUME LeaseInv, NEW m \in Mutexes, Leased(m), call[m] # "try_lock"
  PROVE  \A h \in HostsOf(have_lock_num[m]) : keys[h].val = m
BY DEF LeaseInv, Backed, Tracked, Leased

\* The lease invariant holds for any number of DMutexes, hosts and events, any
\* validity time and period and any faults of connections, commands and
\* processes, as long as a DEL overtakes the expiry of the key its GET saw.
THEOREM LeaseInvariant ==
  ASSUME "delete" \in Prompt
  PROVE  Spec => []LeaseInv
<1>1. Init /\ DelInv => LeaseInv
  BY DEF Init, LeaseInv, Listed, Backed, Tracked
<1>2. LeaseInv /\ [Next]_vars /\ DelInv' => LeaseInv'
  BY LeaseStep
<1> QED BY <1>1, <1>2, DelInvariant, PTL DEF Spec

\* QuorumBacked of those who called lock() or try_lock(expire), whatever the
\* others call.
LockBacked ==
  \A m \in Mutexes :
    Leased(m) /\ call[m] # "try_lock" => 2 * Cardinality(OwnKeys(m)) > HostCount

\* LeaseExclusion of those who called lock() or try_lock(expire).
LockExclusion ==
  \A m, n \in Mutexes :
    Leased(m) /\ call[m] # "try_lock" /\ Leased(n) /\ call[n] # "try_lock" => m = n

\* A caller of try_lock(), whose count of locks may be stale, harms nobody else:
\* who got the lock from lock() or try_lock(expire) has a majority of the
\* databases until the validity time has passed, and shares it with no other
\* such DMutex.
THEOREM LockersUnharmed ==
  ASSUME "delete" \in Prompt
  PROVE  Spec => [](LockBacked /\ LockExclusion)
<1>1. LeaseInv => LockBacked
  BY LeaseMajority, ListMajority DEF LockBacked, Leased
<1>2. LeaseInv => LockExclusion
  <2> SUFFICES ASSUME LeaseInv, NEW m \in Mutexes, NEW n \in Mutexes,
                      Leased(m), call[m] # "try_lock", Leased(n), call[n] # "try_lock"
               PROVE  m = n
    BY DEF LockExclusion
  <2>1. pc[m] = "held" /\ pc[n] = "held"
    BY DEF Leased
  <2> QED BY <2>1, LeaseMajority, ListMajority, OneQuorum
<1> QED BY <1>1, <1>2, LeaseInvariant, PTL

NeverTries == \A m \in Mutexes : call[m] # "try_lock"

\* The call a user thread is in is one that users make.
LEMMA CallsMade ==
  ASSUME "try_lock" \notin Calls
  PROVE  Spec => []NeverTries
<1>1. Init => NeverTries
  BY DEF Init, NeverTries
<1>2. TypeOK /\ NeverTries /\ [Next]_vars => NeverTries'
  <2> SUFFICES ASSUME TypeOK, NeverTries, [Next]_vars PROVE NeverTries'
    OBVIOUS
  <2>1. ASSUME NEW m \in Mutexes, UserCall(m) \/ UserStep(m) \/ RelockUndefined(m)
        PROVE  NeverTries'
    <3>1. call'[m] \in {call[m], "unlock"} \cup Calls
      <4>1. ASSUME NEW c \in Calls, CallLock(m, c) PROVE call'[m] = c
        BY <4>1 DEF CallLock, TypeOK
      <4>2. ASSUME NEW h \in Hosts, Select(m, h) PROVE UNCHANGED call
        BY <4>2 DEF Select
      <4>3. CASE CallUnlock(m)
        BY <4>3 DEF CallUnlock, TypeOK
      <4>4. CASE \/ Set(m) \/ Count(m) \/ Grant(m) \/ Relock(m) \/ NotConnected(m)
                 \/ RelockUndefined(m) \/ UnlockStart(m) \/ Retry(m) \/ GiveUp(m)
        BY <4>4 DEF Set, Count, Grant, Relock, NotConnected, RelockUndefined, Throw,
           UnlockStart, Retry, GiveUp
      <4>5. CASE UnlockSelect(m) \/ UnlockExists(m) \/ UnlockGet(m) \/ UnlockDel(m)
        BY <4>5 DEF UnlockSelect, UnlockExists, UnlockGet, UnlockDel, UnlockGoesOn
      <4> QED BY <2>1, <4>1, <4>2, <4>3, <4>4, <4>5 DEF UserCall, UserStep
    <3>2. \A n \in Mutexes \ {m} : call'[n] = call[n]
      BY <2>1, UserFrame DEF OnlyUser
    <3> QED BY <3>1, <3>2 DEF NeverTries
  <2>2. ASSUME NEW k \in Keepers, KeepStep(k) PROVE NeverTries'
    BY <2>2, KeepFrame DEF OnlyKeeper, NeverTries
  <2>3. CASE \/ \E p \in Processes : Kill(p)
             \/ \E m \in Mutexes : Drop(m)
             \/ Tick \/ UNCHANGED vars
    BY <2>3 DEF Kill, Drop, Tick, vars, userVars, NeverTries
  <2> QED BY <2>1, <2>2, <2>3 DEF Next, Mishap
<1> QED BY <1>1, <1>2, TypeCorrect, PTL DEF Spec

\* Whoever lock() or try_lock(expire) gave the lock owns unexpired keys in more
\* than half of the databases until the validity time has passed.
THEOREM QuorumIsBacked ==
  ASSUME "delete" \in Prompt, "try_lock" \notin Calls
  PROVE  Spec => []QuorumBacked
<1>1. LockBacked /\ NeverTries => QuorumBacked
  BY DEF LockBacked, NeverTries, QuorumBacked
<1> QED BY <1>1, LockersUnharmed, CallsMade, PTL

\* Mutual exclusion: no two DMutexes rely on the lock within its validity time.
THEOREM LeasesExclude ==
  ASSUME "delete" \in Prompt, "try_lock" \notin Calls
  PROVE  Spec => []LeaseExclusion
<1>1. LockExclusion /\ NeverTries => LeaseExclusion
  BY DEF LockExclusion, NeverTries, LeaseExclusion
<1> QED BY <1>1, LockersUnharmed, CallsMade, PTL
=============================================================================
