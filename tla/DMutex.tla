------------------------------- MODULE DMutex -------------------------------
(***************************************************************************)
(* The distributed mutex: class DMutexImpl (src/dmutex.cpp).  Every DMutex   *)
(* object m is driven by one user thread, which calls lock(), try_lock(),    *)
(* try_lock(expire) and unlock(), and by the renewal events MainLockFunction *)
(* pushes into the process-wide TimeoutQueue: a due event runs KeepLock() on  *)
(* a worker thread.  All the threads of a process synchronise on the static  *)
(* std::mutex DMutexImpl::mtx_; threads of different processes meet only in  *)
(* the Redis server.                                                        *)
(*                                                                         *)
(* Time is relative and discrete (Tick).  The timeout queue is abstracted to  *)
(* what KeepLock can observe of it: an event runs at some moment after its    *)
(* timeout, and is queued again when the call returned true.  The queue       *)
(* itself is module TimeoutQueue.                                           *)
(***************************************************************************)
EXTENDS DBRedis, Integers, FiniteSets

CONSTANTS
  Processes,      \* operating-system processes
  ProcOf,         \* the process every DMutex lives in
  Calls,          \* which of the three locking calls the users make
  MaxEvents,      \* renewal events alive per DMutex (bound)
  RunTime,        \* run_time_ in ticks
  TimeOutLimit,   \* time_out_limit_ in ticks
  RetryPause,     \* the pause of try_lock(expire), 2000 ms in the code
  Expire,         \* the argument of try_lock(expire)
  Prompt,         \* timing assumptions: what the clock waits for (see Tick)
  Horizon         \* bound: number of ticks, 0 for no bound

ASSUME MutexAssumption ==
  /\ ProcOf \in [Mutexes -> Processes]
  /\ Calls \subseteq {"lock", "try_lock", "try_lock_for"}
  /\ MaxEvents \in Nat \ {0}
  /\ RunTime \in Nat /\ TimeOutLimit \in Nat
  /\ RetryPause \in Nat /\ Expire \in Nat
  /\ Horizon \in Nat
  /\ Prompt \subseteq {"delete", "acquire", "renew"}

Slots   == 1..MaxEvents
Keepers == Mutexes \X Slots
Threads == Mutexes \X (0..MaxEvents)
User(m) == <<m, 0>>       \* the thread that owns and uses m

ASSUME NobodyAssumption == Nobody \notin Threads

VARIABLES
  mtx,            \* holder of DMutexImpl::mtx_ in each process, or Nobody
  pc,             \* where the user thread of each DMutex is
  call,           \* the call it is in
  todo,           \* hosts MainLockFunction has not visited yet
  cur,            \* the host it visits, or the host UnlockAll visits
  have_lock_num,  \* have_lock_num_
  age,            \* time since start_time_milliseconds of the current attempt
                  \* or, once the lock is held, of the successful one (to AgeCap)
  wake,           \* time left to sleep in WaitUntil
  since,          \* time since try_lock(expire) was called (to Expire)
  lock_status, lock_continue,
  kpc,            \* where each renewal event, or the KeepLock it runs, is
  kidx,           \* lock_index of that KeepLock
  due,            \* time left until the event times out; below 0, how long
                  \* ago it did (to Period)
  clock           \* ticks so far, counted only when there is a Horizon

userVars == <<pc, call, todo, cur, have_lock_num, age, wake, since>>
flagVars == <<lock_status, lock_continue>>
keepVars == <<kpc, kidx, due>>
vars     == <<redisVars, mtx, userVars, flagVars, keepVars, clock>>

\* Elapsed time is compared with Validity and TimeOutLimit only.
AgeCap == IF Validity > TimeOutLimit THEN Validity + 1 ELSE TimeOutLimit + 1

\* lock_validity_time_ / 3 * 2 and run_time_ / 3 * 2, in integer arithmetic
LockPause == (Validity \div 3) * 2
Period_Whole == RunTime      \* variant for mutation: no margin
Period    == (RunTime \div 3) * 2

Majority_Half == HostCount \div 2   \* variant for mutation: off by one
Majority == (HostCount \div 2) + 1

UserPC == {"idle", "pick", "again", "set", "grant", "held", "unlock",
           "uselect", "uexists", "uget", "udel", "sleep", "dead"}
KeepPC == {"free", "queued", "check", "lock", "exists", "set", "get", "pexpire"}

TypeOK ==
  /\ RedisTypeOK
  /\ mtx \in [Processes -> Threads \cup {Nobody}]
  /\ pc \in [Mutexes -> UserPC]
  /\ call \in [Mutexes -> {"none", "lock", "try_lock", "try_lock_for", "unlock"}]
  /\ todo \in [Mutexes -> SUBSET Hosts]
  /\ cur \in [Mutexes -> Hosts]
  /\ have_lock_num \in [Mutexes -> Seq(Hosts)]
  /\ age \in [Mutexes -> 0..AgeCap]
  /\ wake \in [Mutexes -> Nat]
  /\ since \in [Mutexes -> 0..Expire]
  /\ lock_status \in [Mutexes -> BOOLEAN]
  /\ lock_continue \in [Mutexes -> BOOLEAN]
  /\ kpc \in [Keepers -> KeepPC]
  /\ kidx \in [Keepers -> Nat]
  /\ due \in [Keepers -> Int]
  /\ clock \in 0..Horizon

Init ==
  /\ RedisInit
  /\ mtx = [p \in Processes |-> Nobody]
  /\ pc = [m \in Mutexes |-> "idle"]
  /\ call = [m \in Mutexes |-> "none"]
  /\ todo = [m \in Mutexes |-> {}]
  /\ cur = [m \in Mutexes |-> 1]
  /\ have_lock_num = [m \in Mutexes |-> <<>>]
  /\ age = [m \in Mutexes |-> 0]
  /\ wake = [m \in Mutexes |-> 0]
  /\ since = [m \in Mutexes |-> 0]
  /\ lock_status = [m \in Mutexes |-> FALSE]
  /\ lock_continue = [m \in Mutexes |-> TRUE]
  /\ kpc = [k \in Keepers |-> "free"]
  /\ kidx = [k \in Keepers |-> 1]
  /\ due = [k \in Keepers |-> 0]
  /\ clock = 0

(***************************************************************************)
(* The static mutex mtx_.                                                   *)
(***************************************************************************)
Holds(t)   == mtx[ProcOf[t[1]]] = t
IsFree(t)  == mtx[ProcOf[t[1]]] = Nobody
Acquire_NoWait(t) ==    \* variant for mutation: mtx_ excludes nobody
  mtx' = [mtx EXCEPT ![ProcOf[t[1]]] = t]
Acquire(t) == IsFree(t) /\ mtx' = [mtx EXCEPT ![ProcOf[t[1]]] = t]
Release(t) == mtx' = [mtx EXCEPT ![ProcOf[t[1]]] = IF @ = t THEN Nobody ELSE @]

Goto(m, l) == pc' = [pc EXCEPT ![m] = l]

\* Variant for mutation: mtx_ is not given back.
Leave_KeepMtx(m, l) ==
  /\ Goto(m, l)
  /\ todo' = [todo EXCEPT ![m] = {}]
  /\ cur'  = [cur EXCEPT ![m] = 1]
  /\ age'  = [age EXCEPT ![m] = 0]
  /\ UNCHANGED mtx

\* A call returns or throws: its local variables are gone and the
\* std::unique_lock gives mtx_ back.
Leave(m, l) ==
  /\ Goto(m, l)
  /\ Release(User(m))
  /\ todo' = [todo EXCEPT ![m] = {}]
  /\ cur'  = [cur EXCEPT ![m] = 1]
  /\ age'  = [age EXCEPT ![m] = 0]

Throw(m) == Leave(m, "idle") /\ UNCHANGED <<have_lock_num, wake, since, call>>

-----------------------------------------------------------------------------
(***************************************************************************)
(* The user thread: Lock, TryLock, TryLock(expire) and MainLockFunction.     *)
(***************************************************************************)

\* Variant for mutation: no caller clears have_lock_num_.
BeginAttempt_NoClear(m, c) ==
  /\ todo' = [todo EXCEPT ![m] = Hosts]
  /\ age'  = [age EXCEPT ![m] = 0]
  /\ Goto(m, "pick")
  /\ UNCHANGED have_lock_num

\* Enter MainLockFunction.  Lock and TryLock(expire) clear have_lock_num_
\* first, TryLock does not.
BeginAttempt(m, c) ==
  /\ todo' = [todo EXCEPT ![m] = Hosts]
  /\ age'  = [age EXCEPT ![m] = 0]
  /\ have_lock_num' = IF c = "try_lock" THEN have_lock_num
                                        ELSE [have_lock_num EXCEPT ![m] = <<>>]
  /\ Goto(m, "pick")

\* The least slot that holds no event.
FreeSlots(m) == {s \in Slots : kpc[<<m, s>>] = "free"}
FreeSlot(m)  == CHOOSE s \in FreeSlots(m) : \A t \in FreeSlots(m) : s <= t

\* Bounds: a user calls again only when fewer than MaxEvents of its events are
\* left, and try_lock(), which never clears have_lock_num_, only until that
\* has outgrown the number of hosts.
CallLock(m, c) ==
  /\ pc[m] = "idle" /\ c \in Calls
  /\ FreeSlots(m) # {}
  /\ c = "try_lock" => Len(have_lock_num[m]) <= HostCount
  /\ BeginAttempt(m, c)
  /\ call'  = [call EXCEPT ![m] = c]
  /\ since' = [since EXCEPT ![m] = 0]
  /\ UNCHANGED <<redisVars, mtx, cur, wake, flagVars, keepVars>>

\* Variant for mutation: the result of SelectDB is ignored.
Select_Unchecked(m, h) ==
  /\ \/ pc[m] = "pick" /\ h \in todo[m]
     \/ pc[m] = "again" /\ h = cur[m]
  /\ Acquire(User(m))
  /\ \E fate \in Fates :
       LET res == SelectResult(ReplyTo(fate, SelectReply(h))) IN
       /\ Command(m, fate, keys)
       /\ sel' = IF res = "kSelectDBSucceed" THEN [sel EXCEPT ![m] = h] ELSE sel
  /\ Goto(m, "set")
  /\ todo' = [todo EXCEPT ![m] = @ \ {h}]
  /\ cur'  = [cur EXCEPT ![m] = h]
  /\ UNCHANGED <<call, have_lock_num, age, wake, since, flagVars, keepVars>>

\* Lock mtx_ and SELECT the next host of the shuffled list, or the same host
\* again after a failed SET.  When SELECT fails mtx_ stays locked.
Select(m, h) ==
  /\ \/ pc[m] = "pick" /\ h \in todo[m]
     \/ pc[m] = "again" /\ h = cur[m]
  /\ Acquire(User(m))
  /\ \E fate \in Fates :
       LET res == SelectResult(ReplyTo(fate, SelectReply(h))) IN
       /\ Command(m, fate, keys)
       /\ sel' = IF res = "kSelectDBSucceed" THEN [sel EXCEPT ![m] = h] ELSE sel
       /\ Goto(m, IF res = "kSelectDBSucceed" THEN "set" ELSE "pick")
  /\ todo' = [todo EXCEPT ![m] = @ \ {h}]
  /\ cur'  = [cur EXCEPT ![m] = h]
  /\ UNCHANGED <<call, have_lock_num, age, wake, since, flagVars, keepVars>>

\* SetKeyValue on the selected database, then unlock mtx_.  A failure other
\* than kKeyExist is retried until time_out_limit_ has passed.
Set(m) ==
  /\ pc[m] = "set"
  /\ \E fate \in Fates :
       LET res == SetKeyValueResult(ReplyTo(fate, SetReply(sel[m]))) IN
       /\ Command(m, fate, SetKeyValue(sel[m], m))
       /\ have_lock_num' =
            IF res = "kSetKeySucceed"
            THEN [have_lock_num EXCEPT ![m] = Append(@, cur[m])]
            ELSE have_lock_num
       /\ Goto(m, IF res = "kSetKeyFailed" /\ age[m] < TimeOutLimit
                  THEN "again" ELSE "pick")
  /\ Release(User(m))
  /\ UNCHANGED <<sel, call, todo, cur, age, wake, since, flagVars, keepVars>>

\* All hosts visited: did we get a majority, and is the lock still valid?
Count(m) ==
  /\ pc[m] = "pick" /\ todo[m] = {}
  /\ Goto(m, IF Len(have_lock_num[m]) >= Majority /\ age[m] <= Validity
             THEN "grant" ELSE "unlock")
  /\ UNCHANGED <<redisVars, mtx, call, todo, cur, have_lock_num, age, wake, since,
                 flagVars, keepVars>>

\* Under mtx_: mark the lock as held and push the renewal event.
Grant(m) ==
  /\ pc[m] = "grant" /\ IsFree(User(m))
  /\ lock_status'   = [lock_status EXCEPT ![m] = TRUE]
  /\ lock_continue' = [lock_continue EXCEPT ![m] = TRUE]
  /\ kpc' = [kpc EXCEPT ![<<m, FreeSlot(m)>>] = "queued"]
  /\ due' = [due EXCEPT ![<<m, FreeSlot(m)>>] = Period]
  /\ Goto(m, "held")
  /\ UNCHANGED <<redisVars, mtx, call, todo, cur, have_lock_num, age, wake, since, kidx>>

\* lck.lock() on a std::unique_lock that already owns mtx_ (a SELECT failed):
\* std::system_error, resource_deadlock_would_occur.
Relock(m) ==
  /\ Holds(User(m))
  /\ (pc[m] = "pick" /\ todo[m] # {}) \/ pc[m] = "grant"
  /\ Throw(m)
  /\ UNCHANGED <<redisVars, flagVars, keepVars>>

\* UnlockAll locks mtx_ with a second std::unique_lock while the first one of
\* the same thread owns it: undefined behaviour, the thread blocks for ever or
\* the library throws.
RelockUndefined(m) ==
  /\ pc[m] = "unlock" /\ Holds(User(m))
  /\ Throw(m)
  /\ UNCHANGED <<redisVars, flagVars, keepVars>>

\* sync_commit on a closed connection throws redis_error.
NotConnected(m) ==
  /\ ~conn[m]
  /\ \/ pc[m] \in {"set", "uselect", "uexists", "uget", "udel"}
     \/ pc[m] = "pick" /\ todo[m] # {} /\ IsFree(User(m))
     \/ pc[m] = "again" /\ IsFree(User(m))
  /\ Throw(m)
  /\ UNCHANGED <<redisVars, flagVars, keepVars>>

-----------------------------------------------------------------------------
(***************************************************************************)
(* The user thread: UnlockAll, from unlock() or after a failed attempt.  It  *)
(* holds mtx_ from beginning to end.                                        *)
(***************************************************************************)
CallUnlock(m) ==
  /\ pc[m] = "held"
  /\ call' = [call EXCEPT ![m] = "unlock"]
  /\ Goto(m, "unlock")
  /\ UNCHANGED <<redisVars, mtx, todo, cur, have_lock_num, age, wake, since,
                 flagVars, keepVars>>

UnlockStart(m) ==
  /\ pc[m] = "unlock"
  /\ Acquire(User(m))
  /\ lock_status'   = [lock_status EXCEPT ![m] = FALSE]
  /\ lock_continue' = [lock_continue EXCEPT ![m] = FALSE]
  /\ cur' = [cur EXCEPT ![m] = 1]
  /\ age' = [age EXCEPT ![m] = 0]    \* not read again
  /\ Goto(m, "uselect")
  /\ UNCHANGED <<redisVars, call, todo, have_lock_num, wake, since, keepVars>>

\* Where the caller of UnlockAll goes next, and how long it sleeps there.
Resume(m) == IF call[m] \in {"lock", "try_lock_for"} THEN "sleep" ELSE "idle"
Pause(m)  == CASE call[m] = "lock"         -> LockPause
               [] call[m] = "try_lock_for" -> RetryPause
               [] OTHER                    -> 0

\* Variant for mutation: one host too many.
UnlockNext_OneMore(m) ==
  IF cur[m] <= HostCount
  THEN /\ cur' = [cur EXCEPT ![m] = @ + 1]
       /\ Goto(m, "uselect")
       /\ UNCHANGED <<mtx, wake, todo, age>>
  ELSE /\ Leave(m, Resume(m))
       /\ wake' = [wake EXCEPT ![m] = Pause(m)]

\* Go on with the next host; after the last one unlock mtx_ and return.
UnlockNext(m) ==
  IF cur[m] < HostCount
  THEN /\ cur' = [cur EXCEPT ![m] = @ + 1]
       /\ Goto(m, "uselect")
       /\ UNCHANGED <<mtx, wake, todo, age>>
  ELSE /\ Leave(m, Resume(m))
       /\ wake' = [wake EXCEPT ![m] = Pause(m)]

\* Continue UnlockAll after a command with outcome res: go on at l, or with
\* the next host, or leave with an exception.
UnlockGoesOn(m, res, l) ==
  /\ CASE res = "throw" -> Throw(m)
       [] res = "go"    -> Goto(m, l) /\ UNCHANGED <<mtx, cur, wake, todo, age>>
       [] OTHER         -> UnlockNext(m)
  /\ UNCHANGED <<call, have_lock_num, since, flagVars, keepVars>>

UnlockSelect(m) ==
  /\ pc[m] = "uselect"
  /\ \E fate \in Fates :
       LET ok == SelectResult(ReplyTo(fate, SelectReply(cur[m]))) = "kSelectDBSucceed" IN
       /\ Command(m, fate, keys)
       /\ sel' = IF ok THEN [sel EXCEPT ![m] = cur[m]] ELSE sel
       /\ UnlockGoesOn(m, IF ok THEN "go" ELSE "next", "uexists")

\* Variant for mutation: the key is deleted without looking at its value.
UnlockExists_NoGet(m) ==
  /\ pc[m] = "uexists"
  /\ \E fate \in Fates :
       LET res == AfterExists(ReplyTo(fate, ExistsReply(sel[m]))) IN
       /\ Command(m, fate, keys)
       /\ UnlockGoesOn(m, IF res = "present" THEN "go" ELSE res, "udel")
  /\ UNCHANGED sel

UnlockExists(m) ==
  /\ pc[m] = "uexists"
  /\ \E fate \in Fates :
       LET res == AfterExists(ReplyTo(fate, ExistsReply(sel[m]))) IN
       /\ Command(m, fate, keys)
       /\ UnlockGoesOn(m, IF res = "present" THEN "go" ELSE res, "uget")
  /\ UNCHANGED sel

UnlockGet(m) ==
  /\ pc[m] = "uget"
  /\ \E fate \in Fates :
       LET res == AfterGet(ReplyTo(fate, GetReply(sel[m])), m) IN
       /\ Command(m, fate, keys)
       /\ UnlockGoesOn(m, IF res = "match" THEN "go" ELSE res, "udel")
  /\ UNCHANGED sel

\* The number of keys deleted only decides UnlockAll's result, which none of
\* its callers looks at.
UnlockDel(m) ==
  /\ pc[m] = "udel"
  /\ \E fate \in Fates :
       /\ Command(m, fate, DelKey(keys, sel[m]))
       /\ UnlockGoesOn(m, DelResult(ReplyTo(fate, TouchedReply(sel[m]))), "uselect")
  /\ UNCHANGED sel

\* WaitUntil is over: Lock tries again, TryLock(expire) while time remains.
Retry(m) ==
  /\ pc[m] = "sleep" /\ wake[m] = 0
  /\ call[m] = "lock" \/ since[m] < Expire
  /\ BeginAttempt(m, call[m])
  /\ UNCHANGED <<redisVars, mtx, call, cur, wake, since, flagVars, keepVars>>

GiveUp(m) ==
  /\ pc[m] = "sleep" /\ wake[m] = 0
  /\ call[m] # "lock" /\ since[m] >= Expire
  /\ Goto(m, "idle")
  /\ UNCHANGED <<redisVars, mtx, call, todo, cur, have_lock_num, age, wake, since,
                 flagVars, keepVars>>

-----------------------------------------------------------------------------
(***************************************************************************)
(* A worker thread of the timeout queue running KeepLock for keeper k.       *)
(***************************************************************************)

\* An exception out of a worker thread, or a signal, ends the process.
Crash(p) ==
  /\ pc'  = [m \in Mutexes |-> IF ProcOf[m] = p THEN "dead" ELSE pc[m]]
  /\ kpc' = [k \in Keepers |-> IF ProcOf[k[1]] = p THEN "free" ELSE kpc[k]]
  /\ mtx' = [mtx EXCEPT ![p] = Nobody]

KeepGoto(k, l) == kpc' = [kpc EXCEPT ![k] = l]

\* Release mtx_ and go back to the loop condition with index i.
KeepLoop(k, i) ==
  /\ KeepGoto(k, "check")
  /\ kidx' = [kidx EXCEPT ![k] = i]
  /\ Release(k)

\* KeepLock returned true: the worker adds the period to the event's timeout
\* and queues it again; an event that was late by more than the period is due
\* at once.
Requeue(k) ==
  /\ KeepGoto(k, "queued")
  /\ kidx' = [kidx EXCEPT ![k] = 1]
  /\ due'  = [due EXCEPT ![k] = @ + Period]

\* The event timed out, a worker runs it: KeepLock up to its first unlock.
KeepStart(k) ==
  /\ kpc[k] = "queued" /\ due[k] <= 0
  /\ IsFree(k)
  /\ CASE ~lock_continue[k[1]] -> /\ KeepGoto(k, "free")
                                  /\ due' = [due EXCEPT ![k] = 0]
                                  /\ UNCHANGED kidx
       [] lock_continue[k[1]] /\ ~lock_status[k[1]] -> Requeue(k)
       [] OTHER -> KeepGoto(k, "check") /\ UNCHANGED <<kidx, due>>
  /\ UNCHANGED <<redisVars, mtx, userVars, flagVars>>

\* The loop condition, evaluated without mtx_ unless a SELECT just failed.
KeepCheck(k) ==
  /\ kpc[k] = "check"
  /\ IF kidx[k] <= Len(have_lock_num[k[1]])
     THEN KeepGoto(k, "lock") /\ UNCHANGED <<mtx, kidx, due>>
     ELSE Requeue(k) /\ Release(k)
  /\ UNCHANGED <<redisVars, userVars, flagVars>>

\* Lock mtx_, read have_lock_num_[lock_index] and SELECT that database.  The
\* user thread may have cleared the vector since the loop condition was
\* evaluated: the read then yields a host left over in its storage.
KeepSelect(k) ==
  LET m == k[1] IN
  /\ kpc[k] = "lock"
  /\ Acquire(k)
  /\ \E h \in Hosts, fate \in Fates :
       LET ok == SelectResult(ReplyTo(fate, SelectReply(h))) = "kSelectDBSucceed" IN
       /\ kidx[k] <= Len(have_lock_num[m]) => h = have_lock_num[m][kidx[k]]
       /\ Command(m, fate, keys)
       /\ sel'  = IF ok THEN [sel EXCEPT ![m] = h] ELSE sel
       /\ KeepGoto(k, IF ok THEN "exists" ELSE "check")
       /\ kidx' = [kidx EXCEPT ![k] = IF ok THEN @ ELSE @ + 1]
  /\ UNCHANGED <<userVars, flagVars, due>>

KeepExists(k) ==
  /\ kpc[k] = "exists"
  /\ \E fate \in Fates :
       LET res == AfterExists(ReplyTo(fate, ExistsReply(sel[k[1]]))) IN
       /\ Command(k[1], fate, keys)
       /\ CASE res = "throw"  -> Crash(ProcOf[k[1]])
            [] res = "absent" -> KeepGoto(k, "set") /\ UNCHANGED <<pc, mtx>>
            [] OTHER          -> KeepGoto(k, "get") /\ UNCHANGED <<pc, mtx>>
  /\ UNCHANGED <<sel, call, todo, cur, have_lock_num, age, wake, since, flagVars,
                 kidx, due>>

\* The key is gone: UpdateExpire sets it anew and returns SetKeyValue's
\* result.  None of these is kUpdateKeySucceed, so KeepLock tries again.
KeepSet(k) ==
  /\ kpc[k] = "set"
  /\ \E fate \in Fates : Command(k[1], fate, SetKeyValue(sel[k[1]], k[1]))
  /\ KeepLoop(k, kidx[k])
  /\ UNCHANGED <<sel, userVars, flagVars, due>>

KeepGet(k) ==
  /\ kpc[k] = "get"
  /\ \E fate \in Fates :
       LET res == AfterGet(ReplyTo(fate, GetReply(sel[k[1]])), k[1]) IN
       /\ Command(k[1], fate, keys)
       /\ CASE res = "throw" -> Crash(ProcOf[k[1]]) /\ UNCHANGED kidx
            [] res = "match" -> KeepGoto(k, "pexpire") /\ UNCHANGED <<pc, mtx, kidx>>
            [] OTHER         -> KeepLoop(k, kidx[k]) /\ UNCHANGED pc
  /\ UNCHANGED <<sel, call, todo, cur, have_lock_num, age, wake, since, flagVars, due>>

\* Variant for mutation: the index is not advanced.
KeepPexpire_SameHost(k) ==
  /\ kpc[k] = "pexpire"
  /\ \E fate \in Fates :
       LET res == UpdateResult(ReplyTo(fate, TouchedReply(sel[k[1]]))) IN
       /\ Command(k[1], fate, PExpire(keys, sel[k[1]]))
       /\ IF res = "throw"
          THEN Crash(ProcOf[k[1]]) /\ UNCHANGED kidx
          ELSE KeepLoop(k, kidx[k]) /\ UNCHANGED pc
  /\ UNCHANGED <<sel, call, todo, cur, have_lock_num, age, wake, since, flagVars, due>>

KeepPexpire(k) ==
  /\ kpc[k] = "pexpire"
  /\ \E fate \in Fates :
       LET res == UpdateResult(ReplyTo(fate, TouchedReply(sel[k[1]]))) IN
       /\ Command(k[1], fate, PExpire(keys, sel[k[1]]))
       /\ IF res = "throw"
          THEN Crash(ProcOf[k[1]]) /\ UNCHANGED kidx
          ELSE /\ KeepLoop(k, IF res = "kUpdateKeySucceed" THEN kidx[k] + 1 ELSE kidx[k])
               /\ UNCHANGED pc
  /\ UNCHANGED <<sel, call, todo, cur, have_lock_num, age, wake, since, flagVars, due>>

\* What else ends the process from KeepLock: locking mtx_ again after a failed
\* SELECT, a closed connection, and, in a debug build, the checked
\* vector::operator[] when the vector was cleared meanwhile.
KeepThrows(k) ==
  /\ \/ kpc[k] = "lock" /\ Holds(k)
     \/ kpc[k] = "lock" /\ IsFree(k) /\ ~conn[k[1]]
     \/ kpc[k] = "lock" /\ IsFree(k) /\ kidx[k] > Len(have_lock_num[k[1]])
     \/ kpc[k] \in {"exists", "set", "get", "pexpire"} /\ ~conn[k[1]]
  /\ Crash(ProcOf[k[1]])
  /\ UNCHANGED <<redisVars, call, todo, cur, have_lock_num, age, wake, since,
                 flagVars, kidx, due>>

-----------------------------------------------------------------------------
(***************************************************************************)
(* The environment: the loss of a connection, the end of a process and the   *)
(* passing of time.                                                         *)
(***************************************************************************)
\* A connection breaks between two commands: nobody is told, the next command
\* throws.
Drop(m) ==
  /\ "lost" \in FaultKinds /\ faults > 0 /\ conn[m]
  /\ faults' = faults - 1
  /\ conn'   = [conn EXCEPT ![m] = FALSE]
  /\ UNCHANGED <<keys, sel, mtx, userVars, flagVars, keepVars>>

Kill(p) ==
  /\ "kill" \in FaultKinds /\ faults > 0
  /\ \E m \in Mutexes : ProcOf[m] = p /\ pc[m] # "dead"
  /\ faults' = faults - 1
  /\ Crash(p)
  /\ UNCHANGED <<keys, sel, conn, call, todo, cur, have_lock_num, age, wake, since,
                 flagVars, kidx, due>>

Attempting(m) == pc[m] \in {"pick", "again", "set", "grant"}
Renewing(k)   == /\ pc[k[1]] = "held"
                 /\ kpc[k] # "free" /\ (kpc[k] = "queued" => due[k] <= 0)

Minus1(n)      == IF n > 0 THEN n - 1 ELSE 0
Plus1(n, cap)  == IF n < cap THEN n + 1 ELSE cap

\* One tick of the clock.  Prompt names what happens within a tick:
\*   delete   the DEL that follows a matching GET, as far as the key would
\*            expire between the two
\*   acquire  the visit of all hosts in MainLockFunction
\*   renew    a KeepLock call for a held lock, from its timeout to its return
Tick ==
  /\ "delete"  \in Prompt => \A m \in Mutexes : pc[m] = "udel" => keys[sel[m]].ttl # 1
  /\ "acquire" \in Prompt => \A m \in Mutexes : ~Attempting(m)
  /\ "renew"   \in Prompt => \A k \in Keepers : ~Renewing(k)
  /\ Horizon > 0 => clock < Horizon
  /\ clock' = IF Horizon > 0 THEN clock + 1 ELSE clock
  /\ keys'  = Elapse(keys)
  /\ age'   = [m \in Mutexes |-> IF Attempting(m) \/ pc[m] = "held"
                                  THEN Plus1(age[m], AgeCap) ELSE age[m]]
  /\ wake'  = [m \in Mutexes |-> Minus1(wake[m])]
  /\ since' = [m \in Mutexes |-> IF call[m] = "try_lock_for"
                                  THEN Plus1(since[m], Expire) ELSE since[m]]
  /\ due'   = [k \in Keepers |-> IF kpc[k] # "free" /\ due[k] > -Period
                                 THEN due[k] - 1 ELSE due[k]]
  /\ UNCHANGED <<sel, conn, faults, mtx, pc, call, todo, cur, have_lock_num,
                 flagVars, kpc, kidx>>

\* What the user decides, what the threads do by themselves, and the rest.
UserCall(m) ==
  /\ \/ \E c \in Calls : CallLock(m, c)
     \/ CallUnlock(m)
  /\ UNCHANGED clock

UserStep(m) ==
  /\ \/ \E h \in Hosts : Select(m, h)
     \/ Set(m) \/ Count(m) \/ Grant(m) \/ Relock(m) \/ NotConnected(m)
     \/ UnlockStart(m) \/ UnlockSelect(m) \/ UnlockExists(m) \/ UnlockGet(m)
     \/ UnlockDel(m) \/ Retry(m) \/ GiveUp(m)
  /\ UNCHANGED clock

KeepStep(k) ==
  /\ \/ KeepStart(k) \/ KeepCheck(k) \/ KeepSelect(k) \/ KeepExists(k)
     \/ KeepSet(k) \/ KeepGet(k) \/ KeepPexpire(k) \/ KeepThrows(k)
  /\ UNCHANGED clock

Mishap ==
  /\ \/ \E m \in Mutexes : RelockUndefined(m) \/ Drop(m)
     \/ \E p \in Processes : Kill(p)
  /\ UNCHANGED clock

Next ==
  \/ \E m \in Mutexes : UserCall(m) \/ UserStep(m)
  \/ \E k \in Keepers : KeepStep(k)
  \/ Mishap
  \/ Tick

Spec == Init /\ [][Next]_vars

\* A thread that can go on does so, and time passes whatever the threads do (so
\* strongly fair where Tick waits for them).  The users need not make
\* calls, and undefined behaviour and faults need not happen.
FairSpec ==
  /\ Spec
  /\ \A m \in Mutexes : WF_vars(UserStep(m))
  /\ \A k \in Keepers : WF_vars(KeepStep(k))
  /\ SF_vars(Tick)

-----------------------------------------------------------------------------
(***************************************************************************)
(* Safety.                                                                  *)
(***************************************************************************)
OwnKeys(m) == {h \in Hosts : keys[h].val = m}

\* The promise of the distlock algorithm: the lock is safe to rely on until
\* the validity time, counted from the start of the attempt, has passed.
Leased(m) == pc[m] = "held" /\ age[m] < Validity

\* A DMutex whose lock() or try_lock(expire) succeeded owns unexpired keys in
\* more than half of the databases until the validity time has passed: neither
\* expiry nor an unlock() or KeepLock() of anybody takes them away.
QuorumBacked == \A m \in Mutexes : Leased(m) => 2 * Cardinality(OwnKeys(m)) > HostCount

\* Two DMutexes never rely on the lock at the same time, renewals or not.
LeaseExclusion == \A m, n \in Mutexes : Leased(m) /\ Leased(n) => m = n

\* With renewals in time, the lock is exclusive from the return of lock() to
\* the call of unlock(), however long that is.
HeldExclusion ==
  \A m, n \in Mutexes : pc[m] = "held" /\ pc[n] = "held" => m = n

\* A key disappears only when its time is up or when the UnlockAll of the
\* DMutex that set it deletes it: DelKeyValue deletes no foreign key.
KeysLostOnlyByOwner ==
  [][\A m \in Mutexes : \A h \in Hosts :
       keys[h].val = m /\ keys'[h].val # m =>
         Tick \/ (pc[m] = "udel" /\ sel[m] = h)]_vars

\* SetKeyValue and DelKeyValue of the user thread talk to the database this
\* thread selected, although KeepLock selects databases on the same connection.
RightDatabase ==
  \A m \in Mutexes : pc[m] \in {"set", "uexists", "uget", "udel"} => sel[m] = cur[m]

\* lock() ends only with the lock ("try to get lock until get lock").
LockReturnsHolding ==
  [][\A m \in Mutexes : pc[m] # "idle" /\ call[m] = "lock" => pc'[m] # "idle"]_vars

\* A KeepLock of a DMutex that holds the lock, be it the one its lock() asked for
\* or one left over from an earlier lock(), talks to the database of the host at
\* lock_index and finds its own key there: the renewal comes before the key
\* expires, never has to set it anew and never waits for another DMutex.  An
\* index beyond the end of have_lock_num_ is HolderSurvives.
RenewalFindsKey ==
  \A k \in Keepers :
    LET m == k[1] IN
    /\ pc[m] = "held"
    /\ kpc[k] \in {"exists", "set", "get", "pexpire"}
    /\ kidx[k] <= Len(have_lock_num[m])
    => /\ sel[m] = have_lock_num[m][kidx[k]]
       /\ keys[sel[m]].val = m
       /\ kpc[k] # "set"

\* No KeepLock call ends the process of a DMutex that holds the lock.  It does
\* when the key expires between the EXISTS and the GET of UpdateExpire, whose
\* exception nobody catches, and when have_lock_num_ was cleared by a later
\* lock() while a KeepLock was about to index it.
HolderSurvives ==
  [][\A m \in Mutexes : pc[m] = "held" => pc'[m] # "dead"]_vars

(***************************************************************************)
(* Refinement: the databases implement a lock with leases.                   *)
(***************************************************************************)

\* A DMutex has a majority for t more ticks.
SafeFor(m, t) == 2 * Cardinality({h \in OwnKeys(m) : keys[h].ttl >= t}) > HostCount

Held == {m \in Mutexes : pc[m] = "held"}

\* The lease of a holder: the time until the first tick without a majority.
LeaseOf(m) ==
  IF m \notin Held THEN 0
  ELSE Cardinality({t \in 1..Validity : SafeFor(m, t)})

Lease == INSTANCE LeaseLock WITH Clients <- Mutexes, Term <- Validity,
                                 held <- Held, lease <- [m \in Mutexes |-> LeaseOf(m)]

\* No call of anybody costs a holder a part of its lease.
OnlyTimeShortens ==
  [][\A m \in Held \cap Held' : LeaseOf(m)' < LeaseOf(m) => Tick]_vars

\* What the keys in a majority of databases amount to is a lease: it runs from
\* the grant to unlock(), only time shortens it, KeepLock prolongs it, and
\* nobody else has one meanwhile.
ImplementsLeaseLock == Lease!Spec /\ OnlyTimeShortens

(***************************************************************************)
(* Liveness.                                                                *)
(***************************************************************************)

\* The last SELECT of the attempt failed with mtx_ locked, and UnlockAll waits
\* for the mutex that its own thread holds (see AttemptEnds).
SelfBlocked(m) == pc[m] = "unlock" /\ Holds(User(m))

\* mtx_ is never held for ever, whoever has it and wherever a command fails,
\* but by a thread that waits for it itself.
MtxReleased ==
  \A p \in Processes :
    mtx[p] # Nobody
      ~> \/ mtx[p] = Nobody
         \/ \E m \in Mutexes : mtx[p] = User(m) /\ SelfBlocked(m)

\* An attempt to get the lock comes to an end: time_out_limit_ "prevents the
\* client from remaining blocked for a long time".
AttemptEnds ==
  \A m \in Mutexes : Attempting(m) ~> pc[m] \in {"held", "sleep", "idle", "dead"}

\* A worker is not kept in one KeepLock call for ever, although the call tries a
\* host again without a pause or a limit: only a key that is missing or
\* another DMutex's again and again can keep it.
KeepLockReturns ==
  \A k \in Keepers :
    []<>(kpc[k] \in {"free", "queued"} \/ \E h \in Hosts : keys[h].val # k[1])

\* The keys of a process that died, perhaps in the middle of its attempt or of
\* its UnlockAll, do not keep another DMutex out of lock() for ever, unless that
\* one has come to wait for its own mtx_.
CrashRecovery ==
  \A m \in Mutexes :
    (call[m] = "lock" /\ \A n \in Mutexes \ {m} : pc[n] = "dead")
      ~> pc[m] \in {"held", "idle", "dead"} \/ SelfBlocked(m)

\* The keys of a DMutex that nobody uses any more go away, also those that
\* UnlockAll left behind (a host it could not select, an exception of
\* DelKeyValue) and those that a KeepLock under way sets again after UnlockAll:
\* the renewals that are still queued prolong nothing for ever.
LeftKeysExpire ==
  \A m \in Mutexes : pc[m] = "idle" ~> (pc[m] # "idle" \/ OwnKeys(m) = {})
=============================================================================
