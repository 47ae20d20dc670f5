--------------------------- MODULE DMutexRenewal ----------------------------
(***************************************************************************)
(* What the renewals add: with KeepLock in time, the lock is exclusive from  *)
(* the return of lock() to the call of unlock(), and a KeepLock call finds    *)
(* the keys it renews, whichever lock() it was left over from.                *)
(*                                                                         *)
(* The inductive invariant adds to LeaseInv, for a DMutex that holds the      *)
(* lock, that one of its renewal events watches over it: while the event is  *)
(* queued, the keys of all hosts in have_lock_num_ outlive its timeout by at  *)
(* least the margin Validity - Period; while KeepLock runs, the hosts before  *)
(* lock_index have been renewed and the others keep the margin.               *)
(***************************************************************************)
EXTENDS DMutexProofs, WellFoundedInduction

\* The timing of the code, lock_validity_time_ and run_time_ / 3 * 2, and what
\* the renewals need: each call is done in time, no command fails.
Punctual ==
  /\ {"delete", "acquire", "renew"} \subseteq Prompt
  /\ Period < Validity
  /\ FaultKinds \subseteq {"kill"}
  /\ "try_lock" \notin Calls

\* The i-th host that m locked has its key for at least t more ticks.
Alive(m, i, t) == LET e == keys[have_lock_num[m][i]] IN e.val = m /\ e.ttl >= t

Watches(k) ==
  LET m == k[1]
      n == Len(have_lock_num[m]) IN
  /\ due[k] \in 0..Period
  /\ kpc[k] \in {"queued", "check", "lock", "exists", "get", "pexpire"}
  /\ kpc[k] = "queued" => \A i \in 1..n : Alive(m, i, due[k] + (Validity - Period))
  /\ kpc[k] # "queued" =>
       /\ due[k] = 0
       /\ kidx[k] \in 1..(n + 1)
       /\ kpc[k] # "check" => kidx[k] <= n
       /\ \A i \in 1..n : Alive(m, i, IF i < kidx[k] THEN Validity ELSE Validity - Period)
  /\ kpc[k] \in KeepCritical => sel[m] = have_lock_num[m][kidx[k]]
  /\ kpc[k] \in {"check", "lock"} => ~Holds(k)

Watched(m) == pc[m] = "held" => \E k \in Keepers : k[1] = m /\ Watches(k)

\* An attempt takes no time, and leaves room for the event that Grant pushes.
Timely(m) ==
  /\ Attempting(m) => age[m] = 0
  /\ \/ Attempting(m) \/ pc[m] = "sleep"
     \/ pc[m] \in {"unlock", "uselect", "uexists", "uget", "udel"} /\ call[m] # "unlock"
     => FreeSlots(m) # {}

Marked(m) == pc[m] = "held" => lock_status[m] /\ lock_continue[m]

\* Only databases that can be selected get into have_lock_num_.
Selectable(m) ==
  /\ pc[m] = "set" => cur[m] \notin BadHosts
  /\ HostsOf(have_lock_num[m]) \cap BadHosts = {}

\* KeepLock begins with the first host.
Rewound(m) ==
  pc[m] # "dead" =>
    \A s \in Slots : kpc[<<m, s>>] \in {"free", "queued"} => kidx[<<m, s>>] = 1

Ready(m) == conn[m] /\ Timely(m) /\ Marked(m) /\ Selectable(m) /\ Rewound(m)

RenewInv == LeaseInv /\ NeverTries /\ \A m \in Mutexes : Ready(m) /\ Watched(m)


\* Grant takes a slot without an event, and there is a least one to take.
LEMMA FreeSlotIsFree ==
  ASSUME NEW m \in Mutexes, FreeSlots(m) # {}
  PROVE  FreeSlot(m) \in Slots /\ kpc[<<m, FreeSlot(m)>>] = "free"
<1>1. FreeSlots(m) \subseteq Nat
  BY MutexAssumption DEF FreeSlots, Slots
<1> DEFINE R == {p \in Nat \X Nat : p[1] < p[2]}
<1>2. IsWellFoundedOn(R, Nat)
  BY NatLessThanWellFounded, Zenon DEF OpToRel
<1> HIDE DEF R
<1>3. \E s \in FreeSlots(m) : \A t \in FreeSlots(m) : ~(<<t, s>> \in R)
  BY <1>1, <1>2, WFMin
<1>4. \E s \in FreeSlots(m) : \A t \in FreeSlots(m) : s <= t
  <2>1. \A t, s \in Nat : <<t, s>> \in R <=> t < s
    BY DEF R
  <2>2. PICK s \in FreeSlots(m) : \A t \in FreeSlots(m) : ~(<<t, s>> \in R)
    BY <1>3
  <2>3. ASSUME NEW t \in FreeSlots(m) PROVE s <= t
    <3>1. s \in Nat /\ t \in Nat
      BY <1>1
    <3>2. ~(t < s)
      BY <2>1, <2>2, <3>1
    <3> QED BY <3>1, <3>2
  <2> QED BY <2>3
<1>5. FreeSlot(m) \in FreeSlots(m)
  BY <1>4 DEF FreeSlot
<1> QED BY <1>5 DEF FreeSlots


-----------------------------------------------------------------------------
(***************************************************************************)
(* More of what a step leaves alone.                                        *)
(***************************************************************************)

\* Without faults of the connection a command is executed and answered.
LEMMA NoFault ==
  ASSUME FaultKinds \subseteq {"kill"}, TypeOK, NEW m \in Mutexes, NEW fate \in Fates, NEW after,
         Command(m, fate, after)
  PROVE  fate = "ok" /\ keys' = after /\ conn' = conn
<1>1. fate = "ok"
  BY DEF Fates
<1> QED BY <1>1 DEF Command, TypeOK, RedisTypeOK

LEMMA ConnKept ==
  ASSUME FaultKinds \subseteq {"kill"}, TypeOK, [Next]_vars
  PROVE  conn' = conn
<1>1. ASSUME NEW m \in Mutexes, UserCall(m) \/ UserStep(m) \/ RelockUndefined(m)
      PROVE  conn' = conn
  <2>1. ASSUME NEW c \in Calls, CallLock(m, c) PROVE conn' = conn
    BY <2>1 DEF CallLock, redisVars
  <2>2. ASSUME NEW h \in Hosts, Select(m, h) PROVE conn' = conn
    BY <2>2, NoFault DEF Select
  <2>3. CASE Set(m) \/ UnlockSelect(m) \/ UnlockExists(m) \/ UnlockGet(m) \/ UnlockDel(m)
    BY <2>3, NoFault DEF Set, UnlockSelect, UnlockExists, UnlockGet, UnlockDel
  <2>4. CASE \/ CallUnlock(m) \/ Count(m) \/ Grant(m) \/ Relock(m) \/ NotConnected(m)
             \/ RelockUndefined(m) \/ UnlockStart(m) \/ Retry(m) \/ GiveUp(m)
    BY <2>4 DEF CallUnlock, Count, Grant, Relock, NotConnected, RelockUndefined,
       UnlockStart, Retry, GiveUp, redisVars
  <2> QED BY <1>1, <2>1, <2>2, <2>3, <2>4 DEF UserCall, UserStep
<1>2. ASSUME NEW k \in Keepers, KeepStep(k) PROVE conn' = conn
  <2>0. k[1] \in Mutexes
    BY ThreadTypes
  <2>1. CASE KeepSelect(k) \/ KeepExists(k) \/ KeepSet(k) \/ KeepGet(k) \/ KeepPexpire(k)
    BY <2>0, <2>1, NoFault DEF KeepSelect, KeepExists, KeepSet, KeepGet, KeepPexpire
  <2>2. CASE KeepStart(k) \/ KeepCheck(k) \/ KeepThrows(k)
    BY <2>2 DEF KeepStart, KeepCheck, KeepThrows, redisVars
  <2> QED BY <1>2, <2>1, <2>2 DEF KeepStep
<1>3. CASE \/ \E p \in Processes : Kill(p)
           \/ \E m \in Mutexes : Drop(m)
           \/ Tick \/ UNCHANGED vars
  BY <1>3 DEF Kill, Drop, Tick, vars, redisVars
<1> QED BY <1>1, <1>2, <1>3 DEF Next, Mishap

LEMMA UserRest ==
  ASSUME TypeOK, NEW m \in Mutexes, UserCall(m) \/ UserStep(m) \/ RelockUndefined(m)
  PROVE  /\ \A n \in Mutexes \ {m} : /\ lock_status'[n] = lock_status[n]
                                     /\ lock_continue'[n] = lock_continue[n]
         /\ UNCHANGED kidx
         /\ Grant(m) \/ UNCHANGED <<kpc, due>>
         /\ Grant(m) \/ UnlockStart(m) \/ UNCHANGED flagVars
<1>1. ASSUME NEW c \in Calls, CallLock(m, c) PROVE UNCHANGED <<flagVars, keepVars>>
  BY <1>1 DEF CallLock
<1>2. ASSUME NEW h \in Hosts, Select(m, h) PROVE UNCHANGED <<flagVars, keepVars>>
  BY <1>2 DEF Select
<1>3. CASE \/ CallUnlock(m) \/ Set(m) \/ Count(m) \/ Relock(m) \/ NotConnected(m)
           \/ RelockUndefined(m) \/ Retry(m) \/ GiveUp(m)
  BY <1>3 DEF CallUnlock, Set, Count, Relock, NotConnected, RelockUndefined, Retry, GiveUp,
     flagVars, keepVars
<1>4. CASE UnlockSelect(m) \/ UnlockExists(m) \/ UnlockGet(m) \/ UnlockDel(m)
  BY <1>4 DEF UnlockSelect, UnlockExists, UnlockGet, UnlockDel, UnlockGoesOn, flagVars, keepVars
<1>5. CASE UnlockStart(m)
  BY <1>5 DEF UnlockStart, keepVars, TypeOK
<1>6. CASE Grant(m)
  BY <1>6 DEF Grant, TypeOK
<1> QED BY <1>1, <1>2, <1>3, <1>4, <1>5, <1>6 DEF UserCall, UserStep, flagVars, keepVars

LEMMA KeepRest ==
  ASSUME TypeOK, NEW k \in Keepers, KeepStep(k)
  PROVE  /\ UNCHANGED flagVars /\ kpc[k] # "free"
         /\ \A j \in Keepers \ {k} : kidx'[j] = kidx[j] /\ due'[j] = due[j]
<1>0. kpc \in [Keepers -> KeepPC] /\ kidx \in [Keepers -> Nat] /\ due \in [Keepers -> Int]
  BY DEF TypeOK
<1>1. CASE KeepStart(k) \/ KeepCheck(k)
  BY <1>0, <1>1 DEF KeepStart, KeepCheck, Requeue
<1>2. CASE KeepSelect(k) \/ KeepExists(k) \/ KeepSet(k)
  BY <1>0, <1>2 DEF KeepSelect, KeepExists, KeepSet, KeepLoop
<1>3. CASE KeepGet(k) \/ KeepPexpire(k)
  BY <1>0, <1>3 DEF KeepGet, KeepPexpire, KeepLoop
<1>4. CASE KeepThrows(k)
  BY <1>0, <1>4 DEF KeepThrows
<1> QED BY <1>1, <1>2, <1>3, <1>4 DEF KeepStep


-----------------------------------------------------------------------------
(***************************************************************************)
(* Ready: the user thread and the events around an attempt.                 *)
(***************************************************************************)
LEMMA ReadyFrame ==
  ASSUME NEW n \in Mutexes, Ready(n), Rewound(n)', conn' = conn,
         pc'[n] \in {pc[n], "dead"},
         age'[n] = age[n], call'[n] = call[n], cur'[n] = cur[n],
         have_lock_num'[n] = have_lock_num[n],
         lock_status'[n] = lock_status[n], lock_continue'[n] = lock_continue[n],
         \A s \in Slots : kpc[<<n, s>>] = "free" => kpc'[<<n, s>>] = "free"
  PROVE  Ready(n)'
<1>1. FreeSlots(n) # {} => FreeSlots(n)' # {}
  BY DEF FreeSlots
<1>2. Timely(n)'
  BY <1>1 DEF Ready, Timely, Attempting
<1>3. Marked(n)' /\ Selectable(n)'
  BY DEF Ready, Marked, Selectable
<1> QED BY <1>2, <1>3 DEF Ready

\* An event is queued, or ends, with its index back at the first host.
LEMMA KeepRewound ==
  ASSUME TypeOK, NEW k \in Keepers, KeepStep(k), Rewound(k[1]), pc'[k[1]] # "dead",
         kpc'[k] \in {"free", "queued"}
  PROVE  kidx'[k] = 1
<1>0. /\ kpc \in [Keepers -> KeepPC] /\ kidx \in [Keepers -> Nat] /\ k[1] \in Mutexes
  BY ThreadTypes DEF TypeOK
<1>1. ~Crash(ProcOf[k[1]]) /\ pc[k[1]] # "dead"
  <2>1. OnlyKeeper(k)
    BY KeepFrame
  <2> QED BY <1>0, <2>1 DEF OnlyKeeper, Dies, Crash
<1>2. CASE KeepStart(k)
  <2>1. kidx[k] = 1
    BY <1>1, <1>2 DEF KeepStart, Rewound, Keepers
  <2> QED BY <1>0, <1>2, <2>1 DEF KeepStart, KeepGoto, Requeue
<1>3. CASE KeepCheck(k)
  BY <1>0, <1>3 DEF KeepCheck, KeepGoto, Requeue
<1>4. CASE KeepSelect(k) \/ KeepExists(k) \/ KeepSet(k) \/ KeepGet(k) \/ KeepPexpire(k) \/ KeepThrows(k)
  BY <1>0, <1>1, <1>4 DEF KeepSelect, KeepExists, KeepSet, KeepGet, KeepPexpire, KeepThrows,
     KeepLoop, KeepGoto
<1> QED BY <1>2, <1>3, <1>4 DEF KeepStep

LEMMA KeepReady ==
  ASSUME TypeOK, FaultKinds \subseteq {"kill"}, NEW k \in Keepers, KeepStep(k),
         NEW n \in Mutexes, Ready(n)
  PROVE  Ready(n)'
<1>0. OnlyKeeper(k) /\ [Next]_vars
  BY KeepFrame DEF Next
<1>1. \A s \in Slots : <<n, s>> \in Keepers
  BY DEF Keepers
<1>2. pc'[n] \in {pc[n], "dead"}
  BY <1>0 DEF OnlyKeeper, Dies, Crash
<1>3. \A j \in Keepers : j # k => kpc'[j] \in {kpc[j], "free"}
  BY <1>0 DEF OnlyKeeper, Dies, Crash
<1>4. \A s \in Slots : kpc[<<n, s>>] = "free" => kpc'[<<n, s>>] = "free"
  BY <1>1, <1>3, KeepRest
<1>5. ASSUME pc'[n] # "dead", NEW s \in Slots, kpc'[<<n, s>>] \in {"free", "queued"}
      PROVE  kidx'[<<n, s>>] = 1
  <2>1. pc[n] # "dead" /\ Rewound(n)
    BY <1>2, <1>5 DEF Ready
  <2>2. CASE <<n, s>> = k
    BY <1>5, <2>1, <2>2, KeepRewound
  <2>3. CASE <<n, s>> # k
    <3>1. kpc'[<<n, s>>] = kpc[<<n, s>>]
      BY <1>0, <1>1, <1>5, <2>3 DEF OnlyKeeper, Dies, Crash, Keepers
    <3> QED BY <1>1, <1>5, <2>1, <2>3, <3>1, KeepRest DEF Rewound
  <2> QED BY <2>2, <2>3
<1>6. Rewound(n)'
  BY <1>5 DEF Rewound
<1>7. UNCHANGED flagVars /\ UNCHANGED <<call, cur, have_lock_num, age>> /\ conn' = conn
  BY <1>0, KeepRest, ConnKept DEF OnlyKeeper
<1> QED BY <1>2, <1>4, <1>6, <1>7, ReadyFrame DEF flagVars


\* The user thread itself.
LEMMA UserReady ==
  ASSUME LeaseInv, NeverTries, Punctual, NEW m \in Mutexes, Ready(m), conn' = conn,
         UserCall(m) \/ UserStep(m) \/ RelockUndefined(m)
  PROVE  Ready(m)'
<1>0. /\ TypeOK /\ call[m] # "try_lock" /\ FaultKinds \subseteq {"kill"} /\ conn'[m]
      /\ pc \in [Mutexes -> UserPC] /\ have_lock_num \in [Mutexes -> Seq(Hosts)]
      /\ age \in [Mutexes -> 0..AgeCap] /\ cur \in [Mutexes -> Hosts]
      /\ kpc \in [Keepers -> KeepPC] /\ kidx \in [Keepers -> Nat]
  BY DEF LeaseInv, NeverTries, DelInv, ConnInv, TypeOK, Punctual, Ready
<1>1. ASSUME UNCHANGED <<kpc, kidx>>, pc[m] # "dead", pc'[m] # "held",
             Selectable(m)', Timely(m)'
      PROVE  Ready(m)'
  <2>1. Rewound(m)'
    BY <1>1 DEF Ready, Rewound
  <2>2. Marked(m)'
    BY <1>1 DEF Marked
  <2> QED BY <1>0, <1>1, <2>1, <2>2 DEF Ready
<1>2. UNCHANGED kpc => FreeSlots(m)' = FreeSlots(m)
  BY DEF FreeSlots
<1>3. ASSUME NEW c, BeginAttempt(m, c), c # "try_lock", FreeSlots(m) # {}, pc[m] # "dead",
             UNCHANGED <<kpc, kidx>>
      PROVE  Ready(m)'
  <2>1. pc'[m] = "pick" /\ have_lock_num'[m] = <<>> /\ age'[m] = 0
    BY <1>0, <1>3 DEF BeginAttempt, Goto
  <2>2. HostsOf(have_lock_num'[m]) = {}
    BY <2>1 DEF HostsOf
  <2>3. Selectable(m)'
    BY <2>1, <2>2 DEF Selectable
  <2>4. Timely(m)'
    BY <1>2, <1>3, <2>1 DEF Timely
  <2> QED BY <1>1, <1>3, <2>1, <2>3, <2>4
<1>4. ASSUME NEW c \in Calls, CallLock(m, c) PROVE Ready(m)'
  <2>1. BeginAttempt(m, c) /\ FreeSlots(m) # {} /\ pc[m] = "idle" /\ UNCHANGED <<kpc, kidx>>
    BY <1>4 DEF CallLock, keepVars
  <2>2. c # "try_lock"
    BY DEF Punctual
  <2> QED BY <1>3, <2>1, <2>2
<1>5. CASE Retry(m)
  <2>1. BeginAttempt(m, call[m]) /\ pc[m] = "sleep" /\ UNCHANGED <<kpc, kidx>>
    BY <1>5 DEF Retry, keepVars
  <2>2. FreeSlots(m) # {}
    BY <2>1 DEF Ready, Timely
  <2> QED BY <1>0, <1>3, <2>1, <2>2
<1>6. ASSUME NEW h \in Hosts, Select(m, h) PROVE Ready(m)'
  <2>1. /\ pc[m] \in {"pick", "again"} /\ UNCHANGED <<kpc, kidx, have_lock_num, age, call>>
        /\ cur'[m] = h /\ pc'[m] \in {"pick", "set"}
    BY <1>0, <1>6 DEF Select, Goto, keepVars
  <2>2. PICK fate \in Fates :
           /\ Command(m, fate, keys)
           /\ Goto(m, IF SelectResult(ReplyTo(fate, SelectReply(h))) = "kSelectDBSucceed"
                      THEN "set" ELSE "pick")
    BY <1>6 DEF Select
  <2>3. pc'[m] = "set" => h \notin BadHosts
    <3>1. pc'[m] = "set" => SelectResult(ReplyTo(fate, SelectReply(h))) = "kSelectDBSucceed"
      BY <1>0, <2>2 DEF Goto
    <3>2. h \in BadHosts => ReplyTo(fate, SelectReply(h)) = ErrorReply
      BY DEF ReplyTo, SelectReply
    <3>3. SelectResult(ErrorReply) # "kSelectDBSucceed"
      BY DEF SelectResult, ErrorReply, as_string_throws
    <3> QED BY <3>1, <3>2, <3>3
  <2>4. Selectable(m)'
    BY <2>1, <2>3 DEF Ready, Selectable
  <2>5. Timely(m)'
    BY <1>2, <2>1 DEF Ready, Timely, Attempting
  <2> QED BY <1>1, <2>1, <2>4, <2>5
<1>7. CASE Set(m)
  <2>1. /\ pc[m] = "set" /\ UNCHANGED <<kpc, kidx, age, call, cur>>
        /\ pc'[m] \in {"again", "pick"}
        /\ have_lock_num'[m] \in {have_lock_num[m], Append(have_lock_num[m], cur[m])}
    BY <1>0, <1>7 DEF Set, Goto, keepVars
  <2>2. /\ cur[m] \notin BadHosts /\ HostsOf(have_lock_num[m]) \cap BadHosts = {}
        /\ cur[m] \notin HostsOf(have_lock_num[m])
        /\ Cardinality(HostsOf(have_lock_num[m])) = Len(have_lock_num[m])
    BY <1>0, <2>1 DEF Ready, Selectable, LeaseInv, Listed, Tracked
  <2>3. HostsOf(have_lock_num'[m]) \subseteq HostsOf(have_lock_num[m]) \cup {cur[m]}
    BY <1>0, <2>1, <2>2, PushBack
  <2>4. Selectable(m)'
    BY <2>1, <2>2, <2>3 DEF Selectable
  <2>5. Timely(m)'
    BY <1>2, <2>1 DEF Ready, Timely, Attempting
  <2> QED BY <1>1, <2>1, <2>4, <2>5
<1>8. ASSUME UNCHANGED <<kpc, kidx, have_lock_num, call>>, pc[m] # "dead",
             pc'[m] \notin {"held", "set"}, Timely(m)'
      PROVE  Ready(m)'
  BY <1>1, <1>8 DEF Ready, Selectable
<1>9. CASE Count(m)
  <2>1. /\ UNCHANGED <<kpc, kidx, have_lock_num, call, age>>
        /\ pc[m] = "pick" /\ pc'[m] \in {"grant", "unlock"}
    BY <1>0, <1>9 DEF Count, Goto, keepVars
  <2>2. Timely(m)'
    BY <1>2, <2>1 DEF Ready, Timely, Attempting
  <2> QED BY <1>8, <2>1, <2>2
<1>10. CASE Grant(m)
  <2>1. /\ pc[m] = "grant" /\ pc'[m] = "held" /\ UNCHANGED <<kidx, have_lock_num>>
        /\ kpc' = [kpc EXCEPT ![<<m, FreeSlot(m)>>] = "queued"]
    BY <1>0, <1>10 DEF Grant, Goto
  <2>2. Marked(m)'
    <3>1. lock_status'[m] = TRUE /\ lock_continue'[m] = TRUE
      BY <1>0, <1>10 DEF Grant, TypeOK
    <3> QED BY <3>1 DEF Marked
  <2>3. FreeSlot(m) \in Slots /\ kpc[<<m, FreeSlot(m)>>] = "free"
    BY <2>1, FreeSlotIsFree DEF Ready, Timely, Attempting
  <2>4. Rewound(m)'
    <3> SUFFICES ASSUME NEW s \in Slots, kpc'[<<m, s>>] \in {"free", "queued"}
                 PROVE  kpc[<<m, s>>] \in {"free", "queued"}
      BY <2>1 DEF Ready, Rewound
    <3> QED BY <1>0, <2>1, <2>3 DEF Keepers
  <2>5. Selectable(m)' /\ Timely(m)'
    BY <2>1 DEF Ready, Selectable, Timely, Attempting
  <2> QED BY <1>0, <2>2, <2>4, <2>5 DEF Ready
<1>11. CASE Relock(m) \/ NotConnected(m) \/ RelockUndefined(m) \/ GiveUp(m)
  <2>1. /\ pc'[m] = "idle" /\ pc[m] # "dead"
        /\ UNCHANGED <<kpc, kidx, have_lock_num, call>>
    BY <1>0, <1>11 DEF Relock, NotConnected, RelockUndefined, GiveUp, Throw, Leave, Goto, keepVars
  <2> QED BY <1>8, <2>1 DEF Timely, Attempting
<1>12. CASE CallUnlock(m)
  <2>1. /\ pc'[m] = "unlock" /\ pc[m] = "held" /\ call'[m] = "unlock"
        /\ UNCHANGED <<kpc, kidx, have_lock_num>>
    BY <1>0, <1>12 DEF CallUnlock, Goto, TypeOK, keepVars
  <2>2. Timely(m)' /\ Selectable(m)'
    BY <2>1 DEF Ready, Timely, Attempting, Selectable
  <2> QED BY <1>1, <2>1, <2>2
<1>13. CASE UnlockStart(m)
  <2>1. /\ pc'[m] = "uselect" /\ pc[m] = "unlock"
        /\ UNCHANGED <<kpc, kidx, have_lock_num, call>>
    BY <1>0, <1>13 DEF UnlockStart, Goto, keepVars
  <2> QED BY <1>2, <1>8, <2>1 DEF Ready, Timely, Attempting
<1>14. CASE UnlockSelect(m) \/ UnlockExists(m) \/ UnlockGet(m) \/ UnlockDel(m)
  <2>1. PICK res, l : l \in {"uexists", "uget", "udel", "uselect"} /\ UnlockGoesOn(m, res, l)
    BY <1>14 DEF UnlockSelect, UnlockExists, UnlockGet, UnlockDel
  <2>2. pc[m] \in {"uselect", "uexists", "uget", "udel"}
    BY <1>14 DEF UnlockSelect, UnlockExists, UnlockGet, UnlockDel
  <2>3. UNCHANGED <<kpc, kidx, have_lock_num, call>>
    BY <2>1 DEF UnlockGoesOn, keepVars
  <2>4. /\ pc'[m] \in {"idle", "sleep", "uselect", "uexists", "uget", "udel"}
        /\ pc'[m] = "sleep" => call[m] # "unlock"
    BY <1>0, <2>1 DEF UnlockGoesOn, UnlockNext, Throw, Leave, Goto, Resume
  <2> QED BY <1>2, <1>8, <2>2, <2>3, <2>4 DEF Ready, Timely, Attempting
<1> QED BY <1>4, <1>5, <1>6, <1>7, <1>9, <1>10, <1>11, <1>12, <1>13, <1>14 DEF UserCall, UserStep

LEMMA ReadyStep ==
  ASSUME RenewInv, Punctual, [Next]_vars, NEW n \in Mutexes
  PROVE  Ready(n)'
<1>0. TypeOK /\ LeaseInv /\ NeverTries /\ FaultKinds \subseteq {"kill"} /\ Ready(n) /\ conn' = conn
  BY ConnKept DEF RenewInv, LeaseInv, DelInv, ConnInv, Punctual
<1>1. ASSUME NEW m \in Mutexes, UserCall(m) \/ UserStep(m) \/ RelockUndefined(m)
      PROVE  Ready(n)'
  <2>1. CASE n = m
    BY <1>0, <1>1, <2>1, UserReady
  <2>2. CASE n # m
    <3>1. OnlyUser(m)
      BY <1>0, <1>1, UserFrame
    <3>2. UNCHANGED kidx /\ \A s \in Slots : kpc'[<<n, s>>] = kpc[<<n, s>>]
      <4>1. CASE Grant(m)
        BY <1>0, <1>1, <2>2, <4>1, UserRest DEF Grant, TypeOK, Keepers
      <4>2. CASE ~Grant(m)
        BY <1>0, <1>1, <4>2, UserRest
      <4> QED BY <4>1, <4>2
    <3>3. Rewound(n)'
      BY <1>0, <2>2, <3>1, <3>2 DEF Ready, Rewound, OnlyUser
    <3> QED BY <1>0, <1>1, <2>2, <3>1, <3>2, <3>3, UserRest, ReadyFrame DEF OnlyUser
  <2> QED BY <2>1, <2>2
<1>2. ASSUME NEW k \in Keepers, KeepStep(k) PROVE Ready(n)'
  BY <1>0, <1>2, KeepReady
<1>3. ASSUME NEW p \in Processes, Kill(p) PROVE Ready(n)'
  <2>1. /\ pc'[n] \in {pc[n], "dead"} /\ UNCHANGED <<age, call, cur, have_lock_num, flagVars, kidx>>
        /\ \A s \in Slots : kpc'[<<n, s>>] \in {kpc[<<n, s>>], "free"}
        /\ pc'[n] = "dead" \/ \A s \in Slots : kpc'[<<n, s>>] = kpc[<<n, s>>]
    BY <1>3 DEF Kill, Crash, Keepers
  <2>2. Rewound(n)'
    BY <1>0, <2>1 DEF Ready, Rewound
  <2> QED BY <1>0, <2>1, <2>2, ReadyFrame DEF flagVars
<1>4. CASE (\E m \in Mutexes : Drop(m)) \/ UNCHANGED vars
  <2>1. UNCHANGED <<pc, age, call, cur, have_lock_num, lock_status, lock_continue, kidx, kpc>>
    BY <1>4 DEF Drop, vars, userVars, flagVars, keepVars
  <2>2. Rewound(n)'
    BY <1>0, <2>1 DEF Ready, Rewound
  <2> QED BY <1>0, <2>1, <2>2, ReadyFrame
<1>5. CASE Tick
  <2>1. /\ UNCHANGED <<pc, call, cur, have_lock_num, lock_status, lock_continue, kidx, kpc>>
        /\ ~Attempting(n)
    BY <1>5 DEF Tick, flagVars, Punctual
  <2>2. FreeSlots(n)' = FreeSlots(n)
    BY <2>1 DEF FreeSlots
  <2>3. Timely(n)'
    BY <1>0, <2>1, <2>2 DEF Ready, Timely, Attempting
  <2>4. Marked(n)' /\ Selectable(n)' /\ Rewound(n)'
    BY <1>0, <2>1 DEF Ready, Marked, Selectable, Rewound
  <2> QED BY <1>0, <2>3, <2>4 DEF Ready
<1> QED BY <1>1, <1>2, <1>3, <1>4, <1>5 DEF Next, Mishap


-----------------------------------------------------------------------------
(***************************************************************************)
(* Watched: the renewal event of a holder.                                  *)
(***************************************************************************)

\* What the other threads do does not disturb an event that watches.
LEMMA WatchFrame ==
  ASSUME TypeOK, keys' \in Store, NEW k \in Keepers, Watches(k),
         kpc'[k] = kpc[k], due'[k] = due[k], kidx'[k] = kidx[k],
         have_lock_num'[k[1]] = have_lock_num[k[1]],
         kpc[k] \in KeepCritical => sel'[k[1]] = sel[k[1]],
         Holds(k)' => Holds(k),
         \A g \in Hosts : keys[g].val = k[1] =>
                            keys'[g].val = k[1] /\ keys'[g].ttl >= keys[g].ttl
  PROVE  Watches(k)'
<1> DEFINE m == k[1]
           s == have_lock_num[m]
<1>0. /\ m \in Mutexes /\ s \in Seq(Hosts) /\ Len(s) \in Nat
      /\ \A i \in 1..Len(s) : s[i] \in Hosts
      /\ \A g \in Hosts : keys[g].ttl \in Nat /\ keys'[g].ttl \in Nat
      /\ Period \in Int /\ kidx[k] \in Nat
  <2>1. m \in Mutexes /\ s \in Seq(Hosts) /\ keys \in Store /\ kidx[k] \in Nat
    BY ThreadTypes DEF TypeOK, RedisTypeOK
  <2>2. Len(s) \in Nat /\ \A i \in 1..Len(s) : s[i] \in Hosts
    BY <2>1
  <2>3. \A g \in Hosts : keys[g].ttl \in Nat /\ keys'[g].ttl \in Nat
    BY <2>1 DEF Store, Entry
  <2> QED BY <2>1, <2>2, <2>3, MutexAssumption DEF Period
<1>1. ASSUME NEW i \in 1..Len(s), NEW t \in Int, Alive(m, i, t) PROVE Alive(m, i, t)'
  BY <1>0, <1>1 DEF Alive
<1>2. due[k] \in Int /\ due[k] + (Validity - Period) \in Int /\ Validity \in Int
      /\ Validity - Period \in Int
  BY <1>0, StoreAssumption DEF TypeOK
<1>3. kpc[k] = "queued" => \A i \in 1..Len(s) : Alive(m, i, due[k] + (Validity - Period))'
  BY <1>1, <1>2 DEF Watches
<1>4. kpc[k] # "queued" =>
        \A i \in 1..Len(s) : Alive(m, i, IF i < kidx[k] THEN Validity ELSE Validity - Period)'
  BY <1>0, <1>1, <1>2 DEF Watches
<1> QED BY <1>3, <1>4 DEF Watches, Alive


\* KeepLock runs for an event that watches: it renews one host after the other,
\* does not end the process, and goes on watching.
LEMMA WatcherStep ==
  ASSUME RenewInv, Punctual, NEW k \in Keepers, pc[k[1]] = "held", Watches(k), KeepStep(k)
  PROVE  UNCHANGED pc /\ Watches(k)'
<1> DEFINE m == k[1]
           s == have_lock_num[m]
           n == Len(s)
           V == Validity
           M == Validity - Period
<1>0. /\ m \in Mutexes /\ TypeOK /\ FaultKinds \subseteq {"kill"} /\ ProcOf[m] \in Processes
      /\ conn[m] /\ lock_status[m] /\ lock_continue[m] /\ MtxInv /\ StoreInv
  BY ThreadTypes DEF RenewInv, Ready, Marked, LeaseInv, DelInv, ConnInv, Punctual
<1>1. /\ s \in Seq(Hosts) /\ n \in Nat /\ kidx[k] \in Nat /\ due[k] \in Int
      /\ \A i \in 1..n : s[i] \in Hosts /\ s[i] \notin BadHosts
      /\ kpc \in [Keepers -> KeepPC] /\ kidx \in [Keepers -> Nat] /\ due \in [Keepers -> Int]
      /\ sel \in [Mutexes -> 0..HostCount] /\ mtx \in [Processes -> Threads \cup {Nobody}]
      /\ keys \in Store
  <2>1. s \in Seq(Hosts) /\ n \in Nat /\ \A i \in 1..n : s[i] \in Hosts
    BY <1>0 DEF TypeOK
  <2>2. \A i \in 1..n : s[i] \notin BadHosts
    BY <1>0, <2>1 DEF RenewInv, Ready, Selectable, HostsOf
  <2> QED BY <1>0, <2>1, <2>2 DEF TypeOK, RedisTypeOK
<1>2. \A g \in Hosts : keys[g].ttl \in Nat
  BY <1>1 DEF Store, Entry
<1>3. Period \in Int /\ Period >= 0 /\ V \in Int /\ M \in Int /\ M >= 1 /\ M <= V /\ Period + M = V
  BY StoreAssumption, MutexAssumption DEF Period, Punctual
<1>4. ASSUME UNCHANGED have_lock_num, due'[k] = 0,
             kpc'[k] \in {"check", "lock", "exists", "get", "pexpire"},
             kidx'[k] \in 1..(n + 1), kpc'[k] # "check" => kidx'[k] <= n,
             \A i \in 1..n : /\ keys'[s[i]].val = m
                             /\ keys'[s[i]].ttl >= IF i < kidx'[k] THEN V ELSE M,
             kpc'[k] \in KeepCritical => sel'[m] = s[kidx'[k]],
             kpc'[k] \in {"check", "lock"} => ~Holds(k)'
      PROVE  Watches(k)'
  <2>1. 0 \in 0..Period
    BY <1>3
  <2> QED BY <1>4, <2>1 DEF Watches, Alive
<1>5. CASE KeepStart(k)
  <2>1. /\ kpc[k] = "queued" /\ due[k] = 0 /\ IsFree(k)
        /\ KeepGoto(k, "check") /\ UNCHANGED <<kidx, due, keys, sel, mtx, pc, have_lock_num>>
    BY <1>0, <1>1, <1>5 DEF KeepStart, Watches, redisVars, userVars
  <2>2. kidx[k] = 1
    BY <1>0, <2>1 DEF RenewInv, Ready, Rewound, Keepers
  <2>3. ~Holds(k)'
    BY <2>1, NobodyAssumption, ThreadTypes DEF IsFree, Holds
  <2>4. kpc'[k] = "check" /\ kidx'[k] = 1 /\ due'[k] = 0
    BY <1>1, <2>1, <2>2 DEF KeepGoto
  <2>5. \A i \in 1..n : keys'[s[i]].val = m /\ keys'[s[i]].ttl >= M
    BY <1>1, <1>2, <1>3, <2>1 DEF Watches, Alive
  <2>6. \A i \in 1..n : ~(i < 1)
    BY <1>1
  <2>7. 1 \in 1..(n + 1)
    BY <1>1
  <2> QED BY <1>4, <2>1, <2>3, <2>4, <2>5, <2>6, <2>7 DEF KeepCritical
<1>6. ASSUME kpc[k] # "queued"
      PROVE  /\ due[k] = 0 /\ kidx[k] \in 1..(n + 1)
             /\ kpc[k] # "check" => kidx[k] <= n
             /\ \A i \in 1..n : /\ keys[s[i]].val = m
                                 /\ keys[s[i]].ttl >= IF i < kidx[k] THEN V ELSE M
             /\ kpc[k] \in KeepCritical => sel[m] = s[kidx[k]]
             /\ kpc[k] \in {"check", "lock"} => ~Holds(k)
  BY <1>6 DEF Watches, Alive
<1>7. CASE KeepCheck(k)
  <2>1. kpc[k] = "check" /\ UNCHANGED <<keys, sel, pc, have_lock_num>>
    BY <1>7 DEF KeepCheck, redisVars, userVars
  <2>2. CASE kidx[k] <= n
    <3>1. kpc'[k] = "lock" /\ UNCHANGED <<mtx, kidx, due>>
      BY <1>1, <1>7, <2>2 DEF KeepCheck, KeepGoto
    <3>2. ~Holds(k)'
      BY <1>6, <2>1, <3>1 DEF Holds
    <3> QED BY <1>4, <1>6, <2>1, <2>2, <3>1, <3>2 DEF KeepCritical
  <2>3. CASE ~(kidx[k] <= n)
    <3>1. kpc'[k] = "queued" /\ due'[k] = Period
      BY <1>1, <1>3, <1>6, <1>7, <2>1, <2>3 DEF KeepCheck, KeepGoto, Requeue
    <3>2. \A i \in 1..n : i < kidx[k]
      BY <1>1, <2>3
    <3>3. \A i \in 1..n : keys[s[i]].val = m /\ keys[s[i]].ttl >= V
      BY <1>6, <2>1, <3>2
    <3>4. Period \in 0..Period
      BY <1>3
    <3> QED BY <1>3, <2>1, <3>1, <3>3, <3>4 DEF Watches, Alive, KeepCritical
  <2> QED BY <2>2, <2>3
<1>8. CASE KeepSelect(k)
  <2>1. kpc[k] = "lock" /\ UNCHANGED <<pc, have_lock_num, due>> /\ kidx[k] \in 1..n
    BY <1>1, <1>6, <1>8 DEF KeepSelect, userVars
  <2>2. PICK h \in Hosts, fate \in Fates :
           LET ok == SelectResult(ReplyTo(fate, SelectReply(h))) = "kSelectDBSucceed" IN
           /\ kidx[k] <= n => h = s[kidx[k]]
           /\ Command(m, fate, keys)
           /\ sel'  = IF ok THEN [sel EXCEPT ![m] = h] ELSE sel
           /\ KeepGoto(k, IF ok THEN "exists" ELSE "check")
           /\ kidx' = [kidx EXCEPT ![k] = IF ok THEN @ ELSE @ + 1]
    BY <1>8 DEF KeepSelect
  <2>3. h = s[kidx[k]] /\ h \notin BadHosts /\ fate = "ok" /\ keys' = keys
    BY <1>0, <1>1, <2>1, <2>2, NoFault
  <2>4. SelectResult(ReplyTo(fate, SelectReply(h))) = "kSelectDBSucceed"
    BY <2>3 DEF ReplyTo, SelectReply, StatusReply, SelectResult, as_string_throws
  <2>5. sel'[m] = s[kidx[k]] /\ kpc'[k] = "exists" /\ kidx'[k] = kidx[k]
    BY <1>0, <1>1, <2>2, <2>3, <2>4 DEF KeepGoto
  <2> QED BY <1>4, <1>6, <2>1, <2>3, <2>5
<1>9. ASSUME kpc[k] \in KeepCritical
      PROVE  /\ kidx[k] \in 1..n /\ sel[m] = s[kidx[k]] /\ sel[m] \in Hosts
             /\ keys[sel[m]].val = m /\ Exists(keys, sel[m])
  BY <1>0, <1>1, <1>6, <1>9, StoreAssumption DEF KeepCritical, Exists
<1>10. CASE KeepExists(k)
  <2>1. PICK fate \in Fates :
          LET res == AfterExists(ReplyTo(fate, ExistsReply(sel[m]))) IN
          /\ Command(m, fate, keys)
          /\ CASE res = "throw"  -> Crash(ProcOf[m])
               [] res = "absent" -> KeepGoto(k, "set") /\ UNCHANGED <<pc, mtx>>
               [] OTHER          -> KeepGoto(k, "get") /\ UNCHANGED <<pc, mtx>>
    BY <1>10 DEF KeepExists
  <2>2. kpc[k] = "exists" /\ UNCHANGED <<sel, have_lock_num, kidx, due>>
    BY <1>10 DEF KeepExists
  <2>3. fate = "ok" /\ keys' = keys
    BY <1>0, <2>1, NoFault
  <2>4. AfterExists(ReplyTo(fate, ExistsReply(sel[m]))) = "present"
    BY <1>9, <2>2, <2>3 DEF KeepCritical, AfterExists, ReplyTo, ExistsReply, IntReply,
       as_integer_throws
  <2>5. KeepGoto(k, "get") /\ UNCHANGED pc
    BY <2>1, <2>4
  <2>6. kpc'[k] = "get"
    BY <1>1, <2>5 DEF KeepGoto
  <2> QED BY <1>4, <1>6, <2>2, <2>3, <2>5, <2>6 DEF KeepCritical
<1>11. CASE KeepGet(k)
  <2>1. PICK fate \in Fates :
          LET res == AfterGet(ReplyTo(fate, GetReply(sel[m])), m) IN
          /\ Command(m, fate, keys)
          /\ CASE res = "throw" -> Crash(ProcOf[m]) /\ UNCHANGED kidx
               [] res = "match" -> KeepGoto(k, "pexpire") /\ UNCHANGED <<pc, mtx, kidx>>
               [] OTHER         -> KeepLoop(k, kidx[k]) /\ UNCHANGED pc
    BY <1>11 DEF KeepGet
  <2>2. kpc[k] = "get" /\ UNCHANGED <<sel, have_lock_num, due>>
    BY <1>11 DEF KeepGet
  <2>3. fate = "ok" /\ keys' = keys
    BY <1>0, <2>1, NoFault
  <2>4. AfterGet(ReplyTo(fate, GetReply(sel[m])), m) = "match"
    <3>1. ReplyTo(fate, GetReply(sel[m])) = BulkReply(m)
      BY <1>9, <2>2, <2>3 DEF KeepCritical, ReplyTo, GetReply
    <3> QED BY <3>1 DEF AfterGet, BulkReply, as_string_throws
  <2>5. KeepGoto(k, "pexpire") /\ UNCHANGED <<pc, kidx>>
    BY <2>1, <2>4
  <2>6. kpc'[k] = "pexpire"
    BY <1>1, <2>5 DEF KeepGoto
  <2> QED BY <1>4, <1>6, <2>2, <2>3, <2>5, <2>6 DEF KeepCritical
<1>12. CASE KeepPexpire(k)
  <2>1. PICK fate \in Fates :
          LET res == UpdateResult(ReplyTo(fate, TouchedReply(sel[m]))) IN
          /\ Command(m, fate, PExpire(keys, sel[m]))
          /\ IF res = "throw"
             THEN Crash(ProcOf[m]) /\ UNCHANGED kidx
             ELSE /\ KeepLoop(k, IF res = "kUpdateKeySucceed" THEN kidx[k] + 1 ELSE kidx[k])
                  /\ UNCHANGED pc
    BY <1>12 DEF KeepPexpire
  <2>2. kpc[k] = "pexpire" /\ UNCHANGED <<sel, have_lock_num, due>>
    BY <1>12 DEF KeepPexpire
  <2>3. fate = "ok" /\ keys' = PExpire(keys, sel[m])
    BY <1>0, <2>1, NoFault
  <2>4. UpdateResult(ReplyTo(fate, TouchedReply(sel[m]))) = "kUpdateKeySucceed"
    BY <1>9, <2>2, <2>3 DEF KeepCritical, UpdateResult, ReplyTo, TouchedReply, IntReply,
       as_integer_throws
  <2>5. KeepLoop(k, kidx[k] + 1) /\ UNCHANGED pc
    BY <2>1, <2>4
  <2>6. kpc'[k] = "check" /\ kidx'[k] = kidx[k] + 1
    BY <1>1, <2>5 DEF KeepLoop, KeepGoto
  <2>7. ~Holds(k)'
    BY <1>0, <1>1, <2>5, NobodyAssumption, ThreadTypes DEF KeepLoop, Release, Holds
  <2>8. Keeps(keys, keys') /\ keys'[sel[m]].ttl = V
    <3>1. Keeps(keys, keys')
      BY <1>0, <1>1, <2>3, StoreKeeps DEF StoreInv
    <3>2. keys[sel[m]] \in Entry
      BY <1>1, <1>9, <2>2 DEF KeepCritical, Store
    <3>3. PExpire(keys, sel[m])[sel[m]].ttl = V
      BY <1>1, <1>9, <2>2, <3>2 DEF KeepCritical, PExpire, Store, Entry
    <3> QED BY <2>3, <3>1, <3>3
  <2>9. keys' \in Store
    BY <1>0, <1>1, <2>3, StoreTypes
  <2>10. \A g \in Hosts : keys'[g].ttl \in Nat
    BY <2>9 DEF Store, Entry
  <2>11. ASSUME NEW i \in 1..n
         PROVE  keys'[s[i]].val = m /\ keys'[s[i]].ttl >= IF i < kidx[k] + 1 THEN V ELSE M
    <3>1. s[i] \in Hosts /\ keys[s[i]].val = m /\ m # Nobody
      BY <1>0, <1>1, <1>6, <2>2, StoreAssumption
    <3>2. keys'[s[i]].val = m /\ keys'[s[i]].ttl >= keys[s[i]].ttl
      BY <2>8, <3>1 DEF Keeps
    <3>3. CASE i = kidx[k]
      BY <1>3, <1>9, <2>2, <2>8, <3>2, <3>3 DEF KeepCritical
    <3>4. CASE i # kidx[k]
      <4>1. i < kidx[k] + 1 <=> i < kidx[k]
        BY <1>1, <3>4
      <4>2. keys[s[i]].ttl >= IF i < kidx[k] THEN V ELSE M
        BY <1>6, <2>2
      <4> QED BY <1>2, <1>3, <2>10, <3>1, <3>2, <4>1, <4>2
    <3> QED BY <3>3, <3>4
  <2>12. kidx[k] + 1 \in 1..(n + 1)
    BY <1>1, <1>9, <2>2 DEF KeepCritical
  <2> QED BY <1>4, <1>6, <2>2, <2>5, <2>6, <2>7, <2>11, <2>12 DEF KeepCritical
<1>13. ~KeepSet(k)
  BY DEF KeepSet, Watches
<1>14. ~KeepThrows(k)
  <2>1. kpc[k] = "lock" => ~Holds(k) /\ ~(kidx[k] > n)
    BY <1>1, <1>6
  <2> QED BY <1>0, <2>1 DEF KeepThrows
<1> QED BY <1>5, <1>7, <1>8, <1>10, <1>11, <1>12, <1>13, <1>14 DEF KeepStep


\* A tick waits for the renewals of a holder, and takes no more from its keys
\* than from the timeout of its event.
LEMMA WatchTick ==
  ASSUME RenewInv, Punctual, Tick, NEW k \in Keepers, pc[k[1]] = "held", Watches(k)
  PROVE  Watches(k)'
<1> DEFINE m == k[1]
           s == have_lock_num[m]
           M == Validity - Period
<1>0. /\ DelInv /\ kpc[k] = "queued" /\ due[k] > 0 /\ due[k] \in 0..Period
      /\ UNCHANGED <<kpc, kidx, have_lock_num, sel, mtx>>
  <2>1. kpc[k] # "free" /\ ~Renewing(k)
    BY DEF Watches, Punctual, Tick
  <2>2. due[k] \in Int
    BY DEF RenewInv, LeaseInv, DelInv, ConnInv, TypeOK
  <2> QED BY <2>1, <2>2 DEF Renewing, Watches, Tick, RenewInv, LeaseInv
<1>1. m \in Mutexes /\ m # Nobody /\ s \in Seq(Hosts) /\ keys \in Store
  BY <1>0, ThreadTypes, StoreAssumption DEF DelInv, ConnInv, TypeOK, RedisTypeOK
<1>2. \A g \in Hosts : keys[g].ttl \in Nat
  BY <1>1 DEF Store, Entry
<1>3. Period \in Int /\ Period >= 0 /\ M \in Int /\ M >= 1
  BY StoreAssumption, MutexAssumption DEF Period, Punctual
<1>4. due'[k] = due[k] - 1 /\ due'[k] \in 0..Period
  BY <1>0, <1>3 DEF Tick
<1>5. ASSUME NEW i \in 1..Len(s)
      PROVE  keys'[s[i]].val = m /\ keys'[s[i]].ttl >= due'[k] + M
  <2>1. keys[s[i]].val = m /\ keys[s[i]].ttl >= due[k] + M /\ s[i] \in Hosts
    BY <1>0, <1>1 DEF Watches, Alive
  <2>2. keys[s[i]].ttl # 1
    BY <1>0, <1>2, <1>3, <2>1
  <2>3. keys'[s[i]].val = m /\ keys'[s[i]].ttl = keys[s[i]].ttl - 1
    BY <1>0, <1>1, <2>1, <2>2, TickStore
  <2>4. keys[s[i]].ttl \in Int /\ due[k] \in Int /\ M \in Int
    BY <1>0, <1>2, <1>3, <2>1
  <2>5. \A t, d, g \in Int : t >= d + g => t - 1 >= (d - 1) + g
    OBVIOUS
  <2>6. keys[s[i]].ttl - 1 >= (due[k] - 1) + M
    BY <2>1, <2>4, <2>5
  <2> QED BY <1>4, <2>3, <2>6
<1> QED BY <1>0, <1>4, <1>5 DEF Watches, Alive, KeepCritical

\* Grant pushes the event that watches: the attempt took no time, so the keys
\* have all their time to live.
LEMMA WatchGrant ==
  ASSUME RenewInv, Punctual, NEW m \in Mutexes, Grant(m)
  PROVE  \E k \in Keepers : k[1] = m /\ Watches(k)'
<1> DEFINE s == have_lock_num[m]
<1>0. /\ TypeOK /\ pc[m] = "grant" /\ age[m] = 0 /\ FreeSlots(m) # {} /\ Backed(m)
      /\ UNCHANGED <<keys, have_lock_num>>
  BY DEF RenewInv, Ready, Timely, Attempting, LeaseInv, DelInv, ConnInv, Grant, redisVars
<1>1. PICK k \in Keepers : k = <<m, FreeSlot(m)>>
  BY <1>0, FreeSlotIsFree DEF Keepers
<1>2. kpc'[k] = "queued" /\ due'[k] = Period
  BY <1>0, <1>1 DEF Grant, TypeOK
<1>3. Period \in 0..Period /\ Period + (Validity - Period) = Validity
  BY StoreAssumption, MutexAssumption DEF Period
<1>4. \A i \in 1..Len(s) : keys[s[i]].val = m /\ keys[s[i]].ttl >= Validity
  <2>1. \A h \in HostsOf(s) : keys[h].val = m /\ keys[h].ttl >= Validity
    BY <1>0, StoreAssumption DEF Backed, Tracked, RenewInv, NeverTries
  <2> QED BY <2>1 DEF HostsOf
<1>5. k[1] = m
  BY <1>1
<1>6. Watches(k)'
  BY <1>0, <1>2, <1>3, <1>4, <1>5 DEF Watches, Alive, KeepCritical
<1> QED BY <1>5, <1>6

LEMMA WatchedStep ==
  ASSUME RenewInv, Punctual, [Next]_vars, LeaseInv', NEW n \in Mutexes
  PROVE  Watched(n)'
<1>0. /\ TypeOK /\ DelInv /\ MtxInv /\ keys \in Store /\ keys' \in Store
      /\ FaultKinds \subseteq {"kill"}
  BY DEF RenewInv, LeaseInv, DelInv, ConnInv, TypeOK, RedisTypeOK, Punctual
<1>1. \A g \in Hosts : keys[g].ttl \in Nat
  BY <1>0 DEF Store, Entry
<1>2. SUFFICES ASSUME pc'[n] = "held" PROVE \E k \in Keepers : k[1] = n /\ Watches(k)'
  BY DEF Watched
<1>3. ASSUME pc[n] = "held"
      PROVE  \E k \in Keepers : k[1] = n /\ Watches(k)
  BY <1>3 DEF RenewInv, Watched
<1>4. ASSUME NEW t \in Threads, NEW k \in Keepers, k # t, MtxStep(t), Holds(k)'
      PROVE  Holds(k)
  <2>1. ProcOf[k[1]] \in Processes /\ ProcOf[t[1]] \in Processes /\ k # Nobody
    BY MutexAssumption, NobodyAssumption, ThreadTypes DEF Threads
  <2> QED BY <1>0, <1>4, <2>1 DEF MtxStep, Acquire, Release, Holds, TypeOK
<1>5. ASSUME NEW m \in Mutexes, UserCall(m) \/ UserStep(m) \/ RelockUndefined(m)
      PROVE  \E k \in Keepers : k[1] = n /\ Watches(k)'
  <2>1. OnlyUser(m) /\ KeepsOthers(m)
    BY <1>0, <1>5, UserFrame, UserStore
  <2>2. CASE Grant(m) /\ n = m
    BY <2>2, WatchGrant
  <2>3. CASE ~(Grant(m) /\ n = m)
    <3>1. n # m /\ pc[n] = "held"
      <4>1. n # m
        BY <1>0, <1>2, <1>5, <2>3, NewHolder
      <4> QED BY <1>2, <2>1, <4>1 DEF OnlyUser
    <3>2. PICK k \in Keepers : k[1] = n /\ Watches(k)
      BY <1>3, <3>1
    <3>3. /\ UNCHANGED kidx /\ kpc'[k] = kpc[k] /\ due'[k] = due[k]
          /\ sel'[n] = sel[n] /\ have_lock_num'[n] = have_lock_num[n]
      <4>1. CASE Grant(m)
        BY <1>0, <1>5, <2>1, <3>1, <3>2, <4>1, UserRest DEF Grant, TypeOK, OnlyUser
      <4>2. CASE ~Grant(m)
        BY <1>0, <1>5, <2>1, <3>1, <4>2, UserRest DEF OnlyUser
      <4> QED BY <4>1, <4>2
    <3>4. Holds(k)' => Holds(k)
      <4>1. User(m) \in Threads /\ User(m)[1] # k[1]
        BY <3>1, <3>2, ThreadTypes DEF User
      <4> QED BY <1>4, <2>1, <4>1 DEF OnlyUser
    <3>5. \A g \in Hosts : keys[g].val = n => keys'[g].val = n /\ keys'[g].ttl >= keys[g].ttl
      <4>1. n # Nobody
        BY StoreAssumption
      <4> QED BY <1>1, <2>1, <3>1, <4>1 DEF KeepsOthers, Keeps
    <3> QED BY <1>0, <3>2, <3>3, <3>4, <3>5, WatchFrame
  <2> QED BY <2>2, <2>3
<1>6. ASSUME NEW j \in Keepers, KeepStep(j)
      PROVE  \E k \in Keepers : k[1] = n /\ Watches(k)'
  <2>1. OnlyKeeper(j) /\ Keeps(keys, keys')
    BY <1>0, <1>6, KeepFrame, KeepStore
  <2>2. pc[n] = "held"
    BY <1>2, <2>1 DEF OnlyKeeper, Dies, Crash
  <2>3. PICK k \in Keepers : k[1] = n /\ Watches(k)
    BY <1>3, <2>2
  <2>4. CASE k = j
    BY <1>6, <2>2, <2>3, <2>4, WatcherStep
  <2>5. CASE k # j
    <3>1. kidx'[k] = kidx[k] /\ due'[k] = due[k] /\ have_lock_num'[n] = have_lock_num[n]
      BY <1>0, <1>6, <2>1, <2>5, KeepRest DEF OnlyKeeper
    <3>2. \A g \in Hosts : keys[g].val = n => keys'[g].val = n /\ keys'[g].ttl >= keys[g].ttl
      BY <2>1, StoreAssumption DEF Keeps
    <3>3. kpc'[k] = kpc[k]
      BY <1>2, <2>1, <2>3, <2>5 DEF OnlyKeeper, Dies, Crash
    <3>4. /\ Holds(k)' => Holds(k)
          /\ kpc[k] \in KeepCritical => sel'[n] = sel[n]
      <4>1. CASE Dies(ProcOf[j[1]])
        <5>1. ProcOf[k[1]] # ProcOf[j[1]]
          BY <1>2, <2>3, <4>1 DEF Dies, Crash
        <5> QED BY <1>0, <4>1, <5>1 DEF Dies, Crash, Holds, TypeOK
      <4>2. CASE ~Dies(ProcOf[j[1]])
        <5>1. MtxStep(j)
          BY <2>1, <4>2 DEF OnlyKeeper
        <5>2. Holds(k)' => Holds(k)
          BY <1>4, <2>5, <5>1, ThreadTypes
        <5>3. ASSUME kpc[k] \in KeepCritical PROVE sel'[n] = sel[n]
          <6>1. Holds(k) /\ k # Nobody
            BY <1>0, <5>3, NobodyAssumption, ThreadTypes DEF MtxInv
          <6>2. CASE Acquire(j) /\ \A i \in Mutexes \ {j[1]} : sel'[i] = sel[i]
            <7>1. n # j[1]
              BY <2>3, <6>1, <6>2 DEF Acquire, IsFree, Holds
            <7> QED BY <6>2, <7>1
          <6> QED BY <2>1, <4>2, <6>2 DEF OnlyKeeper
        <5> QED BY <5>2, <5>3
      <4> QED BY <4>1, <4>2
    <3> QED BY <1>0, <2>3, <3>1, <3>2, <3>3, <3>4, WatchFrame
  <2> QED BY <2>4, <2>5
<1>7. ASSUME UNCHANGED <<keys, sel, have_lock_num, kidx, due>>, pc[n] = "held",
             \A k \in Keepers : k[1] = n => kpc'[k] = kpc[k] /\ (Holds(k)' => Holds(k))
      PROVE  \E k \in Keepers : k[1] = n /\ Watches(k)'
  <2>1. PICK k \in Keepers : k[1] = n /\ Watches(k)
    BY <1>3, <1>7
  <2>2. \A g \in Hosts : keys'[g].ttl >= keys[g].ttl
    BY <1>1, <1>7
  <2> QED BY <1>0, <1>7, <2>1, <2>2, WatchFrame
<1>8. ASSUME NEW p \in Processes, Kill(p) PROVE \E k \in Keepers : k[1] = n /\ Watches(k)'
  <2>1. pc[n] = "held" /\ ProcOf[n] # p /\ UNCHANGED <<keys, sel, have_lock_num, kidx, due>>
    BY <1>2, <1>8 DEF Kill, Crash
  <2>2. \A k \in Keepers : k[1] = n => kpc'[k] = kpc[k] /\ (Holds(k)' => Holds(k))
    BY <1>0, <1>8, <2>1 DEF Kill, Crash, Holds, TypeOK
  <2> QED BY <1>7, <2>1, <2>2
<1>9. CASE (\E m \in Mutexes : Drop(m)) \/ UNCHANGED vars
  <2>1. UNCHANGED <<keys, sel, pc, have_lock_num, kpc, kidx, due, mtx>>
    BY <1>9 DEF Drop, vars, redisVars, userVars, keepVars
  <2> QED BY <1>2, <1>7, <2>1 DEF Holds
<1>10. CASE Tick
  <2>1. pc[n] = "held"
    BY <1>2, <1>10 DEF Tick
  <2> QED BY <1>3, <1>10, <2>1, WatchTick
<1> QED BY <1>5, <1>6, <1>8, <1>9, <1>10 DEF Next, Mishap


\* The renewal invariant: for any number of DMutexes, hosts, processes and
\* events, stale ones from earlier locks included, and with processes killed at
\* any point, as long as the calls are in time and no command fails.
THEOREM RenewInvariant == ASSUME Punctual PROVE Spec => []RenewInv
<1>0. "delete" \in Prompt /\ "try_lock" \notin Calls
  BY DEF Punctual
<1>1. Init /\ LeaseInv /\ NeverTries => RenewInv
  <2> SUFFICES ASSUME Init, LeaseInv, NeverTries, NEW m \in Mutexes PROVE Ready(m) /\ Watched(m)
    BY DEF RenewInv
  <2>1. /\ pc[m] = "idle" /\ conn[m] = TRUE /\ have_lock_num[m] = <<>>
        /\ \A s \in Slots : kidx[<<m, s>>] = 1
    BY DEF Init, RedisInit, Keepers
  <2>2. HostsOf(have_lock_num[m]) = {}
    BY <2>1 DEF HostsOf
  <2> QED BY <2>1, <2>2 DEF Ready, Timely, Attempting, Marked, Selectable, Rewound, Watched
<1>2. RenewInv /\ [Next]_vars /\ LeaseInv' /\ NeverTries' => RenewInv'
  BY ReadyStep, WatchedStep DEF RenewInv
<1> QED BY <1>0, <1>1, <1>2, LeaseInvariant, CallsMade, PTL DEF Spec

\* Mutual exclusion for as long as the lock is held: from the return of lock()
\* to the call of unlock() no other lock() or try_lock(expire) succeeds.
THEOREM HoldersExclude == ASSUME Punctual PROVE Spec => []HeldExclusion
<1>1. RenewInv => HeldExclusion
  <2> SUFFICES ASSUME RenewInv, NEW m \in Mutexes, NEW n \in Mutexes,
                      pc[m] = "held", pc[n] = "held"
               PROVE  m = n
    BY DEF HeldExclusion
  <2>1. ASSUME NEW l \in Mutexes, pc[l] = "held"
        PROVE  \A h \in HostsOf(have_lock_num[l]) : keys[h].val = l
    <3>1. PICK k \in Keepers : k[1] = l /\ Watches(k)
      BY <2>1 DEF RenewInv, Watched
    <3>2. \A i \in 1..Len(have_lock_num[l]) : keys[have_lock_num[l][i]].val = l
      BY <3>1 DEF Watches, Alive
    <3> QED BY <3>2 DEF HostsOf
  <2> QED BY <2>1, ListMajority, OneQuorum DEF RenewInv, NeverTries
<1> QED BY <1>1, RenewInvariant, PTL

-----------------------------------------------------------------------------
(***************************************************************************)
(* What a KeepLock call finds, the ones left over from earlier locks         *)
(* included.                                                               *)
(***************************************************************************)

\* From its SELECT on, a KeepLock call holds mtx_: as long as lock_index is in
\* range the database at lock_index stays selected.  A lock() that begins
\* meanwhile clears the vector, and none can end before the call unlocks.
Aligned(k) ==
  LET m      == k[1]
      inside == kidx[k] <= Len(have_lock_num[m]) IN
  /\ kidx[k] >= 1
  /\ kpc[k] \in KeepCritical /\ inside => sel[m] = have_lock_num[m][kidx[k]]
  /\ kpc[k] = "set" /\ pc[m] = "held" => ~inside

LEMMA AlignedFrame ==
  ASSUME NEW k \in Keepers, kidx[k] \in Nat, Aligned(k), kidx'[k] = kidx[k],
         kpc'[k] \in KeepCritical =>
           /\ kpc'[k] = kpc[k] /\ sel'[k[1]] = sel[k[1]]
           /\ have_lock_num'[k[1]] \in {have_lock_num[k[1]], <<>>}
           /\ pc'[k[1]] = "held" => pc[k[1]] = "held"
  PROVE  Aligned(k)'
<1>1. CASE kpc'[k] \in KeepCritical /\ have_lock_num'[k[1]] = have_lock_num[k[1]]
  BY <1>1 DEF Aligned
<1>2. CASE kpc'[k] \in KeepCritical /\ have_lock_num'[k[1]] = <<>>
  <2>1. Len(have_lock_num'[k[1]]) = 0
    BY <1>2
  <2>2. ~(kidx[k] <= 0)
    BY DEF Aligned
  <2> QED BY <1>2, <2>1, <2>2 DEF Aligned
<1>3. CASE kpc'[k] \notin KeepCritical
  BY <1>3 DEF Aligned, KeepCritical
<1> QED BY <1>1, <1>2, <1>3

\* The user thread selects a database, pushes a host or becomes a holder only
\* with mtx_, or when nobody has it.
LEMMA UserNeedsMtx ==
  ASSUME TypeOK, MtxInv, NEW m \in Mutexes, ~IsFree(User(m)), ~Holds(User(m)),
         UserCall(m) \/ UserStep(m) \/ RelockUndefined(m)
  PROVE  /\ sel'[m] = sel[m] /\ have_lock_num'[m] \in {have_lock_num[m], <<>>}
         /\ pc'[m] # "held"
<1>0. have_lock_num \in [Mutexes -> Seq(Hosts)] /\ pc[m] \notin UserCritical
  BY DEF TypeOK, MtxInv
<1>1. ~Grant(m) /\ ~UnlockStart(m) /\ \A h \in Hosts : ~Select(m, h)
  BY DEF Grant, UnlockStart, Select, Acquire
<1>2. ~Set(m) /\ ~UnlockSelect(m) /\ ~UnlockExists(m) /\ ~UnlockGet(m) /\ ~UnlockDel(m)
  BY <1>0 DEF Set, UnlockSelect, UnlockExists, UnlockGet, UnlockDel, UserCritical
<1>3. pc'[m] # "held"
  BY <1>1, NewHolder
<1>4. ASSUME NEW c, BeginAttempt(m, c)
      PROVE  have_lock_num'[m] \in {have_lock_num[m], <<>>}
  BY <1>0, <1>4 DEF BeginAttempt
<1>5. ASSUME NEW c \in Calls, CallLock(m, c)
      PROVE  sel'[m] = sel[m] /\ have_lock_num'[m] \in {have_lock_num[m], <<>>}
  BY <1>4, <1>5 DEF CallLock, redisVars
<1>6. CASE Retry(m)
  BY <1>3, <1>4, <1>6 DEF Retry, redisVars
<1>7. CASE CallUnlock(m) \/ Count(m) \/ GiveUp(m)
  BY <1>3, <1>7 DEF CallUnlock, Count, GiveUp, redisVars
<1>8. CASE Relock(m) \/ NotConnected(m) \/ RelockUndefined(m)
  BY <1>3, <1>8 DEF Relock, NotConnected, RelockUndefined, Throw, redisVars
<1> QED BY <1>1, <1>2, <1>3, <1>5, <1>6, <1>7, <1>8 DEF UserCall, UserStep

\* The KeepLock call itself: the key of a host at an index in range is there as
\* long as the lock is held, so EXISTS does not send it to SET.
LEMMA KeeperAligned ==
  ASSUME RenewInv, Punctual, NEW k \in Keepers, Aligned(k), KeepStep(k)
  PROVE  Aligned(k)'
<1> DEFINE m == k[1]
<1>0. /\ m \in Mutexes /\ TypeOK /\ FaultKinds \subseteq {"kill"}
      /\ kpc \in [Keepers -> KeepPC] /\ kidx \in [Keepers -> Nat] /\ kidx[k] >= 1
      /\ sel \in [Mutexes -> 0..HostCount] /\ have_lock_num[m] \in Seq(Hosts)
  BY ThreadTypes DEF RenewInv, LeaseInv, DelInv, ConnInv, TypeOK, RedisTypeOK, Punctual, Aligned
<1>1. ASSUME kpc'[k] \notin KeepCritical, kidx'[k] >= 1 PROVE Aligned(k)'
  BY <1>1 DEF Aligned, KeepCritical
<1>2. CASE KeepStart(k) \/ KeepCheck(k)
  <2>1. kpc'[k] \in {"free", "queued", "check", "lock"} /\ kidx'[k] >= 1
    BY <1>0, <1>2 DEF KeepStart, KeepCheck, Requeue, KeepGoto
  <2> QED BY <1>1, <2>1 DEF KeepCritical
<1>3. CASE KeepThrows(k)
  <2>1. kpc'[k] = "free" /\ kidx'[k] = kidx[k]
    BY <1>3 DEF KeepThrows, Crash
  <2> QED BY <1>0, <1>1, <2>1 DEF KeepCritical
<1>4. CASE KeepSet(k)
  <2>1. kpc'[k] = "check" /\ kidx'[k] = kidx[k]
    BY <1>0, <1>4 DEF KeepSet, KeepLoop, KeepGoto
  <2> QED BY <1>0, <1>1, <2>1 DEF KeepCritical
<1>5. CASE KeepPexpire(k)
  <2>1. \/ kpc'[k] = "free" /\ kidx'[k] = kidx[k]
        \/ kpc'[k] = "check" /\ kidx'[k] \in {kidx[k], kidx[k] + 1}
    BY <1>0, <1>5 DEF KeepPexpire, Crash, KeepLoop, KeepGoto
  <2>2. kidx'[k] >= 1
    BY <1>0, <2>1
  <2> QED BY <1>1, <2>1, <2>2 DEF KeepCritical
<1>6. CASE KeepGet(k)
  <2>1. /\ kidx'[k] = kidx[k] /\ UNCHANGED <<sel, have_lock_num>>
        /\ kpc'[k] \in {"free", "check", "pexpire"} /\ kpc[k] = "get"
    BY <1>0, <1>6 DEF KeepGet, Crash, KeepLoop, KeepGoto
  <2> QED BY <2>1 DEF Aligned, KeepCritical
<1>7. CASE KeepSelect(k)
  <2>1. PICK h \in Hosts, fate \in Fates :
           LET ok == SelectResult(ReplyTo(fate, SelectReply(h))) = "kSelectDBSucceed" IN
           /\ kidx[k] <= Len(have_lock_num[m]) => h = have_lock_num[m][kidx[k]]
           /\ sel'  = IF ok THEN [sel EXCEPT ![m] = h] ELSE sel
           /\ KeepGoto(k, IF ok THEN "exists" ELSE "check")
           /\ kidx' = [kidx EXCEPT ![k] = IF ok THEN @ ELSE @ + 1]
    BY <1>7 DEF KeepSelect
  <2>2. UNCHANGED have_lock_num
    BY <1>7 DEF KeepSelect, userVars
  <2>3. CASE SelectResult(ReplyTo(fate, SelectReply(h))) = "kSelectDBSucceed"
    <3>1. kpc'[k] = "exists" /\ kidx'[k] = kidx[k] /\ sel'[m] = h
      BY <1>0, <2>1, <2>3 DEF KeepGoto
    <3> QED BY <1>0, <2>1, <2>2, <3>1 DEF Aligned
  <2>4. CASE SelectResult(ReplyTo(fate, SelectReply(h))) # "kSelectDBSucceed"
    <3>1. kpc'[k] = "check" /\ kidx'[k] = kidx[k] + 1
      BY <1>0, <2>1, <2>4 DEF KeepGoto
    <3>2. kidx'[k] >= 1
      BY <1>0, <3>1
    <3> QED BY <1>1, <3>1, <3>2 DEF KeepCritical
  <2> QED BY <2>3, <2>4
<1>8. CASE KeepExists(k)
  <2>1. PICK fate \in Fates :
          LET res == AfterExists(ReplyTo(fate, ExistsReply(sel[m]))) IN
          /\ Command(m, fate, keys)
          /\ CASE res = "throw"  -> Crash(ProcOf[m])
               [] res = "absent" -> KeepGoto(k, "set") /\ UNCHANGED <<pc, mtx>>
               [] OTHER          -> KeepGoto(k, "get") /\ UNCHANGED <<pc, mtx>>
    BY <1>8 DEF KeepExists
  <2>2. kpc[k] = "exists" /\ UNCHANGED <<sel, have_lock_num, kidx>>
    BY <1>8 DEF KeepExists
  <2>3. \/ kpc'[k] = "free"
        \/ kpc'[k] \in {"set", "get"} /\ UNCHANGED pc
    BY <1>0, <2>1 DEF Crash, KeepGoto
  <2>4. ASSUME pc[m] = "held", kidx[k] <= Len(have_lock_num[m])
        PROVE  kpc'[k] # "set"
    <3>1. sel[m] = have_lock_num[m][kidx[k]] /\ kidx[k] \in 1..Len(have_lock_num[m])
      BY <1>0, <2>2, <2>4 DEF Aligned, KeepCritical
    <3>2. PICK j \in Keepers : j[1] = m /\ Watches(j)
      BY <1>0, <2>4 DEF RenewInv, Watched
    <3>3. keys[sel[m]].val = m /\ m # Nobody
      BY <1>0, <3>1, <3>2, StoreAssumption DEF Watches, Alive
    <3>4. fate = "ok"
      BY <1>0, <2>1, NoFault
    <3>5. AfterExists(ReplyTo(fate, ExistsReply(sel[m]))) \notin {"throw", "absent"}
      BY <3>3, <3>4 DEF AfterExists, ReplyTo, ExistsReply, Exists, IntReply, as_integer_throws
    <3>6. KeepGoto(k, "get")
      BY <2>1, <3>5
    <3> QED BY <1>0, <3>6 DEF KeepGoto
  <2> QED BY <1>0, <2>2, <2>3, <2>4 DEF Aligned, KeepCritical
<1> QED BY <1>2, <1>3, <1>4, <1>5, <1>6, <1>7, <1>8 DEF KeepStep

LEMMA AlignedStep ==
  ASSUME RenewInv, Punctual, [Next]_vars, NEW k \in Keepers, Aligned(k)
  PROVE  Aligned(k)'
<1> DEFINE m == k[1]
<1>0. /\ m \in Mutexes /\ TypeOK /\ MtxInv /\ kpc \in [Keepers -> KeepPC] /\ kidx[k] \in Nat
      /\ k # Nobody
  BY ThreadTypes, NobodyAssumption DEF RenewInv, LeaseInv, DelInv, ConnInv, TypeOK
<1>1. ASSUME NEW n \in Mutexes, UserCall(n) \/ UserStep(n) \/ RelockUndefined(n)
      PROVE  Aligned(k)'
  <2>1. OnlyUser(n) /\ UNCHANGED kidx
    BY <1>0, <1>1, UserFrame, UserRest
  <2>2. CASE n # m
    BY <1>0, <2>1, <2>2, AlignedFrame DEF OnlyUser
  <2>3. CASE n = m
    <3>1. ASSUME kpc'[k] \in KeepCritical
          PROVE  ~IsFree(User(m)) /\ ~Holds(User(m)) /\ kpc'[k] = kpc[k]
      <4>1. Holds(k) /\ kpc'[k] = kpc[k]
        BY <1>0, <2>1, <3>1 DEF OnlyUser, MtxInv
      <4>2. k # User(m)
        BY DEF User, Keepers, Slots
      <4> QED BY <1>0, <4>1, <4>2 DEF IsFree, Holds, User
    <3>2. kpc'[k] \in KeepCritical =>
             /\ sel'[m] = sel[m] /\ have_lock_num'[m] \in {have_lock_num[m], <<>>}
             /\ pc'[m] # "held"
      BY <1>0, <1>1, <2>3, <3>1, UserNeedsMtx
    <3> QED BY <1>0, <2>1, <3>1, <3>2, AlignedFrame
  <2> QED BY <2>2, <2>3
<1>2. ASSUME NEW j \in Keepers, KeepStep(j) PROVE Aligned(k)'
  <2>1. OnlyKeeper(j)
    BY <1>0, <1>2, KeepFrame
  <2>2. CASE j = k
    BY <1>2, <2>2, KeeperAligned
  <2>3. CASE j # k
    <3>1. kidx'[k] = kidx[k] /\ have_lock_num' = have_lock_num
      BY <1>0, <1>2, <2>1, <2>3, KeepRest DEF OnlyKeeper
    <3>2. ASSUME kpc'[k] \in KeepCritical
          PROVE  /\ kpc'[k] = kpc[k] /\ sel'[m] = sel[m]
                 /\ pc'[m] = "held" => pc[m] = "held"
      <4>1. CASE Dies(ProcOf[j[1]])
        BY <1>0, <3>2, <4>1 DEF Dies, Crash, KeepCritical
      <4>2. CASE ~Dies(ProcOf[j[1]])
        <5>1. UNCHANGED pc /\ kpc'[k] = kpc[k]
          BY <2>1, <2>3, <4>2 DEF OnlyKeeper
        <5>2. Holds(k)
          BY <1>0, <3>2, <5>1 DEF MtxInv
        <5>3. CASE Acquire(j) /\ \A i \in Mutexes \ {j[1]} : sel'[i] = sel[i]
          <6>1. m # j[1]
            BY <1>0, <5>2, <5>3 DEF Acquire, IsFree, Holds
          <6> QED BY <1>0, <5>1, <5>3, <6>1
        <5> QED BY <2>1, <4>2, <5>1, <5>3 DEF OnlyKeeper
      <4> QED BY <4>1, <4>2
    <3> QED BY <1>0, <3>1, <3>2, AlignedFrame
  <2> QED BY <2>2, <2>3
<1>3. ASSUME NEW p \in Processes, Kill(p) PROVE Aligned(k)'
  BY <1>0, <1>3, AlignedFrame DEF Kill, Crash, KeepCritical
<1>4. CASE (\E n \in Mutexes : Drop(n)) \/ Tick \/ UNCHANGED vars
  <2>1. UNCHANGED <<sel, pc, have_lock_num, kpc, kidx>>
    BY <1>4 DEF Drop, Tick, vars, redisVars, userVars, keepVars
  <2> QED BY <1>0, <2>1, AlignedFrame
<1> QED BY <1>1, <1>2, <1>3, <1>4 DEF Next, Mishap

\* A KeepLock call of a holder, whichever lock() pushed its event, finds the key
\* of the host at lock_index: for any number of events per DMutex and of
\* DMutexes per process.  That the index is in range is no theorem: run
\* StaleIndex shows it leave the range.
THEOREM RenewalsFindKeys == ASSUME Punctual PROVE Spec => []RenewalFindsKey
<1>1. Init => \A k \in Keepers : Aligned(k)
  BY DEF Init, Aligned, KeepCritical
<1>2. RenewInv /\ [Next]_vars /\ (\A k \in Keepers : Aligned(k)) => (\A k \in Keepers : Aligned(k))'
  BY AlignedStep
<1>3. RenewInv /\ (\A k \in Keepers : Aligned(k)) => RenewalFindsKey
  <2> SUFFICES ASSUME RenewInv, NEW k \in Keepers, Aligned(k), pc[k[1]] = "held",
                      kpc[k] \in KeepCritical, kidx[k] <= Len(have_lock_num[k[1]])
               PROVE  /\ sel[k[1]] = have_lock_num[k[1]][kidx[k]]
                      /\ keys[sel[k[1]]].val = k[1]
                      /\ kpc[k] # "set"
    BY DEF RenewalFindsKey, KeepCritical
  <2>1. /\ k[1] \in Mutexes /\ kidx[k] \in Nat /\ have_lock_num[k[1]] \in Seq(Hosts)
    BY ThreadTypes DEF RenewInv, LeaseInv, DelInv, ConnInv, TypeOK
  <2>2. sel[k[1]] = have_lock_num[k[1]][kidx[k]] /\ kpc[k] # "set"
    BY DEF Aligned
  <2>3. kidx[k] \in 1..Len(have_lock_num[k[1]])
    BY <2>1 DEF Aligned
  <2>4. PICK j \in Keepers : j[1] = k[1] /\ Watches(j)
    BY <2>1 DEF RenewInv, Watched
  <2>5. keys[sel[k[1]]].val = k[1]
    BY <2>2, <2>3, <2>4 DEF Watches, Alive
  <2> QED BY <2>2, <2>5
<1> QED BY <1>1, <1>2, <1>3, RenewInvariant, PTL DEF Spec
=============================================================================
