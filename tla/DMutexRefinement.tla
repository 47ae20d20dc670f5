-------------------------- MODULE DMutexRefinement --------------------------
(***************************************************************************)
(* DMutex implements LeaseLock, for every value of the constants: what the   *)
(* keys in a majority of databases amount to is a lease.                     *)
(*                                                                         *)
(* The lease of a holder is the number of ticks for which its keys make up a *)
(* majority.  Most of the argument is about one store, or about a store and  *)
(* what a command or a tick turns it into, and not about the state machine.  *)
(***************************************************************************)
EXTENDS DMutexProofs, FunctionTheorems

\* The databases that keep a key of m for t more ticks, and the times for which
\* these are a majority.
Durable(db, m, t) == {h \in Hosts : db[h].val = m /\ db[h].ttl >= t}
SafeTimes(db, m)  == {t \in 1..Validity : 2 * Cardinality(Durable(db, m, t)) > HostCount}

LEMMA HostsFinite == IsFiniteSet(Hosts) /\ Cardinality(Hosts) = HostCount
BY StoreAssumption, FS_Interval DEF Hosts

LEMMA DurableFinite ==
  ASSUME NEW db, NEW m, NEW t
  PROVE  /\ Durable(db, m, t) \subseteq Hosts
         /\ IsFiniteSet(Durable(db, m, t))
         /\ Cardinality(Durable(db, m, t)) \in Nat
<1>1. Durable(db, m, t) \in SUBSET Hosts
  BY DEF Durable
<1> QED BY <1>1, HostsFinite, FS_Subset, FS_CardinalityType

LEMMA SafeTimesFinite ==
  ASSUME NEW db, NEW m
  PROVE  /\ SafeTimes(db, m) \in SUBSET (1..Validity)
         /\ IsFiniteSet(SafeTimes(db, m))
         /\ Cardinality(SafeTimes(db, m)) \in 0..Validity
         /\ Cardinality(SafeTimes(db, m)) > 0 <=> SafeTimes(db, m) # {}
<1>1. SafeTimes(db, m) \in SUBSET (1..Validity)
  BY DEF SafeTimes
<1>2. IsFiniteSet(1..Validity) /\ Cardinality(1..Validity) = Validity
  BY StoreAssumption, FS_Interval
<1>3. /\ IsFiniteSet(SafeTimes(db, m)) /\ Cardinality(SafeTimes(db, m)) \in Nat
      /\ Cardinality(SafeTimes(db, m)) <= Validity
  BY <1>1, <1>2, FS_Subset, FS_CardinalityType
<1>4. Cardinality(SafeTimes(db, m)) = 0 <=> SafeTimes(db, m) = {}
  BY <1>3, FS_EmptySet
<1> QED BY <1>1, <1>3, <1>4, StoreAssumption

\* Two majorities of the databases have one in common, and it has one value.
LEMMA OneMajority ==
  ASSUME NEW db, NEW m, NEW n, SafeTimes(db, m) # {}, SafeTimes(db, n) # {}
  PROVE  m = n
<1>1. PICK t \in 1..Validity : 2 * Cardinality(Durable(db, m, t)) > HostCount
  BY DEF SafeTimes
<1>2. PICK u \in 1..Validity : 2 * Cardinality(Durable(db, n, u)) > HostCount
  BY DEF SafeTimes
<1>3. Cardinality(Durable(db, m, t)) + Cardinality(Durable(db, n, u)) > Cardinality(Hosts)
  BY <1>1, <1>2, DurableFinite, HostsFinite, StoreAssumption
<1>4. Durable(db, m, t) \cap Durable(db, n, u) # {}
  BY <1>3, DurableFinite, HostsFinite, FS_MajoritiesIntersect
<1> QED BY <1>4 DEF Durable

\* Keys that are kept, with as much time to live, keep the lease.
LEMMA LeaseKept ==
  ASSUME NEW db \in Store, NEW d \in Store, NEW m,
         \A g \in Hosts : db[g].val = m => d[g].val = m /\ d[g].ttl >= db[g].ttl
  PROVE  Cardinality(SafeTimes(db, m)) <= Cardinality(SafeTimes(d, m))
<1>0. \A g \in Hosts : db[g].ttl \in Nat /\ d[g].ttl \in Nat
  BY DEF Store, Entry
<1>1. ASSUME NEW t \in 1..Validity
      PROVE  Cardinality(Durable(db, m, t)) <= Cardinality(Durable(d, m, t))
  <2>1. Durable(db, m, t) \in SUBSET Durable(d, m, t)
    BY <1>0, StoreAssumption DEF Durable
  <2> QED BY <2>1, DurableFinite, FS_Subset
<1>2. SafeTimes(db, m) \in SUBSET SafeTimes(d, m)
  <2>1. ASSUME NEW t \in 1..Validity, 2 * Cardinality(Durable(db, m, t)) > HostCount
        PROVE  2 * Cardinality(Durable(d, m, t)) > HostCount
    BY <1>1, <2>1, DurableFinite, StoreAssumption
  <2> QED BY <2>1 DEF SafeTimes
<1> QED BY <1>2, SafeTimesFinite, FS_Subset

\* A tick takes one tick from every lease: the times of the new store are the
\* times of the old one, less by one, without the time 1.
LEMMA LeaseTicks ==
  ASSUME NEW db \in Store, NEW d \in Store, NEW m,
         \A h \in Hosts : db[h].val = m /\ db[h].ttl # 1 =>
                            d[h].val = m /\ d[h].ttl = db[h].ttl - 1,
         \A h \in Hosts : d[h].val = m =>
                            db[h].val = m /\ db[h].ttl = d[h].ttl + 1
  PROVE  Cardinality(SafeTimes(d, m)) =
           IF Cardinality(SafeTimes(db, m)) > 0 THEN Cardinality(SafeTimes(db, m)) - 1 ELSE 0
<1> DEFINE T == SafeTimes(db, m)
           U == SafeTimes(d, m)
           f == [t \in U |-> t + 1]
<1>0. \A h \in Hosts : db[h].ttl \in 0..Validity /\ d[h].ttl \in 0..Validity
  BY DEF Store, Entry
<1>1. ASSUME NEW t \in Nat \ {0} PROVE Durable(d, m, t) = Durable(db, m, t + 1)
  <2>1. ASSUME NEW h \in Hosts
        PROVE  d[h].val = m /\ d[h].ttl >= t <=> db[h].val = m /\ db[h].ttl >= t + 1
    BY <1>0, StoreAssumption
  <2> QED BY <2>1 DEF Durable
<1>2. Cardinality(Durable(db, m, Validity + 1)) = 0
  <2>1. Durable(db, m, Validity + 1) = {}
    BY <1>0, StoreAssumption DEF Durable
  <2> QED BY <2>1, FS_EmptySet
<1>3. ASSUME NEW t \in 1..Validity PROVE t \in U <=> t + 1 \in T
  <2>1. Durable(d, m, t) = Durable(db, m, t + 1)
    BY <1>1, StoreAssumption
  <2>2. CASE t = Validity
    <3>1. t \notin U
      BY <1>2, <2>1, <2>2, StoreAssumption DEF SafeTimes
    <3>2. t + 1 \notin T
      BY <2>2, StoreAssumption DEF SafeTimes
    <3> QED BY <3>1, <3>2
  <2>3. CASE t # Validity
    <3>1. t + 1 \in 1..Validity
      BY <2>3, StoreAssumption
    <3> QED BY <2>1, <3>1 DEF SafeTimes
  <2> QED BY <2>2, <2>3
<1>4. T # {} => 1 \in T
  <2> SUFFICES ASSUME NEW t \in T PROVE 1 \in T
    OBVIOUS
  <2>1. t \in 1..Validity /\ 2 * Cardinality(Durable(db, m, t)) > HostCount
    BY DEF SafeTimes
  <2>2. Durable(db, m, t) \in SUBSET Durable(db, m, 1)
    BY <1>0, <2>1, StoreAssumption DEF Durable
  <2>3. Cardinality(Durable(db, m, t)) <= Cardinality(Durable(db, m, 1))
    BY <2>2, DurableFinite, FS_Subset
  <2>4. 2 * Cardinality(Durable(db, m, 1)) > HostCount
    BY <2>1, <2>3, DurableFinite, StoreAssumption
  <2>5. 1 \in 1..Validity
    BY StoreAssumption
  <2> QED BY <2>4, <2>5 DEF SafeTimes
<1>5. /\ IsFiniteSet(U) /\ IsFiniteSet(T) /\ U \subseteq 1..Validity /\ T \subseteq 1..Validity
      /\ Cardinality(T) \in Nat /\ (Cardinality(T) > 0 <=> T # {})
  BY SafeTimesFinite, StoreAssumption
<1> HIDE DEF T, U
<1>6. f \in Bijection(U, T \ {1})
  <2>1. f \in [U -> T \ {1}]
    BY <1>3, <1>5, StoreAssumption
  <2>2. \A s, t \in U : f[s] = f[t] => s = t
    BY <1>5, StoreAssumption
  <2>3. \A u \in T \ {1} : \E t \in U : f[t] = u
    <3> SUFFICES ASSUME NEW u \in T \ {1} PROVE u - 1 \in U /\ f[u - 1] = u
      OBVIOUS
    <3>1. u - 1 \in 1..Validity /\ (u - 1) + 1 = u
      BY <1>5, StoreAssumption
    <3>2. u - 1 \in U
      BY <1>3, <3>1
    <3> QED BY <3>1, <3>2
  <2> QED BY <2>1, <2>2, <2>3, Fun_IsBij
<1>7. Cardinality(T \ {1}) = Cardinality(U)
  BY <1>5, <1>6, FS_Bijection DEF ExistsBijection
<1>8. Cardinality(T \ {1}) = IF 1 \in T THEN Cardinality(T) - 1 ELSE Cardinality(T)
  BY <1>5, FS_RemoveElement
<1>9. T = {} => Cardinality(T) = 0
  BY FS_EmptySet
<1> QED BY <1>4, <1>5, <1>7, <1>8, <1>9 DEF T, U

-----------------------------------------------------------------------------
(***************************************************************************)
(* The steps.  leases is the function the refinement mapping puts in the     *)
(* place of LeaseLock's variable lease.                                      *)
(***************************************************************************)
leases == [m \in Mutexes |-> LeaseOf(m)]

LEMMA LeaseValue ==
  ASSUME NEW m \in Mutexes
  PROVE  /\ leases[m] = IF m \in Held THEN Cardinality(SafeTimes(keys, m)) ELSE 0
         /\ leases'[m] = IF m \in Held' THEN Cardinality(SafeTimes(keys', m)) ELSE 0
<1>1. \A t : {h \in OwnKeys(m) : keys[h].ttl >= t} = Durable(keys, m, t)
  BY DEF OwnKeys, Durable
<1>2. \A t : {h \in OwnKeys(m) : keys[h].ttl >= t}' = Durable(keys', m, t)
  BY DEF OwnKeys, Durable
<1>3. {t \in 1..Validity : SafeFor(m, t)} = SafeTimes(keys, m)
  BY <1>1 DEF SafeFor, SafeTimes
<1>4. {t \in 1..Validity : SafeFor(m, t)}' = SafeTimes(keys', m)
  BY <1>2 DEF SafeFor, SafeTimes
<1>5. leases[m] = LeaseOf(m) /\ leases'[m] = LeaseOf(m)'
  BY DEF leases
<1> QED BY <1>3, <1>4, <1>5 DEF LeaseOf

\* Whatever the state, at most one DMutex has a lease.
LEMMA LeasesLegal == leases' \in Lease!Leases
<1>1. leases' = [m \in Mutexes |-> leases'[m]]
  BY DEF leases
<1>2. \A m \in Mutexes : leases'[m] \in 0..Validity
  <2>1. 0 \in 0..Validity
    BY StoreAssumption
  <2> QED BY <2>1, LeaseValue, SafeTimesFinite
<1>3. ASSUME NEW m \in Mutexes, NEW n \in Mutexes, leases'[m] > 0, leases'[n] > 0
      PROVE  m = n
  <2>1. SafeTimes(keys', m) # {} /\ SafeTimes(keys', n) # {}
    BY <1>3, LeaseValue, SafeTimesFinite
  <2> QED BY <2>1, OneMajority
<1> QED BY <1>1, <1>2, <1>3 DEF Lease!Leases

\* Nobody who keeps the lock loses a part of the lease.
LeasesSpared == \A m \in Held \cap Held' : ~(leases'[m] < leases[m])

\* Nobody is granted the lock and the keys of those who keep it are kept.
LEMMA LeaveRefines ==
  ASSUME keys \in Store, keys' \in Store, Held' \subseteq Held,
         \A m \in Held' : \A g \in Hosts :
           keys[g].val = m => keys'[g].val = m /\ keys'[g].ttl >= keys[g].ttl
  PROVE  Lease!Next /\ LeasesSpared
<1> DEFINE S == Held \ Held'
<1>0. Held' = Held \ S /\ S \in SUBSET Held
  OBVIOUS
<1>1. ASSUME NEW m \in Mutexes, m \in Held \ S
      PROVE  leases'[m] >= leases[m] /\ ~(leases'[m] < leases[m])
  <2>1. m \in Held /\ m \in Held'
    BY <1>1
  <2>2. Cardinality(SafeTimes(keys, m)) <= Cardinality(SafeTimes(keys', m))
    BY <2>1, LeaseKept
  <2> QED BY <2>1, <2>2, LeaseValue, SafeTimesFinite, StoreAssumption
<1>2. ASSUME NEW m \in Mutexes, m \notin Held \ S PROVE leases'[m] = 0
  BY <1>0, <1>2, LeaseValue
<1> HIDE DEF S
<1>3. Lease!Leave(S)
  BY <1>0, <1>1, <1>2, LeasesLegal DEF Lease!Leave, leases
<1>4. LeasesSpared
  BY <1>0, <1>1 DEF LeasesSpared, Held
<1> QED BY <1>0, <1>3, <1>4 DEF Lease!Next

LEMMA GrantRefines ==
  ASSUME TypeOK, NEW m \in Mutexes, Grant(m)
  PROVE  Lease!Next /\ LeasesSpared
<1>1. keys' = keys /\ Held' = Held \cup {m} /\ m \notin Held
  BY DEF Grant, redisVars, Goto, TypeOK, Held
<1>2. \A n \in Mutexes \ {m} : leases'[n] = leases[n]
  BY <1>1, LeaseValue
<1>3. Lease!Grant(m)
  BY <1>1, <1>2, LeasesLegal DEF Lease!Grant, leases
<1>4. LeasesSpared
  <2> SUFFICES ASSUME NEW n \in Held, n \in Held' PROVE ~(leases'[n] < leases[n])
    BY DEF LeasesSpared
  <2>1. n \in Mutexes \ {m}
    BY <1>1 DEF Held
  <2>2. leases[n] \in Nat
    BY <2>1, LeaseValue, SafeTimesFinite
  <2> QED BY <1>2, <2>1, <2>2
<1> QED BY <1>3, <1>4 DEF Lease!Next

LEMMA TickRefines ==
  ASSUME DelInv, Tick, keys' \in Store
  PROVE  Lease!Next
<1>0. keys \in Store /\ Held' = Held
  BY DEF DelInv, ConnInv, TypeOK, RedisTypeOK, Tick, Held
<1>1. ASSUME NEW m \in Mutexes
      PROVE  leases'[m] = IF leases[m] > 0 THEN leases[m] - 1 ELSE 0
  <2>1. m # Nobody
    BY StoreAssumption
  <2>2. Cardinality(SafeTimes(keys', m)) =
          IF Cardinality(SafeTimes(keys, m)) > 0 THEN Cardinality(SafeTimes(keys, m)) - 1 ELSE 0
    BY <1>0, <2>1, TickStore, LeaseTicks
  <2> QED BY <1>0, <2>2, LeaseValue
<1>2. leases' = [m \in Mutexes |-> IF leases[m] > 0 THEN leases[m] - 1 ELSE 0]
  BY <1>1 DEF leases
<1>3. Lease!Tick
  BY <1>0, <1>2 DEF Lease!Tick, leases
<1> QED BY <1>3 DEF Lease!Next

LEMMA StepRefines ==
  ASSUME DelInv, [Next]_vars, TypeOK'
  PROVE  [Lease!Next]_(Lease!vars) /\ (Tick \/ LeasesSpared \/ UNCHANGED vars)
<1>0. TypeOK /\ keys \in Store /\ keys' \in Store
  BY DEF DelInv, ConnInv, TypeOK, RedisTypeOK
<1>1. \A g \in Hosts : keys[g].ttl \in Nat
  BY <1>0 DEF Store, Entry
<1>2. ASSUME NEW m \in Mutexes, UserCall(m) \/ UserStep(m) \/ RelockUndefined(m)
      PROVE  Lease!Next /\ LeasesSpared
  <2>1. CASE Grant(m)
    BY <1>0, <2>1, GrantRefines
  <2>2. CASE ~Grant(m)
    <3>1. OnlyUser(m) /\ KeepsOthers(m) /\ pc'[m] # "held"
      BY <1>0, <1>2, <2>2, UserFrame, UserStore, NewHolder
    <3>2. Held' \subseteq Held /\ m \notin Held'
      BY <3>1 DEF Held, OnlyUser
    <3>3. ASSUME NEW n \in Held', NEW g \in Hosts, keys[g].val = n
          PROVE  keys'[g].val = n /\ keys'[g].ttl >= keys[g].ttl
      <4>1. n # Nobody /\ n # m
        BY <3>2, StoreAssumption DEF Held
      <4> QED BY <1>1, <3>1, <3>3, <4>1 DEF KeepsOthers, Keeps
    <3> QED BY <1>0, <3>2, <3>3, LeaveRefines
  <2> QED BY <2>1, <2>2
<1>3. ASSUME Keeps(keys, keys'), \A n \in Mutexes : pc'[n] \in {pc[n], "dead"}
      PROVE  Lease!Next /\ LeasesSpared
  <2>1. Held' \subseteq Held /\ Nobody \notin Held'
    BY <1>3, StoreAssumption DEF Held
  <2> QED BY <1>0, <1>3, <2>1, LeaveRefines DEF Keeps
<1>4. ASSUME NEW k \in Keepers, KeepStep(k) PROVE Lease!Next /\ LeasesSpared
  <2>1. Keeps(keys, keys') /\ OnlyKeeper(k)
    BY <1>0, <1>4, KeepStore, KeepFrame
  <2>2. \A n \in Mutexes : pc'[n] \in {pc[n], "dead"}
    BY <2>1 DEF OnlyKeeper, Dies, Crash
  <2> QED BY <1>3, <2>1, <2>2
<1>5. CASE (\E p \in Processes : Kill(p)) \/ (\E m \in Mutexes : Drop(m))
  <2>1. UNCHANGED keys /\ \A n \in Mutexes : pc'[n] \in {pc[n], "dead"}
    BY <1>5 DEF Kill, Crash, Drop, userVars
  <2>2. Keeps(keys, keys')
    BY <1>1, <2>1 DEF Keeps
  <2> QED BY <1>3, <2>1, <2>2
<1>6. CASE UNCHANGED vars
  <2>1. UNCHANGED <<keys, pc>>
    BY <1>6 DEF vars, redisVars, userVars
  <2>2. UNCHANGED Held
    BY <2>1 DEF Held
  <2>3. \A m \in Mutexes : LeaseOf(m)' = LeaseOf(m)
    BY <2>1, <2>2 DEF LeaseOf, SafeFor, OwnKeys
  <2> QED BY <1>6, <2>2, <2>3 DEF Lease!vars
<1> QED BY <1>0, <1>2, <1>4, <1>5, <1>6, TickRefines DEF Next, Mishap

\* The databases and the DMutexes implement a lock with leases: only time
\* shortens a holder's lease, renewals prolong it, and no two DMutexes have a
\* lease at once.  No call, fault or number of stale events changes that; the
\* one assumption is that a DEL overtakes the expiry of the key its GET saw.
THEOREM DMutexRefinesLeaseLock ==
  ASSUME "delete" \in Prompt
  PROVE  Spec => ImplementsLeaseLock
<1>1. Init => Lease!Init
  <2> SUFFICES ASSUME Init PROVE Lease!Init
    OBVIOUS
  <2>1. Held = {}
    BY DEF Init, Held
  <2> QED BY <2>1 DEF Lease!Init, LeaseOf
<1>2. DelInv /\ DelInv' /\ [Next]_vars => [Lease!Next]_(Lease!vars)
  BY StepRefines DEF DelInv, ConnInv
<1>3. DelInv /\ DelInv' /\ [Next]_vars
        => [\A m \in Held \cap Held' : LeaseOf(m)' < LeaseOf(m) => Tick]_vars
  <2> SUFFICES ASSUME DelInv, DelInv', [Next]_vars, ~UNCHANGED vars, ~Tick,
                      NEW m \in Held \cap Held', LeaseOf(m)' < LeaseOf(m)
               PROVE  FALSE
    OBVIOUS
  <2>1. LeasesSpared
    BY StepRefines DEF DelInv, ConnInv
  <2>2. leases[m] = LeaseOf(m) /\ leases'[m] = LeaseOf(m)'
    BY DEF leases, Held
  <2> QED BY <2>1, <2>2 DEF LeasesSpared
<1> QED BY <1>1, <1>2, <1>3, DelInvariant, PTL
           DEF Spec, ImplementsLeaseLock, OnlyTimeShortens, Lease!Spec
=============================================================================
