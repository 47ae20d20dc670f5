------------------------- MODULE TimeoutQueueProofs -------------------------
(***************************************************************************)
(* Proofs about module TimeoutQueue, for any number of workers and events    *)
(* and any timeouts.                                                        *)
(***************************************************************************)
EXTENDS TimeoutQueue, FiniteSetTheorems, TLAPS

\* The workers that have a node in hand.
Busy == {w \in Workers : hand[w] # None}

\* A worker has a node from its extraction to its return or destruction.
WithNode == {"wait", "tblock", "tasleep", "tawake", "run", "relock"}

HandInv == \A w \in Workers : hand[w] # None <=> wpc[w] \in WithNode

\* Who is about to fall asleep, or to wait for a timeout, holds mtx_, and so
\* does the caller of WaitUntilAllDone once it has returned.
MtxInv ==
  /\ \A w \in Workers : wpc[w] \in {"block", "tblock", "wait"} => mtx = w
  /\ waiter = "returned" => mtx = Client

QueueInv ==
  /\ TypeOK /\ HandInv /\ MtxInv
  /\ EventsConserved /\ OutIsCounted /\ AllDoneIsDone

-----------------------------------------------------------------------------
(***************************************************************************)
(* Counting the nodes in hand.                                              *)
(***************************************************************************)
LEMMA BusyFinite ==
  IsFiniteSet(Busy) /\ Cardinality(Busy) \in Nat
<1>1. Busy \in SUBSET Workers
  BY DEF Busy
<1> QED BY <1>1, QueueAssumption, FS_Subset, FS_CardinalityType

\* A worker takes a node.
LEMMA BusyMore ==
  ASSUME TypeOK, OutIsCounted, NEW w \in Workers, NEW e \in Events,
         hand[w] = None, hand' = [hand EXCEPT ![w] = e],
         events_out_of_queue' = events_out_of_queue + 1
  PROVE  OutIsCounted' /\ events_out_of_queue' \in Nat
<1>1. Busy' = Busy \cup {w} /\ w \notin Busy
  BY QueueAssumption DEF Busy, TypeOK
<1>2. Cardinality(Busy') = Cardinality(Busy) + 1
  BY <1>1, BusyFinite, FS_AddElement
<1> QED BY <1>2, BusyFinite DEF OutIsCounted, Busy

\* A worker gives its node away.
LEMMA BusyLess ==
  ASSUME TypeOK, OutIsCounted, NEW w \in Workers,
         hand[w] # None, hand' = [hand EXCEPT ![w] = None],
         events_out_of_queue' = events_out_of_queue - 1
  PROVE  OutIsCounted' /\ events_out_of_queue' \in Nat
<1>1. Busy' = Busy \ {w} /\ w \in Busy
  BY DEF Busy, TypeOK
<1>2. /\ Cardinality(Busy') = Cardinality(Busy) - 1
      /\ Cardinality(Busy') \in Nat
  BY <1>1, BusyFinite, FS_RemoveElement, FS_CardinalityType
<1> QED BY <1>2, BusyFinite DEF OutIsCounted, Busy

\* Notifying moves workers between the two halves of their waits only.
LEMMA Waking ==
  /\ \A l \in WorkerPC : /\ Woken(l) \in WorkerPC
                         /\ Woken(l) \in WithNode <=> l \in WithNode
                         /\ Woken(l) \in {"block", "tblock", "wait"} => Woken(l) = l
BY DEF Woken, WorkerPC, WithNode

LEMMA NotifyMoves ==
  ASSUME NEW f \in [Workers -> WorkerPC], NotifyOne(f)
  PROVE  /\ wpc' \in [Workers -> WorkerPC]
         /\ \A v \in Workers : wpc'[v] \in {f[v], Woken(f[v])}
<1>1. CASE wpc' = f
  BY <1>1
<1>2. CASE \E w \in Sleepers(f) : wpc' = [f EXCEPT ![w] = Woken(f[w])]
  <2>1. PICK w \in Workers : wpc' = [f EXCEPT ![w] = Woken(f[w])]
    BY <1>2 DEF Sleepers
  <2>2. Woken(f[w]) \in WorkerPC
    BY Waking
  <2> QED BY <2>1, <2>2
<1> QED BY <1>1, <1>2 DEF NotifyOne

-----------------------------------------------------------------------------
(***************************************************************************)
(* Steps that leave the nodes where they are.                               *)
(***************************************************************************)
LEMMA NodesStay ==
  ASSUME QueueInv, TypeOK', HandInv', MtxInv',
         UNCHANGED <<time_out_queue, hand, events_out_of_queue, alive>>,
         waiter' = "returned" => alive = {}
  PROVE  QueueInv'
<1>1. EventsConserved'
  BY DEF QueueInv, EventsConserved
<1>2. OutIsCounted'
  BY DEF QueueInv, OutIsCounted
<1>3. AllDoneIsDone'
  BY DEF AllDoneIsDone
<1> QED BY <1>1, <1>2, <1>3 DEF QueueInv

\* new_event_.wait found the queue empty, or a worker goes on to extract.
LEMMA TakeStep ==
  ASSUME QueueInv, NEW w \in Workers, wpc[w] \in {"lock", "awake"}, mtx = None,
         waiter' \in {waiter, "awake"},
         \/ Goto(w, "block") /\ mtx' = w /\ UNCHANGED <<time_out_queue, events_out_of_queue, hand>>
         \/ Take(w),
         UNCHANGED <<left, quit, closing, alive>>
  PROVE  QueueInv'
<1>0. /\ TypeOK /\ HandInv /\ MtxInv /\ EventsConserved /\ OutIsCounted
      /\ waiter # "returned" /\ hand[w] = None /\ waiter' # "returned"
      /\ waiter' \in {"out", "asleep", "awake", "returned"}
  BY QueueAssumption DEF QueueInv, MtxInv, HandInv, WithNode, TypeOK
<1>1. ASSUME NEW l \in WorkerPC \ WithNode, Goto(w, l),
             UNCHANGED <<time_out_queue, events_out_of_queue, hand>>,
             mtx' \in {w, None}, l = "block" => mtx' = w
      PROVE  QueueInv'
  <2>1. TypeOK'
    BY <1>0, <1>1 DEF TypeOK, Goto
  <2>2. HandInv'
    BY <1>0, <1>1 DEF HandInv, Goto, TypeOK
  <2>3. MtxInv'
    BY <1>0, <1>1, QueueAssumption DEF MtxInv, Goto, TypeOK, WithNode
  <2> QED BY <1>0, <1>1, <2>1, <2>2, <2>3, NodesStay
<1>2. ASSUME NEW e \in time_out_queue, Goto(w, "wait"), mtx' = w,
             hand' = [hand EXCEPT ![w] = e], time_out_queue' = time_out_queue \ {e},
             events_out_of_queue' = events_out_of_queue + 1
      PROVE  QueueInv'
  <2>0. e \in Events /\ e # None
    BY <1>0, QueueAssumption DEF TypeOK
  <2>1. OutIsCounted' /\ events_out_of_queue' \in Nat
    BY <1>0, <1>2, <2>0, BusyMore
  <2>2. TypeOK'
    BY <1>0, <1>2, <2>0, <2>1 DEF TypeOK, Goto, WorkerPC
  <2>3. HandInv'
    BY <1>0, <1>2, <2>0 DEF HandInv, Goto, TypeOK, WithNode
  <2>4. MtxInv'
    BY <1>0, <1>2, QueueAssumption DEF MtxInv, Goto, TypeOK
  <2>5. EventsConserved'
    <3>1. {hand'[v] : v \in {u \in Workers : hand'[u] # None}}
            = {hand[v] : v \in {u \in Workers : hand[u] # None}} \cup {e}
      BY <1>0, <1>2, <2>0 DEF TypeOK
    <3>2. alive' = time_out_queue' \cup {hand'[v] : v \in {u \in Workers : hand'[u] # None}}
      BY <1>0, <1>2, <3>1 DEF EventsConserved
    <3>3. \A v \in Workers : hand'[v] \notin time_out_queue'
      BY <1>0, <1>2 DEF EventsConserved, TypeOK
    <3>4. \A u, v \in Workers : hand'[u] = hand'[v] /\ hand'[u] # None => u = v
      BY <1>0, <1>2 DEF EventsConserved, TypeOK
    <3> QED BY <3>2, <3>3, <3>4 DEF EventsConserved
  <2> QED BY <1>0, <2>1, <2>2, <2>3, <2>4, <2>5 DEF QueueInv, AllDoneIsDone
<1> QED BY <1>1, <1>2 DEF Take, WorkerPC, WithNode

\* A node goes back into the queue.
LEMMA PutBack ==
  ASSUME QueueInv, NEW w \in Workers, hand[w] # None, wpc' \in [Workers -> WorkerPC],
         wpc'[w] \notin WithNode,
         \A v \in Workers \ {w} : wpc'[v] \in {wpc[v], Woken(wpc[v])},
         wpc'[w] \notin {"block", "tblock", "wait"},
         mtx \in {w, None}, mtx' = None,
         time_out_queue' = time_out_queue \cup {hand[w]},
         hand' = [hand EXCEPT ![w] = None],
         events_out_of_queue' = events_out_of_queue - 1,
         UNCHANGED <<left, quit, closing, waiter, alive>>
  PROVE  QueueInv'
<1>0. /\ TypeOK /\ HandInv /\ MtxInv /\ EventsConserved /\ OutIsCounted
      /\ waiter # "returned" /\ hand[w] \in Events
  BY QueueAssumption DEF QueueInv, MtxInv, TypeOK
<1>1. OutIsCounted' /\ events_out_of_queue' \in Nat
  BY <1>0, BusyLess
<1>2. TypeOK'
  BY <1>0, <1>1 DEF TypeOK
<1>3. \A v \in Workers \ {w} : /\ wpc'[v] \in WithNode <=> wpc[v] \in WithNode
                               /\ wpc'[v] \in {"block", "tblock", "wait"} => wpc'[v] = wpc[v]
  BY <1>0, Waking DEF TypeOK
<1>4. HandInv'
  BY <1>0, <1>3 DEF HandInv, TypeOK
<1>5. MtxInv'
  BY <1>0, <1>3, QueueAssumption DEF MtxInv
<1>6. EventsConserved'
  <2>1. {hand[v] : v \in {u \in Workers : hand[u] # None}}
          = {hand'[v] : v \in {u \in Workers : hand'[u] # None}} \cup {hand[w]}
    BY <1>0 DEF TypeOK
  <2>2. alive' = time_out_queue' \cup {hand'[v] : v \in {u \in Workers : hand'[u] # None}}
    BY <1>0, <2>1 DEF EventsConserved
  <2>3. \A v \in Workers : hand'[v] \notin time_out_queue'
    BY <1>0, <1>2, QueueAssumption DEF EventsConserved, TypeOK
  <2>4. \A u, v \in Workers : hand'[u] = hand'[v] /\ hand'[u] # None => u = v
    BY <1>0 DEF EventsConserved, TypeOK
  <2> QED BY <2>2, <2>3, <2>4 DEF EventsConserved
<1> QED BY <1>0, <1>1, <1>2, <1>4, <1>5, <1>6 DEF QueueInv, AllDoneIsDone


\* Workers move without their nodes changing hands, and none of them to a
\* place that mtx_ protects unless it takes mtx_.
LEMMA WorkersMove ==
  ASSUME QueueInv, wpc' \in [Workers -> WorkerPC],
         \A v \in Workers : wpc'[v] \in WithNode <=> wpc[v] \in WithNode,
         \A v \in Workers : wpc'[v] \in {"block", "tblock", "wait"} => mtx' = v,
         mtx' \in Workers \cup {Client, None}, left' \in [Events -> Int],
         waiter' \in {"out", "asleep", "awake", "returned"},
         waiter' = "returned" => waiter = "returned" /\ mtx' = Client,
         quit' \in BOOLEAN, closing' \in {"no", "stored", "joining", "joined"},
         UNCHANGED <<time_out_queue, hand, events_out_of_queue, alive>>
  PROVE  QueueInv'
<1>0. TypeOK /\ HandInv /\ MtxInv /\ AllDoneIsDone
  BY DEF QueueInv
<1>1. TypeOK'
  BY <1>0 DEF TypeOK
<1>2. HandInv'
  BY <1>0 DEF HandInv
<1>3. MtxInv'
  BY DEF MtxInv
<1>4. waiter' = "returned" => alive = {}
  BY <1>0 DEF AllDoneIsDone
<1> QED BY <1>1, <1>2, <1>3, <1>4, NodesStay

LEMMA WaitUntilStep ==
  ASSUME QueueInv, NEW w \in Workers, WaitUntil(w)
  PROVE  QueueInv'
<1>0. /\ TypeOK /\ HandInv /\ MtxInv
      /\ wpc[w] \in WithNode /\ hand[w] # None /\ mtx \in {w, None} /\ waiter # "returned"
  BY QueueAssumption DEF QueueInv, MtxInv, HandInv, WaitUntil, WithNode
<1>1. ASSUME NEW l \in {"run", "tblock"}, Goto(w, l), mtx' = IF l = "run" THEN None ELSE w,
             UNCHANGED <<time_out_queue, events_out_of_queue, hand, left, quit, closing, waiter, alive>>
      PROVE  QueueInv'
  <2>1. wpc' \in [Workers -> WorkerPC]
    BY <1>0, <1>1 DEF Goto, TypeOK, WorkerPC
  <2>2. \A v \in Workers : wpc'[v] \in WithNode <=> wpc[v] \in WithNode
    BY <1>0, <1>1 DEF Goto, TypeOK, WithNode
  <2>3. \A v \in Workers : wpc'[v] \in {"block", "tblock", "wait"} => mtx' = v
    BY <1>0, <1>1, QueueAssumption DEF Goto, TypeOK, MtxInv
  <2>4. /\ mtx' \in Workers \cup {Client, None} /\ left' \in [Events -> Int]
        /\ waiter' \in {"out", "asleep", "awake", "returned"} /\ waiter' # "returned"
        /\ quit' \in BOOLEAN /\ closing' \in {"no", "stored", "joining", "joined"}
    BY <1>0, <1>1 DEF TypeOK
  <2> QED BY <1>1, <2>1, <2>2, <2>3, <2>4, WorkersMove
<1>2. ASSUME Goto(w, "top"), mtx' = None, time_out_queue' = time_out_queue \cup {hand[w]},
             hand' = [hand EXCEPT ![w] = None],
             events_out_of_queue' = events_out_of_queue - 1,
             UNCHANGED <<left, quit, closing, waiter, alive>>
      PROVE  QueueInv'
  <2>1. /\ wpc' \in [Workers -> WorkerPC] /\ wpc'[w] = "top"
        /\ \A v \in Workers \ {w} : wpc'[v] = wpc[v]
    BY <1>0, <1>2 DEF Goto, TypeOK, WorkerPC
  <2>2. wpc'[w] \notin WithNode /\ wpc'[w] \notin {"block", "tblock", "wait"}
    BY <2>1 DEF WithNode
  <2> QED BY <1>0, <1>2, <2>1, <2>2, PutBack
<1> QED BY <1>1, <1>2 DEF WaitUntil

\* The function of an event returned false.
LEMMA RunOnceStep ==
  ASSUME QueueInv, NEW w \in Workers, RunOnce(w)
  PROVE  QueueInv'
<1>0. /\ TypeOK /\ HandInv /\ MtxInv /\ EventsConserved /\ OutIsCounted /\ AllDoneIsDone
      /\ hand[w] # None /\ hand[w] \in Events
  BY DEF QueueInv, HandInv, RunOnce, WithNode, TypeOK
<1>1. OutIsCounted' /\ events_out_of_queue' \in Nat
  BY <1>0, BusyLess DEF RunOnce
<1>2. TypeOK'
  BY <1>0, <1>1 DEF TypeOK, RunOnce, Goto, WorkerPC
<1>3. HandInv'
  BY <1>0 DEF HandInv, RunOnce, Goto, TypeOK, WithNode
<1>4. MtxInv'
  BY <1>0 DEF MtxInv, RunOnce, Goto, TypeOK
<1>5. EventsConserved'
  <2>1. {hand'[v] : v \in {u \in Workers : hand'[u] # None}}
          = {hand[v] : v \in {u \in Workers : hand[u] # None}} \ {hand[w]}
    BY <1>0 DEF TypeOK, RunOnce, EventsConserved
  <2>2. alive' = time_out_queue' \cup {hand'[v] : v \in {u \in Workers : hand'[u] # None}}
    BY <1>0, <2>1 DEF EventsConserved, RunOnce
  <2>3. \A v \in Workers : hand'[v] \notin time_out_queue'
    BY <1>0, QueueAssumption DEF EventsConserved, TypeOK, RunOnce
  <2>4. \A u, v \in Workers : hand'[u] = hand'[v] /\ hand'[u] # None => u = v
    BY <1>0 DEF EventsConserved, TypeOK, RunOnce
  <2> QED BY <2>2, <2>3, <2>4 DEF EventsConserved
<1>6. AllDoneIsDone'
  BY <1>0 DEF AllDoneIsDone, RunOnce
<1> QED BY <1>1, <1>2, <1>3, <1>4, <1>5, <1>6 DEF QueueInv

LEMMA PushEventStep ==
  ASSUME QueueInv, NEW e \in Events, PushEvent(e)
  PROVE  QueueInv'
<1>0. /\ TypeOK /\ HandInv /\ MtxInv /\ EventsConserved /\ OutIsCounted
      /\ waiter # "returned" /\ e \notin alive
  BY QueueAssumption DEF QueueInv, MtxInv, PushEvent
<1>1. /\ wpc' \in [Workers -> WorkerPC]
      /\ \A v \in Workers : wpc'[v] \in {wpc[v], Woken(wpc[v])}
  BY <1>0, NotifyMoves DEF PushEvent, TypeOK
<1>2. \A v \in Workers : /\ wpc'[v] \in WithNode <=> wpc[v] \in WithNode
                         /\ wpc'[v] \in {"block", "tblock", "wait"} => wpc'[v] = wpc[v]
  BY <1>0, <1>1, Waking DEF TypeOK
<1>3. TypeOK'
  BY <1>0, <1>1, QueueAssumption DEF TypeOK, PushEvent
<1>4. HandInv'
  BY <1>0, <1>2 DEF HandInv, PushEvent
<1>5. MtxInv'
  BY <1>0, <1>2 DEF MtxInv, PushEvent
<1>6. EventsConserved'
  BY <1>0, QueueAssumption DEF EventsConserved, PushEvent, TypeOK
<1>7. OutIsCounted'
  BY <1>0 DEF OutIsCounted, PushEvent
<1>8. AllDoneIsDone'
  BY <1>0 DEF AllDoneIsDone, PushEvent
<1> QED BY <1>3, <1>4, <1>5, <1>6, <1>7, <1>8 DEF QueueInv

\* The predicate of WaitUntilAllDone speaks of the counter only; that no event
\* is in the hands of a worker is what OutIsCounted adds.
LEMMA WaitUntilAllDoneStep ==
  ASSUME QueueInv, WaitUntilAllDone
  PROVE  QueueInv'
<1>0. TypeOK /\ HandInv /\ MtxInv /\ EventsConserved /\ OutIsCounted /\ mtx = None
  BY DEF QueueInv, WaitUntilAllDone
<1>1. TypeOK'
  BY <1>0 DEF TypeOK, WaitUntilAllDone
<1>2. HandInv'
  BY <1>0 DEF HandInv, WaitUntilAllDone
<1>3. MtxInv'
  BY <1>0, QueueAssumption DEF MtxInv, WaitUntilAllDone
<1>4. ASSUME waiter' = "returned"
      PROVE  alive = {}
  <2>1. time_out_queue = {} /\ events_out_of_queue = 0
    BY <1>4 DEF WaitUntilAllDone
  <2>2. Busy = {}
    BY <1>0, <2>1, BusyFinite, FS_EmptySet DEF OutIsCounted, Busy
  <2> QED BY <1>0, <2>1, <2>2 DEF EventsConserved, Busy
<1> QED BY <1>1, <1>2, <1>3, <1>4, NodesStay DEF WaitUntilAllDone


-----------------------------------------------------------------------------
LEMMA WorkerKeeps ==
  ASSUME QueueInv, NEW w \in Workers, WorkerStep(w)
  PROVE  QueueInv'
<1>0. TypeOK /\ HandInv /\ MtxInv
  BY DEF QueueInv
<1>1. CASE Top(w)
  <2>1. wpc' \in [Workers -> WorkerPC]
    BY <1>0, <1>1 DEF Top, Goto, TypeOK, WorkerPC
  <2>2. \A v \in Workers : wpc'[v] \in WithNode <=> wpc[v] \in WithNode
    BY <1>0, <1>1 DEF Top, Goto, TypeOK, WithNode
  <2>3. \A v \in Workers : wpc'[v] \in {"block", "tblock", "wait"} => mtx' = v
    BY <1>0, <1>1 DEF Top, Goto, TypeOK, MtxInv
  <2> QED BY <1>0, <1>1, <2>1, <2>2, <2>3, WorkersMove DEF Top, TypeOK, MtxInv
<1>2. CASE Lock(w)
  BY <1>2, TakeStep DEF Lock
<1>3. CASE Block(w)
  <2>0. mtx = w /\ waiter # "returned"
    BY <1>0, <1>3, QueueAssumption DEF Block, MtxInv
  <2>1. wpc' \in [Workers -> WorkerPC]
    BY <1>0, <1>3 DEF Block, Goto, TypeOK, WorkerPC
  <2>2. \A v \in Workers : wpc'[v] \in WithNode <=> wpc[v] \in WithNode
    BY <1>0, <1>3 DEF Block, Goto, TypeOK, WithNode
  <2>3. \A v \in Workers : wpc'[v] \in {"block", "tblock", "wait"} => mtx' = v
    BY <1>0, <1>3, <2>0 DEF Block, Goto, TypeOK, MtxInv
  <2> QED BY <1>0, <1>3, <2>0, <2>1, <2>2, <2>3, WorkersMove DEF Block, TypeOK
<1>4. CASE Awake(w)
  BY <1>4, TakeStep DEF Awake
<1>5. CASE Timeout(w)
  <2>1. wpc' \in [Workers -> WorkerPC]
    BY <1>0, <1>5 DEF Timeout, Goto, TypeOK, WorkerPC
  <2>2. \A v \in Workers : wpc'[v] \in WithNode <=> wpc[v] \in WithNode
    BY <1>0, <1>5 DEF Timeout, Goto, TypeOK, WithNode
  <2>3. \A v \in Workers : wpc'[v] \in {"block", "tblock", "wait"} => mtx' = v
    BY <1>0, <1>5 DEF Timeout, Goto, TypeOK, MtxInv
  <2> QED BY <1>0, <1>5, <2>1, <2>2, <2>3, WorkersMove DEF Timeout, TypeOK, MtxInv
<1>6. CASE WaitUntil(w)
  BY <1>6, WaitUntilStep
<1>7. CASE RunRepeat(w)
  <2>0. hand[w] \in Events
    BY <1>0, <1>7 DEF RunRepeat, HandInv, WithNode, TypeOK
  <2>1. wpc' \in [Workers -> WorkerPC]
    BY <1>0, <1>7 DEF RunRepeat, Goto, TypeOK, WorkerPC
  <2>2. \A v \in Workers : wpc'[v] \in WithNode <=> wpc[v] \in WithNode
    BY <1>0, <1>7 DEF RunRepeat, Goto, TypeOK, WithNode
  <2>3. \A v \in Workers : wpc'[v] \in {"block", "tblock", "wait"} => mtx' = v
    BY <1>0, <1>7 DEF RunRepeat, Goto, TypeOK, MtxInv
  <2>4. left' \in [Events -> Int]
    <3>1. left \in [Events -> Int] /\ left[hand[w]] \in Int /\ Duration[hand[w]] \in Int
      BY <1>0, <2>0, QueueAssumption DEF TypeOK
    <3>2. left[hand[w]] + Duration[hand[w]] \in Int
      BY <3>1
    <3> QED BY <1>7, <3>1, <3>2 DEF RunRepeat
  <2> QED BY <1>0, <1>7, <2>1, <2>2, <2>3, <2>4, WorkersMove DEF RunRepeat, TypeOK, MtxInv
<1>8. CASE RunOnce(w)
  BY <1>8, RunOnceStep
<1>9. CASE Relock(w)
  <2> DEFINE f == [wpc EXCEPT ![w] = "top"]
  <2>0. hand[w] # None /\ f \in [Workers -> WorkerPC]
    BY <1>0, <1>9 DEF Relock, HandInv, WithNode, TypeOK, WorkerPC
  <2>1. /\ wpc' \in [Workers -> WorkerPC]
        /\ \A v \in Workers : wpc'[v] \in {f[v], Woken(f[v])}
    <3> HIDE DEF f
    <3> QED BY <1>9, <2>0, NotifyMoves DEF Relock, f
  <2>2. f[w] = "top" /\ \A v \in Workers \ {w} : f[v] = wpc[v]
    BY <1>0 DEF TypeOK
  <2>3. wpc'[w] = "top" /\ \A v \in Workers \ {w} : wpc'[v] \in {wpc[v], Woken(wpc[v])}
    BY <2>1, <2>2 DEF Woken
  <2>4. wpc'[w] \notin WithNode /\ wpc'[w] \notin {"block", "tblock", "wait"}
    BY <2>3 DEF WithNode
  <2> HIDE DEF f
  <2> QED BY <1>9, <2>0, <2>1, <2>3, <2>4, PutBack DEF Relock
<1> QED BY <1>1, <1>2, <1>3, <1>4, <1>5, <1>6, <1>7, <1>8, <1>9 DEF WorkerStep

\* Quit, the destructor, the lock that WaitUntilAllDone returned, spurious
\* wake-ups and the clock.
LEMMA OthersKeep ==
  ASSUME QueueInv, QuitStore \/ QuitNotify \/ Join \/ DropLock \/ Spurious \/ Tick
  PROVE  QueueInv'
<1>0. TypeOK /\ HandInv /\ MtxInv
  BY DEF QueueInv
<1>1. CASE QuitStore
  BY <1>0, <1>1, WorkersMove DEF QuitStore, TypeOK, MtxInv
<1>2. CASE QuitNotify
  <2>1. wpc' = [w \in Workers |-> Woken(wpc[w])] /\ \A w \in Workers : wpc[w] \in WorkerPC
    BY <1>0, <1>2 DEF QuitNotify, NotifyAll, TypeOK
  <2>2. wpc' \in [Workers -> WorkerPC]
    BY <2>1, Waking
  <2>3. \A v \in Workers : wpc'[v] \in WithNode <=> wpc[v] \in WithNode
    BY <2>1, Waking
  <2>4. \A v \in Workers : wpc'[v] \in {"block", "tblock", "wait"} => mtx' = v
    BY <1>0, <1>2, <2>1, Waking DEF QuitNotify, MtxInv
  <2> QED BY <1>0, <1>2, <2>2, <2>3, <2>4, WorkersMove DEF QuitNotify, TypeOK, MtxInv
<1>3. CASE Join
  BY <1>0, <1>3, WorkersMove DEF Join, TypeOK, MtxInv
<1>4. CASE DropLock
  <2>1. \A v \in Workers : wpc'[v] \in {"block", "tblock", "wait"} => mtx' = v
    BY <1>0, <1>4, QueueAssumption DEF DropLock, MtxInv
  <2> QED BY <1>0, <1>4, <2>1, WorkersMove DEF DropLock, TypeOK
<1>5. CASE Spurious
  <2>1. CASE \E w \in Sleepers(wpc) : Goto(w, Woken(wpc[w])) /\ UNCHANGED waiter
    <3>1. PICK w \in Workers : wpc' = [wpc EXCEPT ![w] = Woken(wpc[w])]
      BY <2>1 DEF Sleepers, Goto
    <3>2. wpc[w] \in WorkerPC
      BY <1>0 DEF TypeOK
    <3>3. wpc' \in [Workers -> WorkerPC]
      BY <1>0, <3>1, <3>2, Waking DEF TypeOK
    <3>4. \A v \in Workers : wpc'[v] \in WithNode <=> wpc[v] \in WithNode
      BY <1>0, <3>1, <3>2, Waking DEF TypeOK
    <3>5. \A v \in Workers : wpc'[v] \in {"block", "tblock", "wait"} => mtx' = v
      BY <1>0, <1>5, <3>1, <3>2, Waking DEF Spurious, TypeOK, MtxInv
    <3> QED BY <1>0, <1>5, <2>1, <3>3, <3>4, <3>5, WorkersMove DEF Spurious, TypeOK, MtxInv
  <2>2. CASE waiter' = "awake" /\ UNCHANGED wpc
    BY <1>0, <1>5, <2>2, WorkersMove DEF Spurious, TypeOK, MtxInv
  <2> QED BY <1>5, <2>1, <2>2 DEF Spurious
<1>6. CASE Tick
  <2>1. left' \in [Events -> Int]
    BY <1>0, <1>6 DEF Tick, TypeOK
  <2> QED BY <1>0, <1>6, <2>1, WorkersMove DEF Tick, TypeOK, MtxInv
<1> QED BY <1>1, <1>2, <1>3, <1>4, <1>5, <1>6

-----------------------------------------------------------------------------
\* The strengthening of the queue's properties that every step keeps: which
\* control states have a node, and which hold mtx_.
THEOREM QueueInvariant == Spec => []QueueInv
<1>1. Init => QueueInv
  <2> SUFFICES ASSUME Init PROVE QueueInv
    OBVIOUS
  <2>1. TypeOK
    <3>1. left \in [Events -> Int]
      BY DEF Init
    <3>2. wpc \in [Workers -> WorkerPC] /\ hand \in [Workers -> Events \cup {None}]
      BY DEF Init, WorkerPC
    <3> QED BY <3>1, <3>2 DEF Init, TypeOK
  <2>2. HandInv /\ MtxInv /\ EventsConserved /\ AllDoneIsDone
    BY QueueAssumption DEF Init, HandInv, MtxInv, EventsConserved, AllDoneIsDone, WithNode
  <2>3. Busy = {}
    BY DEF Init, Busy
  <2>4. OutIsCounted
    BY <2>3, FS_EmptySet DEF Init, OutIsCounted, Busy
  <2> QED BY <2>1, <2>2, <2>4 DEF QueueInv
<1>2. QueueInv /\ [Next]_vars => QueueInv'
  <2> SUFFICES ASSUME QueueInv, [Next]_vars PROVE QueueInv'
    OBVIOUS
  <2>1. CASE \E w \in Workers : WorkerStep(w)
    BY <2>1, WorkerKeeps
  <2>2. CASE \E e \in Events : PushEvent(e)
    BY <2>2, PushEventStep
  <2>3. CASE WaitUntilAllDone
    BY <2>3, WaitUntilAllDoneStep
  <2>4. CASE QuitStore \/ QuitNotify \/ Join \/ DropLock \/ Spurious \/ Tick
    BY <2>4, OthersKeep
  <2>5. CASE UNCHANGED vars
    <3>1. TypeOK' /\ HandInv' /\ MtxInv'
      BY <2>5 DEF vars, QueueInv, TypeOK, HandInv, MtxInv
    <3> QED BY <2>5, <3>1, NodesStay DEF vars, QueueInv, AllDoneIsDone
  <2> QED BY <2>1, <2>2, <2>3, <2>4, <2>5 DEF Next
<1> QED BY <1>1, <1>2, PTL DEF Spec

\* An event that was pushed and whose function has not returned false is in
\* the queue or in the hands of exactly one worker, for any number of workers:
\* Worker() never loses an event and never runs it on two threads at once.
THEOREM NoEventLost == Spec => []EventsConserved
BY QueueInvariant, PTL DEF QueueInv

\* events_out_of_queue_ is the number of nodes in the workers' hands, although
\* Worker() decrements it without mtx_ when a function returned false.
THEOREM CounterExact == Spec => []OutIsCounted
BY QueueInvariant, PTL DEF QueueInv

\* When WaitUntilAllDone has returned, and until its caller drops the lock, no
\* event is queued, waiting in a worker or running.
THEOREM AllDoneSound == Spec => []AllDoneIsDone
BY QueueInvariant, PTL DEF QueueInv


-----------------------------------------------------------------------------
(***************************************************************************)
(* Refinement: every step of the workers is a step of TimedEvents or none.   *)
(***************************************************************************)

\* Nobody starts or ends a call, and the events at work stay where they are.
SameCalls == \A w \in Workers : /\ wpc'[w] = "run" <=> wpc[w] = "run"
                                /\ wpc[w] = "run" => hand'[w] = hand[w]

LEMMA CallsStay ==
  ASSUME SameCalls
  PROVE  \A e \in Events : Running(e)' <=> Running(e)
BY DEF SameCalls, Running, Holders

LEMMA Stutters ==
  ASSUME SameCalls, UNCHANGED <<left, alive>>
  PROVE  UNCHANGED <<Stage, left>>
<1>1. \A e \in Events : Running(e)' <=> Running(e)
  BY CallsStay
<1> QED BY <1>1 DEF Stage

\* Exactly the events in the hands of a worker at "run" are running.
LEMMA RunnerIsAlive ==
  ASSUME QueueInv, NEW w \in Workers, wpc[w] \in WithNode
  PROVE  /\ hand[w] \in alive /\ hand[w] \in Events
         /\ Running(hand[w]) <=> wpc[w] = "run"
<1>1. hand[w] # None /\ hand[w] \in Events
  BY DEF QueueInv, HandInv, TypeOK
<1>2. hand[w] \in alive
  BY <1>1 DEF QueueInv, EventsConserved
<1>3. \A v \in Workers : hand[v] = hand[w] => v = w
  BY <1>1 DEF QueueInv, EventsConserved
<1> QED BY <1>1, <1>2, <1>3 DEF Running, Holders

\* A worker begins or ends a call: only its event changes stage.
LEMMA OneCall ==
  ASSUME QueueInv, NEW w \in Workers, wpc[w] \in WithNode, wpc' = [wpc EXCEPT ![w] = wpc'[w]],
         hand' \in {hand, [hand EXCEPT ![w] = None]}
  PROVE  \A e \in Events \ {hand[w]} : Running(e)' <=> Running(e)
<1>1. wpc \in [Workers -> WorkerPC] /\ hand \in [Workers -> Events \cup {None}] /\ None \notin Events
  BY QueueAssumption DEF QueueInv, TypeOK
<1> SUFFICES ASSUME NEW e \in Events, e # hand[w] PROVE Running(e)' <=> Running(e)
  OBVIOUS
<1>2. \A v \in Workers : hand'[v] = e <=> hand[v] = e
  BY <1>1
<1>3. \A v \in Workers : v # w => wpc'[v] = wpc[v]
  BY <1>1
<1> QED BY <1>2, <1>3 DEF Running, Holders


LEMMA WorkerRefines ==
  ASSUME QueueInv, NEW w \in Workers, WorkerStep(w)
  PROVE  [Timed!Next]_(Timed!vars)
<1>0. /\ wpc \in [Workers -> WorkerPC] /\ hand \in [Workers -> Events \cup {None}]
      /\ left \in [Events -> Int] /\ Duration \in [Events -> Nat] /\ None \notin Events
  BY QueueAssumption DEF QueueInv, TypeOK
<1>1. ASSUME SameCalls, UNCHANGED <<left, alive>>
      PROVE  [Timed!Next]_(Timed!vars)
  BY <1>1, Stutters DEF Timed!vars
<1>2. ASSUME NEW l \in WorkerPC \ {"run"}, wpc[w] # "run", Goto(w, l),
             hand' = hand \/ \E e \in Events \cup {None} : hand' = [hand EXCEPT ![w] = e]
      PROVE  SameCalls
  BY <1>0, <1>2 DEF SameCalls, Goto
<1>3. CASE Top(w) \/ Block(w) \/ Timeout(w)
  <2>1. \E l \in WorkerPC \ {"run"} : Goto(w, l)
    BY <1>3 DEF Top, Block, Timeout, WorkerPC
  <2> QED BY <1>1, <1>2, <1>3, <2>1 DEF Top, Block, Timeout
<1>4. CASE Lock(w) \/ Awake(w)
  <2>1. ASSUME NEW e \in time_out_queue PROVE e \in Events
    BY DEF QueueInv, TypeOK
  <2>2. \E l \in WorkerPC \ {"run"} : Goto(w, l)
    BY <1>4 DEF Lock, Awake, Take, WorkerPC
  <2>3. hand' = hand \/ \E e \in Events \cup {None} : hand' = [hand EXCEPT ![w] = e]
    BY <1>4, <2>1 DEF Lock, Awake, Take
  <2>4. wpc[w] # "run" /\ UNCHANGED <<left, alive>>
    BY <1>4 DEF Lock, Awake
  <2> QED BY <1>1, <1>2, <2>2, <2>3, <2>4
<1>5. CASE WaitUntil(w)
  <2>0. wpc[w] \in WithNode /\ wpc[w] # "run" /\ UNCHANGED <<left, alive>>
    BY <1>5 DEF WaitUntil, WithNode
  <2>1. CASE ~quit /\ left[hand[w]] <= 0 /\ Goto(w, "run") /\ UNCHANGED hand
    <3>1. PICK e \in alive : e = hand[w] /\ e \in Events /\ ~Running(e)
      BY <2>0, RunnerIsAlive
    <3>2. \A d \in Events \ {e} : Running(d)' <=> Running(d)
      BY <1>0, <2>0, <2>1, <3>1, OneCall DEF Goto
    <3>3. Running(e)'
      BY <1>0, <2>1, <3>1 DEF Running, Holders, Goto
    <3>4. Stage' = [Stage EXCEPT ![e] = "running"] /\ Stage[e] = "waiting"
      BY <2>0, <3>1, <3>2, <3>3 DEF Stage
    <3>5. Timed!Call(e)
      BY <2>0, <2>1, <3>1, <3>4 DEF Timed!Call
    <3> QED BY <3>1, <3>5 DEF Timed!Next
  <2>2. CASE /\ Goto(w, "top") \/ Goto(w, "tblock")
             /\ hand' = hand \/ hand' = [hand EXCEPT ![w] = None]
    <3>1. \E l \in WorkerPC \ {"run"} : Goto(w, l)
      BY <2>2 DEF WorkerPC
    <3> QED BY <1>1, <1>2, <2>0, <2>2, <3>1
  <2> QED BY <1>5, <2>1, <2>2 DEF WaitUntil
<1>6. ASSUME wpc[w] = "run", NEW l \in {"relock", "top"}, Goto(w, l),
             hand' \in {hand, [hand EXCEPT ![w] = None]}
      PROVE  \E e \in alive : /\ e = hand[w] /\ e \in Events /\ Running(e) /\ ~Running(e)'
                              /\ \A d \in Events \ {e} : Running(d)' <=> Running(d)
  <2>1. PICK e \in alive : e = hand[w] /\ e \in Events /\ Running(e)
    BY <1>6, RunnerIsAlive DEF WithNode
  <2>2. \A v \in Workers \ {w} : hand[v] # e
    BY <1>0, <2>1 DEF QueueInv, EventsConserved
  <2>3. ~Running(e)'
    BY <1>0, <1>6, <2>1, <2>2 DEF Running, Holders, Goto
  <2>4. \A d \in Events \ {e} : Running(d)' <=> Running(d)
    BY <1>0, <1>6, <2>1, OneCall DEF Goto, WithNode
  <2> QED BY <2>1, <2>3, <2>4
<1>7. CASE RunRepeat(w)
  <2>1. PICK e \in alive : /\ e = hand[w] /\ e \in Events /\ Running(e) /\ ~Running(e)'
                           /\ \A d \in Events \ {e} : Running(d)' <=> Running(d)
    BY <1>6, <1>7 DEF RunRepeat
  <2>2. Stage' = [Stage EXCEPT ![e] = "waiting"] /\ Stage[e] = "running"
    BY <1>7, <2>1 DEF Stage, RunRepeat
  <2>3. Timed!Again(e)
    BY <1>7, <2>1, <2>2 DEF Timed!Again, RunRepeat
  <2> QED BY <2>1, <2>3 DEF Timed!Next
<1>8. CASE RunOnce(w)
  <2>1. PICK e \in alive : /\ e = hand[w] /\ e \in Events /\ Running(e) /\ ~Running(e)'
                           /\ \A d \in Events \ {e} : Running(d)' <=> Running(d)
    BY <1>6, <1>8 DEF RunOnce
  <2>2. Stage' = [Stage EXCEPT ![e] = "out"] /\ Stage[e] = "running"
    BY <1>8, <2>1 DEF Stage, RunOnce
  <2>3. Timed!Finish(e)
    BY <1>8, <2>1, <2>2 DEF Timed!Finish, RunOnce
  <2> QED BY <2>1, <2>3 DEF Timed!Next
<1>9. CASE Relock(w)
  <2> DEFINE f == [wpc EXCEPT ![w] = "top"]
  <2>1. f \in [Workers -> WorkerPC]
    BY <1>0 DEF WorkerPC
  <2>2. \A v \in Workers : wpc'[v] \in {f[v], Woken(f[v])}
    <3> HIDE DEF f
    <3> QED BY <1>9, <2>1, NotifyMoves DEF Relock, f
  <2>3. \A v \in Workers : wpc'[v] = "run" <=> wpc[v] = "run"
    BY <1>0, <1>9, <2>2 DEF Relock, Woken
  <2>4. SameCalls
    BY <1>0, <1>9, <2>3 DEF Relock, SameCalls
  <2> QED BY <1>1, <1>9, <2>4 DEF Relock
<1> QED BY <1>3, <1>4, <1>5, <1>7, <1>8, <1>9 DEF WorkerStep

LEMMA PushEventRefines ==
  ASSUME QueueInv, NEW e \in Events, PushEvent(e)
  PROVE  Timed!Next
<1>0. wpc \in [Workers -> WorkerPC] /\ left \in [Events -> Int] /\ None \notin Events
  BY QueueAssumption DEF QueueInv, TypeOK
<1>1. \A v \in Workers : wpc'[v] \in {wpc[v], Woken(wpc[v])}
  BY <1>0, NotifyMoves DEF PushEvent
<1>2. SameCalls
  BY <1>1 DEF SameCalls, Woken, PushEvent
<1>3. \A d \in Events : Running(d)' <=> Running(d)
  BY <1>2, CallsStay
<1>4. ~Running(e)
  BY <1>0 DEF Running, Holders, QueueInv, EventsConserved, PushEvent
<1>5. Stage' = [Stage EXCEPT ![e] = "waiting"] /\ Stage[e] = "out"
  BY <1>3, <1>4 DEF Stage, PushEvent
<1>6. Timed!Push(e)
  BY <1>5 DEF Timed!Push, PushEvent
<1> QED BY <1>6 DEF Timed!Next

LEMMA OthersRefine ==
  ASSUME QueueInv, QuitStore \/ QuitNotify \/ Join \/ WaitUntilAllDone \/ DropLock \/ Spurious \/ Tick
  PROVE  [Timed!Next]_(Timed!vars)
<1>0. wpc \in [Workers -> WorkerPC] /\ left \in [Events -> Int]
  BY DEF QueueInv, TypeOK
<1>1. SameCalls
  <2>1. CASE QuitNotify
    BY <2>1 DEF QuitNotify, NotifyAll, SameCalls, Woken
  <2>2. CASE Spurious
    BY <1>0, <2>2 DEF Spurious, Goto, Sleepers, SameCalls, Woken
  <2> QED BY <2>1, <2>2 DEF QuitStore, Join, WaitUntilAllDone, DropLock, Tick, SameCalls
<1>2. CASE Tick
  <2>1. \A e \in Events : Running(e)' <=> Running(e)
    BY <1>1, CallsStay
  <2>2. UNCHANGED Stage
    BY <1>2, <2>1 DEF Tick, Stage
  <2>3. \A e \in Events : Stage[e] # "out" <=> e \in alive
    BY DEF Stage
  <2>4. Timed!Tick
    BY <1>2, <2>2, <2>3 DEF Timed!Tick, Tick
  <2> QED BY <2>4 DEF Timed!Next
<1>3. CASE UNCHANGED <<left, alive>>
  BY <1>1, <1>3, Stutters DEF Timed!vars
<1> QED BY <1>2, <1>3 DEF QuitStore, QuitNotify, Join, WaitUntilAllDone, DropLock, Spurious

\* The pool of workers implements a queue of timed events, for any numbers of
\* workers and events: Worker() and PushEvent call no function early, twice at
\* once or off its schedule.
THEOREM QueueRefinesTimedEvents == Spec => ImplementsTimedEvents
<1>1. Init => Timed!Init
  BY DEF Init, Timed!Init, Stage
<1>2. QueueInv /\ [Next]_vars => [Timed!Next]_(Timed!vars)
  <2> SUFFICES ASSUME QueueInv, [Next]_vars PROVE [Timed!Next]_(Timed!vars)
    OBVIOUS
  <2>1. CASE \E w \in Workers : WorkerStep(w)
    BY <2>1, WorkerRefines
  <2>2. CASE \E e \in Events : PushEvent(e)
    BY <2>2, PushEventRefines
  <2>3. CASE QuitStore \/ QuitNotify \/ Join \/ WaitUntilAllDone \/ DropLock \/ Spurious \/ Tick
    BY <2>3, OthersRefine
  <2>4. CASE UNCHANGED vars
    BY <2>4, Stutters DEF vars, SameCalls, Timed!vars
  <2> QED BY <2>1, <2>2, <2>3, <2>4 DEF Next
<1> QED BY <1>1, <1>2, QueueInvariant, PTL DEF Spec, ImplementsTimedEvents, Timed!Spec

\* Every variable keeps its type; in particular the unsigned counter
\* events_out_of_queue_ never falls below zero.
THEOREM QueueTypeCorrect == Spec => []TypeOK
BY QueueInvariant, PTL DEF QueueInv
=============================================================================
