-------------------------- MODULE RedisClientProofs --------------------------
(***************************************************************************)
(* Proofs about module RedisClient, for any number of commands.              *)
(***************************************************************************)
EXTENDS RedisClient, SequenceTheorems, FunctionTheorems, FiniteSetTheorems, TLAPS

-----------------------------------------------------------------------------
(***************************************************************************)
(* The inductive invariant.                                                  *)
(***************************************************************************)

\* q holds the commands a + 1, a + 2, ...
Consecutive(q, a) == \A i \in 1..Len(q) : q[i] = a + i

\* c is somewhere in q.
In(c, q) == \E i \in 1..Len(q) : q[i] = c

\* Where the worker is.  It has replies at hand exactly while it handles them,
\* and the queue of commands is emptied by clear_callbacks only when the
\* connection is gone.
Stages ==
  /\ connected => /\ iopc \in {"free", "pop", "call", "done"}
                  /\ upc \notin {"clear", "move"}
  /\ ~connected => iopc \in {"lost", "handler", "move", "off"}
  /\ iopc \in {"pop", "call"} => inbox # <<>>
  /\ iopc \notin {"pop", "call", "done"} => inbox = <<>>
  /\ iopc # "call" => iocur = None
  /\ iopc = "move" => m_callbacks_mutex = "io"
  /\ upc = "block" => m_callbacks_mutex = "user"

\* The last command whose reply the worker has consumed or, in a callback, is
\* about to.
Consumed == sent - Len(m_commands) - (IF iopc = "call" THEN 1 ELSE 0)

\* While the connection is up, the replies at hand, the replies and commands
\* under way and the commands not committed are, one after the other, the
\* queue of callbacks; when the line is cut only a first part of it is left.
Pipeline ==
  connected =>
    /\ Consecutive(m_commands, sent - Len(m_commands))
    /\ Consecutive(inbox, Consumed)
    /\ iopc = "call" => iocur = Consumed + 1
    /\ Consecutive(replies, Consumed + Len(inbox))
    /\ Consecutive(m_buffer, sent - Len(m_buffer))
    /\ Consecutive(writes, sent - Len(m_buffer) - Len(writes))
    /\ Consecutive(wire, Consumed + Len(inbox) + Len(replies))
    /\ line  => Consumed + Len(inbox) + Len(replies) + Len(wire) + Len(writes) + Len(m_buffer) = sent
    /\ ~line => wire = <<>> /\ Consumed + Len(inbox) + Len(replies) <= sent

\* A command that has no answer is in the queue, in the hands of the worker, or
\* in those of a detached thread.
Accounted ==
  \A c \in 1..sent :
    \/ answer[c] # "none"
    \/ In(c, m_commands)
    \/ iocur = c
    \/ \E i \in 1..Len(detached) : In(c, detached[i].todo)

\* Whoever is about to empty the queue has copied all of it, and a thread that
\* is about to count a callback has called it.
Copied ==
  /\ upc = "move"  => \A c \in Commands : In(c, m_commands) => In(c, ucopy)
  /\ iopc = "move" => \A c \in Commands : In(c, m_commands) => In(c, iocopy)
  /\ \A i \in 1..Len(detached) :
       detached[i].stage = "count" =>
         detached[i].todo # <<>> /\ answer[detached[i].todo[1]] # "none"

Counted == IsFiniteSet(Owed(detached)) /\ RunningCounted

ClientInv ==
  TypeOK /\ Stages /\ Pipeline /\ OwnReply /\ Counted /\ Accounted /\ Copied

-----------------------------------------------------------------------------
(***************************************************************************)
(* Queues of consecutive commands.                                           *)
(***************************************************************************)
LEMMA ConsecutiveAppend ==
  ASSUME NEW q \in Seq(Commands), NEW c \in Commands, NEW a \in Int,
         Consecutive(q, a), c = a + Len(q) + 1
  PROVE  Consecutive(Append(q, c), a)
BY AppendProperties, LenProperties DEF Consecutive

LEMMA ConsecutiveConcat ==
  ASSUME NEW q \in Seq(Commands), NEW r \in Seq(Commands), NEW a \in Int,
         Consecutive(q, a), Consecutive(r, a + Len(q))
  PROVE  Consecutive(q \o r, a)
<1>1. Len(q) \in Nat /\ Len(r) \in Nat
  BY LenProperties
<1>2. /\ Len(q \o r) = Len(q) + Len(r)
      /\ \A i \in 1..Len(q) + Len(r) :
           (q \o r)[i] = IF i <= Len(q) THEN q[i] ELSE r[i - Len(q)]
  BY ConcatProperties
<1> QED BY <1>1, <1>2 DEF Consecutive

LEMMA ConsecutiveTail ==
  ASSUME NEW q \in Seq(Commands), q # <<>>, NEW a \in Int, Consecutive(q, a)
  PROVE  Head(q) = a + 1 /\ Consecutive(Tail(q), a + 1)
<1>1. Len(q) \in Nat \ {0}
  BY EmptySeq
<1>2. /\ Len(Tail(q)) = Len(q) - 1
      /\ \A i \in 1..Len(Tail(q)) : Tail(q)[i] = q[i + 1]
  BY HeadTailProperties
<1>3. Head(q) = q[1]
  BY <1>1
<1> QED BY <1>1, <1>2, <1>3 DEF Consecutive

\* recv hands over a first part of what has arrived.
LEMMA ConsecutiveSplit ==
  ASSUME NEW q \in Seq(Commands), NEW n \in 0..Len(q), NEW a \in Int, Consecutive(q, a)
  PROVE  LET p == SubSeq(q, 1, n)
             r == SubSeq(q, n + 1, Len(q))
         IN  /\ p \in Seq(Commands) /\ Len(p) = n /\ Consecutive(p, a)
             /\ r \in Seq(Commands) /\ Len(r) = Len(q) - n /\ Consecutive(r, a + n)
<1>1. Len(q) \in Nat /\ \A i \in 1..Len(q) : q[i] \in Commands
  BY LenProperties
<1>2. /\ SubSeq(q, 1, n) \in Seq(Commands)
      /\ Len(SubSeq(q, 1, n)) = n
      /\ \A i \in 1..n : SubSeq(q, 1, n)[i] = q[i]
  <2>1. \A i \in 1..n : q[i] \in Commands
    BY <1>1
  <2>2. /\ SubSeq(q, 1, n) \in Seq(Commands)
        /\ Len(SubSeq(q, 1, n)) = IF 1 <= n THEN n - 1 + 1 ELSE 0
        /\ \A i \in 1..n - 1 + 1 : SubSeq(q, 1, n)[i] = q[1 + i - 1]
    BY <1>1, <2>1, SubSeqProperties
  <2> QED BY <2>2
<1>3. /\ SubSeq(q, n + 1, Len(q)) \in Seq(Commands)
      /\ Len(SubSeq(q, n + 1, Len(q))) = Len(q) - n
      /\ \A i \in 1..Len(q) - n : SubSeq(q, n + 1, Len(q))[i] = q[n + i]
  <2>1. \A i \in n + 1..Len(q) : q[i] \in Commands
    BY <1>1
  <2>2. /\ SubSeq(q, n + 1, Len(q)) \in Seq(Commands)
        /\ Len(SubSeq(q, n + 1, Len(q))) =
             IF n + 1 <= Len(q) THEN Len(q) - (n + 1) + 1 ELSE 0
        /\ \A i \in 1..Len(q) - (n + 1) + 1 :
             SubSeq(q, n + 1, Len(q))[i] = q[(n + 1) + i - 1]
    BY <1>1, <2>1, SubSeqProperties
  <2> QED BY <1>1, <2>2
<1> QED BY <1>1, <1>2, <1>3 DEF Consecutive

-----------------------------------------------------------------------------
(***************************************************************************)
(* What the detached threads owe.                                            *)
(***************************************************************************)
LEMMA OwedMember ==
  ASSUME NEW d \in Seq(Thread)
  PROVE  /\ Owed(d) \in SUBSET (Nat \X Nat)
         /\ \A i, j : <<i, j>> \in Owed(d) <=> i \in 1..Len(d) /\ j \in 1..Len(d[i].todo)
<1>1. Len(d) \in Nat /\ DOMAIN d = 1..Len(d) /\ \A i \in 1..Len(d) : d[i] \in Thread
  BY LenProperties
<1>2. \A i \in 1..Len(d) : Len(d[i].todo) \in Nat
  BY <1>1 DEF Thread
<1> QED BY <1>1, <1>2 DEF Owed

LEMMA OwedAppend ==
  ASSUME NEW d \in Seq(Thread), NEW t \in Thread, IsFiniteSet(Owed(d))
  PROVE  /\ IsFiniteSet(Owed(Append(d, t)))
         /\ Cardinality(Owed(Append(d, t))) = Cardinality(Owed(d)) + Len(t.todo)
<1> DEFINE n == Len(d)
           e == Append(d, t)
           new == {n + 1} \X (1..Len(t.todo))
<1>1. /\ n \in Nat /\ e \in Seq(Thread) /\ Len(e) = n + 1
      /\ \A i \in 1..n : e[i] = d[i]
      /\ e[n + 1] = t
  BY AppendProperties, LenProperties
<1>2. Len(t.todo) \in Nat
  BY DEF Thread
<1>3. Owed(e) = Owed(d) \cup new /\ Owed(d) \cap new = {}
  <2> HIDE DEF e
  <2>1. Owed(e) \in SUBSET (Nat \X Nat) /\ Owed(d) \in SUBSET (Nat \X Nat)
        /\ new \in SUBSET (Nat \X Nat)
    BY <1>1, <1>2, OwedMember
  <2>2. \A i, j \in Nat : /\ <<i, j>> \in Owed(e) <=> <<i, j>> \in Owed(d) \cup new
                          /\ <<i, j>> \notin Owed(d) \cap new
    <3> SUFFICES ASSUME NEW i \in Nat, NEW j \in Nat
                 PROVE  /\ <<i, j>> \in Owed(e) <=> <<i, j>> \in Owed(d) \cup new
                        /\ <<i, j>> \notin Owed(d) \cap new
      OBVIOUS
    <3>1. <<i, j>> \in new <=> i = n + 1 /\ j \in 1..Len(t.todo)
      BY <1>1
    <3>2. <<i, j>> \in Owed(d) <=> i \in 1..n /\ j \in 1..Len(d[i].todo)
      BY OwedMember
    <3>3. <<i, j>> \in Owed(e) <=> i \in 1..n + 1 /\ j \in 1..Len(e[i].todo)
      BY <1>1, OwedMember
    <3> HIDE DEF new
    <3> QED BY <1>1, <3>1, <3>2, <3>3
  <2> QED BY <2>1, <2>2
<1>4. IsFiniteSet(new) /\ Cardinality(new) = Len(t.todo)
  <2>1. IsFiniteSet({n + 1}) /\ Cardinality({n + 1}) = 1
    BY FS_Singleton
  <2>2. IsFiniteSet(1..Len(t.todo)) /\ Cardinality(1..Len(t.todo)) = Len(t.todo)
    <3>1. /\ IsFiniteSet(1..Len(t.todo))
          /\ Cardinality(1..Len(t.todo)) = IF 1 > Len(t.todo) THEN 0 ELSE Len(t.todo) - 1 + 1
      <4>1. 1 \in Int /\ Len(t.todo) \in Int
        BY <1>2
      <4> QED BY <4>1, FS_Interval, Zenon
    <3> QED BY <1>2, <3>1
  <2>3. IsFiniteSet(new) /\ Cardinality(new) = 1 * Len(t.todo)
    BY <2>1, <2>2, FS_Product, ZenonT(60)
  <2> QED BY <1>2, <2>3
<1>5. /\ IsFiniteSet(Owed(d) \cup new)
      /\ Cardinality(Owed(d) \cup new) = Cardinality(Owed(d)) + Cardinality(new) - Cardinality({})
  BY <1>3, <1>4, FS_Union
<1>6. Cardinality(Owed(d)) \in Nat /\ Cardinality({}) = 0
  BY FS_CardinalityType, FS_EmptySet
<1> HIDE DEF e, new
<1>7. IsFiniteSet(Owed(e)) /\ Cardinality(Owed(e)) = Cardinality(Owed(d)) + Len(t.todo)
  BY <1>2, <1>3, <1>4, <1>5, <1>6
<1> QED BY <1>7 DEF e

\* One callback returned.
LEMMA OwedTail ==
  ASSUME NEW d \in Seq(Thread), NEW i \in 1..Len(d), d[i].todo # <<>>, IsFiniteSet(Owed(d)),
         NEW t \in Thread, t.todo = Tail(d[i].todo)
  PROVE  /\ IsFiniteSet(Owed([d EXCEPT ![i] = t]))
         /\ Cardinality(Owed(d)) \in Nat \ {0}
         /\ Cardinality(Owed([d EXCEPT ![i] = t])) = Cardinality(Owed(d)) - 1
<1> DEFINE e == [d EXCEPT ![i] = t]
           p == <<i, Len(d[i].todo)>>
<1>1. /\ e \in Seq(Thread) /\ Len(e) = Len(d)
      /\ \A j \in 1..Len(d) : e[j] = IF j = i THEN t ELSE d[j]
  BY ExceptSeq
<1>2. d[i] \in Thread /\ d[i].todo \in Seq(Commands)
  <2>1. d[i] \in Thread
    BY ElementOfSeq
  <2> QED BY <2>1 DEF Thread
<1>3. Len(d[i].todo) \in Nat \ {0} /\ Len(t.todo) = Len(d[i].todo) - 1
  BY <1>2, EmptySeq, HeadTailProperties
<1>4. p \in Owed(d)
  BY <1>3, OwedMember
<1>5. Owed(e) = Owed(d) \ {p}
  <2> HIDE DEF e
  <2>1. Owed(e) \in SUBSET (Nat \X Nat) /\ Owed(d) \in SUBSET (Nat \X Nat)
    BY <1>1, OwedMember
  <2>2. \A j, l \in Nat : <<j, l>> \in Owed(e) <=> <<j, l>> \in Owed(d) \ {p}
    <3> SUFFICES ASSUME NEW j \in Nat, NEW l \in Nat
                 PROVE  <<j, l>> \in Owed(e) <=> <<j, l>> \in Owed(d) \ {p}
      OBVIOUS
    <3>1. <<j, l>> \in Owed(d) <=> j \in 1..Len(d) /\ l \in 1..Len(d[j].todo)
      BY OwedMember
    <3>2. <<j, l>> \in Owed(e) <=> j \in 1..Len(d) /\ l \in 1..Len(e[j].todo)
      BY <1>1, OwedMember
    <3>3. <<j, l>> = p <=> j = i /\ l = Len(d[i].todo)
      OBVIOUS
    <3> HIDE DEF p
    <3>4. CASE j = i
      <4>1. e[j] = t /\ j \in 1..Len(d)
        BY <1>1, <3>4
      <4>2. l \in 1..Len(d[j].todo) /\ l # Len(d[i].todo) <=> l \in 1..Len(t.todo)
        BY <1>3, <3>4
      <4> QED BY <3>1, <3>2, <3>3, <3>4, <4>1, <4>2
    <3>5. CASE j # i
      BY <1>1, <3>1, <3>2, <3>3, <3>5
    <3> QED BY <3>4, <3>5
  <2> QED BY <2>1, <2>2
<1>6. Cardinality(Owed(d)) \in Nat /\ (Cardinality(Owed(d)) = 0 <=> Owed(d) = {})
  BY FS_CardinalityType, FS_EmptySet
<1>7. IsFiniteSet(Owed(d) \ {p}) /\ Cardinality(Owed(d) \ {p}) = Cardinality(Owed(d)) - 1
  <2> HIDE DEF p
  <2> QED BY <1>4, FS_RemoveElement
<1> HIDE DEF e, p
<1>8. IsFiniteSet(Owed(e)) /\ Cardinality(Owed(e)) = Cardinality(Owed(d)) - 1
  BY <1>5, <1>7
<1> QED BY <1>4, <1>6, <1>8 DEF e

\* A thread that owes the same as before.
LEMMA OwedSame ==
  ASSUME NEW d \in Seq(Thread), NEW i \in 1..Len(d), NEW t \in Thread, t.todo = d[i].todo
  PROVE  Owed([d EXCEPT ![i] = t]) = Owed(d)
<1> DEFINE e == [d EXCEPT ![i] = t]
<1>1. /\ e \in Seq(Thread) /\ Len(e) = Len(d)
      /\ \A j \in 1..Len(d) : e[j] = IF j = i THEN t ELSE d[j]
  BY ExceptSeq
<1> HIDE DEF e
<1>2. Owed(e) \in SUBSET (Nat \X Nat) /\ Owed(d) \in SUBSET (Nat \X Nat)
  BY <1>1, OwedMember
<1>3. \A j, l \in Nat : <<j, l>> \in Owed(e) <=> <<j, l>> \in Owed(d)
  <2> SUFFICES ASSUME NEW j \in Nat, NEW l \in Nat
               PROVE  <<j, l>> \in Owed(e) <=> <<j, l>> \in Owed(d)
    OBVIOUS
  <2>1. <<j, l>> \in Owed(d) <=> j \in 1..Len(d) /\ l \in 1..Len(d[j].todo)
    BY OwedMember
  <2>2. <<j, l>> \in Owed(e) <=> j \in 1..Len(d) /\ l \in 1..Len(e[j].todo)
    BY <1>1, OwedMember
  <2> QED BY <1>1, <2>1, <2>2
<1>4. Owed(e) = Owed(d)
  <2>1. \A x \in Nat \X Nat : x \in Owed(e) <=> x \in Owed(d)
    BY <1>3
  <2> QED BY <1>2, <2>1
<1> QED BY <1>4 DEF e

LEMMA RemoveAtProperties ==
  ASSUME NEW d \in Seq(Thread), NEW i \in 1..Len(d)
  PROVE  /\ RemoveAt(d, i) \in Seq(Thread) /\ Len(RemoveAt(d, i)) = Len(d) - 1
         /\ \A j \in 1..Len(d) - 1 : RemoveAt(d, i)[j] = IF j < i THEN d[j] ELSE d[j + 1]
<1>1. Len(d) \in Nat /\ \A j \in 1..Len(d) : d[j] \in Thread
  BY LenProperties
<1> DEFINE p == SubSeq(d, 1, i - 1)
           r == SubSeq(d, i + 1, Len(d))
<1>2. p \in Seq(Thread) /\ Len(p) = i - 1 /\ \A j \in 1..i - 1 : p[j] = d[j]
  <2>1. i - 1 \in Int /\ \A j \in 1..i - 1 : d[j] \in Thread
    BY <1>1
  <2>2. /\ p \in Seq(Thread)
        /\ Len(p) = IF 1 <= i - 1 THEN (i - 1) - 1 + 1 ELSE 0
        /\ \A j \in 1..(i - 1) - 1 + 1 : p[j] = d[1 + j - 1]
    BY <2>1, SubSeqProperties
  <2> HIDE DEF p
  <2> QED BY <1>1, <2>2
<1>3. r \in Seq(Thread) /\ Len(r) = Len(d) - i /\ \A j \in 1..Len(d) - i : r[j] = d[i + j]
  <2>1. i + 1 \in Int /\ \A j \in i + 1..Len(d) : d[j] \in Thread
    BY <1>1
  <2>2. /\ r \in Seq(Thread)
        /\ Len(r) = IF i + 1 <= Len(d) THEN Len(d) - (i + 1) + 1 ELSE 0
        /\ \A j \in 1..Len(d) - (i + 1) + 1 : r[j] = d[(i + 1) + j - 1]
    BY <1>1, <2>1, SubSeqProperties
  <2> HIDE DEF r
  <2> QED BY <1>1, <2>2
<1>4. /\ p \o r \in Seq(Thread) /\ Len(p \o r) = Len(p) + Len(r)
      /\ \A j \in 1..Len(p) + Len(r) : (p \o r)[j] = IF j <= Len(p) THEN p[j] ELSE r[j - Len(p)]
  BY <1>2, <1>3, ConcatProperties
<1>5. RemoveAt(d, i) = p \o r
  BY DEF RemoveAt
<1> HIDE DEF p, r
<1>6. Len(p) + Len(r) = Len(d) - 1
  BY <1>1, <1>2, <1>3
<1>7. ASSUME NEW j \in 1..Len(d) - 1
      PROVE  RemoveAt(d, i)[j] = IF j < i THEN d[j] ELSE d[j + 1]
  <2>1. RemoveAt(d, i)[j] = IF j <= Len(p) THEN p[j] ELSE r[j - Len(p)]
    BY <1>4, <1>5, <1>6
  <2>2. CASE j < i
    BY <1>1, <1>2, <2>1, <2>2
  <2>3. CASE ~(j < i)
    <3>1. j - (i - 1) \in 1..Len(d) - i /\ i + (j - (i - 1)) = j + 1
      BY <1>1, <2>3
    <3> QED BY <1>1, <1>2, <1>3, <2>1, <2>3, <3>1
  <2> QED BY <2>2, <2>3
<1> QED BY <1>4, <1>5, <1>6, <1>7

\* A thread that ends owes nothing.
LEMMA OwedRemove ==
  ASSUME NEW d \in Seq(Thread), NEW i \in 1..Len(d), d[i].todo = <<>>, IsFiniteSet(Owed(d))
  PROVE  /\ IsFiniteSet(Owed(RemoveAt(d, i)))
         /\ Cardinality(Owed(RemoveAt(d, i))) = Cardinality(Owed(d))
<1> DEFINE e == RemoveAt(d, i)
           f == [p \in Owed(d) |-> IF p[1] < i THEN p ELSE <<p[1] - 1, p[2]>>]
<1>1. /\ Len(d) \in Nat /\ e \in Seq(Thread) /\ Len(e) = Len(d) - 1
      /\ \A j \in 1..Len(d) - 1 : e[j] = IF j < i THEN d[j] ELSE d[j + 1]
  BY RemoveAtProperties, LenProperties
<1> HIDE DEF e
<1>2. /\ Owed(e) \in SUBSET (Nat \X Nat) /\ Owed(d) \in SUBSET (Nat \X Nat)
      /\ \A j, l : <<j, l>> \in Owed(d) <=> j \in 1..Len(d) /\ l \in 1..Len(d[j].todo)
      /\ \A j, l : <<j, l>> \in Owed(e) <=> j \in 1..Len(e) /\ l \in 1..Len(e[j].todo)
  BY <1>1, OwedMember
<1>3. \A l : <<i, l>> \notin Owed(d)
  BY <1>2
<1>4. ASSUME NEW p \in Owed(d) PROVE f[p] \in Owed(e)
  <2>1. PICK j \in Nat, l \in Nat : p = <<j, l>>
    BY <1>2
  <2>2. j \in 1..Len(d) /\ l \in 1..Len(d[j].todo) /\ j # i
    BY <1>2, <1>3, <2>1
  <2>3. CASE j < i
    <3>1. f[p] = <<j, l>> /\ j \in 1..Len(e) /\ e[j] = d[j]
      BY <1>1, <2>1, <2>2, <2>3
    <3> QED BY <1>2, <2>2, <3>1
  <2>4. CASE ~(j < i)
    <3>1. f[p] = <<j - 1, l>> /\ j - 1 \in 1..Len(e) /\ ~(j - 1 < i) /\ j - 1 + 1 = j
      BY <1>1, <2>1, <2>2, <2>4
    <3>2. e[j - 1] = d[j]
      BY <1>1, <3>1
    <3> QED BY <1>2, <2>2, <3>1, <3>2
  <2> QED BY <2>3, <2>4
<1>5. ASSUME NEW p \in Owed(d), NEW q \in Owed(d), f[p] = f[q] PROVE p = q
  BY <1>2, <1>3, <1>5
<1>6. ASSUME NEW q \in Owed(e) PROVE \E p \in Owed(d) : f[p] = q
  <2>1. PICK j \in Nat, l \in Nat : q = <<j, l>>
    BY <1>2
  <2>2. j \in 1..Len(d) - 1 /\ l \in 1..Len(e[j].todo)
    BY <1>1, <1>2, <2>1
  <2>3. CASE j < i
    <3>1. <<j, l>> \in Owed(d)
      <4>1. e[j] = d[j] /\ j \in 1..Len(d)
        BY <1>1, <2>2, <2>3
      <4>2. l \in 1..Len(d[j].todo)
        BY <2>2, <4>1
      <4> HIDE DEF f
      <4> QED BY <1>2, <4>1, <4>2
    <3> QED BY <2>1, <2>3, <3>1
  <2>4. CASE ~(j < i)
    <3>1. <<j + 1, l>> \in Owed(d)
      <4>1. e[j] = d[j + 1] /\ j + 1 \in 1..Len(d)
        BY <1>1, <2>2, <2>4
      <4>2. l \in 1..Len(d[j + 1].todo)
        BY <2>2, <4>1
      <4> HIDE DEF f
      <4> QED BY <1>2, <4>1, <4>2
    <3>2. f[<<j + 1, l>>] = q
      BY <2>1, <2>4, <3>1
    <3> QED BY <3>1, <3>2
  <2> QED BY <2>3, <2>4
<1>7. f \in Bijection(Owed(d), Owed(e))
  <2>1. f \in [Owed(d) -> Owed(e)]
    BY <1>4
  <2> HIDE DEF f
  <2> QED BY <1>5, <1>6, <2>1, Fun_IsBij
<1>8. ExistsBijection(Owed(d), Owed(e))
  BY <1>7, Fun_ExistsBij
<1> QED BY <1>8, FS_Bijection DEF e


-----------------------------------------------------------------------------
(***************************************************************************)
(* Types.                                                                    *)
(***************************************************************************)
LEMMA QueueTypes ==
  ASSUME TypeOK
  PROVE  /\ m_commands \in Seq(Commands) /\ Len(m_commands) \in Nat
         /\ m_buffer \in Seq(Commands) /\ Len(m_buffer) \in Nat
         /\ writes \in Seq(Commands) /\ Len(writes) \in Nat
         /\ ucopy \in Seq(Commands) /\ Len(ucopy) \in Nat
         /\ inbox \in Seq(Commands) /\ Len(inbox) \in Nat
         /\ iocopy \in Seq(Commands) /\ Len(iocopy) \in Nat
         /\ wire \in Seq(Commands) /\ Len(wire) \in Nat
         /\ replies \in Seq(Commands) /\ Len(replies) \in Nat
         /\ detached \in Seq(Thread) /\ Len(detached) \in Nat
         /\ DOMAIN detached = 1..Len(detached)
         /\ sent \in Nat
<1>1. /\ m_commands \in Seq(Commands) /\ m_buffer \in Seq(Commands)
      /\ writes \in Seq(Commands) /\ ucopy \in Seq(Commands)
      /\ inbox \in Seq(Commands) /\ iocopy \in Seq(Commands)
      /\ wire \in Seq(Commands) /\ replies \in Seq(Commands)
      /\ detached \in Seq(Thread)
  BY DEF TypeOK
<1>2. sent \in Nat
  BY ClientAssumption DEF TypeOK
<1> QED BY <1>1, <1>2, LenProperties

LEMMA ThreadTypes ==
  ASSUME TypeOK, NEW i \in DOMAIN detached
  PROVE  /\ i \in 1..Len(detached)
         /\ detached[i] \in Thread /\ detached[i].todo \in Seq(Commands)
         /\ detached[i] = [todo |-> detached[i].todo, stage |-> detached[i].stage]
         /\ Len(detached[i].todo) \in Nat
         /\ detached[i].todo # <<>> => /\ Len(detached[i].todo) > 0
                                       /\ Head(detached[i].todo) = detached[i].todo[1]
                                       /\ Head(detached[i].todo) \in Commands
<1>1. i \in 1..Len(detached) /\ detached[i] \in Thread
  BY QueueTypes, ElementOfSeq
<1>2. /\ detached[i].todo \in Seq(Commands)
      /\ detached[i] = [todo |-> detached[i].todo, stage |-> detached[i].stage]
  BY <1>1 DEF Thread
<1>3. Len(detached[i].todo) \in Nat
  BY <1>2, LenProperties
<1>4. detached[i].todo # <<>> => /\ Len(detached[i].todo) > 0
                                 /\ Head(detached[i].todo) = detached[i].todo[1]
                                 /\ Head(detached[i].todo) \in Commands
  BY <1>2, EmptySeq, HeadTailProperties
<1> QED BY <1>1, <1>2, <1>3, <1>4

\* The counter is at least the number of the callbacks it counts.
LEMMA CounterTypes ==
  ASSUME TypeOK, Counted
  PROVE  /\ Cardinality(Owed(detached)) \in Nat
         /\ iopc \in {"call", "done"} => m_callbacks_running > 0
         /\ \A i \in DOMAIN detached : detached[i].todo # <<>> => m_callbacks_running > 0
<1>1. /\ Cardinality(Owed(detached)) \in Nat
      /\ Cardinality(Owed(detached)) = 0 <=> Owed(detached) = {}
  BY FS_CardinalityType, FS_EmptySet DEF Counted
<1>2. ASSUME NEW i \in DOMAIN detached, detached[i].todo # <<>>
      PROVE  Owed(detached) # {}
  <2>1. i \in 1..Len(detached) /\ 1 \in 1..Len(detached[i].todo)
    BY <1>2, ThreadTypes
  <2>2. <<i, 1>> \in Owed(detached)
    BY <2>1, QueueTypes, OwedMember
  <2> QED BY <2>2
<1> QED BY <1>1, <1>2 DEF Counted, RunningCounted

\* clear_callbacks hands a well-typed queue to a new thread.
LEMMA DetachTypes ==
  ASSUME TypeOK, NEW q \in Seq(Commands), Detach(q)
  PROVE  /\ [todo |-> q, stage |-> "call"] \in Thread
         /\ m_commands' = <<>> /\ m_commands' \in Seq(Commands)
         /\ m_callbacks_running' \in Nat
         /\ detached' = Append(detached, [todo |-> q, stage |-> "call"])
         /\ detached' \in Seq(Thread)
         /\ Len(detached') = Len(detached) + 1
         /\ \A i \in 1..Len(detached) : detached'[i] = detached[i]
         /\ detached'[Len(detached) + 1] = [todo |-> q, stage |-> "call"]
<1>1. [todo |-> q, stage |-> "call"] \in Thread
  BY DEF Thread
<1>2. m_callbacks_running' \in Nat
  BY LenProperties DEF Detach, TypeOK
<1> QED BY <1>1, <1>2, QueueTypes, AppendProperties DEF Detach

LEMMA TypeStep ==
  ASSUME ClientInv, Next
  PROVE  TypeOK'
<1> USE ClientAssumption DEF userVars, ioVars, clientVars, netVars
<1>0. TypeOK /\ Stages /\ Counted
  BY DEF ClientInv
<1>q. /\ m_commands \in Seq(Commands) /\ m_buffer \in Seq(Commands)
      /\ writes \in Seq(Commands) /\ ucopy \in Seq(Commands)
      /\ inbox \in Seq(Commands) /\ iocopy \in Seq(Commands)
      /\ wire \in Seq(Commands) /\ replies \in Seq(Commands)
      /\ detached \in Seq(Thread) /\ <<>> \in Seq(Commands)
  BY <1>0, QueueTypes
<1>1. CASE Send
  <2>1. sent + 1 \in Commands /\ sent + 1 \in 0..MaxCommands
    BY <1>0, <1>1 DEF Send, Commands, TypeOK
  <2>2. Append(m_buffer, sent + 1) \in Seq(Commands) /\ Append(m_commands, sent + 1) \in Seq(Commands)
    BY <2>1, <1>q, AppendProperties
  <2> QED BY <1>0, <1>1, <1>q, <2>1, <2>2 DEF Send, TypeOK
<1>2. CASE CallSyncCommit \/ SyncCommit \/ Block \/ Spurious
  BY <1>0, <1>2, SMTT(30) DEF CallSyncCommit, SyncCommit, Block, Spurious, TypeOK
<1>3. CASE TryCommit
  <2>1. writes \o m_buffer \in Seq(Commands)
    BY <1>q, ConcatProperties
  <2> QED BY <1>0, <1>3, <1>q, <2>1 DEF TryCommit, TypeOK
<1>4. CASE UserClear
  BY <1>0, <1>4, <1>q DEF UserClear, TypeOK
<1>5. CASE UserMove
  <2>1. m_commands' \in Seq(Commands) /\ m_callbacks_running' \in Nat /\ detached' \in Seq(Thread)
    BY <1>0, <1>5, <1>q, DetachTypes DEF UserMove
  <2> QED BY <1>0, <1>5, <1>q, <2>1 DEF UserMove, TypeOK
<1>6. CASE Wait
  BY <1>0, <1>6 DEF Wait, TypeOK
<1>7. CASE Read
  <2>1. PICK n \in 1..Len(replies) : /\ inbox' = SubSeq(replies, 1, n)
                                    /\ replies' = SubSeq(replies, n + 1, Len(replies))
    BY <1>7 DEF Read
  <2>2. inbox' \in Seq(Commands) /\ replies' \in Seq(Commands)
    <3>1. Len(replies) \in Nat /\ \A i \in 1..Len(replies) : replies[i] \in Commands
      BY <1>q, LenProperties
    <3>2. /\ \A i \in 1..n : replies[i] \in Commands
          /\ \A i \in n + 1..Len(replies) : replies[i] \in Commands
      BY <3>1
    <3> QED BY <2>1, <3>1, <3>2, SubSeqProperties
  <2> QED BY <1>0, <1>7, <1>q, <2>2 DEF Read, TypeOK
<1>8. CASE Write
  <2>1. wire \o writes \in Seq(Commands)
    BY <1>q, ConcatProperties
  <2> QED BY <1>0, <1>8, <1>q, <2>1 DEF Write, TypeOK
<1>9. CASE Disconnect \/ Lost \/ StrayEvent
  <2>1. CASE Disconnect
    BY <1>0, <1>q, <2>1 DEF Disconnect, TypeOK
  <2>2. CASE Lost
    BY <1>0, <1>q, <2>2 DEF Lost, TypeOK
  <2>3. CASE StrayEvent
    <3>1. stray' = FALSE /\ iopc' \in {"off", "lost"}
      BY <2>3 DEF StrayEvent
    <3>2. UNCHANGED <<inbox, iocur, iocopy, userVars, clientVars, netVars>>
      BY <2>3 DEF StrayEvent
    <3> QED BY <1>0, <3>1, <3>2 DEF TypeOK, userVars, clientVars, netVars
  <2> QED BY <1>9, <2>1, <2>2, <2>3
<1>10. CASE ReceivePop
  <2>1. iocur' \in Commands \cup {None} /\ m_commands' \in Seq(Commands)
    BY <1>10, <1>q, HeadTailProperties DEF ReceivePop
  <2> QED BY <1>0, <1>10, <1>q, <2>1 DEF ReceivePop, TypeOK
<1>11. CASE ReceiveCall
  <2>1. inbox' \in Seq(Commands)
    BY <1>0, <1>11, <1>q, HeadTailProperties DEF ReceiveCall, Stages
  <2>2. answer' \in [Commands -> {"none", "reply", "failure", "foreign"}]
    BY <1>0, <1>11 DEF ReceiveCall, Answered, TypeOK
  <2> QED BY <1>0, <1>11, <1>q, <2>1, <2>2 DEF ReceiveCall, TypeOK
<1>12. CASE ReceiveDone
  <2>1. m_callbacks_running' \in Nat
    BY <1>0, <1>12, CounterTypes DEF ReceiveDone, TypeOK
  <2> QED BY <1>0, <1>12, <1>q, <2>1 DEF ReceiveDone, NotifyAll, TypeOK
<1>13. CASE HandlerClear
  BY <1>0, <1>13, <1>q DEF HandlerClear, TypeOK
<1>14. CASE HandlerMove
  <2>1. m_commands' \in Seq(Commands) /\ m_callbacks_running' \in Nat /\ detached' \in Seq(Thread)
    BY <1>0, <1>14, <1>q, DetachTypes DEF HandlerMove
  <2> QED BY <1>0, <1>14, <1>q, <2>1 DEF HandlerMove, TypeOK
<1>15. ASSUME NEW i \in DOMAIN detached, DetachedCall(i) PROVE TypeOK'
  <2>1. /\ i \in 1..Len(detached) /\ detached[i] \in Thread
        /\ Head(detached[i].todo) \in Commands
    BY <1>0, <1>15, ThreadTypes DEF DetachedCall
  <2>2. detached' \in Seq(Thread)
    <3>1. [detached[i] EXCEPT !.stage = "count"] \in Thread
      BY <2>1 DEF Thread
    <3>2. [detached EXCEPT ![i].stage = "count"] \in Seq(Thread)
      BY <1>q, <2>1, <3>1, ExceptSeq
    <3> QED BY <1>15, <1>q, <3>2 DEF DetachedCall
  <2>3. answer' \in [Commands -> {"none", "reply", "failure", "foreign"}] /\ aborted' \in BOOLEAN
    BY <1>0, <1>15, <2>1 DEF DetachedCall, TypeOK
  <2> QED BY <1>0, <1>15, <1>q, <2>2, <2>3 DEF DetachedCall, TypeOK
<1>16. ASSUME NEW i \in DOMAIN detached, DetachedCount(i) PROVE TypeOK'
  <2>1. i \in 1..Len(detached) /\ detached[i] \in Thread /\ detached[i].todo \in Seq(Commands)
    BY <1>0, ThreadTypes
  <2>2. detached' \in Seq(Thread)
    <3>1. [todo |-> Tail(detached[i].todo), stage |-> "call"] \in Thread
      BY <1>16, <2>1, HeadTailProperties DEF Thread, DetachedCount
    <3> QED BY <1>16, <1>q, <2>1, <3>1, ExceptSeq DEF DetachedCount
  <2>3. m_callbacks_running' \in Nat
    BY <1>0, <1>16, CounterTypes, SMTT(30) DEF DetachedCount, TypeOK
  <2> QED BY <1>0, <1>16, <1>q, <2>2, <2>3 DEF DetachedCount, TypeOK
<1>17. ASSUME NEW i \in DOMAIN detached, DetachedNotify(i) PROVE TypeOK'
  <2>1. detached' \in Seq(Thread)
    BY <1>0, <1>17, <1>q, ThreadTypes, RemoveAtProperties DEF DetachedNotify
  <2> QED BY <1>0, <1>17, <1>q, <2>1 DEF DetachedNotify, NotifyAll, TypeOK
<1>18. CASE Serve
  <2>1. replies' \in Seq(Commands) /\ wire' \in Seq(Commands)
    BY <1>18, <1>q, HeadTailProperties, AppendProperties DEF Serve
  <2> QED BY <1>0, <1>18, <1>q, <2>1 DEF Serve, TypeOK
<1>19. CASE Drop
  <2>1. PICK n \in 0..Len(replies) : replies' = SubSeq(replies, 1, n)
    BY <1>19 DEF Drop
  <2>2. replies' \in Seq(Commands)
    <3>1. Len(replies) \in Nat /\ \A i \in 1..Len(replies) : replies[i] \in Commands
      BY <1>q, LenProperties
    <3>2. \A i \in 1..n : replies[i] \in Commands
      BY <3>1
    <3> QED BY <2>1, <3>1, <3>2, SubSeqProperties
  <2>3. /\ line' = FALSE /\ wire' = <<>>
        /\ UNCHANGED <<userVars, ioVars, clientVars, connected, writes>>
    BY <1>19 DEF Drop
  <2>4. line' \in BOOLEAN
    BY <2>3
  <2> QED BY <1>0, <1>q, <2>2, <2>3, <2>4 DEF TypeOK
<1> QED BY <1>1, <1>2, <1>3, <1>4, <1>5, <1>6, <1>7, <1>8, <1>9, <1>10, <1>11, <1>12, <1>13,
           <1>14, <1>15, <1>16, <1>17, <1>18, <1>19
        DEF Next, UserStep, IoStep, DetachedStep

LEMMA StagesStep ==
  ASSUME ClientInv, Next
  PROVE  Stages'
<1> USE ClientAssumption DEF userVars, ioVars, clientVars, netVars
<1>0. TypeOK /\ Stages
  BY DEF ClientInv
<1>1. CASE Send \/ Serve \/ Write
  <2>1. UNCHANGED <<connected, iopc, upc, inbox, iocur, m_callbacks_mutex>>
    BY <1>1 DEF Send, Serve, Write
  <2> QED BY <1>0, <2>1 DEF Stages
<1>11. CASE CallSyncCommit \/ SyncCommit \/ Spurious
  BY <1>0, <1>11 DEF Stages, CallSyncCommit, SyncCommit, Spurious
<1>6. CASE TryCommit
  BY <1>0, <1>6 DEF Stages, TryCommit
<1>7. CASE UserClear \/ UserMove
  BY <1>0, <1>7 DEF Stages, UserClear, UserMove
<1>8. CASE Wait \/ Block
  BY <1>0, <1>8 DEF Stages, Wait, Block
<1>9. CASE Drop
  BY <1>0, <1>9 DEF Stages, Drop
<1>2. CASE Read
  <2>1. inbox' # <<>>
    <3>1. PICK n \in 1..Len(replies) : inbox' = SubSeq(replies, 1, n)
      BY <1>2 DEF Read
    <3>2. Len(replies) \in Nat /\ replies \in Seq(Commands)
      BY <1>0, QueueTypes
    <3>3. \A i \in 1..n : replies[i] \in Commands
      BY <3>2, LenProperties
    <3>4. Len(SubSeq(replies, 1, n)) = IF 1 <= n THEN n - 1 + 1 ELSE 0
      BY <3>2, <3>3, SubSeqProperties
    <3> QED BY <3>1, <3>2, <3>4, EmptySeq
  <2> QED BY <1>0, <1>2, <2>1 DEF Stages, Read
<1>3. CASE Disconnect \/ Lost \/ HandlerClear \/ HandlerMove \/ StrayEvent
  BY <1>0, <1>3 DEF Stages, Disconnect, Lost, HandlerClear, HandlerMove, StrayEvent
<1>4. CASE ReceivePop \/ ReceiveCall
  BY <1>0, <1>4 DEF Stages, ReceivePop, ReceiveCall
<1>10. CASE ReceiveDone
  BY <1>0, <1>10 DEF Stages, ReceiveDone, NotifyAll
<1>5. CASE DetachedStep
  BY <1>0, <1>5 DEF Stages, DetachedStep, DetachedCall, DetachedCount, DetachedNotify, NotifyAll
<1> QED BY <1>1, <1>2, <1>3, <1>4, <1>5, <1>6, <1>7, <1>8, <1>9, <1>10, <1>11
        DEF Next, UserStep, IoStep


-----------------------------------------------------------------------------
(***************************************************************************)
(* Every reply goes to the command it answers.                               *)
(***************************************************************************)
LEMMA ConsecutiveEmpty ==
  \A a : Consecutive(<<>>, a)
BY DEF Consecutive

LEMMA PipelineStep ==
  ASSUME ClientInv, Next
  PROVE  Pipeline'
<1> USE DEF userVars, ioVars, clientVars, netVars
<1> SUFFICES ASSUME connected'
             PROVE  /\ Consecutive(m_commands', sent' - Len(m_commands'))
                    /\ Consecutive(inbox', Consumed')
                    /\ iopc' = "call" => iocur' = Consumed' + 1
                    /\ Consecutive(replies', Consumed' + Len(inbox'))
                    /\ Consecutive(m_buffer', sent' - Len(m_buffer'))
                    /\ Consecutive(writes', sent' - Len(m_buffer') - Len(writes'))
                    /\ Consecutive(wire', Consumed' + Len(inbox') + Len(replies'))
                    /\ line' => Consumed' + Len(inbox') + Len(replies') + Len(wire')
                                + Len(writes') + Len(m_buffer') = sent'
                    /\ ~line' => /\ wire' = <<>>
                                 /\ Consumed' + Len(inbox') + Len(replies') <= sent'
  BY DEF Pipeline
<1>0. TypeOK /\ Stages
  BY DEF ClientInv
<1>q. /\ m_commands \in Seq(Commands) /\ Len(m_commands) \in Nat
      /\ m_buffer \in Seq(Commands) /\ Len(m_buffer) \in Nat
      /\ writes \in Seq(Commands) /\ Len(writes) \in Nat
      /\ inbox \in Seq(Commands) /\ Len(inbox) \in Nat
      /\ wire \in Seq(Commands) /\ Len(wire) \in Nat
      /\ replies \in Seq(Commands) /\ Len(replies) \in Nat
      /\ sent \in Nat /\ Consumed \in Int
  BY <1>0, QueueTypes DEF Consumed
<1>c. connected
  BY DEF Next, Send, CallSyncCommit, UserStep, SyncCommit, TryCommit, UserClear, UserMove, Wait,
     Block, IoStep, Read, Write, Disconnect, ReceivePop, ReceiveCall, ReceiveDone, Lost,
     HandlerClear, HandlerMove, StrayEvent, DetachedStep, DetachedCall, DetachedCount,
     DetachedNotify, Serve, Drop, Spurious
<1>p. /\ Consecutive(m_commands, sent - Len(m_commands))
      /\ Consecutive(inbox, Consumed)
      /\ iopc = "call" => iocur = Consumed + 1
      /\ Consecutive(replies, Consumed + Len(inbox))
      /\ Consecutive(m_buffer, sent - Len(m_buffer))
      /\ Consecutive(writes, sent - Len(m_buffer) - Len(writes))
      /\ Consecutive(wire, Consumed + Len(inbox) + Len(replies))
      /\ line => Consumed + Len(inbox) + Len(replies) + Len(wire) + Len(writes)
                 + Len(m_buffer) = sent
      /\ ~line => wire = <<>> /\ Consumed + Len(inbox) + Len(replies) <= sent
  BY <1>c DEF ClientInv, Pipeline
<1>e. /\ iopc \in {"free", "pop", "call", "done"} /\ upc \notin {"clear", "move"}
      /\ iopc \in {"pop", "call"} => inbox # <<>>
      /\ iopc \notin {"pop", "call", "done"} => inbox = <<>>
  BY <1>0, <1>c DEF Stages
\* Steps that touch none of the queues.
<1>1. CASE /\ UNCHANGED <<m_commands, inbox, iocur, replies, m_buffer, writes, wire, line, sent>>
           /\ (iopc' = "call") = (iopc = "call")
  <2>1. Consumed' = Consumed
    BY <1>1 DEF Consumed
  <2> QED BY <1>1, <1>p, <2>1
<1>2. CASE Send
  <2>1. sent + 1 \in Commands
    BY <1>0, <1>2, ClientAssumption DEF Send, Commands, TypeOK
  <2>2. /\ Len(m_buffer') = Len(m_buffer) + 1 /\ Len(m_commands') = Len(m_commands) + 1
        /\ sent' = sent + 1
    BY <1>2, <1>q, <2>1, AppendProperties DEF Send
  <2>3. Consecutive(m_commands', sent - Len(m_commands))
    BY <1>2, <1>q, <1>p, <2>1, ConsecutiveAppend, SMTT(30) DEF Send
  <2>4. Consecutive(m_buffer', sent - Len(m_buffer))
    BY <1>2, <1>q, <1>p, <2>1, ConsecutiveAppend, SMTT(30) DEF Send
  <2>5. UNCHANGED <<iopc, inbox, iocur, replies, writes, wire, line>>
    BY <1>2 DEF Send
  <2>6. Consumed' = Consumed
    BY <1>q, <2>2, <2>5 DEF Consumed
  <2>7. /\ sent' - Len(m_commands') = sent - Len(m_commands)
        /\ sent' - Len(m_buffer') = sent - Len(m_buffer)
    BY <1>q, <2>2
  <2>8. /\ line => Consumed + Len(inbox) + Len(replies) + Len(wire) + Len(writes)
                   + Len(m_buffer') = sent'
        /\ ~line => Consumed + Len(inbox) + Len(replies) <= sent'
    BY <1>q, <1>p, <2>2, SMTT(30)
  <2> QED BY <1>p, <2>3, <2>4, <2>5, <2>6, <2>7, <2>8
<1>3. CASE TryCommit
  <2>1. /\ m_buffer' = <<>> /\ writes' = writes \o m_buffer
        /\ UNCHANGED <<sent, m_commands, iopc, inbox, iocur, replies, wire, line>>
    BY <1>3, <1>c DEF TryCommit
  <2>2. Len(m_buffer') = 0 /\ Len(writes') = Len(writes) + Len(m_buffer)
    BY <1>q, <2>1, ConcatProperties
  <2>3. Consecutive(writes', sent - Len(m_buffer) - Len(writes))
    <3>1. sent - Len(m_buffer) - Len(writes) + Len(writes) = sent - Len(m_buffer)
      BY <1>q
    <3> QED BY <1>q, <1>p, <2>1, <3>1, ConsecutiveConcat
  <2>4. Consumed' = Consumed
    BY <2>1 DEF Consumed
  <2>5. /\ sent' - Len(m_buffer') - Len(writes') = sent - Len(m_buffer) - Len(writes)
        /\ line => Consumed + Len(inbox) + Len(replies) + Len(wire) + Len(writes')
                   + Len(m_buffer') = sent
    BY <1>q, <1>p, <2>1, <2>2
  <2> QED BY <1>p, <2>1, <2>3, <2>4, <2>5, ConsecutiveEmpty
<1>4. CASE Read
  <2>1. PICK n \in 1..Len(replies) : /\ inbox' = SubSeq(replies, 1, n)
                                    /\ replies' = SubSeq(replies, n + 1, Len(replies))
    BY <1>4 DEF Read
  <2>2. /\ inbox = <<>> /\ Len(inbox) = 0
        /\ UNCHANGED <<sent, m_commands, m_buffer, iocur, writes, wire, line>>
        /\ iopc = "free" /\ iopc' = "pop"
    BY <1>4, <1>e DEF Read
  <2>3. Consumed' = Consumed
    BY <2>2 DEF Consumed
  <2>4. /\ Len(inbox') = n /\ Consecutive(inbox', Consumed)
        /\ Len(replies') = Len(replies) - n /\ Consecutive(replies', Consumed + n)
    <3>1. Consumed + Len(inbox) = Consumed /\ n \in 0..Len(replies)
      BY <1>q, <2>2
    <3>2. Consecutive(replies, Consumed)
      BY <1>p, <3>1
    <3> QED BY <1>q, <2>1, <3>1, <3>2, ConsecutiveSplit
  <2>5. Consumed + Len(inbox') + Len(replies') = Consumed + Len(inbox) + Len(replies)
    BY <1>q, <2>2, <2>4
  <2> QED BY <1>p, <2>2, <2>3, <2>4, <2>5
<1>5. CASE Write
  <2>1. /\ wire' = wire \o writes /\ writes' = <<>> /\ line /\ line'
        /\ UNCHANGED <<sent, m_commands, m_buffer, iopc, inbox, iocur, replies>>
    BY <1>5 DEF Write
  <2>2. Len(wire') = Len(wire) + Len(writes) /\ Len(writes') = 0
    BY <1>q, <2>1, ConcatProperties
  <2>3. Consecutive(wire', Consumed + Len(inbox) + Len(replies))
    <3>1. Consumed + Len(inbox) + Len(replies) + Len(wire) = sent - Len(m_buffer) - Len(writes)
      BY <1>q, <1>p, <2>1
    <3>2. Consumed + Len(inbox) + Len(replies) \in Int
      BY <1>q
    <3>3. Consecutive(writes, Consumed + Len(inbox) + Len(replies) + Len(wire))
      BY <1>p, <3>1
    <3> QED BY <1>q, <1>p, <2>1, <3>2, <3>3, ConsecutiveConcat
  <2>4. Consumed' = Consumed
    BY <2>1 DEF Consumed
  <2>5. Consumed + Len(inbox) + Len(replies) + Len(wire') + Len(writes') + Len(m_buffer) = sent
    BY <1>q, <1>p, <2>1, <2>2
  <2> QED BY <1>p, <2>1, <2>3, <2>4, <2>5, ConsecutiveEmpty
<1>6. CASE ReceivePop
  <2>1. /\ iopc = "pop" /\ iopc' = "call" /\ inbox # <<>>
        /\ UNCHANGED <<sent, m_buffer, inbox, replies, writes, wire, line>>
    BY <1>6, <1>e DEF ReceivePop
  <2>2. Len(m_commands) > 0 /\ m_commands # <<>>
    <3>1. Len(inbox) > 0
      BY <1>q, <2>1, EmptySeq
    <3>2. Consumed = sent - Len(m_commands)
      BY <1>q, <2>1 DEF Consumed
    <3> QED BY <1>q, <1>p, <3>1, <3>2, SMTT(30)
  <2>3. iocur' = Head(m_commands) /\ m_commands' = Tail(m_commands)
    BY <1>6, <2>2 DEF ReceivePop
  <2>4. Len(m_commands') = Len(m_commands) - 1
    BY <1>q, <2>2, <2>3, HeadTailProperties
  <2>5. /\ iocur' = sent - Len(m_commands) + 1
        /\ Consecutive(m_commands', sent - Len(m_commands) + 1)
    BY <1>q, <1>p, <2>2, <2>3, ConsecutiveTail
  <2>6. /\ Consumed' = Consumed /\ iocur' = Consumed' + 1
        /\ sent' - Len(m_commands') = sent - Len(m_commands) + 1
    BY <1>q, <2>1, <2>4, <2>5 DEF Consumed
  <2> QED BY <1>p, <2>1, <2>5, <2>6
<1>7. CASE ReceiveCall
  <2>1. /\ iopc = "call" /\ iopc' = "done" /\ inbox # <<>> /\ inbox' = Tail(inbox)
        /\ UNCHANGED <<sent, m_commands, m_buffer, replies, writes, wire, line>>
    BY <1>7, <1>e DEF ReceiveCall
  <2>2. Len(inbox') = Len(inbox) - 1 /\ Consecutive(inbox', Consumed + 1)
    BY <1>q, <1>p, <2>1, HeadTailProperties, ConsecutiveTail
  <2>3. Consumed' = Consumed + 1
    BY <1>q, <2>1 DEF Consumed
  <2>4. Consumed' + Len(inbox') = Consumed + Len(inbox)
    BY <1>q, <2>2, <2>3
  <2> QED BY <1>p, <2>1, <2>2, <2>3, <2>4
<1>8. CASE Serve
  <2>1. /\ wire # <<>> /\ replies' = Append(replies, Head(wire)) /\ wire' = Tail(wire)
        /\ UNCHANGED <<sent, m_commands, m_buffer, iopc, inbox, iocur, writes, line>>
    BY <1>8 DEF Serve
  <2>2. line
    BY <1>p, <2>1
  <2>3. Consumed' = Consumed
    BY <2>1 DEF Consumed
  <2>4. /\ Head(wire) = Consumed + Len(inbox) + Len(replies) + 1
        /\ Consecutive(wire', Consumed + Len(inbox) + Len(replies) + 1)
        /\ Head(wire) \in Commands /\ Len(wire') = Len(wire) - 1
    BY <1>q, <1>p, <2>1, HeadTailProperties, ConsecutiveTail, SMTT(30)
  <2>5. Len(replies') = Len(replies) + 1
    BY <1>q, <2>1, <2>4, AppendProperties
  <2>6. Consecutive(replies', Consumed + Len(inbox))
    BY <1>q, <1>p, <2>1, <2>4, ConsecutiveAppend, SMTT(30)
  <2>7. /\ Consumed + Len(inbox) + Len(replies') = Consumed + Len(inbox) + Len(replies) + 1
        /\ Consumed + Len(inbox) + Len(replies') + Len(wire') + Len(writes) + Len(m_buffer) = sent
    <3>1. Consumed + Len(inbox) + Len(replies) + Len(wire) + Len(writes) + Len(m_buffer) = sent
      BY <1>p, <2>2
    <3>2. Len(wire') = Len(wire) - 1
      BY <2>4
    <3>3. /\ Consumed \in Int /\ Len(inbox) \in Nat /\ Len(replies) \in Nat /\ Len(wire) \in Nat
          /\ Len(writes) \in Nat /\ Len(m_buffer) \in Nat /\ sent \in Nat
      BY <1>q
    <3> QED BY <2>5, <3>1, <3>2, <3>3
  <2> QED BY <1>p, <2>1, <2>2, <2>3, <2>4, <2>6, <2>7
<1>9. CASE Drop
  <2>1. PICK n \in 0..Len(replies) : replies' = SubSeq(replies, 1, n)
    BY <1>9 DEF Drop
  <2>2. /\ line /\ ~line' /\ wire' = <<>>
        /\ UNCHANGED <<sent, m_commands, m_buffer, iopc, inbox, iocur, writes>>
    BY <1>9 DEF Drop
  <2>3. Len(replies') = n /\ Consecutive(replies', Consumed + Len(inbox))
    BY <1>q, <1>p, <2>1, ConsecutiveSplit
  <2>4. Consumed' = Consumed
    BY <2>2 DEF Consumed
  <2>5. Consumed + Len(inbox) + Len(replies') <= sent
    BY <1>q, <1>p, <2>1, <2>2, <2>3, SMTT(30)
  <2> QED BY <1>p, <2>2, <2>3, <2>4, <2>5, ConsecutiveEmpty
<1>10. CASE CallSyncCommit \/ SyncCommit \/ Wait \/ Block \/ Spurious
  BY <1>1, <1>10 DEF CallSyncCommit, SyncCommit, Wait, Block, Spurious
<1>11. CASE ReceiveDone
  BY <1>1, <1>11 DEF ReceiveDone
<1>12. CASE DetachedStep
  BY <1>1, <1>12 DEF DetachedStep, DetachedCall, DetachedCount, DetachedNotify
<1>13. CASE UserClear \/ UserMove \/ Disconnect \/ Lost \/ HandlerClear \/ HandlerMove \/ StrayEvent
  BY <1>13, <1>e DEF UserClear, UserMove, Disconnect, Lost, HandlerClear, HandlerMove, StrayEvent
<1> QED BY <1>2, <1>3, <1>4, <1>5, <1>6, <1>7, <1>8, <1>9, <1>10, <1>11, <1>12, <1>13
        DEF Next, UserStep, IoStep

LEMMA OwnReplyStep ==
  ASSUME ClientInv, Next
  PROVE  OwnReply'
<1> USE DEF userVars, ioVars, clientVars, netVars
<1>0. TypeOK /\ Stages /\ Pipeline /\ OwnReply
  BY DEF ClientInv
<1>1. CASE ReceiveCall
  <2>1. iopc = "call" /\ connected /\ inbox # <<>> /\ inbox \in Seq(Commands)
    BY <1>0, <1>1, QueueTypes DEF ReceiveCall, Stages
  <2>2. iocur = Consumed + 1 /\ Consecutive(inbox, Consumed) /\ Consumed \in Int
    BY <1>0, <2>1, QueueTypes DEF Pipeline, Consumed
  <2>3. Head(inbox) = iocur
    BY <2>1, <2>2, ConsecutiveTail
  <2> QED BY <1>0, <1>1, <2>3 DEF ReceiveCall, Answered, OwnReply, TypeOK
<1>2. ASSUME NEW i \in DOMAIN detached, DetachedCall(i) PROVE OwnReply'
  <2>1. Head(detached[i].todo) \in Commands
    BY <1>0, <1>2, ThreadTypes DEF DetachedCall
  <2> QED BY <1>0, <1>2, <2>1 DEF DetachedCall, OwnReply, TypeOK
<1>3. CASE UNCHANGED answer
  BY <1>0, <1>3 DEF OwnReply
<1> QED BY <1>1, <1>2, <1>3 DEF Next, Send, CallSyncCommit, UserStep, SyncCommit, TryCommit,
     UserClear, UserMove, Wait, Block, IoStep, Read, Write, Disconnect, ReceivePop, ReceiveDone,
     Lost, HandlerClear, HandlerMove, StrayEvent, DetachedStep, DetachedCount, DetachedNotify,
     Serve, Drop, Spurious


-----------------------------------------------------------------------------
(***************************************************************************)
(* m_callbacks_running counts the callbacks that have not returned.          *)
(***************************************************************************)
InCallback == iopc \in {"call", "done"}

LEMMA CountedStep ==
  ASSUME ClientInv, Next
  PROVE  Counted'
<1> USE DEF userVars, ioVars, clientVars, netVars
<1>0. /\ TypeOK /\ Counted /\ IsFiniteSet(Owed(detached))
      /\ m_callbacks_running = (IF InCallback THEN 1 ELSE 0) + Cardinality(Owed(detached))
  BY DEF ClientInv, Counted, RunningCounted, InCallback
<1>q. /\ detached \in Seq(Thread) /\ ucopy \in Seq(Commands) /\ iocopy \in Seq(Commands)
      /\ Cardinality(Owed(detached)) \in Nat /\ m_callbacks_running \in Nat
  BY <1>0, QueueTypes, CounterTypes DEF TypeOK
<1> SUFFICES /\ IsFiniteSet(Owed(detached'))
             /\ m_callbacks_running' = (IF InCallback' THEN 1 ELSE 0) + Cardinality(Owed(detached'))
  BY DEF Counted, RunningCounted, InCallback
<1>1. CASE UNCHANGED <<m_callbacks_running, detached>> /\ InCallback' = InCallback
  BY <1>0, <1>1
<1>2. ASSUME NEW q \in Seq(Commands), Detach(q), InCallback' = InCallback
      PROVE  /\ IsFiniteSet(Owed(detached'))
             /\ m_callbacks_running' = (IF InCallback' THEN 1 ELSE 0) + Cardinality(Owed(detached'))
  <2>1. /\ [todo |-> q, stage |-> "call"] \in Thread
        /\ detached' = Append(detached, [todo |-> q, stage |-> "call"])
        /\ m_callbacks_running' = m_callbacks_running + Len(q) /\ Len(q) \in Nat
    BY <1>0, <1>2, DetachTypes, LenProperties DEF Detach
  <2>2. /\ IsFiniteSet(Owed(detached'))
        /\ Cardinality(Owed(detached')) = Cardinality(Owed(detached)) + Len(q)
    BY <1>0, <1>q, <2>1, OwedAppend
  <2> QED BY <1>0, <1>q, <1>2, <2>1, <2>2
<1>3. CASE UserMove \/ HandlerMove
  <2>1. InCallback' = InCallback
    BY <1>3 DEF UserMove, HandlerMove, InCallback
  <2> QED BY <1>2, <1>3, <1>q, <2>1 DEF UserMove, HandlerMove
<1>4. CASE ReceivePop
  BY <1>0, <1>q, <1>4 DEF ReceivePop, InCallback
<1>5. CASE ReceiveDone
  <2>1. InCallback /\ ~InCallback' /\ UNCHANGED detached /\ m_callbacks_running' = m_callbacks_running - 1
    BY <1>5 DEF ReceiveDone, InCallback
  <2> QED BY <1>0, <1>q, <2>1
<1>6. ASSUME NEW i \in DOMAIN detached, DetachedCall(i)
      PROVE  /\ IsFiniteSet(Owed(detached'))
             /\ m_callbacks_running' = (IF InCallback' THEN 1 ELSE 0) + Cardinality(Owed(detached'))
  <2>1. i \in 1..Len(detached) /\ detached[i] \in Thread
    BY <1>0, ThreadTypes
  <2> DEFINE t == [detached[i] EXCEPT !.stage = "count"]
  <2>2. t \in Thread /\ t.todo = detached[i].todo
    BY <2>1 DEF Thread
  <2>3. Owed([detached EXCEPT ![i] = t]) = Owed(detached)
    <3> HIDE DEF t
    <3> QED BY <1>q, <2>1, <2>2, OwedSame
  <2>4. Owed(detached') = Owed(detached)
    BY <1>6, <2>3 DEF DetachedCall
  <2>5. InCallback' = InCallback /\ UNCHANGED m_callbacks_running
    BY <1>6 DEF DetachedCall, InCallback
  <2> QED BY <1>0, <2>4, <2>5
<1>7. ASSUME NEW i \in DOMAIN detached, DetachedCount(i)
      PROVE  /\ IsFiniteSet(Owed(detached'))
             /\ m_callbacks_running' = (IF InCallback' THEN 1 ELSE 0) + Cardinality(Owed(detached'))
  <2>1. i \in 1..Len(detached) /\ detached[i].todo \in Seq(Commands) /\ detached[i].todo # <<>>
    BY <1>0, <1>7, ThreadTypes DEF DetachedCount
  <2> DEFINE t == [todo |-> Tail(detached[i].todo), stage |-> "call"]
  <2>2. t \in Thread /\ t.todo = Tail(detached[i].todo)
    BY <2>1, HeadTailProperties DEF Thread
  <2>3. detached' = [detached EXCEPT ![i] = t] /\ m_callbacks_running' = m_callbacks_running - 1
    BY <1>7 DEF DetachedCount
  <2> HIDE DEF t
  <2>4. /\ IsFiniteSet(Owed(detached'))
        /\ Cardinality(Owed(detached')) = Cardinality(Owed(detached)) - 1
    BY <1>0, <1>q, <2>1, <2>2, <2>3, OwedTail
  <2>5. InCallback' = InCallback
    BY <1>7 DEF DetachedCount, InCallback
  <2> QED BY <1>0, <1>q, <2>3, <2>4, <2>5
<1>8. ASSUME NEW i \in DOMAIN detached, DetachedNotify(i)
      PROVE  /\ IsFiniteSet(Owed(detached'))
             /\ m_callbacks_running' = (IF InCallback' THEN 1 ELSE 0) + Cardinality(Owed(detached'))
  <2>1. i \in 1..Len(detached) /\ detached[i].todo = <<>> /\ detached' = RemoveAt(detached, i)
    BY <1>0, <1>8, ThreadTypes DEF DetachedNotify
  <2>2. IsFiniteSet(Owed(detached')) /\ Cardinality(Owed(detached')) = Cardinality(Owed(detached))
    BY <1>0, <1>q, <2>1, OwedRemove
  <2>3. InCallback' = InCallback /\ UNCHANGED m_callbacks_running
    BY <1>8 DEF DetachedNotify, InCallback
  <2> QED BY <1>0, <2>2, <2>3
<1>9. CASE Send \/ CallSyncCommit \/ SyncCommit \/ TryCommit \/ UserClear \/ Wait \/ Block
           \/ Serve \/ Drop \/ Spurious
  BY <1>1, <1>9 DEF Send, CallSyncCommit, SyncCommit, TryCommit, UserClear, Wait, Block, Serve,
     Drop, Spurious, InCallback
<1>10. CASE Read \/ Write \/ Disconnect \/ Lost \/ HandlerClear \/ StrayEvent \/ ReceiveCall
  BY <1>1, <1>10 DEF Read, Write, Disconnect, Lost, HandlerClear, StrayEvent, ReceiveCall, InCallback
<1> QED BY <1>3, <1>4, <1>5, <1>6, <1>7, <1>8, <1>9, <1>10
        DEF Next, UserStep, IoStep, DetachedStep

-----------------------------------------------------------------------------
(***************************************************************************)
(* No command is forgotten.                                                  *)
(***************************************************************************)
LEMMA InAppend ==
  ASSUME NEW q \in Seq(Commands), NEW e \in Commands
  PROVE  In(e, Append(q, e)) /\ \A c : In(c, q) => In(c, Append(q, e))
<1>1. /\ Len(q) \in Nat /\ Len(Append(q, e)) = Len(q) + 1
      /\ \A i \in 1..Len(q) : Append(q, e)[i] = q[i]
      /\ Append(q, e)[Len(q) + 1] = e
  BY AppendProperties, LenProperties
<1> QED BY <1>1 DEF In

LEMMA InTail ==
  ASSUME NEW q \in Seq(Commands), q # <<>>, NEW c, In(c, q)
  PROVE  c = Head(q) \/ In(c, Tail(q))
<1>1. /\ Len(q) \in Nat \ {0} /\ Len(Tail(q)) = Len(q) - 1 /\ Head(q) = q[1]
      /\ \A i \in 1..Len(Tail(q)) : Tail(q)[i] = q[i + 1]
  BY EmptySeq, HeadTailProperties
<1>2. PICK i \in 1..Len(q) : q[i] = c
  BY DEF In
<1>3. CASE i = 1
  BY <1>1, <1>2, <1>3
<1>4. CASE i # 1
  <2>1. i - 1 \in 1..Len(Tail(q)) /\ (i - 1) + 1 = i
    BY <1>1, <1>4
  <2>2. Tail(q)[i - 1] = c
    BY <1>1, <1>2, <2>1
  <2> QED BY <2>1, <2>2 DEF In
<1> QED BY <1>3, <1>4

LEMMA InEmpty == \A c : ~In(c, <<>>)
BY DEF In

\* The callback of c is in the hands of a detached thread.
Detached(c, d) == \E i \in 1..Len(d) : In(c, d[i].todo)

LEMMA AccountedStep ==
  ASSUME ClientInv, Next
  PROVE  Accounted'
<1> USE DEF userVars, ioVars, clientVars, netVars
<1>0. TypeOK /\ Stages /\ Copied
  BY DEF ClientInv
<1>q. /\ m_commands \in Seq(Commands) /\ ucopy \in Seq(Commands) /\ iocopy \in Seq(Commands)
      /\ detached \in Seq(Thread) /\ Len(detached) \in Nat /\ sent \in Nat
      /\ DOMAIN detached = 1..Len(detached)
  BY <1>0, QueueTypes
<1>a. \A c \in 1..sent : answer[c] # "none" \/ In(c, m_commands) \/ iocur = c \/ Detached(c, detached)
  BY DEF ClientInv, Accounted, Detached
<1> SUFFICES ASSUME NEW c \in 1..sent'
             PROVE  \/ answer'[c] # "none" \/ In(c, m_commands') \/ iocur' = c
                    \/ Detached(c, detached')
  BY DEF Accounted, Detached
<1>1. CASE UNCHANGED <<sent, answer, m_commands, iocur, detached>>
  BY <1>1, <1>a
<1>2. CASE Send
  <2>1. sent + 1 \in Commands
    BY <1>0, <1>2, ClientAssumption DEF Send, Commands, TypeOK
  <2>2. /\ m_commands' = Append(m_commands, sent + 1) /\ sent' = sent + 1
        /\ UNCHANGED <<answer, iocur, detached>>
    BY <1>2 DEF Send
  <2>3. c \in 1..sent \/ c = sent + 1
    BY <1>q, <2>2
  <2> QED BY <1>a, <1>q, <2>1, <2>2, <2>3, InAppend
<1>3. ASSUME NEW q \in Seq(Commands), Detach(q), UNCHANGED <<sent, answer, iocur>>,
             \A e \in Commands : In(e, m_commands) => In(e, q)
      PROVE  answer'[c] # "none" \/ iocur' = c \/ Detached(c, detached')
  <2>1. /\ Len(detached') = Len(detached) + 1
        /\ \A i \in 1..Len(detached) : detached'[i] = detached[i]
        /\ detached'[Len(detached) + 1] = [todo |-> q, stage |-> "call"]
    BY <1>0, <1>3, DetachTypes
  <2>2. c \in 1..sent /\ c \in Commands
    BY <1>0, <1>3, ClientAssumption DEF TypeOK, Commands
  <2>3. CASE In(c, m_commands)
    <3>1. In(c, q)
      BY <1>3, <2>2, <2>3
    <3>2. Len(detached) + 1 \in 1..Len(detached')
      BY <1>q, <2>1
    <3> QED BY <2>1, <3>1, <3>2 DEF Detached
  <2>4. CASE Detached(c, detached)
    <3>1. PICK i \in 1..Len(detached) : In(c, detached[i].todo)
      BY <2>4 DEF Detached
    <3>2. i \in 1..Len(detached') /\ detached'[i] = detached[i]
      BY <1>q, <2>1
    <3> QED BY <3>1, <3>2 DEF Detached
  <2> QED BY <1>a, <1>3, <2>2, <2>3, <2>4
<1>4. CASE UserMove
  BY <1>0, <1>q, <1>3, <1>4 DEF UserMove, Copied
<1>5. CASE HandlerMove
  BY <1>0, <1>q, <1>3, <1>5 DEF HandlerMove, Copied
<1>6. CASE ReceivePop
  <2>1. UNCHANGED <<sent, answer, detached>> /\ c \in 1..sent
    BY <1>6 DEF ReceivePop
  <2>2. iocur = None /\ c # None
    BY <1>0, <1>6, <2>1, ClientAssumption DEF ReceivePop, Stages, TypeOK
  <2>3. CASE m_commands = <<>>
    BY <1>a, <2>1, <2>2, <2>3, InEmpty
  <2>4. CASE m_commands # <<>>
    <3>1. iocur' = Head(m_commands) /\ m_commands' = Tail(m_commands)
      BY <1>6, <2>4 DEF ReceivePop
    <3> QED BY <1>a, <1>q, <2>1, <2>2, <2>4, <3>1, InTail
  <2> QED BY <2>3, <2>4
<1>7. CASE ReceiveCall
  <2>1. UNCHANGED <<sent, m_commands, detached>> /\ c \in 1..sent /\ c \in Commands
    BY <1>0, <1>7, ClientAssumption DEF ReceiveCall, TypeOK, Commands
  <2>2. iocur = c => answer'[c] # "none"
    BY <1>0, <1>7, <2>1, ClientAssumption DEF ReceiveCall, Answered, TypeOK, Commands
  <2>3. answer[c] # "none" => answer'[c] # "none"
    BY <1>0, <1>7, <2>1 DEF ReceiveCall, Answered, TypeOK
  <2> QED BY <1>a, <2>1, <2>2, <2>3
<1>8. ASSUME NEW i \in DOMAIN detached, DetachedCall(i)
      PROVE  answer'[c] # "none" \/ In(c, m_commands') \/ iocur' = c \/ Detached(c, detached')
  <2>1. /\ UNCHANGED <<sent, m_commands, iocur>> /\ c \in 1..sent /\ c \in Commands
        /\ i \in 1..Len(detached) /\ detached[i] \in Thread
    BY <1>0, <1>8, ThreadTypes, ClientAssumption DEF DetachedCall, TypeOK, Commands
  <2>2. answer[c] # "none" => answer'[c] # "none"
    BY <1>0, <1>8, <2>1 DEF DetachedCall, TypeOK
  <2>3. Detached(c, detached) => Detached(c, detached')
    <3>1. CASE detached' = [detached EXCEPT ![i].stage = "count"]
      <4> DEFINE t == [detached[i] EXCEPT !.stage = "count"]
      <4>1. t \in Thread /\ t.todo = detached[i].todo
        BY <2>1 DEF Thread
      <4>2. /\ Len(detached') = Len(detached)
            /\ \A j \in 1..Len(detached) : detached'[j] = IF j = i THEN t ELSE detached[j]
        <5>1. detached' = [detached EXCEPT ![i] = t]
          BY <3>1
        <5> HIDE DEF t
        <5> QED BY <1>q, <2>1, <4>1, <5>1, ExceptSeq
      <4> HIDE DEF t
      <4>3. \A j \in 1..Len(detached) : detached'[j].todo = detached[j].todo
        BY <4>1, <4>2
      <4> QED BY <4>2, <4>3 DEF Detached
    <3>2. CASE UNCHANGED detached
      BY <3>2
    <3> QED BY <1>8, <3>1, <3>2 DEF DetachedCall
  <2> QED BY <1>a, <2>1, <2>2, <2>3
<1>9. ASSUME NEW i \in DOMAIN detached, DetachedCount(i)
      PROVE  answer'[c] # "none" \/ In(c, m_commands') \/ iocur' = c \/ Detached(c, detached')
  <2>1. /\ UNCHANGED <<sent, m_commands, iocur, answer>> /\ c \in 1..sent
        /\ i \in 1..Len(detached) /\ detached[i].todo \in Seq(Commands) /\ detached[i].todo # <<>>
        /\ Head(detached[i].todo) = detached[i].todo[1]
    BY <1>0, <1>9, ThreadTypes DEF DetachedCount
  <2>2. answer[Head(detached[i].todo)] # "none"
    BY <1>0, <1>9, <2>1 DEF DetachedCount, Copied
  <2> DEFINE t == [todo |-> Tail(detached[i].todo), stage |-> "call"]
  <2>3. t \in Thread /\ t.todo = Tail(detached[i].todo)
    BY <2>1, HeadTailProperties DEF Thread
  <2>4. /\ Len(detached') = Len(detached)
        /\ \A j \in 1..Len(detached) : detached'[j] = IF j = i THEN t ELSE detached[j]
    <3>1. detached' = [detached EXCEPT ![i] = t]
      BY <1>9 DEF DetachedCount
    <3> HIDE DEF t
    <3> QED BY <1>q, <2>1, <2>3, <3>1, ExceptSeq
  <2> HIDE DEF t
  <2>5. ASSUME Detached(c, detached) PROVE answer[c] # "none" \/ Detached(c, detached')
    <3>1. PICK j \in 1..Len(detached) : In(c, detached[j].todo)
      BY <2>5 DEF Detached
    <3>2. CASE j # i
      <4>1. detached'[j] = detached[j]
        BY <2>4, <3>2
      <4> QED BY <2>4, <3>1, <4>1 DEF Detached
    <3>3. CASE j = i
      <4>1. c = Head(detached[i].todo) \/ In(c, t.todo)
        BY <2>1, <2>3, <3>1, <3>3, InTail
      <4>2. detached'[i] = t
        BY <2>1, <2>4
      <4> QED BY <2>1, <2>2, <2>4, <4>1, <4>2 DEF Detached
    <3> QED BY <3>2, <3>3
  <2> QED BY <1>a, <2>1, <2>5
<1>10. ASSUME NEW i \in DOMAIN detached, DetachedNotify(i)
       PROVE  answer'[c] # "none" \/ In(c, m_commands') \/ iocur' = c \/ Detached(c, detached')
  <2>1. /\ UNCHANGED <<sent, m_commands, iocur, answer>> /\ c \in 1..sent
        /\ i \in 1..Len(detached) /\ detached[i].todo = <<>>
        /\ detached' = RemoveAt(detached, i)
    BY <1>0, <1>10, ThreadTypes DEF DetachedNotify
  <2>2. /\ Len(detached') = Len(detached) - 1
        /\ \A j \in 1..Len(detached) - 1 :
             detached'[j] = IF j < i THEN detached[j] ELSE detached[j + 1]
    BY <1>q, <2>1, RemoveAtProperties
  <2>3. ASSUME Detached(c, detached) PROVE Detached(c, detached')
    <3>1. PICK j \in 1..Len(detached) : In(c, detached[j].todo)
      BY <2>3 DEF Detached
    <3>2. j # i
      BY <2>1, <3>1, InEmpty
    <3>3. CASE j < i
      <4>1. j \in 1..Len(detached) - 1
        BY <1>q, <2>1, <3>3
      <4>2. j \in 1..Len(detached') /\ detached'[j] = detached[j]
        BY <2>2, <3>3, <4>1
      <4> QED BY <3>1, <4>2 DEF Detached
    <3>4. CASE ~(j < i)
      <4>1. j - 1 \in 1..Len(detached') /\ ~(j - 1 < i) /\ (j - 1) + 1 = j
        BY <1>q, <2>1, <2>2, <3>2, <3>4
      <4>2. detached'[j - 1] = detached[j]
        BY <2>2, <4>1
      <4> QED BY <3>1, <4>1, <4>2 DEF Detached
    <3> QED BY <3>3, <3>4
  <2> QED BY <1>a, <2>1, <2>3
<1>11. CASE CallSyncCommit \/ SyncCommit \/ TryCommit \/ UserClear \/ Wait \/ Block
            \/ Serve \/ Drop \/ Spurious
  BY <1>1, <1>11 DEF CallSyncCommit, SyncCommit, TryCommit, UserClear, Wait, Block, Serve,
     Drop, Spurious
<1>12. CASE Read \/ Write \/ Disconnect \/ Lost \/ HandlerClear \/ StrayEvent \/ ReceiveDone
  BY <1>1, <1>12 DEF Read, Write, Disconnect, Lost, HandlerClear, StrayEvent, ReceiveDone
<1> QED BY <1>2, <1>4, <1>5, <1>6, <1>7, <1>8, <1>9, <1>10, <1>11, <1>12
        DEF Next, UserStep, IoStep, DetachedStep


\* An answer is never taken back.
LEMMA AnswersStay ==
  ASSUME TypeOK, Next, NEW c \in Commands, answer[c] # "none"
  PROVE  answer'[c] # "none"
<1> USE DEF userVars, ioVars, clientVars, netVars
<1>1. CASE ReceiveCall
  BY <1>1 DEF ReceiveCall, Answered, TypeOK
<1>2. ASSUME NEW i \in DOMAIN detached, DetachedCall(i) PROVE answer'[c] # "none"
  BY <1>2 DEF DetachedCall, TypeOK
<1>3. CASE UNCHANGED answer
  BY <1>3
<1> QED BY <1>1, <1>2, <1>3 DEF Next, Send, CallSyncCommit, UserStep, SyncCommit, TryCommit,
     UserClear, UserMove, Wait, Block, IoStep, Read, Write, Disconnect, ReceivePop, ReceiveDone,
     Lost, HandlerClear, HandlerMove, StrayEvent, DetachedStep, DetachedCount, DetachedNotify,
     Serve, Drop, Spurious

LEMMA CopiesStep ==
  ASSUME ClientInv, Next
  PROVE  /\ upc' = "move"  => \A c \in Commands : In(c, m_commands') => In(c, ucopy')
         /\ iopc' = "move" => \A c \in Commands : In(c, m_commands') => In(c, iocopy')
<1> USE DEF userVars, ioVars, clientVars, netVars
<1>0. /\ Stages
      /\ upc = "move"  => \A c \in Commands : In(c, m_commands) => In(c, ucopy)
      /\ iopc = "move" => \A c \in Commands : In(c, m_commands) => In(c, iocopy)
  BY DEF ClientInv, Copied
<1>1. CASE /\ UNCHANGED <<m_commands, ucopy, iocopy>>
           /\ upc' = "move" => upc = "move"
           /\ iopc' = "move" => iopc = "move"
  BY <1>0, <1>1
<1>2. CASE Send
  <2>1. upc' # "move" /\ iopc' # "move"
    BY <1>0, <1>2, ClientAssumption DEF Send, Stages
  <2> QED BY <2>1
<1>3. CASE UserClear
  BY <1>0, <1>3 DEF UserClear
<1>4. CASE UserMove \/ HandlerMove
  BY <1>4, InEmpty DEF UserMove, HandlerMove, Detach
<1>5. CASE HandlerClear
  BY <1>0, <1>5 DEF HandlerClear
<1>6. CASE ReceivePop
  <2>1. upc' # "move" /\ iopc' # "move"
    BY <1>0, <1>6 DEF ReceivePop, Stages
  <2> QED BY <2>1
<1>7. CASE CallSyncCommit \/ SyncCommit \/ TryCommit \/ Wait \/ Block \/ Serve \/ Drop \/ Spurious
  BY <1>1, <1>7 DEF CallSyncCommit, SyncCommit, TryCommit, Wait, Block, Serve, Drop, Spurious
<1>8. CASE Read \/ Write \/ Disconnect \/ Lost \/ StrayEvent \/ ReceiveCall
  BY <1>1, <1>8 DEF Read, Write, Disconnect, Lost, StrayEvent, ReceiveCall
<1>9. CASE ReceiveDone \/ DetachedStep
  BY <1>1, <1>9 DEF ReceiveDone, DetachedStep, DetachedCall, DetachedCount, DetachedNotify, NotifyAll
<1> QED BY <1>2, <1>3, <1>4, <1>5, <1>6, <1>7, <1>8, <1>9 DEF Next, UserStep, IoStep

\* Thread t has called the callback it is about to count.
Called(t, a) == t.stage = "count" => t.todo # <<>> /\ a[t.todo[1]] # "none"

LEMMA CopiedStep ==
  ASSUME ClientInv, Next
  PROVE  Copied'
<1> USE DEF userVars, ioVars, clientVars, netVars
<1>0. TypeOK
  BY DEF ClientInv
<1>q. /\ detached \in Seq(Thread) /\ Len(detached) \in Nat /\ DOMAIN detached = 1..Len(detached)
      /\ ucopy \in Seq(Commands) /\ iocopy \in Seq(Commands)
  BY <1>0, QueueTypes
<1>a. \A i \in 1..Len(detached) : Called(detached[i], answer')
  <2> SUFFICES ASSUME NEW i \in 1..Len(detached), detached[i].stage = "count"
               PROVE  detached[i].todo # <<>> /\ answer'[detached[i].todo[1]] # "none"
    BY DEF Called
  <2>1. detached[i].todo # <<>> /\ answer[detached[i].todo[1]] # "none"
    BY DEF ClientInv, Copied
  <2>2. detached[i].todo[1] \in Commands
    BY <1>0, <1>q, <2>1, ThreadTypes
  <2> QED BY <1>0, <2>1, <2>2, AnswersStay
<1> SUFFICES ASSUME NEW i \in 1..Len(detached')
             PROVE  Called(detached'[i], answer')
  BY CopiesStep DEF Copied, Called
<1>1. CASE UNCHANGED detached
  BY <1>1, <1>a
<1>2. CASE UserMove \/ HandlerMove
  <2>1. PICK q \in Seq(Commands) : Detach(q)
    BY <1>2, <1>q DEF UserMove, HandlerMove
  <2>2. /\ Len(detached') = Len(detached) + 1
        /\ \A j \in 1..Len(detached) : detached'[j] = detached[j]
        /\ detached'[Len(detached) + 1] = [todo |-> q, stage |-> "call"]
    BY <1>0, <2>1, DetachTypes
  <2>3. CASE i \in 1..Len(detached)
    BY <1>a, <2>2, <2>3
  <2>4. CASE i = Len(detached) + 1
    BY <2>2, <2>4 DEF Called
  <2> QED BY <1>q, <2>2, <2>3, <2>4
<1>3. ASSUME NEW j \in DOMAIN detached, DetachedCall(j) PROVE Called(detached'[i], answer')
  <2>1. /\ j \in 1..Len(detached) /\ detached[j] \in Thread /\ detached[j].todo # <<>>
        /\ Head(detached[j].todo) = detached[j].todo[1] /\ Head(detached[j].todo) \in Commands
    BY <1>0, <1>3, ThreadTypes DEF DetachedCall
  <2>2. CASE detached' = [detached EXCEPT ![j].stage = "count"]
             /\ answer' = [answer EXCEPT ![Head(detached[j].todo)] = "failure"]
    <3> DEFINE t == [detached[j] EXCEPT !.stage = "count"]
    <3>1. t \in Thread /\ t.todo = detached[j].todo
      BY <2>1 DEF Thread
    <3>2. /\ Len(detached') = Len(detached)
          /\ \A l \in 1..Len(detached) : detached'[l] = IF l = j THEN t ELSE detached[l]
      <4>1. detached' = [detached EXCEPT ![j] = t]
        BY <2>2
      <4> HIDE DEF t
      <4> QED BY <1>q, <2>1, <3>1, <4>1, ExceptSeq
    <3>3. Called(t, answer')
      <4>1. answer'[Head(detached[j].todo)] = "failure"
        BY <1>0, <2>1, <2>2 DEF TypeOK
      <4> QED BY <2>1, <3>1, <4>1 DEF Called
    <3> HIDE DEF t
    <3> QED BY <1>a, <3>2, <3>3
  <2> QED BY <1>1, <1>3, <2>2 DEF DetachedCall
<1>4. ASSUME NEW j \in DOMAIN detached, DetachedCount(j) PROVE Called(detached'[i], answer')
  <2>1. j \in 1..Len(detached) /\ detached[j].todo \in Seq(Commands) /\ detached[j].todo # <<>>
    BY <1>0, <1>4, ThreadTypes DEF DetachedCount
  <2> DEFINE t == [todo |-> Tail(detached[j].todo), stage |-> "call"]
  <2>2. t \in Thread
    BY <2>1, HeadTailProperties DEF Thread
  <2>3. Called(t, answer')
    BY DEF Called
  <2>4. detached' = [detached EXCEPT ![j] = t]
    BY <1>4 DEF DetachedCount
  <2> HIDE DEF t
  <2>5. /\ Len(detached') = Len(detached)
        /\ \A l \in 1..Len(detached) : detached'[l] = IF l = j THEN t ELSE detached[l]
    BY <1>q, <2>1, <2>2, <2>4, ExceptSeq
  <2> QED BY <1>a, <2>3, <2>5
<1>5. ASSUME NEW j \in DOMAIN detached, DetachedNotify(j) PROVE Called(detached'[i], answer')
  <2>1. j \in 1..Len(detached) /\ detached' = RemoveAt(detached, j)
    BY <1>0, <1>5, ThreadTypes DEF DetachedNotify
  <2>2. /\ Len(detached') = Len(detached) - 1
        /\ \A l \in 1..Len(detached) - 1 :
             detached'[l] = IF l < j THEN detached[l] ELSE detached[l + 1]
    BY <1>q, <2>1, RemoveAtProperties
  <2>3. i \in 1..Len(detached) - 1 /\ i \in 1..Len(detached) /\ i + 1 \in 1..Len(detached)
    BY <1>q, <2>2
  <2> QED BY <1>a, <2>2, <2>3
<1>6. CASE Send \/ CallSyncCommit \/ SyncCommit \/ TryCommit \/ UserClear \/ Wait \/ Block
           \/ Serve \/ Drop \/ Spurious
  BY <1>1, <1>6 DEF Send, CallSyncCommit, SyncCommit, TryCommit, UserClear, Wait, Block, Serve,
     Drop, Spurious
<1>7. CASE Read \/ Write \/ Disconnect \/ ReceivePop \/ ReceiveCall \/ ReceiveDone \/ Lost
           \/ HandlerClear \/ StrayEvent
  BY <1>1, <1>7 DEF Read, Write, Disconnect, ReceivePop, ReceiveCall, ReceiveDone, Lost,
     HandlerClear, StrayEvent
<1> QED BY <1>2, <1>3, <1>4, <1>5, <1>6, <1>7 DEF Next, UserStep, IoStep, DetachedStep

-----------------------------------------------------------------------------
(***************************************************************************)
(* The theorems.                                                             *)
(***************************************************************************)
LEMMA ClientInit ==
  ASSUME Init
  PROVE  ClientInv
<1> USE ClientAssumption DEF Init
<1>1. TypeOK
  <2>1. <<>> \in Seq(Commands) /\ <<>> \in Seq(Thread)
    BY EmptySeq
  <2>2. answer \in [Commands -> {"none", "reply", "failure", "foreign"}]
    OBVIOUS
  <2>3. /\ m_reconnecting \in BOOLEAN /\ connected \in BOOLEAN /\ stray \in BOOLEAN
        /\ line \in BOOLEAN /\ aborted \in BOOLEAN
    OBVIOUS
  <2> QED BY <2>1, <2>2, <2>3 DEF TypeOK
<1>2. Stages /\ OwnReply /\ Copied /\ Accounted
  BY DEF Stages, OwnReply, Copied, Accounted
<1>3. Pipeline
  <2>1. Len(<<>>) = 0
    BY EmptySeq
  <2>2. Consumed = 0
    <3>1. sent = 0 /\ Len(m_commands) = 0 /\ iopc # "call"
      BY <2>1
    <3>2. Consumed = sent - Len(m_commands) - 0
      BY <3>1 DEF Consumed
    <3> HIDE DEF Init
    <3>3. \A x, y \in Int : x = 0 /\ y = 0 => x - y - 0 = 0
      OBVIOUS
    <3> QED BY <3>1, <3>2, <3>3
  <2> QED BY <2>1, <2>2, ConsecutiveEmpty DEF Pipeline
<1>4. Counted
  <2>1. Owed(detached) = {}
    BY DEF Owed
  <2> QED BY <2>1, FS_EmptySet DEF Counted, RunningCounted
<1> QED BY <1>1, <1>2, <1>3, <1>4 DEF ClientInv

LEMMA ClientStep ==
  ASSUME ClientInv, [Next]_vars
  PROVE  ClientInv'
<1>1. CASE Next
  BY <1>1, TypeStep, StagesStep, PipelineStep, OwnReplyStep, CountedStep, AccountedStep, CopiedStep
     DEF ClientInv
<1>2. CASE UNCHANGED vars
  <2> USE <1>2 DEF vars, userVars, ioVars, clientVars, netVars, ClientInv
  <2>1. TypeOK'
    BY DEF TypeOK
  <2>2. Stages' /\ OwnReply' /\ Copied' /\ Accounted'
    BY DEF Stages, OwnReply, Copied, Accounted
  <2>3. Pipeline' /\ Counted'
    BY DEF Pipeline, Consumed, Counted, RunningCounted
  <2> QED BY <2>1, <2>2, <2>3
<1> QED BY <1>1, <1>2

\* The queues between the user thread, the worker, the server and the detached
\* threads of clear_callbacks stay consistent, with any number of commands.
THEOREM ClientInvariant == Spec => []ClientInv
<1>1. Init => ClientInv
  BY ClientInit
<1>2. ClientInv /\ [Next]_vars => ClientInv'
  BY ClientStep
<1> QED BY <1>1, <1>2, PTL DEF Spec

\* Every variable of the client keeps its type; in particular the unsigned
\* m_callbacks_running, decremented by the worker and by threads without a
\* lock, never wraps below zero.
THEOREM ClientTypeCorrect == Spec => []TypeOK
<1>1. ClientInv => TypeOK
  BY DEF ClientInv
<1> QED BY <1>1, ClientInvariant, PTL

\* However the replies are cut into packets and whenever the connection
\* breaks, connection_receive_handler never gives a future the reply to
\* another command.
THEOREM RepliesMatch == Spec => []OwnReply
<1>1. ClientInv => OwnReply
  BY DEF ClientInv
<1> QED BY <1>1, ClientInvariant, PTL

\* m_callbacks_running is exactly the number of callbacks that were taken out
\* of the queue and have not returned.
THEOREM RunningExact == Spec => []RunningCounted
<1>1. ClientInv => RunningCounted
  BY DEF ClientInv, Counted
<1> QED BY <1>1, ClientInvariant, PTL

\* A sync_commit that returns leaves no command without an answer, although
\* clear_callbacks empties the queue and counts its callbacks in two steps.
THEOREM SyncComplete == Spec => SyncIsComplete
<1>1. ClientInv /\ [Next]_vars =>
        [upc = "wait" /\ upc' = "idle" => \A c \in 1..sent : answer[c] # "none"]_vars
  <2> SUFFICES ASSUME ClientInv, Next, upc = "wait", upc' = "idle", NEW c \in 1..sent
               PROVE  answer[c] # "none"
    OBVIOUS
  <2> USE DEF userVars, ioVars, clientVars, netVars
  <2>1. Wait
    BY DEF Next, Send, CallSyncCommit, UserStep, SyncCommit, TryCommit, UserClear, UserMove, Block,
       IoStep, Read, Write, Disconnect, ReceivePop, ReceiveCall, ReceiveDone, Lost, HandlerClear,
       HandlerMove, StrayEvent, DetachedStep, DetachedCall, DetachedCount, DetachedNotify,
       NotifyAll, Serve, Drop, Spurious
  <2>2. m_callbacks_running = 0 /\ m_commands = <<>>
    BY <2>1 DEF Wait, AllDone
  <2>3. TypeOK /\ Stages /\ Counted /\ Accounted
    BY DEF ClientInv
  <2>4. iocur # c
    BY <2>2, <2>3, CounterTypes, ClientAssumption DEF Stages, TypeOK
  <2>5. \A i \in 1..Len(detached) : detached[i].todo = <<>>
    <3>1. DOMAIN detached = 1..Len(detached)
      BY <2>3, QueueTypes
    <3>2. ~(m_callbacks_running > 0)
      BY <2>2
    <3> QED BY <2>3, <3>1, <3>2, CounterTypes
  <2> QED BY <2>2, <2>3, <2>4, <2>5, InEmpty DEF Accounted
<1> QED BY <1>1, ClientInvariant, PTL DEF Spec, SyncIsComplete

=============================================================================
