---------------------------- MODULE TimeoutQueue ----------------------------
(***************************************************************************)
(* The process-wide queue of timed events: class TimeoutQueue               *)
(* (include/timeout-queue.h, src/timeout-queue.cc).  PushEvent enters an     *)
(* event with a timeout; a pool of workers takes the events out in the order *)
(* of their timeouts, sleeps until the timeout, calls the event's function   *)
(* and enters the event again when the function returned true.               *)
(*                                                                         *)
(* The mutex mtx_ and the condition variables new_event_ and all_done_ are   *)
(* explicit: evaluating the predicate of a wait and falling asleep are two   *)
(* steps, because Quit stores quit_ and notifies without holding mtx_.       *)
(* Condition variables may wake up spuriously.                               *)
(*                                                                         *)
(* Definitions named X_What are variants of X with a plausible bug; no       *)
(* specification uses them.                                                 *)
(***************************************************************************)
EXTENDS Integers, FiniteSets

CONSTANTS
  Workers,     \* threads_
  Events,      \* the events that are pushed, each once
  Duration,    \* the timeout_duration of each, which is also its period
  MaxLate,     \* bound: how late an event may be when the clock goes on
  Client,      \* the thread that calls WaitUntilAllDone
  None         \* no thread and no event

ASSUME QueueAssumption ==
  /\ IsFiniteSet(Workers)
  /\ Duration \in [Events -> Nat]
  /\ MaxLate \in Nat
  /\ None \notin Workers \cup Events \cup {Client}
  /\ Client \notin Workers

VARIABLES
  time_out_queue,        \* time_out_queue_, the events in it
  left,                  \* time left until each event's timeout; below 0, how
                         \* long ago it was
  mtx,                   \* the thread that holds mtx_, or None
  events_out_of_queue,   \* events_out_of_queue_
  quit,                  \* quit_
  wpc,                   \* where each worker is
  hand,                  \* the node it has extracted, or None
  closing,               \* progress of ~TimeoutQueue
  waiter,                \* where the client is in WaitUntilAllDone
  alive                  \* events pushed whose function has not returned false

vars == <<time_out_queue, left, mtx, events_out_of_queue, quit, wpc, hand,
          closing, waiter, alive>>

WorkerPC == {"top", "lock",
             "block", "asleep", "awake",               \* new_event_.wait
             "wait", "tblock", "tasleep", "tawake",    \* new_event_.wait_until
             "run", "relock", "done"}

TypeOK ==
  /\ time_out_queue \in SUBSET Events
  /\ left \in [Events -> Int]
  /\ mtx \in Workers \cup {Client, None}
  /\ events_out_of_queue \in Nat
  /\ quit \in BOOLEAN
  /\ wpc \in [Workers -> WorkerPC]
  /\ hand \in [Workers -> Events \cup {None}]
  /\ closing \in {"no", "stored", "joining", "joined"}
  /\ waiter \in {"out", "asleep", "awake", "returned"}
  /\ alive \in SUBSET Events

Init ==
  /\ time_out_queue = {}
  /\ left = [e \in Events |-> 0]
  /\ mtx = None
  /\ events_out_of_queue = 0
  /\ quit = FALSE
  /\ wpc = [w \in Workers |-> "top"]
  /\ hand = [w \in Workers |-> None]
  /\ closing = "no"
  /\ waiter = "out"
  /\ alive = {}

-----------------------------------------------------------------------------
(***************************************************************************)
(* Condition variables.  f is the worker control state to notify in.         *)
(***************************************************************************)
Sleepers(f) == {w \in Workers : f[w] \in {"asleep", "tasleep"}}

Woken(l) == CASE l = "asleep"  -> "awake"
              [] l = "tasleep" -> "tawake"
              [] OTHER         -> l

\* new_event_.notify_one(): one of the threads waiting, whichever wait it is in.
NotifyOne(f) ==
  IF Sleepers(f) = {} THEN wpc' = f
  ELSE \E w \in Sleepers(f) : wpc' = [f EXCEPT ![w] = Woken(f[w])]

\* new_event_.notify_all()
NotifyAll == wpc' = [w \in Workers |-> Woken(wpc[w])]

Goto(w, l) == wpc' = [wpc EXCEPT ![w] = l]

\* time_out_queue_.begin(): an event with the least timeout
First(e) == e \in time_out_queue /\ \A d \in time_out_queue : left[e] <= left[d]

\* The predicate of wait_until: a node in the queue times out earlier.
Earlier(e) == \E d \in time_out_queue : left[d] < left[e]

-----------------------------------------------------------------------------
(***************************************************************************)
(* Worker().                                                                *)
(***************************************************************************)

\* while (!quit_.load())
Top(w) ==
  /\ wpc[w] = "top"
  /\ Goto(w, IF quit THEN "done" ELSE "lock")
  /\ UNCHANGED <<time_out_queue, left, mtx, events_out_of_queue, quit, hand,
                 closing, waiter, alive>>

\* From the test of quit_ after new_event_.wait on: extract the first node.
Take(w) ==
  IF quit
  THEN /\ Goto(w, "done")
       /\ mtx' = None
       /\ UNCHANGED <<time_out_queue, events_out_of_queue, hand>>
  ELSE \E e \in time_out_queue :
         /\ First(e)
         /\ Goto(w, "wait")
         /\ mtx' = w
         /\ hand' = [hand EXCEPT ![w] = e]
         /\ time_out_queue' = time_out_queue \ {e}
         /\ events_out_of_queue' = events_out_of_queue + 1

\* Variant for mutation: all_done_ is not notified.
Lock_Silent(w) ==
  /\ wpc[w] = "lock" /\ mtx = None
  /\ IF time_out_queue = {} /\ ~quit
     THEN /\ Goto(w, "block")
          /\ mtx' = w
          /\ UNCHANGED <<time_out_queue, events_out_of_queue, hand>>
     ELSE Take(w)
  /\ UNCHANGED <<left, quit, closing, waiter, alive>>

\* Lock mtx_.  With an empty queue tell the threads in WaitUntilAllDone when no
\* node is out, and wait: the predicate is false unless quit_ was stored.
Lock(w) ==
  /\ wpc[w] = "lock" /\ mtx = None
  /\ waiter' = IF time_out_queue = {} /\ events_out_of_queue = 0 /\ waiter = "asleep"
               THEN "awake" ELSE waiter
  /\ IF time_out_queue = {} /\ ~quit
     THEN /\ Goto(w, "block")
          /\ mtx' = w
          /\ UNCHANGED <<time_out_queue, events_out_of_queue, hand>>
     ELSE Take(w)
  /\ UNCHANGED <<left, quit, closing, alive>>

\* The predicate was false: release mtx_ and fall asleep, in one step.
Block(w) ==
  /\ wpc[w] \in {"block", "tblock"}
  /\ Goto(w, IF wpc[w] = "block" THEN "asleep" ELSE "tasleep")
  /\ mtx' = None
  /\ UNCHANGED <<time_out_queue, left, events_out_of_queue, quit, hand, closing,
                 waiter, alive>>

\* Awake in new_event_.wait: lock mtx_ and evaluate the predicate again.
Awake(w) ==
  /\ wpc[w] = "awake" /\ mtx = None
  /\ IF time_out_queue = {} /\ ~quit
     THEN /\ Goto(w, "block")
          /\ mtx' = w
          /\ UNCHANGED <<time_out_queue, events_out_of_queue, hand>>
     ELSE Take(w)
  /\ UNCHANGED <<left, quit, closing, waiter, alive>>

\* The timeout of wait_until.
Timeout(w) ==
  /\ wpc[w] = "tasleep" /\ left[hand[w]] <= 0
  /\ Goto(w, "tawake")
  /\ UNCHANGED <<time_out_queue, left, mtx, events_out_of_queue, quit, hand,
                 closing, waiter, alive>>

\* Variant for mutation: whoever leaves wait_until calls the function, without
\* comparing the timeout with the clock.
WaitUntil_NoClock(w) ==
  /\ (wpc[w] = "wait" /\ mtx = w) \/ (wpc[w] = "tawake" /\ mtx = None)
  /\ LET e == hand[w] IN
     \/ /\ ~quit /\ (left[e] <= 0 \/ Earlier(e))
        /\ Goto(w, "run")
        /\ mtx' = None
     \/ /\ ~quit /\ left[e] > 0 /\ ~Earlier(e)
        /\ Goto(w, "tblock")
        /\ mtx' = w
  /\ UNCHANGED <<time_out_queue, events_out_of_queue, hand, left, quit, closing, waiter, alive>>

\* wait_until, with mtx_ held or, after waking up, to be locked: leave it when
\* the time has come or the predicate is true.  Call the function of an event
\* whose time has come, put any other back.
WaitUntil(w) ==
  /\ (wpc[w] = "wait" /\ mtx = w) \/ (wpc[w] = "tawake" /\ mtx = None)
  /\ LET e == hand[w] IN
     \/ /\ ~quit /\ left[e] <= 0
        /\ Goto(w, "run")
        /\ mtx' = None
        /\ UNCHANGED <<time_out_queue, events_out_of_queue, hand>>
     \/ /\ quit \/ (left[e] > 0 /\ Earlier(e))
        /\ Goto(w, "top")
        /\ mtx' = None
        /\ time_out_queue' = time_out_queue \cup {e}
        /\ hand' = [hand EXCEPT ![w] = None]
        /\ events_out_of_queue' = events_out_of_queue - 1
     \/ /\ ~quit /\ left[e] > 0 /\ ~Earlier(e)
        /\ Goto(w, "tblock")
        /\ mtx' = w
        /\ UNCHANGED <<time_out_queue, events_out_of_queue, hand>>
  /\ UNCHANGED <<left, quit, closing, waiter, alive>>

\* The function returned true: the next timeout is one period later.
RunRepeat(w) ==
  /\ wpc[w] = "run"
  /\ left' = [left EXCEPT ![hand[w]] = @ + Duration[hand[w]]]
  /\ Goto(w, "relock")
  /\ UNCHANGED <<time_out_queue, mtx, events_out_of_queue, quit, hand, closing,
                 waiter, alive>>

\* Variant for mutation: the counter is forgotten on this path.
RunOnce_NoCount(w) ==
  /\ wpc[w] = "run"
  /\ alive' = alive \ {hand[w]}
  /\ left'  = [left EXCEPT ![hand[w]] = 0]
  /\ hand'  = [hand EXCEPT ![w] = None]
  /\ Goto(w, "top")
  /\ UNCHANGED <<time_out_queue, mtx, events_out_of_queue, quit, closing, waiter>>

\* The function returned false: the node is destroyed, without mtx_.
RunOnce(w) ==
  /\ wpc[w] = "run"
  /\ alive' = alive \ {hand[w]}
  /\ left'  = [left EXCEPT ![hand[w]] = 0]
  /\ hand'  = [hand EXCEPT ![w] = None]
  /\ events_out_of_queue' = events_out_of_queue - 1
  /\ Goto(w, "top")
  /\ UNCHANGED <<time_out_queue, mtx, quit, closing, waiter>>

\* Variant for mutation: the node is not inserted again.
Relock_Drop(w) ==
  /\ wpc[w] = "relock" /\ mtx = None
  /\ hand' = [hand EXCEPT ![w] = None]
  /\ events_out_of_queue' = events_out_of_queue - 1
  /\ NotifyOne([wpc EXCEPT ![w] = "top"])
  /\ UNCHANGED <<time_out_queue, left, mtx, quit, closing, waiter, alive>>

\* Variant for mutation: the counter goes down here and again at scope exit.
Relock_Twice(w) ==
  /\ wpc[w] = "relock" /\ mtx = None
  /\ time_out_queue' = time_out_queue \cup {hand[w]}
  /\ hand' = [hand EXCEPT ![w] = None]
  /\ events_out_of_queue' = events_out_of_queue - 2
  /\ NotifyOne([wpc EXCEPT ![w] = "top"])
  /\ UNCHANGED <<left, mtx, quit, closing, waiter, alive>>

\* Lock mtx_, insert the node, notify one thread, leave the scope.
Relock(w) ==
  /\ wpc[w] = "relock" /\ mtx = None
  /\ time_out_queue' = time_out_queue \cup {hand[w]}
  /\ hand' = [hand EXCEPT ![w] = None]
  /\ events_out_of_queue' = events_out_of_queue - 1
  /\ NotifyOne([wpc EXCEPT ![w] = "top"])
  /\ UNCHANGED <<left, mtx, quit, closing, waiter, alive>>

-----------------------------------------------------------------------------
(***************************************************************************)
(* The other threads.                                                       *)
(***************************************************************************)
\* Variant for mutation: nobody is notified.
PushEvent_Silent(e) ==
  /\ e \notin alive /\ closing = "no" /\ mtx = None
  /\ time_out_queue' = time_out_queue \cup {e}
  /\ left'  = [left EXCEPT ![e] = Duration[e]]
  /\ alive' = alive \cup {e}
  /\ UNCHANGED <<mtx, events_out_of_queue, quit, wpc, hand, closing, waiter>>

PushEvent(e) ==
  /\ e \notin alive /\ closing = "no" /\ mtx = None
  /\ time_out_queue' = time_out_queue \cup {e}
  /\ left'  = [left EXCEPT ![e] = Duration[e]]
  /\ alive' = alive \cup {e}
  /\ NotifyOne(wpc)
  /\ UNCHANGED <<mtx, events_out_of_queue, quit, hand, closing, waiter>>

\* Quit() stores quit_, then notifies; neither holds mtx_.
QuitStore ==
  /\ closing = "no"
  /\ quit' = TRUE
  /\ closing' = "stored"
  /\ UNCHANGED <<time_out_queue, left, mtx, events_out_of_queue, wpc, hand, waiter, alive>>

QuitNotify ==
  /\ closing = "stored"
  /\ NotifyAll
  /\ closing' = "joining"
  /\ UNCHANGED <<time_out_queue, left, mtx, events_out_of_queue, quit, hand, waiter, alive>>

\* ~TimeoutQueue joins every thread.
Join ==
  /\ closing = "joining" /\ \A w \in Workers : wpc[w] = "done"
  /\ closing' = "joined"
  /\ UNCHANGED <<time_out_queue, left, mtx, events_out_of_queue, quit, wpc, hand,
                 waiter, alive>>

\* Variant for mutation: nodes in the hands of workers are forgotten.
WaitUntilAllDone_QueueOnly ==
  /\ waiter \in {"out", "awake"} /\ mtx = None
  /\ IF time_out_queue = {}
     THEN waiter' = "returned" /\ mtx' = Client
     ELSE waiter' = "asleep" /\ UNCHANGED mtx
  /\ UNCHANGED <<time_out_queue, left, events_out_of_queue, quit, wpc, hand,
                 closing, alive>>

\* WaitUntilAllDone: lock mtx_ and evaluate the predicate, sleep while it is
\* false.  The workers notify all_done_ with mtx_ held, so evaluating it and
\* falling asleep is one step.  The caller gets the lock and drops it later.
WaitUntilAllDone ==
  /\ waiter \in {"out", "awake"} /\ mtx = None
  /\ IF time_out_queue = {} /\ events_out_of_queue = 0
     THEN waiter' = "returned" /\ mtx' = Client
     ELSE waiter' = "asleep" /\ UNCHANGED mtx
  /\ UNCHANGED <<time_out_queue, left, events_out_of_queue, quit, wpc, hand,
                 closing, alive>>

DropLock ==
  /\ waiter = "returned"
  /\ waiter' = "out"
  /\ mtx' = None
  /\ UNCHANGED <<time_out_queue, left, events_out_of_queue, quit, wpc, hand,
                 closing, alive>>

Spurious ==
  /\ \/ \E w \in Sleepers(wpc) : Goto(w, Woken(wpc[w])) /\ UNCHANGED waiter
     \/ waiter = "asleep" /\ waiter' = "awake" /\ UNCHANGED wpc
  /\ UNCHANGED <<time_out_queue, left, mtx, events_out_of_queue, quit, hand,
                 closing, alive>>

Tick ==
  /\ \A e \in alive : left[e] > -MaxLate
  /\ left' = [e \in Events |-> IF e \in alive THEN left[e] - 1 ELSE left[e]]
  /\ UNCHANGED <<time_out_queue, mtx, events_out_of_queue, quit, wpc, hand, closing,
                 waiter, alive>>

WorkerStep(w) ==
  \/ Top(w) \/ Lock(w) \/ Block(w) \/ Awake(w) \/ Timeout(w) \/ WaitUntil(w)
  \/ RunRepeat(w) \/ RunOnce(w) \/ Relock(w)

Next ==
  \/ \E w \in Workers : WorkerStep(w)
  \/ \E e \in Events : PushEvent(e)
  \/ QuitStore \/ QuitNotify \/ Join
  \/ WaitUntilAllDone \/ DropLock
  \/ Spurious
  \/ Tick

Spec == Init /\ [][Next]_vars

\* Threads that can go on do so, a thread that waits for mtx_ gets it in the
\* end, functions return, and time passes (as far as the bound lets it).  Nobody has to push events or to
\* call WaitUntilAllDone.
FairSpec ==
  /\ Spec
  /\ \A w \in Workers : SF_vars(WorkerStep(w))
  /\ SF_vars(waiter = "awake" /\ WaitUntilAllDone)
  /\ WF_vars(DropLock)
  /\ WF_vars(QuitNotify) /\ WF_vars(Join)
  /\ WF_vars(Tick)

-----------------------------------------------------------------------------
Holders(e) == {w \in Workers : hand[w] = e}

\* No event is lost or doubled: an event that was pushed and whose function has
\* not returned false is in the queue or in the hands of exactly one worker, so
\* that it never runs on two workers at once.
EventsConserved ==
  /\ alive = time_out_queue \cup {hand[w] : w \in {v \in Workers : hand[v] # None}}
  /\ \A w \in Workers : hand[w] \notin time_out_queue
  /\ \A v, w \in Workers : hand[v] = hand[w] /\ hand[v] # None => v = w

\* The counter, decremented outside mtx_ when a function returned false, is
\* the number of nodes the workers have in hand.
OutIsCounted ==
  events_out_of_queue = Cardinality({w \in Workers : hand[w] # None})

\* When WaitUntilAllDone has returned, and as long as its caller keeps the
\* lock, no event is queued, waiting in a worker or running.
AllDoneIsDone == waiter = "returned" => alive = {}

\* Refinement: the workers together are a queue of timed events.
Running(e) == \E w \in Holders(e) : wpc[w] = "run"

Stage == [e \in Events |-> IF e \notin alive THEN "out"
                          ELSE IF Running(e) THEN "running" ELSE "waiting"]

Timed == INSTANCE TimedEvents WITH stage <- Stage

\* However the nodes travel between the queue and the workers, whoever is woken
\* and whatever node comes first: no function is called before its timeout or
\* while it is still running, its timeouts are one period apart, and it is
\* called only between its PushEvent and its return of false.
ImplementsTimedEvents == Timed!Spec

\* Every event is called again and again until its function returns false,
\* although notify_one may wake a worker that has another event in hand.
EventsRun ==
  \A e \in Events :
    e \in alive ~> (e \notin alive \/ quit \/ Running(e))

\* Nobody sleeps in WaitUntilAllDone for ever when all the events are done.
WaitersReturn ==
  [](waiter = "asleep" /\ [](alive = {} /\ ~quit) => <>(waiter = "returned"))

\* "not quit": the workers leave their loop once quit_ is stored, so the
\* destructor's join() returns.
QuitEnds == quit ~> closing = "joined"
=============================================================================
