# A TLA+ model of distributed_lock_manager

The library implements the Redis "distlock" algorithm: a `DMutex` owns the lock
when it has set its own random value, with an expiry time, in a majority of
several Redis databases. This directory holds TLA+ modules that model the
library's own code and the parts of its environment that the code talks to,
configurations that check them with TLC, and proofs checked by TLAPS.

Paths below are relative to the repository root.

## Inventory

| component | source | state | operations |
|---|---|---|---|
| `DMutexImpl` | `src/dmutex.cpp` | `have_lock_num_`, `lock_status_`, `lock_continue_`, the static `mtx_` of the process | `Lock`, `TryLock`, `TryLock(expire)`, `MainLockFunction`, `UnlockAll`, `KeepLock` |
| `DBRedis` | `src/db-redis.cpp` | one connection and the database selected on it | `SelectDB`, `SetKeyValue`, `UpdateExpire`, `DelKeyValue` |
| `TimeoutQueue` | `include/timeout-queue.h`, `src/timeout-queue.cc` | `time_out_queue_`, `events_out_of_queue_`, `quit_`, `mtx_`, two condition variables | `PushEvent`, `Worker`, `Quit`, the destructor, `WaitUntilAllDone` |
| Redis server | external | keys with values and times to live | SELECT, SET NX PX, EXISTS, GET, PEXPIRE, DEL, expiry |
| `cpp_redis::client`, `redis_connection`, `tacopie::tcp_client` | `cpp_redis/sources`, `cpp_redis/tacopie/sources` (vendored) | queue of commands awaiting replies, `m_callbacks_running`, send buffer, write requests | `send`, `sync_commit`, receive and disconnection handlers, read and write events |
| `cpp_redis::reply` | `cpp_redis/sources/core` (vendored) | | `as_string`, `as_integer` |
| `cpp_redis` sentinel, subscriber, builders; `tacopie` io_service, thread pool | `cpp_redis/...` (vendored) | | below the client, or unused by the lock manager |
| Doxygen scripts | `cpp_redis/**/docs/html/**/*.js` | | generated; no part of the program |
| demo programs | `src/test-class.cc`, `example/` | | show the intended use |

How they interact: a user thread calls `DMutex::lock()`. `MainLockFunction`
visits the databases in a shuffled order; for each it locks the static `mtx_`,
sends SELECT and SET NX PX over the DMutex's own connection and unlocks `mtx_`.
With a majority within the validity time it pushes an event into the
process-wide `TimeoutQueue`, otherwise it calls `UnlockAll`. A worker of the
queue calls `KeepLock` every period; `KeepLock` walks `have_lock_num_` and
sends SELECT, EXISTS, GET and PEXPIRE (or SET) over the same connection, locking
`mtx_` once per database. `UnlockAll` holds `mtx_` throughout and sends SELECT,
EXISTS, GET and DEL for every database. Different processes meet only in the
server.

What is hard about it: the user thread and several renewal events share a
connection with a selected database; every check-then-act on the server is two
or three commands between which keys expire and other processes act; replies
can be lost after the command was executed; processes die with keys set; and
the queue's workers and the Redis client sleep on condition variables that are
notified with and without the mutex. `PROJECT.json` lists these hazards with their lines.

What makes the components correct:

- `DMutex`: mutual exclusion while the lock is valid, and beyond it with timely
  renewals; a granted lock is backed by a majority of unexpired keys; nobody's
  key is deleted by somebody else; commands reach the database that was
  selected; `mtx_` is given back; a crash blocks nobody for ever.
- `TimeoutQueue`: no event is lost or runs twice at once; every event runs;
  `WaitUntilAllDone` returns when, and only when, nothing is pending; the
  destructor ends.
- the Redis client: a future gets the reply to its own command or "network
  failure", and has it when `sync_commit` returns, whatever happens to the
  connection; `sync_commit` returns.

## Modules

| module | models |
|---|---|
| `RedisStore` | the server (external): operators on a store that maps a database to the entry for the contested key |
| `DBRedis` | the client as the lock manager sees it: replies, what `DBRedis` concludes from them, and `Command`, a command with one of the fates ok, reject, lost, cut |
| `DMutex` | user threads, renewal events, `mtx_`, processes, time; the specification and its properties |
| `LeaseLock` | abstract: a lock that is granted with a lease; `DMutex` implements it |
| `MCDMutex` | two DMutexes `m1`, `m2`, in one process or in two |
| `DMutexProofs` | theorems about `DMutex`: types, the connection, foreign keys, the lease |
| `DMutexRefinement` | the theorem that `DMutex` implements `LeaseLock` |
| `DMutexRenewal` | theorems about `DMutex` with renewals in time |
| `TimeoutQueue` | the queue, its workers and condition variables |
| `TimedEvents` | abstract: events called at their timeouts; `TimeoutQueue` implements it |
| `MCTimeoutQueue` | two workers and three events |
| `TimeoutQueueProofs` | theorems about `TimeoutQueue` |
| `RedisClient` | one connection from the inside: `cpp_redis::client`, `redis_connection`, `tacopie::tcp_client` and their threads |
| `RedisClientProofs` | theorems about `RedisClient` |

`DMutex` extends `DBRedis`, which extends `RedisStore`. The other two stand alone,
and each justifies an abstraction that `DMutex` makes. `DMutex` lets an event run
at some moment after its timeout and queues it again when `KeepLock` returned
true: that is `TimedEvents`, which `TimeoutQueue` implements. `DBRedis!Command` is
a command that gets its own reply or "network failure", at once: that is
`OwnReply`, `SyncIsComplete` and `CommittedIsAnswered` of `RedisClient`. The one
thing `DMutex` assumes and `RedisClient` does not deliver is that a command always
comes to an end: while the connection lasts it does (`SyncReturnsWhileConnected`), but
when it breaks, the thread of `clear_callbacks` counts down and notifies without
`m_callbacks_mutex` (`client.cpp:276`), perhaps between the predicate and the sleep of
`sync_commit`, which then sleeps on with `mtx_` held.

Definitions named `X_What` are variants of `X` with a plausible bug. No
specification uses them; each shows that a property can fail.

### State and steps of DMutex

A step is the code between two points where another thread or the server can
intervene: one command and the code up to the next lock, unlock or command.

- `pc[m]` is the place of the user thread. `pick`: at the top of the host loop;
  `set`: between SELECT and SET; `again`: the host is tried again; `grant`: a
  majority was counted, `mtx_` not yet locked; `held`; `unlock`: about to lock
  `mtx_` in `UnlockAll`; `uselect`, `uexists`, `uget`, `udel`: about to send that
  command; `sleep`: in `WaitUntil`.
- `todo[m]` is the set of hosts not visited: the shuffle makes every order
  possible. `cur[m]` is the host visited.
- `kpc[k]` is the place of renewal event `k = <<m, slot>>`: `queued`, `check` (loop
  condition), `lock`, and `exists`, `set`, `get`, `pexpire`. `kidx` is
  `lock_index + 1`.
- `mtx[p]` is the thread that holds the static `mtx_` of process `p`. A
  `std::unique_lock` that throws, returns or falls out of scope gives it back
  (`Leave`). A SELECT that fails leaves it locked, as in the code: locking again
  through the same `unique_lock` throws (`Relock`); through the second one of
  `UnlockAll` it is undefined, so the thread blocks for ever or throws
  (`RelockUndefined`).
- `have_lock_num_` is read by `KeepLock` without `mtx_`. When the vector was
  cleared between the loop condition and the indexing, the read gives any host
  (stale storage) or ends the process (checked build).
- An exception in a worker thread ends the process (`Crash`); an exception in a
  user thread ends the call.
- `BadHosts` are databases the server always refuses to select. The runs leave it
  empty and meet refused SELECTs as faults; the proofs hold for any.
- Replies are modelled by type: `as_string` throws on null and integers but not
  on errors, `as_integer` on everything else than integers, `SelectDB` accepts
  only "OK".

Time is relative and discrete. The server's clock and the clients' clocks
advance together (`Tick`). `Prompt` names timing assumptions:

- `delete`: a DEL overtakes the expiry of the key its GET saw. Without it
  `DelKeyValue` may delete a foreign key (run DeleteRace).
- `acquire`: the visit of all hosts takes less than a tick.
- `renew`: a `KeepLock` call of a held lock completes in the tick it is due.

The lease properties need only the first; exclusion beyond the validity time
needs all three.

The model takes the users to follow the intended use: one thread per DMutex,
`unlock()` only after a successful lock.

### TimeoutQueue

Evaluating the predicate of `new_event_.wait` or `wait_until` and falling asleep
are two steps, because `Quit` stores `quit_` and notifies without `mtx_`.
Everything else that notifies holds `mtx_`. Wake-ups may be spurious, and
`notify_one` wakes any waiting worker. `left[e]` is the time to an event's
timeout; a function returns true (`RunRepeat`) or false (`RunOnce`) as it likes.

### RedisClient

The threads that use one connection take turns (`mtx_`), so they are one thread
here, `upc`. It sends commands (`m_buffer`, `m_commands`), and `sync_commit` moves
the buffer into the write requests and waits for `m_callbacks_running == 0` and an
empty queue; testing that and falling asleep are two steps. `iopc` is the callback
worker of the io_service, of which there is one by default: it writes, reads some
of the replies that have arrived, and for each takes the first callback out of the
queue, calls it and counts down, locking `m_callbacks_mutex` twice. When the
connection is gone it runs `disconnect` and the handlers up to
`connection_disconnection_handler`. `detached` are the threads of `clear_callbacks`,
which answer commands with "network failure" without any mutex. `clear_callbacks`
also runs, without `m_callbacks_mutex`, in a user thread whose commit finds the
connection closed; moving the queue is therefore two steps, reading it and
emptying it. When both threads take the same command, the second answer to its
future throws and ends the process (`aborted`). A second event handler may be
queued behind the one that disconnects; it finds no request, and its
`result.success` was never written (`StrayEvent`).

A command is a number, and stands for its own reply. `connect` is called with
`max_reconnects = 0`, so `should_reconnect` is false and there is no reconnection.
A write request is sent whole and replies arrive whole, in packets of any number.

### The abstract specifications

`LeaseLock` has the set of clients that hold the lock and the lease of each, the
time for which it may rely on being alone. A grant never disturbs another client's
lease, only time shortens a lease, and only its owner gives it up. Which steps are
time is not for the abstract module to know, so `ImplementsLeaseLock` adds to the
refinement that a holder's lease shrinks in a `Tick` of `DMutex` only. `DMutex` maps
`held` to the DMutexes at `held`, and the lease of one of them to the number of
ticks for which it still has keys in a majority of the databases. So the lease is
defined by the server's state, not by the client's clock, and the refinement says
that nothing any DMutex does to the keys of a holder makes a difference to it
except for the better.

`TimedEvents` has the stage of each event (out, waiting, running) and the time to
its timeout. `TimeoutQueue` maps an event to running when a worker that has its
node is at `run`; a node in the queue, in the hands of a worker in `wait_until`, or
on its way back is waiting.

## Runs

All with two DMutexes, two workers, or three commands. `CHECK_DEADLOCK FALSE` throughout: with the
clock bounded, a process dead or the queue destroyed the system may stop.

| run | instance | checks |
|---|---|---|
| Quorum | 2 processes, 3 databases, validity 2, 2 ticks, no assumption but `delete` | QuorumBacked, LeaseExclusion, KeysLostOnlyByOwner, ImplementsLeaseLock |
| Renewal | 2 processes, 1 database, validity 3, renewal every 2 ticks, up to two renewal events of each DMutex, 3 ticks, `try_lock(expire)` with an expiry of 1 | HeldExclusion, RenewalFindsKey, KeysLostOnlyByOwner, ImplementsLeaseLock |
| Faults | both DMutexes in one process, 2 databases, two faults of any kind anywhere | TypeOK, QuorumBacked, RightDatabase, KeysLostOnlyByOwner |
| Recovery | fair, unbounded time, 2 processes, 1 database, validity 2, period 0, one process may die or one command, a SELECT included, may be rejected, anywhere | MtxReleased, KeepLockReturns, CrashRecovery, LeftKeysExpire |
| Queue | fair, 2 workers, 3 events, timeouts 1, 2, 2, at most 1 late | TypeOK, EventsConserved, OutIsCounted, AllDoneIsDone, ImplementsTimedEvents, EventsRun, WaitersReturn |
| Client | fair, 3 commands, the connection may break anywhere | TypeOK, OwnReply, RunningCounted, SyncIsComplete, CommittedIsAnswered, SyncReturnsWhileConnected |

Why the bounds suffice to meet the cases: three databases is the least number
where two DMutexes can each hold keys and only one a majority, with a minority
left over; validity 2 lets a key expire during an attempt, between two commands
and while the lock is held; a horizon of the validity time (Renewal) reaches the tick at which an unrenewed
key is gone and a waiting DMutex would get the lock; an expiry of one
tick lets `try_lock(expire)` retry and give up. With a period of 0 (Recovery) a
renewal event is always due, so it runs at every moment at which it could run with
any other period. `CallLock` needs a free slot for the event that the lock will push,
which the code does not; in Renewal and StaleIndex there are two slots, so a DMutex
locks again while an earlier event is alive and the new event meets the left-over one.
Several databases, two events and the validity time together are beyond TLC;
RightDatabase and the lease properties are proved for any number of events, and so
are HeldExclusion and
RenewalFindsKey. Three commands let one be answered, one be under way and one be
sent when the connection breaks. The queue's clock has no horizon: only
the lateness of an event is capped (`MaxLate`), and three events for two workers
keep one in the queue while both workers have their hands full.
`Swap` exchanges the two DMutexes, which are alike in every instance; it is not used
with temporal properties under fairness.

Runs that show where the code departs from what it says; each has a finding in
`PROJECT.json`:

| run | violated | behaviour |
|---|---|---|
| DeleteRace | KeysLostOnlyByOwner | the key expires between GET and DEL, DEL removes the next owner's key |
| StaleCount | QuorumBacked | `try_lock()` does not clear `have_lock_num_` and counts old entries |
| LockThrows | LockReturnsHolding | the holder's DEL falls between EXISTS and GET of a contender's `UnlockAll`; `lock()` throws |
| StaleIndex | HolderSurvives | a `KeepLock` left over from an earlier lock is past its loop condition when `lock()` clears `have_lock_num_` and gets fewer hosts; the index past the end ends the process of the DMutex, which holds the lock again |
| SelectBlocks | AttemptEnds | a rejected SELECT leaves `mtx_` locked, and `UnlockAll` waits in the same thread for `mtx_` |
| QueueQuit | QuitEnds | `Quit` falls between a worker's predicate and its sleep; `join()` never returns |

In StaleIndex every call is in time and nothing fails: what it takes is to lock, unlock
and lock again within a period, which `example/src/dlm-example.cpp` does in a loop.
`RenewalFindsKey` is what remains true of such a left-over `KeepLock`: while its index
is in range it renews the holder's own key.

Two more behaviours are in the model without a run of their own. A `KeepLock` that
passed its test of `lock_status_` before `unlock()` may set a key again that `unlock()`
has deleted; `LeftKeysExpire` says that the key does not stay. And without `renew`
among the assumptions a key may expire between EXISTS and GET of `UpdateExpire`: the
exception of `as_string` ends the process of the holder, as it ends `lock()` in
LockThrows.

`MtxReleased` excepts the thread that SelectBlocks shows, which waits for the mutex it
holds; every other path of a failed SELECT (`Relock`, the crash of a `KeepLock` that
locks again) gives `mtx_` back. `CrashRecovery` has the same exception.

### Fairness

`DMutex!FairSpec`: a thread that can take a step takes it (weak fairness per user
thread and per event: the operating system schedules runnable threads and the
server answers), and time passes (strong fairness of `Tick`, because with `Prompt`
a tick may have to wait for threads that are themselves fair). Nothing makes a
user call, a fault happen or undefined behaviour end well.

`TimeoutQueue!FairSpec`: a worker that wants `mtx_` gets it in the end although
others also take it (strong fairness), functions return, time passes, the
caller of `WaitUntilAllDone` drops its lock and, once woken, gets the mutex.
Nobody need push an event or call `WaitUntilAllDone`.

`RedisClient!FairSpec`: the user thread inside `sync_commit` and the callback worker
get `m_callbacks_mutex` in the end (strong fairness), detached threads go on, and
the server answers while the connection lasts. Nobody need send or commit, the
connection need not break, and no condition variable need wake up by itself.

## Proofs

`DMutexProofs` proves, for any sets of DMutexes and processes, any numbers of
hosts, events and faults of every kind, any validity time and period:

- `TypeCorrect`: `Spec => []TypeOK`.
- `ConnectionProtected`: `Spec => []RightDatabase`. The strengthening `ConnInv`
  adds `MtxInv`: a thread between its SELECT and its last command holds `mtx_`. It
  is needed because a renewal event selects databases on the connection of its
  DMutex: it can only do so when it got `mtx_`, so no user thread is between
  SELECT and command. `UserFrame` and `KeepFrame` state once what a step leaves
  alone; `OthersHold` that nobody loses `mtx_` by another thread's step.
- `ForeignKeysSafe`: the action property `KeysLostOnlyByOwner`, assuming
  `"delete" \in Prompt` (without it the property fails: DeleteRace). `DelInv` adds to
  `ConnInv` that a thread about to send DEL has selected a database that has its own
  value (`DelOwn`) and that every key has a time to live (`StoreInv`). Between
  the GET and the DEL the other DMutexes act on the same database, so the proof
  rests on `StoreKeeps`: SET NX and PEXPIRE take no key away and shorten none.
- `LeaseInvariant`: `Spec => []LeaseInv`, under the same assumption. `LeaseInv` says of
  a DMutex that collects or holds the lock, and did not call `try_lock()`, that
  `have_lock_num_` lists different hosts, disjoint from those still to visit
  (`Listed`), and that each of them has the DMutex's key with at least the rest of
  the validity time to live (`Backed`). `Backed` is preserved because of
  `StoreKeeps`, because a DEL takes only the sender's own key (`DelOwn`), and because
  `Tick` takes one from both sides.
- `LockersUnharmed`: a lock got with `lock()` or `try_lock(expire)` is backed by a
  majority and exclusive among such locks, even when others call `try_lock()`. The
  finding of StaleCount therefore harms only the caller of `try_lock()`: it believes
  in a lock that it does not have, but takes nobody else's.
- `QuorumIsBacked`, `LeasesExclude`: `[]QuorumBacked` and `[]LeaseExclusion`, assuming
  also `"try_lock" \notin Calls` (without it they fail: StaleCount). Exclusion follows
  because two majorities of databases meet and a database holds one value.

`DMutexRefinement` proves `DMutexRefinesLeaseLock`: `Spec => ImplementsLeaseLock`,
assuming only `"delete" \in Prompt`, with callers of `try_lock()`, several events
per DMutex and any faults included. The lease of a holder is the number of members
of `SafeTimes`, the times for which its keys are still a majority. The argument is
about this set. A store in which the holder's keys are kept and live as long has at
least the same times (`LeaseKept`): that treats every command of every thread. After
a tick the times are those of before, one less, without the time 1 (`LeaseTicks`, by
a bijection): a lease shrinks by exactly one. Two DMutexes cannot both have a time
(`OneMajority`), which makes a grant legal: at that moment nobody else has a lease. The
same lemmas show that no step but a tick shortens the lease of a holder
(`LeasesSpared`).

`DMutexRenewal` is about renewals. `Punctual` states its assumptions:

- all three members of `Prompt`: the code has no other guard against a renewal that
  comes too late;
- `Period < Validity`: the code's values are `run_time_ / 3 * 2`, of 20000 ms, and
  30000 ms;
- no fault but the death of a process (`FaultKinds \subseteq {"kill"}`): a SELECT that
  fails in `KeepLock` skips the host, and a connection that breaks ends the process,
  so with them the lock may run out while it is held;
- no `try_lock()` (StaleCount).

`RenewInvariant`: `Spec => []RenewInv`. What is needed beyond `LeaseInv` is a relation
between the queue and the server (`Watches`): a holder has a renewal event such that,
while it is queued, each key in `have_lock_num_` outlives the event's timeout by
`Validity - Period`; while its `KeepLock` runs, the hosts before `lock_index` are
renewed and the others keep that margin. For the step that makes this true, `Grant`,
the attempt must have taken no time and a slot for the event must be free
(`Timely`); for those that keep it, the flags must be set (`Marked`), the hosts
selectable (`Selectable`), and the loop must begin with the first host (`Rewound`).
From it:

- `HoldersExclude`: `[]HeldExclusion`, for any number of events per DMutex: those left
  over from earlier locks may renew keys, too, which does no harm;
- `RenewalsFindKeys`: `[]RenewalFindsKey`, for any number of events per DMutex and of
  DMutexes per process. `Aligned` is added to the invariant: from its SELECT on a
  `KeepLock` holds `mtx_`, so the database at its index stays selected; `lock()` may
  clear the vector meanwhile, which takes the index out of range, but it can push a
  host or return with the lock only when `mtx_` is free. So a call that is about to send
  SET for a DMutex that holds the lock would have found the key missing with the lock held
  and an index in range, which `Watches` excludes. That the index *is* in range is not
  provable: StaleIndex.

`TimeoutQueueProofs` proves, for any finite set of workers, any events and any
timeouts, `QueueInvariant`: `Spec => []QueueInv`, and from it:

- `NoEventLost`: `[]EventsConserved`;
- `CounterExact`: `[]OutIsCounted`;
- `AllDoneSound`: `[]AllDoneIsDone`;
- `QueueTypeCorrect`: `[]TypeOK`;
- `QueueRefinesTimedEvents`: `Spec => ImplementsTimedEvents`. Each worker step is
  one step of `TimedEvents` or none: only leaving `wait_until` for the call and
  returning from it change an event's stage (`OneCall`), everything else leaves the
  calls under way alone (`CallsStay`). That the caller is the only one who has the
  event is `EventsConserved`.

`QueueInv` adds two parts to these three and the type invariant. `HandInv` says
that a worker has a node exactly in the control states between its extraction
and its return or destruction: without it nothing excludes that a worker
extracts a second node, or gives back one it does not have. `MtxInv` says which
control states hold `mtx_`: without it a push or a put-back could come between
the evaluation of `WaitUntilAllDone`'s predicate and the use of its result.
`AllDoneIsDone` then follows from `OutIsCounted`: the predicate looks at the
counter only, and a counter of zero means that no worker has a node. The lemmas
`BusyMore` and `BusyLess` count nodes, `Waking` and `NotifyMoves` say that a
notification moves no worker into or out of the states the invariant speaks of,
and `NodesStay`, `WorkersMove`, `TakeStep` and `PutBack` treat the steps by what
they do with nodes.

`RedisClientProofs` proves, for any number of commands, any packets and any moment
at which the connection breaks, `ClientInvariant`: `Spec => []ClientInv`, and from it:

- `RepliesMatch`: `[]OwnReply`;
- `RunningExact`: `[]RunningCounted`;
- `SyncComplete`: the action property `SyncIsComplete`;
- `ClientTypeCorrect`: `[]TypeOK`.

`OwnReply` is not inductive. `Pipeline` is what keeps it: while the connection is up,
the replies at hand, the replies that have arrived, the commands on the wire, the
write requests and the buffer are, one after the other, the commands in the queue of
callbacks, numbered without a gap (`Consecutive`); so the first callback belongs to
the next reply. When the line is cut, the first part of it is left. `Stages` says
where the worker and the user thread can be with and without the connection: nothing
is popped for a reply after `clear_callbacks` began. For `SyncIsComplete`, `Accounted`
says that an unanswered command is in the queue, in the hands of the worker or in
those of a detached thread, and `Copied` that whoever is about to empty the queue has
copied all of it, although emptying and copying are two steps and both threads may
do them at once; with `RunningCounted`, an empty queue and a counter of zero leave no
place for such a command. `Owed` is the set of pairs of a detached thread and a
command it has yet to count, so that `RunningCounted` is a cardinality and the lemmas
on it are about adding and removing an element.

Every invariant and every action property that a passing run checks is a theorem, and
so are both refinements. Only model-checked are the liveness properties MtxReleased,
KeepLockReturns, CrashRecovery, LeftKeysExpire, EventsRun, WaitersReturn,
CommittedIsAnswered and SyncReturnsWhileConnected: liveness under fairness is out of
reach of the prover.

The invariant `RenewInv` was checked with TLC on an instance with two databases and on
one with three of which one cannot be selected, before it was proved.

## Not modelled

- Destruction of a DMutex with a queued event (the event's lambda keeps `this`),
  moving a DMutex, `unlock()` without the lock, two threads using one DMutex.
- Clocks that are set back (`GetCurrentMilliseconds` reads the system clock) or
  drift apart between server and clients.
- Equal `value_` of two DMutexes.
- A reallocation of `have_lock_num_` while `KeepLock` reads it, beyond the stale
  read described above.
- A connection that cannot be opened in the constructor.
- Inside `cpp_redis`: reconnection (the lock manager connects with none; sentinel
  and `resend_failed_commands` are reached from there only), `commit` without
  waiting, `sync_commit` with a timeout, the destructor, replies that are not RESP,
  parsing, the command builders.
- Inside `tacopie`: `select`, the tracking of sockets, the thread pool, more than one
  callback worker, writes that the socket takes in parts.
- The scripts under `docs/html` are Doxygen output.

## Plan

1. Done: `RedisStore`, `DBRedis`, `DMutex`, `TimeoutQueue`, `RedisClient`, the abstract
   `LeaseLock` and `TimedEvents` with their refinements, their runs, and the
   theorems above.
2. The destruction of a DMutex and of the queue, in a composition of the two: the
   event's lambda keeps `this`.
3. A composition of `DMutex` with `TimedEvents` in place of its own `due`, which would
   turn the use of `TimedEvents` described above into a refinement.
