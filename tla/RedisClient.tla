----------------------------- MODULE RedisClient -----------------------------
(***************************************************************************)
(* One connection to the server: cpp_redis::client with the redis_connection *)
(* and the tacopie::tcp_client below it, as DBRedis and TestClass use them:   *)
(* a thread sends one or more commands, calls sync_commit and reads the        *)
(* futures.  The threads that use one connection take turns (DMutexImpl::mtx_),*)
(* so they are one thread here.  The other threads are the only callback       *)
(* worker of the io_service and the threads that clear_callbacks detaches.     *)
(*                                                                         *)
(* connect() is called with max_reconnects = 0: should_reconnect() is false   *)
(* and a connection that was lost stays lost.  A command stands for itself in  *)
(* every queue, and for its own reply on the way back.                        *)
(*                                                                         *)
(* clear_callbacks runs with m_callbacks_mutex in one thread and without it in *)
(* another.  Moving the queue reads it, then empties it: two steps.            *)
(***************************************************************************)
EXTENDS Integers, Sequences, FiniteSets, SequencesExt

CONSTANTS
  MaxCommands,   \* bound: commands the user sends
  None           \* no thread, no command

ASSUME ClientAssumption ==
  /\ MaxCommands \in Nat \ {0}
  /\ None \notin 1..MaxCommands
  /\ None \notin {"user", "io"}

Commands == 1..MaxCommands      \* in the order in which they are sent

VARIABLES
  sent,                 \* number of commands sent
  answer,               \* what the future of each command holds
  m_commands,           \* sent commands whose callback has not been called
  m_buffer,             \* redis_connection's buffer of commands to commit
  m_callbacks_running,
  m_reconnecting,
  m_callbacks_mutex,    \* who holds it
  connected,            \* tcp_client::m_is_connected
  writes,               \* m_write_requests
  upc, ucopy,           \* user thread, and the queue it moves in clear_callbacks
  iopc, inbox, iocur,   \* callback worker, replies it has read, command it answers
  iocopy, stray,        \* its clear_callbacks; a second event handler is queued
  detached,             \* threads of clear_callbacks: commands left and the stage
  line, wire, replies,  \* the TCP connection and what is under way on it
  aborted               \* std::terminate was called

userVars   == <<sent, upc, ucopy>>
ioVars     == <<iopc, inbox, iocur, iocopy, stray>>
clientVars == <<answer, m_commands, m_buffer, m_callbacks_running, m_reconnecting,
                m_callbacks_mutex, detached, aborted>>
netVars    == <<connected, writes, line, wire, replies>>
vars       == <<userVars, ioVars, clientVars, netVars>>

\* A detached thread: the commands it has left to answer; it calls the first
\* one's callback or counts the call.
Thread == [todo : Seq(Commands), stage : {"call", "count"}]

\* Every variable keeps its type; m_callbacks_running, an unsigned counter that
\* several threads decrement, never wraps below zero.
TypeOK ==
  /\ sent \in 0..MaxCommands
  /\ answer \in [Commands -> {"none", "reply", "failure", "foreign"}]
  /\ m_callbacks_running \in Nat
  /\ m_reconnecting \in BOOLEAN /\ connected \in BOOLEAN /\ stray \in BOOLEAN
  /\ line \in BOOLEAN /\ aborted \in BOOLEAN
  /\ m_callbacks_mutex \in {"user", "io", None}
  /\ upc \in {"idle", "commit", "try", "clear", "move", "wait", "block", "asleep"}
  /\ iopc \in {"free", "pop", "call", "done", "lost", "handler", "move", "off"}
  /\ iocur \in Commands \cup {None}
  /\ \A q \in {m_commands, m_buffer, writes, ucopy, inbox, iocopy, wire, replies} :
       q \in Seq(Commands)
  /\ detached \in Seq(Thread)

Init ==
  /\ sent = 0 /\ answer = [c \in Commands |-> "none"]
  /\ m_commands = <<>> /\ m_buffer = <<>> /\ m_callbacks_running = 0
  /\ m_reconnecting = FALSE /\ m_callbacks_mutex = None
  /\ connected = TRUE /\ writes = <<>>
  /\ upc = "idle" /\ ucopy = <<>>
  /\ iopc = "free" /\ inbox = <<>> /\ iocur = None /\ iocopy = <<>> /\ stray = FALSE
  /\ detached = <<>>
  /\ line = TRUE /\ wire = <<>> /\ replies = <<>>
  /\ aborted = FALSE

-----------------------------------------------------------------------------
(***************************************************************************)
(* m_sync_condvar: only the user thread waits on it.                        *)
(***************************************************************************)
NotifyAll == upc' = IF upc = "asleep" THEN "wait" ELSE upc

\* A callback sets the value of the future; whose is told by the reply r.
Answered(c, r) == [answer EXCEPT ![c] = IF r = c THEN "reply" ELSE "foreign"]

\* Variant for mutation: the callbacks are not counted as running.
Detach_Uncounted(copy) ==
  /\ m_commands' = <<>>
  /\ detached' = Append(detached, [todo |-> copy, stage |-> "call"])
  /\ UNCHANGED m_callbacks_running

\* clear_callbacks after the test for an empty queue and the first half of the
\* move: empty the queue, count the callbacks and start the thread.
Detach(copy) ==
  /\ m_commands' = <<>>
  /\ m_callbacks_running' = m_callbacks_running + Len(copy)
  /\ detached' = Append(detached, [todo |-> copy, stage |-> "call"])

-----------------------------------------------------------------------------
(***************************************************************************)
(* The user thread.                                                         *)
(***************************************************************************)
\* client::send with a callback that sets the future: buffer the command.
Send ==
  /\ upc = "idle" /\ m_callbacks_mutex = None
  /\ sent < MaxCommands
  /\ sent' = sent + 1
  /\ m_buffer'   = Append(m_buffer, sent + 1)
  /\ m_commands' = Append(m_commands, sent + 1)
  /\ UNCHANGED <<upc, ucopy, answer, m_callbacks_running, m_reconnecting,
                 m_callbacks_mutex, detached, aborted, ioVars, netVars>>

CallSyncCommit ==
  /\ upc = "idle" /\ sent > 0
  /\ upc' = "commit"
  /\ UNCHANGED <<sent, ucopy, ioVars, clientVars, netVars>>

\* "no need to call commit in case of reconnection"
SyncCommit ==
  /\ upc = "commit"
  /\ upc' = IF m_reconnecting THEN "wait" ELSE "try"
  /\ UNCHANGED <<sent, ucopy, ioVars, clientVars, netVars>>

\* Variant for mutation: the buffer is copied, not moved.
TryCommit_Copy ==
  /\ upc = "try"
  /\ writes' = IF connected THEN writes \o m_buffer ELSE writes
  /\ upc' = IF connected THEN "wait" ELSE "clear"
  /\ UNCHANGED <<m_buffer, sent, ucopy, answer, m_commands, m_callbacks_running, m_reconnecting,
                 m_callbacks_mutex, detached, aborted, ioVars, connected, line, wire, replies>>

\* redis_connection::commit empties the buffer; async_write throws when the
\* client is not connected.
TryCommit ==
  /\ upc = "try"
  /\ m_buffer' = <<>>
  /\ writes' = IF connected THEN writes \o m_buffer ELSE writes
  /\ upc' = IF connected THEN "wait" ELSE "clear"
  /\ UNCHANGED <<sent, ucopy, answer, m_commands, m_callbacks_running, m_reconnecting,
                 m_callbacks_mutex, detached, aborted, ioVars, connected, line, wire, replies>>

\* try_commit catches the exception and calls clear_callbacks, without
\* m_callbacks_mutex, before it throws it again.
UserClear ==
  /\ upc = "clear"
  /\ upc' = IF m_commands = <<>> THEN "idle" ELSE "move"
  /\ ucopy' = m_commands
  /\ UNCHANGED <<sent, ioVars, clientVars, netVars>>

UserMove ==
  /\ upc = "move"
  /\ Detach(ucopy)
  /\ ucopy' = <<>>
  /\ upc' = "idle"
  /\ UNCHANGED <<sent, answer, m_buffer, m_reconnecting, m_callbacks_mutex, aborted,
                 ioVars, netVars>>

AllDone_QueueOnly == m_commands = <<>>   \* variant for mutation
AllDone == m_callbacks_running = 0 /\ m_commands = <<>>

\* Lock m_callbacks_mutex and evaluate the predicate: return, or keep the mutex
\* until the thread sleeps.
Wait ==
  /\ upc = "wait" /\ m_callbacks_mutex = None
  /\ upc' = IF AllDone THEN "idle" ELSE "block"
  /\ m_callbacks_mutex' = IF AllDone THEN None ELSE "user"
  /\ UNCHANGED <<sent, ucopy, answer, m_commands, m_buffer, m_callbacks_running,
                 m_reconnecting, detached, aborted, ioVars, netVars>>

Block ==
  /\ upc = "block"
  /\ upc' = "asleep"
  /\ m_callbacks_mutex' = None
  /\ UNCHANGED <<sent, ucopy, answer, m_commands, m_buffer, m_callbacks_running,
                 m_reconnecting, detached, aborted, ioVars, netVars>>

-----------------------------------------------------------------------------
(***************************************************************************)
(* The callback worker of the io_service.                                   *)
(***************************************************************************)
Readable == replies # <<>> \/ ~line
Writable == writes # <<>>

\* on_read_available: recv returns some of the replies that have arrived.
Read ==
  /\ iopc = "free" /\ connected
  /\ \E n \in 1..Len(replies) :
       /\ inbox' = SubSeq(replies, 1, n)
       /\ replies' = SubSeq(replies, n + 1, Len(replies))
  /\ iopc' = "pop"
  /\ UNCHANGED <<iocur, iocopy, stray, userVars, clientVars, connected, writes, line, wire>>

\* on_write_available
Write ==
  /\ iopc = "free" /\ connected /\ Writable /\ line
  /\ wire' = wire \o writes
  /\ writes' = <<>>
  /\ UNCHANGED <<ioVars, userVars, clientVars, connected, line, replies>>

\* recv or send fails: tcp_client::disconnect.  When the other event was queued
\* too, its handler will find no request.
Disconnect ==
  /\ iopc = "free" /\ connected /\ ~line
  /\ replies = <<>> \/ Writable
  /\ connected' = FALSE
  /\ writes' = <<>>
  /\ stray' = (Readable /\ Writable)
  /\ iopc' = "lost"
  /\ UNCHANGED <<inbox, iocur, iocopy, userVars, clientVars, line, wire, replies>>

\* connection_receive_handler, for each reply that is complete
ReceivePop ==
  /\ iopc = "pop" /\ m_callbacks_mutex = None
  /\ m_callbacks_running' = m_callbacks_running + 1
  /\ iocur' = IF m_commands = <<>> THEN None ELSE Head(m_commands)
  /\ m_commands' = IF m_commands = <<>> THEN <<>> ELSE Tail(m_commands)
  /\ iopc' = "call"
  /\ UNCHANGED <<inbox, iocopy, stray, userVars, answer, m_buffer, m_reconnecting,
                 m_callbacks_mutex, detached, aborted, netVars>>

ReceiveCall ==
  /\ iopc = "call"
  /\ answer' = IF iocur = None THEN answer ELSE Answered(iocur, Head(inbox))
  /\ inbox' = Tail(inbox)
  /\ iocur' = None
  /\ iopc' = "done"
  /\ UNCHANGED <<iocopy, stray, userVars, m_commands, m_buffer, m_callbacks_running,
                 m_reconnecting, m_callbacks_mutex, detached, aborted, netVars>>

\* Variant for mutation: the callback's return is not notified.
ReceiveDone_Silent ==
  /\ iopc = "done" /\ m_callbacks_mutex = None
  /\ m_callbacks_running' = m_callbacks_running - 1
  /\ iopc' = IF inbox = <<>> THEN "free" ELSE "pop"
  /\ UNCHANGED <<upc, inbox, iocur, iocopy, stray, sent, ucopy, answer, m_commands, m_buffer,
                 m_reconnecting, m_callbacks_mutex, detached, aborted, netVars>>

ReceiveDone ==
  /\ iopc = "done" /\ m_callbacks_mutex = None
  /\ m_callbacks_running' = m_callbacks_running - 1
  /\ NotifyAll
  /\ iopc' = IF inbox = <<>> THEN "free" ELSE "pop"
  /\ UNCHANGED <<inbox, iocur, iocopy, stray, sent, ucopy, answer, m_commands, m_buffer,
                 m_reconnecting, m_callbacks_mutex, detached, aborted, netVars>>

\* tcp_client_disconnection_handler, then connection_disconnection_handler up to
\* the lock of m_callbacks_mutex
Lost ==
  /\ iopc = "lost"
  /\ m_buffer' = <<>>
  /\ m_reconnecting' = TRUE
  /\ iopc' = "handler"
  /\ UNCHANGED <<inbox, iocur, iocopy, stray, userVars, answer, m_commands,
                 m_callbacks_running, m_callbacks_mutex, detached, aborted, netVars>>

\* Variant for mutation: commands are left to a reconnection that never comes.
HandlerClear_Keep ==
  /\ iopc = "handler" /\ m_callbacks_mutex = None
  /\ m_reconnecting' = FALSE
  /\ iopc' = "off"
  /\ UNCHANGED <<m_callbacks_mutex, iocopy, inbox, iocur, stray, userVars, answer, m_commands, m_buffer,
                 m_callbacks_running, detached, aborted, netVars>>

\* No reconnection is attempted; clear_callbacks under m_callbacks_mutex.
HandlerClear ==
  /\ iopc = "handler" /\ m_callbacks_mutex = None
  /\ IF m_commands = <<>>
     THEN iopc' = "off" /\ m_reconnecting' = FALSE /\ UNCHANGED <<m_callbacks_mutex, iocopy>>
     ELSE /\ iopc' = "move" /\ m_callbacks_mutex' = "io" /\ iocopy' = m_commands
          /\ UNCHANGED m_reconnecting
  /\ UNCHANGED <<inbox, iocur, stray, userVars, answer, m_commands, m_buffer,
                 m_callbacks_running, detached, aborted, netVars>>

HandlerMove ==
  /\ iopc = "move"
  /\ Detach(iocopy)
  /\ iocopy' = <<>>
  /\ m_reconnecting' = FALSE
  /\ m_callbacks_mutex' = None
  /\ iopc' = "off"
  /\ UNCHANGED <<inbox, iocur, stray, userVars, answer, m_buffer, aborted, netVars>>

\* The handler of the other event: it has no request, so its result.success
\* was never written, and is TRUE or FALSE.
StrayEvent ==
  /\ iopc = "off" /\ stray
  /\ stray' = FALSE
  /\ iopc' \in {"off", "lost"}
  /\ UNCHANGED <<inbox, iocur, iocopy, userVars, clientVars, netVars>>

-----------------------------------------------------------------------------
(***************************************************************************)
(* A thread detached by clear_callbacks.  It holds no mutex.                 *)
(***************************************************************************)
\* callback({"network failure", error}).  Setting a future twice throws, and
\* nobody catches it.
DetachedCall(i) ==
  /\ detached[i].todo # <<>> /\ detached[i].stage = "call"
  /\ LET c == Head(detached[i].todo) IN
     IF answer[c] = "none"
     THEN /\ answer' = [answer EXCEPT ![c] = "failure"]
          /\ detached' = [detached EXCEPT ![i].stage = "count"]
          /\ UNCHANGED aborted
     ELSE aborted' = TRUE /\ UNCHANGED <<answer, detached>>
  /\ UNCHANGED <<m_commands, m_buffer, m_callbacks_running, m_reconnecting,
                 m_callbacks_mutex, userVars, ioVars, netVars>>

DetachedCount(i) ==
  /\ detached[i].todo # <<>> /\ detached[i].stage = "count"
  /\ m_callbacks_running' = m_callbacks_running - 1
  /\ detached' = [detached EXCEPT ![i] = [todo |-> Tail(@.todo), stage |-> "call"]]
  /\ UNCHANGED <<answer, m_commands, m_buffer, m_reconnecting, m_callbacks_mutex, aborted,
                 userVars, ioVars, netVars>>

DetachedNotify(i) ==
  /\ detached[i].todo = <<>>
  /\ NotifyAll
  /\ detached' = RemoveAt(detached, i)
  /\ UNCHANGED <<sent, ucopy, answer, m_commands, m_buffer, m_callbacks_running,
                 m_reconnecting, m_callbacks_mutex, aborted, ioVars, netVars>>

-----------------------------------------------------------------------------
(***************************************************************************)
(* The server, the network, and condition variables that wake up by         *)
(* themselves.                                                              *)
(***************************************************************************)
Serve ==
  /\ wire # <<>>
  /\ replies' = Append(replies, Head(wire))
  /\ wire' = Tail(wire)
  /\ UNCHANGED <<userVars, ioVars, clientVars, connected, writes, line>>

\* Replies that have not arrived are lost with the connection.
Drop ==
  /\ line
  /\ line' = FALSE
  /\ wire' = <<>>
  /\ \E n \in 0..Len(replies) : replies' = SubSeq(replies, 1, n)
  /\ UNCHANGED <<userVars, ioVars, clientVars, connected, writes>>

Spurious ==
  /\ upc = "asleep"
  /\ upc' = "wait"
  /\ UNCHANGED <<sent, ucopy, ioVars, clientVars, netVars>>

UserStep == SyncCommit \/ TryCommit \/ UserClear \/ UserMove \/ Wait \/ Block
IoStep   == Read \/ Write \/ Disconnect \/ ReceivePop \/ ReceiveCall \/ ReceiveDone
            \/ Lost \/ HandlerClear \/ HandlerMove \/ StrayEvent
DetachedStep == \E i \in DOMAIN detached :
                  DetachedCall(i) \/ DetachedCount(i) \/ DetachedNotify(i)

Next ==
  /\ ~aborted
  /\ \/ Send \/ CallSyncCommit
     \/ UserStep \/ IoStep \/ DetachedStep
     \/ Serve \/ Drop \/ Spurious

Spec == Init /\ [][Next]_vars

\* Threads that can go on do so, one that waits for the mutex gets it, the
\* server answers and a broken connection is noticed.  The user need not send
\* or commit, the connection need not break, nobody need wake up spuriously.
FairSpec ==
  /\ Spec
  /\ SF_vars(~aborted /\ UserStep) /\ SF_vars(~aborted /\ IoStep)
  /\ WF_vars(~aborted /\ DetachedStep)
  /\ WF_vars(~aborted /\ Serve)

-----------------------------------------------------------------------------
\* A future never gets the reply to another command, however the replies are
\* cut into packets and whenever the connection breaks.
OwnReply == \A c \in Commands : answer[c] # "foreign"

\* When sync_commit returns (rather than throws), each command sent so far has
\* its answer: DBRedis reads its futures without waiting.
SyncIsComplete ==
  [][upc = "wait" /\ upc' = "idle" => \A c \in 1..sent : answer[c] # "none"]_vars

\* The callbacks that the given detached threads have left: <<i, j>> stands for
\* the j-th command thread i still has.
Owed(threads) == UNION {{i} \X (1..Len(threads[i].todo)) : i \in DOMAIN threads}

\* m_callbacks_running counts the callbacks that were taken out of the queue
\* and have not returned, in the worker and in all the detached threads.
RunningCounted ==
  m_callbacks_running = (IF iopc \in {"call", "done"} THEN 1 ELSE 0)
                        + Cardinality(Owed(detached))

\* Every command that was committed is answered, by its reply or by "network
\* failure".
CommittedIsAnswered ==
  \A c \in Commands :
    (c <= sent /\ upc \notin {"idle", "commit", "try"}) ~> (answer[c] # "none" \/ aborted)

\* No wake-up is lost while the connection lasts: sync_commit, which returns when
\* the last callback has, is told so by a worker that counts and notifies under
\* m_callbacks_mutex.  (After a disconnection the detached thread of
\* clear_callbacks does neither under the mutex, and sync_commit may sleep on.)
SyncReturnsWhileConnected == upc # "idle" ~> (upc = "idle" \/ ~line)
=============================================================================
