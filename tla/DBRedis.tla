------------------------------- MODULE DBRedis -------------------------------
(***************************************************************************)
(* The Redis client of one DMutex: class DBRedis (src/db-redis.cpp) on top  *)
(* of a cpp_redis::client.  Every DMutexImpl owns one DBRedis and with it    *)
(* one connection, whose selected database SELECT changes.                  *)
(*                                                                         *)
(* A DBRedis operation is a short program: one to three commands, each sent  *)
(* with sync_commit and awaited through its future.  The commands are        *)
(* separate steps, so commands of other connections and the expiry of keys   *)
(* fall between them.  What the program does with a reply is given by the    *)
(* operators below; the threads that run it are in module DMutex.            *)
(***************************************************************************)
EXTENDS RedisStore, Sequences

CONSTANTS
  BadHosts,    \* databases the server refuses to SELECT (index out of range)
  FaultKinds,  \* which faults the environment may inject
  MaxFaults    \* how many of them (bound)

ASSUME ClientAssumption ==
  /\ BadHosts \subseteq Hosts
  /\ FaultKinds \subseteq {"reject", "lost", "cut", "kill"}
  /\ MaxFaults \in Nat

VARIABLES
  keys,        \* the server's databases
  sel,         \* database selected on each connection (0: none of the hosts)
  conn,        \* is the connection up?  connect() allows no reconnection
  faults       \* faults still available to the environment

redisVars == <<keys, sel, conn, faults>>

(***************************************************************************)
(* Replies, as class cpp_redis::reply presents them.                        *)
(***************************************************************************)
StatusReply  == [type |-> "string", body |-> "OK"]
NullReply    == [type |-> "null"]
ErrorReply   == [type |-> "error"]
IntReply(n)  == [type |-> "integer", body |-> n]
BulkReply(v) == [type |-> "string", body |-> v]

\* reply::as_integer() throws redis_error unless the reply is an integer, and
\* reply::as_string() unless it is a string; an error counts as a string.
as_integer_throws(r) == r.type # "integer"
as_string_throws(r)  == r.type \notin {"string", "error"}

(***************************************************************************)
(* What becomes of a command sent on an open connection:                    *)
(*   ok      executed, its reply arrives                                    *)
(*   reject  the server answers with an error and executes nothing          *)
(*   lost    the connection drops before the server saw the command         *)
(*   cut     the connection drops after the server executed it              *)
(* In the last two client::clear_callbacks answers "network failure".       *)
(***************************************************************************)
Fates == {"ok"} \cup (FaultKinds \ {"kill"})

ReplyTo(fate, normal) == IF fate = "ok" THEN normal ELSE ErrorReply

\* Send a command whose execution turns the store into `after'.
Command(m, fate, after) ==
  /\ conn[m]
  /\ fate = "ok" \/ faults > 0
  /\ keys'   = IF fate \in {"ok", "cut"} THEN after ELSE keys
  /\ conn'   = [conn EXCEPT ![m] = fate \notin {"lost", "cut"}]
  /\ faults' = IF fate = "ok" THEN faults ELSE faults - 1

(***************************************************************************)
(* DBRedis::SelectDB: only the reply "OK" is kSelectDBSucceed.               *)
(***************************************************************************)
SelectReply(h) == IF h \in BadHosts THEN ErrorReply ELSE StatusReply

SelectResult(r) ==
  CASE as_string_throws(r) -> "throw"
    [] r.type = "string"   -> "kSelectDBSucceed"
    [] OTHER               -> "kSelectDBFailed"

(***************************************************************************)
(* DBRedis::SetKeyValue: SET NX PX, one command.                            *)
(***************************************************************************)
SetKeyValue_NoPx(h, v) == SetNx(keys, h, v)   \* variant for mutation: px is false
SetKeyValue(h, v) == SetNxPx(keys, h, v)

SetReply(h) == IF Exists(keys, h) THEN NullReply ELSE StatusReply

\* Variant for mutation: an error reply counts as success.
SetKeyValueResult_AnyReply(r) ==
  IF r.type = "null" THEN "kKeyExist" ELSE "kSetKeySucceed"

SetKeyValueResult(r) ==
  CASE r.type = "null"                 -> "kKeyExist"
    [] r.type \notin {"null", "error"} -> "kSetKeySucceed"
    [] r.type = "error"                -> "kSetKeyFailed"

(***************************************************************************)
(* DBRedis::UpdateExpire and DBRedis::DelKeyValue start alike: EXISTS, then  *)
(* GET when the key exists.  They go on to                                  *)
(*   UpdateExpire: SetKeyValue when absent, PEXPIRE when the value matches   *)
(*   DelKeyValue:  kKeyDoesNotExist when absent, DEL when the value matches  *)
(***************************************************************************)
ExistsReply(h) == IntReply(IF Exists(keys, h) THEN 1 ELSE 0)

AfterExists(r) ==
  IF as_integer_throws(r) THEN "throw"
  ELSE IF r.body = 0 THEN "absent" ELSE "present"

GetReply(h) == IF Exists(keys, h) THEN BulkReply(keys[h].val) ELSE NullReply

\* Variant for mutation: the value is not compared.
AfterGet_AnyValue(r, v) ==
  CASE as_string_throws(r)                 -> "throw"
    [] r.type = "string"                   -> "match"
    [] OTHER                               -> "kKeyValueWrong"

AfterGet(r, v) ==
  CASE as_string_throws(r)                 -> "throw"
    [] r.type = "string" /\ r.body = v     -> "match"
    [] OTHER                               -> "kKeyValueWrong"

\* PEXPIRE and DEL answer with the number of keys they touched.
TouchedReply(h) == IntReply(IF Exists(keys, h) THEN 1 ELSE 0)

UpdateResult(r) ==
  IF as_integer_throws(r) THEN "throw"
  ELSE IF r.body = 1 THEN "kUpdateKeySucceed" ELSE "kUpdateKeyFailed"

DelResult(r) ==
  IF as_integer_throws(r) THEN "throw"
  ELSE IF r.body = 1 THEN "kDelKeySucceed" ELSE "kDelKeyFailed"

RedisInit ==
  /\ keys   = EmptyStore
  /\ sel    = [m \in Mutexes |-> 0]
  /\ conn   = [m \in Mutexes |-> TRUE]
  /\ faults = MaxFaults

RedisTypeOK ==
  /\ keys \in Store
  /\ sel \in [Mutexes -> 0..HostCount]
  /\ conn \in [Mutexes -> BOOLEAN]
  /\ faults \in 0..MaxFaults
=============================================================================
