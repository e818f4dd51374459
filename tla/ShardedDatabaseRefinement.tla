--------------------- MODULE ShardedDatabaseRefinement ---------------------
(***************************************************************************)
(* ShardedDatabase implements KvStore.  The map a caller sees is the live  *)
(* part of the shards, all of it gone as soon as FLUSHDB has cleared the   *)
(* first shard (nobody can look before it has cleared the last).  A command*)
(* takes effect where it changes its shard, TTL where it reads the clock   *)
(* for its answer.                                                         *)
(***************************************************************************)
EXTENDS ShardedDatabase

Seen ==
  [k \in Key |-> IF Flushing THEN Absent ELSE LiveView(shards[ShardOf[k]], now)[k]]

\* Keys of a DEL whose turn is over; the others have at most one.
ServedKeys(t) ==
  CASE IsKeyed(t) /\ pc[t] \in {"shard", "body"} -> at[t] - 1
    [] IsKeyed(t) /\ pc[t] = "apply" /\ at[t] < Len(cmd[t].keys) -> at[t]
    [] OTHER -> 0

Phase(t) ==
  CASE pc[t] = "idle" -> "idle"
    [] pc[t] \in {"outcome", "returned"} -> "done"
    [] pc[t] = "apply" -> IF at[t] = Len(cmd[t].keys) THEN "done" ELSE "pending"
    [] pc[t] \in {"scan", "finish"} ->
         IF cmd[t].op = "FLUSHDB" /\ (pc[t] = "finish" \/ at[t] > 0) THEN "done" ELSE "pending"
    [] OTHER -> "pending"

Abstract == INSTANCE KvStore WITH
  store   <- Seen,
  phase   <- [t \in Task |-> Phase(t)],
  request <- cmd,
  served  <- [t \in Task |-> ServedKeys(t)],
  reply   <- [t \in Task |-> out[t].reply]

\* Every behaviour of the sharded, locked store is one of the plain map: each
\* command takes effect atomically, expired entries are never observable and
\* each answer is the map's (ShardedDatabase, all its operations).
ImplementsKvStore == Abstract!Spec
=============================================================================
