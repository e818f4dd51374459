----------------------------- MODULE MCExecutor -----------------------------
(***************************************************************************)
(* Two clients, the TTL worker and the rewrite worker's snapshots on two   *)
(* keys of two shards.                                                     *)
(***************************************************************************)
EXTENDS Executor, TLC

CONSTANTS k1, k2, v1, t1, t2, ttlWorker

MCShardOf == (k1 :> 0) @@ (k2 :> 1)

Request(op, keys, value, arg) == [op |-> op, keys |-> keys, value |-> value, arg |-> arg]
On(op, k) == Request(op, <<k>>, Absent, Never)
All(op) == Request(op, << >>, Absent, Never)

ClientCalls ==
  (t1 :> {Request("SET", <<k1>>, v1, 1), On("GET", k1), Request("DEL", <<k1, k2>>, Absent, Never),
          Request("EXPIREAT", <<k2>>, Absent, 0), Request("SET", <<k1>>, v1, TooLong)})
  @@ (t2 :> {Request("SET", <<k2>>, v1, 1), On("TTL", k1), All("INFO"), All("FLUSHDB"),
             All("KEYS"), All("SNAPSHOT")})
  @@ (ttlWorker :> {All("SWEEP")})
=============================================================================
