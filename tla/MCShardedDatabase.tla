------------------------- MODULE MCShardedDatabase -------------------------
(***************************************************************************)
(* Small instances of ShardedDatabase and of its refinement: three keys in *)
(* two shards, a second of two ticks.                                      *)
(***************************************************************************)
EXTENDS ShardedDatabaseRefinement, TLC

CONSTANTS k1, k2, k3, v1, v2, t1, t2

\* k1 and k3 share a shard: a SET of one purges the other.
MCShardOf == (k1 :> 0) @@ (k2 :> 1) @@ (k3 :> 0)

Request(op, keys, value, arg) == [op |-> op, keys |-> keys, value |-> value, arg |-> arg]
On(op, k) == Request(op, <<k>>, Absent, Never)
All(op) == Request(op, << >>, Absent, Never)

\* Every operation the abstract map answers, with the scans in between.
CommandCalls ==
  (t1 :> {Request("SET", <<k1>>, v1, 2), Request("SETAT", <<k1>>, v2, 1),
          Request("DEL", <<k1, k2>>, Absent, Never), Request("EXPIRE", <<k1>>, Absent, 1),
          Request("EXPIREAT", <<k1>>, Absent, 1), Request("EXPIRE", <<k1>>, Absent, TooLong)})
  @@ (t2 :> {Request("SET", <<k2>>, v1, 1), Request("SET", <<k1>>, v2, Never),
             Request("DEL", <<k2, k1>>, Absent, Never), On("GET", k1), On("EXISTS", k1),
             On("TTL", k1), All("FLUSHDB"), All("KEYS"), All("INFO"), All("SWEEP"),
             All("SNAPSHOT"), Request("SET", <<k3>>, v1, TooLong)})
=============================================================================
