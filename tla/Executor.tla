------------------------------ MODULE Executor ------------------------------
(***************************************************************************)
(* execute_command (crates/rustkv-core/src/executor.rs) and the TTL worker *)
(* (crates/rustkv-server/src/ttl.rs) over ShardedDatabase, with the        *)
(* ServerStats they keep.  The statistics are atomics written one by one   *)
(* after the store has dropped its locks, so the writes of two tasks can   *)
(* arrive in another order than their commands.  SNAPSHOT is the AOF       *)
(* rewrite worker's call, which writes no statistics (server.rs).          *)
(***************************************************************************)
EXTENDS ShardedDatabase

CONSTANT MaxCommands  \* bound: total_commands stops here

ASSUME ExecutorAssumption == MaxCommands \in Nat

VARIABLES
  stats,      \* ServerStats: the counters INFO reports
  recording,  \* recording[t]: statistics t still has to write, in order
  purged,     \* ghost: entries removed because they had expired
  uncounted,  \* ghost: those of them removed by a snapshot or a panic
  alone       \* ghost, alone[t]: no other task was busy during t's call

execVars == <<stats, recording, purged, uncounted, alone>>
allVars == <<vars, execVars>>

ExecInit ==
  /\ Init
  /\ stats = [total |-> 0, get |-> 0, set |-> 0, del |-> 0, keyCount |-> 0, expired |-> 0]
  /\ recording = [t \in Task |-> << >>]
  /\ purged = 0
  /\ uncounted = 0
  /\ alone = [t \in Task |-> TRUE]

ExecTypeOK ==
  /\ TypeOK
  /\ stats \in [total : 0 .. MaxCommands, get : Nat, set : Nat, del : Nat,
                keyCount : Nat, expired : 0 .. purged]
  /\ stats.get + stats.set + stats.del <= stats.total
  /\ recording \in [Task -> Seq({"keys", "expired"})]
  /\ purged \in Nat
  /\ uncounted \in 0 .. purged
  /\ alone \in [Task -> BOOLEAN]

\* Mutants: the expired keys are added twice; the TTL worker adds them but
\* leaves the key count to the next command.
RecordingTwice(op) == IF op \in {"KEYS", "SNAPSHOT"} THEN << >> ELSE <<"keys", "expired", "expired">>
RecordingSweepless(op) ==
  CASE op \in {"KEYS", "SNAPSHOT"} -> << >>
    [] op = "SWEEP"                -> <<"expired">>
    [] OTHER                       -> <<"keys", "expired">>

\* The statistics written after each command: execute_command stores the key
\* count and then adds the expired keys, the TTL worker the other way round.
RecordingFor(op) ==
  CASE op \in {"KEYS", "SNAPSHOT"} -> << >>
    [] op = "FLUSHDB"              -> <<"keys">>
    [] op = "SWEEP"                -> <<"expired", "keys">>
    [] OTHER                       -> <<"keys", "expired">>

Counted(s, op) ==
  CASE op \in {"SET", "SETAT"} -> [s EXCEPT !.set = @ + 1]
    [] op = "GET"              -> [s EXCEPT !.get = @ + 1]
    [] op = "DEL"              -> [s EXCEPT !.del = @ + 1]
    [] OTHER                   -> s

\* total_commands counts neither INFO nor what the workers do.
Uncounted == {"INFO", "SWEEP", "SNAPSHOT"}

Start(t, c) ==
  /\ c.op \notin Uncounted => stats.total < MaxCommands
  /\ Call(t, c)
  /\ stats' = IF c.op \in Uncounted THEN stats ELSE [stats EXCEPT !.total = @ + 1]
  /\ alone' = [u \in Task |-> IF u = t THEN \A w \in Task \ {t} : pc[w] = "idle"
                                       ELSE pc[u] = "idle" /\ alone[u]]
  /\ UNCHANGED <<recording, purged, uncounted>>

\* PING and an unknown command: only counted.
Ping(t) ==
  /\ pc[t] = "idle"
  /\ stats.total < MaxCommands
  /\ stats' = [stats EXCEPT !.total = @ + 1]
  /\ UNCHANGED <<vars, recording, purged, uncounted, alone>>

\* Expired entries that task t's step removes.  EXPIREAT with a time in the
\* past expires the key it names.
ExpiredNow(t) ==
  {k \in Key :
     LET e == shards[ShardOf[k]][k]
         f == shards'[ShardOf[k]][k]
         purging == pc[t] = "body" /\ cmd[t].op \in {"SET", "SETAT"}
                    /\ ShardOf[k] = CurrentShard(t)
     IN  \/ IsExpired(e, now) /\ (e # f \/ purging)
         \/ e # Absent /\ f = Absent /\ cmd[t].op = "EXPIREAT"}

StoreStep(t) ==
  LET gone == IF cmd[t].op = "FLUSHDB" THEN 0 ELSE Cardinality(ExpiredNow(t))
  IN  /\ Step(t)
      /\ recording' = [recording EXCEPT ![t] =
                         IF pc'[t] = "returned" THEN RecordingFor(cmd[t].op) ELSE @]
      /\ purged' = purged + gone
      /\ uncounted' = IF cmd[t].op = "SNAPSHOT" \/ pc'[t] = "idle" THEN uncounted + gone
                                                                   ELSE uncounted
      /\ UNCHANGED <<stats, alone>>

\* Mutant: the swept keys are stored, not added.
RecordOverwrites(t) ==
  /\ recording[t] # << >>
  /\ stats' = CASE Head(recording[t]) = "keys" ->
                     [Counted(stats, cmd[t].op) EXCEPT !.keyCount = out[t].keyCount]
                [] OTHER -> [stats EXCEPT !.expired = out[t].expired]
  /\ recording' = [recording EXCEPT ![t] = Tail(@)]
  /\ UNCHANGED <<vars, purged, uncounted, alone>>

\* One atomic of the statistics; the get, set and del counters go with the
\* key count that is stored next.
Record(t) ==
  /\ recording[t] # << >>
  /\ stats' = CASE Head(recording[t]) = "keys" ->
                     [Counted(stats, cmd[t].op) EXCEPT !.keyCount = out[t].keyCount]
                [] OTHER -> [stats EXCEPT !.expired = @ + out[t].expired]
  /\ recording' = [recording EXCEPT ![t] = Tail(@)]
  /\ UNCHANGED <<vars, purged, uncounted, alone>>

Reply(t) ==
  /\ recording[t] = << >>
  /\ Return(t)
  /\ UNCHANGED <<stats, recording, purged, uncounted, alone>>

Time == Tick /\ UNCHANGED execVars

ExecNext ==
  \/ \E t \in Task :
       \/ \E c \in Calls[t] : Start(t, c)
       \/ Ping(t) \/ StoreStep(t) \/ Record(t) \/ Reply(t)
  \/ Time

ExecSpec == ExecInit /\ [][ExecNext]_allVars

-----------------------------------------------------------------------------
\* Expired keys a command has found and not yet added to the statistic.
InFlight(t) ==
  IF \/ pc[t] = "idle"
     \/ cmd[t].op = "SNAPSHOT"
     \/ pc[t] = "returned" /\ "expired" \notin {recording[t][i] : i \in 1 .. Len(recording[t])}
  THEN 0 ELSE out[t].expired

\* Every expiry is counted once in expired_keys, whichever of GET, SET, DEL,
\* TTL, the TTL worker or INFO comes across it first; only those a snapshot
\* or a panicking SET removed are missing (executor.rs, ttl.rs).
ExpiredAccounted ==
  stats.expired + uncounted
    + Cardinality(UNION {{t} \X (1 .. InFlight(t)) : t \in Task}) = purged

\* A command that overlapped no other leaves key_count in the statistics
\* exact: what is stale is left by a race and gone with the next quiet command.
QuietCommandSyncs ==
  \A t \in Task :
    /\ pc[t] = "returned" /\ recording[t] = << >>
    /\ cmd[t].op \notin {"KEYS", "SNAPSHOT"}
    /\ alone[t]
    => stats.keyCount = keyCount
=============================================================================
