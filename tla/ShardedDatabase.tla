-------------------------- MODULE ShardedDatabase --------------------------
(***************************************************************************)
(* ShardedDatabase (crates/rustkv-core/src/db.rs): the store every client  *)
(* task, the TTL worker and the AOF rewrite worker share.  A keyed command *)
(* takes `global` for reading and the lock of the key's shard for writing; *)
(* a command on the whole store takes `global` for writing and visits the  *)
(* shards in order.  `key_count` is an atomic beside the locks that every  *)
(* command corrects by the difference of two lengths.                      *)
(*                                                                         *)
(* One action per step between two points where another task can be seen:  *)
(* a lock granted, the shard changed, the count corrected, the locks       *)
(* dropped.                                                                *)
(***************************************************************************)
EXTENDS Database, FairLock

CONSTANTS
  ShardCount,  \* ServerConfig::shard_count, at least 1
  ShardOf,     \* shard_for_key: the hash modulo the number of shards
  Calls,       \* which commands each task may issue
  MaxTime,     \* bound: the clock stops here
  MaxLeak      \* bound: a TooLong duration is only sent below this leak

Shard == 0 .. ShardCount - 1

ASSUME ShardedDatabaseAssumption ==
  /\ ShardCount \in Nat \ {0}
  /\ ShardOf \in [Key -> Shard]
  /\ Calls \in [Task -> SUBSET Command]
  /\ MaxTime \in Nat
  /\ MaxLeak \in Nat

VARIABLES
  now,         \* the monotonic clock
  shards,      \* shards[s]: the Database of shard s
  keyCount,    \* key_count
  global,      \* the lock over the whole store
  shardLock,   \* shardLock[s]: the lock around shard s
  pc,          \* pc[t]: the await or step task t is at
  cmd,         \* cmd[t]: the command t executes
  at,          \* at[t]: the key of DEL, or the shard, t has reached
  before,      \* before[t]: the keys of the shard when t got its lock
  since,       \* since[t]: the clock when t got `global` for writing
  found,       \* ghost: the entries live in the whole store at that instant
  collected,   \* collected[t]: the entries KEYS or the snapshot gathered
  out,         \* out[t]: the DbOutcome being built
  leaked       \* ghost: entries a panicking SET purged without counting

dbVars == <<shards, keyCount, global, shardLock, leaked>>
taskVars == <<pc, cmd, at, before, since, found, collected, out>>
vars == <<now, dbVars, taskVars>>

NoCommand == [op |-> "NONE", keys |-> << >>, value |-> Absent, arg |-> Never]
NoOutcome == [reply |-> Absent, keyCount |-> 0, expired |-> 0]

Outcome == [reply : Value \cup {Absent} \cup Int, keyCount : Nat, expired : Nat]

Stage == {"idle", "global", "shard", "body", "ttl", "apply", "outcome",
          "scan", "finish", "returned"}

TypeOK ==
  /\ now \in Nat
  /\ shards \in [Shard -> Data]
  /\ keyCount \in Nat
  /\ global \in Lock
  /\ shardLock \in [Shard -> Lock]
  /\ pc \in [Task -> Stage]
  /\ cmd \in [Task -> Command \cup {NoCommand}]
  /\ at \in [Task -> Nat]
  /\ before \in [Task -> SUBSET Key]
  /\ since \in [Task -> Nat]
  /\ found \in [Task -> Data]
  /\ collected \in [Task -> Data]
  /\ out \in [Task -> Outcome]
  /\ leaked \in Nat

Init ==
  /\ now = 0
  /\ shards = [s \in Shard |-> EmptyData]
  /\ keyCount = 0
  /\ global = Unlocked
  /\ shardLock = [s \in Shard |-> Unlocked]
  /\ pc = [t \in Task |-> "idle"]
  /\ cmd = [t \in Task |-> NoCommand]
  /\ at = [t \in Task |-> 0]
  /\ before = [t \in Task |-> {}]
  /\ since = [t \in Task |-> 0]
  /\ found = [t \in Task |-> EmptyData]
  /\ collected = [t \in Task |-> EmptyData]
  /\ out = [t \in Task |-> NoOutcome]
  /\ leaked = 0

IsKeyed(t) == cmd[t].op \in KeyedOp
IsWhole(t) == cmd[t].op \in WholeOp
CurrentKey(t) == cmd[t].keys[at[t]]
CurrentShard(t) == ShardOf[CurrentKey(t)]

\* Every entry of the store that has not expired.
LiveStore == [k \in Key |-> LiveView(shards[ShardOf[k]], now)[k]]

-----------------------------------------------------------------------------
(***************************************************************************)
(* Calling, and getting `global`.                                          *)
(***************************************************************************)
Call(t, c) ==
  /\ pc[t] = "idle"
  /\ c.arg = TooLong => leaked < MaxLeak
  /\ pc' = [pc EXCEPT ![t] = "global"]
  /\ cmd' = [cmd EXCEPT ![t] = c]
  /\ out' = [out EXCEPT ![t] = [NoOutcome EXCEPT !.reply = IF c.op = "DEL" THEN 0 ELSE Absent]]
  /\ global' = Wait(global, t)
  /\ UNCHANGED <<now, shards, keyCount, shardLock, leaked, at, before, since, found, collected>>

EnterKeyed(t) ==
  /\ pc[t] = "global"
  /\ IsKeyed(t)
  /\ CanRead(global, t)
  /\ global' = ReadLock(global, t)
  /\ shardLock' = [shardLock EXCEPT ![ShardOf[cmd[t].keys[1]]] = Wait(@, t)]
  /\ at' = [at EXCEPT ![t] = 1]
  /\ pc' = [pc EXCEPT ![t] = "shard"]
  /\ UNCHANGED <<now, shards, keyCount, leaked, cmd, before, since, found, collected, out>>

\* Mutant: a scan shares `global` with the keyed commands.
EnterWholeReading(t) ==
  /\ pc[t] = "global"
  /\ IsWhole(t)
  /\ CanRead(global, t)
  /\ global' = ReadLock(global, t)
  /\ since' = [since EXCEPT ![t] = now] /\ found' = [found EXCEPT ![t] = LiveStore]
  /\ at' = [at EXCEPT ![t] = 0]
  /\ pc' = [pc EXCEPT ![t] = "scan"]
  /\ UNCHANGED <<now, shards, keyCount, shardLock, leaked, cmd, before, collected, out>>

EnterWhole(t) ==
  /\ pc[t] = "global"
  /\ IsWhole(t)
  /\ CanWrite(global, t)
  /\ global' = WriteLock(global, t)
  /\ since' = [since EXCEPT ![t] = now] /\ found' = [found EXCEPT ![t] = LiveStore]
  /\ at' = [at EXCEPT ![t] = 0]
  /\ pc' = [pc EXCEPT ![t] = "scan"]
  /\ UNCHANGED <<now, shards, keyCount, shardLock, leaked, cmd, before, collected, out>>

-----------------------------------------------------------------------------
(***************************************************************************)
(* A keyed command on the shard of its (current) key.                      *)
(***************************************************************************)
EnterShard(t) ==
  LET s == CurrentShard(t)
  IN  /\ pc[t] = "shard"
      /\ CanWrite(shardLock[s], t)
      /\ shardLock' = [shardLock EXCEPT ![s] = WriteLock(@, t)]
      /\ before' = [before EXCEPT ![t] = Stored(shards[s])]
      /\ pc' = [pc EXCEPT ![t] = "body"]
      /\ UNCHANGED <<now, shards, keyCount, global, leaked, cmd, at, since, found, collected, out>>

\* SET builds its entry, and EXPIRE the new deadline of a live key, from
\* Instant::now() + duration, which panics when it cannot be represented.
Panics(t) ==
  /\ cmd[t].arg = TooLong
  /\ \/ cmd[t].op = "SET"
     \/ cmd[t].op = "EXPIRE" /\ IsLive(shards[CurrentShard(t)], CurrentKey(t), now)

\* TTL on a live volatile entry reads the clock a second time.
ReadsClockAgain(t) ==
  LET e == shards[CurrentShard(t)][CurrentKey(t)]
  IN  /\ cmd[t].op = "TTL"
      /\ e # Absent
      /\ e.expireAt # Never
      /\ ~IsExpired(e, now)

Execute(t) ==
  LET s == CurrentShard(t)
      k == CurrentKey(t)
      answer == Answer(shards[s], cmd[t], k, now)
  IN  /\ pc[t] = "body"
      /\ ~Panics(t)
      /\ ~ReadsClockAgain(t)
      /\ shards' = [shards EXCEPT ![s] = Effect(@, cmd[t], k, now)]
      /\ out' = [out EXCEPT ![t].reply = IF cmd[t].op = "DEL" THEN @ + answer ELSE answer,
                            ![t].expired = @ + ExpiredBy(shards[s], cmd[t], k, now)]
      /\ pc' = [pc EXCEPT ![t] = "apply"]
      /\ UNCHANGED <<now, keyCount, global, shardLock, leaked, cmd, at, before, since, found, collected>>

StartTtl(t) ==
  /\ pc[t] = "body"
  /\ ReadsClockAgain(t)
  /\ pc' = [pc EXCEPT ![t] = "ttl"]
  /\ UNCHANGED <<now, dbVars, cmd, at, before, since, found, collected, out>>

\* Mutant: no second look at whether the entry has expired meanwhile.
TtlRemainingUnchecked(t) ==
  LET s == CurrentShard(t)
      e == shards[s][CurrentKey(t)]
  IN  /\ pc[t] = "ttl"
      /\ out' = [out EXCEPT ![t].reply = TtlSeconds(e, now)]
      /\ pc' = [pc EXCEPT ![t] = "apply"]
      /\ UNCHANGED <<now, dbVars, cmd, at, before, since, found, collected>>

TtlRemaining(t) ==
  LET s == CurrentShard(t)
      k == CurrentKey(t)
      e == shards[s][k]
  IN  /\ pc[t] = "ttl"
      /\ IF IsExpired(e, now)
           THEN /\ shards' = [shards EXCEPT ![s] = RemoveIfExpired(@, k, now)]
                /\ out' = [out EXCEPT ![t].reply = -2, ![t].expired = @ + 1]
           ELSE /\ out' = [out EXCEPT ![t].reply = TtlSeconds(e, now)]
                /\ UNCHANGED shards
      /\ pc' = [pc EXCEPT ![t] = "apply"]
      /\ UNCHANGED <<now, keyCount, global, shardLock, leaked, cmd, at, before, since, found, collected>>

\* The panic unwinds through the guards: the locks are dropped, the purge
\* SET began with stays, apply_len_change is never reached.
Panic(t) ==
  LET s == CurrentShard(t)
      purged == IF cmd[t].op = "SET" THEN RemoveExpired(shards[s], now) ELSE shards[s]
  IN  /\ pc[t] = "body"
      /\ Panics(t)
      /\ shards' = [shards EXCEPT ![s] = purged]
      /\ leaked' = leaked + Cardinality(Stored(shards[s])) - Cardinality(Stored(purged))
      /\ global' = Unlock(global, t)
      /\ shardLock' = [shardLock EXCEPT ![s] = Unlock(@, t)]
      /\ pc' = [pc EXCEPT ![t] = "idle"]
      /\ cmd' = [cmd EXCEPT ![t] = NoCommand]
      /\ at' = [at EXCEPT ![t] = 0]
      /\ before' = [before EXCEPT ![t] = {}]
      /\ out' = [out EXCEPT ![t] = NoOutcome]
      /\ UNCHANGED <<now, keyCount, since, found, collected>>

\* Mutant: a shard that shrank is not subtracted.
LenChangeGrowsOnly(count, old, new) == IF new >= old THEN count + (new - old) ELSE count

\* apply_len_change; the count never goes below zero.
LenChange(count, old, new) ==
  IF new >= old THEN count + (new - old)
                ELSE IF count >= old - new THEN count - (old - new) ELSE 0

\* DEL drops the shard's guard here and goes on with its next key.
ApplyLen(t) ==
  LET s == CurrentShard(t)
      more == cmd[t].op = "DEL" /\ at[t] < Len(cmd[t].keys)
      released == IF cmd[t].op = "DEL"
                    THEN [shardLock EXCEPT ![s] = Unlock(@, t)] ELSE shardLock
  IN  /\ pc[t] = "apply"
      /\ keyCount' = LenChange(keyCount, Cardinality(before[t]), Cardinality(Stored(shards[s])))
      /\ before' = [before EXCEPT ![t] = {}]
      /\ IF more
           THEN /\ at' = [at EXCEPT ![t] = @ + 1]
                /\ shardLock' = [released EXCEPT ![ShardOf[cmd[t].keys[at[t] + 1]]] = Wait(@, t)]
                /\ pc' = [pc EXCEPT ![t] = "shard"]
           ELSE /\ shardLock' = released
                /\ pc' = [pc EXCEPT ![t] = "outcome"]
                /\ UNCHANGED at
      /\ UNCHANGED <<now, shards, global, leaked, cmd, since, found, collected, out>>

\* Mutant: the shard's guard outlives the call.
ReturnOutcomeKeepsShard(t) ==
  /\ pc[t] = "outcome"
  /\ out' = [out EXCEPT ![t].keyCount = keyCount]
  /\ global' = Unlock(global, t)
  /\ at' = [at EXCEPT ![t] = 0]
  /\ pc' = [pc EXCEPT ![t] = "returned"]
  /\ UNCHANGED <<now, shards, keyCount, shardLock, leaked, cmd, before, since, found, collected>>

\* DbOutcome is built from a load of key_count, then the guards are dropped.
ReturnOutcome(t) ==
  /\ pc[t] = "outcome"
  /\ out' = [out EXCEPT ![t].keyCount = keyCount]
  /\ shardLock' = [shardLock EXCEPT ![CurrentShard(t)] = Unlock(@, t)]
  /\ global' = Unlock(global, t)
  /\ at' = [at EXCEPT ![t] = 0]
  /\ pc' = [pc EXCEPT ![t] = "returned"]
  /\ UNCHANGED <<now, shards, keyCount, leaked, cmd, before, since, found, collected>>

-----------------------------------------------------------------------------
(***************************************************************************)
(* A command on the whole store, one shard per step.  The shard's lock is  *)
(* taken and dropped inside the step: with `global` held for writing it is *)
(* never contended (WholeNeverWaits).                                      *)
(***************************************************************************)

\* Mutant: the snapshot too looks at the clock in every shard.
ScannedDataByClock(t, d) ==
  CASE cmd[t].op = "FLUSHDB" -> EmptyData
    [] cmd[t].op = "KEYS"    -> d
    [] OTHER                 -> RemoveExpired(d, now)

\* snapshot_entries retains by the instant it captured before the loop.
ScannedData(t, d) ==
  CASE cmd[t].op = "FLUSHDB"           -> EmptyData
    [] cmd[t].op \in {"INFO", "SWEEP"} -> RemoveExpired(d, now)
    [] cmd[t].op = "SNAPSHOT"          -> RemoveExpired(d, since[t])
    [] cmd[t].op = "KEYS"              -> d

\* Mutant: the expired entries are listed too.
GatheredStale(t, d) ==
  IF cmd[t].op \in {"KEYS", "SNAPSHOT"} THEN d ELSE EmptyData

\* keys() filters by the clock, the snapshot takes all that retain left it.
Gathered(t, d) ==
  CASE cmd[t].op = "KEYS"     -> LiveView(d, now)
    [] cmd[t].op = "SNAPSHOT" -> ScannedData(t, d)
    [] OTHER                  -> EmptyData

Scan(t) ==
  LET s == at[t]
      old == Cardinality(Stored(shards[s]))
      new == Cardinality(Stored(ScannedData(t, shards[s])))
  IN  /\ pc[t] = "scan"
      /\ s < ShardCount
      /\ Free(shardLock[s])
      /\ shards' = [shards EXCEPT ![s] = ScannedData(t, @)]
      /\ IF cmd[t].op \in {"INFO", "SWEEP", "SNAPSHOT"}
           THEN /\ keyCount' = LenChange(keyCount, old, new)
                /\ out' = [out EXCEPT ![t].expired = @ + (old - new)]
           ELSE UNCHANGED <<keyCount, out>>
      /\ collected' = [collected EXCEPT ![t] =
           [k \in Key |-> IF @[k] # Absent THEN @[k] ELSE Gathered(t, shards[s])[k]]]
      /\ at' = [at EXCEPT ![t] = s + 1]
      /\ pc' = [pc EXCEPT ![t] = IF s + 1 = ShardCount THEN "finish" ELSE "scan"]
      /\ UNCHANGED <<now, global, shardLock, leaked, cmd, before, since, found>>

\* Mutant: flushdb leaves the count to the difference of lengths it never took.
FinishKeepsCount(t) ==
  /\ pc[t] = "finish"
  /\ out' = [out EXCEPT ![t].keyCount = keyCount]
  /\ leaked' = IF cmd[t].op = "FLUSHDB" THEN 0 ELSE leaked
  /\ global' = Unlock(global, t)
  /\ at' = [at EXCEPT ![t] = 0]
  /\ since' = [since EXCEPT ![t] = 0] /\ found' = [found EXCEPT ![t] = EmptyData]
  /\ pc' = [pc EXCEPT ![t] = "returned"]
  /\ UNCHANGED <<now, shards, keyCount, shardLock, cmd, before, collected>>

\* flushdb stores 0 in key_count; KEYS returns no outcome.
Finish(t) ==
  LET flush == cmd[t].op = "FLUSHDB"
      count == IF flush THEN 0 ELSE keyCount
  IN  /\ pc[t] = "finish"
      /\ keyCount' = count
      /\ leaked' = IF flush THEN 0 ELSE leaked
      /\ out' = [out EXCEPT ![t].keyCount = IF cmd[t].op = "KEYS" THEN 0 ELSE count]
      /\ global' = Unlock(global, t)
      /\ at' = [at EXCEPT ![t] = 0]
      /\ since' = [since EXCEPT ![t] = 0] /\ found' = [found EXCEPT ![t] = EmptyData]
      /\ pc' = [pc EXCEPT ![t] = "returned"]
      /\ UNCHANGED <<now, shards, shardLock, cmd, before, collected>>

-----------------------------------------------------------------------------
Return(t) ==
  /\ pc[t] = "returned"
  /\ pc' = [pc EXCEPT ![t] = "idle"]
  /\ cmd' = [cmd EXCEPT ![t] = NoCommand]
  /\ out' = [out EXCEPT ![t] = NoOutcome]
  /\ collected' = [collected EXCEPT ![t] = EmptyData]
  /\ UNCHANGED <<now, dbVars, at, before, since, found>>

Tick ==
  /\ now < MaxTime
  /\ now' = now + 1
  /\ UNCHANGED <<dbVars, taskVars>>

\* Everything a task does inside one call of the store.
Step(t) ==
  \/ EnterKeyed(t)
  \/ EnterWhole(t)
  \/ EnterShard(t)
  \/ Execute(t)
  \/ StartTtl(t)
  \/ TtlRemaining(t)
  \/ Panic(t)
  \/ ApplyLen(t)
  \/ ReturnOutcome(t)
  \/ Scan(t)
  \/ Finish(t)

Next ==
  \/ \E t \in Task : Step(t) \/ Return(t) \/ \E c \in Calls[t] : Call(t, c)
  \/ Tick

\* The runtime keeps polling every task it has woken; clients and the clock
\* owe nothing.
Fairness == \A t \in Task : WF_vars(Step(t))

SafeSpec == Init /\ [][Next]_vars

Spec == SafeSpec /\ Fairness

-----------------------------------------------------------------------------
(***************************************************************************)
(* Properties.                                                             *)
(***************************************************************************)

InSection(t) == pc[t] \in {"body", "ttl", "apply"}

\* The keys key_count stands for: the stored ones, except in a shard a
\* command is working on, where the count still shows what it found there.
CountedKeys ==
  {k \in Key :
     \/ /\ shards[ShardOf[k]][k] # Absent
        /\ ~ \E t \in Task : InSection(t) /\ CurrentShard(t) = ShardOf[k]
     \/ \E t \in Task : InSection(t) /\ CurrentShard(t) = ShardOf[k] /\ k \in before[t]}

Flushing ==
  \E t \in Task : cmd[t].op = "FLUSHDB" /\ (pc[t] = "finish" \/ (pc[t] = "scan" /\ at[t] > 0))

\* key_count is exact although every command corrects it outside the data:
\* it counts each stored key once, whatever is interleaved, plus only the
\* entries a panicking SET purged (apply_len_change, flushdb's store(0)).
KeyCountExact == ~Flushing => keyCount = Cardinality(CountedKeys) + leaked

\* A key is only ever stored in the shard its hash selects, so a command on
\* the key and a scan of that shard meet on one lock (shard_for_key).
WellPlaced == \A s \in Shard, k \in Key : shards[s][k] # Absent => ShardOf[k] = s

\* A command on the whole store finds every shard lock free: the global lock
\* keeps the keyed commands out, so it cannot wait in the middle of its scan.
WholeNeverWaits ==
  \A t \in Task : pc[t] = "scan" => \A s \in Shard : Free(shardLock[s])

\* While KEYS, INFO, the TTL sweep or a snapshot goes from shard to shard no
\* other command changes a live entry, so the shards it visits belong together.
ScanSeesFrozenStore ==
  [][\A t \in Task :
       pc[t] = "scan" /\ cmd[t].op # "FLUSHDB" =>
         \A k \in Key :
           LET e == shards[ShardOf[k]][k]
               f == shards'[ShardOf[k]][k]
           IN  f = e \/ (f = Absent /\ IsExpired(e, now))]_vars

\* KEYS reads the clock anew in every shard, so its answer is no single
\* instant's: but it has every key live at its end and none expired at its start.
KeysBracketed ==
  \A t \in Task : pc[t] = "finish" /\ cmd[t].op = "KEYS" =>
    \A k \in Key :
      LET e == shards[ShardOf[k]][k]
      IN  /\ IsLive(shards[ShardOf[k]], k, now) => collected[t][k] = e
          /\ collected[t][k] # Absent => collected[t][k] = e /\ ~IsExpired(e, since[t])

\* The snapshot a rewrite writes is the store at the one instant captured
\* before the scan: every entry live then, none expired then, and nothing a
\* command did since, however long the scan takes (snapshot_entries).
SnapshotOfOneInstant ==
  \A t \in Task : pc[t] = "finish" /\ cmd[t].op = "SNAPSHOT" => collected[t] = found[t]

\* TTL answers -2, -1 or at least 1: never 0 or less for a key it says is
\* there, although the clock moves between its two looks at the entry.
TtlNeverZero ==
  \A t \in Task : pc[t] = "outcome" /\ cmd[t].op = "TTL" =>
    out[t].reply \in {-2, -1} \/ out[t].reply >= 1

\* Every command that was issued completes: the locks form no cycle and the
\* FIFO queues starve neither a reader nor a whole-store command.
EveryCallCompletes ==
  \A t \in Task : pc[t] = "global" ~> pc[t] \in {"returned", "idle"}

-----------------------------------------------------------------------------
(***************************************************************************)
(* The inductive invariant behind KeyCountExact.                           *)
(***************************************************************************)

KeyedStage == {"shard", "body", "ttl", "apply", "outcome"}
WholeStage == {"scan", "finish"}

\* The stage of a task says what kind of command it runs and how far it got.
CommandOK(t) ==
  /\ pc[t] # "idle" => cmd[t] \in Command
  /\ pc[t] \in KeyedStage => IsKeyed(t) /\ at[t] \in 1 .. Len(cmd[t].keys)
  /\ pc[t] \in WholeStage => IsWhole(t)
  /\ pc[t] = "scan" => at[t] < ShardCount
  /\ pc[t] = "ttl" => LET e == shards[CurrentShard(t)][CurrentKey(t)]
                      IN  cmd[t].op = "TTL" /\ e # Absent /\ e.expireAt # Never
  /\ cmd[t].op = "DEL" => out[t].reply \in Int

CommandsOK == \A t \in Task : CommandOK(t)

\* Who holds `global`: the keyed commands for reading, or one whole-store
\* command for writing, never both.
GlobalOK ==
  /\ global.readers = {t \in Task : pc[t] \in KeyedStage}
  /\ global.writers = {t \in Task : pc[t] \in WholeStage}
  /\ \A t, u \in Task : pc[t] \in WholeStage /\ u # t => pc[u] \notin KeyedStage \cup WholeStage

HoldsShard(t) == InSection(t) \/ (pc[t] = "outcome" /\ cmd[t].op # "DEL")

\* Who holds a shard: the one keyed command that works on it.
ShardLocksOK ==
  /\ \A s \in Shard :
       shardLock[s].writers = {t \in Task : HoldsShard(t) /\ CurrentShard(t) = s}
  /\ \A t, u \in Task :
       HoldsShard(t) /\ HoldsShard(u) /\ CurrentShard(t) = CurrentShard(u) => t = u

\* before[t] is what t found, and still what is stored until t changes it.
FoundOK(t) ==
  /\ InSection(t) => \A k \in before[t] : ShardOf[k] = CurrentShard(t)
  /\ pc[t] \in {"body", "ttl"} => before[t] = Stored(shards[CurrentShard(t)])

BeforeOK == \A t \in Task : FoundOK(t)

\* The shards FLUSHDB has passed are empty until it stores the count.
FlushOK ==
  \A t \in Task : cmd[t].op = "FLUSHDB" =>
    \A s \in Shard :
      pc[t] = "finish" \/ (pc[t] = "scan" /\ s < at[t]) => Stored(shards[s]) = {}

\* The count is exact, for reasons that can be checked one step at a time:
\* the locks keep the two lengths of each correction meaningful.
IInv ==
  /\ TypeOK
  /\ WellPlaced
  /\ CommandsOK
  /\ GlobalOK
  /\ ShardLocksOK
  /\ BeforeOK
  /\ FlushOK
  /\ KeyCountExact
=============================================================================
