----------------------- MODULE ShardedDatabaseProofs ------------------------
(***************************************************************************)
(* Proofs about ShardedDatabase, for every number of shards, tasks, keys   *)
(* and commands: the type invariant, the exactness of key_count, what the  *)
(* commands on the whole store find and leave, and that it implements the  *)
(* plain map of KvStore.                                                   *)
(***************************************************************************)
EXTENDS ShardedDatabaseRefinement, FiniteSetTheorems, TLAPS

-----------------------------------------------------------------------------
(***************************************************************************)
(* Finite sets of keys.                                                    *)
(***************************************************************************)

\* Every set of keys has a natural number of elements.
LEMMA KeySetsCounted ==
  ASSUME NEW S \in SUBSET Key
  PROVE  IsFiniteSet(S) /\ Cardinality(S) \in Nat
BY DatabaseAssumption, FS_Subset, FS_CardinalityType

\* A subset is no larger.
LEMMA SubsetCounted ==
  ASSUME NEW S \in SUBSET Key, NEW T \in SUBSET S
  PROVE  Cardinality(T) <= Cardinality(S)
BY KeySetsCounted, FS_Subset

\* Taking one part of a set of keys away and putting keys in that were not
\* in the rest changes the size by the difference of the two parts, which is
\* what apply_len_change relies on.
LEMMA PartReplaced ==
  ASSUME NEW C \in SUBSET Key, NEW old \in SUBSET C, NEW new \in SUBSET Key,
         new \cap (C \ old) = {}
  PROVE  /\ Cardinality((C \ old) \cup new) = Cardinality(C) - Cardinality(old) + Cardinality(new)
         /\ Cardinality(old) <= Cardinality(C)
<1>1. PICK rest \in SUBSET Key : rest = C \ old
  OBVIOUS
<1>2. /\ IsFiniteSet(C) /\ IsFiniteSet(old) /\ IsFiniteSet(new) /\ IsFiniteSet(rest)
      /\ Cardinality(C) \in Nat /\ Cardinality(old) \in Nat
      /\ Cardinality(new) \in Nat /\ Cardinality(rest) \in Nat
  BY KeySetsCounted
<1>3. Cardinality({}) = 0
  BY FS_EmptySet
<1>4. Cardinality(C) = Cardinality(rest) + Cardinality(old)
  <2>1. Cardinality(rest \cup old) = Cardinality(rest) + Cardinality(old) - Cardinality(rest \cap old)
    BY <1>2, FS_Union
  <2>2. rest \cup old = C /\ rest \cap old = {}
    BY <1>1
  <2>3. Cardinality(C) = Cardinality(rest) + Cardinality(old) - Cardinality({})
    BY <2>1, <2>2, Zenon
  <2> QED BY <1>2, <1>3, <2>3
<1>5. Cardinality(rest \cup new) = Cardinality(rest) + Cardinality(new)
  <2>1. Cardinality(rest \cup new) = Cardinality(rest) + Cardinality(new) - Cardinality(rest \cap new)
    BY <1>2, FS_Union
  <2>2. rest \cap new = {}
    BY <1>1
  <2>3. Cardinality(rest \cup new) = Cardinality(rest) + Cardinality(new) - Cardinality({})
    BY <2>1, <2>2, Zenon
  <2> QED BY <1>2, <1>3, <2>3
<1> QED BY <1>1, <1>2, <1>4, <1>5

-----------------------------------------------------------------------------
(***************************************************************************)
(* What the operations on one shard return.                                *)
(***************************************************************************)

\* retain keeps the type and only ever removes.
LEMMA LiveViewFacts ==
  ASSUME NEW d \in Data, NEW time \in Nat
  PROVE  /\ LiveView(d, time) \in Data
         /\ Stored(LiveView(d, time)) \subseteq Stored(d)
BY DEF LiveView, Data, Stored

LEMMA RemoveIfExpiredFacts ==
  ASSUME NEW d \in Data, NEW k \in Key, NEW time \in Nat
  PROVE  /\ RemoveIfExpired(d, k, time) \in Data
         /\ Stored(RemoveIfExpired(d, k, time)) \subseteq Stored(d)
BY DEF RemoveIfExpired, Data, Stored

\* A command other than a panicking one leaves well-typed data; only SET and
\* SETAT can add a key, and only their own.
LEMMA EffectFacts ==
  ASSUME NEW d \in Data, NEW c \in Command, NEW k \in Key, NEW time \in Nat,
         c.op \in KeyedOp,
         c.arg = TooLong => c.op # "SET" /\ (c.op = "EXPIRE" => ~IsLive(d, k, time))
  PROVE  /\ Effect(d, c, k, time) \in Data
         /\ Stored(Effect(d, c, k, time)) \subseteq Stored(d) \cup {k}
         /\ c.op \notin {"SET", "SETAT"} => Stored(Effect(d, c, k, time)) \subseteq Stored(d)
<1> DEFINE e == Effect(d, c, k, time)
<1>1. /\ c.arg \in Nat \cup {Never, TooLong}
      /\ c.op \in {"SET", "SETAT"} => c.value \in Value
      /\ c.op \in {"SETAT", "EXPIREAT"} => c.arg \in Nat
      /\ c.op = "EXPIRE" => c.arg \in Nat \cup {TooLong}
  BY DEF Command
<1>2. /\ RemoveIfExpired(d, k, time) \in Data
      /\ Stored(RemoveIfExpired(d, k, time)) \subseteq Stored(d)
  BY RemoveIfExpiredFacts
<1>3. /\ RemoveExpired(d, time) \in Data
      /\ Stored(RemoveExpired(d, time)) \subseteq Stored(d)
  BY LiveViewFacts DEF RemoveExpired
<1>4. CASE c.op = "SET"
  <2>1. e = [RemoveExpired(d, time) EXCEPT ![k] = [value |-> c.value, expireAt |-> Deadline(c.arg, time)]]
    BY <1>4 DEF Effect, DbSet
  <2>2. [value |-> c.value, expireAt |-> Deadline(c.arg, time)] \in Entry
    BY <1>1, <1>4 DEF Entry, Deadline
  <2> QED BY <1>3, <1>4, <2>1, <2>2 DEF Data, Stored
<1>5. CASE c.op = "SETAT"
  <2>1. e = IF c.arg <= time
              THEN [RemoveExpired(d, time) EXCEPT ![k] = Absent]
              ELSE [RemoveExpired(d, time) EXCEPT ![k] = [value |-> c.value, expireAt |-> c.arg]]
    BY <1>5 DEF Effect, DbSetAt
  <2>2. [value |-> c.value, expireAt |-> c.arg] \in Entry
    BY <1>1, <1>5 DEF Entry
  <2> QED BY <1>3, <1>5, <2>1, <2>2 DEF Data, Stored
<1>6. CASE c.op = "DEL"
  <2>1. e = [d EXCEPT ![k] = Absent]
    BY <1>6 DEF Effect, DbDel
  <2> QED BY <1>6, <2>1 DEF Data, Stored
<1>7. CASE c.op = "EXPIRE"
  <2> DEFINE p == RemoveIfExpired(d, k, time)
  <2>1. e = IF p[k] = Absent THEN p ELSE [p EXCEPT ![k].expireAt = time + Second * c.arg]
    BY <1>7 DEF Effect, DbExpire
  <2>2. CASE p[k] = Absent
    BY <1>2, <2>1, <2>2
  <2>3. CASE p[k] # Absent
    <3>1. IsLive(d, k, time)
      BY <2>3 DEF RemoveIfExpired, IsLive, IsExpired, Data
    <3>2. time + Second * c.arg \in Nat
      BY <1>1, <1>7, <3>1, DatabaseAssumption
    <3>3. [p[k] EXCEPT !.expireAt = time + Second * c.arg] \in Entry
      BY <1>2, <2>3, <3>2 DEF Data, Entry
    <3>4. e = [p EXCEPT ![k] = [p[k] EXCEPT !.expireAt = time + Second * c.arg]]
      BY <2>1, <2>3
    <3> QED BY <1>2, <2>3, <3>3, <3>4, DatabaseAssumption DEF Data, Stored
  <2> QED BY <2>2, <2>3
<1>8. CASE c.op = "EXPIREAT"
  <2> DEFINE p == RemoveIfExpired(d, k, time)
  <2>1. e = DbExpireAt(d, k, c.arg, time)
    BY <1>8 DEF Effect
  <2>2. CASE c.arg <= time
    <3>1. e = [p EXCEPT ![k] = Absent]
      BY <1>1, <1>8, <2>1, <2>2 DEF DbExpireAt
    <3> QED BY <1>2, <3>1 DEF Data, Stored
  <2>3. CASE c.arg > time /\ p[k] = Absent
    BY <1>1, <1>2, <1>8, <2>1, <2>3 DEF DbExpireAt
  <2>4. CASE c.arg > time /\ p[k] # Absent
    <3>1. e = [p EXCEPT ![k] = [p[k] EXCEPT !.expireAt = c.arg]]
      BY <1>1, <1>8, <2>1, <2>4 DEF DbExpireAt
    <3>2. [p[k] EXCEPT !.expireAt = c.arg] \in Entry
      BY <1>1, <1>2, <1>8, <2>4 DEF Data, Entry
    <3> QED BY <1>2, <2>4, <3>1, <3>2, DatabaseAssumption DEF Data, Stored
  <2> QED BY <1>1, <1>8, <2>2, <2>3, <2>4
<1>9. CASE c.op \in {"GET", "EXISTS", "TTL"}
  <2>1. e = RemoveIfExpired(d, k, time)
    BY <1>9 DEF Effect
  <2> QED BY <1>2, <2>1
<1> QED BY <1>4, <1>5, <1>6, <1>7, <1>8, <1>9 DEF KeyedOp

\* Answers are values, counts or Absent; DEL counts a key only if it is there.
LEMMA AnswerFacts ==
  ASSUME NEW d \in Data, NEW c \in Command, NEW k \in Key, NEW time \in Nat
  PROVE  /\ Answer(d, c, k, time) \in Value \cup {Absent} \cup Int
         /\ c.op = "DEL" => \/ Answer(d, c, k, time) = 0
                            \/ Answer(d, c, k, time) = 1 /\ k \in Stored(d)
<1>1. CASE c.op \in {"SET", "SETAT"}
  BY <1>1 DEF Answer
<1>2. CASE c.op = "GET"
  <2>1. IsLive(d, k, time) => d[k].value \in Value
    BY DEF IsLive, Data, Entry
  <2> QED BY <1>2, <2>1 DEF Answer
<1>3. CASE c.op = "TTL"
  BY <1>3 DEF Answer
<1>4. CASE c.op \notin {"SET", "SETAT", "GET", "TTL"}
  BY <1>4 DEF Answer, IsLive, Stored
<1> QED BY <1>1, <1>2, <1>3, <1>4

\* No operation counts a negative number of expired entries: DEL does not
\* count the key it answers for, the others never add one.
LEMMA ExpiredByFacts ==
  ASSUME NEW d \in Data, NEW c \in Command, NEW k \in Key, NEW time \in Nat,
         c.op \in KeyedOp,
         c.arg = TooLong => c.op # "SET" /\ (c.op = "EXPIRE" => ~IsLive(d, k, time))
  PROVE  ExpiredBy(d, c, k, time) \in Nat
<1> DEFINE e == Effect(d, c, k, time)
           gone == Cardinality(Stored(d)) - Cardinality(Stored(e))
<1>1. Stored(d) \in SUBSET Key /\ Stored(e) \in SUBSET Key /\ Stored(RemoveExpired(d, time)) \in SUBSET Key
  BY DEF Stored
<1>2. /\ Cardinality(Stored(d)) \in Nat
      /\ Cardinality(Stored(e)) \in Nat
      /\ Cardinality(Stored(RemoveExpired(d, time))) \in Nat
  BY <1>1, KeySetsCounted
<1>3. CASE c.op \in {"SET", "SETAT"}
  <2>1. Stored(RemoveExpired(d, time)) \subseteq Stored(d)
    BY LiveViewFacts DEF RemoveExpired
  <2>2. Cardinality(Stored(RemoveExpired(d, time))) <= Cardinality(Stored(d))
    BY <1>1, <2>1, SubsetCounted
  <2>3. ExpiredBy(d, c, k, time) = Cardinality(Stored(d)) - Cardinality(Stored(RemoveExpired(d, time)))
    BY <1>3 DEF ExpiredBy
  <2> QED BY <1>2, <2>2, <2>3
<1>4. CASE c.op \notin {"SET", "SETAT", "DEL"}
  <2>1. Stored(e) \subseteq Stored(d)
    BY <1>4, EffectFacts
  <2>2. Cardinality(Stored(e)) <= Cardinality(Stored(d))
    BY <1>1, <2>1, SubsetCounted
  <2>3. ExpiredBy(d, c, k, time) = gone
    BY <1>4 DEF ExpiredBy
  <2> QED BY <1>2, <2>2, <2>3
<1>5. CASE c.op = "DEL"
  <2>1. ExpiredBy(d, c, k, time) = gone - Answer(d, c, k, time)
    BY <1>5 DEF ExpiredBy
  <2>2. e = [d EXCEPT ![k] = Absent]
    BY <1>5 DEF Effect, DbDel
  <2>3. Stored(e) = Stored(d) \ {k}
    BY <2>2 DEF Stored, Data
  <2>4. CASE k \in Stored(d)
    <3>1. Cardinality(Stored(d) \ {k}) = Cardinality(Stored(d)) - 1
      BY <1>1, <2>4, KeySetsCounted, FS_RemoveElement
    <3>2. gone = 1
      BY <1>2, <2>3, <3>1
    <3> QED BY <1>5, <2>1, <3>2, AnswerFacts
  <2>5. CASE k \notin Stored(d)
    <3>1. Stored(e) = Stored(d)
      BY <2>3, <2>5
    <3>2. gone = 0
      BY <1>2, <3>1
    <3> QED BY <1>5, <2>1, <2>5, <3>2, AnswerFacts
  <2> QED BY <2>4, <2>5
<1> QED BY <1>3, <1>4, <1>5

\* The count stays a natural number, and an exact correction is exact.
LEMMA LenChangeFacts ==
  ASSUME NEW count \in Nat, NEW old \in Nat, NEW new \in Nat
  PROVE  /\ LenChange(count, old, new) \in Nat
         /\ old <= count => LenChange(count, old, new) = count - old + new
BY DEF LenChange

-----------------------------------------------------------------------------
(***************************************************************************)
(* Locks, and what the stage of a task says.                               *)
(***************************************************************************)

\* What waiting for a lock, being granted it and dropping it change.
LEMMA LockFacts ==
  ASSUME NEW lock \in Lock, NEW t \in Task
  PROVE  /\ Wait(lock, t) \in Lock
         /\ Wait(lock, t).readers = lock.readers
         /\ Wait(lock, t).writers = lock.writers
         /\ Unlock(lock, t) \in Lock
         /\ Unlock(lock, t).readers = lock.readers \ {t}
         /\ Unlock(lock, t).writers = lock.writers \ {t}
         /\ First(lock, t) => /\ ReadLock(lock, t) \in Lock
                              /\ ReadLock(lock, t).readers = lock.readers \cup {t}
                              /\ ReadLock(lock, t).writers = lock.writers
                              /\ WriteLock(lock, t) \in Lock
                              /\ WriteLock(lock, t).readers = lock.readers
                              /\ WriteLock(lock, t).writers = lock.writers \cup {t}
<1>1. /\ lock = [readers |-> lock.readers, writers |-> lock.writers, queue |-> lock.queue]
      /\ lock.readers \in SUBSET Task /\ lock.writers \in SUBSET Task /\ lock.queue \in Seq(Task)
  BY DEF Lock
<1>2. Append(lock.queue, t) \in Seq(Task)
  BY <1>1
<1>3. First(lock, t) => Tail(lock.queue) \in Seq(Task)
  BY <1>1 DEF First
<1>4. /\ lock.readers \cup {t} \in SUBSET Task /\ lock.writers \cup {t} \in SUBSET Task
      /\ lock.readers \ {t} \in SUBSET Task /\ lock.writers \ {t} \in SUBSET Task
  BY <1>1
<1>5. Wait(lock, t) = [readers |-> lock.readers, writers |-> lock.writers, queue |-> Append(lock.queue, t)]
  BY DEF Wait, Lock
<1> QED BY <1>1, <1>2, <1>3, <1>4, <1>5 DEF Lock, Unlock, ReadLock, WriteLock

\* A command is never the placeholder of an idle task, and a keyed one has
\* keys.
LEMMA CommandFacts ==
  ASSUME NEW c \in Command
  PROVE  /\ c.op \in KeyedOp \cup WholeOp
         /\ c.keys \in Seq(Key)
         /\ c.op \in KeyedOp => 1 \in 1 .. Len(c.keys)
         /\ \A i \in 1 .. Len(c.keys) : c.keys[i] \in Key
         /\ c.value \in Value \cup {Absent}
         /\ c.arg \in Nat \cup {Never, TooLong}
BY DEF Command, KeyedOp, WholeOp

\* A task that runs a keyed command works on a key, in that key's shard.
LEMMA KeyedTask ==
  ASSUME TypeOK, CommandsOK, NEW t \in Task, pc[t] \in KeyedStage
  PROVE  /\ cmd[t] \in Command
         /\ cmd[t].op \in KeyedOp
         /\ cmd[t].op \notin WholeOp
         /\ at[t] \in 1 .. Len(cmd[t].keys)
         /\ CurrentKey(t) \in Key
         /\ CurrentShard(t) \in Shard
<1>1. cmd[t] \in Command /\ cmd[t].op \in KeyedOp /\ at[t] \in 1 .. Len(cmd[t].keys)
  BY DEF CommandsOK, CommandOK, KeyedStage, IsKeyed
<1>2. CurrentKey(t) \in Key
  BY <1>1, CommandFacts DEF CurrentKey
<1>3. CurrentShard(t) \in Shard
  BY <1>2, ShardedDatabaseAssumption DEF CurrentShard
<1> QED BY <1>1, <1>2, <1>3 DEF KeyedOp, WholeOp

-----------------------------------------------------------------------------
(***************************************************************************)
(* How the counted keys move.                                              *)
(***************************************************************************)

\* The counted keys stay what they are while no task enters or leaves its
\* section and only shards inside a section change.
LEMMA CountedKept ==
  ASSUME \A u \in Task : /\ InSection(u)' <=> InSection(u)
                         /\ InSection(u) => CurrentShard(u)' = CurrentShard(u) /\ before'[u] = before[u],
         \A k \in Key : \/ shards'[ShardOf[k]][k] = shards[ShardOf[k]][k]
                        \/ \E u \in Task : InSection(u) /\ CurrentShard(u) = ShardOf[k]
  PROVE  CountedKeys' = CountedKeys
<1> SUFFICES ASSUME NEW k \in Key
             PROVE  k \in CountedKeys' <=> k \in CountedKeys
  BY DEF CountedKeys
<1> QED BY DEF CountedKeys

\* A task that leaves its section replaces the keys it found by those it
\* leaves, and nobody else's keys are touched.
LEMMA SectionLeft ==
  ASSUME ShardLocksOK, BeforeOK, WellPlaced', NEW t \in Task, InSection(t), ~InSection(t)',
         CurrentShard(t) \in Shard,
         before[t] \in SUBSET Key,
         \A u \in Task \ {t} : /\ InSection(u)' <=> InSection(u)
                               /\ InSection(u) => CurrentShard(u)' = CurrentShard(u) /\ before'[u] = before[u],
         \A k \in Key : ShardOf[k] # CurrentShard(t) => shards'[ShardOf[k]][k] = shards[ShardOf[k]][k]
  PROVE  LET new == Stored(shards'[CurrentShard(t)])
         IN  /\ CountedKeys' = (CountedKeys \ before[t]) \cup new
             /\ before[t] \subseteq CountedKeys
             /\ new \cap (CountedKeys \ before[t]) = {}
<1> DEFINE s == CurrentShard(t)
           new == Stored(shards'[s])
<1>1. \A u \in Task \ {t} : InSection(u) => CurrentShard(u) # s
  BY DEF ShardLocksOK, HoldsShard
<1>2. \A k \in before[t] : ShardOf[k] = s
  BY DEF BeforeOK, FoundOK
<1>3. \A k \in new : k \in Key /\ ShardOf[k] = s
  BY DEF WellPlaced, Stored
<1>4. \A k \in Key : ShardOf[k] = s => (k \in CountedKeys <=> k \in before[t])
  BY <1>1 DEF CountedKeys
<1>5. \A k \in Key : ShardOf[k] = s => (k \in CountedKeys' <=> k \in new)
  BY <1>1 DEF CountedKeys, Stored
<1>6. \A k \in Key : ShardOf[k] # s => (k \in CountedKeys' <=> k \in CountedKeys)
  BY <1>1 DEF CountedKeys
<1>7. CountedKeys \subseteq Key /\ CountedKeys' \subseteq Key
  BY DEF CountedKeys
<1> QED BY <1>2, <1>3, <1>4, <1>5, <1>6, <1>7

\* A task whose own variables and shard stay put keeps all that is said of it.
LEMMA Bystander ==
  ASSUME NEW u, pc'[u] = pc[u], cmd'[u] = cmd[u], at'[u] = at[u]
  PROVE  /\ InSection(u)' <=> InSection(u)
         /\ HoldsShard(u)' <=> HoldsShard(u)
         /\ CurrentKey(u)' = CurrentKey(u)
         /\ CurrentShard(u)' = CurrentShard(u)
         /\ IsKeyed(u)' <=> IsKeyed(u)
         /\ IsWhole(u)' <=> IsWhole(u)
BY DEF InSection, HoldsShard, CurrentKey, CurrentShard, IsKeyed, IsWhole

\* What a step of task t leaves alone: the variables of all other tasks, and
\* the shards they work on.
OthersStay(t) ==
  \A u \in Task \ {t} :
    /\ pc'[u] = pc[u] /\ cmd'[u] = cmd[u] /\ at'[u] = at[u]
    /\ before'[u] = before[u] /\ out'[u] = out[u]
    /\ InSection(u) => shards'[CurrentShard(u)] = shards[CurrentShard(u)]

LEMMA OthersKept ==
  ASSUME CommandsOK, BeforeOK, NEW t, OthersStay(t)
  PROVE  \A u \in Task \ {t} :
           /\ CommandOK(u)'
           /\ FoundOK(u)'
           /\ InSection(u)' <=> InSection(u)
           /\ HoldsShard(u)' <=> HoldsShard(u)
           /\ CurrentShard(u)' = CurrentShard(u)
<1> TAKE u \in Task \ {t}
<1>1. /\ pc'[u] = pc[u] /\ cmd'[u] = cmd[u] /\ at'[u] = at[u]
      /\ before'[u] = before[u] /\ out'[u] = out[u]
      /\ InSection(u) => shards'[CurrentShard(u)] = shards[CurrentShard(u)]
  BY DEF OthersStay
<1>2. /\ InSection(u)' <=> InSection(u)
      /\ HoldsShard(u)' <=> HoldsShard(u)
      /\ CurrentKey(u)' = CurrentKey(u)
      /\ CurrentShard(u)' = CurrentShard(u)
      /\ IsKeyed(u)' <=> IsKeyed(u)
      /\ IsWhole(u)' <=> IsWhole(u)
  BY <1>1, Bystander
<1>3. CommandOK(u)'
  <2>1. CommandOK(u)
    BY DEF CommandsOK
  <2>2. pc[u] = "ttl" => InSection(u)
    BY DEF InSection
  <2> QED BY <1>1, <1>2, <2>1, <2>2 DEF CommandOK
<1>4. FoundOK(u)'
  <2>1. FoundOK(u)
    BY DEF BeforeOK
  <2>2. pc[u] \in {"body", "ttl"} => InSection(u)
    BY DEF InSection
  <2> QED BY <1>1, <1>2, <2>1, <2>2 DEF FoundOK
<1> QED BY <1>2, <1>3, <1>4

\* A step that neither enters nor leaves a section and changes at most the
\* shard its task works on.
LEMMA QuietStep ==
  ASSUME IInv, NEW t \in Task, OthersStay(t), CommandOK(t)', FoundOK(t)',
         InSection(t)' <=> InSection(t), InSection(t) => before'[t] = before[t],
         HoldsShard(t)' <=> HoldsShard(t), HoldsShard(t) => CurrentShard(t)' = CurrentShard(t),
         \A s \in Shard : shardLock'[s].writers = shardLock[s].writers,
         \A k \in Key : \/ shards'[ShardOf[k]][k] = shards[ShardOf[k]][k]
                        \/ InSection(t) /\ CurrentShard(t) = ShardOf[k]
  PROVE  CommandsOK' /\ BeforeOK' /\ ShardLocksOK' /\ CountedKeys' = CountedKeys
<1>1. \A u \in Task \ {t} :
        /\ CommandOK(u)' /\ FoundOK(u)'
        /\ InSection(u)' <=> InSection(u)
        /\ HoldsShard(u)' <=> HoldsShard(u)
        /\ CurrentShard(u)' = CurrentShard(u)
  BY OthersKept DEF IInv
<1>2. CommandsOK' /\ BeforeOK'
  BY <1>1 DEF CommandsOK, BeforeOK
<1>3. ShardLocksOK'
  BY <1>1 DEF IInv, ShardLocksOK
<1>4. \A u \in Task : /\ InSection(u)' <=> InSection(u)
                      /\ InSection(u) => /\ CurrentShard(u)' = CurrentShard(u)
                                         /\ before'[u] = before[u]
  BY <1>1 DEF OthersStay, HoldsShard
<1>5. CountedKeys' = CountedKeys
  BY <1>4, CountedKept
<1> QED BY <1>2, <1>3, <1>5

\* A task drops the guard of its shard, if it still has it.
LEMMA ShardDropped ==
  ASSUME ShardLocksOK, NEW t \in Task, ~HoldsShard(t)',
         \A u \in Task \ {t} : /\ HoldsShard(u)' <=> HoldsShard(u)
                               /\ CurrentShard(u)' = CurrentShard(u),
         shardLock'[CurrentShard(t)].writers = shardLock[CurrentShard(t)].writers \ {t},
         \A r \in Shard \ {CurrentShard(t)} : shardLock'[r].writers = shardLock[r].writers
  PROVE  ShardLocksOK'
BY DEF ShardLocksOK

\* When a task leaves its section the number of counted keys changes by the
\* difference between what it found in its shard and what it leaves there.
LEMMA SectionLeftCounted ==
  ASSUME TypeOK, ShardLocksOK, BeforeOK, WellPlaced',
         NEW t \in Task, InSection(t), ~InSection(t)', CurrentShard(t) \in Shard, OthersStay(t),
         \A k \in Key : ShardOf[k] # CurrentShard(t) => shards'[ShardOf[k]][k] = shards[ShardOf[k]][k]
  PROVE  /\ Cardinality(CountedKeys') = Cardinality(CountedKeys) - Cardinality(before[t])
                                         + Cardinality(Stored(shards'[CurrentShard(t)]))
         /\ Cardinality(before[t]) <= Cardinality(CountedKeys)
<1> DEFINE new == Stored(shards'[CurrentShard(t)])
<1>1. before[t] \in SUBSET Key /\ new \in SUBSET Key /\ CountedKeys \in SUBSET Key
  BY DEF TypeOK, Stored, CountedKeys
<1>2. \A u \in Task \ {t} : /\ InSection(u)' <=> InSection(u)
                            /\ InSection(u) => CurrentShard(u)' = CurrentShard(u) /\ before'[u] = before[u]
  BY Bystander DEF OthersStay
<1>3. /\ CountedKeys' = (CountedKeys \ before[t]) \cup new
      /\ before[t] \subseteq CountedKeys
      /\ new \cap (CountedKeys \ before[t]) = {}
  BY <1>1, <1>2, SectionLeft
<1>4. /\ Cardinality((CountedKeys \ before[t]) \cup new)
           = Cardinality(CountedKeys) - Cardinality(before[t]) + Cardinality(new)
      /\ Cardinality(before[t]) <= Cardinality(CountedKeys)
  BY <1>1, <1>3, PartReplaced
<1> QED BY <1>3, <1>4, Zenon

\* The holders of `global` stay when the stage of the task keeps its kind.
LEMMA GlobalKept ==
  ASSUME GlobalOK, NEW t \in Task, OthersStay(t),
         pc'[t] \in KeyedStage <=> pc[t] \in KeyedStage,
         pc'[t] \in WholeStage <=> pc[t] \in WholeStage,
         global'.readers = global.readers, global'.writers = global.writers
  PROVE  GlobalOK'
BY DEF GlobalOK, OthersStay

\* Beside a keyed command no command works on the whole store.
LEMMA NoWholeBesideKeyed ==
  ASSUME GlobalOK, NEW t \in Task, pc[t] \in KeyedStage, pc'[t] \notin WholeStage, OthersStay(t)
  PROVE  FlushOK' /\ ~Flushing /\ ~Flushing'
<1>1. \A u \in Task : pc[u] \notin WholeStage /\ pc'[u] \notin WholeStage
  BY DEF GlobalOK, OthersStay, KeyedStage, WholeStage
<1> QED BY <1>1 DEF FlushOK, Flushing, WholeStage

\* A task that is not scanning before or after its step disturbs no FLUSHDB.
LEMMA FlushKept ==
  ASSUME FlushOK, NEW t \in Task, OthersStay(t), shards' = shards,
         pc[t] \notin WholeStage, pc'[t] \notin WholeStage
  PROVE  FlushOK' /\ (Flushing' <=> Flushing)
BY DEF FlushOK, Flushing, OthersStay, WholeStage

-----------------------------------------------------------------------------
(***************************************************************************)
(* The invariant, one action at a time.                                    *)
(***************************************************************************)

\* A freshly created store: nothing stored, nothing counted, nobody inside.
LEMMA InitOK == Init => IInv
<1> SUFFICES ASSUME Init PROVE IInv
  OBVIOUS
<1> USE DEF Init
<1>1. EmptyData \in Data /\ Stored(EmptyData) = {}
  BY DEF EmptyData, Data, Stored
<1>2. Unlocked \in Lock /\ Unlocked.readers = {} /\ Unlocked.writers = {}
  BY DEF Unlocked, Lock
<1>3. NoOutcome \in Outcome
  BY DEF NoOutcome, Outcome
<1>4. TypeOK
  BY <1>1, <1>2, <1>3, ShardedDatabaseAssumption DEF TypeOK, Stage
<1>5. WellPlaced
  BY DEF WellPlaced, EmptyData
<1>6. CommandsOK
  BY DEF CommandsOK, CommandOK, KeyedStage, WholeStage, NoCommand
<1>7. GlobalOK
  BY <1>2 DEF GlobalOK, KeyedStage, WholeStage
<1>8. ShardLocksOK
  BY <1>2 DEF ShardLocksOK, HoldsShard, InSection
<1>9. BeforeOK
  BY DEF BeforeOK, FoundOK, InSection
<1>10. FlushOK
  BY DEF FlushOK
<1>11. KeyCountExact
  <2>1. CountedKeys = {}
    BY ShardedDatabaseAssumption DEF CountedKeys, InSection, EmptyData
  <2>2. Cardinality(CountedKeys) = 0
    BY <2>1, FS_EmptySet
  <2> QED BY <2>2 DEF KeyCountExact
<1> QED BY <1>4, <1>5, <1>6, <1>7, <1>8, <1>9, <1>10, <1>11 DEF IInv

\* A command is issued: its task joins the queue of `global`.
LEMMA CallOK ==
  ASSUME IInv, NEW t \in Task, NEW c \in Calls[t], Call(t, c)
  PROVE  IInv'
<1> USE DEF IInv
<1>1. c \in Command
  BY ShardedDatabaseAssumption
<1>2. /\ pc \in [Task -> Stage] /\ out \in [Task -> Outcome]
      /\ cmd \in [Task -> Command \cup {NoCommand}]
      /\ global \in Lock
  BY DEF TypeOK
<1>3. /\ pc[t] = "idle" /\ pc'[t] = "global" /\ cmd'[t] = c
      /\ out'[t] = [NoOutcome EXCEPT !.reply = IF c.op = "DEL" THEN 0 ELSE Absent]
      /\ UNCHANGED <<now, shards, keyCount, shardLock, leaked, at, before, since, found, collected>>
      /\ global' = Wait(global, t)
  BY <1>2 DEF Call
<1>4. OthersStay(t)
  BY <1>2, <1>3 DEF Call, OthersStay
<1>5. CommandsOK' /\ BeforeOK' /\ ShardLocksOK' /\ CountedKeys' = CountedKeys
  <2>1. cmd'[t].op = "DEL" => out'[t].reply \in Int
    BY <1>3 DEF NoOutcome
  <2>2. CommandOK(t)'
    BY <1>1, <1>3, <2>1 DEF CommandOK, KeyedStage, WholeStage
  <2>3. FoundOK(t)'
    BY <1>3 DEF FoundOK, InSection
  <2>4. ~InSection(t) /\ ~InSection(t)' /\ ~HoldsShard(t) /\ ~HoldsShard(t)'
    BY <1>3 DEF InSection, HoldsShard
  <2> QED BY <1>3, <1>4, <2>2, <2>3, <2>4, QuietStep
<1>6. TypeOK'
  <2>1. out'[t] \in Outcome
    BY <1>3 DEF Outcome, NoOutcome
  <2>2. out' \in [Task -> Outcome]
    BY <1>2, <2>1 DEF Call
  <2>3. pc' \in [Task -> Stage] /\ cmd' \in [Task -> Command \cup {NoCommand}]
    BY <1>1, <1>2 DEF Call, Stage
  <2>4. global' \in Lock
    BY <1>2, <1>3, LockFacts
  <2> QED BY <1>3, <2>2, <2>3, <2>4 DEF TypeOK
<1>7. WellPlaced'
  BY <1>3 DEF WellPlaced
<1>8. GlobalOK'
  BY <1>2, <1>3, <1>4, LockFacts, GlobalKept DEF KeyedStage, WholeStage
<1>9. FlushOK' /\ KeyCountExact'
  <2>1. FlushOK' /\ (Flushing' <=> Flushing)
    BY <1>3, <1>4, FlushKept DEF WholeStage
  <2> QED BY <1>3, <1>5, <2>1 DEF KeyCountExact
<1> QED BY <1>5, <1>6, <1>7, <1>8, <1>9

\* A keyed command gets `global` for reading and waits for its first shard.
LEMMA EnterKeyedOK ==
  ASSUME IInv, NEW t \in Task, EnterKeyed(t)
  PROVE  IInv'
<1> USE DEF IInv
<1> DEFINE s == ShardOf[cmd[t].keys[1]]
<1>1. /\ pc \in [Task -> Stage] /\ at \in [Task -> Nat]
      /\ global \in Lock /\ shardLock \in [Shard -> Lock]
  BY DEF TypeOK
<1>2. /\ pc[t] = "global" /\ pc'[t] = "shard" /\ at'[t] = 1
      /\ cmd[t].op \in KeyedOp
      /\ CanRead(global, t) /\ global' = ReadLock(global, t)
      /\ shardLock' = [shardLock EXCEPT ![s] = Wait(@, t)]
      /\ UNCHANGED <<now, shards, keyCount, leaked, cmd, before, since, found, collected, out>>
  BY <1>1 DEF EnterKeyed, IsKeyed
<1>3. OthersStay(t)
  BY <1>1, <1>2 DEF EnterKeyed, OthersStay
<1>4. cmd[t] \in Command /\ 1 \in 1 .. Len(cmd[t].keys) /\ s \in Shard
  <2>1. cmd[t] \in Command
    BY <1>2 DEF CommandsOK, CommandOK
  <2>2. 1 \in 1 .. Len(cmd[t].keys) /\ cmd[t].keys[1] \in Key
    BY <1>2, <2>1, CommandFacts
  <2> QED BY <2>1, <2>2, ShardedDatabaseAssumption
<1>5. /\ shardLock' \in [Shard -> Lock]
      /\ \A r \in Shard : shardLock'[r].writers = shardLock[r].writers
  BY <1>1, <1>2, <1>4, LockFacts
<1>6. /\ global' \in Lock
      /\ global'.readers = global.readers \cup {t}
      /\ global'.writers = global.writers
      /\ global.writers = {}
  BY <1>1, <1>2, LockFacts DEF CanRead
<1>7. CommandsOK' /\ BeforeOK' /\ ShardLocksOK' /\ CountedKeys' = CountedKeys
  <2>1. CommandOK(t)'
    BY <1>2, <1>4 DEF CommandsOK, CommandOK, KeyedStage, WholeStage, IsKeyed
  <2>2. FoundOK(t)'
    BY <1>2 DEF FoundOK, InSection
  <2>3. ~InSection(t) /\ ~InSection(t)' /\ ~HoldsShard(t) /\ ~HoldsShard(t)'
    BY <1>2 DEF InSection, HoldsShard
  <2> QED BY <1>2, <1>3, <1>5, <2>1, <2>2, <2>3, QuietStep
<1>8. TypeOK'
  <2>1. pc' \in [Task -> Stage] /\ at' \in [Task -> Nat]
    BY <1>1 DEF EnterKeyed, Stage
  <2> QED BY <1>2, <1>5, <1>6, <2>1 DEF TypeOK
<1>9. WellPlaced'
  BY <1>2 DEF WellPlaced
<1>10. GlobalOK'
  <2>1. \A u \in Task : pc[u] \notin WholeStage
    BY <1>6 DEF GlobalOK
  <2> QED BY <1>2, <1>3, <1>6, <2>1 DEF GlobalOK, OthersStay, KeyedStage, WholeStage
<1>11. FlushOK' /\ KeyCountExact'
  <2>1. FlushOK' /\ (Flushing' <=> Flushing)
    BY <1>2, <1>3, FlushKept DEF WholeStage
  <2> QED BY <1>2, <1>7, <2>1 DEF KeyCountExact
<1> QED BY <1>7, <1>8, <1>9, <1>10, <1>11

\* The entries that are live are entries.
LEMMA LiveStoreTyped ==
  ASSUME TypeOK
  PROVE  LiveStore \in Data
<1>1. \A s \in Shard : LiveView(shards[s], now) \in Data
  BY LiveViewFacts DEF TypeOK
<1>2. \A k \in Key : LiveView(shards[ShardOf[k]], now)[k] \in Entry \cup {Absent}
  BY <1>1, ShardedDatabaseAssumption DEF Data
<1> QED BY <1>2 DEF LiveStore, Data

\* A command on the whole store gets `global` for writing, alone.
LEMMA EnterWholeOK ==
  ASSUME IInv, NEW t \in Task, EnterWhole(t)
  PROVE  IInv'
<1> USE DEF IInv
<1>1. /\ pc \in [Task -> Stage] /\ at \in [Task -> Nat] /\ since \in [Task -> Nat] /\ now \in Nat
      /\ global \in Lock /\ found \in [Task -> Data] /\ LiveStore \in Data
  BY LiveStoreTyped DEF TypeOK
<1>2. /\ pc[t] = "global" /\ pc'[t] = "scan" /\ at'[t] = 0
      /\ cmd[t].op \in WholeOp
      /\ CanWrite(global, t) /\ global' = WriteLock(global, t)
      /\ UNCHANGED <<now, shards, keyCount, shardLock, leaked, cmd, before, collected, out>>
  BY <1>1 DEF EnterWhole, IsWhole
<1>3. OthersStay(t)
  BY <1>1, <1>2 DEF EnterWhole, OthersStay
<1>4. /\ global' \in Lock
      /\ global'.readers = global.readers
      /\ global'.writers = global.writers \cup {t}
      /\ global.readers = {} /\ global.writers = {}
  BY <1>1, <1>2, LockFacts DEF CanWrite
<1>5. CommandsOK' /\ BeforeOK' /\ ShardLocksOK' /\ CountedKeys' = CountedKeys
  <2>1. CommandOK(t)'
    <3>1. CommandOK(t) /\ 0 < ShardCount
      BY ShardedDatabaseAssumption DEF CommandsOK
    <3> QED BY <1>2, <3>1 DEF CommandOK, KeyedStage, WholeStage, IsWhole
  <2>2. FoundOK(t)'
    BY <1>2 DEF FoundOK, InSection
  <2>3. ~InSection(t) /\ ~InSection(t)' /\ ~HoldsShard(t) /\ ~HoldsShard(t)'
    BY <1>2 DEF InSection, HoldsShard
  <2> QED BY <1>2, <1>3, <2>1, <2>2, <2>3, QuietStep
<1>6. TypeOK'
  <2>1. /\ pc' \in [Task -> Stage] /\ at' \in [Task -> Nat] /\ since' \in [Task -> Nat]
        /\ found' \in [Task -> Data]
    BY <1>1 DEF EnterWhole, Stage
  <2> QED BY <1>2, <1>4, <2>1 DEF TypeOK
<1>7. WellPlaced'
  BY <1>2 DEF WellPlaced
<1>8. \A u \in Task : pc[u] \notin KeyedStage \cup WholeStage
  BY <1>4 DEF GlobalOK
<1>9. GlobalOK'
  BY <1>2, <1>3, <1>4, <1>8 DEF GlobalOK, OthersStay, KeyedStage, WholeStage
<1>10. FlushOK' /\ ~Flushing /\ ~Flushing'
  <2>1. \A u \in Task : u # t => pc'[u] \notin WholeStage
    BY <1>3, <1>8 DEF OthersStay
  <2>2. \A u \in Task : pc[u] \notin WholeStage
    BY <1>8
  <2>3. ~ \E r \in Shard : r < at'[t]
    BY <1>2 DEF Shard
  <2>4. \A u \in Task : pc'[u] # "finish" /\ (pc'[u] = "scan" => at'[u] = 0)
    BY <1>2, <2>1 DEF WholeStage
  <2>5. FlushOK'
    BY <2>4 DEF FlushOK, Shard
  <2> QED BY <2>2, <2>4, <2>5 DEF Flushing, WholeStage
<1>11. KeyCountExact'
  BY <1>2, <1>5, <1>10 DEF KeyCountExact
<1> QED BY <1>5, <1>6, <1>7, <1>9, <1>10, <1>11

\* A keyed command gets its shard and notes the keys it finds there: what
\* was counted for the shard so far is exactly what is now noted.
LEMMA EnterShardOK ==
  ASSUME IInv, NEW t \in Task, EnterShard(t)
  PROVE  IInv'
<1> USE DEF IInv
<1> DEFINE s == CurrentShard(t)
<1>1. /\ pc \in [Task -> Stage] /\ before \in [Task -> SUBSET Key]
      /\ shardLock \in [Shard -> Lock]
  BY DEF TypeOK
<1>2. /\ pc[t] = "shard" /\ pc'[t] = "body" /\ before'[t] = Stored(shards[s])
      /\ CanWrite(shardLock[s], t)
      /\ shardLock' = [shardLock EXCEPT ![s] = WriteLock(@, t)]
      /\ UNCHANGED <<now, shards, keyCount, global, leaked, cmd, at, since, found, collected, out>>
  BY <1>1 DEF EnterShard
<1>3. OthersStay(t)
  BY <1>1, <1>2 DEF EnterShard, OthersStay
<1>4. pc[t] \in KeyedStage /\ pc'[t] \in KeyedStage /\ pc[t] \notin WholeStage /\ pc'[t] \notin WholeStage
  BY <1>2 DEF KeyedStage, WholeStage
<1>5. /\ cmd[t] \in Command /\ cmd[t].op \in KeyedOp
      /\ at[t] \in 1 .. Len(cmd[t].keys) /\ s \in Shard
  BY <1>4, KeyedTask
<1>6. /\ ~InSection(t) /\ InSection(t)' /\ ~HoldsShard(t) /\ HoldsShard(t)'
      /\ CurrentShard(t)' = CurrentShard(t)
  BY <1>2 DEF InSection, HoldsShard, CurrentShard, CurrentKey
<1>7. /\ shardLock' \in [Shard -> Lock]
      /\ shardLock'[s].writers = shardLock[s].writers \cup {t}
      /\ shardLock[s].writers = {}
      /\ \A r \in Shard \ {s} : shardLock'[r] = shardLock[r]
  BY <1>1, <1>2, <1>5, LockFacts DEF CanWrite
<1>8. \A u \in Task \ {t} :
        /\ CommandOK(u)' /\ FoundOK(u)'
        /\ InSection(u)' <=> InSection(u)
        /\ HoldsShard(u)' <=> HoldsShard(u)
        /\ CurrentShard(u)' = CurrentShard(u)
  BY <1>3, OthersKept
<1>9. \A u \in Task : HoldsShard(u) => CurrentShard(u) # s
  BY <1>5, <1>7 DEF ShardLocksOK
<1>10. TypeOK'
  <2>1. pc' \in [Task -> Stage] /\ before' \in [Task -> SUBSET Key]
    BY <1>1 DEF EnterShard, Stage, Stored
  <2> QED BY <1>2, <1>7, <2>1 DEF TypeOK
<1>11. WellPlaced'
  BY <1>2 DEF WellPlaced
<1>12. CommandsOK'
  <2>1. CommandOK(t)'
    BY <1>2, <1>5 DEF CommandsOK, CommandOK, KeyedStage, WholeStage, IsKeyed
  <2> QED BY <1>8, <2>1 DEF CommandsOK
<1>13. BeforeOK'
  <2>1. FoundOK(t)'
    <3>1. \A k \in before'[t] : ShardOf[k] = s
      BY <1>2, <1>5 DEF WellPlaced, Stored
    <3> QED BY <1>2, <1>6, <3>1 DEF FoundOK
  <2> QED BY <1>8, <2>1 DEF BeforeOK
<1>14. GlobalOK'
  BY <1>2, <1>3, <1>4, GlobalKept
<1>15. ShardLocksOK'
  BY <1>6, <1>7, <1>8, <1>9 DEF ShardLocksOK
<1>16. CountedKeys' = CountedKeys
  <2>1. \A u \in Task : InSection(u) => CurrentShard(u) # s
    BY <1>9 DEF HoldsShard
  <2>2. \A k \in Key : ShardOf[k] = s => (k \in CountedKeys <=> k \in Stored(shards[s]))
    BY <2>1 DEF CountedKeys, Stored
  <2>3. \A k \in Key : ShardOf[k] = s => (k \in CountedKeys' <=> k \in Stored(shards[s]))
    BY <1>2, <1>6, <1>8, <2>1 DEF CountedKeys
  <2>4. \A k \in Key : ShardOf[k] # s => (k \in CountedKeys' <=> k \in CountedKeys)
    BY <1>2, <1>3, <1>6, <1>8 DEF CountedKeys, OthersStay
  <2>5. CountedKeys \subseteq Key /\ CountedKeys' \subseteq Key
    BY DEF CountedKeys
  <2> QED BY <2>2, <2>3, <2>4, <2>5
<1>17. FlushOK' /\ ~Flushing /\ ~Flushing'
  BY <1>3, <1>4, NoWholeBesideKeyed
<1>18. KeyCountExact'
  BY <1>2, <1>16, <1>17 DEF KeyCountExact
<1> QED BY <1>10, <1>11, <1>12, <1>13, <1>14, <1>15, <1>17, <1>18

\* TTL turns to its second look at the clock.
LEMMA StartTtlOK ==
  ASSUME IInv, NEW t \in Task, StartTtl(t)
  PROVE  IInv'
<1> USE DEF IInv
<1>1. /\ pc \in [Task -> Stage] /\ pc[t] = "body" /\ pc'[t] = "ttl" /\ pc' \in [Task -> Stage]
      /\ ReadsClockAgain(t)
      /\ UNCHANGED <<now, dbVars, cmd, at, before, since, found, collected, out>>
  BY DEF TypeOK, StartTtl, Stage
<1>2. OthersStay(t)
  BY <1>1 DEF StartTtl, OthersStay, dbVars
<1>3. pc[t] \in KeyedStage /\ pc'[t] \in KeyedStage /\ pc[t] \notin WholeStage /\ pc'[t] \notin WholeStage
  BY <1>1 DEF KeyedStage, WholeStage
<1>4. CommandsOK' /\ BeforeOK' /\ ShardLocksOK' /\ CountedKeys' = CountedKeys
  <2>1. /\ InSection(t) /\ InSection(t)' /\ HoldsShard(t) /\ HoldsShard(t)'
        /\ CurrentShard(t)' = CurrentShard(t) /\ CurrentKey(t)' = CurrentKey(t)
    BY <1>1 DEF InSection, HoldsShard, CurrentShard, CurrentKey
  <2>2. CommandOK(t)'
    <3>1. CommandOK(t)
      BY DEF CommandsOK
    <3> QED BY <1>1, <2>1, <3>1 DEF CommandOK, ReadsClockAgain, KeyedStage, WholeStage, IsKeyed, dbVars
  <2>3. FoundOK(t)'
    BY <1>1, <2>1 DEF BeforeOK, FoundOK, dbVars
  <2> QED BY <1>1, <1>2, <2>1, <2>2, <2>3, QuietStep DEF dbVars
<1>5. TypeOK' /\ WellPlaced'
  BY <1>1 DEF TypeOK, WellPlaced, dbVars
<1>6. GlobalOK'
  BY <1>1, <1>2, <1>3, GlobalKept DEF dbVars
<1>7. FlushOK' /\ ~Flushing /\ ~Flushing'
  BY <1>2, <1>3, NoWholeBesideKeyed
<1>8. KeyCountExact'
  BY <1>1, <1>4, <1>7 DEF KeyCountExact, dbVars
<1> QED BY <1>4, <1>5, <1>6, <1>7, <1>8

\* The command changes the shard it holds, by what the operation does there.
LEMMA ExecuteOK ==
  ASSUME IInv, NEW t \in Task, Execute(t)
  PROVE  IInv'
<1> USE DEF IInv
<1> DEFINE s == CurrentShard(t)
           k == CurrentKey(t)
           effect == Effect(shards[s], cmd[t], k, now)
           answer == Answer(shards[s], cmd[t], k, now)
           expired == ExpiredBy(shards[s], cmd[t], k, now)
           reply == IF cmd[t].op = "DEL" THEN out[t].reply + answer ELSE answer
<1>1. /\ pc \in [Task -> Stage] /\ out \in [Task -> Outcome] /\ out[t] \in Outcome
      /\ shards \in [Shard -> Data] /\ now \in Nat
  BY DEF TypeOK
<1>2. /\ pc[t] = "body" /\ pc'[t] = "apply" /\ pc' \in [Task -> Stage]
      /\ ~Panics(t)
      /\ shards' = [shards EXCEPT ![s] = effect]
      /\ out' = [out EXCEPT ![t] = [out[t] EXCEPT !.reply = reply, !.expired = @ + expired]]
      /\ UNCHANGED <<now, keyCount, global, shardLock, leaked, cmd, at, before, since, found, collected>>
  BY <1>1 DEF Execute, Stage
<1>3. pc[t] \in KeyedStage /\ pc'[t] \in KeyedStage /\ pc[t] \notin WholeStage /\ pc'[t] \notin WholeStage
  BY <1>2 DEF KeyedStage, WholeStage
<1>4. /\ cmd[t] \in Command /\ cmd[t].op \in KeyedOp
      /\ at[t] \in 1 .. Len(cmd[t].keys) /\ k \in Key /\ s \in Shard
  BY <1>3, KeyedTask
<1>5. /\ InSection(t) /\ InSection(t)' /\ HoldsShard(t) /\ HoldsShard(t)'
      /\ CurrentShard(t)' = CurrentShard(t)
  BY <1>2 DEF InSection, HoldsShard, CurrentShard, CurrentKey
<1>6. shards[s] \in Data
  BY <1>1, <1>4
<1>7. cmd[t].arg = TooLong => cmd[t].op # "SET" /\ (cmd[t].op = "EXPIRE" => ~IsLive(shards[s], k, now))
  BY <1>2 DEF Panics
<1>8. /\ effect \in Data /\ Stored(effect) \subseteq Stored(shards[s]) \cup {k}
      /\ expired \in Nat
      /\ answer \in Value \cup {Absent} \cup Int
      /\ cmd[t].op = "DEL" => answer \in Int
  <2>1. effect \in Data /\ Stored(effect) \subseteq Stored(shards[s]) \cup {k}
    BY <1>1, <1>4, <1>6, <1>7, EffectFacts
  <2>2. expired \in Nat
    BY <1>1, <1>4, <1>6, <1>7, ExpiredByFacts
  <2>3. answer \in Value \cup {Absent} \cup Int /\ (cmd[t].op = "DEL" => answer = 0 \/ answer = 1)
    BY <1>1, <1>4, <1>6, AnswerFacts
  <2> QED BY <2>1, <2>2, <2>3
<1>9. cmd[t].op = "DEL" => out[t].reply \in Int
  BY DEF CommandsOK, CommandOK
<1>10. OthersStay(t)
  <2>1. \A u \in Task \ {t} : InSection(u) => CurrentShard(u) # s
    BY <1>5 DEF ShardLocksOK, HoldsShard
  <2>2. \A u \in Task \ {t} : pc'[u] = pc[u]
    BY <1>1 DEF Execute
  <2> QED BY <1>1, <1>2, <2>1, <2>2 DEF OthersStay
<1>11. CommandsOK' /\ BeforeOK' /\ ShardLocksOK' /\ CountedKeys' = CountedKeys
  <2>1. CommandOK(t)'
    <3>1. cmd[t].op = "DEL" => out'[t].reply \in Int
      BY <1>1, <1>2, <1>8, <1>9 DEF Outcome
    <3> QED BY <1>2, <1>4, <3>1 DEF CommandOK, KeyedStage, WholeStage, IsKeyed
  <2>2. FoundOK(t)'
    BY <1>2, <1>5 DEF BeforeOK, FoundOK
  <2>3. \A j \in Key : \/ shards'[ShardOf[j]][j] = shards[ShardOf[j]][j]
                       \/ InSection(t) /\ CurrentShard(t) = ShardOf[j]
    BY <1>1, <1>2, <1>5
  <2> QED BY <1>2, <1>5, <1>10, <2>1, <2>2, <2>3, QuietStep
<1>12. TypeOK'
  <2>1. shards' \in [Shard -> Data]
    BY <1>1, <1>2, <1>8
  <2>2. reply \in Value \cup {Absent} \cup Int
    BY <1>8, <1>9
  <2>3. out[t].expired + expired \in Nat
    BY <1>1, <1>8 DEF Outcome
  <2>4. [out[t] EXCEPT !.reply = reply, !.expired = @ + expired] \in Outcome
    BY <1>1, <2>2, <2>3 DEF Outcome
  <2>5. out' \in [Task -> Outcome]
    BY <1>1, <1>2, <2>4
  <2> QED BY <1>2, <2>1, <2>5 DEF TypeOK
<1>13. WellPlaced'
  <2>1. ShardOf[k] = s
    BY DEF CurrentShard
  <2>2. \A j \in Key : effect[j] # Absent => shards[s][j] # Absent \/ j = k
    BY <1>8 DEF Stored
  <2> QED BY <1>1, <1>2, <1>4, <2>1, <2>2 DEF WellPlaced
<1>14. GlobalOK'
  BY <1>2, <1>3, <1>10, GlobalKept
<1>15. FlushOK' /\ ~Flushing /\ ~Flushing'
  BY <1>3, <1>10, NoWholeBesideKeyed
<1>16. KeyCountExact'
  BY <1>2, <1>11, <1>15 DEF KeyCountExact
<1> QED BY <1>11, <1>12, <1>13, <1>14, <1>15, <1>16

\* TTL's second look may find the entry expired after all, and remove it.
LEMMA TtlRemainingOK ==
  ASSUME IInv, NEW t \in Task, TtlRemaining(t)
  PROVE  IInv'
<1> USE DEF IInv
<1> DEFINE s == CurrentShard(t)
           k == CurrentKey(t)
           e == shards[s][k]
           left == IF IsExpired(e, now) THEN RemoveIfExpired(shards[s], k, now) ELSE shards[s]
           outcome == IF IsExpired(e, now)
                        THEN [out[t] EXCEPT !.reply = -2, !.expired = @ + 1]
                        ELSE [out[t] EXCEPT !.reply = TtlSeconds(e, now)]
<1>1. /\ pc \in [Task -> Stage] /\ out \in [Task -> Outcome] /\ out[t] \in Outcome
      /\ shards \in [Shard -> Data] /\ now \in Nat
  BY DEF TypeOK
<1>2. /\ pc[t] = "ttl" /\ pc'[t] = "apply" /\ pc' \in [Task -> Stage]
      /\ UNCHANGED <<now, keyCount, global, shardLock, leaked, cmd, at, before, since, found, collected>>
  BY <1>1 DEF TtlRemaining, Stage
<1>3. pc[t] \in KeyedStage /\ pc'[t] \in KeyedStage /\ pc[t] \notin WholeStage /\ pc'[t] \notin WholeStage
  BY <1>2 DEF KeyedStage, WholeStage
<1>4. /\ cmd[t] \in Command /\ cmd[t].op \in KeyedOp
      /\ at[t] \in 1 .. Len(cmd[t].keys) /\ k \in Key /\ s \in Shard
  BY <1>3, KeyedTask
<1>5. /\ InSection(t) /\ InSection(t)' /\ HoldsShard(t) /\ HoldsShard(t)'
      /\ CurrentShard(t)' = CurrentShard(t)
  BY <1>2 DEF InSection, HoldsShard, CurrentShard, CurrentKey
<1>6. /\ shards' = [shards EXCEPT ![s] = left]
      /\ out' = [out EXCEPT ![t] = outcome]
  BY <1>1, <1>4 DEF TtlRemaining
<1>7. shards[s] \in Data /\ left \in Data /\ Stored(left) \subseteq Stored(shards[s])
  BY <1>1, <1>4, RemoveIfExpiredFacts
<1>8. cmd[t].op = "TTL" /\ e # Absent /\ e.expireAt # Never
  BY <1>2 DEF CommandsOK, CommandOK
<1>9. OthersStay(t)
  <2>1. \A u \in Task \ {t} : InSection(u) => CurrentShard(u) # s
    BY <1>5 DEF ShardLocksOK, HoldsShard
  <2>2. \A u \in Task \ {t} : pc'[u] = pc[u]
    BY <1>1 DEF TtlRemaining
  <2> QED BY <1>1, <1>2, <1>6, <2>1, <2>2 DEF OthersStay
<1>10. CommandsOK' /\ BeforeOK' /\ ShardLocksOK' /\ CountedKeys' = CountedKeys
  <2>1. CommandOK(t)'
    BY <1>2, <1>4, <1>8 DEF CommandOK, KeyedStage, WholeStage, IsKeyed
  <2>2. FoundOK(t)'
    BY <1>2, <1>5 DEF BeforeOK, FoundOK
  <2>3. \A j \in Key : \/ shards'[ShardOf[j]][j] = shards[ShardOf[j]][j]
                       \/ InSection(t) /\ CurrentShard(t) = ShardOf[j]
    BY <1>1, <1>5, <1>6
  <2> QED BY <1>2, <1>5, <1>9, <2>1, <2>2, <2>3, QuietStep
<1>11. TypeOK'
  <2>1. shards' \in [Shard -> Data]
    BY <1>1, <1>6, <1>7
  <2>2. TtlSeconds(e, now) \in Int
    <3>1. e \in Entry
      BY <1>4, <1>7, <1>8 DEF Data
    <3>2. e.expireAt \in Nat
      BY <1>8, <3>1 DEF Entry
    <3> QED BY <1>1, <3>2, DatabaseAssumption DEF TtlSeconds
  <2>3. outcome \in Outcome
    <3>1. out[t].expired \in Nat /\ out[t].expired + 1 \in Nat /\ out[t].keyCount \in Nat
      BY <1>1 DEF Outcome
    <3>2. CASE IsExpired(e, now)
      <4>1. outcome = [reply |-> -2, keyCount |-> out[t].keyCount, expired |-> out[t].expired + 1]
        BY <1>1, <3>2 DEF Outcome
      <4>2. -2 \in Value \cup {Absent} \cup Int
        OBVIOUS
      <4> HIDE DEF outcome
      <4> QED BY <3>1, <4>1, <4>2 DEF Outcome
    <3>3. CASE ~IsExpired(e, now)
      <4>1. outcome = [reply |-> TtlSeconds(e, now), keyCount |-> out[t].keyCount, expired |-> out[t].expired]
        BY <1>1, <3>3 DEF Outcome
      <4> QED BY <2>2, <3>1, <4>1 DEF Outcome
    <3> QED BY <3>2, <3>3
  <2>4. out' \in [Task -> Outcome]
    BY <1>1, <1>6, <2>3
  <2> QED BY <1>2, <2>1, <2>4 DEF TypeOK
<1>12. WellPlaced'
  <2>1. \A j \in Key : left[j] # Absent => shards[s][j] # Absent
    BY <1>7 DEF Stored
  <2> QED BY <1>1, <1>4, <1>6, <2>1 DEF WellPlaced
<1>13. GlobalOK'
  BY <1>2, <1>3, <1>9, GlobalKept
<1>14. FlushOK' /\ ~Flushing /\ ~Flushing'
  BY <1>3, <1>9, NoWholeBesideKeyed
<1>15. KeyCountExact'
  BY <1>2, <1>10, <1>14 DEF KeyCountExact
<1> QED BY <1>10, <1>11, <1>12, <1>13, <1>14, <1>15

\* A panic drops both guards; what SET had purged is lost for the count.
LEMMA PanicOK ==
  ASSUME IInv, NEW t \in Task, Panic(t)
  PROVE  IInv'
<1> USE DEF IInv
<1> DEFINE s == CurrentShard(t)
           purged == IF cmd[t].op = "SET" THEN RemoveExpired(shards[s], now) ELSE shards[s]
<1>1. /\ pc \in [Task -> Stage] /\ cmd \in [Task -> Command \cup {NoCommand}]
      /\ at \in [Task -> Nat] /\ before \in [Task -> SUBSET Key] /\ out \in [Task -> Outcome]
      /\ global \in Lock /\ shardLock \in [Shard -> Lock]
      /\ shards \in [Shard -> Data] /\ now \in Nat /\ leaked \in Nat /\ keyCount \in Nat
  BY DEF TypeOK
<1>2. /\ pc[t] = "body" /\ pc'[t] = "idle" /\ cmd'[t] = NoCommand /\ at'[t] = 0
      /\ shards' = [shards EXCEPT ![s] = purged]
      /\ leaked' = leaked + Cardinality(Stored(shards[s])) - Cardinality(Stored(purged))
      /\ global' = Unlock(global, t)
      /\ shardLock' = [shardLock EXCEPT ![s] = Unlock(@, t)]
      /\ UNCHANGED <<now, keyCount, since, found, collected>>
  BY <1>1 DEF Panic
<1>3. pc[t] \in KeyedStage /\ pc'[t] \notin KeyedStage /\ pc[t] \notin WholeStage /\ pc'[t] \notin WholeStage
  BY <1>2 DEF KeyedStage, WholeStage
<1>4. s \in Shard
  BY <1>3, KeyedTask
<1>5. InSection(t) /\ ~InSection(t)' /\ HoldsShard(t) /\ ~HoldsShard(t)'
  BY <1>2 DEF InSection, HoldsShard
<1>6. shards[s] \in Data /\ purged \in Data /\ Stored(purged) \subseteq Stored(shards[s])
  BY <1>1, <1>4, LiveViewFacts DEF RemoveExpired
<1>7. /\ Cardinality(Stored(shards[s])) \in Nat
      /\ Cardinality(Stored(purged)) \in Nat
      /\ Cardinality(Stored(purged)) <= Cardinality(Stored(shards[s]))
  <2>1. Stored(shards[s]) \in SUBSET Key /\ Stored(purged) \in SUBSET Key
    BY DEF Stored
  <2> QED BY <1>6, <2>1, KeySetsCounted, SubsetCounted
<1>8. OthersStay(t)
  <2>1. \A u \in Task \ {t} : InSection(u) => CurrentShard(u) # s
    BY <1>5 DEF ShardLocksOK, HoldsShard
  <2> QED BY <1>1, <1>2, <2>1 DEF Panic, OthersStay
<1>9. \A u \in Task \ {t} :
        /\ CommandOK(u)' /\ FoundOK(u)'
        /\ InSection(u)' <=> InSection(u)
        /\ HoldsShard(u)' <=> HoldsShard(u)
        /\ CurrentShard(u)' = CurrentShard(u)
  BY <1>8, OthersKept
<1>10. TypeOK'
  <2>1. /\ pc' \in [Task -> Stage] /\ cmd' \in [Task -> Command \cup {NoCommand}]
        /\ at' \in [Task -> Nat] /\ before' \in [Task -> SUBSET Key]
    BY <1>1 DEF Panic, Stage
  <2>2. out' \in [Task -> Outcome]
    <3>1. NoOutcome \in Outcome
      BY DEF NoOutcome, Outcome
    <3> QED BY <1>1, <3>1 DEF Panic
  <2>3. shards' \in [Shard -> Data] /\ leaked' \in Nat
    <3>1. shards' \in [Shard -> Data]
      BY <1>1, <1>2, <1>6
    <3>2. leaked' \in Nat
      <4> HIDE DEF purged
      <4> QED BY <1>1, <1>2, <1>7
    <3> QED BY <3>1, <3>2
  <2>4. global' \in Lock /\ shardLock' \in [Shard -> Lock]
    BY <1>1, <1>2, <1>4, LockFacts
  <2> QED BY <1>2, <2>1, <2>2, <2>3, <2>4 DEF TypeOK
<1>11. WellPlaced'
  <2>1. \A j \in Key : purged[j] # Absent => shards[s][j] # Absent
    BY <1>6 DEF Stored
  <2> QED BY <1>1, <1>2, <1>4, <2>1 DEF WellPlaced
<1>12. CommandsOK' /\ BeforeOK'
  <2>1. CommandOK(t)'
    BY <1>2 DEF CommandOK, KeyedStage, WholeStage, NoCommand
  <2>2. FoundOK(t)'
    BY <1>2 DEF FoundOK, InSection
  <2> QED BY <1>9, <2>1, <2>2 DEF CommandsOK, BeforeOK
<1>13. GlobalOK'
  <2>1. global'.readers = global.readers \ {t} /\ global'.writers = global.writers \ {t}
    BY <1>1, <1>2, LockFacts
  <2> QED BY <1>3, <1>8, <2>1 DEF GlobalOK, OthersStay
<1>14. ShardLocksOK'
  <2>1. shardLock'[s].writers = shardLock[s].writers \ {t}
    BY <1>1, <1>2, <1>4, LockFacts
  <2>2. \A r \in Shard \ {s} : shardLock'[r].writers = shardLock[r].writers
    BY <1>1, <1>2
  <2> QED BY <1>5, <1>9, <2>1, <2>2, ShardDropped
<1>15. FlushOK' /\ ~Flushing /\ ~Flushing'
  BY <1>3, <1>8, NoWholeBesideKeyed
<1>16. KeyCountExact'
  <2>1. \A k \in Key : ShardOf[k] # s => shards'[ShardOf[k]][k] = shards[ShardOf[k]][k]
    BY <1>1, <1>2
  <2>2. shards'[s] = purged /\ before[t] = Stored(shards[s])
    BY <1>1, <1>2, <1>4 DEF BeforeOK, FoundOK
  <2>3. Cardinality(CountedKeys') = Cardinality(CountedKeys) - Cardinality(before[t])
                                    + Cardinality(Stored(shards'[s]))
    BY <1>4, <1>5, <1>8, <1>11, <2>1, SectionLeftCounted
  <2>4. Cardinality(CountedKeys') = Cardinality(CountedKeys) - Cardinality(Stored(shards[s]))
                                    + Cardinality(Stored(purged))
    BY <2>2, <2>3, Zenon
  <2>5. keyCount = Cardinality(CountedKeys) + leaked
    BY <1>15 DEF KeyCountExact
  <2>6. Cardinality(CountedKeys) \in Nat
    BY KeySetsCounted DEF CountedKeys
  <2>7. keyCount' = Cardinality(CountedKeys') + leaked'
    BY <1>1, <1>2, <1>7, <2>4, <2>5, <2>6
  <2> QED BY <2>7 DEF KeyCountExact
<1> QED BY <1>10, <1>11, <1>12, <1>13, <1>14, <1>15, <1>16

\* The length of the shard is compared with what it was: the count is
\* corrected by exactly the keys the command added or removed.
LEMMA ApplyLenOK ==
  ASSUME IInv, NEW t \in Task, ApplyLen(t)
  PROVE  IInv'
<1> USE DEF IInv
<1> DEFINE s == CurrentShard(t)
           old == Cardinality(before[t])
           new == Cardinality(Stored(shards[s]))
           more == cmd[t].op = "DEL" /\ at[t] < Len(cmd[t].keys)
           next == ShardOf[cmd[t].keys[at[t] + 1]]
           released == IF cmd[t].op = "DEL"
                         THEN [shardLock EXCEPT ![s] = Unlock(@, t)] ELSE shardLock
<1>1. /\ pc \in [Task -> Stage] /\ at \in [Task -> Nat] /\ before \in [Task -> SUBSET Key]
      /\ shardLock \in [Shard -> Lock] /\ shards \in [Shard -> Data] /\ keyCount \in Nat
  BY DEF TypeOK
<1>2. /\ pc[t] = "apply"
      /\ keyCount' = LenChange(keyCount, old, new)
      /\ before' = [before EXCEPT ![t] = {}]
      /\ UNCHANGED <<now, shards, global, leaked, cmd, since, found, collected, out>>
  BY DEF ApplyLen
<1>3. \/ /\ more
         /\ at' = [at EXCEPT ![t] = @ + 1]
         /\ shardLock' = [released EXCEPT ![next] = Wait(@, t)]
         /\ pc' = [pc EXCEPT ![t] = "shard"]
      \/ /\ ~more
         /\ shardLock' = released
         /\ pc' = [pc EXCEPT ![t] = "outcome"]
         /\ at' = at
  BY DEF ApplyLen
<1>4. pc[t] \in KeyedStage /\ pc'[t] \in KeyedStage /\ pc[t] \notin WholeStage /\ pc'[t] \notin WholeStage
  BY <1>1, <1>2, <1>3 DEF KeyedStage, WholeStage
<1>5. /\ cmd[t] \in Command /\ cmd[t].op \in KeyedOp
      /\ at[t] \in 1 .. Len(cmd[t].keys) /\ s \in Shard
  BY <1>4, KeyedTask
<1>6. more => at[t] + 1 \in 1 .. Len(cmd[t].keys) /\ next \in Shard
  <2> SUFFICES ASSUME more PROVE at[t] + 1 \in 1 .. Len(cmd[t].keys) /\ next \in Shard
    OBVIOUS
  <2>1. Len(cmd[t].keys) \in Nat
    BY <1>5, CommandFacts
  <2>2. at[t] + 1 \in 1 .. Len(cmd[t].keys)
    BY <1>5, <2>1
  <2>3. cmd[t].keys[at[t] + 1] \in Key
    BY <1>5, <2>2, CommandFacts
  <2> QED BY <2>2, <2>3, ShardedDatabaseAssumption
<1>7. /\ released \in [Shard -> Lock]
      /\ cmd[t].op = "DEL" => released[s].writers = shardLock[s].writers \ {t}
      /\ \A r \in Shard \ {s} : released[r] = shardLock[r]
      /\ cmd[t].op # "DEL" => released = shardLock
  BY <1>1, <1>5, LockFacts
<1>8. /\ shardLock' \in [Shard -> Lock]
      /\ \A r \in Shard : shardLock'[r].writers = released[r].writers
  <2> HIDE DEF released, next
  <2> QED BY <1>3, <1>6, <1>7, LockFacts
<1>9. InSection(t) /\ ~InSection(t)' /\ HoldsShard(t)
  BY <1>1, <1>2, <1>3 DEF InSection, HoldsShard
<1>10. OthersStay(t)
  BY <1>1, <1>2, <1>3 DEF OthersStay
<1>11. \A u \in Task \ {t} :
         /\ CommandOK(u)' /\ FoundOK(u)'
         /\ InSection(u)' <=> InSection(u)
         /\ HoldsShard(u)' <=> HoldsShard(u)
         /\ CurrentShard(u)' = CurrentShard(u)
  BY <1>10, OthersKept
<1>12. old \in Nat /\ new \in Nat
  <2>1. before[t] \in SUBSET Key /\ Stored(shards[s]) \in SUBSET Key
    BY <1>1 DEF Stored
  <2> QED BY <2>1, KeySetsCounted
<1>13. TypeOK'
  <2>1. pc' \in [Task -> Stage] /\ before' \in [Task -> SUBSET Key]
    BY <1>1, <1>2, <1>3 DEF Stage
  <2>2. at' \in [Task -> Nat]
    <3>1. at[t] + 1 \in Nat
      BY <1>1
    <3>2. at' = [at EXCEPT ![t] = at[t] + 1] \/ at' = at
      BY <1>3
    <3> QED BY <1>1, <3>1, <3>2
  <2>3. keyCount' \in Nat
    BY <1>1, <1>2, <1>12, LenChangeFacts
  <2> QED BY <1>2, <1>8, <2>1, <2>2, <2>3 DEF TypeOK
<1>14. WellPlaced'
  BY <1>2 DEF WellPlaced
<1>15. CommandsOK' /\ BeforeOK'
  <2>1. CommandOK(t)'
    <3>1. pc'[t] \in {"shard", "outcome"} /\ at'[t] \in 1 .. Len(cmd[t].keys)
      BY <1>1, <1>3, <1>5, <1>6
    <3>2. CommandOK(t)
      BY DEF CommandsOK
    <3> QED BY <1>2, <1>5, <3>1, <3>2 DEF CommandOK, KeyedStage, WholeStage, IsKeyed
  <2>2. FoundOK(t)'
    <3>1. pc'[t] \in {"shard", "outcome"}
      BY <1>1, <1>3
    <3> QED BY <3>1 DEF FoundOK, InSection
  <2> QED BY <1>11, <2>1, <2>2 DEF CommandsOK, BeforeOK
<1>16. GlobalOK'
  BY <1>2, <1>4, <1>10, GlobalKept
<1>17. ShardLocksOK'
  <2>1. CASE cmd[t].op = "DEL"
    <3>1. ~HoldsShard(t)'
      BY <1>1, <1>2, <1>3, <2>1 DEF HoldsShard, InSection
    <3>2. /\ shardLock'[s].writers = shardLock[s].writers \ {t}
          /\ \A r \in Shard \ {s} : shardLock'[r].writers = shardLock[r].writers
      BY <1>5, <1>7, <1>8, <2>1
    <3> QED BY <1>11, <3>1, <3>2, ShardDropped
  <2>2. CASE cmd[t].op # "DEL"
    <3>1. /\ HoldsShard(t)' /\ CurrentShard(t)' = CurrentShard(t)
      BY <1>1, <1>2, <1>3, <2>2 DEF HoldsShard, InSection, CurrentShard, CurrentKey
    <3>2. \A r \in Shard : shardLock'[r].writers = shardLock[r].writers
      BY <1>7, <1>8, <2>2
    <3> QED BY <1>9, <1>11, <3>1, <3>2 DEF ShardLocksOK
  <2> QED BY <2>1, <2>2
<1>18. FlushOK' /\ ~Flushing /\ ~Flushing'
  BY <1>4, <1>10, NoWholeBesideKeyed
<1>19. KeyCountExact'
  <2>1. /\ Cardinality(CountedKeys') = Cardinality(CountedKeys) - old + Cardinality(Stored(shards'[s]))
        /\ old <= Cardinality(CountedKeys)
    BY <1>2, <1>5, <1>9, <1>10, <1>14, SectionLeftCounted
  <2>2. Cardinality(CountedKeys') = Cardinality(CountedKeys) - old + new
    BY <1>2, <2>1, Zenon
  <2>3. keyCount = Cardinality(CountedKeys) + leaked
    BY <1>18 DEF KeyCountExact
  <2>4. Cardinality(CountedKeys) \in Nat /\ leaked \in Nat
    BY KeySetsCounted DEF CountedKeys, TypeOK
  <2> HIDE DEF old, new
  <2>5. LenChange(keyCount, old, new) = keyCount - old + new
    <3>1. old <= keyCount
      BY <1>12, <2>1, <2>3, <2>4
    <3> QED BY <1>1, <1>12, <3>1, LenChangeFacts
  <2>6. keyCount' = Cardinality(CountedKeys') + leaked'
    BY <1>1, <1>2, <1>12, <2>2, <2>3, <2>4, <2>5
  <2> QED BY <2>6 DEF KeyCountExact
<1> QED BY <1>13, <1>14, <1>15, <1>16, <1>17, <1>18, <1>19

\* The outcome takes the count with it and the guards are dropped.
LEMMA ReturnOutcomeOK ==
  ASSUME IInv, NEW t \in Task, ReturnOutcome(t)
  PROVE  IInv'
<1> USE DEF IInv
<1> DEFINE s == CurrentShard(t)
<1>1. /\ pc \in [Task -> Stage] /\ at \in [Task -> Nat] /\ out \in [Task -> Outcome]
      /\ global \in Lock /\ shardLock \in [Shard -> Lock] /\ keyCount \in Nat
  BY DEF TypeOK
<1>2. /\ pc[t] = "outcome" /\ pc'[t] = "returned"
      /\ out' = [out EXCEPT ![t] = [out[t] EXCEPT !.keyCount = keyCount]]
      /\ shardLock' = [shardLock EXCEPT ![s] = Unlock(@, t)]
      /\ global' = Unlock(global, t)
      /\ UNCHANGED <<now, shards, keyCount, leaked, cmd, before, since, found, collected>>
  BY <1>1 DEF ReturnOutcome
<1>3. pc[t] \in KeyedStage /\ pc'[t] \notin KeyedStage /\ pc[t] \notin WholeStage /\ pc'[t] \notin WholeStage
  BY <1>2 DEF KeyedStage, WholeStage
<1>4. cmd[t] \in Command /\ s \in Shard
  BY <1>3, KeyedTask
<1>5. ~InSection(t) /\ ~InSection(t)' /\ ~HoldsShard(t)'
  BY <1>2 DEF InSection, HoldsShard
<1>6. OthersStay(t)
  BY <1>1, <1>2 DEF ReturnOutcome, OthersStay
<1>7. \A u \in Task \ {t} :
        /\ CommandOK(u)' /\ FoundOK(u)'
        /\ InSection(u)' <=> InSection(u)
        /\ HoldsShard(u)' <=> HoldsShard(u)
        /\ CurrentShard(u)' = CurrentShard(u)
  BY <1>6, OthersKept
<1>8. TypeOK'
  <2>1. pc' \in [Task -> Stage] /\ at' \in [Task -> Nat]
    BY <1>1 DEF ReturnOutcome, Stage
  <2>2. out' \in [Task -> Outcome]
    BY <1>1, <1>2 DEF Outcome
  <2>3. global' \in Lock /\ shardLock' \in [Shard -> Lock]
    BY <1>1, <1>2, <1>4, LockFacts
  <2> QED BY <1>2, <2>1, <2>2, <2>3 DEF TypeOK
<1>9. WellPlaced'
  BY <1>2 DEF WellPlaced
<1>10. CommandsOK' /\ BeforeOK'
  <2>1. CommandOK(t)'
    <3>1. CommandOK(t) /\ out'[t].reply = out[t].reply
      BY <1>1, <1>2 DEF CommandsOK, Outcome
    <3> QED BY <1>2, <1>3, <1>4, <3>1 DEF CommandOK
  <2>2. FoundOK(t)'
    BY <1>2 DEF FoundOK, InSection
  <2> QED BY <1>7, <2>1, <2>2 DEF CommandsOK, BeforeOK
<1>11. GlobalOK'
  <2>1. global'.readers = global.readers \ {t} /\ global'.writers = global.writers \ {t}
    BY <1>1, <1>2, LockFacts
  <2> QED BY <1>3, <1>6, <2>1 DEF GlobalOK, OthersStay
<1>12. ShardLocksOK'
  <2>1. /\ shardLock'[s].writers = shardLock[s].writers \ {t}
        /\ \A r \in Shard \ {s} : shardLock'[r].writers = shardLock[r].writers
    BY <1>1, <1>2, <1>4, LockFacts
  <2> QED BY <1>5, <1>7, <2>1, ShardDropped
<1>13. CountedKeys' = CountedKeys
  <2>1. \A u \in Task : /\ InSection(u)' <=> InSection(u)
                        /\ InSection(u) => /\ CurrentShard(u)' = CurrentShard(u)
                                           /\ before'[u] = before[u]
    BY <1>2, <1>5, <1>7
  <2> QED BY <1>2, <2>1, CountedKept
<1>14. FlushOK' /\ ~Flushing /\ ~Flushing'
  BY <1>3, <1>6, NoWholeBesideKeyed
<1>15. KeyCountExact'
  BY <1>2, <1>13, <1>14 DEF KeyCountExact
<1> QED BY <1>8, <1>9, <1>10, <1>11, <1>12, <1>14, <1>15

\* What a command on the whole store leaves of a shard, and takes from it.
LEMMA ScannedFacts ==
  ASSUME TypeOK, NEW t \in Task, cmd[t].op \in WholeOp, NEW d \in Data
  PROVE  /\ ScannedData(t, d) \in Data
         /\ Stored(ScannedData(t, d)) \subseteq Stored(d)
         /\ cmd[t].op = "KEYS" => ScannedData(t, d) = d
         /\ cmd[t].op = "FLUSHDB" => Stored(ScannedData(t, d)) = {}
         /\ Gathered(t, d) \in Data
<1>1. now \in Nat /\ since[t] \in Nat
  BY DEF TypeOK
<1>2. EmptyData \in Data /\ Stored(EmptyData) = {}
  BY DEF EmptyData, Data, Stored
<1>3. \A time \in Nat : /\ RemoveExpired(d, time) \in Data /\ LiveView(d, time) \in Data
                        /\ Stored(RemoveExpired(d, time)) \subseteq Stored(d)
  BY LiveViewFacts DEF RemoveExpired
<1>4. CASE cmd[t].op = "FLUSHDB"
  <2>1. ScannedData(t, d) = EmptyData /\ Gathered(t, d) = EmptyData
    BY <1>4 DEF ScannedData, Gathered
  <2> QED BY <1>2, <1>4, <2>1
<1>5. CASE cmd[t].op = "KEYS"
  <2>1. ScannedData(t, d) = d /\ Gathered(t, d) = LiveView(d, now)
    BY <1>5 DEF ScannedData, Gathered
  <2> QED BY <1>1, <1>3, <1>5, <2>1
<1>6. CASE cmd[t].op = "SNAPSHOT"
  <2>1. ScannedData(t, d) = RemoveExpired(d, since[t]) /\ Gathered(t, d) = RemoveExpired(d, since[t])
    BY <1>6 DEF ScannedData, Gathered
  <2> QED BY <1>1, <1>3, <1>6, <2>1
<1>7. CASE cmd[t].op \in {"INFO", "SWEEP"}
  <2>1. ScannedData(t, d) = RemoveExpired(d, now) /\ Gathered(t, d) = EmptyData
    BY <1>7 DEF ScannedData, Gathered
  <2> QED BY <1>1, <1>2, <1>3, <1>7, <2>1
<1> QED BY <1>4, <1>5, <1>6, <1>7 DEF WholeOp

\* One shard of a scan: alone with the store, the task corrects the count by
\* what it removed; FLUSHDB leaves that to its last step.
LEMMA ScanOK ==
  ASSUME IInv, NEW t \in Task, Scan(t)
  PROVE  IInv'
<1> USE DEF IInv
<1> DEFINE s == at[t]
           data == ScannedData(t, shards[s])
           old == Cardinality(Stored(shards[s]))
           new == Cardinality(Stored(data))
           counts == cmd[t].op \in {"INFO", "SWEEP", "SNAPSHOT"}
<1>1. /\ pc \in [Task -> Stage] /\ at \in [Task -> Nat] /\ out \in [Task -> Outcome]
      /\ collected \in [Task -> Data] /\ shards \in [Shard -> Data] /\ keyCount \in Nat
      /\ s \in Nat
  BY DEF TypeOK
<1>2. /\ pc[t] = "scan" /\ s < ShardCount
      /\ shards' = [shards EXCEPT ![s] = data]
      /\ at' = [at EXCEPT ![t] = s + 1]
      /\ pc' = [pc EXCEPT ![t] = IF s + 1 = ShardCount THEN "finish" ELSE "scan"]
      /\ collected' = [collected EXCEPT ![t] =
           [k \in Key |-> IF @[k] # Absent THEN @[k] ELSE Gathered(t, shards[s])[k]]]
      /\ UNCHANGED <<now, global, shardLock, leaked, cmd, before, since, found>>
  BY DEF Scan
<1>3. IF counts
        THEN /\ keyCount' = LenChange(keyCount, old, new)
             /\ out' = [out EXCEPT ![t] = [out[t] EXCEPT !.expired = @ + (old - new)]]
        ELSE keyCount' = keyCount /\ out' = out
  BY DEF Scan
<1>4. pc[t] \in WholeStage /\ pc'[t] \in WholeStage /\ pc[t] \notin KeyedStage /\ pc'[t] \notin KeyedStage
  BY <1>1, <1>2 DEF KeyedStage, WholeStage
<1>5. s \in Shard
  BY <1>1, <1>2, ShardedDatabaseAssumption DEF Shard
<1>6. cmd[t] \in Command /\ cmd[t].op \in WholeOp
  BY <1>2 DEF CommandsOK, CommandOK, WholeStage, IsWhole
<1>7. /\ shards[s] \in Data /\ data \in Data /\ Stored(data) \subseteq Stored(shards[s])
      /\ cmd[t].op = "KEYS" => data = shards[s]
      /\ cmd[t].op = "FLUSHDB" => Stored(data) = {}
      /\ Gathered(t, shards[s]) \in Data
  BY <1>1, <1>5, <1>6, ScannedFacts
<1>8. /\ old \in Nat /\ new \in Nat /\ new <= old
      /\ Stored(shards[s]) \in SUBSET Key /\ Stored(data) \in SUBSET Key
  <2>1. Stored(shards[s]) \in SUBSET Key /\ Stored(data) \in SUBSET Key
    BY DEF Stored
  <2> QED BY <1>7, <2>1, KeySetsCounted, SubsetCounted
<1> HIDE DEF data
<1>9. \A u \in Task : pc[u] \notin KeyedStage /\ pc'[u] \notin KeyedStage
  BY <1>1, <1>2, <1>4 DEF GlobalOK
<1>10. \A u \in Task : ~InSection(u) /\ ~InSection(u)'
  BY <1>9 DEF InSection, KeyedStage
<1>11. OthersStay(t)
  BY <1>1, <1>2, <1>3, <1>10 DEF OthersStay
<1>12. \A u \in Task \ {t} :
         /\ CommandOK(u)' /\ FoundOK(u)'
         /\ HoldsShard(u)' <=> HoldsShard(u)
         /\ CurrentShard(u)' = CurrentShard(u)
  BY <1>11, OthersKept
<1>13. TypeOK'
  <2>1. pc' \in [Task -> Stage] /\ at' \in [Task -> Nat]
    BY <1>1, <1>2 DEF Stage
  <2>2. shards' \in [Shard -> Data]
    BY <1>1, <1>2, <1>7
  <2>3. collected' \in [Task -> Data]
    <3>1. [k \in Key |-> IF collected[t][k] # Absent THEN collected[t][k] ELSE Gathered(t, shards[s])[k]] \in Data
      BY <1>1, <1>7 DEF Data
    <3> QED BY <1>1, <1>2, <3>1
  <2>4. keyCount' \in Nat
    BY <1>1, <1>3, <1>8, LenChangeFacts
  <2>5. out' \in [Task -> Outcome]
    <3>1. out[t].expired + (old - new) \in Nat
      <4>1. out[t].expired \in Nat
        BY <1>1 DEF Outcome
      <4> HIDE DEF old, new
      <4> QED BY <1>8, <4>1
    <3>2. [out[t] EXCEPT !.expired = @ + (old - new)] \in Outcome
      BY <1>1, <3>1 DEF Outcome
    <3> QED BY <1>1, <1>3, <3>2
  <2> QED BY <1>2, <2>1, <2>2, <2>3, <2>4, <2>5 DEF TypeOK
<1>14. WellPlaced'
  <2>1. \A j \in Key : data[j] # Absent => shards[s][j] # Absent
    BY <1>7 DEF Stored
  <2> QED BY <1>1, <1>2, <1>5, <2>1 DEF WellPlaced
<1>15. CommandsOK' /\ BeforeOK'
  <2>1. CommandOK(t)'
    <3>1. CommandOK(t)
      BY DEF CommandsOK
    <3>2. cmd[t].op = "DEL" => FALSE
      BY <1>6 DEF WholeOp
    <3>3. pc'[t] = "scan" => at'[t] < ShardCount
      BY <1>1, <1>2, ShardedDatabaseAssumption
    <3> QED BY <1>1, <1>2, <1>4, <1>6, <3>1, <3>2, <3>3 DEF CommandOK, IsWhole
  <2>2. FoundOK(t)'
    BY <1>1, <1>2, <1>10 DEF FoundOK
  <2> QED BY <1>12, <2>1, <2>2 DEF CommandsOK, BeforeOK
<1>16. GlobalOK'
  BY <1>2, <1>4, <1>11, GlobalKept
<1>17. ShardLocksOK'
  <2>1. ~HoldsShard(t) /\ ~HoldsShard(t)'
    BY <1>1, <1>2, <1>10 DEF HoldsShard
  <2> QED BY <1>2, <1>12, <2>1 DEF ShardLocksOK
<1>18. FlushOK'
  <2> SUFFICES ASSUME NEW u \in Task, cmd'[u].op = "FLUSHDB", NEW r \in Shard,
                      pc'[u] = "finish" \/ (pc'[u] = "scan" /\ r < at'[u])
               PROVE  Stored(shards'[r]) = {}
    BY DEF FlushOK
  <2>1. u = t
    BY <1>4, <1>11 DEF GlobalOK, OthersStay, WholeStage
  <2>2. r < s \/ r = s
    BY <1>1, <1>2, <2>1, ShardedDatabaseAssumption DEF Shard
  <2>3. CASE r = s
    BY <1>1, <1>2, <1>5, <1>7, <2>1, <2>3
  <2>4. CASE r < s
    <3>1. shards'[r] = shards[r]
      BY <1>1, <1>2, <2>4
    <3>2. Stored(shards[r]) = {}
      BY <1>2, <2>1, <2>4 DEF FlushOK
    <3> QED BY <3>1, <3>2
  <2> QED BY <2>2, <2>3, <2>4
<1>19. KeyCountExact'
  <2>1. CASE cmd[t].op = "FLUSHDB"
    <3>1. pc'[t] = "finish" \/ (pc'[t] = "scan" /\ at'[t] > 0)
      BY <1>1, <1>2
    <3>2. cmd'[t].op = "FLUSHDB"
      BY <1>2, <2>1
    <3>3. Flushing'
      BY <3>1, <3>2 DEF Flushing
    <3> QED BY <3>3 DEF KeyCountExact
  <2>2. CASE cmd[t].op # "FLUSHDB"
    <3>1. ~Flushing
      BY <1>4, <2>2 DEF Flushing, GlobalOK, WholeStage
    <3>2. keyCount = Cardinality(CountedKeys) + leaked
      BY <3>1 DEF KeyCountExact
    <3>3. /\ CountedKeys = {k \in Key : shards[ShardOf[k]][k] # Absent}
          /\ CountedKeys' = {k \in Key : shards'[ShardOf[k]][k] # Absent}
      BY <1>10 DEF CountedKeys
    <3>4. Cardinality(CountedKeys) \in Nat /\ leaked \in Nat /\ CountedKeys \in SUBSET Key
      BY <3>3, KeySetsCounted DEF TypeOK
    <3>5. CASE cmd[t].op = "KEYS"
      <4>1. shards' = shards
        BY <1>1, <1>2, <1>5, <1>7, <3>5
      <4>2. CountedKeys' = CountedKeys
        BY <3>3, <4>1
      <4> QED BY <1>2, <1>3, <3>2, <3>5, <4>2 DEF KeyCountExact
    <3>6. CASE counts
      <4>1. /\ Stored(shards[s]) \subseteq CountedKeys
            /\ CountedKeys' = (CountedKeys \ Stored(shards[s])) \cup Stored(data)
            /\ Stored(data) \cap (CountedKeys \ Stored(shards[s])) = {}
        <5>1. \A j \in Key : shards[s][j] # Absent => ShardOf[j] = s
          BY <1>5 DEF WellPlaced
        <5>2. \A j \in Key : data[j] # Absent => shards[s][j] # Absent
          BY <1>7 DEF Stored
        <5>3. \A j \in Key : shards'[ShardOf[j]][j] = IF ShardOf[j] = s THEN data[j] ELSE shards[ShardOf[j]][j]
          BY <1>1, <1>2, <1>5, ShardedDatabaseAssumption
        <5> QED BY <3>3, <5>1, <5>2, <5>3 DEF Stored
      <4>2. /\ Cardinality((CountedKeys \ Stored(shards[s])) \cup Stored(data))
                 = Cardinality(CountedKeys) - old + new
            /\ old <= Cardinality(CountedKeys)
        BY <1>8, <3>4, <4>1, PartReplaced
      <4>3. Cardinality(CountedKeys') = Cardinality(CountedKeys) - old + new
        BY <4>1, <4>2, Zenon
      <4> HIDE DEF old, new
      <4>4. LenChange(keyCount, old, new) = keyCount - old + new
        <5>1. old <= keyCount
          BY <1>8, <3>2, <3>4, <4>2
        <5> QED BY <1>1, <1>8, <5>1, LenChangeFacts
      <4>5. keyCount' = LenChange(keyCount, old, new)
        BY <1>3, <3>6
      <4>6. keyCount' = Cardinality(CountedKeys') + leaked'
        BY <1>1, <1>2, <1>8, <3>2, <3>4, <4>3, <4>4, <4>5
      <4> QED BY <4>6 DEF KeyCountExact
    <3> QED BY <1>6, <2>2, <3>5, <3>6 DEF WholeOp
  <2> QED BY <2>1, <2>2
<1> QED BY <1>13, <1>14, <1>15, <1>16, <1>17, <1>18, <1>19

\* A command on the whole store ends: FLUSHDB has emptied every shard and
\* now stores the count that goes with that.
LEMMA FinishOK ==
  ASSUME IInv, NEW t \in Task, Finish(t)
  PROVE  IInv'
<1> USE DEF IInv
<1> DEFINE flush == cmd[t].op = "FLUSHDB"
           count == IF flush THEN 0 ELSE keyCount
<1>1. /\ pc \in [Task -> Stage] /\ at \in [Task -> Nat] /\ since \in [Task -> Nat]
      /\ out \in [Task -> Outcome] /\ global \in Lock /\ keyCount \in Nat /\ leaked \in Nat
      /\ found \in [Task -> Data] /\ EmptyData \in Data
  BY DEF TypeOK, EmptyData, Data
<1>2. /\ pc[t] = "finish" /\ pc'[t] = "returned"
      /\ keyCount' = count /\ leaked' = IF flush THEN 0 ELSE leaked
      /\ out' = [out EXCEPT ![t] = [out[t] EXCEPT !.keyCount = IF cmd[t].op = "KEYS" THEN 0 ELSE count]]
      /\ global' = Unlock(global, t)
      /\ UNCHANGED <<now, shards, shardLock, cmd, before, collected>>
  BY <1>1 DEF Finish
<1>3. pc[t] \in WholeStage /\ pc'[t] \notin WholeStage /\ pc[t] \notin KeyedStage /\ pc'[t] \notin KeyedStage
  BY <1>2 DEF KeyedStage, WholeStage
<1>4. OthersStay(t)
  BY <1>1, <1>2 DEF Finish, OthersStay
<1>5. cmd[t] \in Command /\ cmd[t].op \in WholeOp
  BY <1>2 DEF CommandsOK, CommandOK, WholeStage, IsWhole
<1>6. CommandsOK' /\ BeforeOK' /\ ShardLocksOK' /\ CountedKeys' = CountedKeys
  <2>1. CommandOK(t)'
    <3>1. cmd[t].op # "DEL"
      BY <1>5 DEF WholeOp
    <3> QED BY <1>2, <1>3, <1>5, <3>1 DEF CommandOK
  <2>2. FoundOK(t)'
    BY <1>2 DEF FoundOK, InSection
  <2>3. ~InSection(t) /\ ~InSection(t)' /\ ~HoldsShard(t) /\ ~HoldsShard(t)'
    BY <1>2 DEF InSection, HoldsShard
  <2> QED BY <1>2, <1>4, <2>1, <2>2, <2>3, QuietStep
<1>7. TypeOK'
  <2>1. /\ pc' \in [Task -> Stage] /\ at' \in [Task -> Nat] /\ since' \in [Task -> Nat]
        /\ found' \in [Task -> Data]
    BY <1>1 DEF Finish, Stage
  <2>2. out' \in [Task -> Outcome] /\ keyCount' \in Nat /\ leaked' \in Nat
    BY <1>1, <1>2 DEF Outcome
  <2>3. global' \in Lock
    BY <1>1, <1>2, LockFacts
  <2> QED BY <1>2, <2>1, <2>2, <2>3 DEF TypeOK
<1>8. WellPlaced'
  BY <1>2 DEF WellPlaced
<1>9. GlobalOK'
  <2>1. global'.readers = global.readers \ {t} /\ global'.writers = global.writers \ {t}
    BY <1>1, <1>2, LockFacts
  <2> QED BY <1>3, <1>4, <2>1 DEF GlobalOK, OthersStay
<1>10. \A u \in Task : pc'[u] \notin WholeStage
  BY <1>3, <1>4 DEF GlobalOK, OthersStay
<1>11. FlushOK'
  BY <1>10 DEF FlushOK, WholeStage
<1>12. KeyCountExact'
  <2>1. CASE flush
    <3>1. \A r \in Shard : Stored(shards[r]) = {}
      BY <1>2, <2>1 DEF FlushOK
    <3>2. \A u \in Task : ~InSection(u)
      BY <1>2, <1>3 DEF GlobalOK, InSection, KeyedStage
    <3>3. CountedKeys = {}
      BY <3>1, <3>2, ShardedDatabaseAssumption DEF CountedKeys, Stored
    <3>4. Cardinality(CountedKeys') = 0
      BY <1>6, <3>3, FS_EmptySet
    <3> QED BY <1>2, <2>1, <3>4 DEF KeyCountExact
  <2>2. CASE ~flush
    <3>1. ~Flushing
      BY <1>3, <2>2 DEF Flushing, GlobalOK, WholeStage
    <3> QED BY <1>2, <1>6, <2>2, <3>1 DEF KeyCountExact
  <2> QED BY <2>1, <2>2
<1> QED BY <1>6, <1>7, <1>8, <1>9, <1>11, <1>12

\* The caller has its outcome; the task is free for its next command.
LEMMA ReturnOK ==
  ASSUME IInv, NEW t \in Task, Return(t)
  PROVE  IInv'
<1> USE DEF IInv
<1>1. /\ pc \in [Task -> Stage] /\ cmd \in [Task -> Command \cup {NoCommand}]
      /\ out \in [Task -> Outcome] /\ collected \in [Task -> Data]
  BY DEF TypeOK
<1>2. /\ pc[t] = "returned" /\ pc'[t] = "idle" /\ cmd'[t] = NoCommand
      /\ UNCHANGED <<now, dbVars, at, before, since, found>>
  BY <1>1 DEF Return
<1>3. OthersStay(t)
  BY <1>1, <1>2 DEF Return, OthersStay, dbVars
<1>4. CommandsOK' /\ BeforeOK' /\ ShardLocksOK' /\ CountedKeys' = CountedKeys
  <2>1. CommandOK(t)'
    BY <1>2 DEF CommandOK, KeyedStage, WholeStage, NoCommand
  <2>2. FoundOK(t)'
    BY <1>2 DEF FoundOK, InSection
  <2>3. ~InSection(t) /\ ~InSection(t)' /\ ~HoldsShard(t) /\ ~HoldsShard(t)'
    BY <1>2 DEF InSection, HoldsShard
  <2> QED BY <1>2, <1>3, <2>1, <2>2, <2>3, QuietStep DEF dbVars
<1>5. TypeOK'
  <2>1. NoOutcome \in Outcome /\ EmptyData \in Data
    BY DEF NoOutcome, Outcome, EmptyData, Data
  <2>2. /\ pc' \in [Task -> Stage] /\ cmd' \in [Task -> Command \cup {NoCommand}]
        /\ out' \in [Task -> Outcome] /\ collected' \in [Task -> Data]
    BY <1>1, <2>1 DEF Return, Stage
  <2> QED BY <1>2, <2>2 DEF TypeOK, dbVars
<1>6. WellPlaced'
  BY <1>2 DEF WellPlaced, dbVars
<1>7. GlobalOK'
  BY <1>2, <1>3, GlobalKept DEF dbVars, KeyedStage, WholeStage
<1>8. FlushOK' /\ KeyCountExact'
  <2>1. FlushOK' /\ (Flushing' <=> Flushing)
    BY <1>2, <1>3, FlushKept DEF dbVars, WholeStage
  <2> QED BY <1>2, <1>4, <2>1 DEF KeyCountExact, dbVars
<1> QED BY <1>4, <1>5, <1>6, <1>7, <1>8

\* The clock moves on, or nothing does: no part of the invariant reads it.
LEMMA TickOK ==
  ASSUME IInv, Tick \/ UNCHANGED vars
  PROVE  IInv'
<1> USE DEF IInv
<1>1. UNCHANGED <<dbVars, taskVars>> /\ now' \in Nat
  BY DEF Tick, vars, TypeOK
<1> USE DEF dbVars, taskVars
<1>2. TypeOK' /\ WellPlaced'
  BY <1>1 DEF TypeOK, WellPlaced
<1>3. \A u : /\ InSection(u)' <=> InSection(u)
             /\ HoldsShard(u)' <=> HoldsShard(u)
             /\ CurrentKey(u)' = CurrentKey(u)
             /\ CurrentShard(u)' = CurrentShard(u)
             /\ IsKeyed(u)' <=> IsKeyed(u)
             /\ IsWhole(u)' <=> IsWhole(u)
  BY <1>1, Bystander
<1>4. CommandsOK' /\ BeforeOK'
  BY <1>1, <1>3 DEF CommandsOK, BeforeOK, CommandOK, FoundOK
<1>5. GlobalOK' /\ ShardLocksOK' /\ FlushOK'
  BY <1>1, <1>3 DEF GlobalOK, ShardLocksOK, FlushOK
<1>6. KeyCountExact'
  <2>1. CountedKeys' = CountedKeys
    BY <1>1, <1>3, CountedKept
  <2>2. Flushing' <=> Flushing
    BY <1>1 DEF Flushing
  <2> QED BY <1>1, <2>1, <2>2 DEF KeyCountExact
<1> QED BY <1>2, <1>4, <1>5, <1>6

-----------------------------------------------------------------------------
(***************************************************************************)
(* The theorems.                                                           *)
(***************************************************************************)

\* Every step of the store, whatever is interleaved, keeps the invariant.
LEMMA NextOK == IInv /\ [Next]_vars => IInv'
<1> SUFFICES ASSUME IInv, [Next]_vars PROVE IInv'
  OBVIOUS
<1>1. ASSUME NEW t \in Task, Step(t) PROVE IInv'
  BY <1>1, EnterKeyedOK, EnterWholeOK, EnterShardOK, ExecuteOK, StartTtlOK, TtlRemainingOK,
     PanicOK, ApplyLenOK, ReturnOutcomeOK, ScanOK, FinishOK DEF Step
<1>2. ASSUME NEW t \in Task, Return(t) PROVE IInv'
  BY <1>2, ReturnOK
<1>3. ASSUME NEW t \in Task, NEW c \in Calls[t], Call(t, c) PROVE IInv'
  BY <1>3, CallOK
<1>4. CASE Tick \/ UNCHANGED vars
  BY <1>4, TickOK
<1> QED BY <1>1, <1>2, <1>3, <1>4 DEF Next

\* The inductive invariant holds in every reachable state: the locks of
\* ShardedDatabase keep the lengths each command compares meaningful.
THEOREM Invariance == SafeSpec => []IInv
BY InitOK, NextOK, PTL DEF SafeSpec

\* Every variable stays in its range; among them key_count and the count of
\* expired entries, which the code computes by subtracting unsigned lengths.
THEOREM TypeCorrect == SafeSpec => []TypeOK
<1>1. IInv => TypeOK
  BY DEF IInv
<1> QED BY <1>1, Invariance, PTL

\* key_count counts each stored key once, for any number of shards, tasks and
\* keys, although it is corrected outside the data by every command.
THEOREM KeyCountIsExact == SafeSpec => []KeyCountExact
<1>1. IInv => KeyCountExact
  BY DEF IInv
<1> QED BY <1>1, Invariance, PTL

\* A key is only ever found in the shard its hash selects.
THEOREM KeysStayInTheirShard == SafeSpec => []WellPlaced
<1>1. IInv => WellPlaced
  BY DEF IInv
<1> QED BY <1>1, Invariance, PTL

-----------------------------------------------------------------------------
(***************************************************************************)
(* Commands on the whole store: none waits inside its scan, what it scans  *)
(* stands still, and what KEYS and the snapshot gather belongs to the      *)
(* instants they promise.  A second invariant, on top of the first, is     *)
(* about the queues of the shard locks and the entries gathered so far.    *)
(***************************************************************************)

Queued(u, s) == \E i \in 1 .. Len(shardLock[s].queue) : shardLock[s].queue[i] = u

\* Who waits for shard s: tasks that work on it, each once; and as a Mutex it
\* has no readers.
QueueOK(s) ==
  /\ shardLock[s].readers = {}
  /\ \A u \in Task : Queued(u, s) => pc[u] = "shard" /\ CurrentShard(u) = s
  /\ \A i, j \in 1 .. Len(shardLock[s].queue) :
       shardLock[s].queue[i] = shardLock[s].queue[j] => i = j

QueuesOK == \A s \in Shard : QueueOK(s)

SinceOK == \A t \in Task : since[t] <= now

Passed(t, s) == pc[t] = "finish" \/ (pc[t] = "scan" /\ s < at[t])

\* KEYS has of the shards it passed every entry live by now and none that had
\* expired when it began; of the others it has nothing.
KeysSoFar(t) ==
  \A k \in Key :
    LET e == shards[ShardOf[k]][k]
    IN  /\ Passed(t, ShardOf[k]) =>
             /\ IsLive(shards[ShardOf[k]], k, now) => collected[t][k] = e
             /\ collected[t][k] # Absent => collected[t][k] = e /\ ~IsExpired(e, since[t])
        /\ ~Passed(t, ShardOf[k]) => collected[t][k] = Absent

\* The snapshot has of the shards it passed what was live when it began; the
\* others still hold that.
SnapshotSoFar(t) ==
  \A k \in Key :
    /\ Passed(t, ShardOf[k]) => collected[t][k] = found[t][k]
    /\ ~Passed(t, ShardOf[k]) => /\ collected[t][k] = Absent
                                 /\ found[t][k] = LiveView(shards[ShardOf[k]], since[t])[k]

GatheredOK ==
  \A t \in Task :
    /\ pc[t] \notin WholeStage \cup {"returned"} => collected[t] = EmptyData
    /\ pc[t] \in WholeStage /\ cmd[t].op = "KEYS" => KeysSoFar(t)
    /\ pc[t] \in WholeStage /\ cmd[t].op = "SNAPSHOT" => SnapshotSoFar(t)

ScanInv == QueuesOK /\ SinceOK /\ GatheredOK

-----------------------------------------------------------------------------
\* What every step of task t leaves to the others.
OthersGoOn(t) ==
  \A u \in Task \ {t} :
    /\ pc'[u] = pc[u] /\ cmd'[u] = cmd[u] /\ at'[u] = at[u]
    /\ since'[u] = since[u] /\ found'[u] = found[u] /\ collected'[u] = collected[u] /\ out'[u] = out[u]

LEMMA StepsOfOneTask ==
  ASSUME TypeOK, NEW t \in Task,
         Step(t) \/ Return(t) \/ \E c \in Calls[t] : Call(t, c)
  PROVE  OthersGoOn(t)
<1> USE DEF TypeOK, OthersGoOn
<1>1. CASE EnterKeyed(t) \/ EnterWhole(t) \/ EnterShard(t)
  BY <1>1 DEF EnterKeyed, EnterWhole, EnterShard
<1>2. CASE Execute(t) \/ StartTtl(t) \/ TtlRemaining(t)
  BY <1>2 DEF Execute, StartTtl, TtlRemaining
<1>3. CASE Panic(t) \/ ApplyLen(t) \/ ReturnOutcome(t)
  BY <1>3 DEF Panic, ApplyLen, ReturnOutcome
<1>4. CASE Scan(t) \/ Finish(t) \/ Return(t)
  BY <1>4 DEF Scan, Finish, Return
<1>5. CASE \E c \in Calls[t] : Call(t, c)
  BY <1>5 DEF Call
<1> QED BY <1>1, <1>2, <1>3, <1>4, <1>5 DEF Step

-----------------------------------------------------------------------------
(***************************************************************************)
(* The queues of the shard locks.                                          *)
(***************************************************************************)

\* A lock keeps its queue when a guard is dropped and gets one task more or
\* one less when it is waited for or granted.
LEMMA QueueFacts ==
  ASSUME NEW lock \in Lock, NEW t \in Task
  PROVE  /\ Unlock(lock, t).queue = lock.queue
         /\ Wait(lock, t).queue = Append(lock.queue, t)
         /\ First(lock, t) => WriteLock(lock, t).queue = Tail(lock.queue)
BY DEF Lock, Unlock, Wait, WriteLock

\* A lock nobody touches stays in order while those who wait for it stay.
LEMMA QueueKept ==
  ASSUME NEW s \in Shard, QueueOK(s),
         shardLock'[s].queue = shardLock[s].queue, shardLock'[s].readers = {},
         \A u \in Task : pc[u] = "shard" /\ CurrentShard(u) = s /\ Queued(u, s) =>
                           pc'[u] = "shard" /\ CurrentShard(u)' = s
  PROVE  QueueOK(s)'
<1>1. \A u \in Task : Queued(u, s)' <=> Queued(u, s)
  BY DEF Queued
<1> QED BY <1>1 DEF QueueOK

\* All of them do in a step of a task that waits for no shard and joins no
\* queue, and that at most drops guards.
LEMMA QueuesKept ==
  ASSUME TypeOK, QueuesOK, NEW t \in Task, OthersGoOn(t), pc[t] # "shard",
         \A s \in Shard : \/ shardLock'[s] = shardLock[s]
                          \/ shardLock'[s] = Unlock(shardLock[s], t)
  PROVE  QueuesOK'
<1> SUFFICES ASSUME NEW s \in Shard PROVE QueueOK(s)'
  BY DEF QueuesOK
<1>1. QueueOK(s) /\ shardLock[s] \in Lock
  BY DEF QueuesOK, TypeOK
<1>2. shardLock'[s].queue = shardLock[s].queue /\ shardLock'[s].readers = {}
  <2>1. Unlock(shardLock[s], t).queue = shardLock[s].queue /\ Unlock(shardLock[s], t).readers = {}
    <3>1. Unlock(shardLock[s], t).readers = shardLock[s].readers \ {t}
      BY <1>1, LockFacts
    <3> QED BY <1>1, <3>1, QueueFacts DEF QueueOK
  <2>2. shardLock[s].readers = {}
    BY <1>1 DEF QueueOK
  <2> QED BY <2>1, <2>2
<1>3. \A u \in Task : pc[u] = "shard" => pc'[u] = "shard" /\ CurrentShard(u)' = CurrentShard(u)
  BY Bystander DEF OthersGoOn
<1> QED BY <1>1, <1>2, <1>3, QueueKept

\* A task joins the queue of the shard it now works on.
LEMMA QueueJoined ==
  ASSUME TypeOK, QueuesOK, NEW t \in Task, OthersGoOn(t), pc[t] # "shard", pc'[t] = "shard",
         CurrentShard(t)' \in Shard,
         \A s \in Shard :
           /\ shardLock'[s].readers = {}
           /\ shardLock'[s].queue = IF s = CurrentShard(t)' THEN Append(shardLock[s].queue, t)
                                                            ELSE shardLock[s].queue
  PROVE  QueuesOK'
<1>1. \A u \in Task : pc[u] = "shard" => pc'[u] = "shard" /\ CurrentShard(u)' = CurrentShard(u)
  BY Bystander DEF OthersGoOn
<1> SUFFICES ASSUME NEW s \in Shard PROVE QueueOK(s)'
  BY DEF QueuesOK
<1>2. QueueOK(s) /\ shardLock[s] \in Lock
  BY DEF QueuesOK, TypeOK
<1>3. CASE s # CurrentShard(t)'
  BY <1>1, <1>2, <1>3, QueueKept
<1>4. CASE s = CurrentShard(t)'
  <2> DEFINE q == shardLock[s].queue
  <2>1. q \in Seq(Task)
    BY <1>2 DEF Lock
  <2>2. shardLock'[s].queue = Append(q, t) /\ shardLock'[s].readers = {}
    BY <1>4
  <2>3. /\ Len(q) \in Nat /\ Len(Append(q, t)) = Len(q) + 1
        /\ \A i \in 1 .. Len(q) : Append(q, t)[i] = q[i]
        /\ Append(q, t)[Len(q) + 1] = t
    BY <2>1
  <2>4. ~Queued(t, s)
    BY <1>2 DEF QueueOK
  <2>5. \A u \in Task : Queued(u, s)' => u = t \/ Queued(u, s)
    BY <2>2, <2>3 DEF Queued
  <2>6. \A u \in Task : Queued(u, s)' => pc'[u] = "shard" /\ CurrentShard(u)' = s
    BY <1>1, <1>2, <1>4, <2>5 DEF QueueOK
  <2>7. \A i, j \in 1 .. Len(q) : q[i] = q[j] => i = j
    BY <1>2 DEF QueueOK
  <2>8. \A i \in 1 .. Len(q) : q[i] # t
    BY <2>4 DEF Queued
  <2>9. \A i, j \in 1 .. Len(Append(q, t)) : Append(q, t)[i] = Append(q, t)[j] => i = j
    <3> HIDE DEF q
    <3>1. \A i \in 1 .. Len(q) + 1 : i = Len(q) + 1 \/ i \in 1 .. Len(q)
      BY <2>3
    <3> QED BY <2>3, <2>7, <2>8, <3>1
  <2> QED BY <2>2, <2>6, <2>9 DEF QueueOK
<1> QED BY <1>3, <1>4

\* The first of a queue is granted the lock and leaves the queue.
LEMMA QueueLeft ==
  ASSUME TypeOK, QueuesOK, NEW t \in Task, OthersGoOn(t), pc[t] = "shard",
         NEW s \in Shard, s = CurrentShard(t), First(shardLock[s], t),
         shardLock' = [shardLock EXCEPT ![s] = WriteLock(@, t)]
  PROVE  QueuesOK'
<1> SUFFICES ASSUME NEW r \in Shard PROVE QueueOK(r)'
  BY DEF QueuesOK
<1> DEFINE q == shardLock[r].queue
<1>1. QueueOK(r) /\ shardLock[r] \in Lock /\ shardLock \in [Shard -> Lock]
  BY DEF QueuesOK, TypeOK
<1>2. q \in Seq(Task)
  BY <1>1 DEF Lock
<1>3. \A u \in Task \ {t} : pc[u] = "shard" => pc'[u] = "shard" /\ CurrentShard(u)' = CurrentShard(u)
  BY Bystander DEF OthersGoOn
<1>4. CASE r # s
  <2>1. shardLock'[r] = shardLock[r]
    BY <1>1, <1>4
  <2>2. ~Queued(t, r)
    BY <1>1, <1>4 DEF QueueOK
  <2> QED BY <1>1, <1>3, <2>1, <2>2, QueueKept DEF QueueOK
<1>5. CASE r = s
  <2>1. /\ q # << >> /\ Head(q) = t
        /\ shardLock'[r].queue = Tail(q) /\ shardLock'[r].readers = {}
    <3>1. shardLock'[r] = WriteLock(shardLock[r], t) /\ First(shardLock[r], t)
      BY <1>1, <1>5
    <3>2. WriteLock(shardLock[r], t).queue = Tail(q)
      BY <1>1, <3>1, QueueFacts
    <3>3. WriteLock(shardLock[r], t).readers = {}
      BY <1>1, <3>1, LockFacts DEF QueueOK
    <3> QED BY <3>1, <3>2, <3>3 DEF First
  <2>2. \A i, j \in 1 .. Len(q) : q[i] = q[j] => i = j
    BY <1>1 DEF QueueOK
  <2>3. /\ Len(q) \in Nat \ {0} /\ Len(Tail(q)) = Len(q) - 1 /\ q[1] = t
        /\ \A i \in 1 .. Len(Tail(q)) : Tail(q)[i] = q[i + 1]
    BY <1>2, <2>1
  <2>4. \A i \in 1 .. Len(Tail(q)) : i + 1 \in 1 .. Len(q) /\ Tail(q)[i] # t
    <3> HIDE DEF q
    <3> QED BY <2>2, <2>3
  <2>5. \A u \in Task : Queued(u, r)' => u # t /\ Queued(u, r)
    BY <2>1, <2>3, <2>4 DEF Queued
  <2>6. \A u \in Task : Queued(u, r)' => pc'[u] = "shard" /\ CurrentShard(u)' = r
    BY <1>1, <1>3, <2>5 DEF QueueOK
  <2>7. \A i, j \in 1 .. Len(Tail(q)) : Tail(q)[i] = Tail(q)[j] => i = j
    <3> HIDE DEF q
    <3> QED BY <2>2, <2>3, <2>4
  <2> QED BY <2>1, <2>6, <2>7 DEF QueueOK
<1> QED BY <1>4, <1>5

\* The queues stay in order whatever a task does.
LEMMA QueuesNext ==
  ASSUME IInv, QueuesOK, NEW t \in Task,
         Step(t) \/ Return(t) \/ \E c \in Calls[t] : Call(t, c)
  PROVE  QueuesOK'
<1>1. TypeOK /\ CommandsOK /\ shardLock \in [Shard -> Lock] /\ pc \in [Task -> Stage] /\ at \in [Task -> Nat]
  BY DEF IInv, TypeOK
<1>2. OthersGoOn(t)
  BY <1>1, StepsOfOneTask
<1>3. \A s \in Shard : QueueOK(s)
  BY DEF QueuesOK
<1>4. CASE UNCHANGED shardLock /\ pc[t] # "shard"
  BY <1>1, <1>2, <1>4, QueuesKept
<1>5. CASE EnterKeyed(t)
  <2> DEFINE s == ShardOf[cmd[t].keys[1]]
  <2>1. /\ pc[t] = "global" /\ pc'[t] = "shard" /\ at'[t] = 1 /\ cmd' = cmd
        /\ cmd[t].op \in KeyedOp
        /\ shardLock' = [shardLock EXCEPT ![s] = Wait(@, t)]
    BY <1>1, <1>5 DEF EnterKeyed, IsKeyed
  <2>2. cmd[t] \in Command
    BY <1>1, <2>1 DEF CommandsOK, CommandOK
  <2>3. s \in Shard
    BY <2>1, <2>2, CommandFacts, ShardedDatabaseAssumption
  <2>4. CurrentShard(t)' = s
    BY <2>1 DEF CurrentShard, CurrentKey
  <2> HIDE DEF s
  <2>5. ASSUME NEW r \in Shard
        PROVE  /\ shardLock'[r].readers = {}
               /\ shardLock'[r].queue = IF r = s THEN Append(shardLock[r].queue, t) ELSE shardLock[r].queue
    <3>1. shardLock[r] \in Lock /\ shardLock[r].readers = {}
      BY <1>1, <1>3 DEF QueueOK
    <3>2. Wait(shardLock[r], t).readers = {} /\ Wait(shardLock[r], t).queue = Append(shardLock[r].queue, t)
      BY <3>1, LockFacts, QueueFacts
    <3>3. shardLock'[r] = IF r = s THEN Wait(shardLock[r], t) ELSE shardLock[r]
      BY <1>1, <2>1
    <3> QED BY <3>1, <3>2, <3>3
  <2> QED BY <1>1, <1>2, <2>1, <2>3, <2>4, <2>5, QueueJoined
<1>6. CASE EnterShard(t)
  <2>1. /\ pc[t] = "shard" /\ First(shardLock[CurrentShard(t)], t)
        /\ shardLock' = [shardLock EXCEPT ![CurrentShard(t)] = WriteLock(@, t)]
    BY <1>6 DEF EnterShard, CanWrite
  <2>2. CurrentShard(t) \in Shard
    BY <1>1, <2>1, KeyedTask DEF KeyedStage
  <2> QED BY <1>1, <1>2, <2>1, <2>2, QueueLeft
<1>7. CASE Panic(t) \/ ReturnOutcome(t)
  <2>1. pc[t] # "shard" /\ shardLock' = [shardLock EXCEPT ![CurrentShard(t)] = Unlock(@, t)]
    BY <1>7 DEF Panic, ReturnOutcome
  <2>2. \A s \in Shard : shardLock'[s] = shardLock[s] \/ shardLock'[s] = Unlock(shardLock[s], t)
    BY <1>1, <2>1
  <2> QED BY <1>1, <1>2, <2>1, <2>2, QueuesKept
<1>8. CASE ApplyLen(t)
  <2> DEFINE s == CurrentShard(t)
             next == ShardOf[cmd[t].keys[at[t] + 1]]
             released == IF cmd[t].op = "DEL"
                           THEN [shardLock EXCEPT ![s] = Unlock(@, t)] ELSE shardLock
             more == cmd[t].op = "DEL" /\ at[t] < Len(cmd[t].keys)
  <2>1. pc[t] = "apply"
    BY <1>8 DEF ApplyLen
  <2>2. s \in Shard /\ cmd[t] \in Command /\ at[t] \in 1 .. Len(cmd[t].keys)
    BY <1>1, <2>1, KeyedTask DEF KeyedStage
  <2>3. ASSUME NEW r \in Shard
        PROVE  released[r] = shardLock[r] \/ released[r] = Unlock(shardLock[r], t)
    BY <1>1
  <2>4. CASE ~more
    <3>1. shardLock' = released
      BY <1>8, <2>4 DEF ApplyLen
    <3> HIDE DEF released
    <3> QED BY <1>1, <1>2, <2>1, <2>3, <3>1, QueuesKept
  <2>5. CASE more
    <3>1. /\ at'[t] = at[t] + 1 /\ pc'[t] = "shard" /\ cmd' = cmd
          /\ shardLock' = [released EXCEPT ![next] = Wait(@, t)]
      BY <1>1, <1>8, <2>5 DEF ApplyLen
    <3>2. CurrentShard(t)' = next
      BY <3>1 DEF CurrentShard, CurrentKey
    <3>3. next \in Shard
      <4>1. at[t] + 1 \in 1 .. Len(cmd[t].keys)
        BY <1>1, <2>2, <2>5, CommandFacts
      <4>2. cmd[t].keys[at[t] + 1] \in Key
        BY <2>2, <4>1, CommandFacts
      <4> QED BY <4>2, ShardedDatabaseAssumption
    <3>4. released \in [Shard -> Lock]
      <4>1. Unlock(shardLock[s], t) \in Lock
        BY <1>1, <2>2, LockFacts
      <4> QED BY <1>1, <4>1
    <3> HIDE DEF released, next
    <3>5. ASSUME NEW r \in Shard
          PROVE  /\ shardLock'[r].readers = {}
                 /\ shardLock'[r].queue = IF r = next THEN Append(shardLock[r].queue, t) ELSE shardLock[r].queue
      <4>1. shardLock[r] \in Lock /\ shardLock[r].readers = {}
        BY <1>1, <1>3 DEF QueueOK
      <4>2. released[r] \in Lock /\ released[r].readers = {} /\ released[r].queue = shardLock[r].queue
        <5>1. /\ Unlock(shardLock[r], t).readers = shardLock[r].readers \ {t}
              /\ Unlock(shardLock[r], t).queue = shardLock[r].queue
          BY <4>1, LockFacts, QueueFacts
        <5> QED BY <2>3, <3>4, <4>1, <5>1
      <4>3. /\ Wait(released[r], t).readers = {}
            /\ Wait(released[r], t).queue = Append(shardLock[r].queue, t)
        <5>1. Wait(released[r], t).readers = released[r].readers
          BY <4>2, LockFacts
        <5>2. Wait(released[r], t).queue = Append(released[r].queue, t)
          BY <4>2, QueueFacts
        <5> QED BY <4>2, <5>1, <5>2
      <4>4. shardLock'[r] = IF r = next THEN Wait(released[r], t) ELSE released[r]
        BY <3>1, <3>4
      <4> QED BY <4>2, <4>3, <4>4
    <3> QED BY <1>1, <1>2, <2>1, <3>1, <3>2, <3>3, <3>5, QueueJoined
  <2> QED BY <2>4, <2>5
<1>9. CASE Execute(t) \/ StartTtl(t) \/ TtlRemaining(t) \/ EnterWhole(t) \/ Scan(t) \/ Finish(t)
  <2>1. UNCHANGED shardLock /\ pc[t] # "shard"
    BY <1>9 DEF Execute, StartTtl, TtlRemaining, EnterWhole, Scan, Finish, dbVars
  <2> QED BY <1>4, <2>1
<1>10. CASE Return(t) \/ \E c \in Calls[t] : Call(t, c)
  <2>1. UNCHANGED shardLock /\ pc[t] # "shard"
    BY <1>10 DEF Return, Call, dbVars
  <2> QED BY <1>4, <2>1
<1> QED BY <1>5, <1>6, <1>7, <1>8, <1>9, <1>10 DEF Step

-----------------------------------------------------------------------------
(***************************************************************************)
(* What a command on the whole store has gathered.                         *)
(***************************************************************************)

\* An entry that has not expired now had not expired before.
LEMMA NotYetExpired ==
  ASSUME NEW e \in Entry \cup {Absent}, NEW early \in Nat, NEW late \in Nat, early <= late,
         ~IsExpired(e, late)
  PROVE  ~IsExpired(e, early)
BY DatabaseAssumption DEF IsExpired, Entry

\* A task whose commands' time has not come, or is over, has no say; the
\* others keep what they have while the store stands still, or if there are
\* none that gather.
LEMMA GatheredKept ==
  ASSUME GatheredOK, NEW t \in Task, OthersGoOn(t), now' = now,
         pc'[t] \notin WholeStage,
         pc'[t] # "returned" => collected'[t] = EmptyData,
         shards' = shards \/ \A u \in Task : pc[u] \notin WholeStage
  PROVE  GatheredOK'
<1> SUFFICES ASSUME NEW u \in Task
             PROVE  /\ pc'[u] \notin WholeStage \cup {"returned"} => collected'[u] = EmptyData
                    /\ pc'[u] \in WholeStage /\ cmd'[u].op = "KEYS" => KeysSoFar(u)'
                    /\ pc'[u] \in WholeStage /\ cmd'[u].op = "SNAPSHOT" => SnapshotSoFar(u)'
  BY DEF GatheredOK
<1>1. CASE u = t
  BY <1>1
<1>2. CASE u # t
  <2>1. /\ pc'[u] = pc[u] /\ cmd'[u] = cmd[u] /\ at'[u] = at[u]
        /\ since'[u] = since[u] /\ found'[u] = found[u] /\ collected'[u] = collected[u]
    BY <1>2 DEF OthersGoOn
  <2>2. CASE pc[u] \notin WholeStage
    BY <2>1, <2>2 DEF GatheredOK
  <2>3. CASE pc[u] \in WholeStage
    <3>1. shards' = shards /\ \A s : Passed(u, s)' <=> Passed(u, s)
      BY <2>1, <2>3 DEF Passed
    <3>2. (KeysSoFar(u)' <=> KeysSoFar(u)) /\ (SnapshotSoFar(u)' <=> SnapshotSoFar(u))
      BY <2>1, <3>1 DEF KeysSoFar, SnapshotSoFar
    <3> QED BY <2>1, <2>3, <3>2 DEF GatheredOK
  <2> QED BY <2>2, <2>3
<1> QED BY <1>1, <1>2

\* At its start it has passed no shard and gathered nothing.
LEMMA GatheredFirst ==
  ASSUME IInv, GatheredOK, NEW t \in Task, EnterWhole(t)
  PROVE  GatheredOK'
<1>1. /\ pc \in [Task -> Stage] /\ at \in [Task -> Nat]
      /\ \A u \in Task : pc[u] \notin WholeStage
  BY DEF IInv, TypeOK, GlobalOK, EnterWhole, CanWrite
<1>2. /\ pc[t] = "global" /\ pc'[t] = "scan" /\ at'[t] = 0 /\ UNCHANGED <<shards, cmd, collected>>
  BY <1>1 DEF EnterWhole
<1>3. OthersGoOn(t)
  BY StepsOfOneTask DEF IInv, Step
<1>4. collected'[t] = EmptyData
  BY <1>2 DEF GatheredOK, WholeStage
<1>5. \A k \in Key : ~Passed(t, ShardOf[k])' /\ collected'[t][k] = Absent
  BY <1>2, <1>4, ShardedDatabaseAssumption DEF Passed, EmptyData, Shard
<1>6. KeysSoFar(t)' /\ SnapshotSoFar(t)'
  <2>1. since'[t] = now /\ found'[t] = LiveStore /\ shards' = shards
    BY <1>2 DEF EnterWhole, IInv, TypeOK
  <2>2. \A k \in Key : found'[t][k] = LiveView(shards'[ShardOf[k]], since'[t])[k]
    BY <2>1 DEF LiveStore
  <2> QED BY <1>5, <2>2 DEF KeysSoFar, SnapshotSoFar
<1>7. \A u \in Task \ {t} : pc'[u] \notin WholeStage /\ (pc'[u] # "returned" => collected'[u] = EmptyData)
  BY <1>1, <1>3 DEF OthersGoOn, GatheredOK
<1> QED BY <1>2, <1>6, <1>7 DEF GatheredOK, WholeStage

\* One shard more: what is gathered there is what the shard keeps and what had
\* not expired, and it has no key of another shard.
LEMMA GatheredMore ==
  ASSUME IInv, SinceOK, GatheredOK, NEW t \in Task, Scan(t)
  PROVE  GatheredOK'
<1> DEFINE s == at[t]
           d == shards[s]
<1>1. /\ pc \in [Task -> Stage] /\ at \in [Task -> Nat] /\ shards \in [Shard -> Data]
      /\ collected \in [Task -> Data] /\ since \in [Task -> Nat] /\ now \in Nat
  BY DEF IInv, TypeOK
<1>2. /\ pc[t] = "scan" /\ s < ShardCount
      /\ shards' = [shards EXCEPT ![s] = ScannedData(t, d)]
      /\ collected' = [collected EXCEPT ![t] =
           [k \in Key |-> IF @[k] # Absent THEN @[k] ELSE Gathered(t, d)[k]]]
      /\ at' = [at EXCEPT ![t] = s + 1]
      /\ pc' = [pc EXCEPT ![t] = IF s + 1 = ShardCount THEN "finish" ELSE "scan"]
      /\ UNCHANGED <<now, cmd, since, found>>
  BY DEF Scan
<1>3. s \in Shard /\ d \in Data
  BY <1>1, <1>2, ShardedDatabaseAssumption DEF Shard
<1>4. OthersGoOn(t) /\ \A u \in Task \ {t} : pc'[u] \notin WholeStage
  <2>1. OthersGoOn(t)
    BY StepsOfOneTask DEF IInv, Step
  <2> QED BY <1>2, <2>1 DEF IInv, GlobalOK, OthersGoOn, WholeStage
<1>5. ASSUME NEW k \in Key
      PROVE  /\ ShardOf[k] \in Shard /\ shards[ShardOf[k]] \in Data
             /\ Passed(t, ShardOf[k])' <=> (Passed(t, ShardOf[k]) \/ ShardOf[k] = s)
             /\ ShardOf[k] = s => ~Passed(t, ShardOf[k])
             /\ ShardOf[k] # s => d[k] = Absent
             /\ shards'[ShardOf[k]] = IF ShardOf[k] = s THEN ScannedData(t, d) ELSE shards[ShardOf[k]]
             /\ collected'[t][k] = IF collected[t][k] # Absent THEN collected[t][k] ELSE Gathered(t, d)[k]
  <2>1. ShardOf[k] \in Shard /\ ShardOf[k] \in Nat /\ ShardOf[k] < ShardCount /\ ShardCount \in Nat \ {0}
    BY ShardedDatabaseAssumption DEF Shard
  <2>2. Passed(t, ShardOf[k])' <=> (Passed(t, ShardOf[k]) \/ ShardOf[k] = s)
    BY <1>1, <1>2, <2>1 DEF Passed
  <2>3. ShardOf[k] = s => ~Passed(t, ShardOf[k])
    BY <1>1, <1>2 DEF Passed
  <2>4. ShardOf[k] # s => d[k] = Absent
    BY <1>3 DEF IInv, WellPlaced
  <2> QED BY <1>1, <1>2, <1>3, <2>1, <2>2, <2>3, <2>4
<1>6. ASSUME cmd[t].op = "KEYS" PROVE KeysSoFar(t)'
  <2>1. ScannedData(t, d) = d /\ Gathered(t, d) = LiveView(d, now)
    BY <1>6 DEF ScannedData, Gathered
  <2>2. KeysSoFar(t)
    BY <1>2, <1>6 DEF GatheredOK, WholeStage
  <2> SUFFICES ASSUME NEW k \in Key
               PROVE  LET e == shards'[ShardOf[k]][k]
                      IN  /\ Passed(t, ShardOf[k])' =>
                               /\ IsLive(shards'[ShardOf[k]], k, now) => collected'[t][k] = e
                               /\ collected'[t][k] # Absent => collected'[t][k] = e /\ ~IsExpired(e, since[t])
                          /\ ~Passed(t, ShardOf[k])' => collected'[t][k] = Absent
    BY <1>2 DEF KeysSoFar
  <2>3. shards'[ShardOf[k]] = shards[ShardOf[k]]
    BY <1>5, <2>1
  <2>4. CASE ShardOf[k] # s
    <3>1. Gathered(t, d)[k] = Absent
      BY <1>5, <2>1, <2>4 DEF LiveView
    <3>2. collected'[t][k] = collected[t][k] /\ (Passed(t, ShardOf[k])' <=> Passed(t, ShardOf[k]))
      BY <1>5, <2>4, <3>1
    <3> QED BY <2>2, <2>3, <3>2 DEF KeysSoFar
  <2>5. CASE ShardOf[k] = s
    <3>1. collected[t][k] = Absent
      BY <1>5, <2>2, <2>5 DEF KeysSoFar
    <3>2. collected'[t][k] = IF IsExpired(d[k], now) THEN Absent ELSE d[k]
      BY <1>5, <2>1, <3>1 DEF LiveView
    <3>3. d[k] \in Entry \cup {Absent} /\ since[t] \in Nat /\ since[t] <= now
      BY <1>1, <1>3 DEF Data, SinceOK
    <3>4. ~IsExpired(d[k], now) => ~IsExpired(d[k], since[t])
      BY <1>1, <3>3, NotYetExpired
    <3> QED BY <1>5, <2>3, <2>5, <3>2, <3>4 DEF IsLive
  <2> QED BY <2>4, <2>5
<1>7. ASSUME cmd[t].op = "SNAPSHOT" PROVE SnapshotSoFar(t)'
  <2>1. ScannedData(t, d) = LiveView(d, since[t]) /\ Gathered(t, d) = LiveView(d, since[t])
    BY <1>7 DEF ScannedData, Gathered, RemoveExpired
  <2>2. SnapshotSoFar(t)
    BY <1>2, <1>7 DEF GatheredOK, WholeStage
  <2> SUFFICES ASSUME NEW k \in Key
               PROVE  /\ Passed(t, ShardOf[k])' => collected'[t][k] = found[t][k]
                      /\ ~Passed(t, ShardOf[k])' =>
                           /\ collected'[t][k] = Absent
                           /\ found[t][k] = LiveView(shards'[ShardOf[k]], since[t])[k]
    BY <1>2 DEF SnapshotSoFar
  <2>3. LiveView(d, since[t])[k] = IF IsExpired(d[k], since[t]) THEN Absent ELSE d[k]
    BY DEF LiveView
  <2>4. CASE ShardOf[k] # s
    <3>1. Gathered(t, d)[k] = Absent
      BY <1>5, <2>1, <2>3, <2>4
    <3>2. /\ collected'[t][k] = collected[t][k] /\ shards'[ShardOf[k]] = shards[ShardOf[k]]
          /\ Passed(t, ShardOf[k])' <=> Passed(t, ShardOf[k])
      BY <1>5, <2>4, <3>1
    <3> QED BY <2>2, <3>2 DEF SnapshotSoFar
  <2>5. CASE ShardOf[k] = s
    <3>1. collected[t][k] = Absent /\ found[t][k] = LiveView(d, since[t])[k]
      BY <1>5, <2>2, <2>5 DEF SnapshotSoFar
    <3>2. collected'[t][k] = LiveView(d, since[t])[k]
      BY <1>5, <2>1, <2>5, <3>1
    <3> QED BY <1>5, <2>5, <3>1, <3>2
  <2> QED BY <2>4, <2>5
<1>8. pc'[t] \in WholeStage
  BY <1>1, <1>2 DEF WholeStage
<1>9. \A u \in Task \ {t} : pc'[u] # "returned" => collected'[u] = EmptyData
  BY <1>4 DEF OthersGoOn, GatheredOK
<1> QED BY <1>2, <1>4, <1>6, <1>7, <1>8, <1>9 DEF GatheredOK

\* The clock moves on: fewer entries are live, and what had not expired when
\* the scan began still had not.
LEMMA GatheredLater ==
  ASSUME IInv, GatheredOK, Tick \/ UNCHANGED vars
  PROVE  GatheredOK'
<1>1. UNCHANGED <<shards, pc, cmd, at, since, found, collected>> /\ now \in Nat /\ now' \in Nat /\ now <= now'
  BY DEF Tick, vars, dbVars, taskVars, IInv, TypeOK
<1>2. \A t, s : Passed(t, s)' <=> Passed(t, s)
  BY <1>1 DEF Passed
<1>3. ASSUME NEW k \in Key, IsLive(shards[ShardOf[k]], k, now')
      PROVE  IsLive(shards[ShardOf[k]], k, now)
  <2>1. shards[ShardOf[k]][k] \in Entry \cup {Absent}
    BY ShardedDatabaseAssumption DEF IInv, TypeOK, Data
  <2>2. ~IsExpired(shards[ShardOf[k]][k], now)
    BY <1>1, <1>3, <2>1, NotYetExpired DEF IsLive
  <2> QED BY <1>3, <2>2 DEF IsLive
<1>4. ASSUME NEW t \in Task, KeysSoFar(t) PROVE KeysSoFar(t)'
  BY <1>1, <1>2, <1>3, <1>4 DEF KeysSoFar
<1>5. ASSUME NEW t \in Task, SnapshotSoFar(t) PROVE SnapshotSoFar(t)'
  BY <1>1, <1>2, <1>5 DEF SnapshotSoFar
<1> QED BY <1>1, <1>4, <1>5 DEF GatheredOK

\* What the steps of one task do to what others gather.
LEMMA GatheredNext ==
  ASSUME IInv, SinceOK, GatheredOK, NEW t \in Task,
         Step(t) \/ Return(t) \/ \E c \in Calls[t] : Call(t, c)
  PROVE  GatheredOK'
<1>1. /\ pc \in [Task -> Stage] /\ collected \in [Task -> Data]
  BY DEF IInv, TypeOK
<1>2. OthersGoOn(t)
  BY StepsOfOneTask DEF IInv
<1>3. pc[t] \notin WholeStage \cup {"returned"} => collected[t] = EmptyData
  BY DEF GatheredOK
<1>4. pc[t] \in KeyedStage => \A u \in Task : pc[u] \notin WholeStage
  BY DEF IInv, GlobalOK, KeyedStage, WholeStage
<1> USE DEF WholeStage, KeyedStage
<1>5. CASE Execute(t) \/ TtlRemaining(t)
  <2>1. /\ pc[t] \in {"body", "ttl"} /\ pc'[t] = "apply" /\ now' = now /\ collected' = collected
    BY <1>1, <1>5 DEF Execute, TtlRemaining
  <2> QED BY <1>2, <1>3, <1>4, <2>1, GatheredKept
<1>6. CASE Panic(t)
  <2>1. pc[t] = "body" /\ pc'[t] = "idle" /\ now' = now /\ collected' = collected
    BY <1>1, <1>6 DEF Panic
  <2> QED BY <1>2, <1>3, <1>4, <2>1, GatheredKept
<1>7. CASE EnterKeyed(t) \/ EnterShard(t) \/ StartTtl(t) \/ ApplyLen(t) \/ ReturnOutcome(t)
  <2>1. /\ pc[t] \in {"global", "shard", "body", "apply", "outcome"}
        /\ pc'[t] \in {"shard", "body", "ttl", "outcome", "returned"}
        /\ now' = now /\ collected' = collected /\ shards' = shards
    BY <1>1, <1>7 DEF EnterKeyed, EnterShard, StartTtl, ApplyLen, ReturnOutcome, dbVars
  <2> QED BY <1>2, <1>3, <2>1, GatheredKept
<1>8. CASE Finish(t)
  <2>1. pc'[t] = "returned" /\ now' = now /\ shards' = shards
    BY <1>1, <1>8 DEF Finish
  <2> QED BY <1>2, <2>1, GatheredKept
<1>9. CASE Return(t)
  <2>1. pc'[t] = "idle" /\ now' = now /\ shards' = shards /\ collected'[t] = EmptyData
    BY <1>1, <1>9 DEF Return, dbVars
  <2> QED BY <1>2, <2>1, GatheredKept
<1>10. CASE \E c \in Calls[t] : Call(t, c)
  <2>1. pc[t] = "idle" /\ pc'[t] = "global" /\ now' = now /\ shards' = shards /\ collected' = collected
    BY <1>1, <1>10 DEF Call
  <2> QED BY <1>2, <1>3, <2>1, GatheredKept
<1>11. CASE EnterWhole(t) \/ Scan(t)
  BY <1>11, GatheredFirst, GatheredMore
<1> QED BY <1>5, <1>6, <1>7, <1>8, <1>9, <1>10, <1>11 DEF Step

\* The instant a scan began at is not later than the clock.
LEMMA SinceNext ==
  ASSUME IInv, SinceOK, [Next]_vars
  PROVE  SinceOK'
<1>1. now \in Nat /\ since \in [Task -> Nat] /\ now' \in Nat /\ now <= now'
  <2>1. now' = now \/ now' = now + 1
    BY DEF Next, Step, EnterKeyed, EnterWhole, EnterShard, Execute, StartTtl, TtlRemaining, Panic,
           ApplyLen, ReturnOutcome, Scan, Finish, Return, Call, Tick, vars
  <2> QED BY <2>1 DEF IInv, TypeOK
<1>2. \/ since' = since
      \/ \E t \in Task : since' = [since EXCEPT ![t] = now]
      \/ \E t \in Task : since' = [since EXCEPT ![t] = 0]
  BY DEF Next, Step, EnterKeyed, EnterWhole, EnterShard, Execute, StartTtl, TtlRemaining, Panic,
         ApplyLen, ReturnOutcome, Scan, Finish, Return, Call, Tick, vars, taskVars
<1> QED BY <1>1, <1>2 DEF SinceOK

-----------------------------------------------------------------------------
(***************************************************************************)
(* The theorems.                                                           *)
(***************************************************************************)

\* At the start nobody waits and nothing has been gathered.
LEMMA ScanInit == Init => ScanInv
<1> SUFFICES ASSUME Init PROVE ScanInv
  OBVIOUS
<1>1. QueuesOK
  BY DEF Init, QueuesOK, QueueOK, Queued, Unlocked
<1>2. SinceOK
  BY DEF Init, SinceOK
<1>3. GatheredOK
  BY DEF Init, GatheredOK, WholeStage
<1> QED BY <1>1, <1>2, <1>3 DEF ScanInv

LEMMA ScanNext == IInv /\ ScanInv /\ [Next]_vars => ScanInv'
<1> SUFFICES ASSUME IInv, ScanInv, [Next]_vars PROVE ScanInv'
  OBVIOUS
<1>1. QueuesOK /\ SinceOK /\ GatheredOK
  BY DEF ScanInv
<1>2. SinceOK'
  BY <1>1, SinceNext
<1>3. ASSUME NEW t \in Task, Step(t) \/ Return(t) \/ \E c \in Calls[t] : Call(t, c)
      PROVE  QueuesOK' /\ GatheredOK'
  BY <1>1, <1>3, QueuesNext, GatheredNext
<1>4. ASSUME Tick \/ UNCHANGED vars PROVE QueuesOK' /\ GatheredOK'
  <2>1. UNCHANGED <<shardLock, pc, cmd, at>>
    BY <1>4 DEF Tick, vars, dbVars, taskVars
  <2>2. QueuesOK'
    BY <1>1, <2>1 DEF QueuesOK, QueueOK, Queued, CurrentShard, CurrentKey
  <2> QED BY <1>1, <1>4, <2>2, GatheredLater
<1>5. QueuesOK' /\ GatheredOK'
  BY <1>3, <1>4 DEF Next
<1> QED BY <1>2, <1>5 DEF ScanInv

\* The queues of the shard locks hold only the commands that work on those
\* shards, and what a scan has gathered so far is what it promises so far.
THEOREM ScanInvariance == SafeSpec => [](IInv /\ ScanInv)
<1>1. Init => IInv /\ ScanInv
  BY InitOK, ScanInit
<1>2. IInv /\ ScanInv /\ [Next]_vars => IInv' /\ ScanInv'
  BY NextOK, ScanNext
<1> QED BY <1>1, <1>2, PTL DEF SafeSpec

\* A command on the whole store finds every shard lock free, with nobody
\* waiting for it: it takes none of them with an await that could block.
THEOREM WholeCommandsNeverWait == SafeSpec => []WholeNeverWaits
<1>1. IInv /\ ScanInv => WholeNeverWaits
  <2> SUFFICES ASSUME IInv, ScanInv, NEW t \in Task, pc[t] = "scan", NEW s \in Shard
               PROVE  Free(shardLock[s])
    BY DEF WholeNeverWaits
  <2>1. \A u \in Task : pc[u] \notin KeyedStage
    BY DEF IInv, GlobalOK, WholeStage, KeyedStage
  <2>2. shardLock[s] \in Lock /\ QueueOK(s)
    BY DEF IInv, TypeOK, ScanInv, QueuesOK
  <2>3. shardLock[s].writers = {} /\ shardLock[s].readers = {}
    <3>1. \A u \in Task : ~HoldsShard(u)
      BY <2>1 DEF HoldsShard, InSection, KeyedStage
    <3> QED BY <2>2, <3>1 DEF IInv, ShardLocksOK, QueueOK
  <2>4. shardLock[s].queue = << >>
    <3>1. shardLock[s].queue \in Seq(Task)
      BY <2>2 DEF Lock
    <3>2. \A u \in Task : ~Queued(u, s)
      BY <2>1, <2>2 DEF QueueOK, KeyedStage
    <3> QED BY <3>1, <3>2 DEF Queued
  <2> QED BY <2>2, <2>3, <2>4 DEF Free, Unlocked, Lock
<1> QED BY <1>1, ScanInvariance, PTL

\* KEYS answers with every key live at its end and none that had expired at
\* its start, however the clock moves while it goes from shard to shard.
THEOREM KeysAreBracketed == SafeSpec => []KeysBracketed
<1>1. ScanInv => KeysBracketed
  <2> SUFFICES ASSUME ScanInv, NEW t \in Task, pc[t] = "finish", cmd[t].op = "KEYS"
               PROVE  KeysSoFar(t) /\ \A k \in Key : Passed(t, ShardOf[k])
    BY DEF KeysBracketed, KeysSoFar
  <2> QED BY DEF ScanInv, GatheredOK, WholeStage, Passed
<1> QED BY <1>1, ScanInvariance, PTL

\* The snapshot a rewrite writes is exactly what was live in the whole store
\* when the scan captured its instant: nothing is missing, nothing is newer.
THEOREM SnapshotIsOfOneInstant == SafeSpec => []SnapshotOfOneInstant
<1>1. IInv /\ ScanInv => SnapshotOfOneInstant
  <2> SUFFICES ASSUME IInv, ScanInv, NEW t \in Task, pc[t] = "finish", cmd[t].op = "SNAPSHOT"
               PROVE  collected[t] = found[t]
    BY DEF SnapshotOfOneInstant
  <2>1. SnapshotSoFar(t) /\ \A k \in Key : Passed(t, ShardOf[k])
    BY DEF ScanInv, GatheredOK, WholeStage, Passed
  <2>2. \A k \in Key : collected[t][k] = found[t][k]
    BY <2>1 DEF SnapshotSoFar
  <2>3. collected[t] \in Data /\ found[t] \in Data
    BY DEF IInv, TypeOK
  <2> QED BY <2>2, <2>3 DEF Data
<1> QED BY <1>1, ScanInvariance, PTL

\* No step of anybody changes a live entry while a scan is on its way, and the
\* scan itself only removes what has expired.
THEOREM ScansSeeFrozenStore == SafeSpec => ScanSeesFrozenStore
<1>1. ASSUME IInv, SinceOK, [Next]_vars, NEW t \in Task, pc[t] = "scan", cmd[t].op # "FLUSHDB", NEW k \in Key
      PROVE  \/ shards'[ShardOf[k]][k] = shards[ShardOf[k]][k]
             \/ shards'[ShardOf[k]][k] = Absent /\ IsExpired(shards[ShardOf[k]][k], now)
  <2>1. /\ shards \in [Shard -> Data] /\ since \in [Task -> Nat] /\ now \in Nat
        /\ ShardOf[k] \in Shard
    BY <1>1, ShardedDatabaseAssumption DEF IInv, TypeOK
  <2>2. \A u \in Task : pc[u] \notin KeyedStage /\ (u # t => pc[u] # "scan")
    BY <1>1 DEF IInv, GlobalOK, WholeStage, KeyedStage
  <2>3. CASE shards' = shards
    BY <2>3
  <2>4. CASE Scan(t)
    <3> DEFINE d == shards[at[t]]
    <3>1. shards' = [shards EXCEPT ![at[t]] = ScannedData(t, d)]
      BY <2>4 DEF Scan
    <3>2. ScannedData(t, d) = d \/ ScannedData(t, d) = LiveView(d, now) \/ ScannedData(t, d) = LiveView(d, since[t])
      BY <1>1 DEF IInv, CommandsOK, CommandOK, WholeStage, IsWhole, WholeOp, ScannedData, RemoveExpired
    <3>3. CASE ShardOf[k] # at[t]
      BY <2>1, <3>1, <3>3
    <3>4. CASE ShardOf[k] = at[t]
      <4>1. shards'[ShardOf[k]] = ScannedData(t, d) /\ d[k] \in Entry \cup {Absent}
        BY <2>1, <3>1, <3>4 DEF Data
      <4>2. IsExpired(d[k], since[t]) => IsExpired(d[k], now)
        BY <1>1, <2>1, <4>1, NotYetExpired DEF SinceOK
      <4>3. \A time : LiveView(d, time)[k] = IF IsExpired(d[k], time) THEN Absent ELSE d[k]
        BY DEF LiveView
      <4> QED BY <3>2, <3>4, <4>1, <4>2, <4>3
    <3> QED BY <3>3, <3>4
  <2>5. shards' = shards \/ Scan(t)
    <3>1. ASSUME NEW u \in Task, Step(u) PROVE shards' = shards \/ Scan(t)
      <4>1. pc[u] \notin {"shard", "body", "ttl", "apply", "outcome"}
        BY <2>2 DEF KeyedStage
      <4>2. CASE Scan(u)
        BY <2>2, <4>2 DEF Scan
      <4> QED BY <3>1, <4>1, <4>2
           DEF Step, EnterKeyed, EnterWhole, EnterShard, Execute, StartTtl, TtlRemaining, Panic,
               ApplyLen, ReturnOutcome, Finish
    <3>2. ASSUME NEW u \in Task, Return(u) \/ \E c \in Calls[u] : Call(u, c) PROVE shards' = shards
      BY <3>2 DEF Return, Call, dbVars
    <3>3. ASSUME Tick \/ UNCHANGED vars PROVE shards' = shards
      BY <3>3 DEF Tick, vars, dbVars
    <3> QED BY <1>1, <3>1, <3>2, <3>3 DEF Next
  <2> QED BY <2>3, <2>4, <2>5
<1>2. IInv /\ SinceOK /\ [Next]_vars =>
        [\A t \in Task :
           pc[t] = "scan" /\ cmd[t].op # "FLUSHDB" =>
             \A k \in Key :
               LET e == shards[ShardOf[k]][k]
                   f == shards'[ShardOf[k]][k]
               IN  f = e \/ (f = Absent /\ IsExpired(e, now))]_vars
  BY <1>1
<1>3. ScanInv => SinceOK
  BY DEF ScanInv
<1> QED BY <1>2, <1>3, ScanInvariance, PTL DEF SafeSpec, ScanSeesFrozenStore

-----------------------------------------------------------------------------
(***************************************************************************)
(* ShardedDatabase implements KvStore, under the refinement mapping of     *)
(* ShardedDatabaseRefinement: every step of the sharded, lazily expiring   *)
(* store is a step of the plain map, or changes nothing of it.             *)
(***************************************************************************)

-----------------------------------------------------------------------------
(***************************************************************************)
(* The rounding of TTL.                                                    *)
(***************************************************************************)

\* Dividing rounded up gives the least number of seconds that covers the rest.
LEMMA RoundedUp ==
  ASSUME NEW rest \in Nat \ {0}, NEW s \in Nat \ {0}
  PROVE  LET n == (rest + s - 1) \div s
         IN  n \in Nat \ {0} /\ s * n >= rest /\ s * (n - 1) < rest
<1> DEFINE a == rest + s - 1
           n == a \div s
<1>1. a \in Nat /\ a >= s
  OBVIOUS
<1> HIDE DEF a
<1>2. n \in Int /\ s * n <= a /\ a < s * n + s
  BY <1>1
<1>3. n >= 1
  <2>1. s * n >= 0 /\ s * n + s > s
    BY <1>1, <1>2
  <2> QED BY <1>2, <2>1
<1>4. s * (n - 1) = s * n - s
  BY <1>2
<1> QED BY <1>2, <1>3, <1>4 DEF a

\* There is only one such number.
LEMMA RoundedUpUnique ==
  ASSUME NEW rest \in Nat \ {0}, NEW s \in Nat \ {0}, NEW n \in Nat \ {0}, NEW m \in Nat \ {0},
         s * n >= rest, s * (n - 1) < rest, s * m >= rest, s * (m - 1) < rest
  PROVE  n = m
<1>1. ASSUME n < m PROVE FALSE
  <2>1. s * n <= s * (m - 1)
    BY <1>1
  <2> QED BY <2>1
<1>2. ASSUME m < n PROVE FALSE
  <2>1. s * m <= s * (n - 1)
    BY <1>2
  <2> QED BY <2>1
<1> QED BY <1>1, <1>2

\* TTL of an entry that has not expired is the number KvStore chooses.
LEMMA TtlSecondsChosen ==
  ASSUME NEW e \in Entry, NEW time \in Nat, e.expireAt # Never, ~IsExpired(e, time)
  PROVE  /\ TtlSeconds(e, time) = CHOOSE n \in 1 .. e.expireAt :
                                     /\ Second * n >= e.expireAt - time
                                     /\ Second * (n - 1) < e.expireAt - time
         /\ TtlSeconds(e, time) \in Nat \ {0}
<1> DEFINE rest == e.expireAt - time
           n == TtlSeconds(e, time)
           Chosen(m) == Second * m >= rest /\ Second * (m - 1) < rest
<1>1. e.expireAt \in Nat /\ rest \in Nat \ {0} /\ Second \in Nat \ {0} /\ e # Absent
  BY DatabaseAssumption DEF Entry, IsExpired
<1>2. n \in Nat \ {0} /\ Chosen(n)
  <2>1. n = (rest + Second - 1) \div Second
    BY <1>1 DEF TtlSeconds
  <2> HIDE DEF rest, n
  <2> QED BY <1>1, <2>1, RoundedUp
<1>3. n \in 1 .. e.expireAt
  <2>1. n - 1 <= Second * (n - 1)
    BY <1>1, <1>2
  <2> QED BY <1>1, <1>2, <2>1
<1> HIDE DEF n
<1>4. ASSUME NEW m \in 1 .. e.expireAt, Chosen(m) PROVE m = n
  <2> HIDE DEF rest
  <2> QED BY <1>1, <1>2, <1>4, RoundedUpUnique
<1>5. n = CHOOSE m \in 1 .. e.expireAt : Chosen(m)
  <2> HIDE DEF Chosen
  <2> QED BY <1>2, <1>3, <1>4
<1> QED BY <1>2, <1>5 DEF n

-----------------------------------------------------------------------------
(***************************************************************************)
(* One operation on a shard and the map's view of it.                      *)
(***************************************************************************)

\* The entry an operation of KvStore leaves for a key that had entry e, and
\* what is left of it at once.
NewEntry(c, e, time) ==
  CASE c.op = "SET" ->
         [value |-> c.value, expireAt |-> IF c.arg = Never THEN Never ELSE time + c.arg]
    [] c.op = "SETAT" -> [value |-> c.value, expireAt |-> c.arg]
    [] c.op = "EXPIRE" /\ e # Absent -> [e EXCEPT !.expireAt = time + Second * c.arg]
    [] c.op = "EXPIREAT" /\ e # Absent -> [e EXCEPT !.expireAt = c.arg]
    [] c.op = "DEL" -> Absent
    [] OTHER -> e

Left(e, time) == IF e # Absent /\ e.expireAt \in 0 .. time THEN Absent ELSE e

\* An entry is left to KvStore exactly if it has not expired.
LEMMA LeftIsLive ==
  ASSUME NEW e \in Entry \cup {Absent}, NEW time \in Nat
  PROVE  Left(e, time) = IF IsExpired(e, time) THEN Absent ELSE e
BY DatabaseAssumption DEF Left, IsExpired, Entry

LEMMA ViewOfKey ==
  ASSUME NEW d \in Data, NEW k \in Key, NEW time \in Nat
  PROVE  /\ LiveView(d, time)[k] = IF IsExpired(d[k], time) THEN Absent ELSE d[k]
         /\ LiveView(d, time)[k] \in Entry \cup {Absent}
         /\ ~IsExpired(LiveView(d, time)[k], time)
         /\ IsLive(d, k, time) <=> LiveView(d, time)[k] # Absent
         /\ LiveView(d, time)[k] # Absent => LiveView(d, time)[k] = d[k]
BY DEF LiveView, Data, IsExpired, IsLive

LEMMA ViewOfLiveView ==
  ASSUME NEW d \in Data, NEW time \in Nat
  PROVE  LiveView(LiveView(d, time), time) = LiveView(d, time)
<1>1. \A k \in Key : LiveView(LiveView(d, time), time)[k] = LiveView(d, time)[k]
  BY DEF LiveView, IsExpired
<1> QED BY <1>1 DEF LiveView

\* Removing one expired entry changes nothing that can be seen.
LEMMA ViewOfRemoveIfExpired ==
  ASSUME NEW d \in Data, NEW k \in Key, NEW time \in Nat
  PROVE  /\ LiveView(RemoveIfExpired(d, k, time), time) = LiveView(d, time)
         /\ RemoveIfExpired(d, k, time)[k] = LiveView(d, time)[k]
<1>1. \A j \in Key : LiveView(RemoveIfExpired(d, k, time), time)[j] = LiveView(d, time)[j]
  BY DEF LiveView, RemoveIfExpired, IsExpired, Data
<1>2. RemoveIfExpired(d, k, time)[k] = LiveView(d, time)[k]
  BY DEF LiveView, RemoveIfExpired, Data
<1> QED BY <1>1, <1>2 DEF LiveView

Replaced(d, k, e) == [d EXCEPT ![k] = e]

\* Replacing one entry shows what is left of the new one.
LEMMA ViewOfReplaced ==
  ASSUME NEW d \in Data, NEW k \in Key, NEW time \in Nat, NEW e \in Entry \cup {Absent}
  PROVE  LiveView(Replaced(d, k, e), time) = Replaced(LiveView(d, time), k, Left(e, time))
<1> DEFINE f == LiveView(Replaced(d, k, e), time)
           g == Replaced(LiveView(d, time), k, Left(e, time))
<1>1. \A j \in Key : f[j] = g[j]
  BY LeftIsLive DEF LiveView, Data, Replaced
<1> QED BY <1>1 DEF LiveView, Replaced

\* An operation that does not panic shows in its shard as the entry KvStore
\* writes, and nothing else.
LEMMA ViewOfEffect ==
  ASSUME NEW d \in Data, NEW c \in Command, NEW k \in Key, NEW time \in Nat,
         c.op \in KeyedOp, c.arg # TooLong
  PROVE  LET e == LiveView(d, time)[k]
         IN  /\ LiveView(Effect(d, c, k, time), time) =
                  Replaced(LiveView(d, time), k, Left(NewEntry(c, e, time), time))
             /\ NewEntry(c, e, time) \in Entry \cup {Absent}
<1> DEFINE v == LiveView(d, time)
           p == RemoveIfExpired(d, k, time)
           e == v[k]
           new == NewEntry(c, e, time)
           after == Effect(d, c, k, time)
<1> SUFFICES LiveView(after, time) = Replaced(v, k, Left(new, time)) /\ new \in Entry \cup {Absent}
  OBVIOUS
<1>1. /\ c.arg \in Nat \cup {Never}
      /\ c.op \in {"SET", "SETAT"} => c.value \in Value
      /\ c.op \in {"SETAT", "EXPIREAT", "EXPIRE"} => c.arg \in Nat
      /\ time + Second * c.arg \in Nat \/ c.arg = Never
      /\ c.arg # Never => time + c.arg \in Nat
  BY DatabaseAssumption DEF Command
<1>2. /\ v \in Data /\ p \in Data /\ e \in Entry \cup {Absent} /\ ~IsExpired(e, time)
      /\ LiveView(v, time) = v /\ LiveView(p, time) = v /\ p[k] = e
  BY LiveViewFacts, RemoveIfExpiredFacts, ViewOfKey, ViewOfLiveView, ViewOfRemoveIfExpired
<1>3. Left(e, time) = e /\ Replaced(v, k, e) = v
  BY <1>2, LeftIsLive DEF Data, Replaced
<1> HIDE DEF v, p
<1>4. CASE c.op = "SET"
  <2>1. new = [value |-> c.value, expireAt |-> IF c.arg = Never THEN Never ELSE time + c.arg]
    BY <1>4 DEF NewEntry
  <2>2. new \in Entry
    BY <1>1, <1>4, <2>1 DEF Entry
  <2>3. after = Replaced(v, k, new)
    BY <1>4, <2>1 DEF Effect, DbSet, RemoveExpired, Deadline, v, Replaced
  <2> HIDE DEF new, after
  <2> QED BY <1>2, <2>2, <2>3, ViewOfReplaced
<1>5. CASE c.op = "SETAT"
  <2>1. new = [value |-> c.value, expireAt |-> c.arg]
    BY <1>5 DEF NewEntry
  <2>2. new \in Entry
    BY <1>1, <1>5, <2>1 DEF Entry
  <2>3. after = IF c.arg <= time THEN Replaced(v, k, Absent) ELSE Replaced(v, k, new)
    BY <1>5, <2>1 DEF Effect, DbSetAt, RemoveExpired, v, Replaced
  <2>4. c.arg <= time => Left(new, time) = Absent
    BY <1>1, <1>5, <2>1, <2>2, DatabaseAssumption DEF Left
  <2>5. Left(Absent, time) = Absent
    BY DEF Left
  <2> HIDE DEF new, after
  <2>6. CASE c.arg <= time
    <3>1. LiveView(after, time) = Replaced(LiveView(v, time), k, Left(Absent, time))
      BY <1>2, <2>3, <2>6, ViewOfReplaced
    <3> QED BY <1>2, <2>2, <2>4, <2>5, <2>6, <3>1
  <2>7. CASE ~(c.arg <= time)
    BY <1>2, <2>2, <2>3, <2>7, ViewOfReplaced
  <2> QED BY <2>6, <2>7
<1>6. CASE c.op = "DEL"
  <2>1. new = Absent
    BY <1>6 DEF NewEntry
  <2>2. after = Replaced(d, k, Absent)
    BY <1>6 DEF Effect, DbDel, Replaced
  <2> HIDE DEF new, after
  <2> QED BY <2>1, <2>2, ViewOfReplaced DEF v
<1>7. CASE c.op \in {"EXPIRE", "EXPIREAT"} /\ e = Absent
  <2>1. new = Absent
    BY <1>7 DEF NewEntry
  <2>2. LiveView(after, time) = v
    <3>1. CASE c.op = "EXPIRE"
      BY <1>2, <1>7, <3>1 DEF Effect, DbExpire, p, Replaced
    <3>2. CASE c.op = "EXPIREAT" /\ c.arg > time
      <4>1. after = p
        BY <1>1, <1>2, <1>7, <3>2 DEF Effect, DbExpireAt, p, Replaced
      <4> QED BY <1>2, <4>1
    <3>3. CASE c.op = "EXPIREAT" /\ c.arg <= time
      <4>1. after = Replaced(p, k, Absent)
        BY <1>1, <1>2, <1>7, <3>3 DEF Effect, DbExpireAt, p, Replaced
      <4>2. LiveView(after, time) = Replaced(v, k, Left(Absent, time))
        BY <1>2, <4>1, ViewOfReplaced
      <4> QED BY <1>3, <1>7, <4>2
    <3> QED BY <1>1, <1>7, <3>1, <3>2, <3>3
  <2> QED BY <1>3, <1>7, <2>1, <2>2 DEF v
<1>8. CASE c.op = "EXPIRE" /\ e # Absent
  <2>1. new = [e EXCEPT !.expireAt = time + Second * c.arg]
    BY <1>8 DEF NewEntry
  <2>2. new \in Entry
    BY <1>1, <1>2, <1>8, <2>1, DatabaseAssumption DEF Entry
  <2>3. after = Replaced(p, k, new)
    BY <1>2, <1>8, <2>1 DEF Effect, DbExpire, p, Replaced
  <2> HIDE DEF new, after
  <2> QED BY <1>2, <2>2, <2>3, ViewOfReplaced
<1>9. CASE c.op = "EXPIREAT" /\ e # Absent
  <2>1. new = [e EXCEPT !.expireAt = c.arg]
    BY <1>9 DEF NewEntry
  <2>2. new \in Entry
    BY <1>1, <1>2, <1>9, <2>1 DEF Entry
  <2>3. CASE c.arg > time
    <3>1. after = Replaced(p, k, new)
      BY <1>1, <1>2, <1>9, <2>1, <2>3 DEF Effect, DbExpireAt, p, Replaced
    <3> HIDE DEF new, after
    <3> QED BY <1>2, <2>2, <3>1, ViewOfReplaced
  <2>4. CASE c.arg <= time
    <3>1. after = Replaced(p, k, Absent)
      BY <1>1, <1>2, <1>9, <2>4 DEF Effect, DbExpireAt, p, Replaced
    <3>2. Left(new, time) = Absent /\ Left(Absent, time) = Absent
      BY <1>1, <1>2, <1>9, <2>1, <2>2, <2>4, DatabaseAssumption DEF Left, Entry
    <3>3. LiveView(after, time) = Replaced(v, k, Left(Absent, time))
      BY <1>2, <3>1, ViewOfReplaced
    <3> QED BY <2>2, <3>2, <3>3 DEF v
  <2> QED BY <1>1, <1>9, <2>3, <2>4
<1>10. CASE c.op \in {"GET", "EXISTS", "TTL"}
  <2>1. new = e /\ after = p
    BY <1>10 DEF NewEntry, Effect, p
  <2> QED BY <1>2, <1>3, <2>1 DEF v
<1> QED BY <1>4, <1>5, <1>6, <1>7, <1>8, <1>9, <1>10 DEF KeyedOp

-----------------------------------------------------------------------------
(***************************************************************************)
(* The refinement mapping, one task at a time.                             *)
(***************************************************************************)

\* A step of one task leaves what is mapped of the others.
LEMMA TaskMapped ==
  ASSUME NEW t \in Task, OthersGoOn(t)
  PROVE  /\ [u \in Task |-> Phase(u)'] = [[u \in Task |-> Phase(u)] EXCEPT ![t] = Phase(t)']
         /\ [u \in Task |-> ServedKeys(u)'] = [[u \in Task |-> ServedKeys(u)] EXCEPT ![t] = ServedKeys(t)']
         /\ [u \in Task |-> out'[u].reply] = [[u \in Task |-> out[u].reply] EXCEPT ![t] = out'[t].reply]
<1>1. ASSUME NEW u \in Task \ {t}
      PROVE  Phase(u)' = Phase(u) /\ ServedKeys(u)' = ServedKeys(u) /\ out'[u].reply = out[u].reply
  <2>1. pc'[u] = pc[u] /\ cmd'[u] = cmd[u] /\ at'[u] = at[u] /\ out'[u] = out[u]
    BY DEF OthersGoOn
  <2>2. Phase(u)' = Phase(u)
    BY <2>1 DEF Phase
  <2>3. ServedKeys(u)' = ServedKeys(u)
    BY <2>1 DEF ServedKeys, IsKeyed
  <2> QED BY <2>1, <2>2, <2>3
<1> QED BY <1>1

\* A step that changes nothing of what is mapped.
LEMMA Stutters ==
  ASSUME NEW t \in Task, OthersGoOn(t), now' = now, cmd' = cmd, Seen' = Seen,
         Phase(t)' = Phase(t), ServedKeys(t)' = ServedKeys(t), out'[t].reply = out[t].reply
  PROVE  UNCHANGED Abstract!vars
<1>1. /\ [u \in Task |-> Phase(u)'] = [u \in Task |-> Phase(u)]
      /\ [u \in Task |-> ServedKeys(u)'] = [u \in Task |-> ServedKeys(u)]
      /\ [u \in Task |-> out'[u].reply] = [u \in Task |-> out[u].reply]
  BY TaskMapped
<1> QED BY <1>1 DEF Abstract!vars

\* What is seen is well typed and has not expired.
LEMMA SeenFacts ==
  ASSUME TypeOK, NEW k \in Key
  PROVE  /\ ShardOf[k] \in Shard /\ shards[ShardOf[k]] \in Data
         /\ Seen[k] \in Entry \cup {Absent}
         /\ ~IsExpired(Seen[k], now)
         /\ Left(Seen[k], now) = Seen[k]
         /\ ~Flushing => Seen[k] = LiveView(shards[ShardOf[k]], now)[k]
<1>1. ShardOf[k] \in Shard /\ shards[ShardOf[k]] \in Data /\ now \in Nat
  BY ShardedDatabaseAssumption DEF TypeOK
<1>2. Seen[k] \in Entry \cup {Absent} /\ ~IsExpired(Seen[k], now)
  BY <1>1, ViewOfKey DEF Seen, IsExpired
<1> QED BY <1>1, <1>2, LeftIsLive DEF Seen

\* Beside a keyed command there is no FLUSHDB on its way.
LEMMA KeyedNotFlushing ==
  ASSUME IInv, NEW t \in Task, OthersGoOn(t), pc[t] \in KeyedStage, pc'[t] \notin WholeStage
  PROVE  ~Flushing /\ ~Flushing'
<1>1. \A u \in Task : pc[u] \notin WholeStage /\ pc'[u] \notin WholeStage
  BY DEF IInv, GlobalOK, OthersGoOn, KeyedStage, WholeStage
<1> QED BY <1>1 DEF Flushing, WholeStage

\* A keyed command changes what is seen as it changes the view of its shard.
LEMMA SeenOfShard ==
  ASSUME IInv, NEW t \in Task, OthersGoOn(t), pc[t] \in KeyedStage, pc'[t] \notin WholeStage,
         now' = now, NEW d \in Data, shards' = [shards EXCEPT ![CurrentShard(t)] = d]
  PROVE  /\ LiveView(d, now) = LiveView(shards[CurrentShard(t)], now) => Seen' = Seen
         /\ \A e : LiveView(d, now) = Replaced(LiveView(shards[CurrentShard(t)], now), CurrentKey(t), e) =>
                     Seen' = Replaced(Seen, CurrentKey(t), e)
<1> DEFINE s == CurrentShard(t)
           k == CurrentKey(t)
<1>1. TypeOK /\ CommandsOK /\ shards \in [Shard -> Data]
  BY DEF IInv, TypeOK
<1>2. s \in Shard /\ k \in Key /\ s = ShardOf[k]
  BY <1>1, KeyedTask DEF CurrentShard
<1>3. ~Flushing /\ ~Flushing'
  BY KeyedNotFlushing
<1>4. ASSUME NEW j \in Key
      PROVE  /\ Seen[j] = LiveView(shards[ShardOf[j]], now)[j]
             /\ Seen'[j] = IF ShardOf[j] = s THEN LiveView(d, now)[j] ELSE Seen[j]
  <2>1. ShardOf[j] \in Shard
    BY ShardedDatabaseAssumption
  <2>2. Seen[j] = LiveView(shards[ShardOf[j]], now)[j]
    BY <1>3 DEF Seen
  <2>3. Seen'[j] = LiveView(shards'[ShardOf[j]], now)[j]
    BY <1>3 DEF Seen
  <2>4. shards'[ShardOf[j]] = IF ShardOf[j] = s THEN d ELSE shards[ShardOf[j]]
    BY <1>1, <2>1
  <2> QED BY <2>2, <2>3, <2>4
<1> HIDE DEF s, k
<1>5. ASSUME LiveView(d, now) = LiveView(shards[s], now) PROVE Seen' = Seen
  <2>1. \A j \in Key : Seen'[j] = Seen[j]
    BY <1>4, <1>5
  <2> QED BY <2>1 DEF Seen
<1>6. ASSUME NEW e, LiveView(d, now) = Replaced(LiveView(shards[s], now), k, e)
      PROVE  Seen' = Replaced(Seen, k, e)
  <2>1. \A j \in Key : LiveView(d, now)[j] = IF j = k THEN e ELSE LiveView(shards[s], now)[j]
    BY <1>6 DEF Replaced, LiveView
  <2>2. \A j \in Key : Seen'[j] = IF j = k THEN e ELSE Seen[j]
    BY <1>2, <1>4, <2>1
  <2> QED BY <2>2 DEF Seen, Replaced
<1> QED BY <1>5, <1>6 DEF s, k

\* The conditions under which a step of task t is the map's Serve.
LEMMA IsServe ==
  ASSUME IInv, NEW t \in Task, OthersGoOn(t), now' = now, cmd' = cmd,
         cmd[t].op \in KeyedOp, cmd[t].arg # TooLong, at[t] \in Nat \ {0},
         Phase(t) = "pending", ServedKeys(t) = at[t] - 1, CurrentKey(t) \in Key,
         Seen' = Replaced(Seen, CurrentKey(t), Left(NewEntry(cmd[t], Seen[CurrentKey(t)], now), now)),
         out'[t].reply = Abstract!Answered(t, cmd[t], CurrentKey(t)),
         IF at[t] < Len(cmd[t].keys) THEN ServedKeys(t)' = at[t] /\ Phase(t)' = "pending"
                                     ELSE ServedKeys(t)' = 0 /\ Phase(t)' = "done"
  PROVE  Abstract!Serve(t)
<1> DEFINE k == CurrentKey(t)
           n == [u \in Task |-> ServedKeys(u)][t] + 1
<1>1. n = at[t] /\ cmd[t].keys[n] = k
  BY DEF CurrentKey
<1>2. Abstract!Written(cmd[t], k) = NewEntry(cmd[t], Seen[k], now)
  BY DEF Abstract!Written, NewEntry
<1>3. Abstract!Surviving([Seen EXCEPT ![k] = Abstract!Written(cmd[t], k)], now) = Seen'
  <2> DEFINE w == NewEntry(cmd[t], Seen[k], now)
  <2> HIDE DEF w
  <2>1. \A j \in Key : Left(Seen[j], now) = Seen[j]
    BY SeenFacts DEF IInv
  <2> DEFINE m == [Seen EXCEPT ![k] = w]
  <2>2. \A j \in Key : m[j] = IF j = k THEN w ELSE Seen[j]
    BY DEF Seen
  <2>3. \A j \in Key : Abstract!Surviving(m, now)[j] = Left(m[j], now)
    BY DEF Abstract!Surviving, Left
  <2>4. \A j \in Key : Replaced(Seen, k, Left(w, now))[j] = IF j = k THEN Left(w, now) ELSE Seen[j]
    BY DEF Seen, Replaced
  <2>5. \A j \in Key : Abstract!Surviving(m, now)[j] = Replaced(Seen, k, Left(w, now))[j]
    <3> HIDE DEF m
    <3> QED BY <2>1, <2>2, <2>3, <2>4
  <2>6. Abstract!Surviving(m, now) = Replaced(Seen, k, Left(w, now))
    BY <2>5 DEF Abstract!Surviving, Seen, Replaced
  <2> QED BY <1>2, <2>6 DEF w
<1>4. cmd[t].op \in Abstract!KeyedOp
  BY DEF Abstract!KeyedOp, KeyedOp
<1>5. /\ [u \in Task |-> Phase(u)'] = [[u \in Task |-> Phase(u)] EXCEPT ![t] = Phase(t)']
      /\ [u \in Task |-> ServedKeys(u)'] = [[u \in Task |-> ServedKeys(u)] EXCEPT ![t] = ServedKeys(t)']
      /\ [u \in Task |-> out'[u].reply] = [[u \in Task |-> out[u].reply] EXCEPT ![t] = out'[t].reply]
  BY TaskMapped
<1>6. Phase(t)' = "pending" => [u \in Task |-> Phase(u)'] = [u \in Task |-> Phase(u)]
  BY <1>5
<1> QED BY <1>1, <1>3, <1>4, <1>5, <1>6 DEF Abstract!Serve

\* A step that touches no shard, of a task outside its scan before and after.
LEMMA SeenKept ==
  ASSUME NEW t \in Task, OthersGoOn(t), now' = now, shards' = shards,
         pc[t] \notin WholeStage, pc'[t] \notin WholeStage
  PROVE  Seen' = Seen
<1>1. Flushing' <=> Flushing
  BY DEF Flushing, OthersGoOn, WholeStage
<1> QED BY <1>1 DEF Seen

\* The place of a key in a list, at its end and in a list of one.
LEMMA LastIndex == \A n \in Nat : \A i \in 1 .. n : ~(i < n) => i = n
OBVIOUS

LEMMA OnlyIndex == \A n : n = 1 => \A i \in 1 .. n : i = 1
OBVIOUS

\* All keyed commands but DEL have one key.
LEMMA OneKey ==
  ASSUME NEW c \in Command, c.op \in KeyedOp, c.op # "DEL"
  PROVE  Len(c.keys) = 1
BY DEF Command

-----------------------------------------------------------------------------
(***************************************************************************)
(* Every action, mapped.                                                   *)
(***************************************************************************)
LEMMA CallImplements ==
  ASSUME IInv, NEW t \in Task, NEW c \in Calls[t], Call(t, c)
  PROVE  Abstract!Call(t, c)
<1>1. pc \in [Task -> Stage] /\ out \in [Task -> Outcome]
  BY DEF IInv, TypeOK
<1>2. OthersGoOn(t)
  BY StepsOfOneTask DEF IInv
<1>3. /\ pc[t] = "idle" /\ pc'[t] = "global" /\ now' = now /\ shards' = shards
      /\ cmd' = [cmd EXCEPT ![t] = c]
      /\ out'[t].reply = IF c.op = "DEL" THEN 0 ELSE Absent
  BY <1>1 DEF Call, NoOutcome
<1>4. Seen' = Seen
  BY <1>2, <1>3, SeenKept DEF WholeStage
<1>5. Phase(t) = "idle" /\ Phase(t)' = "pending" /\ ServedKeys(t) = 0 /\ ServedKeys(t)' = 0
  BY <1>3 DEF Phase, ServedKeys
<1>6. /\ [u \in Task |-> Phase(u)'] = [[u \in Task |-> Phase(u)] EXCEPT ![t] = "pending"]
      /\ [u \in Task |-> ServedKeys(u)'] = [u \in Task |-> ServedKeys(u)]
      /\ [u \in Task |-> out'[u].reply] =
           [[u \in Task |-> out[u].reply] EXCEPT ![t] = IF c.op = "DEL" THEN 0 ELSE Absent]
  BY <1>2, <1>3, <1>5, TaskMapped
<1> QED BY <1>3, <1>4, <1>5, <1>6 DEF Abstract!Call

LEMMA ReturnImplements ==
  ASSUME IInv, NEW t \in Task, Return(t)
  PROVE  Abstract!Return(t)
<1>1. pc \in [Task -> Stage] /\ out \in [Task -> Outcome]
  BY DEF IInv, TypeOK
<1>2. OthersGoOn(t)
  BY StepsOfOneTask DEF IInv
<1>3. /\ pc[t] = "returned" /\ pc'[t] = "idle" /\ now' = now /\ shards' = shards
      /\ cmd' = [cmd EXCEPT ![t] = NoCommand] /\ out'[t].reply = Absent
  BY <1>1 DEF Return, NoOutcome, dbVars
<1>4. Seen' = Seen
  BY <1>2, <1>3, SeenKept DEF WholeStage
<1>5. Phase(t) = "done" /\ Phase(t)' = "idle" /\ ServedKeys(t) = 0 /\ ServedKeys(t)' = 0
  BY <1>3 DEF Phase, ServedKeys
<1>6. /\ [u \in Task |-> Phase(u)'] = [[u \in Task |-> Phase(u)] EXCEPT ![t] = "idle"]
      /\ [u \in Task |-> ServedKeys(u)'] = [u \in Task |-> ServedKeys(u)]
      /\ [u \in Task |-> out'[u].reply] = [[u \in Task |-> out[u].reply] EXCEPT ![t] = Absent]
  BY <1>2, <1>3, <1>5, TaskMapped
<1> QED BY <1>3, <1>4, <1>5, <1>6 DEF Abstract!Return, Abstract!NoRequest, NoCommand

\* Getting a lock, and what follows the effect of a keyed command, is internal.
LEMMA InternalImplements ==
  ASSUME IInv, NEW t \in Task,
         EnterKeyed(t) \/ EnterShard(t) \/ StartTtl(t) \/ ApplyLen(t) \/ ReturnOutcome(t)
  PROVE  UNCHANGED Abstract!vars
<1>1. /\ pc \in [Task -> Stage] /\ out \in [Task -> Outcome] /\ at \in [Task -> Nat]
      /\ TypeOK /\ CommandsOK
  BY DEF IInv, TypeOK
<1>2. OthersGoOn(t)
  BY <1>1, StepsOfOneTask DEF Step
<1>3. cmd' = cmd /\ now' = now /\ shards' = shards /\ out'[t].reply = out[t].reply
  BY <1>1 DEF EnterKeyed, EnterShard, StartTtl, ApplyLen, ReturnOutcome, dbVars, Outcome
<1>4. pc[t] \notin WholeStage /\ pc'[t] \notin WholeStage
  BY <1>1 DEF EnterKeyed, EnterShard, StartTtl, ApplyLen, ReturnOutcome, WholeStage
<1>5. Seen' = Seen
  BY <1>2, <1>3, <1>4, SeenKept
<1>6. IsKeyed(t)' <=> IsKeyed(t)
  BY <1>3 DEF IsKeyed
<1>7. pc[t] \in KeyedStage => /\ IsKeyed(t) /\ cmd[t] \in Command /\ cmd[t].op \in KeyedOp
                              /\ at[t] \in 1 .. Len(cmd[t].keys)
                              /\ cmd[t].op # "DEL" => Len(cmd[t].keys) = 1
  BY <1>1, KeyedTask, OneKey DEF IsKeyed
<1>8. Phase(t)' = Phase(t) /\ ServedKeys(t)' = ServedKeys(t)
  <2>1. CASE EnterKeyed(t)
    <3>1. pc[t] = "global" /\ pc'[t] = "shard" /\ at'[t] = 1
      BY <1>1, <2>1 DEF EnterKeyed
    <3> QED BY <3>1 DEF Phase, ServedKeys
  <2>2. CASE EnterShard(t)
    <3>1. pc[t] = "shard" /\ pc'[t] = "body" /\ at' = at
      BY <1>1, <2>2 DEF EnterShard
    <3> QED BY <1>6, <3>1 DEF Phase, ServedKeys
  <2>3. CASE StartTtl(t)
    <3>1. pc[t] = "body" /\ pc'[t] = "ttl" /\ cmd[t].op = "TTL"
      BY <1>1, <2>3 DEF StartTtl, ReadsClockAgain
    <3>2. at[t] = 1
      BY <1>7, <3>1 DEF KeyedStage
    <3> QED BY <3>1, <3>2 DEF Phase, ServedKeys
  <2>4. CASE ApplyLen(t) /\ cmd[t].op = "DEL" /\ at[t] < Len(cmd[t].keys)
    <3>1. pc[t] = "apply" /\ pc'[t] = "shard" /\ at'[t] = at[t] + 1
      BY <1>1, <2>4 DEF ApplyLen
    <3> QED BY <1>1, <1>6, <1>7, <2>4, <3>1 DEF Phase, ServedKeys, KeyedStage
  <2>5. CASE ApplyLen(t) /\ ~(cmd[t].op = "DEL" /\ at[t] < Len(cmd[t].keys))
    <3>1. pc[t] = "apply" /\ pc'[t] = "outcome"
      BY <1>1, <2>5 DEF ApplyLen
    <3>2. at[t] = Len(cmd[t].keys)
      <4>1. at[t] \in 1 .. Len(cmd[t].keys) /\ (cmd[t].op # "DEL" => Len(cmd[t].keys) = 1)
        BY <1>7, <3>1 DEF KeyedStage
      <4>2. Len(cmd[t].keys) \in Nat
        BY <1>7, <3>1, CommandFacts DEF KeyedStage
      <4>3. CASE cmd[t].op = "DEL"
        BY <2>5, <4>1, <4>2, <4>3, LastIndex
      <4>4. CASE cmd[t].op # "DEL"
        BY <4>1, <4>4, OnlyIndex
      <4> QED BY <4>3, <4>4
    <3> QED BY <3>1, <3>2 DEF Phase, ServedKeys
  <2>6. CASE ReturnOutcome(t)
    <3>1. pc[t] = "outcome" /\ pc'[t] = "returned"
      BY <1>1, <2>6 DEF ReturnOutcome
    <3> QED BY <3>1 DEF Phase, ServedKeys
  <2> QED BY <2>1, <2>2, <2>3, <2>4, <2>5, <2>6
<1> QED BY <1>2, <1>3, <1>5, <1>8, Stutters

\* A command takes effect in its shard.  An EXPIRE whose duration is too long
\* finds no key, or it would panic.
LEMMA ExecuteImplements ==
  ASSUME IInv, NEW t \in Task, Execute(t)
  PROVE  Abstract!Serve(t) \/ Abstract!Fail(t)
<1> DEFINE s == CurrentShard(t)
           k == CurrentKey(t)
           d == shards[s]
           c == cmd[t]
           after == Effect(d, c, k, now)
<1>1. /\ pc \in [Task -> Stage] /\ out \in [Task -> Outcome] /\ at \in [Task -> Nat]
      /\ shards \in [Shard -> Data] /\ now \in Nat /\ TypeOK /\ CommandsOK
  BY DEF IInv, TypeOK
<1>2. OthersGoOn(t)
  BY <1>1, StepsOfOneTask DEF Step
<1>3. /\ pc[t] = "body" /\ pc'[t] = "apply" /\ ~Panics(t) /\ ~ReadsClockAgain(t)
      /\ shards' = [shards EXCEPT ![s] = after] /\ UNCHANGED <<now, cmd, at>>
      /\ out'[t].reply = IF c.op = "DEL" THEN out[t].reply + Answer(d, c, k, now) ELSE Answer(d, c, k, now)
  BY <1>1 DEF Execute, Outcome
<1>4. /\ c \in Command /\ c.op \in KeyedOp /\ at[t] \in 1 .. Len(c.keys) /\ k \in Key /\ s \in Shard
      /\ s = ShardOf[k] /\ d \in Data /\ IsKeyed(t) /\ IsKeyed(t)'
      /\ c.op # "DEL" => Len(c.keys) = 1
  BY <1>1, <1>3, KeyedTask, OneKey DEF KeyedStage, CurrentShard, IsKeyed
<1>5. c.arg = TooLong => c.op = "EXPIRE" /\ ~IsLive(d, k, now)
  <2>1. c.arg = TooLong => c.op \in {"SET", "EXPIRE"}
    BY <1>4, DatabaseAssumption DEF Command
  <2> QED BY <1>3, <2>1 DEF Panics
<1>6. after \in Data
  BY <1>1, <1>4, <1>5, EffectFacts
<1>7. ~Flushing /\ Seen[k] = LiveView(d, now)[k]
  BY <1>1, <1>2, <1>3, <1>4, KeyedNotFlushing, SeenFacts DEF KeyedStage, WholeStage
<1>8. /\ LiveView(after, now) = LiveView(d, now) => Seen' = Seen
      /\ \A e : LiveView(after, now) = Replaced(LiveView(d, now), k, e) => Seen' = Replaced(Seen, k, e)
  BY <1>2, <1>3, <1>6, SeenOfShard DEF KeyedStage, WholeStage
<1>9. Phase(t) = "pending" /\ ServedKeys(t) = at[t] - 1
  BY <1>3, <1>4 DEF Phase, ServedKeys
<1>10. IF at[t] < Len(c.keys) THEN ServedKeys(t)' = at[t] /\ Phase(t)' = "pending"
                              ELSE ServedKeys(t)' = 0 /\ Phase(t)' = "done"
  BY <1>3, <1>4 DEF Phase, ServedKeys
<1>11. CASE c.arg # TooLong
  <2>1. Seen' = Replaced(Seen, k, Left(NewEntry(c, Seen[k], now), now))
    <3>1. LiveView(after, now) = Replaced(LiveView(d, now), k, Left(NewEntry(c, Seen[k], now), now))
      BY <1>1, <1>4, <1>7, <1>11, ViewOfEffect
    <3> QED BY <1>8, <3>1
  <2>2. out'[t].reply = Abstract!Answered(t, c, k)
    <3>1. /\ IsLive(d, k, now) <=> Seen[k] # Absent
          /\ Seen[k] # Absent => Seen[k] = d[k]
      BY <1>1, <1>4, <1>7, ViewOfKey
    <3>2. c.op = "TTL" /\ Seen[k] # Absent => Seen[k].expireAt = Never
      BY <1>1, <1>3, <1>4, <3>1 DEF ReadsClockAgain, IsLive
    <3> HIDE DEF c, d, k
    <3>3. CASE c.op \in {"SET", "SETAT", "EXISTS", "EXPIRE", "EXPIREAT"}
      BY <1>3, <3>1, <3>3 DEF Answer, Abstract!Answered
    <3>4. CASE c.op = "DEL"
      BY <1>3, <3>1, <3>4 DEF Answer, Abstract!Answered
    <3>5. CASE c.op = "GET"
      BY <1>3, <3>1, <3>5 DEF Answer, Abstract!Answered
    <3>6. CASE c.op = "TTL"
      BY <1>3, <3>1, <3>2, <3>6 DEF Answer, Abstract!Answered
    <3> QED BY <1>4, <3>3, <3>4, <3>5, <3>6 DEF KeyedOp
  <2> QED BY <1>2, <1>3, <1>4, <1>9, <1>10, <1>11, <2>1, <2>2, IsServe
<1>12. CASE c.arg = TooLong
  <2>1. c.op = "EXPIRE" /\ Seen[k] = Absent /\ c.keys[1] = k /\ at[t] = 1 /\ Len(c.keys) = 1
    <3>1. c.op = "EXPIRE" /\ ~IsLive(d, k, now)
      BY <1>5, <1>12
    <3>2. Seen[k] = Absent
      BY <1>1, <1>4, <1>7, <3>1, ViewOfKey
    <3>3. Len(c.keys) = 1
      BY <1>4, <3>1
    <3>4. at[t] = 1
      BY <1>4, <3>3, OnlyIndex
    <3>5. c.keys[1] = k
      BY <3>4 DEF CurrentKey
    <3> QED BY <3>1, <3>2, <3>3, <3>4, <3>5
  <2>2. after = RemoveIfExpired(d, k, now) /\ out'[t].reply = 0
    <3>1. RemoveIfExpired(d, k, now)[k] = Absent
      BY <1>1, <1>4, <1>7, <2>1, ViewOfRemoveIfExpired
    <3>2. after = RemoveIfExpired(d, k, now)
      BY <2>1, <3>1 DEF Effect, DbExpire
    <3>3. out'[t].reply = 0
      BY <1>3, <1>5, <1>12, <2>1 DEF Answer
    <3> QED BY <3>2, <3>3
  <2>3. Seen' = Seen
    BY <1>1, <1>4, <1>8, <2>2, ViewOfRemoveIfExpired
  <2>4. Phase(t)' = "done" /\ ServedKeys(t)' = 0 /\ ServedKeys(t) = 0
    <3> HIDE DEF c
    <3> QED BY <1>9, <1>10, <2>1
  <2>5. /\ [u \in Task |-> Phase(u)'] = [[u \in Task |-> Phase(u)] EXCEPT ![t] = "done"]
        /\ [u \in Task |-> ServedKeys(u)'] = [u \in Task |-> ServedKeys(u)]
        /\ [u \in Task |-> out'[u].reply] = [[u \in Task |-> out[u].reply] EXCEPT ![t] = 0]
    BY <1>2, <2>2, <2>4, TaskMapped
  <2> QED BY <1>3, <1>9, <1>12, <2>1, <2>3, <2>5 DEF Abstract!Fail
<1> QED BY <1>11, <1>12

\* TTL takes effect where it reads the clock for its answer.
LEMMA TtlRemainingImplements ==
  ASSUME IInv, NEW t \in Task, TtlRemaining(t)
  PROVE  Abstract!Serve(t)
<1> DEFINE s == CurrentShard(t)
           k == CurrentKey(t)
           d == shards[s]
           e == d[k]
           c == cmd[t]
           after == RemoveIfExpired(d, k, now)
<1>1. /\ pc \in [Task -> Stage] /\ out \in [Task -> Outcome] /\ at \in [Task -> Nat]
      /\ shards \in [Shard -> Data] /\ now \in Nat /\ TypeOK /\ CommandsOK
  BY DEF IInv, TypeOK
<1>2. OthersGoOn(t)
  BY <1>1, StepsOfOneTask DEF Step
<1>3. /\ pc[t] = "ttl" /\ pc'[t] = "apply" /\ UNCHANGED <<now, cmd, at>>
      /\ out'[t].reply = IF IsExpired(e, now) THEN -2 ELSE TtlSeconds(e, now)
  BY <1>1 DEF TtlRemaining, Outcome
<1>4. /\ c \in Command /\ c.op \in KeyedOp /\ at[t] \in 1 .. Len(c.keys) /\ k \in Key /\ s \in Shard
      /\ s = ShardOf[k] /\ d \in Data /\ IsKeyed(t) /\ IsKeyed(t)'
  BY <1>1, <1>3, KeyedTask DEF KeyedStage, CurrentShard, IsKeyed
<1>5. c.op = "TTL" /\ e # Absent /\ e.expireAt # Never
  BY <1>1, <1>3 DEF CommandsOK, CommandOK
<1>6. Len(c.keys) = 1 /\ at[t] = 1 /\ c.arg # TooLong
  <2>1. Len(c.keys) = 1
    BY <1>4, <1>5, OneKey
  <2>2. at[t] = 1
    BY <1>4, <2>1, OnlyIndex
  <2>3. c.arg = Never
    BY <1>4, <1>5 DEF Command
  <2> QED BY <2>1, <2>2, <2>3, DatabaseAssumption
<1>7. after \in Data /\ LiveView(after, now) = LiveView(d, now) /\ e \in Entry \cup {Absent}
  BY <1>1, <1>4, RemoveIfExpiredFacts, ViewOfRemoveIfExpired DEF Data
<1>8. shards' = [shards EXCEPT ![s] = after]
  <2>1. CASE IsExpired(e, now)
    BY <2>1 DEF TtlRemaining
  <2>2. CASE ~IsExpired(e, now)
    <3>1. shards' = shards /\ after = d
      BY <2>2 DEF TtlRemaining, RemoveIfExpired
    <3> QED BY <1>1, <3>1
  <2> QED BY <2>1, <2>2
<1>9. Seen' = Seen
  BY <1>2, <1>3, <1>7, <1>8, SeenOfShard DEF KeyedStage, WholeStage
<1>10. Seen[k] = IF IsExpired(e, now) THEN Absent ELSE e
  <2>1. ~Flushing
    BY <1>2, <1>3, KeyedNotFlushing DEF KeyedStage, WholeStage
  <2> QED BY <1>1, <1>4, <2>1, SeenFacts, ViewOfKey
<1>11. Seen' = Replaced(Seen, k, Left(NewEntry(c, Seen[k], now), now))
  <2>1. NewEntry(c, Seen[k], now) = Seen[k]
    BY <1>5 DEF NewEntry
  <2>2. Left(Seen[k], now) = Seen[k]
    BY <1>1, <1>4, SeenFacts
  <2>3. Replaced(Seen, k, Seen[k]) = Seen
    BY <1>4 DEF Replaced, Seen
  <2> QED BY <1>9, <2>1, <2>2, <2>3
<1>12. out'[t].reply = Abstract!Answered(t, c, k)
  <2> HIDE DEF c, k, e
  <2>1. CASE IsExpired(e, now)
    <3>1. Seen[k] = Absent /\ out'[t].reply = -2
      BY <1>3, <1>10, <2>1
    <3> QED BY <1>5, <3>1 DEF Abstract!Answered
  <2>2. CASE ~IsExpired(e, now)
    <3>1. Seen[k] = e /\ out'[t].reply = TtlSeconds(e, now)
      BY <1>3, <1>10, <2>2
    <3>2. TtlSeconds(e, now) = CHOOSE n \in 1 .. e.expireAt :
                                 /\ Second * n >= e.expireAt - now
                                 /\ Second * (n - 1) < e.expireAt - now
      BY <1>1, <1>5, <1>7, <2>2, TtlSecondsChosen
    <3> QED BY <1>5, <3>1, <3>2 DEF Abstract!Answered
  <2> QED BY <2>1, <2>2
<1>13. /\ Phase(t) = "pending" /\ ServedKeys(t) = at[t] - 1
       /\ ServedKeys(t)' = 0 /\ Phase(t)' = "done"
  <2> HIDE DEF c
  <2>1. Phase(t) = "pending" /\ ServedKeys(t) = 0
    BY <1>3 DEF Phase, ServedKeys
  <2>2. ServedKeys(t)' = 0 /\ Phase(t)' = "done"
    BY <1>3, <1>6 DEF Phase, ServedKeys, c
  <2> QED BY <1>6, <2>1, <2>2
<1>14. IF at[t] < Len(c.keys) THEN ServedKeys(t)' = at[t] /\ Phase(t)' = "pending"
                              ELSE ServedKeys(t)' = 0 /\ Phase(t)' = "done"
  <2> HIDE DEF c
  <2> QED BY <1>6, <1>13
<1>15. at[t] \in Nat \ {0}
  BY <1>6
<1> QED BY <1>2, <1>3, <1>4, <1>6, <1>11, <1>12, <1>13, <1>14, <1>15, IsServe

\* A command that panics leaves no trace: what SET purged had expired.
LEMMA PanicImplements ==
  ASSUME IInv, NEW t \in Task, Panic(t)
  PROVE  Abstract!Fail(t)
<1> DEFINE s == CurrentShard(t)
           k == CurrentKey(t)
           d == shards[s]
           c == cmd[t]
           purged == IF c.op = "SET" THEN RemoveExpired(d, now) ELSE d
<1>1. /\ pc \in [Task -> Stage] /\ out \in [Task -> Outcome] /\ at \in [Task -> Nat]
      /\ shards \in [Shard -> Data] /\ now \in Nat /\ TypeOK /\ CommandsOK
  BY DEF IInv, TypeOK
<1>2. OthersGoOn(t)
  BY <1>1, StepsOfOneTask DEF Step
<1>3. /\ pc[t] = "body" /\ pc'[t] = "idle" /\ now' = now /\ Panics(t)
      /\ shards' = [shards EXCEPT ![s] = purged]
      /\ cmd' = [cmd EXCEPT ![t] = NoCommand] /\ out'[t].reply = Absent
  BY <1>1 DEF Panic, NoOutcome
<1>4. /\ c \in Command /\ c.op \in KeyedOp /\ at[t] \in 1 .. Len(c.keys) /\ k \in Key /\ s \in Shard
      /\ s = ShardOf[k] /\ d \in Data /\ IsKeyed(t)
  BY <1>1, <1>3, KeyedTask DEF KeyedStage, CurrentShard, IsKeyed
<1>5. c.arg = TooLong /\ (c.op = "SET" \/ (c.op = "EXPIRE" /\ IsLive(d, k, now)))
  BY <1>3 DEF Panics
<1>6. Len(c.keys) = 1 /\ at[t] = 1 /\ c.keys[1] = k
  <2>1. Len(c.keys) = 1
    BY <1>4, <1>5, OneKey
  <2>2. at[t] = 1
    BY <1>4, <2>1, OnlyIndex
  <2> QED BY <2>1, <2>2 DEF CurrentKey
<1>7. purged \in Data /\ LiveView(purged, now) = LiveView(d, now)
  BY <1>1, <1>4, LiveViewFacts, ViewOfLiveView DEF RemoveExpired
<1>8. Seen' = Seen
  BY <1>2, <1>3, <1>7, SeenOfShard DEF KeyedStage, WholeStage
<1>9. ~(c.op = "EXPIRE" /\ Seen[k] = Absent)
  <2>1. ~Flushing
    BY <1>2, <1>3, KeyedNotFlushing DEF KeyedStage, WholeStage
  <2>2. Seen[k] = LiveView(d, now)[k]
    BY <1>1, <1>4, <2>1, SeenFacts
  <2> QED BY <1>1, <1>4, <1>5, <2>2, ViewOfKey
<1>10. /\ Phase(t) = "pending" /\ ServedKeys(t) = 0
       /\ ServedKeys(t)' = 0 /\ Phase(t)' = "idle"
  BY <1>3, <1>6 DEF Phase, ServedKeys
<1>11. /\ [u \in Task |-> Phase(u)'] = [[u \in Task |-> Phase(u)] EXCEPT ![t] = "idle"]
       /\ [u \in Task |-> ServedKeys(u)'] = [u \in Task |-> ServedKeys(u)]
       /\ [u \in Task |-> out'[u].reply] = [[u \in Task |-> out[u].reply] EXCEPT ![t] = Absent]
  BY <1>2, <1>3, <1>10, TaskMapped
<1> QED BY <1>3, <1>5, <1>6, <1>8, <1>9, <1>10, <1>11
        DEF Abstract!Fail, Abstract!NoRequest, NoCommand

\* What is mapped of a task at a whole-store command, and what is seen beside
\* it: it alone decides whether a FLUSHDB is on its way.
LEMMA WholeAlone ==
  ASSUME IInv, NEW t \in Task, OthersGoOn(t), pc[t] \in WholeStage \/ pc'[t] \in WholeStage,
         \A u \in Task \ {t} : pc[u] \notin WholeStage
  PROVE  /\ Flushing <=> cmd[t].op = "FLUSHDB" /\ (pc[t] = "finish" \/ (pc[t] = "scan" /\ at[t] > 0))
         /\ Flushing' <=> cmd'[t].op = "FLUSHDB" /\ (pc'[t] = "finish" \/ (pc'[t] = "scan" /\ at'[t] > 0))
<1>1. \A u \in Task \ {t} : pc'[u] \notin WholeStage
  BY DEF OthersGoOn
<1> QED BY <1>1 DEF Flushing, WholeStage

\* Getting the whole store, before the first shard.
LEMMA EnterWholeImplements ==
  ASSUME IInv, NEW t \in Task, EnterWhole(t)
  PROVE  UNCHANGED Abstract!vars
<1>1. /\ pc \in [Task -> Stage] /\ at \in [Task -> Nat] /\ TypeOK /\ CommandsOK /\ GlobalOK
  BY DEF IInv, TypeOK
<1>2. OthersGoOn(t)
  BY <1>1, StepsOfOneTask DEF Step
<1>3. /\ pc[t] = "global" /\ pc'[t] = "scan" /\ at'[t] = 0 /\ IsWhole(t)
      /\ now' = now /\ shards' = shards /\ cmd' = cmd /\ out' = out
      /\ global.writers = {}
  BY <1>1 DEF EnterWhole, CanWrite, Free
<1>4. \A u \in Task : pc[u] \notin WholeStage
  BY <1>1, <1>3 DEF GlobalOK
<1>5. ~Flushing /\ ~Flushing'
  BY <1>2, <1>3, <1>4, WholeAlone DEF WholeStage
<1>6. Seen' = Seen
  BY <1>3, <1>5 DEF Seen
<1>7. /\ Phase(t) = "pending" /\ Phase(t)' = "pending"
      /\ ServedKeys(t) = 0 /\ ServedKeys(t)' = 0
  BY <1>3 DEF Phase, ServedKeys
<1> QED BY <1>2, <1>3, <1>6, <1>7, Stutters

\* What an interrupted scan of live entries leaves of a shard looks the same.
LEMMA ViewOfScanned ==
  ASSUME NEW t \in Task, NEW d \in Data, now \in Nat, since[t] \in Nat, since[t] <= now,
         cmd[t].op \in WholeOp, cmd[t].op # "FLUSHDB"
  PROVE  LiveView(ScannedData(t, d), now) = LiveView(d, now)
<1>1. CASE cmd[t].op \in {"INFO", "SWEEP"}
  <2>1. ScannedData(t, d) = LiveView(d, now)
    BY <1>1 DEF ScannedData, RemoveExpired
  <2> QED BY <2>1, ViewOfLiveView
<1>2. CASE cmd[t].op = "SNAPSHOT"
  <2>1. ScannedData(t, d) = LiveView(d, since[t])
    BY <1>2 DEF ScannedData, RemoveExpired
  <2>2. ASSUME NEW k \in Key
        PROVE  LiveView(LiveView(d, since[t]), now)[k] = LiveView(d, now)[k]
    <3>1. IsExpired(d[k], since[t]) => IsExpired(d[k], now)
      BY DatabaseAssumption DEF IsExpired, Data, Entry
    <3> QED BY <3>1 DEF LiveView, IsExpired
  <2>3. LiveView(LiveView(d, since[t]), now) = LiveView(d, now)
    BY <2>2 DEF LiveView
  <2> QED BY <2>1, <2>3
<1>3. CASE cmd[t].op = "KEYS"
  BY <1>3 DEF ScannedData
<1> QED BY <1>1, <1>2, <1>3 DEF WholeOp

\* FLUSHDB takes effect at its first shard; every other scan, and the rest of
\* FLUSHDB's, is internal.
LEMMA ScanImplements ==
  ASSUME IInv, SinceOK, NEW t \in Task, Scan(t)
  PROVE  Abstract!ServeWhole(t) \/ UNCHANGED Abstract!vars
<1> DEFINE s == at[t]
           flush == cmd[t].op = "FLUSHDB"
<1>1. /\ pc \in [Task -> Stage] /\ out \in [Task -> Outcome] /\ at \in [Task -> Nat]
      /\ shards \in [Shard -> Data] /\ now \in Nat /\ since \in [Task -> Nat]
      /\ TypeOK /\ CommandsOK /\ GlobalOK
  BY DEF IInv, TypeOK
<1>2. OthersGoOn(t)
  BY <1>1, StepsOfOneTask DEF Step
<1>3. /\ pc[t] = "scan" /\ pc'[t] \in {"scan", "finish"} /\ at'[t] = s + 1
      /\ now' = now /\ cmd' = cmd /\ s < ShardCount
      /\ shards' = [shards EXCEPT ![s] = ScannedData(t, @)]
  BY <1>1 DEF Scan
<1>4. out'[t].reply = out[t].reply
  BY <1>1 DEF Scan, Outcome
<1>5. /\ cmd[t].op \in WholeOp /\ IsWhole(t) /\ ~IsKeyed(t) /\ s \in Nat /\ s \in Shard
      /\ \A u \in Task \ {t} : pc[u] \notin WholeStage
  <2>1. IsWhole(t)
    BY <1>1, <1>3 DEF CommandsOK, CommandOK, WholeStage
  <2>2. s \in Nat /\ s \in Shard
    BY <1>1, <1>3, ShardedDatabaseAssumption DEF Shard
  <2>3. \A u \in Task \ {t} : pc[u] \notin WholeStage
    BY <1>1, <1>3 DEF GlobalOK, WholeStage
  <2> QED BY <2>1, <2>2, <2>3 DEF IsWhole, IsKeyed, KeyedOp, WholeOp
<1>6. (Flushing <=> flush /\ s > 0) /\ (Flushing' <=> flush)
  BY <1>2, <1>3, <1>5, WholeAlone DEF WholeStage
<1>7. ServedKeys(t) = 0 /\ ServedKeys(t)' = 0
  BY <1>3 DEF ServedKeys
<1>8. /\ Phase(t) = IF flush /\ s > 0 THEN "done" ELSE "pending"
      /\ Phase(t)' = IF flush THEN "done" ELSE "pending"
  BY <1>3, <1>5 DEF Phase
<1> HIDE DEF s
<1>9. CASE ~flush
  <2>1. LiveView(ScannedData(t, shards[s]), now) = LiveView(shards[s], now)
    BY <1>1, <1>5, <1>9, ViewOfScanned DEF SinceOK
  <2>2. ASSUME NEW j \in Key
        PROVE  LiveView(shards'[ShardOf[j]], now)[j] = LiveView(shards[ShardOf[j]], now)[j]
    <3>1. ShardOf[j] \in Shard
      BY ShardedDatabaseAssumption
    <3>2. shards'[ShardOf[j]] = IF ShardOf[j] = s THEN ScannedData(t, shards[s]) ELSE shards[ShardOf[j]]
      BY <1>1, <1>3, <3>1 DEF s
    <3> QED BY <2>1, <3>2
  <2>3. Seen' = Seen
    BY <1>3, <1>6, <1>9, <2>2 DEF Seen
  <2> QED BY <1>2, <1>3, <1>4, <1>7, <1>8, <1>9, <2>3, Stutters
<1>10. CASE flush /\ s > 0
  <2>1. Seen' = Seen
    BY <1>6, <1>10 DEF Seen
  <2> QED BY <1>2, <1>3, <1>4, <1>7, <1>8, <1>10, <2>1, Stutters
<1>11. CASE flush /\ ~(s > 0)
  <2>1. Seen' = EmptyData
    BY <1>6, <1>11 DEF Seen, EmptyData
  <2>2. Phase(t) = "pending" /\ Phase(t)' = "done"
    BY <1>8, <1>11
  <2>3. /\ [u \in Task |-> Phase(u)'] = [[u \in Task |-> Phase(u)] EXCEPT ![t] = "done"]
        /\ [u \in Task |-> ServedKeys(u)'] = [u \in Task |-> ServedKeys(u)]
        /\ [u \in Task |-> out'[u].reply] = [u \in Task |-> out[u].reply]
    BY <1>2, <1>4, <1>7, <2>2, TaskMapped
  <2> QED BY <1>3, <1>5, <1>11, <2>1, <2>2, <2>3
          DEF Abstract!ServeWhole, Abstract!EmptyData, Abstract!WholeOp, EmptyData, WholeOp
<1> QED BY <1>9, <1>10, <1>11

\* The other whole-store commands take effect, none at all, when they finish.
LEMMA FinishImplements ==
  ASSUME IInv, NEW t \in Task, Finish(t)
  PROVE  Abstract!ServeWhole(t) \/ UNCHANGED Abstract!vars
<1> DEFINE flush == cmd[t].op = "FLUSHDB"
<1>1. /\ pc \in [Task -> Stage] /\ out \in [Task -> Outcome] /\ at \in [Task -> Nat]
      /\ shards \in [Shard -> Data] /\ now \in Nat
      /\ TypeOK /\ CommandsOK /\ GlobalOK /\ FlushOK
  BY DEF IInv, TypeOK
<1>2. OthersGoOn(t)
  BY <1>1, StepsOfOneTask DEF Step
<1>3. /\ pc[t] = "finish" /\ pc'[t] = "returned"
      /\ now' = now /\ cmd' = cmd /\ shards' = shards
  BY <1>1 DEF Finish
<1>4. out'[t].reply = out[t].reply
  BY <1>1 DEF Finish, Outcome
<1>5. /\ cmd[t].op \in WholeOp /\ IsWhole(t)
      /\ \A u \in Task \ {t} : pc[u] \notin WholeStage
  BY <1>1, <1>3 DEF CommandsOK, CommandOK, GlobalOK, IsWhole, WholeStage
<1>6. (Flushing <=> flush) /\ ~Flushing'
  BY <1>2, <1>3, <1>5, WholeAlone DEF WholeStage
<1>7. Seen' = Seen
  <2>1. CASE flush
    <3>1. ASSUME NEW k \in Key PROVE LiveView(shards[ShardOf[k]], now)[k] = Absent
      <4>1. ShardOf[k] \in Shard
        BY ShardedDatabaseAssumption
      <4>2. Stored(shards[ShardOf[k]]) = {}
        BY <1>1, <1>3, <2>1, <4>1 DEF FlushOK
      <4>3. shards[ShardOf[k]][k] = Absent
        BY <4>2 DEF Stored
      <4> QED BY <4>3 DEF LiveView
    <3> QED BY <1>3, <1>6, <2>1, <3>1 DEF Seen
  <2>2. CASE ~flush
    BY <1>3, <1>6, <2>2 DEF Seen
  <2> QED BY <2>1, <2>2
<1>8. ServedKeys(t) = 0 /\ ServedKeys(t)' = 0
  BY <1>3 DEF ServedKeys
<1>9. Phase(t) = (IF flush THEN "done" ELSE "pending") /\ Phase(t)' = "done"
  BY <1>3 DEF Phase
<1>10. CASE flush
  BY <1>2, <1>3, <1>4, <1>7, <1>8, <1>9, <1>10, Stutters
<1>11. CASE ~flush
  <2>1. Phase(t) = "pending" /\ Phase(t)' = "done"
    BY <1>9, <1>11
  <2>2. /\ [u \in Task |-> Phase(u)'] = [[u \in Task |-> Phase(u)] EXCEPT ![t] = "done"]
        /\ [u \in Task |-> ServedKeys(u)'] = [u \in Task |-> ServedKeys(u)]
        /\ [u \in Task |-> out'[u].reply] = [u \in Task |-> out[u].reply]
    BY <1>2, <1>4, <1>8, <2>1, TaskMapped
  <2> QED BY <1>3, <1>5, <1>7, <1>11, <2>1, <2>2 DEF Abstract!ServeWhole, Abstract!WholeOp, WholeOp
<1> QED BY <1>10, <1>11

\* The clock takes from what is seen exactly what reaches its deadline.
LEMMA TickImplements ==
  ASSUME IInv, Tick
  PROVE  Abstract!Tick
<1>1. now \in Nat /\ shards \in [Shard -> Data] /\ TypeOK
  BY DEF IInv, TypeOK
<1>2. /\ now < MaxTime /\ now' = now + 1 /\ shards' = shards /\ out' = out
      /\ pc' = pc /\ cmd' = cmd /\ at' = at
  BY DEF Tick, dbVars, taskVars
<1>3. Flushing' <=> Flushing
  BY <1>2 DEF Flushing
<1>4. ASSUME NEW k \in Key PROVE Seen'[k] = Left(Seen[k], now + 1)
  <2> DEFINE e == shards[ShardOf[k]][k]
  <2>1. e \in Entry \cup {Absent}
    BY <1>1, ShardedDatabaseAssumption DEF Data
  <2>2. Seen[k] = IF Flushing THEN Absent ELSE IF IsExpired(e, now) THEN Absent ELSE e
    BY DEF Seen, LiveView
  <2>3. Seen'[k] = IF Flushing THEN Absent ELSE IF IsExpired(e, now + 1) THEN Absent ELSE e
    BY <1>2, <1>3 DEF Seen, LiveView
  <2> HIDE DEF e
  <2>4. IsExpired(e, now) => IsExpired(e, now + 1)
    BY <1>1, <2>1, DatabaseAssumption DEF IsExpired, Entry
  <2>5. Left(Absent, now + 1) = Absent
    BY DEF Left
  <2>6. Left(e, now + 1) = IF IsExpired(e, now + 1) THEN Absent ELSE e
    BY <1>1, <2>1, LeftIsLive
  <2> QED BY <2>2, <2>3, <2>4, <2>5, <2>6
<1>5. Seen' = Abstract!Surviving(Seen, now + 1)
  BY <1>4 DEF Abstract!Surviving, Left, Seen
<1>6. /\ [u \in Task |-> Phase(u)'] = [u \in Task |-> Phase(u)]
      /\ [u \in Task |-> ServedKeys(u)'] = [u \in Task |-> ServedKeys(u)]
      /\ [u \in Task |-> out'[u].reply] = [u \in Task |-> out[u].reply]
  BY <1>2 DEF Phase, ServedKeys, IsKeyed
<1> QED BY <1>2, <1>5, <1>6 DEF Abstract!Tick

\* The empty store is the empty map.
LEMMA InitImplements ==
  ASSUME Init
  PROVE  Abstract!Init
<1>1. /\ now = 0 /\ shards = [s \in Shard |-> EmptyData] /\ pc = [t \in Task |-> "idle"]
      /\ cmd = [t \in Task |-> NoCommand] /\ out = [t \in Task |-> NoOutcome]
  BY DEF Init
<1>2. Seen = EmptyData
  BY <1>1, ShardedDatabaseAssumption DEF Seen, LiveView, IsExpired, EmptyData
<1>3. /\ [t \in Task |-> Phase(t)] = [t \in Task |-> "idle"]
      /\ [t \in Task |-> ServedKeys(t)] = [t \in Task |-> 0]
      /\ [t \in Task |-> out[t].reply] = [t \in Task |-> Absent]
  BY <1>1 DEF Phase, ServedKeys, NoOutcome
<1> QED BY <1>1, <1>2, <1>3
        DEF Abstract!Init, Abstract!EmptyData, Abstract!NoRequest, EmptyData, NoCommand

\* Every step is one of the map, or changes nothing of it.
LEMMA NextImplements == IInv /\ ScanInv /\ [Next]_vars => [Abstract!Next]_(Abstract!vars)
<1> SUFFICES ASSUME IInv, ScanInv, [Next]_vars PROVE [Abstract!Next]_(Abstract!vars)
  OBVIOUS
<1>1. ASSUME NEW t \in Task, NEW c \in Calls[t], Call(t, c) PROVE [Abstract!Next]_(Abstract!vars)
  BY <1>1, CallImplements DEF Abstract!Next
<1>2. ASSUME NEW t \in Task, Return(t) PROVE [Abstract!Next]_(Abstract!vars)
  BY <1>2, ReturnImplements DEF Abstract!Next
<1>3. ASSUME NEW t \in Task, Step(t) PROVE [Abstract!Next]_(Abstract!vars)
  <2>1. CASE EnterKeyed(t) \/ EnterShard(t) \/ StartTtl(t) \/ ApplyLen(t) \/ ReturnOutcome(t)
    BY <2>1, InternalImplements
  <2>2. CASE EnterWhole(t)
    BY <2>2, EnterWholeImplements
  <2>3. CASE Execute(t)
    BY <2>3, ExecuteImplements DEF Abstract!Next
  <2>4. CASE TtlRemaining(t)
    BY <2>4, TtlRemainingImplements DEF Abstract!Next
  <2>5. CASE Panic(t)
    BY <2>5, PanicImplements DEF Abstract!Next
  <2>6. CASE Scan(t)
    BY <2>6, ScanImplements DEF Abstract!Next, ScanInv
  <2>7. CASE Finish(t)
    BY <2>7, FinishImplements DEF Abstract!Next
  <2> QED BY <1>3, <2>1, <2>2, <2>3, <2>4, <2>5, <2>6, <2>7 DEF Step
<1>4. CASE Tick
  BY <1>4, TickImplements DEF Abstract!Next
<1>5. CASE UNCHANGED vars
  BY <1>5 DEF Abstract!vars, vars, dbVars, taskVars, Seen, Flushing, Phase, ServedKeys, IsKeyed
<1> QED BY <1>1, <1>2, <1>3, <1>4, <1>5 DEF Next

\* The sharded store is the plain map its callers take it for: every behaviour
\* of its commands, scans, purges and panics, under all interleavings, is one
\* of KvStore's (ShardedDatabase, all its operations).
THEOREM StoreIsAMap == SafeSpec => ImplementsKvStore
<1>1. Init => Abstract!Init
  BY InitImplements
<1>2. IInv /\ ScanInv /\ [Next]_vars => [Abstract!Next]_(Abstract!vars)
  BY NextImplements
<1>3. SafeSpec => [](IInv /\ ScanInv)
  BY ScanInvariance
<1> QED BY <1>1, <1>2, <1>3, PTL DEF SafeSpec, ImplementsKvStore, Abstract!Spec

-----------------------------------------------------------------------------
(***************************************************************************)
(* The answers of TTL.                                                     *)
(***************************************************************************)
TtlAnswered ==
  \A t \in Task : pc[t] \in {"apply", "outcome"} /\ cmd[t].op = "TTL" =>
    out[t].reply \in {-2, -1} \/ out[t].reply >= 1

LEMMA TtlNext == IInv /\ TtlAnswered /\ [Next]_vars => TtlAnswered'
<1> SUFFICES ASSUME IInv, TtlAnswered, [Next]_vars PROVE TtlAnswered'
  OBVIOUS
<1>1. /\ pc \in [Task -> Stage] /\ out \in [Task -> Outcome]
      /\ shards \in [Shard -> Data] /\ now \in Nat /\ TypeOK /\ CommandsOK
  BY DEF IInv, TypeOK
<1>2. ASSUME NEW t \in Task, OthersGoOn(t),
             pc'[t] \in {"apply", "outcome"} /\ cmd'[t].op = "TTL" =>
               out'[t].reply \in {-2, -1} \/ out'[t].reply >= 1
      PROVE  TtlAnswered'
  <2> SUFFICES ASSUME NEW u \in Task, pc'[u] \in {"apply", "outcome"}, cmd'[u].op = "TTL"
               PROVE  out'[u].reply \in {-2, -1} \/ out'[u].reply >= 1
    BY DEF TtlAnswered
  <2>1. CASE u = t
    BY <1>2, <2>1
  <2>2. CASE u # t
    <3>1. pc'[u] = pc[u] /\ cmd'[u] = cmd[u] /\ out'[u] = out[u]
      BY <1>2, <2>2 DEF OthersGoOn
    <3> QED BY <3>1 DEF TtlAnswered
  <2> QED BY <2>1, <2>2
<1>3. ASSUME NEW t \in Task, Step(t) \/ Return(t) \/ \E c \in Calls[t] : Call(t, c)
      PROVE  TtlAnswered'
  <2>1. OthersGoOn(t)
    BY <1>1, <1>3, StepsOfOneTask
  <2>2. CASE Execute(t)
    <3>1. /\ pc[t] = "body" /\ cmd' = cmd
          /\ cmd[t].op = "TTL" => out'[t].reply = Answer(shards[CurrentShard(t)], cmd[t], CurrentKey(t), now)
      BY <1>1, <2>2 DEF Execute, Outcome
    <3>2. cmd[t].op = "TTL" => Answer(shards[CurrentShard(t)], cmd[t], CurrentKey(t), now) \in {-2, -1}
      BY DEF Answer
    <3> QED BY <1>2, <2>1, <3>1, <3>2
  <2>3. CASE TtlRemaining(t)
    <3> DEFINE e == shards[CurrentShard(t)][CurrentKey(t)]
    <3>1. /\ pc[t] = "ttl"
          /\ out'[t].reply = IF IsExpired(e, now) THEN -2 ELSE TtlSeconds(e, now)
      BY <1>1, <2>3 DEF TtlRemaining, Outcome
    <3>2. e \in Entry \cup {Absent} /\ e # Absent /\ e.expireAt # Never
      BY <1>1, <3>1, KeyedTask DEF KeyedStage, Data, CommandsOK, CommandOK
    <3> HIDE DEF e
    <3>3. ~IsExpired(e, now) => TtlSeconds(e, now) \in Nat \ {0}
      BY <1>1, <3>2, TtlSecondsChosen
    <3>4. out'[t].reply = -2 \/ out'[t].reply \in Nat \ {0}
      BY <3>1, <3>3
    <3>5. out'[t].reply \in {-2, -1} \/ out'[t].reply >= 1
      BY <3>4
    <3> QED BY <1>2, <2>1, <3>5
  <2>4. CASE ApplyLen(t)
    <3>1. pc[t] = "apply" /\ cmd' = cmd /\ out' = out
      BY <1>1, <2>4 DEF ApplyLen
    <3> QED BY <1>2, <2>1, <3>1 DEF TtlAnswered
  <2>5. CASE EnterKeyed(t) \/ EnterWhole(t) \/ EnterShard(t) \/ StartTtl(t) \/ Panic(t)
    <3>1. pc'[t] \notin {"apply", "outcome"}
      BY <1>1, <2>5 DEF EnterKeyed, EnterWhole, EnterShard, StartTtl, Panic
    <3> QED BY <1>2, <2>1, <3>1
  <2>6. CASE ReturnOutcome(t) \/ Scan(t) \/ Finish(t) \/ Return(t) \/ \E c \in Calls[t] : Call(t, c)
    <3>1. pc'[t] \notin {"apply", "outcome"}
      BY <1>1, <2>6 DEF ReturnOutcome, Scan, Finish, Return, Call
    <3> QED BY <1>2, <2>1, <3>1
  <2> QED BY <1>3, <2>2, <2>3, <2>4, <2>5, <2>6 DEF Step
<1>4. CASE Tick
  BY <1>4 DEF Tick, taskVars, TtlAnswered
<1>5. CASE UNCHANGED vars
  BY <1>5 DEF vars, taskVars, TtlAnswered
<1> QED BY <1>3, <1>4, <1>5 DEF Next

\* TTL of a key it says is there is at least one second, also when the clock
\* moves between its two looks at the entry (ShardedDatabase::ttl).
THEOREM TtlIsNeverZero == SafeSpec => []TtlNeverZero
<1>1. Init => TtlAnswered
  BY DEF Init, TtlAnswered
<1>2. IInv /\ TtlAnswered /\ [Next]_vars => TtlAnswered'
  BY TtlNext
<1>3. TtlAnswered => TtlNeverZero
  BY DEF TtlAnswered, TtlNeverZero
<1> QED BY <1>1, <1>2, <1>3, Invariance, PTL DEF SafeSpec
=============================================================================
