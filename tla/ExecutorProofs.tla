--------------------------- MODULE ExecutorProofs ---------------------------
(***************************************************************************)
(* Proofs about Executor, for any number of tasks, shards and keys: every  *)
(* expired entry is counted once whoever comes across it, and a command    *)
(* that overlapped no other leaves the key count of the statistics exact.  *)
(***************************************************************************)
EXTENDS Executor, ShardedDatabaseProofs

-----------------------------------------------------------------------------
(***************************************************************************)
(* The invariant.                                                          *)
(***************************************************************************)
ExecTypes ==
  /\ stats \in [total : Nat, get : Nat, set : Nat, del : Nat, keyCount : Nat, expired : Nat]
  /\ recording \in [Task -> Seq({"keys", "expired"})]
  /\ purged \in Nat
  /\ uncounted \in Nat
  /\ alone \in [Task -> BOOLEAN]

\* What may be left to write after a command.
Remaining(op) ==
  CASE op \in {"KEYS", "SNAPSHOT"} -> {<< >>}
    [] op = "FLUSHDB"              -> {<<"keys">>, << >>}
    [] op = "SWEEP"                -> {<<"expired", "keys">>, <<"keys">>, << >>}
    [] OTHER                       -> {<<"keys", "expired">>, <<"expired">>, << >>}

RecordingOK ==
  \A t \in Task :
    recording[t] \in IF pc[t] = "returned" THEN Remaining(cmd[t].op) ELSE {<< >>}

\* Before its effect no keyed command has counted anything, DEL's earlier
\* keys aside; FLUSHDB and KEYS never do.
NothingYetOK ==
  \A t \in Task :
    \/ cmd[t].op \in {"FLUSHDB", "KEYS"}
    \/ pc[t] \in {"idle", "global"}
    \/ pc[t] \in {"shard", "body", "ttl"} /\ cmd[t].op # "DEL"
    => out[t].expired = 0

\* The expired keys found and not yet added, one element each.
Found == UNION {{t} \X (1 .. InFlight(t)) : t \in Task}

FoundCounted == IsFiniteSet(Found) /\ ExpiredAccounted

\* A command that is alone has the store to itself; its outcome then has the
\* count, and the statistics have it as soon as it is recorded.
AloneOK ==
  \A t \in Task : pc[t] # "idle" /\ alone[t] =>
    /\ \A u \in Task \ {t} : pc[u] = "idle"
    /\ pc[t] = "returned" /\ cmd[t].op \notin {"KEYS", "SNAPSHOT"} =>
         /\ out[t].keyCount = keyCount
         /\ recording[t] \in {<< >>, <<"expired">>} => stats.keyCount = keyCount

ExecInv == ExecTypes /\ RecordingOK /\ NothingYetOK /\ FoundCounted /\ AloneOK

-----------------------------------------------------------------------------
(***************************************************************************)
(* Counting.                                                               *)
(***************************************************************************)

\* A pair of a task and a number below n, n times.
LEMMA FiberCounted ==
  ASSUME NEW t, NEW n \in Nat
  PROVE  IsFiniteSet({t} \X (1 .. n)) /\ Cardinality({t} \X (1 .. n)) = n
<1>1. IsFiniteSet({t}) /\ Cardinality({t}) = 1
  BY FS_Singleton
<1>2. IsFiniteSet(1 .. n) /\ Cardinality(1 .. n) = n
  BY FS_Interval
<1>3. IsFiniteSet({t} \X (1 .. n)) /\ Cardinality({t} \X (1 .. n)) = 1 * n
  BY <1>1, <1>2, FS_Product
<1> QED BY <1>3

\* When one task finds more, or records what it found, the total moves by as much.
LEMMA FoundMoves ==
  ASSUME IsFiniteSet(Found), NEW t \in Task, InFlight(t) \in Nat, InFlight(t)' \in Nat,
         \A u \in Task \ {t} : InFlight(u)' = InFlight(u)
  PROVE  /\ IsFiniteSet(Found')
         /\ Cardinality(Found) \in Nat
         /\ Cardinality(Found') = Cardinality(Found) - InFlight(t) + InFlight(t)'
<1> DEFINE old == {t} \X (1 .. InFlight(t))
           new == {t} \X (1 .. InFlight(t)')
           rest == UNION {{u} \X (1 .. InFlight(u)) : u \in Task \ {t}}
<1>1. Found = rest \cup old
  BY DEF Found
<1>2. Found' = rest \cup new
  <2>1. Found' = (UNION {{u} \X (1 .. InFlight(u)') : u \in Task \ {t}}) \cup new
    BY DEF Found
  <2> QED BY <2>1
<1>3. rest \cap old = {} /\ rest \cap new = {}
  OBVIOUS
<1>4. /\ IsFiniteSet(old) /\ Cardinality(old) = InFlight(t)
      /\ IsFiniteSet(new) /\ Cardinality(new) = InFlight(t)'
  BY FiberCounted
<1> HIDE DEF old, new, rest
<1>5. IsFiniteSet(rest)
  BY <1>1, FS_Subset
<1>6. IsFiniteSet(Found') /\ Cardinality({}) = 0
  BY <1>2, <1>4, <1>5, FS_Union, FS_EmptySet
<1>7. /\ Cardinality(rest \cup old) = Cardinality(rest) + Cardinality(old) - Cardinality(rest \cap old)
      /\ Cardinality(rest \cup new) = Cardinality(rest) + Cardinality(new) - Cardinality(rest \cap new)
  BY <1>4, <1>5, FS_Union
<1>8. Cardinality(Found) \in Nat /\ Cardinality(rest) \in Nat
  BY <1>5, FS_CardinalityType
<1>9. /\ Cardinality(Found) = Cardinality(rest) + InFlight(t) - 0
      /\ Cardinality(Found') = Cardinality(rest) + InFlight(t)' - 0
  BY <1>1, <1>2, <1>3, <1>4, <1>6, <1>7, Zenon
<1> QED BY <1>6, <1>8, <1>9

\* Among the keys of a shard, those an operation removes or purges as expired.
Gone(d, c, k, time) ==
  {j \in Key :
     LET f == Effect(d, c, k, time)[j]
     IN  \/ IsExpired(d[j], time) /\ (d[j] # f \/ c.op \in {"SET", "SETAT"})
         \/ d[j] # Absent /\ f = Absent /\ c.op = "EXPIREAT"}

\* The sizes of two shards that differ at one key.
LEMMA OneKeyChanged ==
  ASSUME NEW d \in Data, NEW e \in Data, NEW k \in Key, \A j \in Key \ {k} : e[j] = d[j]
  PROVE  Cardinality(Stored(d)) - Cardinality(Stored(e)) =
           (IF d[k] # Absent THEN 1 ELSE 0) - (IF e[k] # Absent THEN 1 ELSE 0)
<1> DEFINE rest == {j \in Key \ {k} : d[j] # Absent}
<1>1. /\ Stored(d) = IF d[k] # Absent THEN rest \cup {k} ELSE rest
      /\ Stored(e) = IF e[k] # Absent THEN rest \cup {k} ELSE rest
  BY DEF Stored
<1>2. k \notin rest /\ IsFiniteSet(rest) /\ Cardinality(rest) \in Nat
  BY KeySetsCounted
<1> HIDE DEF rest
<1>3. Cardinality(rest \cup {k}) = Cardinality(rest) + 1
  BY <1>2, FS_AddElement
<1> QED BY <1>1, <1>2, <1>3

\* Retaining what has not expired makes a shard smaller by what has.
LEMMA PurgeCounted ==
  ASSUME NEW d \in Data, NEW time \in Nat
  PROVE  LET expired == {j \in Key : IsExpired(d[j], time)}
         IN  Cardinality(Stored(d)) - Cardinality(Stored(RemoveExpired(d, time))) = Cardinality(expired)
<1> DEFINE expired == {j \in Key : IsExpired(d[j], time)}
           live == Stored(RemoveExpired(d, time))
<1>1. Stored(d) = live \cup expired /\ live \cap expired = {}
  BY DEF Stored, RemoveExpired, LiveView, IsExpired
<1>2. live \in SUBSET Key /\ expired \in SUBSET Key
  BY DEF Stored
<1> HIDE DEF live, expired
<1>3. /\ IsFiniteSet(live) /\ IsFiniteSet(expired)
      /\ Cardinality(live) \in Nat /\ Cardinality(expired) \in Nat
  BY <1>2, KeySetsCounted
<1>4. Cardinality(live \cup expired) = Cardinality(live) + Cardinality(expired) - Cardinality(live \cap expired)
  BY <1>3, FS_Union
<1>5. Cardinality({}) = 0
  BY FS_EmptySet
<1>6. Cardinality(Stored(d)) = Cardinality(live) + Cardinality(expired) - 0
  BY <1>1, <1>4, <1>5, Zenon
<1>7. Cardinality(Stored(d)) - Cardinality(live) = Cardinality(expired)
  BY <1>3, <1>6
<1> QED BY <1>7 DEF live, expired

\* A set of keys that has k or nothing.
LEMMA AtMostOne ==
  ASSUME NEW S, NEW k, S \subseteq {k}
  PROVE  Cardinality(S) = IF k \in S THEN 1 ELSE 0
<1>1. S = IF k \in S THEN {k} ELSE {}
  OBVIOUS
<1>2. Cardinality({k}) = 1 /\ Cardinality({}) = 0
  BY FS_Singleton, FS_EmptySet
<1> QED BY <1>1, <1>2

\* What the operations that store no entry of their own do to their key and
\* to the others.
LEMMA EffectAtKey ==
  ASSUME NEW d \in Data, NEW c \in Command, NEW k \in Key, NEW time \in Nat,
         c.op \in KeyedOp, c.op \notin {"SET", "SETAT"},
         c.arg = TooLong => (c.op = "EXPIRE" => ~IsLive(d, k, time))
  PROVE  LET e == Effect(d, c, k, time)
         IN  /\ \A j \in Key \ {k} : e[j] = d[j]
             /\ c.op = "DEL" => e[k] = Absent
             /\ ~IsLive(d, k, time) => e[k] = Absent
             /\ c.op \notin {"DEL", "EXPIREAT"} /\ IsLive(d, k, time) => e[k] # Absent
<1> DEFINE e == Effect(d, c, k, time)
           p == RemoveIfExpired(d, k, time)
<1>1. /\ p \in Data /\ \A j \in Key \ {k} : p[j] = d[j]
      /\ p[k] = IF IsLive(d, k, time) THEN d[k] ELSE Absent
  BY RemoveIfExpiredFacts DEF RemoveIfExpired, IsLive, IsExpired, Data
<1>2. IsLive(d, k, time) => d[k] # Absent
  BY DEF IsLive
<1> HIDE DEF p
<1>3. CASE c.op = "DEL"
  <2>1. e = [d EXCEPT ![k] = Absent]
    BY <1>3 DEF Effect, DbDel
  <2> QED BY <1>3, <2>1 DEF Data
<1>4. CASE c.op \in {"GET", "EXISTS", "TTL"}
  <2>1. e = p
    BY <1>4 DEF Effect, p
  <2> QED BY <1>1, <1>2, <1>4, <2>1
<1>5. CASE c.op = "EXPIRE"
  <2>1. e = IF p[k] = Absent THEN p ELSE [p EXCEPT ![k] = [p[k] EXCEPT !.expireAt = time + Second * c.arg]]
    BY <1>5 DEF Effect, DbExpire, p
  <2>2. CASE ~IsLive(d, k, time)
    BY <1>1, <1>5, <2>1, <2>2
  <2>3. CASE IsLive(d, k, time)
    <3>1. c.arg \in Nat
      BY <1>5, <2>3 DEF Command
    <3>2. time + Second * c.arg \in Nat
      BY <3>1, DatabaseAssumption
    <3>3. p[k] \in Entry
      BY <1>1, <1>2, <2>3 DEF Data
    <3>4. [p[k] EXCEPT !.expireAt = time + Second * c.arg] \in Entry
      BY <3>2, <3>3 DEF Entry
    <3>5. e = [p EXCEPT ![k] = [p[k] EXCEPT !.expireAt = time + Second * c.arg]]
      BY <1>1, <1>2, <2>1, <2>3
    <3> QED BY <1>1, <1>5, <2>3, <3>4, <3>5, DatabaseAssumption DEF Data
  <2> QED BY <2>2, <2>3
<1>6. CASE c.op = "EXPIREAT"
  <2>1. e = DbExpireAt(d, k, c.arg, time) /\ c.arg \in Nat
    BY <1>6 DEF Effect, Command
  <2>2. CASE c.arg <= time
    <3>1. e = [p EXCEPT ![k] = Absent]
      BY <2>1, <2>2 DEF DbExpireAt, p
    <3> QED BY <1>1, <1>6, <3>1 DEF Data
  <2>3. CASE c.arg > time /\ p[k] = Absent
    <3>1. e = p
      BY <2>1, <2>3 DEF DbExpireAt, p
    <3> QED BY <1>1, <1>6, <2>3, <3>1
  <2>4. CASE c.arg > time /\ p[k] # Absent
    <3>1. e = [p EXCEPT ![k] = [p[k] EXCEPT !.expireAt = c.arg]]
      BY <2>1, <2>4 DEF DbExpireAt, p
    <3> QED BY <1>1, <1>6, <2>4, <3>1 DEF Data
  <2> QED BY <2>1, <2>2, <2>3, <2>4
<1> QED BY <1>3, <1>4, <1>5, <1>6 DEF KeyedOp

\* An operation counts as expired exactly what it removes as expired.
LEMMA EffectCounted ==
  ASSUME NEW d \in Data, NEW c \in Command, NEW k \in Key, NEW time \in Nat,
         c.op \in KeyedOp,
         c.arg = TooLong => c.op # "SET" /\ (c.op = "EXPIRE" => ~IsLive(d, k, time))
  PROVE  ExpiredBy(d, c, k, time) = Cardinality(Gone(d, c, k, time))
<1> DEFINE e == Effect(d, c, k, time)
           gone == Gone(d, c, k, time)
           lost == Cardinality(Stored(d)) - Cardinality(Stored(e))
<1>1. CASE c.op \in {"SET", "SETAT"}
  <2>1. gone = {j \in Key : IsExpired(d[j], time)}
    BY <1>1 DEF Gone
  <2>2. ExpiredBy(d, c, k, time) = Cardinality(Stored(d)) - Cardinality(Stored(RemoveExpired(d, time)))
    BY <1>1 DEF ExpiredBy
  <2> QED BY <2>1, <2>2, PurgeCounted
<1>2. CASE c.op \notin {"SET", "SETAT"}
  <2>1. /\ e \in Data /\ \A j \in Key \ {k} : e[j] = d[j]
        /\ c.op = "DEL" => e[k] = Absent
        /\ ~IsLive(d, k, time) => e[k] = Absent
        /\ c.op \notin {"DEL", "EXPIREAT"} /\ IsLive(d, k, time) => e[k] # Absent
    BY <1>2, EffectAtKey, EffectFacts
  <2>2. lost = (IF d[k] # Absent THEN 1 ELSE 0) - (IF e[k] # Absent THEN 1 ELSE 0)
    BY <2>1, OneKeyChanged
  <2>3. gone \subseteq {k}
    BY <1>2, <2>1 DEF Gone
  <2>4. Cardinality(gone) = IF k \in gone THEN 1 ELSE 0
    BY <2>3, AtMostOne
  <2>5. k \in gone <=> \/ IsExpired(d[k], time) /\ d[k] # e[k]
                       \/ d[k] # Absent /\ e[k] = Absent /\ c.op = "EXPIREAT"
    <3>1. gone = {j \in Key : \/ IsExpired(d[j], time) /\ (d[j] # e[j] \/ c.op \in {"SET", "SETAT"})
                              \/ d[j] # Absent /\ e[j] = Absent /\ c.op = "EXPIREAT"}
      BY DEF Gone
    <3> HIDE DEF gone, e
    <3> QED BY <1>2, <3>1
  <2>6. ExpiredBy(d, c, k, time) = IF c.op = "DEL" THEN lost - Answer(d, c, k, time) ELSE lost
    BY <1>2 DEF ExpiredBy
  <2> HIDE DEF e, gone, lost
  <2>7. IsLive(d, k, time) <=> d[k] # Absent /\ ~IsExpired(d[k], time)
    BY DEF IsLive
  <2>8. IsExpired(d[k], time) => d[k] # Absent
    BY DEF IsExpired
  <2>9. CASE c.op = "DEL"
    <3>1. Answer(d, c, k, time) = IF IsLive(d, k, time) THEN 1 ELSE 0
      BY <2>9 DEF Answer
    <3>2. lost = IF d[k] # Absent THEN 1 ELSE 0
      BY <2>1, <2>2, <2>9
    <3>3. k \in gone <=> IsExpired(d[k], time)
      BY <2>1, <2>5, <2>8, <2>9
    <3> QED BY <2>4, <2>6, <2>7, <2>8, <2>9, <3>1, <3>2, <3>3 DEF gone
  <2>10. CASE c.op # "DEL"
    <3>1. ExpiredBy(d, c, k, time) = lost
      BY <2>6, <2>10
    <3>2. IsLive(d, k, time) /\ c.op # "EXPIREAT" => lost = 0 /\ k \notin gone
      BY <2>1, <2>2, <2>5, <2>7, <2>10
    <3>3. IsLive(d, k, time) /\ c.op = "EXPIREAT" => lost = IF k \in gone THEN 1 ELSE 0
      BY <2>2, <2>5, <2>7
    <3>4. ~IsLive(d, k, time) => lost = IF k \in gone THEN 1 ELSE 0
      BY <2>1, <2>2, <2>5, <2>7, <2>8
    <3> QED BY <2>4, <3>1, <3>2, <3>3, <3>4 DEF gone
  <2> QED BY <2>9, <2>10
<1> QED BY <1>1, <1>2

-----------------------------------------------------------------------------
(***************************************************************************)
(* What one step of the store finds expired.                               *)
(***************************************************************************)

\* A step that changes no shard, SET's effect aside, finds nothing.
LEMMA NothingGone ==
  ASSUME NEW t \in Task, shards' = shards, pc[t] = "body" => cmd[t].op \notin {"SET", "SETAT"}
  PROVE  Cardinality(ExpiredNow(t)) = 0
<1>1. ExpiredNow(t) = {}
  BY DEF ExpiredNow
<1> QED BY <1>1, FS_EmptySet

\* A keyed command finds what it counts: no expired entry of its shard lies
\* outside the keys that hash to it.
LEMMA EffectGone ==
  ASSUME IInv, NEW t \in Task, Execute(t)
  PROVE  Cardinality(ExpiredNow(t)) = ExpiredBy(shards[CurrentShard(t)], cmd[t], CurrentKey(t), now)
<1> DEFINE s == CurrentShard(t)
           k == CurrentKey(t)
           d == shards[s]
           c == cmd[t]
           after == Effect(d, c, k, now)
<1>1. TypeOK /\ CommandsOK /\ WellPlaced /\ shards \in [Shard -> Data] /\ now \in Nat
  BY DEF IInv, TypeOK
<1>2. pc[t] = "body" /\ ~Panics(t) /\ shards' = [shards EXCEPT ![s] = after]
  BY DEF Execute
<1>3. /\ c \in Command /\ c.op \in KeyedOp /\ k \in Key /\ s \in Shard /\ d \in Data
  BY <1>1, <1>2, KeyedTask DEF KeyedStage
<1>4. c.arg = TooLong => c.op # "SET" /\ (c.op = "EXPIRE" => ~IsLive(d, k, now))
  BY <1>2 DEF Panics
<1>5. ExpiredBy(d, c, k, now) = Cardinality(Gone(d, c, k, now))
  BY <1>1, <1>3, <1>4, EffectCounted
<1>6. ExpiredNow(t) = Gone(d, c, k, now)
  <2>1. ASSUME NEW j \in Key
        PROVE  /\ ShardOf[j] \in Shard
               /\ ShardOf[j] = s => shards'[ShardOf[j]][j] = after[j]
               /\ ShardOf[j] # s => shards'[ShardOf[j]][j] = shards[ShardOf[j]][j] /\ d[j] = Absent
    BY <1>1, <1>2, <1>3, ShardedDatabaseAssumption DEF WellPlaced
  <2>2. ASSUME NEW j \in Key
        PROVE  j \in ExpiredNow(t) <=> j \in Gone(d, c, k, now)
    <3> DEFINE e == shards[ShardOf[j]][j]
               f == shards'[ShardOf[j]][j]
    <3>1. j \in ExpiredNow(t) <=>
            \/ IsExpired(e, now) /\ (e # f \/ (c.op \in {"SET", "SETAT"} /\ ShardOf[j] = s))
            \/ e # Absent /\ f = Absent /\ c.op = "EXPIREAT"
      BY <1>2 DEF ExpiredNow
    <3>2. j \in Gone(d, c, k, now) <=>
            \/ IsExpired(d[j], now) /\ (d[j] # after[j] \/ c.op \in {"SET", "SETAT"})
            \/ d[j] # Absent /\ after[j] = Absent /\ c.op = "EXPIREAT"
      BY DEF Gone
    <3>3. CASE ShardOf[j] = s
      <4>1. e = d[j] /\ f = after[j]
        BY <2>1, <3>3
      <4> HIDE DEF e, f, after, d, s, c
      <4> QED BY <3>1, <3>2, <3>3, <4>1
    <3>4. CASE ShardOf[j] # s
      <4>1. f = e /\ d[j] = Absent /\ ~IsExpired(d[j], now)
        BY <2>1, <3>4 DEF IsExpired
      <4> HIDE DEF e, f, after, d, s, c
      <4> QED BY <3>1, <3>2, <3>4, <4>1
    <3> QED BY <3>3, <3>4
  <2>3. ExpiredNow(t) \subseteq Key /\ Gone(d, c, k, now) \subseteq Key
    BY DEF ExpiredNow, Gone
  <2> QED BY <2>2, <2>3
<1> QED BY <1>5, <1>6

\* TTL finds its key, if it has expired since the first look.
LEMMA TtlGone ==
  ASSUME IInv, NEW t \in Task, TtlRemaining(t)
  PROVE  Cardinality(ExpiredNow(t)) =
           IF IsExpired(shards[CurrentShard(t)][CurrentKey(t)], now) THEN 1 ELSE 0
<1> DEFINE s == CurrentShard(t)
           k == CurrentKey(t)
<1>1. TypeOK /\ CommandsOK /\ shards \in [Shard -> Data] /\ now \in Nat
  BY DEF IInv, TypeOK
<1>2. pc[t] = "ttl" /\ cmd[t].op = "TTL"
  BY <1>1 DEF TtlRemaining, CommandsOK, CommandOK
<1>3. s \in Shard /\ k \in Key /\ s = ShardOf[k]
  BY <1>1, <1>2, KeyedTask DEF KeyedStage, CurrentShard
<1>4. CASE ~IsExpired(shards[s][k], now)
  <2>1. shards' = shards
    BY <1>4 DEF TtlRemaining
  <2> QED BY <1>2, <1>4, <2>1, NothingGone
<1>5. CASE IsExpired(shards[s][k], now)
  <2>1. shards' = [shards EXCEPT ![s] = [shards[s] EXCEPT ![k] = Absent]]
    BY <1>5 DEF TtlRemaining, RemoveIfExpired
  <2>2. shards[s][k] # Absent /\ shards[s] \in Data
    BY <1>1, <1>3, <1>5 DEF IsExpired
  <2>3. ASSUME NEW j \in Key PROVE j \in ExpiredNow(t) <=> j = k
    <3>1. j # k => shards'[ShardOf[j]][j] = shards[ShardOf[j]][j]
      BY <1>1, <1>3, <2>1, <2>2, ShardedDatabaseAssumption DEF Data
    <3>2. shards'[ShardOf[k]][k] = Absent
      BY <1>1, <1>3, <2>1, <2>2 DEF Data
    <3> QED BY <1>2, <1>3, <1>5, <2>2, <3>1, <3>2 DEF ExpiredNow
  <2>4. ExpiredNow(t) = {k}
    BY <1>3, <2>3 DEF ExpiredNow
  <2>5. Cardinality({k}) = 1
    BY FS_Singleton
  <2> QED BY <1>5, <2>4, <2>5
<1> QED BY <1>4, <1>5

\* INFO and the sweep find what is expired in the shard they purge.
LEMMA ScanGone ==
  ASSUME IInv, NEW t \in Task, Scan(t), cmd[t].op \in {"INFO", "SWEEP"}
  PROVE  Cardinality(ExpiredNow(t)) =
           Cardinality(Stored(shards[at[t]])) - Cardinality(Stored(ScannedData(t, shards[at[t]])))
<1> DEFINE s == at[t]
           d == shards[s]
<1>1. TypeOK /\ WellPlaced /\ shards \in [Shard -> Data] /\ now \in Nat /\ at \in [Task -> Nat]
  BY DEF IInv, TypeOK
<1>2. pc[t] = "scan" /\ s \in Shard /\ d \in Data
  BY <1>1, ShardedDatabaseAssumption DEF Scan, Shard
<1>3. ScannedData(t, d) = LiveView(d, now)
  BY DEF ScannedData, RemoveExpired
<1>4. shards' = [shards EXCEPT ![s] = LiveView(d, now)]
  BY <1>3 DEF Scan
<1>5. ASSUME NEW j \in Key PROVE j \in ExpiredNow(t) <=> IsExpired(d[j], now)
  <2>1. ShardOf[j] \in Shard
    BY ShardedDatabaseAssumption
  <2>2. CASE ShardOf[j] = s
    <3>1. shards'[ShardOf[j]][j] = IF IsExpired(d[j], now) THEN Absent ELSE d[j]
      BY <1>1, <1>2, <1>4, <2>2 DEF LiveView
    <3>2. IsExpired(d[j], now) => d[j] # Absent
      BY DEF IsExpired
    <3> QED BY <1>2, <2>2, <3>1, <3>2 DEF ExpiredNow
  <2>3. CASE ShardOf[j] # s
    <3>1. shards'[ShardOf[j]][j] = shards[ShardOf[j]][j]
      BY <1>1, <1>2, <1>4, <2>1, <2>3
    <3>2. ~IsExpired(d[j], now)
      BY <1>1, <1>2, <2>3 DEF WellPlaced, IsExpired
    <3> QED BY <1>2, <3>1, <3>2 DEF ExpiredNow
  <2> QED BY <2>2, <2>3
<1>6. ExpiredNow(t) = {j \in Key : IsExpired(d[j], now)}
  BY <1>5 DEF ExpiredNow
<1> QED BY <1>1, <1>2, <1>3, <1>6, PurgeCounted DEF RemoveExpired

-----------------------------------------------------------------------------
(***************************************************************************)
(* One step of a call: what it finds expired it counts, or leaves to a     *)
(* snapshot or a panic.                                                    *)
(***************************************************************************)

\* The steps that neither remove anything nor touch the outcome's count.
LEMMA QuietStepCounts ==
  ASSUME IInv, NEW t \in Task,
         \/ EnterKeyed(t) \/ EnterWhole(t) \/ EnterShard(t) \/ StartTtl(t) \/ ApplyLen(t)
         \/ ReturnOutcome(t)
  PROVE  out'[t].expired = out[t].expired /\ Cardinality(ExpiredNow(t)) = 0
<1>1. out \in [Task -> Outcome] /\ out[t] \in Outcome
  BY DEF IInv, TypeOK
<1>2. CASE EnterKeyed(t) \/ EnterWhole(t) \/ EnterShard(t) \/ ApplyLen(t)
  <2>1. shards' = shards /\ out' = out /\ pc[t] # "body"
    BY <1>2 DEF EnterKeyed, EnterWhole, EnterShard, ApplyLen
  <2> QED BY <2>1, NothingGone
<1>3. CASE StartTtl(t)
  <2>1. shards' = shards /\ out' = out /\ cmd[t].op = "TTL"
    BY <1>3 DEF StartTtl, ReadsClockAgain, dbVars
  <2> QED BY <2>1, NothingGone
<1>4. CASE ReturnOutcome(t)
  <2>1. shards' = shards /\ pc[t] # "body" /\ out' = [out EXCEPT ![t].keyCount = keyCount]
    BY <1>4 DEF ReturnOutcome
  <2>2. out'[t].expired = out[t].expired
    BY <1>1, <2>1 DEF Outcome
  <2> QED BY <2>1, <2>2, NothingGone
<1> QED BY <1>2, <1>3, <1>4

\* The outcome's count grows by what the step removed as expired.
LEMMA OutcomeCounts ==
  ASSUME IInv, NEW t \in Task, Step(t), ~Panic(t), cmd[t].op # "SNAPSHOT"
  PROVE  out'[t].expired = out[t].expired +
           (IF cmd[t].op = "FLUSHDB" THEN 0 ELSE Cardinality(ExpiredNow(t)))
<1>1. TypeOK /\ CommandsOK /\ out \in [Task -> Outcome] /\ out[t] \in Outcome
  BY DEF IInv, TypeOK
<1>2. out[t].expired \in Nat
  BY <1>1 DEF Outcome
<1>3. CASE \/ EnterKeyed(t) \/ EnterWhole(t) \/ EnterShard(t) \/ StartTtl(t) \/ ApplyLen(t)
           \/ ReturnOutcome(t)
  BY <1>2, <1>3, QuietStepCounts
<1>4. CASE Execute(t)
  <2>1. pc[t] = "body" /\ cmd[t].op \in KeyedOp
    BY <1>1, <1>4, KeyedTask DEF Execute, KeyedStage
  <2>2. out'[t].expired = out[t].expired + ExpiredBy(shards[CurrentShard(t)], cmd[t], CurrentKey(t), now)
    BY <1>1, <1>4 DEF Execute, Outcome
  <2> QED BY <1>4, <2>1, <2>2, EffectGone DEF KeyedOp
<1>5. CASE TtlRemaining(t)
  <2>1. cmd[t].op = "TTL"
    BY <1>1, <1>5 DEF TtlRemaining, CommandsOK, CommandOK
  <2>2. out'[t].expired = out[t].expired +
          (IF IsExpired(shards[CurrentShard(t)][CurrentKey(t)], now) THEN 1 ELSE 0)
    BY <1>1, <1>2, <1>5 DEF TtlRemaining, Outcome
  <2> QED BY <1>5, <2>1, <2>2, TtlGone
<1>6. CASE Scan(t)
  <2>1. pc[t] = "scan" /\ cmd[t].op \in {"KEYS", "FLUSHDB", "INFO", "SWEEP"}
    BY <1>1, <1>6 DEF Scan, CommandsOK, CommandOK, WholeStage, IsWhole, WholeOp
  <2>2. CASE cmd[t].op = "FLUSHDB"
    <3>1. out' = out
      BY <1>6, <2>2 DEF Scan
    <3> QED BY <1>2, <2>2, <3>1
  <2>3. CASE cmd[t].op = "KEYS"
    <3>1. shards' = [shards EXCEPT ![at[t]] = shards[at[t]]] /\ out' = out
      BY <1>6, <2>3 DEF Scan, ScannedData
    <3>2. shards' = shards
      BY <1>1, <3>1 DEF TypeOK
    <3> QED BY <1>2, <2>1, <2>3, <3>1, <3>2, NothingGone
  <2>4. CASE cmd[t].op \in {"INFO", "SWEEP"}
    <3>1. out'[t].expired = out[t].expired +
            (Cardinality(Stored(shards[at[t]])) - Cardinality(Stored(ScannedData(t, shards[at[t]]))))
      BY <1>1, <1>6, <2>4 DEF Scan, Outcome
    <3> QED BY <1>6, <2>4, <3>1, ScanGone
  <2> QED BY <2>1, <2>2, <2>3, <2>4
<1>7. CASE Finish(t)
  <2>1. shards' = shards /\ pc[t] = "finish"
    BY <1>7 DEF Finish
  <2>2. out'[t].expired = out[t].expired
    BY <1>1, <1>7 DEF Finish, Outcome
  <2> QED BY <1>2, <2>1, <2>2, NothingGone
<1> QED BY <1>3, <1>4, <1>5, <1>6, <1>7 DEF Step

\* A step other than a panic stays inside the call, and only the last one
\* leaves it.
LEMMA StaysInCall ==
  ASSUME TypeOK, NEW t \in Task, Step(t)
  PROVE  /\ pc[t] \notin {"idle", "returned"}
         /\ ~Panic(t) => cmd' = cmd /\ pc'[t] \notin {"idle", "global"}
         /\ Panic(t) => pc'[t] = "idle" /\ out'[t] = NoOutcome /\ pc[t] = "body"
                        /\ cmd[t].op \in {"SET", "EXPIRE"} /\ cmd'[t] = NoCommand
         /\ now' = now
         /\ pc'[t] = "returned" => pc[t] \in {"outcome", "finish"}
<1> USE DEF TypeOK
<1>1. CASE EnterKeyed(t) \/ EnterWhole(t) \/ EnterShard(t)
  BY <1>1 DEF EnterKeyed, EnterWhole, EnterShard, Panic
<1>2. CASE Execute(t) \/ StartTtl(t) \/ TtlRemaining(t)
  <2>1. ~Panic(t)
    BY <1>2 DEF Execute, StartTtl, TtlRemaining, Panic, ReadsClockAgain, Panics
  <2> QED BY <1>2, <2>1 DEF Execute, StartTtl, TtlRemaining
<1>3. CASE ApplyLen(t) \/ ReturnOutcome(t) \/ Scan(t) \/ Finish(t)
  BY <1>3 DEF ApplyLen, ReturnOutcome, Scan, Finish, Panic
<1>4. CASE Panic(t)
  BY <1>4 DEF Panic, Panics
<1> QED BY <1>1, <1>2, <1>3, <1>4 DEF Step

\* Until its effect a command has found nothing.
LEMMA NothingYetStep ==
  ASSUME IInv, NothingYetOK, NEW t \in Task, Step(t)
  PROVE  NothingYetOK'
<1>1. TypeOK /\ CommandsOK /\ out \in [Task -> Outcome] /\ out[t] \in Outcome
  BY DEF IInv, TypeOK
<1>2. OthersGoOn(t)
  BY <1>1, StepsOfOneTask
<1> SUFFICES ASSUME \/ cmd'[t].op \in {"FLUSHDB", "KEYS"}
                    \/ pc'[t] \in {"idle", "global"}
                    \/ pc'[t] \in {"shard", "body", "ttl"} /\ cmd'[t].op # "DEL"
             PROVE  out'[t].expired = 0
  BY <1>2 DEF NothingYetOK, OthersGoOn
<1>3. CASE Panic(t)
  BY <1>1, <1>3, StaysInCall DEF NoOutcome
<1>4. CASE ~Panic(t)
  <2>1. cmd' = cmd /\ pc'[t] \notin {"idle", "global"} /\ pc \in [Task -> Stage]
    BY <1>1, <1>4, StaysInCall DEF TypeOK
  <2>2. CASE EnterKeyed(t) \/ EnterWhole(t) \/ EnterShard(t) \/ StartTtl(t) \/ ApplyLen(t)
    <3>1. out' = out
      BY <2>2 DEF EnterKeyed, EnterWhole, EnterShard, StartTtl, ApplyLen
    <3>2. \/ pc[t] = "global"
          \/ pc[t] \in {"shard", "body"}
          \/ pc'[t] = "outcome"
          \/ cmd[t].op = "DEL" /\ pc[t] = "apply"
      BY <2>1, <2>2 DEF EnterKeyed, EnterWhole, EnterShard, StartTtl, ApplyLen
    <3>3. cmd[t].op = "DEL" => cmd[t].op \notin {"FLUSHDB", "KEYS"}
      OBVIOUS
    <3> QED BY <2>1, <3>1, <3>2, <3>3 DEF NothingYetOK
  <2>3. CASE Execute(t) \/ TtlRemaining(t)
    <3>1. pc[t] \in {"body", "ttl"} /\ pc'[t] = "apply"
      BY <2>1, <2>3 DEF Execute, TtlRemaining
    <3>2. cmd[t].op \in KeyedOp
      BY <1>1, <3>1, KeyedTask DEF KeyedStage
    <3> QED BY <2>1, <3>1, <3>2 DEF KeyedOp
  <2>4. CASE ReturnOutcome(t)
    <3>1. pc[t] = "outcome" /\ pc'[t] = "returned"
      BY <2>1, <2>4 DEF ReturnOutcome
    <3>2. cmd[t].op \in KeyedOp
      BY <1>1, <3>1, KeyedTask DEF KeyedStage
    <3> QED BY <2>1, <3>1, <3>2 DEF KeyedOp
  <2>5. CASE Scan(t)
    <3>1. pc'[t] \in {"finish", "scan"} /\ (cmd[t].op \in {"FLUSHDB", "KEYS"} => out' = out)
      BY <2>1, <2>5 DEF Scan
    <3> QED BY <2>1, <3>1 DEF NothingYetOK
  <2>6. CASE Finish(t)
    <3>1. pc'[t] = "returned" /\ out'[t].expired = out[t].expired
      BY <1>1, <2>1, <2>6 DEF Finish, Outcome
    <3> QED BY <2>1, <3>1 DEF NothingYetOK
  <2> QED BY <1>4, <2>2, <2>3, <2>4, <2>5, <2>6 DEF Step
<1> QED BY <1>3, <1>4

\* What a step of a call finds expired is in flight, or counted missing.
LEMMA StepConserves ==
  ASSUME IInv, IInv', ExecTypes, NothingYetOK, NEW t \in Task, StoreStep(t)
  PROVE  /\ InFlight(t) \in Nat /\ InFlight(t)' \in Nat
         /\ purged' \in Nat /\ uncounted' \in Nat
         /\ InFlight(t)' + uncounted' + purged = InFlight(t) + uncounted + purged'
         /\ stats' = stats
<1> DEFINE gone == Cardinality(ExpiredNow(t))
           owed == IF cmd[t].op = "FLUSHDB" THEN 0 ELSE gone
<1>1. /\ Step(t) /\ stats' = stats
      /\ recording' = [recording EXCEPT ![t] =
                         IF pc'[t] = "returned" THEN RecordingFor(cmd[t].op) ELSE @]
      /\ purged' = purged + owed
      /\ uncounted' = IF cmd[t].op = "SNAPSHOT" \/ pc'[t] = "idle" THEN uncounted + owed
                                                                   ELSE uncounted
  BY DEF StoreStep
<1>2. owed \in Nat /\ gone \in Nat
  <2>1. ExpiredNow(t) \in SUBSET Key
    BY DEF ExpiredNow
  <2> QED BY <2>1, KeySetsCounted
<1>3. /\ purged \in Nat /\ uncounted \in Nat
      /\ recording \in [Task -> Seq({"keys", "expired"})]
  BY DEF ExecTypes
<1>4. TypeOK /\ out[t].expired \in Nat /\ out'[t].expired \in Nat
  BY DEF IInv, TypeOK, Outcome
<1>5. pc[t] \notin {"idle", "returned"}
  BY <1>1, <1>4, StaysInCall
<1>6. InFlight(t) = IF cmd[t].op = "SNAPSHOT" THEN 0 ELSE out[t].expired
  BY <1>5 DEF InFlight
<1>7. CASE Panic(t)
  <2>1. pc'[t] = "idle" /\ pc[t] = "body" /\ cmd[t].op \in {"SET", "EXPIRE"}
    BY <1>1, <1>4, <1>7, StaysInCall
  <2>2. out[t].expired = 0
    BY <2>1 DEF NothingYetOK
  <2>3. InFlight(t)' = 0 /\ InFlight(t) = 0
    BY <1>6, <2>1, <2>2 DEF InFlight
  <2> HIDE DEF owed, gone
  <2> QED BY <1>1, <1>2, <1>3, <2>1, <2>3
<1>8. CASE ~Panic(t)
  <2>1. cmd' = cmd /\ pc'[t] \notin {"idle", "global"}
    BY <1>1, <1>4, <1>8, StaysInCall
  <2>2. CASE cmd[t].op = "SNAPSHOT"
    <3>1. InFlight(t)' = 0
      BY <2>1, <2>2 DEF InFlight
    <3> HIDE DEF owed, gone
    <3> QED BY <1>1, <1>2, <1>3, <1>6, <2>2, <3>1
  <2>3. CASE cmd[t].op # "SNAPSHOT"
    <3>1. out'[t].expired = out[t].expired + owed
      BY <1>1, <1>8, <2>3, OutcomeCounts
    <3>2. InFlight(t)' = out'[t].expired
      <4>1. CASE pc'[t] # "returned"
        BY <2>1, <2>3, <4>1 DEF InFlight
      <4>2. CASE pc'[t] = "returned" /\ cmd[t].op \in {"KEYS", "FLUSHDB"}
        <5>1. out'[t].expired = 0
          BY <1>1, <2>1, <4>2, NothingYetStep DEF NothingYetOK
        <5> QED BY <5>1 DEF InFlight
      <4>3. CASE pc'[t] = "returned" /\ cmd[t].op \notin {"KEYS", "FLUSHDB"}
        <5>1. recording'[t] = RecordingFor(cmd[t].op)
          BY <1>1, <1>3, <4>3
        <5>2. recording'[t] \in {<<"keys", "expired">>, <<"expired", "keys">>}
          BY <2>3, <4>3, <5>1 DEF RecordingFor
        <5>3. "expired" \in {recording'[t][i] : i \in 1 .. Len(recording'[t])}
          <6>1. CASE recording'[t] = <<"keys", "expired">>
            <7>1. Len(recording'[t]) = 2 /\ recording'[t][2] = "expired"
              BY <6>1
            <7> QED BY <7>1
          <6>2. CASE recording'[t] = <<"expired", "keys">>
            <7>1. Len(recording'[t]) = 2 /\ recording'[t][1] = "expired"
              BY <6>2
            <7> QED BY <7>1
          <6> QED BY <5>2, <6>1, <6>2
        <5> QED BY <2>1, <2>3, <4>3, <5>3 DEF InFlight
      <4> QED BY <4>1, <4>2, <4>3
    <3> HIDE DEF owed, gone
    <3> QED BY <1>1, <1>2, <1>3, <1>4, <1>6, <2>1, <2>3, <3>1, <3>2
  <2> QED BY <2>2, <2>3
<1> QED BY <1>7, <1>8

-----------------------------------------------------------------------------
(***************************************************************************)
(* The invariant, part by part.                                            *)
(***************************************************************************)

\* A task's step leaves the other tasks' calls and statistics alone.
OthersRecord(t) ==
  \A u \in Task \ {t} : /\ pc'[u] = pc[u] /\ cmd'[u] = cmd[u] /\ out'[u] = out[u]
                        /\ recording'[u] = recording[u]

\* What a step of one task moves between the statistics, the missing and what
\* it has in flight stays in the sum.
LEMMA SumStays ==
  ASSUME ExecTypes, FoundCounted, NEW t \in Task, OthersRecord(t),
         InFlight(t) \in Nat, InFlight(t)' \in Nat,
         stats'.expired \in Nat, uncounted' \in Nat, purged' \in Nat,
         stats'.expired + uncounted' + InFlight(t)' + purged =
           stats.expired + uncounted + InFlight(t) + purged'
  PROVE  FoundCounted'
<1>1. \A u \in Task \ {t} : InFlight(u)' = InFlight(u)
  BY DEF OthersRecord, InFlight
<1>2. /\ IsFiniteSet(Found') /\ Cardinality(Found) \in Nat
      /\ Cardinality(Found') = Cardinality(Found) - InFlight(t) + InFlight(t)'
  BY <1>1, FoundMoves DEF FoundCounted
<1>3. stats.expired + uncounted + Cardinality(Found) = purged
  BY DEF FoundCounted, ExpiredAccounted, Found
<1>4. stats.expired \in Nat /\ uncounted \in Nat /\ purged \in Nat
  BY DEF ExecTypes
<1>5. stats'.expired + uncounted' + Cardinality(Found') = purged'
  BY <1>2, <1>3, <1>4
<1> QED BY <1>2, <1>5 DEF FoundCounted, ExpiredAccounted, Found

\* The counters keep their types, and the key count and the expired keys are
\* touched by nobody else.
LEMMA StatsFields ==
  ASSUME ExecTypes, NEW op
  PROVE  /\ stats.expired \in Nat /\ stats.keyCount \in Nat /\ stats.total \in Nat
         /\ Counted(stats, op) \in [total : Nat, get : Nat, set : Nat, del : Nat, keyCount : Nat, expired : Nat]
         /\ Counted(stats, op).expired = stats.expired
         /\ [stats EXCEPT !.total = @ + 1]
              \in [total : Nat, get : Nat, set : Nat, del : Nat, keyCount : Nat, expired : Nat]
         /\ [stats EXCEPT !.total = @ + 1].expired = stats.expired
         /\ [stats EXCEPT !.total = @ + 1].keyCount = stats.keyCount
<1>1. stats \in [total : Nat, get : Nat, set : Nat, del : Nat, keyCount : Nat, expired : Nat]
  BY DEF ExecTypes
<1>2. /\ [stats EXCEPT !.total = @ + 1]
           \in [total : Nat, get : Nat, set : Nat, del : Nat, keyCount : Nat, expired : Nat]
      /\ [stats EXCEPT !.total = @ + 1].expired = stats.expired
      /\ [stats EXCEPT !.total = @ + 1].keyCount = stats.keyCount
  BY <1>1
<1>3. CASE op \in {"SET", "SETAT"}
  <2>1. Counted(stats, op) = [stats EXCEPT !.set = @ + 1]
    BY <1>3 DEF Counted
  <2> QED BY <1>1, <1>2, <2>1
<1>4. CASE op = "GET"
  <2>1. Counted(stats, op) = [stats EXCEPT !.get = @ + 1]
    BY <1>4 DEF Counted
  <2> QED BY <1>1, <1>2, <2>1
<1>5. CASE op = "DEL"
  <2>1. Counted(stats, op) = [stats EXCEPT !.del = @ + 1]
    BY <1>5 DEF Counted
  <2> QED BY <1>1, <1>2, <2>1
<1>6. CASE op \notin {"SET", "SETAT", "GET", "DEL"}
  <2>1. Counted(stats, op) = stats
    BY <1>6 DEF Counted
  <2> QED BY <1>1, <1>2, <2>1
<1> QED BY <1>3, <1>4, <1>5, <1>6

\* While a task that was alone is busy, no other takes a step.
LEMMA AloneStep ==
  ASSUME AloneOK, NEW t \in Task, pc[t] # "idle", alone' = alone, OthersRecord(t),
         pc'[t] = "returned" /\ cmd'[t].op \notin {"KEYS", "SNAPSHOT"} /\ alone[t] =>
           /\ out'[t].keyCount = keyCount'
           /\ recording'[t] \in {<< >>, <<"expired">>} => stats'.keyCount = keyCount'
  PROVE  AloneOK'
<1> SUFFICES ASSUME NEW u \in Task, pc'[u] # "idle", alone[u]
             PROVE  /\ \A w \in Task \ {u} : pc'[w] = "idle"
                    /\ pc'[u] = "returned" /\ cmd'[u].op \notin {"KEYS", "SNAPSHOT"} =>
                         /\ out'[u].keyCount = keyCount'
                         /\ recording'[u] \in {<< >>, <<"expired">>} => stats'.keyCount = keyCount'
  BY DEF AloneOK
<1>1. u = t
  BY DEF AloneOK, OthersRecord
<1> QED BY <1>1 DEF AloneOK, OthersRecord

\* Every command starts with what it may have left to write.
LEMMA RecordingTypes ==
  ASSUME NEW op
  PROVE  RecordingFor(op) \in Seq({"keys", "expired"}) /\ RecordingFor(op) \in Remaining(op)
<1>1. CASE op \in {"KEYS", "SNAPSHOT"}
  <2>1. RecordingFor(op) = << >> /\ Remaining(op) = {<< >>}
    BY <1>1 DEF RecordingFor, Remaining
  <2> QED BY <2>1
<1>2. CASE op = "FLUSHDB"
  <2>1. RecordingFor(op) = <<"keys">> /\ Remaining(op) = {<<"keys">>, << >>}
    BY <1>2 DEF RecordingFor, Remaining
  <2> QED BY <2>1
<1>3. CASE op = "SWEEP"
  <2>1. RecordingFor(op) = <<"expired", "keys">> /\ Remaining(op) = {<<"expired", "keys">>, <<"keys">>, << >>}
    BY <1>3 DEF RecordingFor, Remaining
  <2> QED BY <2>1
<1>4. CASE op \notin {"KEYS", "SNAPSHOT", "FLUSHDB", "SWEEP"}
  <2>1. RecordingFor(op) = <<"keys", "expired">> /\ Remaining(op) = {<<"keys", "expired">>, <<"expired">>, << >>}
    BY <1>4 DEF RecordingFor, Remaining
  <2> QED BY <2>1
<1> QED BY <1>1, <1>2, <1>3, <1>4

LEMMA StoreStepOK ==
  ASSUME IInv, IInv', ExecInv, NEW t \in Task, StoreStep(t)
  PROVE  ExecInv'
<1>1. TypeOK /\ ExecTypes /\ RecordingOK /\ NothingYetOK /\ FoundCounted /\ AloneOK
  BY DEF IInv, ExecInv
<1>2. /\ Step(t) /\ stats' = stats /\ alone' = alone
      /\ recording' = [recording EXCEPT ![t] =
                         IF pc'[t] = "returned" THEN RecordingFor(cmd[t].op) ELSE @]
  BY DEF StoreStep
<1>3. recording \in [Task -> Seq({"keys", "expired"})]
  BY <1>1 DEF ExecTypes
<1>4. OthersRecord(t)
  BY <1>1, <1>2, <1>3, StepsOfOneTask DEF OthersGoOn, OthersRecord
<1>5. /\ pc[t] \notin {"idle", "returned"}
      /\ pc'[t] = "returned" => cmd' = cmd /\ pc[t] \in {"outcome", "finish"}
  BY <1>1, <1>2, StaysInCall
<1>6. RecordingFor(cmd[t].op) \in Seq({"keys", "expired"}) /\ RecordingFor(cmd[t].op) \in Remaining(cmd[t].op)
  BY RecordingTypes
<1>7. /\ InFlight(t) \in Nat /\ InFlight(t)' \in Nat /\ purged' \in Nat /\ uncounted' \in Nat
      /\ InFlight(t)' + uncounted' + purged = InFlight(t) + uncounted + purged'
  BY <1>1, StepConserves
<1>8. ExecTypes'
  BY <1>1, <1>2, <1>3, <1>6, <1>7 DEF ExecTypes
<1>9. RecordingOK'
  BY <1>1, <1>2, <1>3, <1>4, <1>5, <1>6 DEF RecordingOK, OthersRecord
<1>10. NothingYetOK'
  BY <1>1, <1>2, NothingYetStep
<1>11. FoundCounted'
  <2>1. stats.expired \in Nat /\ uncounted \in Nat /\ purged \in Nat
    BY <1>1 DEF ExecTypes
  <2>2. stats'.expired + uncounted' + InFlight(t)' + purged = stats.expired + uncounted + InFlight(t) + purged'
    BY <1>2, <1>7, <2>1
  <2> QED BY <1>1, <1>2, <1>4, <1>7, <2>1, <2>2, SumStays
<1>12. AloneOK'
  <2>1. ASSUME pc'[t] = "returned", cmd'[t].op \notin {"KEYS", "SNAPSHOT"}
        PROVE  /\ out'[t].keyCount = keyCount'
               /\ recording'[t] \notin {<< >>, <<"expired">>}
    <3>1. out[t] \in Outcome /\ out \in [Task -> Outcome]
      BY <1>1 DEF TypeOK
    <3>2. ReturnOutcome(t) \/ Finish(t)
      BY <1>2, <1>5, <2>1 DEF Step, EnterKeyed, EnterWhole, EnterShard, Execute, StartTtl, TtlRemaining,
                              Panic, ApplyLen, Scan
    <3>3. cmd[t].op \notin {"KEYS", "SNAPSHOT"}
      BY <1>5, <2>1
    <3>4. out'[t].keyCount = keyCount'
      BY <3>1, <3>2, <3>3 DEF ReturnOutcome, Finish, Outcome
    <3>5. recording'[t] = RecordingFor(cmd[t].op)
      BY <1>2, <1>3, <2>1
    <3>6. RecordingFor(cmd[t].op) \in {<<"keys">>, <<"expired", "keys">>, <<"keys", "expired">>}
      BY <3>3 DEF RecordingFor
    <3>7. \A r \in {<<"keys">>, <<"expired", "keys">>, <<"keys", "expired">>} : r \notin {<< >>, <<"expired">>}
      <4>1. Len(<<"keys">>) = 1 /\ Len(<<"expired">>) = 1 /\ Len(<<"expired", "keys">>) = 2
            /\ Len(<<"keys", "expired">>) = 2 /\ <<"keys">>[1] = "keys" /\ <<"expired">>[1] = "expired"
            /\ Len(<< >>) = 0
        OBVIOUS
      <4> QED BY <4>1
    <3> QED BY <3>4, <3>5, <3>6, <3>7
  <2> QED BY <1>1, <1>2, <1>4, <1>5, <2>1, AloneStep
<1> QED BY <1>8, <1>9, <1>10, <1>11, <1>12 DEF ExecInv

-----------------------------------------------------------------------------
(***************************************************************************)
(* The steps beside the store's.                                           *)
(***************************************************************************)
HasExpired(r) == "expired" \in {r[i] : i \in 1 .. Len(r)}

\* The two orders in which the statistics are written.
LEMMA RecordingShapes ==
  ASSUME NEW op, NEW r \in Remaining(op), r # << >>
  PROVE  /\ op \notin {"KEYS", "SNAPSHOT"}
         /\ r \in Seq({"keys", "expired"}) /\ Tail(r) \in Seq({"keys", "expired"})
         /\ Tail(r) \in Remaining(op)
         /\ Head(r) # "keys" =>
              HasExpired(r) /\ ~HasExpired(Tail(r)) /\ (Tail(r) \in {<< >>, <<"expired">>} => r = <<"expired">>)
         /\ Head(r) = "keys" => (HasExpired(Tail(r)) <=> HasExpired(r))
<1>1. CASE op \in {"KEYS", "SNAPSHOT"}
  <2>1. Remaining(op) = {<< >>}
    BY <1>1 DEF Remaining
  <2> QED BY <2>1
<1> DEFINE K == <<"keys">>
           X == <<"expired">>
           KX == <<"keys", "expired">>
           XK == <<"expired", "keys">>
<1>2. /\ Tail(K) = << >> /\ Tail(X) = << >> /\ Tail(KX) = X /\ Tail(XK) = K
      /\ Head(K) = "keys" /\ Head(X) = "expired" /\ Head(KX) = "keys" /\ Head(XK) = "expired"
      /\ \A q \in {K, X, KX, XK, << >>} : q \in Seq({"keys", "expired"})
  OBVIOUS
<1>3. K # X /\ K # << >> /\ X # << >>
  <2>1. Len(K) = 1 /\ Len(X) = 1 /\ Len(<< >>) = 0 /\ K[1] = "keys" /\ X[1] = "expired"
    OBVIOUS
  <2> QED BY <2>1
<1>4. ~HasExpired(K) /\ ~HasExpired(<< >>) /\ HasExpired(X) /\ HasExpired(KX) /\ HasExpired(XK)
  <2>1. /\ Len(K) = 1 /\ K[1] = "keys" /\ Len(<< >>) = 0
        /\ Len(X) = 1 /\ X[1] = "expired"
        /\ Len(KX) = 2 /\ KX[2] = "expired" /\ Len(XK) = 2 /\ XK[1] = "expired"
    OBVIOUS
  <2>2. 1 .. 1 = {1} /\ 1 .. 0 = {} /\ 2 \in 1 .. 2 /\ 1 \in 1 .. 2
    OBVIOUS
  <2> HIDE DEF K, X, KX, XK
  <2> QED BY <2>1, <2>2 DEF HasExpired
<1>5. CASE op = "FLUSHDB"
  <2>1. Remaining(op) = {K, << >>}
    BY <1>5 DEF Remaining
  <2> HIDE DEF K, X, KX, XK, HasExpired
  <2> QED BY <1>2, <1>3, <1>4, <1>5, <2>1
<1>6. CASE op = "SWEEP"
  <2>1. Remaining(op) = {XK, K, << >>}
    BY <1>6 DEF Remaining
  <2> HIDE DEF K, X, KX, XK, HasExpired
  <2> QED BY <1>2, <1>3, <1>4, <1>6, <2>1 DEF X
<1>7. CASE op \notin {"KEYS", "SNAPSHOT", "FLUSHDB", "SWEEP"}
  <2>1. Remaining(op) = {KX, X, << >>}
    BY <1>7 DEF Remaining
  <2> HIDE DEF K, X, KX, XK, HasExpired
  <2> QED BY <1>2, <1>3, <1>4, <1>7, <2>1 DEF X
<1> QED BY <1>1, <1>5, <1>6, <1>7

LEMMA RecordOK ==
  ASSUME IInv, ExecInv, NEW t \in Task, Record(t)
  PROVE  ExecInv'
<1> DEFINE r == recording[t]
           op == cmd[t].op
<1>1. TypeOK /\ ExecTypes /\ RecordingOK /\ NothingYetOK /\ FoundCounted /\ AloneOK
  BY DEF IInv, ExecInv
<1>2. /\ r # << >> /\ UNCHANGED <<vars, purged, uncounted, alone>>
      /\ recording' = [recording EXCEPT ![t] = Tail(r)]
      /\ stats' = IF Head(r) = "keys" THEN [Counted(stats, op) EXCEPT !.keyCount = out[t].keyCount]
                                      ELSE [stats EXCEPT !.expired = @ + out[t].expired]
  BY DEF Record
<1>3. /\ recording \in [Task -> Seq({"keys", "expired"})]
      /\ stats \in [total : Nat, get : Nat, set : Nat, del : Nat, keyCount : Nat, expired : Nat]
      /\ purged \in Nat /\ uncounted \in Nat /\ alone \in [Task -> BOOLEAN]
  BY <1>1 DEF ExecTypes
<1>4. pc[t] = "returned" /\ r \in Remaining(op)
  BY <1>1, <1>2 DEF RecordingOK
<1>5. /\ op \notin {"KEYS", "SNAPSHOT"}
      /\ Tail(r) \in Seq({"keys", "expired"}) /\ Tail(r) \in Remaining(op)
      /\ Head(r) # "keys" =>
           HasExpired(r) /\ ~HasExpired(Tail(r)) /\ (Tail(r) \in {<< >>, <<"expired">>} => r = <<"expired">>)
      /\ Head(r) = "keys" => (HasExpired(Tail(r)) <=> HasExpired(r))
  BY <1>2, <1>4, RecordingShapes
<1>6. UNCHANGED <<pc, cmd, out, keyCount>>
  BY <1>2 DEF vars, dbVars, taskVars
<1>7. out[t].expired \in Nat /\ out[t].keyCount \in Nat
  BY <1>1 DEF TypeOK, Outcome
<1>8. recording'[t] = Tail(r) /\ \A u \in Task \ {t} : recording'[u] = recording[u]
  BY <1>2, <1>3
<1>9. OthersRecord(t)
  BY <1>6, <1>8 DEF OthersRecord
<1>10. /\ stats' \in [total : Nat, get : Nat, set : Nat, del : Nat, keyCount : Nat, expired : Nat]
       /\ Head(r) = "keys" => stats'.expired = stats.expired /\ stats'.keyCount = out[t].keyCount
       /\ Head(r) # "keys" => stats'.expired = stats.expired + out[t].expired /\ stats'.keyCount = stats.keyCount
  <2>1. /\ Counted(stats, op) \in [total : Nat, get : Nat, set : Nat, del : Nat, keyCount : Nat, expired : Nat]
        /\ Counted(stats, op).expired = stats.expired
    BY <1>1, StatsFields
  <2>2. CASE Head(r) = "keys"
    <3>1. stats' = [Counted(stats, op) EXCEPT !.keyCount = out[t].keyCount]
      BY <1>2, <2>2
    <3> QED BY <1>7, <2>1, <2>2, <3>1
  <2>3. CASE Head(r) # "keys"
    <3>1. stats' = [stats EXCEPT !.expired = stats.expired + out[t].expired]
      BY <1>2, <2>3
    <3>2. stats.expired + out[t].expired \in Nat
      BY <1>3, <1>7
    <3> HIDE DEF r, op
    <3> QED BY <1>3, <2>3, <3>1, <3>2
  <2> QED BY <2>2, <2>3
<1>11. ExecTypes'
  BY <1>2, <1>3, <1>5, <1>10 DEF ExecTypes
<1>12. RecordingOK'
  BY <1>1, <1>4, <1>5, <1>6, <1>8 DEF RecordingOK
<1>13. NothingYetOK'
  BY <1>1, <1>6 DEF NothingYetOK
<1>14. FoundCounted'
  <2>1. /\ InFlight(t) = IF HasExpired(r) THEN out[t].expired ELSE 0
        /\ InFlight(t)' = IF HasExpired(Tail(r)) THEN out[t].expired ELSE 0
    BY <1>4, <1>5, <1>6, <1>8 DEF InFlight, HasExpired
  <2>2. stats.expired \in Nat /\ stats'.expired \in Nat
    BY <1>3, <1>10
  <2>3. stats'.expired + InFlight(t)' = stats.expired + InFlight(t)
    <3> HIDE DEF r, op
    <3> QED BY <1>5, <1>7, <1>10, <2>1, <2>2
  <2>4. InFlight(t) \in Nat /\ InFlight(t)' \in Nat
    BY <1>7, <2>1
  <2>5. stats'.expired + uncounted' + InFlight(t)' + purged = stats.expired + uncounted + InFlight(t) + purged'
    <3>1. uncounted' = uncounted /\ purged' = purged /\ uncounted \in Nat /\ purged \in Nat
      BY <1>2, <1>3
    <3> QED BY <2>2, <2>3, <2>4, <3>1
  <2> QED BY <1>1, <1>2, <1>3, <1>9, <2>2, <2>4, <2>5, SumStays
<1>15. AloneOK'
  <2>1. ASSUME alone[t] PROVE out[t].keyCount = keyCount /\ (r = <<"expired">> => stats.keyCount = keyCount)
    BY <1>1, <1>4, <1>5, <2>1 DEF AloneOK
  <2>2. alone[t] => /\ out'[t].keyCount = keyCount'
                    /\ recording'[t] \in {<< >>, <<"expired">>} => stats'.keyCount = keyCount'
    BY <1>5, <1>6, <1>8, <1>10, <2>1
  <2> QED BY <1>1, <1>2, <1>4, <1>9, <2>2, AloneStep
<1> QED BY <1>11, <1>12, <1>13, <1>14, <1>15 DEF ExecInv

LEMMA ReplyOK ==
  ASSUME IInv, ExecInv, NEW t \in Task, Reply(t)
  PROVE  ExecInv'
<1>1. TypeOK /\ ExecTypes /\ RecordingOK /\ NothingYetOK /\ FoundCounted /\ AloneOK
  BY DEF IInv, ExecInv
<1>2. /\ recording[t] = << >> /\ Return(t) /\ UNCHANGED <<stats, recording, purged, uncounted, alone>>
  BY DEF Reply
<1>3. /\ pc[t] = "returned" /\ pc'[t] = "idle" /\ out'[t] = NoOutcome
  BY <1>1, <1>2 DEF Return, TypeOK
<1>4. OthersRecord(t)
  BY <1>1, <1>2, StepsOfOneTask DEF OthersGoOn, OthersRecord
<1>5. ExecTypes'
  BY <1>1, <1>2 DEF ExecTypes
<1>6. RecordingOK'
  BY <1>1, <1>2, <1>3, <1>4 DEF RecordingOK, OthersRecord
<1>7. NothingYetOK'
  BY <1>1, <1>3, <1>4 DEF NothingYetOK, OthersRecord, NoOutcome
<1>8. FoundCounted'
  <2>1. InFlight(t) = 0
    <3>1. "expired" \notin {recording[t][i] : i \in 1 .. Len(recording[t])}
      BY <1>2
    <3> QED BY <1>3, <3>1 DEF InFlight
  <2>2. InFlight(t)' = 0
    BY <1>3 DEF InFlight
  <2>3. stats.expired \in Nat /\ uncounted \in Nat /\ purged \in Nat
    BY <1>1 DEF ExecTypes
  <2> QED BY <1>1, <1>2, <1>4, <2>1, <2>2, <2>3, SumStays
<1>9. AloneOK'
  BY <1>1, <1>2, <1>3, <1>4, AloneStep
<1> QED BY <1>5, <1>6, <1>7, <1>8, <1>9 DEF ExecInv

LEMMA StartOK ==
  ASSUME IInv, ExecInv, NEW t \in Task, NEW c \in Calls[t], Start(t, c)
  PROVE  ExecInv'
<1>1. TypeOK /\ ExecTypes /\ RecordingOK /\ NothingYetOK /\ FoundCounted /\ AloneOK
  BY DEF IInv, ExecInv
<1>2. /\ Call(t, c) /\ UNCHANGED <<recording, purged, uncounted>>
      /\ stats' = IF c.op \in Uncounted THEN stats ELSE [stats EXCEPT !.total = @ + 1]
      /\ alone' = [u \in Task |-> IF u = t THEN \A w \in Task \ {t} : pc[w] = "idle"
                                           ELSE pc[u] = "idle" /\ alone[u]]
  BY DEF Start
<1>3. /\ pc[t] = "idle" /\ pc'[t] = "global" /\ out'[t].expired = 0
  BY <1>1, <1>2 DEF Call, TypeOK, NoOutcome
<1>4. OthersRecord(t)
  BY <1>1, <1>2, StepsOfOneTask DEF OthersGoOn, OthersRecord
<1>5. /\ stats' \in [total : Nat, get : Nat, set : Nat, del : Nat, keyCount : Nat, expired : Nat]
      /\ stats'.expired = stats.expired /\ stats.expired \in Nat
  <2>1. stats \in [total : Nat, get : Nat, set : Nat, del : Nat, keyCount : Nat, expired : Nat]
    BY <1>1 DEF ExecTypes
  <2> QED BY <1>1, <1>2, <2>1, StatsFields
<1>6. ExecTypes'
  <2>1. alone \in [Task -> BOOLEAN]
    BY <1>1 DEF ExecTypes
  <2>2. alone' \in [Task -> BOOLEAN]
    BY <1>2, <2>1
  <2> QED BY <1>1, <1>2, <1>5, <2>2 DEF ExecTypes
<1>7. RecordingOK'
  BY <1>1, <1>2, <1>3, <1>4 DEF RecordingOK, OthersRecord
<1>8. NothingYetOK'
  BY <1>1, <1>3, <1>4 DEF NothingYetOK, OthersRecord
<1>9. FoundCounted'
  <2>1. InFlight(t) = 0 /\ InFlight(t)' = 0
    BY <1>3 DEF InFlight
  <2>2. stats.expired \in Nat /\ uncounted \in Nat /\ purged \in Nat
    BY <1>1 DEF ExecTypes
  <2> QED BY <1>1, <1>2, <1>4, <1>5, <2>1, <2>2, SumStays
<1>10. AloneOK'
  <2> SUFFICES ASSUME NEW u \in Task, pc'[u] # "idle", alone'[u]
               PROVE  /\ \A w \in Task \ {u} : pc'[w] = "idle"
                      /\ pc'[u] # "returned"
    BY DEF AloneOK
  <2>1. u = t
    BY <1>2, <1>4 DEF OthersRecord
  <2> QED BY <1>2, <1>3, <1>4, <2>1 DEF OthersRecord
<1> QED BY <1>6, <1>7, <1>8, <1>9, <1>10 DEF ExecInv

\* PING, the clock and stuttering.
LEMMA RestOK ==
  ASSUME IInv, ExecInv, \/ \E t \in Task : Ping(t)
                        \/ Time
                        \/ UNCHANGED allVars
  PROVE  ExecInv'
<1>1. ExecTypes /\ RecordingOK /\ NothingYetOK /\ FoundCounted /\ AloneOK
  BY DEF ExecInv
<1>2. /\ UNCHANGED <<pc, cmd, out, keyCount, recording, purged, uncounted, alone>>
      /\ stats' = stats \/ stats' = [stats EXCEPT !.total = @ + 1]
  BY DEF Ping, Time, Tick, allVars, execVars, vars, dbVars, taskVars
<1>3. /\ stats' \in [total : Nat, get : Nat, set : Nat, del : Nat, keyCount : Nat, expired : Nat]
      /\ stats'.expired = stats.expired /\ stats'.keyCount = stats.keyCount
  BY <1>1, <1>2, StatsFields DEF ExecTypes
<1>4. ExecTypes' /\ RecordingOK' /\ NothingYetOK' /\ AloneOK'
  BY <1>1, <1>2, <1>3 DEF ExecTypes, RecordingOK, NothingYetOK, AloneOK
<1>5. Found' = Found
  BY <1>2 DEF Found, InFlight
<1>6. FoundCounted'
  BY <1>1, <1>2, <1>3, <1>5 DEF FoundCounted, ExpiredAccounted, Found
<1> QED BY <1>4, <1>6 DEF ExecInv

-----------------------------------------------------------------------------
LEMMA ExecInitOK == ExecInit => IInv /\ ExecInv
<1> SUFFICES ASSUME ExecInit PROVE IInv /\ ExecInv
  OBVIOUS
<1>1. Init /\ IInv
  BY InitOK DEF ExecInit
<1>2. ExecTypes
  BY DEF ExecInit, ExecTypes
<1>3. RecordingOK /\ NothingYetOK /\ AloneOK
  BY <1>1 DEF ExecInit, Init, RecordingOK, NothingYetOK, AloneOK, NoOutcome
<1>4. \A t \in Task : InFlight(t) = 0
  BY <1>1 DEF Init, InFlight
<1>5. Found = {}
  BY <1>4 DEF Found
<1>6. IsFiniteSet({}) /\ Cardinality({}) = 0
  BY FS_EmptySet
<1>7. FoundCounted
  <2>1. stats.expired = 0 /\ uncounted = 0 /\ purged = 0
    BY DEF ExecInit
  <2>2. IsFiniteSet(Found) /\ Cardinality(Found) = 0
    BY <1>5, <1>6
  <2> QED BY <2>1, <2>2 DEF FoundCounted, ExpiredAccounted, Found
<1> QED BY <1>1, <1>2, <1>3, <1>7 DEF ExecInv

LEMMA ExecNextOK == IInv /\ ExecInv /\ [ExecNext]_allVars => IInv' /\ ExecInv'
<1> SUFFICES ASSUME IInv, ExecInv, [ExecNext]_allVars PROVE IInv' /\ ExecInv'
  OBVIOUS
<1>1. [Next]_vars
  BY DEF ExecNext, Start, Ping, StoreStep, Record, Reply, Time, Next, allVars, vars
<1>2. IInv'
  BY <1>1, NextOK
<1>3. ASSUME NEW t \in Task, NEW c \in Calls[t], Start(t, c) PROVE ExecInv'
  BY <1>3, StartOK
<1>4. ASSUME NEW t \in Task, StoreStep(t) \/ Record(t) \/ Reply(t) PROVE ExecInv'
  BY <1>2, <1>4, StoreStepOK, RecordOK, ReplyOK
<1>5. ASSUME (\E t \in Task : Ping(t)) \/ Time \/ UNCHANGED allVars PROVE ExecInv'
  BY <1>5, RestOK
<1> QED BY <1>2, <1>3, <1>4, <1>5 DEF ExecNext

THEOREM StatisticsInvariance == ExecSpec => [](IInv /\ ExecInv)
<1>1. ExecInit => IInv /\ ExecInv
  BY ExecInitOK
<1>2. IInv /\ ExecInv /\ [ExecNext]_allVars => IInv' /\ ExecInv'
  BY ExecNextOK
<1> QED BY <1>1, <1>2, PTL DEF ExecSpec

\* Whoever comes across an expired entry, it is added to expired_keys once,
\* unless a snapshot or a panicking SET removed it.
THEOREM EveryExpiryCounted == ExecSpec => []ExpiredAccounted
<1>1. ExecInv => ExpiredAccounted
  BY DEF ExecInv, FoundCounted
<1> QED BY <1>1, StatisticsInvariance, PTL

\* After a command that overlapped no other the key count of the statistics is
\* the store's.
THEOREM QuietCommandsSync == ExecSpec => []QuietCommandSyncs
<1>1. ExecInv => QuietCommandSyncs
  <2> SUFFICES ASSUME ExecInv, NEW t \in Task, pc[t] = "returned", recording[t] = << >>,
                      cmd[t].op \notin {"KEYS", "SNAPSHOT"}, alone[t]
               PROVE  stats.keyCount = keyCount
    BY DEF QuietCommandSyncs
  <2> QED BY DEF ExecInv, AloneOK
<1> QED BY <1>1, StatisticsInvariance, PTL

-----------------------------------------------------------------------------
(***************************************************************************)
(* The counters of commands.  Each command is counted in total when it is  *)
(* read and in get, set or del when it has ended, so the three stay below  *)
(* the total by as many as are still to be counted, and by those that      *)
(* panicked.                                                               *)
(***************************************************************************)
Kinds == {"SET", "SETAT", "GET", "DEL"}

\* The commands read whose own counter is still to be written.
Pending ==
  {t \in Task : /\ pc[t] # "idle"
                /\ cmd[t].op \in Kinds
                /\ pc[t] = "returned" => recording[t] = <<"keys", "expired">>}

KindsSum == stats.get + stats.set + stats.del

CommandsCounted ==
  /\ IsFiniteSet(Pending)
  /\ KindsSum + Cardinality(Pending) <= stats.total
  /\ stats.total <= MaxCommands

\* A step of one task moves only this task in or out of those pending.
LEMMA PendingMoves ==
  ASSUME IsFiniteSet(Pending), NEW t \in Task, OthersRecord(t)
  PROVE  /\ IsFiniteSet(Pending') /\ Cardinality(Pending) \in Nat /\ Cardinality(Pending') \in Nat
         /\ Cardinality(Pending') =
              Cardinality(Pending) + (IF t \in Pending' THEN 1 ELSE 0) - (IF t \in Pending THEN 1 ELSE 0)
<1> DEFINE Rest == Pending \ {t}
<1>1. /\ IsFiniteSet(Rest) /\ Cardinality(Pending) \in Nat
      /\ Cardinality(Rest) = IF t \in Pending THEN Cardinality(Pending) - 1 ELSE Cardinality(Pending)
  BY FS_RemoveElement, FS_CardinalityType
<1>2. Pending' = IF t \in Pending' THEN Rest \cup {t} ELSE Rest
  BY DEF Pending, OthersRecord
<1>3. /\ IsFiniteSet(Rest \cup {t}) /\ Cardinality(Rest) \in Nat
      /\ Cardinality(Rest \cup {t}) = Cardinality(Rest) + 1
  BY <1>1, FS_AddElement, FS_CardinalityType
<1>4. t \in Pending => Cardinality(Pending) = Cardinality(Rest) + 1
  BY <1>1, <1>3
<1> HIDE DEF Rest
<1>5. CASE t \in Pending'
  <2>1. Pending' = Rest \cup {t}
    BY <1>2, <1>5
  <2> QED BY <1>1, <1>3, <1>4, <1>5, <2>1
<1>6. CASE t \notin Pending'
  <2>1. Pending' = Rest
    BY <1>2, <1>6
  <2> QED BY <1>1, <1>3, <1>4, <1>6, <2>1
<1> QED BY <1>5, <1>6

\* The three counters after one command is counted.
LEMMA KindsFields ==
  ASSUME ExecTypes, NEW op, NEW n
  PROVE  /\ KindsSum \in Nat /\ stats.total \in Nat
         /\ LET s == [Counted(stats, op) EXCEPT !.keyCount = n]
            IN  s.get + s.set + s.del = KindsSum + (IF op \in Kinds THEN 1 ELSE 0) /\ s.total = stats.total
         /\ LET s == [stats EXCEPT !.expired = n]
            IN  s.get + s.set + s.del = KindsSum /\ s.total = stats.total
         /\ LET s == [stats EXCEPT !.total = @ + 1]
            IN  s.get + s.set + s.del = KindsSum /\ s.total = stats.total + 1
<1>1. stats \in [total : Nat, get : Nat, set : Nat, del : Nat, keyCount : Nat, expired : Nat]
  BY DEF ExecTypes
<1>2. /\ KindsSum \in Nat /\ stats.total \in Nat
      /\ stats.get \in Nat /\ stats.set \in Nat /\ stats.del \in Nat
  BY <1>1 DEF KindsSum
<1>3. /\ LET s == [stats EXCEPT !.expired = n]
         IN  s.get + s.set + s.del = KindsSum /\ s.total = stats.total
      /\ LET s == [stats EXCEPT !.total = @ + 1]
         IN  s.get + s.set + s.del = KindsSum /\ s.total = stats.total + 1
  BY <1>1 DEF KindsSum
<1> DEFINE s == [Counted(stats, op) EXCEPT !.keyCount = n]
<1>4. CASE op \in {"SET", "SETAT"}
  <2>1. Counted(stats, op) = [stats EXCEPT !.set = @ + 1] /\ op \in Kinds
    BY <1>4 DEF Counted, Kinds
  <2>2. s.get = stats.get /\ s.set = stats.set + 1 /\ s.del = stats.del /\ s.total = stats.total
    BY <1>1, <2>1
  <2> QED BY <1>2, <1>3, <2>1, <2>2 DEF KindsSum
<1>5. CASE op = "GET"
  <2>1. Counted(stats, op) = [stats EXCEPT !.get = @ + 1] /\ op \in Kinds
    BY <1>5 DEF Counted, Kinds
  <2>2. s.get = stats.get + 1 /\ s.set = stats.set /\ s.del = stats.del /\ s.total = stats.total
    BY <1>1, <2>1
  <2> QED BY <1>2, <1>3, <2>1, <2>2 DEF KindsSum
<1>6. CASE op = "DEL"
  <2>1. Counted(stats, op) = [stats EXCEPT !.del = @ + 1] /\ op \in Kinds
    BY <1>6 DEF Counted, Kinds
  <2>2. s.get = stats.get /\ s.set = stats.set /\ s.del = stats.del + 1 /\ s.total = stats.total
    BY <1>1, <2>1
  <2> QED BY <1>2, <1>3, <2>1, <2>2 DEF KindsSum
<1>7. CASE op \notin Kinds
  <2>1. Counted(stats, op) = stats
    BY <1>7 DEF Counted, Kinds
  <2>2. s.get = stats.get /\ s.set = stats.set /\ s.del = stats.del /\ s.total = stats.total
    BY <1>1, <2>1
  <2> QED BY <1>2, <1>3, <1>7, <2>2 DEF KindsSum
<1> QED BY <1>2, <1>3, <1>4, <1>5, <1>6, <1>7 DEF Kinds

\* Whoever moves, the sum stays below the total.
LEMMA CountStays ==
  ASSUME ExecTypes, CommandsCounted, NEW t \in Task, OthersRecord(t),
         KindsSum' \in Nat, stats'.total \in Nat, stats'.total <= MaxCommands,
         KindsSum' + (IF t \in Pending' THEN 1 ELSE 0) + stats.total <=
           KindsSum + (IF t \in Pending THEN 1 ELSE 0) + stats'.total
  PROVE  CommandsCounted'
<1>1. /\ IsFiniteSet(Pending') /\ Cardinality(Pending) \in Nat /\ Cardinality(Pending') \in Nat
      /\ Cardinality(Pending') =
           Cardinality(Pending) + (IF t \in Pending' THEN 1 ELSE 0) - (IF t \in Pending THEN 1 ELSE 0)
  BY PendingMoves DEF CommandsCounted
<1>2. KindsSum \in Nat /\ stats.total \in Nat
  BY KindsFields
<1>3. KindsSum + Cardinality(Pending) <= stats.total
  BY DEF CommandsCounted
<1>4. KindsSum' + Cardinality(Pending') <= stats'.total
  BY <1>1, <1>2, <1>3
<1> QED BY <1>1, <1>4 DEF CommandsCounted

\* A step of the store counts nothing, and leaves no new command to count.
LEMMA StoreStepCounts ==
  ASSUME IInv, ExecInv, CommandsCounted, NEW t \in Task, StoreStep(t)
  PROVE  CommandsCounted'
<1>1. TypeOK /\ ExecTypes
  BY DEF IInv, ExecInv
<1>2. Step(t) /\ stats' = stats /\ \A u \in Task \ {t} : recording'[u] = recording[u]
  BY <1>1 DEF StoreStep, ExecTypes
<1>3. OthersRecord(t)
  BY <1>1, <1>2, StepsOfOneTask DEF OthersGoOn, OthersRecord
<1>4. pc[t] \notin {"idle", "returned"} /\ (pc'[t] = "idle" \/ cmd' = cmd)
  BY <1>1, <1>2, StaysInCall
<1>5. t \in Pending' => t \in Pending
  BY <1>4 DEF Pending
<1>6. KindsSum' = KindsSum /\ KindsSum \in Nat /\ stats.total \in Nat /\ stats.total <= MaxCommands
  BY <1>1, <1>2, KindsFields DEF KindsSum, CommandsCounted
<1> QED BY <1>1, <1>2, <1>3, <1>5, <1>6, CountStays

\* fetch_add on get, set or del: the command is not pending any more.
LEMMA RecordCounts ==
  ASSUME IInv, ExecInv, CommandsCounted, NEW t \in Task, Record(t)
  PROVE  CommandsCounted'
<1> DEFINE r == recording[t]
           op == cmd[t].op
<1>1. ExecTypes /\ RecordingOK
  BY DEF ExecInv
<1>2. /\ r # << >> /\ UNCHANGED vars /\ recording' = [recording EXCEPT ![t] = Tail(r)]
      /\ stats' = IF Head(r) = "keys" THEN [Counted(stats, op) EXCEPT !.keyCount = out[t].keyCount]
                                      ELSE [stats EXCEPT !.expired = stats.expired + out[t].expired]
  BY DEF Record
<1>3. UNCHANGED <<pc, cmd, out>>
  BY <1>2 DEF vars, dbVars, taskVars
<1>4. recording'[t] = Tail(r) /\ OthersRecord(t)
  BY <1>1, <1>2, <1>3 DEF ExecTypes, OthersRecord
<1>5. pc[t] = "returned" /\ r \in Remaining(op)
  BY <1>1, <1>2 DEF RecordingOK
<1>6. /\ op \in Kinds => r \in {<<"keys", "expired">>, <<"expired">>}
      /\ op \notin Kinds => t \notin Pending /\ t \notin Pending'
  BY <1>2, <1>3, <1>5 DEF Remaining, Kinds, Pending
<1>7. /\ op \in Kinds /\ Head(r) = "keys" => t \in Pending
      /\ t \notin Pending'
  <2>1. r = <<"expired">> => Head(r) = "expired" /\ Tail(r) = << >>
    OBVIOUS
  <2>2. r = <<"keys", "expired">> => Tail(r) = <<"expired">>
    OBVIOUS
  <2>3. << >> # <<"keys", "expired">> /\ <<"expired">> # <<"keys", "expired">>
    OBVIOUS
  <2> QED BY <1>2, <1>3, <1>4, <1>5, <1>6, <2>1, <2>2, <2>3 DEF Pending, Kinds
<1>8. /\ KindsSum \in Nat /\ stats.total \in Nat /\ stats'.total = stats.total
      /\ KindsSum' = KindsSum + (IF Head(r) = "keys" /\ op \in Kinds THEN 1 ELSE 0)
  <2>1. CASE Head(r) = "keys"
    BY <1>1, <1>2, <2>1, KindsFields DEF KindsSum
  <2>2. CASE Head(r) # "keys"
    BY <1>1, <1>2, <2>2, KindsFields DEF KindsSum
  <2> QED BY <2>1, <2>2
<1>9. stats.total <= MaxCommands
  BY DEF CommandsCounted
<1> HIDE DEF r, op
<1> QED BY <1>1, <1>4, <1>7, <1>8, <1>9, CountStays

\* Start counts a command in total before it is pending; PING is only counted.
LEMMA StartCounts ==
  ASSUME IInv, ExecInv, CommandsCounted, NEW t \in Task,
         Ping(t) \/ \E c \in Calls[t] : Start(t, c)
  PROVE  CommandsCounted'
<1>1. TypeOK /\ ExecTypes /\ MaxCommands \in Nat
  BY ExecutorAssumption DEF IInv, ExecInv
<1>2. KindsSum \in Nat /\ stats.total \in Nat /\ stats.total <= MaxCommands
  BY <1>1, KindsFields DEF CommandsCounted
<1>3. /\ stats' = [stats EXCEPT !.total = @ + 1] =>
           KindsSum' = KindsSum /\ stats'.total = stats.total + 1
      /\ stats' = stats => KindsSum' = KindsSum
  BY <1>1, KindsFields DEF KindsSum
<1>4. CASE Ping(t)
  <2>1. /\ UNCHANGED <<pc, cmd, out, recording>> /\ stats' = [stats EXCEPT !.total = @ + 1]
        /\ stats.total < MaxCommands
    BY <1>4 DEF Ping, vars, dbVars, taskVars
  <2>2. OthersRecord(t) /\ Pending' = Pending
    BY <2>1 DEF OthersRecord, Pending
  <2>3. stats'.total <= MaxCommands
    BY <1>1, <1>2, <1>3, <2>1
  <2> QED BY <1>1, <1>2, <1>3, <2>1, <2>2, <2>3, CountStays
<1>5. ASSUME NEW c \in Calls[t], Start(t, c) PROVE CommandsCounted'
  <2>1. /\ Call(t, c) /\ recording' = recording /\ pc[t] = "idle"
        /\ c.op \in Uncounted => stats' = stats
        /\ c.op \notin Uncounted => stats' = [stats EXCEPT !.total = @ + 1] /\ stats.total < MaxCommands
    BY <1>5 DEF Start, Call
  <2>2. OthersRecord(t)
    BY <1>1, <2>1, StepsOfOneTask DEF OthersGoOn, OthersRecord
  <2>3. t \notin Pending /\ (t \in Pending' => c.op \notin Uncounted)
    <3>1. cmd'[t] = c
      BY <1>1, <2>1 DEF Call, TypeOK
    <3> QED BY <2>1, <3>1 DEF Pending, Kinds, Uncounted
  <2>4. stats'.total \in Nat /\ stats'.total <= MaxCommands
    BY <1>1, <1>2, <1>3, <2>1
  <2> QED BY <1>1, <1>2, <1>3, <2>1, <2>2, <2>3, <2>4, CountStays
<1> QED BY <1>4, <1>5

\* A reply has nothing left to count; time counts nothing.
LEMMA ReplyCounts ==
  ASSUME IInv, ExecInv, CommandsCounted, NEW t \in Task, Reply(t)
  PROVE  CommandsCounted'
<1>1. TypeOK /\ ExecTypes
  BY DEF IInv, ExecInv
<1>2. Return(t) /\ UNCHANGED <<stats, recording>>
  BY DEF Reply
<1>3. OthersRecord(t) /\ pc'[t] = "idle"
  BY <1>1, <1>2, StepsOfOneTask DEF OthersGoOn, OthersRecord, Return, TypeOK
<1>4. t \notin Pending'
  BY <1>3 DEF Pending
<1>5. KindsSum' = KindsSum /\ KindsSum \in Nat /\ stats.total \in Nat /\ stats.total <= MaxCommands
  BY <1>1, <1>2, KindsFields DEF KindsSum, CommandsCounted
<1> QED BY <1>1, <1>2, <1>3, <1>4, <1>5, CountStays

\* What the statistics are made of: every expired entry is in one of two sums,
\* and no more commands are counted by kind than were read.
THEOREM StatisticsTyped == ExecSpec => []ExecTypeOK
<1>1. ExecInit => CommandsCounted
  <2> SUFFICES ASSUME ExecInit PROVE CommandsCounted
    OBVIOUS
  <2>1. Pending = {}
    BY DEF ExecInit, Init, Pending
  <2>2. KindsSum = 0 /\ stats.total = 0
    BY DEF ExecInit, KindsSum
  <2> QED BY <2>1, <2>2, FS_EmptySet, ExecutorAssumption DEF CommandsCounted
<1>2. IInv /\ ExecInv /\ CommandsCounted /\ [ExecNext]_allVars => CommandsCounted'
  <2> SUFFICES ASSUME IInv, ExecInv, CommandsCounted, [ExecNext]_allVars PROVE CommandsCounted'
    OBVIOUS
  <2>1. ASSUME NEW t \in Task, \/ \E c \in Calls[t] : Start(t, c)
                               \/ Ping(t) \/ StoreStep(t) \/ Record(t) \/ Reply(t)
        PROVE  CommandsCounted'
    BY <2>1, StartCounts, StoreStepCounts, RecordCounts, ReplyCounts
  <2>2. ASSUME Time \/ UNCHANGED allVars PROVE CommandsCounted'
    <3>1. UNCHANGED <<pc, cmd, recording, stats>>
      BY <2>2 DEF Time, Tick, allVars, execVars, vars, dbVars, taskVars
    <3> QED BY <3>1 DEF CommandsCounted, Pending, KindsSum
  <2> QED BY <2>1, <2>2 DEF ExecNext
<1>3. IInv /\ ExecInv /\ CommandsCounted => ExecTypeOK
  <2> SUFFICES ASSUME IInv, ExecInv, CommandsCounted PROVE ExecTypeOK
    OBVIOUS
  <2>1. TypeOK /\ ExecTypes /\ FoundCounted
    BY DEF IInv, ExecInv
  <2>2. /\ stats \in [total : Nat, get : Nat, set : Nat, del : Nat, keyCount : Nat, expired : Nat]
        /\ purged \in Nat /\ uncounted \in Nat /\ MaxCommands \in Nat
    BY <2>1, ExecutorAssumption DEF ExecTypes
  <2>3. stats.expired <= purged /\ uncounted <= purged
    <3>1. Cardinality(Found) \in Nat /\ stats.expired + uncounted + Cardinality(Found) = purged
      BY <2>1, FS_CardinalityType DEF FoundCounted, ExpiredAccounted, Found
    <3> QED BY <2>2, <3>1
  <2>4. stats.get + stats.set + stats.del <= stats.total /\ stats.total <= MaxCommands
    <3>1. Cardinality(Pending) \in Nat /\ KindsSum + Cardinality(Pending) <= stats.total
          /\ stats.total <= MaxCommands
      BY FS_CardinalityType DEF CommandsCounted
    <3>2. KindsSum \in Nat /\ stats.total \in Nat
      BY <2>1, KindsFields
    <3>3. KindsSum <= stats.total
      BY <3>1, <3>2
    <3> QED BY <3>1, <3>3 DEF KindsSum
  <2>5. /\ stats \in [total : 0 .. MaxCommands, get : Nat, set : Nat, del : Nat,
                     keyCount : Nat, expired : 0 .. purged]
    BY <2>2, <2>3, <2>4
  <2> QED BY <2>1, <2>2, <2>3, <2>4, <2>5 DEF ExecTypeOK, ExecTypes
<1> QED BY <1>1, <1>2, <1>3, StatisticsInvariance, PTL DEF ExecSpec
=============================================================================
