------------------------------ MODULE Database ------------------------------
(***************************************************************************)
(* The storage of one shard (crates/rustkv-core/src/db.rs, `Database`, and *)
(* entry.rs) as pure operators.  A shard's HashMap is a function from every *)
(* key to an Entry or to Absent; the clock is an argument.  A Rust `bool`  *)
(* or `()` is the 1/0 the executor puts on the wire, `None` is Absent.     *)
(***************************************************************************)
EXTENDS Integers, FiniteSets, Sequences

CONSTANTS
  Key,      \* the keys clients use
  Value,    \* the values they store
  Absent,   \* no entry (HashMap miss, None)
  Never,    \* an entry or a command without an expiry (Option::None)
  TooLong,  \* a duration that Instant + Duration cannot represent
  Second    \* clock ticks in a second

\* Entry (entry.rs): expire_at is a clock reading or None.
Entry == [value : Value, expireAt : Nat \cup {Never}]

Data == [Key -> Entry \cup {Absent}]

ASSUME DatabaseAssumption ==
  /\ IsFiniteSet(Key)
  /\ Absent \notin Entry
  /\ Absent \notin Value \cup Int
  /\ Never \notin Int
  /\ TooLong \notin Nat \cup {Never}
  /\ Second \in Nat \ {0}

EmptyData == [k \in Key |-> Absent]

Stored(d) == {k \in Key : d[k] # Absent}

(***************************************************************************)
(* Commands.  `keys` is empty for the operations on the whole store;       *)
(* `arg` is a duration in ticks (SET), in seconds (EXPIRE) or an absolute  *)
(* time (SETAT, EXPIREAT: PXAT and EXPIREAT of the protocol).              *)
(***************************************************************************)
KeyedOp == {"SET", "SETAT", "GET", "DEL", "EXISTS", "EXPIRE", "EXPIREAT", "TTL"}
WholeOp == {"KEYS", "FLUSHDB", "INFO", "SWEEP", "SNAPSHOT"}

Command ==
  {c \in [op : KeyedOp \cup WholeOp, keys : Seq(Key), value : Value \cup {Absent},
          arg : Nat \cup {Never, TooLong}] :
     /\ c.op \in KeyedOp => c.keys # << >>
     /\ c.op \in KeyedOp \ {"DEL"} => Len(c.keys) = 1
     /\ c.op \in {"SET", "SETAT"} => c.value \in Value
     /\ c.op \in {"SETAT", "EXPIREAT"} => c.arg \in Nat
     /\ c.op = "EXPIRE" => c.arg \in Nat \cup {TooLong}
     /\ c.op \notin {"SET", "SETAT", "EXPIRE", "EXPIREAT"} => c.arg = Never}

-----------------------------------------------------------------------------
\* Mutant: an entry still counts as live at its deadline.
IsExpiredLate(e, now) == e # Absent /\ e.expireAt # Never /\ e.expireAt < now

\* Entry::is_expired.
IsExpired(e, now) == e # Absent /\ e.expireAt # Never /\ e.expireAt <= now

\* What an observer of the shard sees: expired entries are gone.
LiveView(d, now) == [k \in Key |-> IF IsExpired(d[k], now) THEN Absent ELSE d[k]]

\* Database::remove_expired: retain the entries that are not expired.
RemoveExpired(d, now) == LiveView(d, now)

\* Database::remove_if_expired.
RemoveIfExpired(d, k, now) ==
  IF IsExpired(d[k], now) THEN [d EXCEPT ![k] = Absent] ELSE d

\* Instant::now() + duration; None stays None.
Deadline(duration, now) == IF duration = Never THEN Never ELSE now + duration

\* Database::set: the old entry, value and expiry, is replaced.
DbSet(d, k, v, duration, now) ==
  [d EXCEPT ![k] = [value |-> v, expireAt |-> Deadline(duration, now)]]

\* Database::set_at_ms: a deadline already reached removes the key.
DbSetAt(d, k, v, deadline, now) ==
  IF deadline <= now
    THEN [d EXCEPT ![k] = Absent]
    ELSE [d EXCEPT ![k] = [value |-> v, expireAt |-> deadline]]

\* Database::expire and expire_at_ms share this shape: nothing to do for a
\* key that is absent or expired, otherwise the deadline is replaced.
DbExpire(d, k, seconds, now) ==
  LET p == RemoveIfExpired(d, k, now)
  IN  IF p[k] = Absent THEN p ELSE [p EXCEPT ![k].expireAt = now + Second * seconds]

DbExpireAt(d, k, deadline, now) ==
  LET p == RemoveIfExpired(d, k, now)
  IN  CASE deadline <= now -> [p EXCEPT ![k] = Absent]
        [] deadline > now /\ p[k] = Absent -> p
        [] OTHER -> [p EXCEPT ![k].expireAt = deadline]

\* Database::del of one key.
DbDel(d, k) == [d EXCEPT ![k] = Absent]

IsLive(d, k, now) == d[k] # Absent /\ ~IsExpired(d[k], now)

\* Database::ttl on an entry that is still there: seconds, rounded up.
TtlSeconds(e, now) == (e.expireAt - now + Second - 1) \div Second

-----------------------------------------------------------------------------
(***************************************************************************)
(* One keyed operation of ShardedDatabase on the locked shard: the data it *)
(* leaves and what it answers.  The answer of TTL on a volatile entry      *)
(* needs a second look at the clock and is given by the caller.            *)
(***************************************************************************)
Effect(d, c, k, now) ==
  CASE c.op = "SET"      -> DbSet(RemoveExpired(d, now), k, c.value, c.arg, now)
    [] c.op = "SETAT"    -> DbSetAt(RemoveExpired(d, now), k, c.value, c.arg, now)
    [] c.op = "DEL"      -> DbDel(d, k)
    [] c.op = "EXPIRE"   -> DbExpire(d, k, c.arg, now)
    [] c.op = "EXPIREAT" -> DbExpireAt(d, k, c.arg, now)
    [] OTHER             -> RemoveIfExpired(d, k, now)

Answer(d, c, k, now) ==
  CASE c.op \in {"SET", "SETAT"} -> 1
    [] c.op = "GET" -> IF IsLive(d, k, now) THEN d[k].value ELSE Absent
    [] c.op = "TTL" -> IF IsLive(d, k, now) THEN -1 ELSE -2
    [] OTHER        -> IF IsLive(d, k, now) THEN 1 ELSE 0

\* What the operation counts as expired: SET and SETAT the entries they
\* purged, the others what they removed beyond the key DEL was asked for.
ExpiredBy(d, c, k, now) ==
  LET lost == Cardinality(Stored(d)) - Cardinality(Stored(Effect(d, c, k, now)))
  IN  CASE c.op \in {"SET", "SETAT"} ->
             Cardinality(Stored(d)) - Cardinality(Stored(RemoveExpired(d, now)))
        [] c.op = "DEL" -> lost - Answer(d, c, k, now)
        [] OTHER -> lost
=============================================================================
