CONSTANTS
  k1 = k1
  k2 = k2
  k3 = k3
  v1 = v1
  v2 = v2
  t1 = t1
  t2 = t2
  Key = {k1, k2, k3}
  Value = {v1, v2}
  Task = {t1, t2}
  Absent = Absent
  Never = Never
  TooLong = TooLong
  Second = 2
  ShardCount = 2
  ShardOf <- MCShardOf
  Calls <- CommandCalls
  MaxTime = 2
  MaxLeak = 1
SPECIFICATION Spec
INVARIANTS
  KeyCountExact
  TtlNeverZero
  KeysBracketed
  SnapshotOfOneInstant
PROPERTIES
  ImplementsKvStore
  EveryCallCompletes
