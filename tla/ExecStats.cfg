CONSTANTS
  k1 = k1
  k2 = k2
  v1 = v1
  t1 = t1
  t2 = t2
  ttlWorker = ttlWorker
  Key = {k1, k2}
  Value = {v1}
  Task = {t1, t2, ttlWorker}
  Absent = Absent
  Never = Never
  TooLong = TooLong
  Second = 2
  ShardCount = 2
  ShardOf <- MCShardOf
  Calls <- ClientCalls
  MaxTime = 1
  MaxLeak = 1
  MaxCommands = 3
SPECIFICATION ExecSpec
INVARIANTS
  IInv
  ExecTypeOK
  ExpiredAccounted
  QuietCommandSyncs
PROPERTIES
  ScanSeesFrozenStore
