CONSTANTS
  k1 = k1
  k2 = k2
  v1 = v1
  v2 = v2
  c1 = c1
  c2 = c2
  rw = rw
  Key = {k1, k2}
  Value = {v1, v2}
  Task = {c1, c2, rw}
  Rewriter = rw
  Absent = Absent
  Never = Never
  TooLong = TooLong
  Missing = Missing
  TornFrame = TornFrame
  Second = 2
  Writes <- AllWrites
  RewriteMinSize = 1
  MaxTime = 2
  MaxWrites = 3
  MaxCrashes = 0
  MaxFaults = 1
  MaxTears = 0
SPECIFICATION SafeSpec
INVARIANTS
  TypeOK
  LogMatchesStore
  BackupCoversWindow
