CONSTANTS
  k1 = k1
  k2 = k2
  v1 = v1
  v2 = v2
  c1 = c1
  c2 = c2
  rw = rw
  Key = {k1, k2}
  Value = {v1, v2}
  Task = {c1, c2, rw}
  Rewriter = rw
  Absent = Absent
  Never = Never
  TooLong = TooLong
  Missing = Missing
  TornFrame = TornFrame
  Second = 2
  Writes <- PermanentWrites
  RewriteMinSize = 1
  MaxTime = 0
  MaxWrites = 2
  MaxCrashes = 2
  MaxFaults = 2
  MaxTears = 1
SPECIFICATION Spec
PROPERTIES
  RestartFromLogKeepsPromises
  EveryWriteAnswered
CHECK_DEADLOCK FALSE
