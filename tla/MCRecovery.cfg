SPECIFICATION RecoverySpec
VIEW Lasting
SYMMETRY ElemSymmetry
CONSTANTS
  k1 = k1
  k2 = k2
  a = a
  b = b
  Key <- OneKey
  Elem <- TwoElems
  TicksPerSecond = 2
  MaxClock = 20
  WallOffset = 1
  Seconds <- FewSeconds
  Indices <- EndIndices
  MaxTime = 5
  MaxGap = 1
  MaxLen = 2
  MaxLog = 3
  MaxCrashes = 2
  DiskMayFail = FALSE
INVARIANTS
  RecoveryTypeOK
  ServesWholeLogs
  DeadlinesTrackLog
PROPERTIES
  RestartRestores
  ExpiredStaysGone
