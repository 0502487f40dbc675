SPECIFICATION RecoverySpec
VIEW Lasting
CONSTANTS
  k1 = k1
  k2 = k2
  a = a
  b = b
  Key <- OneKey
  Elem <- OneElem
  TicksPerSecond = 2
  MaxClock = 20
  WallOffset = 1
  Seconds <- ShortAndLong
  Indices <- EndIndices
  MaxTime = 5
  MaxGap = 1
  MaxLen = 2
  MaxLog = 3
  MaxCrashes = 1
  DiskMayFail = FALSE
PROPERTIES
  ExpiredWhileDownIsGone
