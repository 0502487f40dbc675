SPECIFICATION ServerSpec
VIEW Lasting
SYMMETRY ClientSymmetry
CONSTANTS
  k1 = k1
  a = a
  c1 = c1
  c2 = c2
  Nobody = Nobody
  Key <- OneKey
  Elem <- OneElem
  Client <- TwoClients
  TicksPerSecond = 2
  MaxClock = 20
  WallOffset = 1
  Seconds = {0, 1}
  Indices = {0}
  MaxTime = 1
  MaxGap = 0
  MaxLen = 1
  MaxLog = 2
  MaxCrashes = 2
  MaxWaiting = 2
  DiskMayFail = TRUE
INVARIANTS ServesWholeLogs LogIsPrefix ToldIsLogged
