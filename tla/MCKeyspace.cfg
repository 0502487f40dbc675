SPECIFICATION Spec
CONSTANTS
  k = k
  a = a
  b = b
  Key <- OneKey
  Elem <- TwoElems
  TicksPerSecond = 2
  MaxClock = 7
  WallOffset = 1
  Seconds <- EverySeconds
  Indices <- EveryIndex
  MaxTime = 3
  MaxGap = 1
  MaxLen = 2
SYMMETRY ElemSymmetry
INVARIANTS
  TypeOK
  NoOrphanDeadline
  NoEmptyCollection
  DeadlineRepresentable
PROPERTIES
  ImplementsEager
  RecordsReproduceSteps
  ChangesAreLogged
  NoOpsAreNotLogged
