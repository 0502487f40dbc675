SPECIFICATION Spec
CONSTANTS
  Record <- RetriedRecords
  MaxRecords = 2
CONSTRAINT Explored
INVARIANT BrokenLogsAreRefused
