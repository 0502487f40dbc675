SPECIFICATION Spec
CONSTANTS
  Record <- Records
  MaxRecords = 2
CONSTRAINT Explored
INVARIANT WholeLogsReadBack
