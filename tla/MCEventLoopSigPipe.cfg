SPECIFICATION Spec
CONSTANTS
  Client = {a}
  a = a
  b = b
  Nobody = Nobody
  MaxFd = 1
  MaxBatch = 64
  MaxRequest = 3
  SendRoom = 1
  MaxSent = 3
  Kind = {"end"}
  Environment = {"halfClose", "close", "signal"}
CHECK_DEADLOCK FALSE
INVARIANT RunsUntilSignalled
