SPECIFICATION FairSpec
CONSTANTS
  Client = {a}
  a = a
  b = b
  Nobody = Nobody
  MaxFd = 1
  MaxBatch = 64
  MaxRequest = 2
  SendRoom = 1
  MaxSent = 2
  Kind = {"end"}
  Environment = {"signal"}
CHECK_DEADLOCK FALSE
PROPERTY SignalEndsTheLoop
