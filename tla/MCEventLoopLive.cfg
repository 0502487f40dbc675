SPECIFICATION FairSpec
CONSTANTS
  Client = {a, b}
  a = a
  b = b
  Nobody = Nobody
  MaxFd = 2
  MaxBatch = 64
  MaxRequest = 2
  SendRoom = 1
  MaxSent = 2
  Kind = {"end"}
  Environment = {"halfClose", "close", "refuse"}
CHECK_DEADLOCK FALSE
PROPERTIES Answered ConnectionsAreFreed
