SPECIFICATION Spec
CONSTANTS
  Client = {a, b}
  a = a
  b = b
  Nobody = Nobody
  MaxFd = 2
  MaxBatch = 64
  MaxRequest = 2
  SendRoom = 1
  MaxSent = 2
  Kind = {"part", "end", "bad"}
  Environment = {"halfClose", "close", "signal", "waitFails", "refuse"}
SYMMETRY Symmetric
CHECK_DEADLOCK FALSE
INVARIANTS TypeOK OneDescriptorEach NothingLeftBehind OutputIsWatched FinishedClientsLoseNothing
PROPERTY ImplementsService
