SPECIFICATION FairSpec
CHECK_DEADLOCK FALSE
CONSTANTS
  Chunks <- MCChunks
  RingSize = 1
  ReadSize = 1
  EnvSize = 2
  None = None
INVARIANTS RunnerInv
PROPERTIES OutputRelay ExecuteReturns
