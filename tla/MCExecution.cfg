SPECIFICATION FairSpec
CONSTANTS MaxChunks <- MoreStdout
          PipeCap = 1
          TailCap = 2
          Flaky = TRUE
INVARIANTS OutputInv
PROPERTIES OutputInOrder NobodyIsHeldUp
CHECK_DEADLOCK FALSE
