SPECIFICATION FairSpec
CHECK_DEADLOCK FALSE
CONSTANTS
  h1 = h1
  h2 = h2
  k1 = k1
  Requests = {h1, h2}
  Channels = {k1}
  Arrivals <- Apart
  Restarts = 1
  WireCap = 2
  Messages <- TwoToKernel
  None = None
INVARIANTS JupyterInv RefusedForCause AnsweringClientIsKept
PROPERTIES BridgeEnds SilentClientIsDropped
