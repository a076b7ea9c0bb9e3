\* The key goes through the tunnel, and who reads a backend goes on reading.
CONSTANTS
  Keys = {k1}
  Flows = {f1, f2}
  Tunnelled = {k1}
  NoFlow = NoFlow
  MaxPending = 1
  MaxInc = 2
  NUp = 1
  MaxQueue = 1
SPECIFICATION TakingSpec
PROPERTY StopReturns
CHECK_DEADLOCK FALSE
