\* A key that goes through the tunnel; its client repeats its SYN and its data.
CONSTANTS
  Keys = {k1}
  Flows = {f1, f2}
  Tunnelled = {k1}
  NoFlow = NoFlow
  MaxPending = 1
  MaxInc = 1
  NUp = 1
  MaxQueue = 2
SPECIFICATION EngineFairSpec
PROPERTIES EngineUnwinds
CHECK_DEADLOCK FALSE
