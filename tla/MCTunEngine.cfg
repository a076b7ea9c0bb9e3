\* One plain key, used for two connections; a segment, a SYN or a FIN that is not
\* answered is sent again.
CONSTANTS
  Keys = {k1}
  Flows = {f1, f2}
  Tunnelled = {}
  NoFlow = NoFlow
  MaxPending = 2
  MaxInc = 2
  NUp = 2
  MaxQueue = 2
SPECIFICATION EngineSpec
INVARIANTS EngineTypeOK UploadReliable
SYMMETRY FlowSymmetry
CHECK_DEADLOCK FALSE
