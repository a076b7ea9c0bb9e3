\* Two requests at a time on one id and three bytes; the one session object is used
\* again when nothing refers to it, so that the id is opened while the alarm sweeps,
\* with an alarm set, and after an eviction.
CONSTANTS
  Requests = {r1, r2}
  Ids = {i1}
  Objs = {o1}
  None = None
  Alarm = Alarm
  Batches <- MCBatches
  Cap = 2
  MaxResp = 2
  MaxChunk = 2
  NBytes = 3
  MaxEvict = 1
SPECIFICATION FairSpec
INVARIANTS TypeOK FlowControl StreamIsWhole NoWriteIsCut SweepWillRun
PROPERTY ClosedUnwinds
CHECK_DEADLOCK FALSE
