\* Two chunk sizes and a tail; one of the two deployments does not know
\* batches; one attempt fails or is late.
CONSTANTS
  Chunk = 2
  MaxBatch = 2
  Urls = 2
  Legacy = {1}
  NIn = 3
  NOut = 2
  MaxFaults = 1
  MaxLate = 1
SPECIFICATION FairSpec
INVARIANTS TypeOK UploadFaithful DownloadFaithful
PROPERTY BridgeEnds
CHECK_DEADLOCK FALSE
