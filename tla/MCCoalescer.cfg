\* A batch of two, a queue of one, a large and an invalid request, and one
\* deployment failure.
CONSTANTS
  a = a
  b = b
  c = c
  Items = {a, b, c}
  Large = {c}
  Invalid = {b}
  Prio <- Priority
  MaxBatch = 2
  ChCap = 1
  Urls = 2
  MaxFaults = 2
SPECIFICATION FairSpec
INVARIANTS TypeOK ItemAccounted OwnAnswer
PROPERTIES EveryoneEnds
CHECK_DEADLOCK FALSE
