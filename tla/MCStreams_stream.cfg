SPECIFICATION FairSpec
CONSTANTS
  Appenders = {a1, a2}
  Viewers = {v1, v2}
  MaxBatch = 2
  MaxVersion = 4
  MaxFaults = 1
INVARIANTS TypeOK NeverAheadOfLog
PROPERTIES StreamCatchesUp
CHECK_DEADLOCK FALSE
