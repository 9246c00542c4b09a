SPECIFICATION Spec
CONSTANTS
  Workers = {w1, w2}
  Operators = {op}
  Steps = {s1}
  Created = Created
  Status = Status
  NoWriter = NoWriter
  NotReading = NotReading
  SnapshotEvery = 2
  MaxBatch = 2
  MaxVersion = 4
  MaxFence = 2
INVARIANTS TypeOK NoLostUpdate ProjectionsMatchLog
PROPERTIES ImplementsJournal
CHECK_DEADLOCK FALSE
