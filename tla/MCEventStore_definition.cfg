SPECIFICATION Spec
CONSTANTS
  Workers = {w1, w2}
  Operators = {op}
  Steps = {s1, s2}
  Created = Created
  Status = Status
  NoWriter = NoWriter
  NotReading = NotReading
  SnapshotEvery = 2
  MaxBatch = 2
  MaxVersion = 2
  MaxFence = 1
INVARIANTS ViewKnowsDefinition
CHECK_DEADLOCK FALSE
SYMMETRY Symmetry
