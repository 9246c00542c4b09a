SPECIFICATION Spec
CONSTANTS
  Insts = {i1}
  N = 1
  Calls = 2
  Request <- MCRequest
  Registry <- MCRegistry
  Probes <- MCProbes
  Usage <- MCUsage
  Workers = {w1, w2}
  NoWorker = NoWorker
  Limits = {22, 45}
  RaisedLimit = 60
  DailyLimit = 16
  MaxRetries = 1
  MaxFaults = 1
  Days = 1
SYMMETRY Symmetry
INVARIANTS PaidOnce
CHECK_DEADLOCK FALSE
