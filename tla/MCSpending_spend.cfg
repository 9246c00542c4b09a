SPECIFICATION Spec
CONSTANTS
  Insts = {i1, i2}
  N = 2
  Calls = 1
  Request <- MCRequest
  Registry <- MCRegistry
  Probes <- MCProbes
  Usage <- MCUsage
  Workers = {w1, w2}
  NoWorker = NoWorker
  Limits = {22, 45}
  RaisedLimit = 60
  DailyLimit = 16
  MaxRetries = 1
  MaxFaults = 1
  Days = 2
SYMMETRY Symmetry
INVARIANTS TypeOK BillIsLogged LedgerIsComplete TenantOverspendBounded OnlyResultsAreReplayed RoutingCorrect
CHECK_DEADLOCK FALSE
