SPECIFICATION Spec
CONSTANTS
  N = 2
  Keyed = {1}
  Reconciled = {2}
  Undoable = {1}
  Workers = {w1, w2}
  NoWorker = NoWorker
  MaxRetries = 1
  MaxFaults = 4
SYMMETRY Symmetry
INVARIANTS TypeOK KeyedOnce ReconciledOnce RecordIsTrue RollbackUndoes
CHECK_DEADLOCK FALSE
