SPECIFICATION FairSpec
CONSTANTS
  N = 2
  Definitions <- Deciding
  Workers = {w1, w2}
  NoWorker = NoWorker
  Outcomes = {"ok", "review", "retryable", "budget"}
  Cost = 1
  BudgetLimit = 2
  NewBudgets = {1, 3}
  Resolutions = {"approve", "skip", "abort"}
  Targets = {"running"}
  MaxFaults = 1
  MaxOps = 2
INVARIANTS ApprovalGate
PROPERTIES ComesToRest NoRerun OverspendBounded AppendsFold
CHECK_DEADLOCK FALSE
