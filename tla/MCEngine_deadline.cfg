SPECIFICATION FairSpec
CONSTANTS
  N = 2
  Definitions <- Gates
  Workers = {w1}
  NoWorker = NoWorker
  Outcomes = {"ok", "retryable"}
  Cost = 0
  BudgetLimit = 9
  NewBudgets = {}
  Resolutions = {"approve", "skip", "abort"}
  Targets = {"paused"}
  MaxFaults = 1
  MaxOps = 1
PROPERTIES DeadlineFires
CHECK_DEADLOCK FALSE
