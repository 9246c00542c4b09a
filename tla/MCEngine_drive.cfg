SPECIFICATION Spec
CONSTANTS
  N = 3
  Definitions <- Failing
  Workers = {w1, w2}
  NoWorker = NoWorker
  Outcomes = {"ok", "review", "retryable", "fatal"}
  Cost = 0
  BudgetLimit = 9
  NewBudgets = {}
  Resolutions = {"approve", "skip", "abort"}
  Targets = {"paused", "running", "failed"}
  MaxFaults = 2
  MaxOps = 1
SYMMETRY WorkersAlike
INVARIANTS TypeOK ResultsMatchLog DepsBeforeRun ConcurrencyBounded FollowUpsAreMade
PROPERTIES TerminalIsFinal
CHECK_DEADLOCK FALSE
