SPECIFICATION FairSpec
CONSTANTS
  Workers = {w1, w2}
  Instances = {i1}
  NoWorker = NoWorker
  TTL = 1
  Concurrency <- Slots
  Wide = {w1}
  Timely = FALSE
  MaxFaults = 2
  MaxFence = 6
PROPERTIES RunnableIsDriven
CHECK_DEADLOCK FALSE
