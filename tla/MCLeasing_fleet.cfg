SPECIFICATION Spec
CONSTANTS
  Workers = {w1, w2}
  Instances = {i1, i2}
  NoWorker = NoWorker
  TTL = 1
  Concurrency <- Slots
  Wide = {w1}
  Timely = FALSE
  MaxFaults = 2
  MaxFence = 3
SYMMETRY Symmetry
INVARIANTS TypeOK FencesDistinct SlotsBounded
PROPERTIES FenceMonotonic NoReleaseUnderDrive
CHECK_DEADLOCK FALSE
