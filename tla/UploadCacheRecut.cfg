SPECIFICATION Spec
CONSTANTS
  Len = 3
  Chunks <- RecutChunks
  Workers = {w1}
  StepMax = 2
  Budget = 3
  UsedBound = 4
  RandomAccess = TRUE
  Faults <- RecutFaults
INVARIANT
  ClaimedBytesHeld
