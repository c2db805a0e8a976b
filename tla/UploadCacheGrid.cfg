SPECIFICATION Spec
CONSTANTS
  Len = 4
  Chunks <- GridChunks
  Workers = {w1, w2}
  StepMax = 1
  Budget = 2
  UsedBound = 4
  RandomAccess = TRUE
  Faults <- GridFaults
SYMMETRY Symmetry
INVARIANTS
  TypeOK
  ClaimedBytesHeld
  FrontierDurable
  FrontierCommitted
  PublishedComplete
