SPECIFICATION FairSpec
CONSTANTS
  Len = 4
  Chunks <- AnyChunks
  Workers = {w1, w2}
  StepMax = 2
  Budget = 2
  UsedBound = 4
  RandomAccess = FALSE
  Faults <- SequentialFaults
INVARIANTS
  ClaimedBytesHeld
  PublishedComplete
  SpoolCounterExact

  
