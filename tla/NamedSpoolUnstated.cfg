SPECIFICATION Spec
CONSTANTS
  N = 3
  Putters = {p1}
  Declared = {0}
  Headers = {0}
  MaxSpooled = 2
  MaxFaults = 0
INVARIANT
  PublishedHoldsAcked
