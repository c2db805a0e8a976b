SPECIFICATION FairSpec
CONSTANTS
  N = 4
  Putters = {p1, p2}
  Declared = {0, 3}
  Headers = {0, 4}
  MaxSpooled = 2
  MaxFaults = 2
INVARIANTS
  TypeOK
  AssembledInOrder
  AckedKept
  PublishedInOrder
PROPERTY
  CursorAdvances
