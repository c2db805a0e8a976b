SPECIFICATION Spec
CONSTANTS
  N = 3
  Putters = {p1}
  Declared = {3}
  Headers = {3}
  MaxSpooled = 2
  MaxFaults = 1
INVARIANT
  HeldBytesAssemble
