SPECIFICATION Spec
\* Every part's budget of saves, writes, crashes and faults runs out.
CHECK_DEADLOCK FALSE
CONSTANTS
  \* Listener
  LsSavers = {"a", "b"}
  LsHosts = {"any", "lan"}
  DefaultHost = "any"
  LsNames = {"n", "m"}
  Pinned = FALSE
  LsCrashes = 2
  LsSaves = 3
  \* Thumbnails
  SourceOf <- Images
  Native = {"n1"}
  Mobile = {"m1"}
  ThWorkers = {1}
  Services = {1, 2}
  MaxPixels = 2
  ThEvents = 1
  ThToggles = 1
  \* ServerLife
  SlProcs = {"p1", "p2"}
  Editors = {"p2"}
  Known <- Releases
  SlMaxFaults = 2
  SlCrashes = 1
  SlBusy = 1
INVARIANTS
  ServerTypeOK
  LivesEndInOrder
  
PROPERTIES
  
  Converges
