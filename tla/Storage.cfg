SPECIFICATION Spec
\* Every part's budget of changes, requests and faults runs out.
CHECK_DEADLOCK FALSE
CONSTANTS
  \* TransferTree
  Files = {"f", "g"}
  \* OperationQueue
  Ops = {"o1"}
  Slots = {1, 2}
  MaxAttempts = 3
  \* FileTrash
  Paths = {"x", "y"}
  Requests = {"r1", "r2"}
  Writes = {"v"}
  Folder = "d"
  FirstTrees <- TreesBefore
  Bytes <- VersionBytes
  StreamStep = 2
  QuotaCap = 4
  \* DavLocks
  LockPaths <- LockedPaths
  LockUsers = {"u1", "u2"}
  LockHandlers = {"h1", "h2"}
  MaxTokens = 2
  LockAsks <- LocksAsked
  WriteAsks <- WritesSent
  Leases = {9}
  DefaultTimeout = 1
  MaxTimeout = 2
  LocksPerUser = 2
  MaxLockClock = 2
  \* NodeIds
  Idents <- IdentSet
  Derive <- DeriveTable
  NiAttempts = 2
  NiDrops = 1
  \* ChangeFeed
  Conns = {"c1"}
  CfPaths = {"d", "e"}
  CfQueue = 1
  MaxConnsPerUser = 2
  CfChanges = 2
  CfFlips = 1
  \* DirRollups
  DrDirs = {"root", "d"}
  ParentOf <- Above
  Walks = {"w1"}
  DrChanges = 2
  \* SearchIndex
  SeDirs = {"d1", "d2"}
  SeQueue = 1
  Ceiling = 1
  SeChanges = 2
  SeToggles = 1
INVARIANTS
  StorageTypeOK
  
  
  ChangesReach
PROPERTIES
  KeepsPromise
  NeverReplaced
