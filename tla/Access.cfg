SPECIFICATION Spec
\* Every part's budget of requests, changes and faults runs out.
CHECK_DEADLOCK FALSE
CONSTANTS
  \* SignIn
  SiRequests = {"q1", "q2"}
  SiBudget = 3
  SiTokens = {"s1", "s2"}
  SiMaxStep = 2
  SiMaxLag = 0
  ChallengeTTL = 1
  SessionIdle = 0
  SessionLife = 1
  \* DeviceLogin
  Flows = {"f"}
  Owners = {"u1", "u2"}
  DvRequests = {"q1", "q2"}
  DvBudget = 4
  MaxCreds = 2
  DvMaxClock = 3
  FlowTTL = 1
  FlowPollInterval = 1
  TokenTTL = 2
  \* KeyRotation
  SealedRows = {"totp", "smb"}
  FatalRows = {"totp"}
  MaxVersion = 3
  MaxKeys = 4
  \* SingleSignOn
  Accounts = {"u1", "u2"}
  Identities = {"i1"}
  Attempts = {"f1", "f2"}
  Callbacks = {"c1", "c2"}
  KeyOf <- KeyTable
  Faults = {}
  OiMaxClock = 2
  FlowLifetime = 0
  JWKSTTL = 1
  DiscoveryTTL = 2
  ClockSkew = 0
  \* Permissions
  PeUsers = {"u"}
  PeGroups = {"g"}
  PePerms = {"read", "write"}
  PePaths <- GrantPaths
  PeWants = {{}, {"read", "write"}}
  CacheCap = 1
  Admins = {"a1", "a2"}
  PeChanges = 2
  PeFaults = 1
  GrantPool <- PoolOfGrants
  Seeds <- SeedRows
  \* Accounts
  AcNames = {"ann", "bob"}
  AcRequests = {"q1", "q2"}
  MaxAccounts = 2
  AcSeeds <- SeedAccounts
  AcBudget = 4
  AcEvents = 1
  \* PublicLinks
  Visits = {"h1", "h2"}
  MaxObj = 2
  MaxPw = 2
  BirthTimes = TRUE
  Surfaces <- LinkSurfaces
  LinkSpecs <- LinksMade
  Patches <- LinkPatches
  MaxClock = 2
  \* ShareRegistry
  SrAdmins = {"a", "b"}
  SrNames = {"n1"}
  SrLocs <- Locations
  BackendOf <- BackendTable
  SrConfigs <- ShareConfigs
  MaxShareId = 1
  SrBudgets <- RegistryBudgets
  \* RequestLimiter
  LmClients = {"a", "b"}
  LmCallers = {1, 2}
  LimiterCap = 1
  LimitChoices <- LimitSettings
  LmCalls = 5
  LmChanges = 1
  LmMaxClock = 2
INVARIANTS
  AccessTypeOK
  SpentOnce
  
  
PROPERTY
  StepsKeepFaith
