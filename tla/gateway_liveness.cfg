SPECIFICATION FairSpec
CONSTANTS
  alice = alice  bob = bob
  s1 = s1  s2 = s2
  a1 = a1  a2 = a2  t1 = t1  acc1 = acc1  acc2 = acc2
  Zero = zero  Self = gw  accountImplementation = impl  ZeroKey = zeroKey
  direct = direct  other = other  dear = dear  account = account
  toAccount = toAccount  malformed = malformed  oldVersion = oldVersion
  Sender = {s1, s2}
  Address <- MCAddress
  accountFor <- MCAccountFor
  Env <- MCEnv
  Needs <- MCNeeds
  chainId = 3
  Deployer = alice
  Principal = {alice}
  Message = {direct, other}
  MaxTime = 2
  VersionChoice <- None
  AdapterChoice <- AdaptersOn
  AccountModeChoice <- None
  QuorumChoice <- Quorum2
  StrictChoice <- StrictT1
  AllowChoice <- None
  PauseChoice <- BothWays
  HeirChoice = {}
  OverrideChoice = {0}
PROPERTIES ParkedUntilExpiry PendingResolves
