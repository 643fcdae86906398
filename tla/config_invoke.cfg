SPECIFICATION TargetFairSpec
CONSTANTS
  owner1 = owner1
  s1 = s1  s2 = s2
  a1 = a1  a2 = a2  t1 = t1  t2 = t2  acc1 = acc1  acc2 = acc2
  set1 = set1  set2 = set2  inv1 = inv1  again1 = again1  inv2 = inv2  forged = forged
  passedOn = passedOn
  Zero = zero  Self = gw  accountImplementation = impl  ZeroKey = zeroKey
  Sender = {s1, s2}
  Address <- MCAddress
  accountFor <- MCAccountFor
  Env <- MCEnv
  Needs <- MCNeeds
  chainId = 3
  Deployer = owner1
  Principal = {owner1}
  Message = {set1, set2, inv1, again1, inv2, forged, passedOn}
  MaxTime = 0
  VersionChoice <- NoChoice
  AdapterChoice <- AdaptersOn
  AccountModeChoice <- AccountsOn
  QuorumChoice <- NoChoice
  StrictChoice <- NoChoice
  AllowChoice <- NoChoice
  PauseChoice <- NoChoice
  HeirChoice <- NoChoice
  OverrideChoice = {0, 2}
  This = t1
  CONFIGURER = s1
  INVOKER = s2
  Config = {"first", "second"}
  Enabled = {"first", "second"}
  NoConfig = "none"
  Calldata <- MCCalldata
INVARIANTS VersionCountsConfigs VersionIdentifiesConfig AuthoritySeparated
PROPERTIES LatestInvokeRuns
CHECK_DEADLOCK FALSE
