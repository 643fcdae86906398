SPECIFICATION AdaptersFairSpec
CONSTANTS
  alice = alice  s1 = s1  t1 = t1  acc1 = acc1  wh = wh  lz = lz
  ours = ours  theirs = theirs
  call = call  broken = broken
  r1 = r1
  Zero = zero  Self = gw  accountImplementation = impl  ZeroKey = zeroKey
  Sender = {s1}
  Address <- MCAddress
  accountFor <- MCAccountFor
  Message = {call, broken}
  Env <- MCEnv
  Needs <- MCNeeds
  chainId = 3
  Deployer = alice
  Principal = {alice}
  MaxTime = 0
  VersionChoice <- None
  AdapterChoice <- BothOn
  AccountModeChoice <- None
  QuorumChoice <- Quorum2
  StrictChoice <- None
  AllowChoice <- None
  PauseChoice = {TRUE, FALSE}
  HeirChoice = {}
  OverrideChoice = {0}
  WhAdapter = {wh}
  LzAdapter = {lz}
  Emitter = {ours, theirs}
  SolanaPeer <- MCPeer
  SOLANA_EID = 30168
  Vaa <- OneVaa
  Packet <- Packets
  Relayer = {r1}
  Job <- Jobs
  Ample = 1000000
  AdapterPeerChoice <- LzPeers
  LevelChoice <- None
  AdapterPauseChoice <- None
  AdapterHeirChoice <- None
INVARIANTS NothingSpentInVain
PROPERTIES VotesBacked EndpointDrains VaaLands AttestedTwiceSettles
