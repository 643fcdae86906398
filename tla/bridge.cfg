SPECIFICATION BridgeSpec
CONSTANTS
  alice = alice  bob = bob  adm = adm  s1 = s1  t1 = t1  acc1 = acc1  wh = wh  lz = lz
  emitter = emitter  oapp = oapp  theirs = theirs
  lzd = lzd  call = call  other = other
  Zero = zero  Self = gw  accountImplementation = impl  ZeroKey = zeroKey
  Sender = {s1}
  Address <- MCAddress
  accountFor <- MCAccountFor
  Message <- MCMessage
  Env <- MCEnv
  Needs <- MCNeeds
  chainId = 3
  Deployer = alice
  Principal = {alice, bob}
  MaxTime = 0
  VersionChoice <- None
  AdapterChoice <- BothWays
  AccountModeChoice <- None
  QuorumChoice <- Quorum2
  StrictChoice <- None
  AllowChoice <- None
  PauseChoice = {}
  HeirChoice = {}
  OverrideChoice = {0}
  WhAdapter = {wh}
  LzAdapter = {lz}
  Emitter = {emitter, oapp, theirs}
  SolanaPeer <- MCPeer
  SOLANA_EID = 30168
  Vaa <- MCVaa
  Packet <- MCPacket
  Relayer = {}
  Job <- NoJobs
  Ample = 1000000
  AdapterPeerChoice <- None
  LevelChoice <- LevelsBothWays
  AdapterPauseChoice <- WhOff
  AdapterHeirChoice <- WhHeir
  TransportId = {1, 2}
  Program = {lzd}
  DefaultKey = defaultKey
  NoMessage = noMessage
  MaxNonce = 1
  SrcCall = {call, other}
  Params <- MCParams
  SrcPrincipal = {adm}
  SrcMaxTime = 2
  TransportChoice <- Registrations
  PrepareChoice <- Requests
  SrcPauseChoice = {}
  SrcHeirChoice = {}
  TargetOf <- MCTargetOf
  SelectorOf <- MCSelectorOf
  OurEmitter = emitter
  OurSender = oapp
INVARIANTS EveryVoteWasSent BitsCoverVotes
PROPERTIES QuorumCarried ImplementsRemoteCall
