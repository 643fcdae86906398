SPECIFICATION LzFairSpec
CONSTANTS
  adm = adm  a1 = a1  lzd = lzd  other = other  call = call  bare = bare
  adapter = adapter  newAdapter = newAdapter  k1 = k1  k2 = k2  k3 = k3  mimic = mimic
  DefaultKey = defaultKey  NoMessage = noMessage
  LzProgram = lzd
  BaseCaller = baseCaller
  None = none
  Beyond = 255
  Program = {lzd, other}
  Call = {call, bare}
  Params <- MCParams
  Body <- MCBody
  Key <- MCKey
  Payer <- MCPayer
  Foreign <- MCForeign
  Peer = {adapter, newAdapter}
  InitChoice <- Stores
  PeerChoice <- Peers
  Authority = {a1}
  Principal = {adm}
  TransportId = {1, 2, 3}
  MaxNonce = 2
  MaxTime = 3
  TransportChoice <- Registrations
  PrepareChoice <- Requests
  PauseChoice = {TRUE, FALSE}
  HeirChoice = {}
INVARIANTS PacketsTellTheRequest PaidForTheLimit OnePacketPerMessage BytesIdentifyRequest EveryAccountReadable
PROPERTIES ExpiringMessagesClose
