SPECIFICATION Spec
CONSTANTS
  a1 = a1  a2 = a2  lzd = lzd
  small = small  swap = swap  cheap = cheap
  DefaultKey = defaultKey  NoMessage = noMessage
  Program = {lzd}
  Call = {small, swap, cheap}
  Params <- MCParams
  Authority = {a1, a2}
  Principal = {adm, heir}
  TransportId = {1, 2, 9}
  MaxNonce = 2
  MaxTime = 2
  TransportChoice <- BothTransports
  PrepareChoice <- Requests
  PauseChoice = {TRUE, FALSE}
  HeirChoice = {heir}
INVARIANTS TypeOK CarriedOnce OneEnvelopePerNonce NoncesGapless BitsTellTheWire AbandonedIsDead
