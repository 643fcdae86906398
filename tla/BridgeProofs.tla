----------------------------- MODULE BridgeProofs -----------------------------
(***************************************************************************)
(* Theorems about Bridge, for any number of senders, calls, transports,    *)
(* adapters and attestations.  The two chains share no variable, so the    *)
(* invariants of each hold here; what is added is how a vote follows from  *)
(* a dispatch, and that the whole is a remote call.                        *)
(***************************************************************************)
EXTENDS Bridge, AdaptersProofs

\* The outbox again, with what OutboxProofs shows of it.
SrcP == INSTANCE OutboxProofs WITH
  Authority <- Sender, Call <- SrcCall, Principal <- SrcPrincipal, MaxTime <- SrcMaxTime,
  PauseChoice <- SrcPauseChoice, HeirChoice <- SrcHeirChoice,
  admin <- srcAdmin, pending_admin <- srcPendingAdmin, paused <- srcPaused, now <- srcNow

(***************************************************************************)
(* Src and SrcP are one program.                                           *)
(***************************************************************************)
LEMMA SameAssumption == SrcP!OutboxAssumption
BY BridgeAssumption
   DEF Src!OutboxAssumption, SrcP!OutboxAssumption,
       Src!TRANSPORT_WORMHOLE, SrcP!TRANSPORT_WORMHOLE,
       Src!TRANSPORT_LAYERZERO, SrcP!TRANSPORT_LAYERZERO,
       Src!SendParams, SrcP!SendParams, Src!PreparedMessage, SrcP!PreparedMessage,
       Src!Envelope, SrcP!Envelope, Src!Nonce, SrcP!Nonce,
       Src!Bit, SrcP!Bit, Src!MAX_TRANSPORT_ID, SrcP!MAX_TRANSPORT_ID

LEMMA SameInit == Src!Init => SrcP!Init
BY DEF Src!Init, SrcP!Init, Src!Nonce, SrcP!Nonce

LEMMA SameNext == Src!Next => SrcP!Next
<1>1. \A p : Src!Administer(p) => SrcP!Administer(p)
  BY DEF Src!Administer, SrcP!Administer, Src!Initialize, SrcP!Initialize,
         Src!SetTransport, SrcP!SetTransport, Src!SetPaused, SrcP!SetPaused,
         Src!TransferAdmin, SrcP!TransferAdmin, Src!AcceptAdmin, SrcP!AcceptAdmin,
         Src!Initialized, SrcP!Initialized, Src!config, SrcP!config
<1>2. \A a, c, expiry, ts :
        Src!Prepare(a, c, expiry, ts) => SrcP!Prepare(a, c, expiry, ts)
  BY DEF Src!Prepare, SrcP!Prepare, Src!Initialized, SrcP!Initialized,
         Src!Acceptable, SrcP!Acceptable, Src!Encode, SrcP!Encode, Src!config, SrcP!config,
         Src!MAX_CALLDATA, SrcP!MAX_CALLDATA, Src!MODE_ACCOUNT, SrcP!MODE_ACCOUNT,
         Src!MIN_GAS_LIMIT, SrcP!MIN_GAS_LIMIT, Src!CHAIN_SOLANA, SrcP!CHAIN_SOLANA
<1>3. \A m, t : Src!Markable(m, t) => SrcP!Markable(m, t)
  BY DEF Src!Markable, SrcP!Markable, Src!Expired, SrcP!Expired
<1>4. \A a, n : Src!Dispatch(a, n) => SrcP!Dispatch(a, n)
  BY <1>3
     DEF Src!Dispatch, SrcP!Dispatch, Src!DispatchViaWormhole, SrcP!DispatchViaWormhole,
         Src!DispatchViaLayerZero, SrcP!DispatchViaLayerZero,
         Src!MarkDispatched, SrcP!MarkDispatched, Src!HasMask, SrcP!HasMask,
         Src!MAX_TRANSPORT_ID, SrcP!MAX_TRANSPORT_ID,
         Src!TRANSPORT_WORMHOLE, SrcP!TRANSPORT_WORMHOLE,
         Src!TRANSPORT_LAYERZERO, SrcP!TRANSPORT_LAYERZERO,
         Src!Exists, SrcP!Exists, Src!Mark, SrcP!Mark, Src!Carry, SrcP!Carry,
         Src!config, SrcP!config
<1>5. \A a, n : Src!Finalize(a, n) => SrcP!Finalize(a, n)
  BY DEF Src!Finalize, SrcP!Finalize, Src!Exists, SrcP!Exists, Src!Finalizable, SrcP!Finalizable,
         Src!Expired, SrcP!Expired, Src!config, SrcP!config
<1>6. Src!Tick => SrcP!Tick
  BY DEF Src!Tick, SrcP!Tick, Src!config, SrcP!config
<1> QED
  BY <1>1, <1>2, <1>4, <1>5, <1>6, Zenon DEF Src!Next, SrcP!Next, Src!Nonce, SrcP!Nonce

(***************************************************************************)
(* Each chain takes its own steps.                                         *)
(***************************************************************************)
LEMMA BridgeSteps ==
  ASSUME [BridgeNext]_bvars
  PROVE  /\ [AdaptersNext]_avars
         /\ [Next]_vars
         /\ [SrcP!Next]_(SrcP!vars)
         /\ UNCHANGED avars \/ UNCHANGED svars
<1>1. CASE Src!Next /\ UNCHANGED avars
  BY <1>1, SameNext DEF avars
<1>2. ASSUME UNCHANGED svars PROVE UNCHANGED SrcP!vars
  BY <1>2 DEF svars, SrcP!vars, SrcP!config
<1>3. CASE (Guardians \/ Network \/ DestinationStep) /\ UNCHANGED svars
  <2>1. AdaptersNext
    BY <1>3 DEF Guardians, Network, AdaptersNext, Attest
  <2> QED
    BY <1>2, <1>3, <2>1, AdaptersSteps
<1>4. CASE UNCHANGED bvars
  BY <1>2, <1>4, AdaptersSteps DEF bvars
<1> QED
  BY <1>1, <1>3, <1>4 DEF BridgeNext

\* The destination behaves as Adapters says, whatever the outbox carries.
THEOREM BridgeRefinesAdapters == BridgeSpec => AdaptersSpec
<1>1. BridgeInit => AdaptersInit
  BY DEF BridgeInit
<1>2. [BridgeNext]_bvars => [AdaptersNext]_avars
  BY BridgeSteps
<1> QED
  BY <1>1, <1>2, PTL DEF BridgeSpec, AdaptersSpec

\* The outbox behaves as Outbox says, whatever the destination does.
THEOREM BridgeRefinesOutbox == BridgeSpec => Src!Spec
<1>1. BridgeInit => Src!Init
  BY DEF BridgeInit
<1>2. [BridgeNext]_bvars => [Src!Next]_(Src!vars)
  BY DEF BridgeNext, bvars, svars, Src!vars, Src!config
<1> QED
  BY <1>1, <1>2, PTL DEF BridgeSpec, Src!Spec

(***************************************************************************)
(* The gateway: what runs was voted for, and how an effect comes about.    *)
(***************************************************************************)
Voted == \A m \in Message : status[m] \in {"Executed", "Failed"} => confirmedBy[m] # {}

LEMMA VotedStep ==
  ASSUME IInv, Voted, [Next]_vars
  PROVE  Voted'
<1>1. status \in [Message -> Status] /\ confirmedBy \in [Message -> SUBSET Address]
  BY DEF IInv, TypeOK
<1>2. ASSUME UNCHANGED ledger PROVE Voted'
  BY <1>2 DEF ledger, Voted
<1>3. ASSUME NEW a \in Address, NEW m \in Message, Deliver(a, m) PROVE Voted'
  <2>1. CASE Terminal(m)
    <3>1. status' = [status EXCEPT ![m] = "Rejected"] /\ confirmedBy' = confirmedBy
      BY <1>3, <2>1 DEF Deliver, Settle
    <3> QED
      BY <1>1, <3>1 DEF Voted
  <2>2. CASE ~Terminal(m)
    <3>1. confirmedBy' = [confirmedBy EXCEPT ![m] = @ \cup {a}]
      BY <1>3, <2>2 DEF Deliver, Vote
    <3>2. \A k \in Message \ {m} : status'[k] = status[k]
      BY <1>1, <1>3 DEF Deliver, Settle, Run
    <3> QED
      BY <1>1, <3>1, <3>2 DEF Voted
  <2> QED
    BY <2>1, <2>2
<1>4. ASSUME NEW m \in Message, NEW g \in OverrideChoice, Retry(m, g) PROVE Voted'
  <2>1. /\ status[m] = "Failed" /\ confirmedBy' = confirmedBy
        /\ \A k \in Message \ {m} : status'[k] = status[k]
    BY <1>1, <1>4 DEF Retry, Settle, Run
  <2> QED
    BY <2>1 DEF Voted
<1>5. ASSUME NEW c \in running, NEW ok \in BOOLEAN, Return(c, ok) PROVE Voted'
  <2>1. c.msg \in Message /\ status[c.msg] = "Executed"
    BY DEF IInv, TypeOK, MarkedFirst
  <2>2. /\ confirmedBy' = confirmedBy
        /\ \A k \in Message \ {c.msg} : status'[k] = status[k]
    BY <1>1, <1>5 DEF Return
  <2> QED
    BY <2>1, <2>2 DEF Voted
<1>6. ASSUME NEW p \in Principal, SetPolicy(p) \/ SetAuth(p) PROVE Voted'
  BY <1>2, <1>6, OwnerIdle
<1>7. CASE Tick \/ UNCHANGED vars
  BY <1>2, <1>7 DEF Tick, vars
<1> QED
  BY <1>3, <1>4, <1>5, <1>6, <1>7 DEF Next

\* Only a call that returns has an effect, its first.
LEMMA EffectStep ==
  ASSUME IInv, [Next]_vars, effects' # effects
  PROVE  \E m \in Message :
           /\ status[m] = "Executed"
           /\ effects[m] = 0
           /\ effects' = [effects EXCEPT ![m] = 1]
<1>1. ASSUME NEW m \in Message, NEW s, Settle(m, s) PROVE FALSE
  BY <1>1 DEF Settle, calls
<1>2. ASSUME NEW m \in Message, NEW gas, Run(m, gas) PROVE FALSE
  BY <1>2 DEF Run
<1>3. ASSUME NEW a \in Address, NEW m \in Message, Deliver(a, m) PROVE FALSE
  BY <1>1, <1>2, <1>3 DEF Deliver
<1>4. ASSUME NEW m \in Message, NEW g \in OverrideChoice, Retry(m, g) PROVE FALSE
  BY <1>1, <1>2, <1>4 DEF Retry
<1>5. ASSUME NEW p \in Principal, SetPolicy(p) \/ SetAuth(p) PROVE FALSE
  BY <1>5, OwnerIdle DEF calls
<1>6. ASSUME Tick \/ UNCHANGED vars PROVE FALSE
  BY <1>6 DEF Tick, vars, calls
<1>7. PICK c \in running, ok \in BOOLEAN : Return(c, ok)
  BY <1>3, <1>4, <1>5, <1>6 DEF Next
<1>8. /\ c.msg \in Message /\ effects \in [Message -> Nat]
      /\ c.msg \in Open /\ status[c.msg] = "Executed"
  BY DEF IInv, TypeOK, MarkedFirst, Open
<1>9. effects[c.msg] = 0
  BY <1>8 DEF IInv, ExecutedOnce
<1>10. effects' = [effects EXCEPT ![c.msg] = @ + 1]
  BY <1>7 DEF Return
<1>11. effects' = [effects EXCEPT ![c.msg] = 1]
  BY <1>8, <1>9, <1>10
<1> QED
  BY <1>8, <1>9, <1>11, Zenon

(***************************************************************************)
(* The invariant of the two chains.                                        *)
(***************************************************************************)
\* The outbox has carried m over Wormhole, over LayerZero.
OnWormhole(m) == m \in SrcP!Carried(SrcP!TRANSPORT_WORMHOLE)
OnLayerZero(m) == m \in SrcP!Carried(SrcP!TRANSPORT_LAYERZERO)

\* What is attested in the outbox's name was carried by it.
Attested ==
  /\ \A v \in signed :
       v.emitterChainId = WORMHOLE_CHAIN_ID_SOLANA /\ v.emitterAddress = OurEmitter
         => OnWormhole(v.payload)
  /\ \A p \in verified \cup cleared :
       p.srcEid = SOLANA_EID /\ p.sender = OurSender => OnLayerZero(p.message)

PeersPinned == solanaPeer = SolanaPeer

\* The transport that adapter a receives from has carried m.
CarriedFor(a, m) == IF a \in WhAdapter THEN OnWormhole(m) ELSE OnLayerZero(m)

CarriedVotes ==
  \A m \in Message : \A a \in confirmedBy[m] : a \in Adapter /\ CarriedFor(a, m)

BInv ==
  /\ IInv
  /\ AInv
  /\ SrcP!OInv
  /\ Voted
  /\ VotesCounted
  /\ PeersPinned
  /\ Attested
  /\ CarriedVotes

LEMMA BInvInit == BridgeInit => BInv
<1> SUFFICES ASSUME BridgeInit PROVE BInv
  OBVIOUS
<1>1. AdaptersInit /\ Init
  BY DEF BridgeInit, AdaptersInit
<1>2. IInv /\ AInv
  BY <1>1, IInvInit, AInvInit
<1>3. SrcP!OInv
  BY SameInit, SameAssumption, SrcP!OInvInit DEF BridgeInit
<1>4. Voted /\ CarriedVotes
  BY <1>1 DEF Init, Voted, CarriedVotes
<1>5. VotesCounted
  BY <1>1, VotesInit
<1>6. PeersPinned /\ Attested
  BY <1>1 DEF AdaptersInit, PeersPinned, Attested
<1> QED
  BY <1>2, <1>3, <1>4, <1>5, <1>6 DEF BInv

\* An owner may only confirm the peers the bridge is deployed with.
LEMMA PeersStep ==
  ASSUME AdaptersTypeOK, PeersPinned, [AdaptersNext]_avars
  PROVE  PeersPinned'
<1>1. ASSUME UNCHANGED solanaPeer PROVE PeersPinned'
  BY <1>1 DEF PeersPinned
<1>2. ASSUME NEW p \in Principal, NEW c \in AdapterPeerChoice, SetSolanaPeer(p, c[1], c[2])
      PROVE  PeersPinned'
  <2>1. c[1] \in Adapter /\ c[2] = SolanaPeer[c[1]]
    BY AdaptersAssumption, BridgeAssumption
  <2>2. solanaPeer' = [solanaPeer EXCEPT ![c[1]] = c[2]] /\ solanaPeer \in [Adapter -> Emitter]
    BY <1>2 DEF SetSolanaPeer, AdaptersTypeOK
  <2> QED
    BY <2>1, <2>2 DEF PeersPinned
<1>3. ASSUME NEW p \in Principal, ConfigureAdapter(p) PROVE PeersPinned'
  BY <1>1, <1>2, <1>3 DEF ConfigureAdapter, SetMinConsistencyLevel, SetAdapterPaused,
       TransferAdapterOwnership, AcceptAdapterOwnership, SetAdapterAuth
<1>4. ASSUME NEW a \in WhAdapter, NEW v \in Vaa, NEW gas, ReceiveMessage(a, v, gas)
      PROVE  UNCHANGED solanaPeer
  BY <1>4 DEF ReceiveMessage, contracts
<1>5. ASSUME NEW r \in Relayer, Start(r) \/ RelayerStep(r) PROVE UNCHANGED solanaPeer
  <2>1. Job[r][1] \in WhAdapter /\ Job[r][2] \in Vaa
    BY AdaptersAssumption
  <2> QED
    BY <1>4, <1>5, <2>1 DEF Start, RelayerStep, Poll, Simulate, Submit, Mined, Off, contracts
<1>6. CASE Attest \/ UNCHANGED avars
  BY <1>1, <1>6 DEF Attest, Sign, Verify, contracts, avars, outside
<1>7. CASE Arrive
  BY <1>1, <1>4, <1>7 DEF Arrive, LzReceive, LzStarve, contracts
<1>8. CASE GatewayStep
  BY <1>1, <1>8 DEF GatewayStep, outside, contracts
<1> QED
  BY <1>1, <1>3, <1>5, <1>6, <1>7, <1>8 DEF AdaptersNext, DestinationStep

\* The destination signs and verifies nothing.
LEMMA NothingAttested ==
  ASSUME DestinationStep
  PROVE  signed' = signed /\ verified' \cup cleared' \subseteq verified \cup cleared
<1>1. ASSUME NEW a \in WhAdapter, NEW v \in Vaa, NEW gas, ReceiveMessage(a, v, gas)
      PROVE  UNCHANGED <<signed, verified, cleared>>
  BY <1>1 DEF ReceiveMessage
<1>2. ASSUME UNCHANGED transports PROVE UNCHANGED <<signed, verified, cleared>>
  BY <1>2 DEF transports
<1>3. ASSUME NEW p \in Packet, NEW gas, LzReceive(p, gas), p \in verified
      PROVE  signed' = signed /\ verified' \cup cleared' \subseteq verified \cup cleared
  BY <1>3 DEF LzReceive
<1>4. CASE Arrive
  BY <1>1, <1>2, <1>3, <1>4 DEF Arrive, LzReceive, Takes, LzStarve
<1>5. ASSUME NEW r \in Relayer, Start(r) \/ RelayerStep(r)
      PROVE  UNCHANGED <<signed, verified, cleared>>
  <2>1. Job[r][1] \in WhAdapter /\ Job[r][2] \in Vaa
    BY AdaptersAssumption
  <2> QED
    BY <1>1, <1>2, <1>5, <2>1 DEF Start, RelayerStep, Poll, Simulate, Submit, Mined, Off
<1>6. ASSUME NEW p \in Principal, ConfigureAdapter(p) PROVE UNCHANGED <<signed, verified, cleared>>
  BY <1>2, <1>6, ConfigureFrame
<1>7. CASE GatewayStep
  BY <1>2, <1>7 DEF GatewayStep, outside
<1> QED
  BY <1>4, <1>5, <1>6, <1>7 DEF DestinationStep

\* What the outbox has carried it has carried for good.
LEMMA CarriedStays ==
  ASSUME SrcP!OInv, [SrcP!Next]_(SrcP!vars)
  PROVE  /\ \A t \in TransportId : SrcP!Carried(t) \subseteq SrcP!Carried(t)'
         /\ prepared \subseteq prepared'
         /\ {SrcP!TRANSPORT_WORMHOLE, SrcP!TRANSPORT_LAYERZERO} \subseteq TransportId
<1>1. SrcP!TypeOK
  BY DEF SrcP!OInv
<1>2. {SrcP!TRANSPORT_WORMHOLE, SrcP!TRANSPORT_LAYERZERO} \subseteq TransportId
  BY SameAssumption DEF SrcP!OutboxAssumption
<1> QED
  BY <1>1, <1>2, SrcP!Grows, SameAssumption

LEMMA AttestedStep ==
  ASSUME BInv, [BridgeNext]_bvars
  PROVE  Attested'
<1>1. /\ \A m : OnWormhole(m) => OnWormhole(m)'
      /\ \A m : OnLayerZero(m) => OnLayerZero(m)'
  BY BridgeSteps, CarriedStays DEF BInv, OnWormhole, OnLayerZero
<1>2. ASSUME signed' = signed, verified' \cup cleared' \subseteq verified \cup cleared
      PROVE  Attested'
  BY <1>1, <1>2 DEF BInv, Attested
<1>3. CASE Guardians /\ UNCHANGED svars
  <2>1. PICK v \in Vaa : Posted(v) /\ Sign(v)
    BY <1>3 DEF Guardians
  <2>2. v.emitterChainId = WORMHOLE_CHAIN_ID_SOLANA /\ v.emitterAddress = OurEmitter
          => OnWormhole(v.payload)
    BY <2>1 DEF Posted, CarriedAt, OnWormhole, SrcP!Carried,
         Src!TRANSPORT_WORMHOLE, SrcP!TRANSPORT_WORMHOLE
  <2>3. signed' = signed \cup {v} /\ verified' = verified /\ cleared' = cleared
    BY <2>1 DEF Sign
  <2> QED
    BY <1>1, <2>2, <2>3 DEF BInv, Attested
<1>4. CASE Network /\ UNCHANGED svars
  <2>1. PICK p \in Packet : Sent(p) /\ Verify(p)
    BY <1>4 DEF Network
  <2>2. p.srcEid = SOLANA_EID /\ p.sender = OurSender => OnLayerZero(p.message)
    BY <2>1 DEF Sent, CarriedAt, OnLayerZero, SrcP!Carried,
         Src!TRANSPORT_LAYERZERO, SrcP!TRANSPORT_LAYERZERO
  <2>3. signed' = signed /\ verified' = verified \cup {p} /\ cleared' = cleared
    BY <2>1 DEF Verify
  <2> QED
    BY <1>1, <2>2, <2>3 DEF BInv, Attested
<1>5. CASE DestinationStep
  BY <1>2, <1>5, NothingAttested
<1>6. CASE UNCHANGED avars
  BY <1>2, <1>6 DEF avars, outside, transports
<1> QED
  BY <1>3, <1>4, <1>5, <1>6 DEF BridgeNext, bvars

\* A vote is bought with an attestation, and that was carried.
LEMMA CarriedVotesStep ==
  ASSUME BInv, [BridgeNext]_bvars, Attested'
  PROVE  CarriedVotes'
<1>1. [AdaptersNext]_avars /\ [SrcP!Next]_(SrcP!vars)
  BY BridgeSteps
<1>2. /\ \A m : OnWormhole(m) => OnWormhole(m)'
      /\ \A m : OnLayerZero(m) => OnLayerZero(m)'
  BY <1>1, CarriedStays DEF BInv, OnWormhole, OnLayerZero
<1> SUFFICES ASSUME NEW m \in Message, NEW a \in confirmedBy'[m]
             PROVE  a \in Adapter /\ CarriedFor(a, m)'
  BY DEF CarriedVotes
<1>3. CASE a \in confirmedBy[m]
  BY <1>2, <1>3 DEF BInv, CarriedVotes, CarriedFor
<1>4. CASE a \notin confirmedBy[m]
  <2>1. Bought(a, m)
    BY <1>1, <1>4, StepBuys DEF BInv
  <2>2. CASE \E v \in signed :
               /\ v.payload = m
               /\ v.emitterChainId = WORMHOLE_CHAIN_ID_SOLANA
               /\ v.emitterAddress = solanaPeer[a]
               /\ a \in WhAdapter
    <3>1. a \in Adapter /\ solanaPeer[a] = OurEmitter
      BY <2>2, BridgeAssumption DEF BInv, PeersPinned, Adapter
    <3>2. OnWormhole(m)
      BY <2>2, <3>1 DEF BInv, Attested
    <3> QED
      BY <1>2, <2>2, <3>1, <3>2 DEF CarriedFor
  <2>3. CASE \E p \in cleared' : p.message = m /\ p.receiver = a
               /\ p.srcEid = SOLANA_EID /\ p.sender = solanaPeer[a]
    <3>1. PICK p \in cleared' : p.message = m /\ p.receiver = a
                                /\ p.srcEid = SOLANA_EID /\ p.sender = solanaPeer[a]
      BY <2>3
    <3>2. cleared' \subseteq Packet
      BY <1>1, AdaptersTypeStep DEF BInv, AInv, AdaptersTypeOK
    <3>3. a \in LzAdapter /\ a \notin WhAdapter
      BY <3>1, <3>2, AdaptersAssumption DEF LzPacket
    <3>4. a \in Adapter /\ solanaPeer[a] = OurSender
      BY <3>3, BridgeAssumption DEF BInv, PeersPinned, Adapter
    <3>5. OnLayerZero(m)'
      BY <3>1, <3>4 DEF Attested
    <3> QED
      BY <3>3, <3>4, <3>5 DEF CarriedFor
  <2> QED
    BY <2>1, <2>2, <2>3 DEF Bought
<1> QED
  BY <1>3, <1>4

LEMMA BInvStep == BInv /\ [BridgeNext]_bvars => BInv'
<1> SUFFICES ASSUME BInv, [BridgeNext]_bvars PROVE BInv'
  OBVIOUS
<1>1. [AdaptersNext]_avars /\ [Next]_vars /\ [SrcP!Next]_(SrcP!vars)
  BY BridgeSteps
<1>2. IInv' /\ AInv' /\ Voted'
  BY <1>1, IInvStep, AInvStep, VotedStep DEF BInv
<1>3. VotesCounted'
  BY <1>1, VotesStep DEF BInv, IInv
<1>4. SrcP!OInv'
  BY <1>1, SrcP!OInvStep, SameAssumption DEF BInv
<1>5. PeersPinned'
  BY <1>1, PeersStep DEF BInv, AInv
<1>6. Attested'
  BY AttestedStep
<1>7. CarriedVotes'
  BY <1>6, CarriedVotesStep
<1> QED
  BY <1>2, <1>3, <1>4, <1>5, <1>6, <1>7 DEF BInv

THEOREM BridgeInvariance == BridgeSpec => []BInv
BY BInvInit, BInvStep, PTL DEF BridgeSpec

(***************************************************************************)
(* What follows.                                                           *)
(***************************************************************************)
LEMMA SameCarried ==
  /\ \A t : Src!Carried(t) = SrcP!Carried(t)
  /\ Src!TRANSPORT_WORMHOLE = SrcP!TRANSPORT_WORMHOLE
  /\ Src!TRANSPORT_LAYERZERO = SrcP!TRANSPORT_LAYERZERO
BY DEF Src!Carried, SrcP!Carried, Src!TRANSPORT_WORMHOLE, SrcP!TRANSPORT_WORMHOLE,
       Src!TRANSPORT_LAYERZERO, SrcP!TRANSPORT_LAYERZERO

LEMMA VoteSent ==
  ASSUME BInv, NEW m \in Message, NEW a \in confirmedBy[m]
  PROVE  /\ TransportOf(a) \in TransportId
         /\ m \in SrcP!Carried(TransportOf(a))
         /\ \E p \in prepared : p.envelope = m /\ TransportOf(a) \in p.expected
<1>1. TransportOf(a) \in TransportId /\ m \in SrcP!Carried(TransportOf(a))
  BY SameCarried, SameAssumption
     DEF BInv, CarriedVotes, CarriedFor, OnWormhole, OnLayerZero, TransportOf,
         SrcP!OutboxAssumption
<1> QED
  BY <1>1 DEF BInv, SrcP!OInv, SrcP!WirePrepared

\* Whatever the two chains and everybody around them do, every vote is the
\* trace of a dispatch its sender asked for.
THEOREM VotesWereSent == BridgeSpec => []EveryVoteWasSent
<1>1. BInv => EveryVoteWasSent
  BY VoteSent, SameCarried DEF EveryVoteWasSent
<1> QED
  BY <1>1, BridgeInvariance, PTL

\* While the account exists it shows every transport that got a vote for it.
THEOREM BitsCover == BridgeSpec => []BitsCoverVotes
<1>1. ASSUME BInv, NEW m \in Message, NEW a \in confirmedBy[m], Src!Exists(m.sender, m.nonce)
      PROVE  TransportOf(a) \in message[m.sender][m.nonce].dispatched
  <2> DEFINE acc == message[m.sender][m.nonce]
  <2>1. PICK p \in prepared : p.envelope = m
    BY <1>1, VoteSent
  <2>2. m.sender \in Sender /\ m.nonce \in SrcP!Nonce
    BY BridgeAssumption DEF Src!Envelope, Src!Nonce, SrcP!Nonce
  <2>3. SrcP!Exists(m.sender, m.nonce)
    BY <1>1 DEF Src!Exists, SrcP!Exists
  <2>4. /\ acc.envelope.sender = m.sender /\ acc.envelope.nonce = m.nonce
        /\ SrcP!Entry(acc) \in prepared
    BY <1>1, <2>2, <2>3 DEF BInv, SrcP!OInv, SrcP!AccountsTrue
  <2>5. SrcP!Entry(acc).envelope = acc.envelope
    BY DEF SrcP!Entry
  <2>6. acc.envelope = m
    BY <1>1, <2>1, <2>4, <2>5 DEF BInv, SrcP!OInv, SrcP!KeysOnce, SrcP!SameKey
  <2>7. acc.dispatched = SrcP!CarriedBy(m)
    BY <1>1, <2>2, <2>3, <2>6 DEF BInv, SrcP!OInv, SrcP!BitsTellTheWire
  <2> QED
    BY <1>1, <2>7, VoteSent DEF SrcP!CarriedBy
<1>2. BInv => BitsCoverVotes
  BY <1>1 DEF BitsCoverVotes
<1> QED
  BY <1>2, BridgeInvariance, PTL

\* The transports behind the votes for a message, no two behind one, have
\* carried it.
VotesAreTransports ==
  \A m \in Message :
    /\ Cardinality(confirmedBy[m]) \in Nat
    /\ Cardinality(Src!CarriedBy(m)) \in Nat
    /\ Cardinality(confirmedBy[m]) <= Cardinality(Src!CarriedBy(m))

LEMMA CountedByTransport == OneAdapterEach /\ BInv => VotesAreTransports
<1> SUFFICES ASSUME OneAdapterEach, BInv, NEW m \in Message
             PROVE  /\ Cardinality(confirmedBy[m]) \in Nat
                    /\ Cardinality(Src!CarriedBy(m)) \in Nat
                    /\ Cardinality(confirmedBy[m]) <= Cardinality(Src!CarriedBy(m))
  BY DEF VotesAreTransports
<1> DEFINE f == [a \in confirmedBy[m] |-> TransportOf(a)]
<1>1. \A a \in confirmedBy[m] : TransportOf(a) \in Src!CarriedBy(m)
  BY VoteSent, SameCarried DEF Src!CarriedBy
<1>2. ASSUME NEW a \in confirmedBy[m], NEW b \in confirmedBy[m], TransportOf(a) = TransportOf(b)
      PROVE  a = b
  <2>1. a \in Adapter /\ b \in Adapter
    BY DEF BInv, CarriedVotes
  <2>2. a \in WhAdapter <=> b \in WhAdapter
    BY <1>2 DEF TransportOf, Src!TRANSPORT_WORMHOLE, Src!TRANSPORT_LAYERZERO
  <2> QED
    BY <2>1, <2>2 DEF OneAdapterEach, Adapter
<1>3. f \in Injection(confirmedBy[m], Src!CarriedBy(m))
  BY <1>1, <1>2 DEF Injection, IsInjective
<1>4. IsFiniteSet(Src!CarriedBy(m))
  <2>1. Src!CarriedBy(m) \subseteq 0 .. 255
    BY SameAssumption DEF Src!CarriedBy, SrcP!OutboxAssumption
  <2>2. 0 \in Int /\ 255 \in Int
    OBVIOUS
  <2>3. IsFiniteSet(0 .. 255)
    BY <2>2, FS_Interval, Zenon
  <2> QED
    BY <2>1, <2>3, FS_Subset
<1>5. IsFiniteSet(confirmedBy[m])
  BY DEF BInv, VotesCounted
<1> QED
  BY <1>3, <1>4, <1>5, FS_Injection, FS_CardinalityType

LEMMA CarriedStep ==
  ASSUME BInv, BInv', VotesAreTransports', [BridgeNext]_bvars, NEW m \in Message,
         status[m] \in {"None", "Pending"}, status'[m] \in {"Executed", "Failed"}
  PROVE  Cardinality(Src!CarriedBy(m)) >= Required(Env[m].target)
<1>1. [Next]_vars /\ (UNCHANGED avars \/ UNCHANGED svars)
  BY BridgeSteps
<1>2. Cardinality(confirmedBy'[m]) >= Required(Env[m].target)
  BY <1>1, VouchedStep DEF BInv
<1>3. UNCHANGED svars
  BY <1>1 DEF avars, vars, ledger
<1>4. Src!CarriedBy(m)' = Src!CarriedBy(m)
  BY <1>3 DEF svars, Src!CarriedBy, Src!Carried
<1>5. /\ Cardinality(confirmedBy'[m]) \in Nat
      /\ Cardinality(Src!CarriedBy(m)) \in Nat
      /\ Cardinality(confirmedBy'[m]) <= Cardinality(Src!CarriedBy(m))
  BY <1>4 DEF VotesAreTransports
<1>6. Required(Env[m].target) \in Nat
  <2>1. Env[m].target \in Address /\ requiredConfirmations \in [Address -> Nat]
    BY GatewayAssumption DEF BInv, IInv, TypeOK, Envelope
  <2> QED
    BY <2>1 DEF Required
<1> QED
  BY <1>2, <1>5, <1>6

\* With one adapter for each transport, whose contract the gateway counts, a
\* quorum is a quorum of transports, whatever their number and the threshold
\* (deliver, mark_dispatched).
THEOREM QuorumOfTransports == OneAdapterEach => (BridgeSpec => QuorumCarried)
<1> SUFFICES ASSUME OneAdapterEach PROVE BridgeSpec => QuorumCarried
  OBVIOUS
<1>1. BInv => VotesAreTransports
  BY CountedByTransport
<1>2. BInv /\ BInv' /\ VotesAreTransports' /\ [BridgeNext]_bvars
        => [\A m \in Message :
              status[m] \in {"None", "Pending"} /\ status'[m] \in {"Executed", "Failed"}
                => Cardinality(Src!CarriedBy(m)) >= Required(Env[m].target)]_bvars
  BY CarriedStep
<1> QED
  BY <1>1, <1>2, BridgeInvariance, PTL DEF BridgeSpec, QuorumCarried

(***************************************************************************)
(* The executor.                                                           *)
(***************************************************************************)
\* A packet of ours is paid for the gas limit of its envelope.
PaidExactly ==
  \A p \in verified \cup cleared :
    p.srcEid = SOLANA_EID /\ p.sender = OurSender => p.gas = Env[p.message].gasLimit

LEMMA PaidStep == PaidExactly /\ [BridgeNext]_bvars => PaidExactly'
<1> SUFFICES ASSUME PaidExactly, [BridgeNext]_bvars PROVE PaidExactly'
  OBVIOUS
<1>1. ASSUME verified' \cup cleared' \subseteq verified \cup cleared PROVE PaidExactly'
  BY <1>1 DEF PaidExactly
<1>2. CASE Guardians
  BY <1>1, <1>2 DEF Guardians, Sign
<1>3. CASE Network
  BY <1>3 DEF Network, Verify, Sent, PaidExactly
<1>4. CASE DestinationStep
  BY <1>1, <1>4, NothingAttested
<1>5. CASE UNCHANGED avars
  BY <1>1, <1>5 DEF avars, outside, transports
<1> QED
  BY <1>2, <1>3, <1>4, <1>5 DEF BridgeNext, bvars

\* The floor of every limit is above it.
LEMMA FloorAbove ==
  ASSUME NEW l \in Nat, NEW m
  PROVE  l < G!GasFloorOf(l, m)
<1>1. \A n \in Nat : G!Inflate(n) \in Nat /\ n <= G!Inflate(n)
  BY DEF G!Inflate
<1>2. l <= G!Inflate(l) /\ G!Inflate(l) \in Nat
  BY <1>1
<1>3. G!Inflate(l) + 40000 <= G!Inflate(G!Inflate(l) + 40000)
      /\ G!Inflate(G!Inflate(l) + 40000) \in Nat
  BY <1>1, <1>2
<1> QED
  BY <1>2, <1>3 DEF G!GasFloorOf, G!ACCOUNT_FRAME_OVERHEAD, G!GAS_RESERVE

LEMMA ExecutorStep ==
  ASSUME BInv, PaidExactly, NEW p \in Packet, LzReceive(p, p.gas)
  PROVE  running' = running
<1>1. p.receiver \in LzAdapter /\ p.message \in Message
  BY AdaptersAssumption DEF LzPacket
<1>2. p \in verified /\ p.srcEid = SOLANA_EID /\ p.sender = OurSender
  BY <1>1, BridgeAssumption DEF LzReceive, Takes, AllowInitializePath, BInv, PeersPinned
<1>3. p.gas = Env[p.message].gasLimit /\ Env[p.message].gasLimit \in Nat
  BY <1>1, <1>2, GatewayAssumption DEF PaidExactly, Envelope
<1>4. p.gas < Floor(p.message, Env[p.message].gasLimit)
  BY <1>3, FloorAbove DEF Floor
<1>5. Floor(p.message, Env[p.message].gasLimit) \in Int
  BY <1>3 DEF Floor, G!GasFloorOf, G!Inflate, G!ACCOUNT_FRAME_OVERHEAD, G!GAS_RESERVE
<1>6. ~WouldRun(p.receiver, p.message)
  BY <1>3, <1>4, <1>5 DEF LzReceive, HandOver
<1>7. CASE Deliver(p.receiver, p.message)
  <2>1. confirmations \in [Message -> Nat]
    BY DEF BInv, IInv, TypeOK
  <2> QED
    BY <1>1, <1>6, <1>7, <2>1 DEF WouldRun, Deliver, Vote, Settle, calls
<1>8. CASE UNCHANGED vars
  BY <1>8 DEF vars, calls
<1> QED
  BY <1>7, <1>8 DEF LzReceive, HandOver

\* The executor's own attempt, with the gas the options pay for, opens no call:
\* for no gas limit, mode, quorum or policy.  What PaidGasSuffices finds on one
\* instance is so on all (dispatch, executor_lz_receive, lzReceive, _gasFloor).
ExecutorOpensNothing ==
  [][\A p \in Packet : LzReceive(p, p.gas) => running' = running]_bvars

THEOREM ExecutorNeverCalls == BridgeSpec => ExecutorOpensNothing
<1>1. BridgeInit => PaidExactly
  BY DEF BridgeInit, AdaptersInit, PaidExactly
<1>2. BInv /\ PaidExactly /\ [BridgeNext]_bvars
        => [\A p \in Packet : LzReceive(p, p.gas) => running' = running]_bvars
  BY ExecutorStep
<1> QED
  BY <1>1, <1>2, PaidStep, BridgeInvariance, PTL DEF BridgeSpec, ExecutorOpensNothing

(***************************************************************************)
(* The remote call.                                                        *)
(***************************************************************************)
asked == {p.envelope : p \in prepared}

LEMMA AskedNonces ==
  ASSUME SrcP!OInv, NEW s \in Sender
  PROVE  Remote!NonceOf(s) = 1 .. nonce[s]
<1>1. {p.envelope.nonce : p \in {q \in prepared : q.envelope.sender = s}} = 1 .. nonce[s]
  BY DEF SrcP!OInv, SrcP!NoncesGapless
<1>2. Remote!NonceOf(s) = {p.envelope.nonce : p \in {q \in prepared : q.envelope.sender = s}}
  BY DEF Remote!NonceOf
<1> QED
  BY <1>1, <1>2

\* What prepare does is Ask.
LEMMA PrepareAsks ==
  ASSUME BInv, [SrcP!Next]_(SrcP!vars), UNCHANGED avars, prepared' # prepared
  PROVE  \E r \in Message : Remote!Ask(r)
<1>1. SrcP!TypeOK
  BY DEF BInv, SrcP!OInv
<1>2. PICK c \in PrepareChoice : LET n == nonce[c[1]] + 1
                                     e == SrcP!Encode(c[1], n, c[2], c[3])
        IN /\ c[1] \in Sender /\ n \in SrcP!Nonce
           /\ e.sender = c[1] /\ e.nonce = n
           /\ prepared' = prepared \cup {[envelope |-> e, expected |-> c[4]]}
  BY <1>1, SrcP!RecordStep, SameAssumption
<1> DEFINE n == nonce[c[1]] + 1
           r == SrcP!Encode(c[1], n, c[2], c[3])
<1>3. r \in Message
  BY <1>2, BridgeAssumption DEF Src!Encode, SrcP!Encode, Src!Nonce, SrcP!Nonce
<1>4. Remote!NonceOf(c[1]) = 1 .. nonce[c[1]] /\ nonce[c[1]] \in Nat
  BY <1>1, <1>2, AskedNonces DEF BInv, SrcP!TypeOK
<1>5. r.nonce \notin Remote!NonceOf(r.sender)
      /\ \A k \in 1 .. r.nonce - 1 : k \in Remote!NonceOf(r.sender)
  BY <1>2, <1>4
<1>6. asked' = asked \cup {r}
  BY <1>2 DEF asked
<1>7. effects' = effects
  BY DEF avars, vars, calls
<1> QED
  BY <1>3, <1>5, <1>6, <1>7 DEF Remote!Ask, asked

\* A call that returns is TakeEffect: it was voted for, so it was asked for.
LEMMA ReturnTakesEffect ==
  ASSUME BInv, [Next]_vars, UNCHANGED svars, effects' # effects
  PROVE  \E r \in Message : Remote!TakeEffect(r)
<1>1. PICK m \in Message : /\ status[m] = "Executed" /\ effects[m] = 0
                           /\ effects' = [effects EXCEPT ![m] = 1]
  BY EffectStep DEF BInv
<1>2. PICK a \in confirmedBy[m] : TRUE
  BY <1>1 DEF BInv, Voted
<1>3. m \in asked
  BY <1>2, VoteSent DEF asked
<1>4. asked' = asked
  BY DEF svars, asked
<1> QED
  BY <1>1, <1>3, <1>4 DEF Remote!TakeEffect, asked

LEMMA RemoteStep ==
  ASSUME BInv, [BridgeNext]_bvars
  PROVE  [Remote!RemoteNext]_<<asked, effects>>
<1>1. [Next]_vars /\ [SrcP!Next]_(SrcP!vars) /\ (UNCHANGED avars \/ UNCHANGED svars)
  BY BridgeSteps
<1>2. CASE UNCHANGED avars
  <2>1. effects' = effects
    BY <1>2 DEF avars, vars, calls
  <2>2. CASE prepared' = prepared
    BY <2>1, <2>2 DEF asked
  <2>3. CASE prepared' # prepared
    BY <1>1, <1>2, <2>3, PrepareAsks DEF Remote!RemoteNext
  <2> QED
    BY <2>2, <2>3
<1>3. CASE UNCHANGED svars
  <2>1. asked' = asked
    BY <1>3 DEF svars, asked
  <2>2. CASE effects' = effects
    BY <2>1, <2>2
  <2>3. CASE effects' # effects
    BY <1>1, <1>3, <2>3, ReturnTakesEffect DEF Remote!RemoteNext
  <2> QED
    BY <2>2, <2>3
<1> QED
  BY <1>1, <1>2, <1>3

\* The two programs, the contracts, the transports between them and whoever
\* drives them are together a remote call: asked for once under each nonce,
\* taking effect at most once, as asked.
THEOREM BridgeImplements == BridgeSpec => ImplementsRemoteCall
<1>1. BridgeInit => Remote!RemoteInit
  BY DEF BridgeInit, AdaptersInit, Init, Src!Init, Remote!RemoteInit
<1>2. BInv /\ [BridgeNext]_bvars => [Remote!RemoteNext]_<<asked, effects>>
  BY RemoteStep
<1>3. <<asked, effects>> = <<{p.envelope : p \in prepared}, effects>>
  BY DEF asked
<1> QED
  BY <1>1, <1>2, BridgeInvariance, PTL
     DEF BridgeSpec, ImplementsRemoteCall, Remote!RemoteSpec, asked

\* What the promise is worth to a sender: of all requests that bear one nonce
\* of theirs at most one takes effect, at most once, whatever stands for it on
\* either chain after its account is closed (prepare, deliver).
OneEffectPerNonce ==
  /\ \A r \in Message : effects[r] \in {0, 1}
  /\ \A q, r \in Message :
       q.sender = r.sender /\ q.nonce = r.nonce /\ effects[q] = 1 /\ effects[r] = 1 => q = r

RInv ==
  /\ effects \in [Message -> {0, 1}]
  /\ \A q, r \in asked : q.sender = r.sender /\ q.nonce = r.nonce => q = r
  /\ \A r \in Message : effects[r] = 1 => r \in asked

LEMMA RInvStep == RInv /\ [Remote!RemoteNext]_<<asked, effects>> => RInv'
<1> SUFFICES ASSUME RInv, [Remote!RemoteNext]_<<asked, effects>> PROVE RInv'
  OBVIOUS
<1>1. ASSUME NEW r \in Message, Remote!Ask(r) PROVE RInv'
  <2>1. asked' = asked \cup {r} /\ effects' = effects
    BY <1>1 DEF Remote!Ask, asked
  <2>2. \A q \in asked : q.sender = r.sender => q.nonce # r.nonce
    BY <1>1 DEF Remote!Ask, Remote!NonceOf, asked
  <2> HIDE DEF asked
  <2> QED
    BY <2>1, <2>2 DEF RInv
<1>2. ASSUME NEW r \in Message, Remote!TakeEffect(r) PROVE RInv'
  <2>1. r \in asked /\ asked' = asked /\ effects' = [effects EXCEPT ![r] = 1]
    BY <1>2 DEF Remote!TakeEffect, asked
  <2> HIDE DEF asked
  <2> QED
    BY <2>1 DEF RInv
<1>3. CASE UNCHANGED <<asked, effects>>
  BY <1>3 DEF RInv
<1> QED
  BY <1>1, <1>2, <1>3 DEF Remote!RemoteNext

THEOREM NonceTakesEffectOnce == BridgeSpec => []OneEffectPerNonce
<1>1. BridgeInit => RInv
  BY DEF BridgeInit, AdaptersInit, Init, Src!Init, RInv, asked
<1>2. BInv /\ [BridgeNext]_bvars => [Remote!RemoteNext]_<<asked, effects>>
  BY RemoteStep
<1>3. RInv => OneEffectPerNonce
  BY DEF RInv, OneEffectPerNonce
<1> QED
  BY <1>1, <1>2, <1>3, RInvStep, BridgeInvariance, PTL DEF BridgeSpec
===============================================================================
