-------------------------------- MODULE Adapters --------------------------------
(***************************************************************************)
(* The destination chain: the gateway with the two contracts that feed it  *)
(* (evm/src/adapters) and the Wormhole relayer (relayer/wormhole-relay.js).*)
(*                                                                         *)
(* External, and modelled from how the code uses them: the guardians, who  *)
(* sign VAAs; the LayerZero endpoint, which keeps a verified packet until  *)
(* its receiver takes it without reverting, and lets anyone try again with *)
(* any amount of gas; its executor, which tries with the gas the packet's  *)
(* options paid for.  A VAA and a packet stand for the hash that           *)
(* identifies them.                                                        *)
(***************************************************************************)
EXTENDS Gateway

CONSTANTS
  WhAdapter, LzAdapter,  \* addresses of the adapter contracts
  Emitter,       \* senders on other chains, as 32 bytes
  SolanaPeer,    \* SolanaPeer[a]: the sender adapter a is deployed with
  SOLANA_EID,    \* LayerZero's id of Solana
  Vaa, Packet,   \* what the guardians may sign and the endpoint verify
  Relayer,       \* runs of the relayer script
  Job,           \* Job[r]: the adapter and the VAA that run r is started for
  Ample          \* gas that covers any delivery

CONSTANTS        \* the owners' calls an instance considers
  AdapterPeerChoice, LevelChoice, AdapterPauseChoice, AdapterHeirChoice

WORMHOLE_CHAIN_ID_SOLANA == 1
CONSISTENCY_FINALIZED == 1

Adapter == WhAdapter \cup LzAdapter

SignedVaa ==
  [emitterChainId : Nat, emitterAddress : Emitter, sequence : Nat,
   consistencyLevel : Nat, payload : Message]

LzPacket ==
  [receiver : LzAdapter, srcEid : Nat, sender : Emitter, nonce : Nat,
   message : Message, gas : Nat]

G == INSTANCE GasRule

Floor(m, gasLimit) == G!GasFloorOf(gasLimit, Env[m].mode)

ASSUME AdaptersAssumption ==
  /\ WhAdapter \cap LzAdapter = {}
  /\ Adapter \subseteq Address
  /\ SolanaPeer \in [Adapter -> Emitter]
  /\ SOLANA_EID \in Nat
  /\ Vaa \subseteq SignedVaa
  /\ Packet \subseteq LzPacket
  /\ Job \in [Relayer -> WhAdapter \X Vaa]
  /\ \A m \in Message : Floor(m, Env[m].gasLimit) <= Ample
  /\ AdapterChoice \subseteq Adapter \X BOOLEAN
  /\ AdapterPeerChoice \subseteq Adapter \X Emitter
  /\ LevelChoice \subseteq WhAdapter \X Nat
  /\ AdapterPauseChoice \subseteq Adapter \X BOOLEAN
  /\ AdapterHeirChoice \subseteq Adapter \X (Principal \cup {Zero})

VARIABLES
  adapterAuth,          \* Auth of each adapter
  solanaPeer,           \* by adapter
  minConsistencyLevel,  \* by WormholeAdapter
  consumedVaa,          \* by WormholeAdapter, the VAAs it has taken
  signed,               \* external: VAAs that parseAndVerifyVM finds valid
  verified, cleared,    \* external: packets the endpoint holds, and has handed over
  relayer,              \* what each run of the relayer is doing
  starved               \* history: packets the executor's gas did not suffice for

contracts == <<adapterAuth, solanaPeer, minConsistencyLevel>>
transports == <<consumedVaa, signed, verified, cleared>>
outside == <<contracts, transports, relayer, starved>>
avars == <<vars, outside>>

Idle == [phase |-> "idle", runs |-> FALSE]

AdaptersInit ==
  /\ Init
  /\ adapterAuth = [a \in Adapter |-> [owner |-> Deployer, pendingOwner |-> Zero, paused |-> FALSE]]
  /\ solanaPeer = SolanaPeer
  /\ minConsistencyLevel = [a \in WhAdapter |-> CONSISTENCY_FINALIZED]
  /\ consumedVaa = [a \in WhAdapter |-> {}]
  /\ signed = {} /\ verified = {} /\ cleared = {}
  /\ relayer = [r \in Relayer |-> Idle]
  /\ starved = {}

(***************************************************************************)
(* The gateway's deliver, as an adapter calls it.                          *)
(***************************************************************************)
\* Whether a delivery by adapter a would get as far as the target's call.
WouldRun(a, m) ==
  /\ ~Duplicate(a, m)
  /\ ~Terminal(m)
  /\ confirmations[m] + 1 >= Required(Env[m].target)
  /\ ~Parkable(m)

\* Reverts on a message it has seen.
BadHandOver(a, m, gas) ==
  /\ Deliver(a, m)
  /\ WouldRun(a, m) => gas >= Floor(m, Env[m].gasLimit)

\* It reverts when paused, entered, called by a stranger or short of gas; it
\* returns, and nothing happens, on a duplicate.  Gas is counted for the call
\* only: recording a vote or a rejection costs the gateway gas of its own, which
\* whoever hands the message over is taken to have paid.
HandOver(a, m, gas) ==
  /\ \/ Deliver(a, m)
     \/ Enter /\ a \in isAdapter /\ Duplicate(a, m) /\ UNCHANGED vars
  /\ WouldRun(a, m) => gas >= Floor(m, Env[m].gasLimit)

(***************************************************************************)
(* WormholeAdapter                                                         *)
(***************************************************************************)
\* Takes the required consistency level for one that must be exceeded.
BadAccepts(a, v) ==
  /\ ~adapterAuth[a].paused
  /\ v \in signed
  /\ v.emitterChainId = WORMHOLE_CHAIN_ID_SOLANA
  /\ v.emitterAddress = solanaPeer[a]
  /\ v.consistencyLevel > minConsistencyLevel[a]
  /\ v \notin consumedVaa[a]

\* Looks at the chain a VAA comes from and not at who emitted it.
BadAcceptsAnyone(a, v) ==
  /\ ~adapterAuth[a].paused
  /\ v \in signed
  /\ v.emitterChainId = WORMHOLE_CHAIN_ID_SOLANA
  /\ v.consistencyLevel >= minConsistencyLevel[a]
  /\ v \notin consumedVaa[a]

\* What receiveMessage checks of the VAA itself.
Accepts(a, v) ==
  /\ ~adapterAuth[a].paused
  /\ v \in signed
  /\ v.emitterChainId = WORMHOLE_CHAIN_ID_SOLANA
  /\ v.emitterAddress = solanaPeer[a]
  /\ v.consistencyLevel >= minConsistencyLevel[a]
  /\ v \notin consumedVaa[a]

\* Leaves the mark to the gateway's own.
BadConsume(a, v) == UNCHANGED consumedVaa

Consume(a, v) == consumedVaa' = [consumedVaa EXCEPT ![a] = @ \cup {v}]

\* Keeps the VAA consumed when the gateway reverts.
BadReceiveMessage(a, v, gas) ==
  /\ Accepts(a, v)
  /\ Consume(a, v)
  /\ \/ HandOver(a, v.payload, gas)
     \/ (~Enter \/ a \notin isAdapter) /\ UNCHANGED vars
  /\ UNCHANGED <<signed, verified, cleared, contracts, starved>>

ReceiveMessage(a, v, gas) ==
  /\ Accepts(a, v)
  /\ Consume(a, v)
  /\ HandOver(a, v.payload, gas)
  /\ UNCHANGED <<signed, verified, cleared, contracts, starved>>

(***************************************************************************)
(* LayerZeroAdapter and its endpoint                                       *)
(***************************************************************************)
\* Any sender on Solana.
BadAllowInitializePath(p) == p.srcEid = SOLANA_EID

AllowInitializePath(p) == p.srcEid = SOLANA_EID /\ p.sender = solanaPeer[p.receiver]

\* lzReceive, as the endpoint calls it for a packet it holds.
Takes(p) == p \in verified /\ ~adapterAuth[p.receiver].paused /\ AllowInitializePath(p)

LzReceive(p, gas) ==
  /\ Takes(p)
  /\ HandOver(p.receiver, p.message, gas)
  /\ verified' = verified \ {p}
  /\ cleared' = cleared \cup {p}
  /\ UNCHANGED <<consumedVaa, signed, contracts, relayer, starved>>

\* The executor's attempt, with what it was paid for, reverts for want of gas.
LzStarve(p) ==
  /\ Takes(p)
  /\ Enter /\ p.receiver \in isAdapter
  /\ WouldRun(p.receiver, p.message)
  /\ p.gas < Floor(p.message, Env[p.message].gasLimit)
  /\ p \notin starved
  /\ starved' = starved \cup {p}
  /\ UNCHANGED <<vars, contracts, transports, relayer>>

(***************************************************************************)
(* External steps                                                          *)
(***************************************************************************)
Sign(v) ==
  /\ v \notin signed
  /\ signed' = signed \cup {v}
  /\ UNCHANGED <<vars, contracts, consumedVaa, verified, cleared, relayer, starved>>

SamePath(p, q) == p.receiver = q.receiver /\ p.srcEid = q.srcEid /\ p.sender = q.sender

\* The endpoint asks the receiver before the first packet of a path.
Verify(p) ==
  /\ p \notin verified \cup cleared
  /\ AllowInitializePath(p) \/ \E q \in verified \cup cleared : SamePath(p, q)
  /\ verified' = verified \cup {p}
  /\ UNCHANGED <<vars, contracts, consumedVaa, signed, cleared, relayer, starved>>

(***************************************************************************)
(* The relayer.  Each of its calls to the chain is a step: what it learned *)
(* in the step before may be stale.                                        *)
(***************************************************************************)
Set(r, s) == relayer' = [relayer EXCEPT ![r] = s]
Off == UNCHANGED <<vars, contracts, transports, starved>>

\* An eth_call or a transaction of its own, which never falls inside a call.
Succeeds(r) ==
  LET a == Job[r][1]
      v == Job[r][2]
  IN Accepts(a, v) /\ Enter /\ a \in isAdapter

\* The operator starts the script for one emitter and sequence.
Start(r) ==
  /\ relayer[r].phase = "idle"
  /\ Set(r, [Idle EXCEPT !.phase = "polling"])
  /\ Off

\* A VAA that is not there yet is asked for again, and changes nothing; after
\* the last try the script exits.
Poll(r) ==
  /\ relayer[r].phase = "polling"
  /\ Set(r, IF Job[r][2] \in signed THEN [Idle EXCEPT !.phase = "fetched"] ELSE Idle)
  /\ Off

\* staticCall; the script exits if the adapter would revert.
Simulate(r) ==
  /\ relayer[r].phase = "fetched"
  /\ running = {}
  /\ Set(r, IF Succeeds(r) THEN [relayer[r] EXCEPT !.phase = "simulated"] ELSE Idle)
  /\ Off

\* The transaction is estimated and sent.  The estimate covers what the
\* delivery would do at this moment: the target's call, or less than that.
Submit(r) ==
  /\ relayer[r].phase = "simulated"
  /\ running = {}
  /\ Set(r, IF Succeeds(r)
            THEN [relayer[r] EXCEPT !.phase = "sent",
                    !.runs = WouldRun(Job[r][1], Job[r][2].payload)]
            ELSE Idle)
  /\ Off

\* It is mined: the delivery lands, or it reverts and the script exits.
Mined(r) ==
  LET a == Job[r][1]
      v == Job[r][2]
      gas == IF relayer[r].runs THEN Ample ELSE 0
  IN
  /\ relayer[r].phase = "sent"
  /\ running = {}
  /\ Set(r, Idle)
  /\ \/ ReceiveMessage(a, v, gas)
     \/ /\ ~Succeeds(r) \/ (WouldRun(a, v.payload) /\ ~relayer[r].runs)
        /\ Off

RelayerStep(r) == Poll(r) \/ Simulate(r) \/ Submit(r) \/ Mined(r)

(***************************************************************************)
(* The adapters' owners, who like the gateway's may act inside a call.     *)
(* What they set there stands although the call fails, as if set just      *)
(* after: no delivery gets through before the call has returned.           *)
(***************************************************************************)
OnlyAdapterOwner(p, a) == p = adapterAuth[a].owner

SetSolanaPeer(p, a, peer) ==
  /\ OnlyAdapterOwner(p, a)
  /\ <<a, peer>> \in AdapterPeerChoice
  /\ solanaPeer' = [solanaPeer EXCEPT ![a] = peer]
  /\ UNCHANGED <<vars, adapterAuth, minConsistencyLevel, transports, relayer, starved>>

SetMinConsistencyLevel(p, a, level) ==
  /\ OnlyAdapterOwner(p, a)
  /\ <<a, level>> \in LevelChoice
  /\ minConsistencyLevel' = [minConsistencyLevel EXCEPT ![a] = level]
  /\ UNCHANGED <<vars, adapterAuth, solanaPeer, transports, relayer, starved>>

SetAdapterAuth(a, s) ==
  /\ adapterAuth' = [adapterAuth EXCEPT ![a] = s]
  /\ UNCHANGED <<vars, solanaPeer, minConsistencyLevel, transports, relayer, starved>>

SetAdapterPaused(p, a, b) ==
  /\ OnlyAdapterOwner(p, a)
  /\ <<a, b>> \in AdapterPauseChoice
  /\ SetAdapterAuth(a, [adapterAuth[a] EXCEPT !.paused = b])

TransferAdapterOwnership(p, a, heir) ==
  /\ OnlyAdapterOwner(p, a)
  /\ <<a, heir>> \in AdapterHeirChoice
  /\ SetAdapterAuth(a, [adapterAuth[a] EXCEPT !.pendingOwner = heir])

AcceptAdapterOwnership(p, a) ==
  /\ p = adapterAuth[a].pendingOwner
  /\ SetAdapterAuth(a, [adapterAuth[a] EXCEPT !.owner = p, !.pendingOwner = Zero])

ConfigureAdapter(p) ==
  \/ \E c \in AdapterPeerChoice : SetSolanaPeer(p, c[1], c[2])
  \/ \E c \in LevelChoice : SetMinConsistencyLevel(p, c[1], c[2])
  \/ \E c \in AdapterPauseChoice : SetAdapterPaused(p, c[1], c[2])
  \/ \E c \in AdapterHeirChoice :
       TransferAdapterOwnership(p, c[1], c[2]) \/ AcceptAdapterOwnership(p, c[1])

(***************************************************************************)
(* The gateway's other steps, which leave the rest alone.                  *)
(***************************************************************************)
GatewayStep ==
  /\ \/ \E m \in Message, g \in OverrideChoice : Retry(m, g)
     \/ \E c \in running, ok \in BOOLEAN : Return(c, ok)
     \/ \E p \in Principal : SetPolicy(p) \/ SetAuth(p)
     \/ Tick
  /\ UNCHANGED outside

\* Anyone may hand a VAA in or make the endpoint try again, and can afford to.
Arrive ==
  \/ \E a \in WhAdapter, v \in Vaa : ReceiveMessage(a, v, Ample) /\ UNCHANGED relayer
  \/ \E p \in Packet : \E gas \in {p.gas, Ample} : LzReceive(p, gas)
  \/ \E p \in Packet : LzStarve(p)

Attest == (\E v \in Vaa : Sign(v)) \/ (\E p \in Packet : Verify(p))

DestinationStep ==
  \/ Arrive
  \/ GatewayStep
  \/ \E r \in Relayer : Start(r) \/ RelayerStep(r)
  \/ \E p \in Principal : ConfigureAdapter(p)

AdaptersNext == Attest \/ DestinationStep

AdaptersSpec == AdaptersInit /\ [][AdaptersNext]_avars

(***************************************************************************)
(* Fairness.  The operator starts a relayer that has exited again, and its *)
(* calls are answered; a packet the endpoint holds is tried again, by      *)
(* someone with enough gas; a called target returns.  Strong, because      *)
(* another message's call is in the way again and again.                   *)
(***************************************************************************)
AdaptersFairSpec ==
  /\ AdaptersSpec
  /\ WF_avars((\E c \in running, ok \in BOOLEAN : Return(c, ok)) /\ UNCHANGED outside)
  /\ \A r \in Relayer : SF_avars(Start(r) \/ RelayerStep(r))
  /\ \A p \in Packet : SF_avars(LzReceive(p, Ample))

(***************************************************************************)
(* Properties                                                              *)
(***************************************************************************)
\* Every variable stays in its type.
AdaptersTypeOK ==
  /\ adapterAuth \in
       [Adapter -> [owner : Principal, pendingOwner : Principal \cup {Zero}, paused : BOOLEAN]]
  /\ solanaPeer \in [Adapter -> Emitter]
  /\ minConsistencyLevel \in [WhAdapter -> Nat]
  /\ consumedVaa \in [WhAdapter -> SUBSET Vaa]
  /\ signed \subseteq Vaa
  /\ verified \subseteq Packet
  /\ cleared \subseteq Packet
  /\ relayer \in [Relayer -> [phase : {"idle", "polling", "fetched", "simulated", "sent"},
                              runs : BOOLEAN]]
  /\ starved \subseteq Packet

Settled(m) == status[m] \in {"Executed", "Failed", "Rejected"}

\* An attestation that is spent has done its work: the adapter's vote is
\* counted, or the message is past counting.  None is lost to a paused
\* gateway, a disabled adapter, a duplicate or a shortage of gas, which matters
\* because neither a VAA nor a packet can be handed in twice (receiveMessage
\* sets consumedVaa before it calls deliver; the endpoint clears a packet
\* whose receiver returns).
NothingSpentInVain ==
  /\ \A a \in WhAdapter : \A v \in consumedVaa[a] :
       a \in confirmedBy[v.payload] \/ Settled(v.payload)
  /\ \A p \in cleared : p.receiver \in confirmedBy[p.message] \/ Settled(p.message)

\* And the other way round: every vote costs the adapter an attestation it had
\* not spent before, from the peer its owner pins at that moment.  No VAA or
\* packet buys two votes, and none outlives a change of the peer or of the
\* consistency level (receiveMessage, lzReceive).
Bought(a, m) ==
  \/ \E v \in signed :
       /\ v.payload = m
       /\ v.emitterChainId = WORMHOLE_CHAIN_ID_SOLANA /\ v.emitterAddress = solanaPeer[a]
       /\ a \in WhAdapter
       /\ v.consistencyLevel >= minConsistencyLevel[a]
       /\ v \in consumedVaa'[a] \ consumedVaa[a]
  \/ \E p \in cleared' \ cleared :
       p.message = m /\ p.receiver = a /\ p.srcEid = SOLANA_EID /\ p.sender = solanaPeer[a]

VotesBacked ==
  [][\A m \in Message : \A a \in confirmedBy'[m] \ confirmedBy[m] : Bought(a, m)]_avars

\* Its owner and the gateway's let adapter a work.
Operational(a) == a \in isAdapter /\ ~adapterAuth[a].paused /\ ~paused

\* A packet from the pinned peer leaves the endpoint, whatever becomes of the
\* message: a duplicate, a malformed, expired or parked one is no reason to
\* revert, or the endpoint would try it for ever (deliver's early returns).
EndpointDrains ==
  \A p \in Packet :
    <>[](Operational(p.receiver) /\ solanaPeer[p.receiver] = p.sender)
      => (p \in verified ~> p \in cleared)

\* A signed VAA from the pinned emitter lands as long as its relayer is
\* restarted: whoever else relays it, lands another message between the
\* simulation and the transaction, or casts the vote that turns a cheap
\* delivery into a call (wormhole-relay.js).
VaaLands ==
  \A r \in Relayer : LET a == Job[r][1]  v == Job[r][2] IN
    <>[](/\ Operational(a)
         /\ solanaPeer[a] = v.emitterAddress
         /\ v.consistencyLevel >= minConsistencyLevel[a])
      => (v \in signed ~> v \in consumedVaa[a])

\* A message that both transports have attested is settled: two attestations
\* are two votes, in whatever order they come and however often each is
\* refused before (receiveMessage, lzReceive, deliver).
AttestedTwiceSettles ==
  \A r \in Relayer, p \in Packet : LET a == Job[r][1]  v == Job[r][2]  m == v.payload IN
    p.message = m =>
      (<>[](/\ Operational(a) /\ Operational(p.receiver)
            /\ solanaPeer[a] = v.emitterAddress /\ solanaPeer[p.receiver] = p.sender
            /\ v.consistencyLevel >= minConsistencyLevel[a])
         => (v \in signed /\ p \in verified ~> Settled(m)))
===============================================================================
