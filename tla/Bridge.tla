--------------------------------- MODULE Bridge ---------------------------------
(***************************************************************************)
(* Both chains: the outbox on Solana, the guardians and the LayerZero      *)
(* network that attest to what it has carried, the adapters and the        *)
(* gateway on the destination.  The chains have clocks of their own.       *)
(*                                                                         *)
(* Attesting is external.  Guardians sign what the pinned emitter has      *)
(* posted, under its sequence number and at the level it was posted with   *)
(* (wormhole.rs: FINALITY), and the network verifies what the pinned       *)
(* dispatcher has sent; either may take for ever, which is a loss.  They   *)
(* attest to what other programs emit too, and that may be anything.       *)
(***************************************************************************)
EXTENDS Adapters, Sequences

CONSTANTS
  TransportId, Program, DefaultKey, NoMessage, MaxNonce, SrcCall, Params,  \* Outbox
  SrcPrincipal, SrcMaxTime, TransportChoice, PrepareChoice, SrcPauseChoice, SrcHeirChoice,
  TargetOf, SelectorOf,  \* where each call goes
  OurEmitter, OurSender  \* PDAs of the outbox and of its LayerZero dispatcher

VARIABLES
  srcAdmin, srcPendingAdmin, srcPaused, transport, nonce, message, srcNow,
  wire, prepared, sends

svars == <<srcAdmin, srcPendingAdmin, srcPaused, transport, nonce, message, srcNow,
           wire, prepared, sends>>

Src == INSTANCE Outbox WITH
  Authority <- Sender, Call <- SrcCall, Principal <- SrcPrincipal, MaxTime <- SrcMaxTime,
  PauseChoice <- SrcPauseChoice, HeirChoice <- SrcHeirChoice,
  admin <- srcAdmin, pending_admin <- srcPendingAdmin, paused <- srcPaused, now <- srcNow

\* What the gateway reads from the bytes of an envelope: Codec's round trip.
Decoded(e) ==
  [decodes |-> TRUE, version |-> VERSION, msgType |-> MSG_TYPE_CALL,
   srcChainId |-> CHAIN_ID_SOLANA, dstChainId |-> Params[e.call].dst_chain_id,
   sender |-> e.sender, nonce |-> e.nonce, target |-> TargetOf[e.call], value |-> 0,
   gasLimit |-> Params[e.call].gas_limit, expiry |-> e.expiry, mode |-> Params[e.call].mode,
   selector |-> SelectorOf[e.call]]

ASSUME BridgeAssumption ==
  /\ Src!OutboxAssumption
  /\ Message \subseteq Src!Envelope
  /\ \A c \in PrepareChoice, n \in Src!Nonce : Src!Encode(c[1], n, c[2], c[3]) \in Message
  /\ TargetOf \in [SrcCall -> Address]
  /\ SelectorOf \in [SrcCall -> Nat]
  /\ Env = [m \in Message |-> Decoded(m)]
  /\ \A a \in WhAdapter : SolanaPeer[a] = OurEmitter
  /\ \A a \in LzAdapter : SolanaPeer[a] = OurSender
  /\ \A c \in AdapterPeerChoice : c[2] = SolanaPeer[c[1]]

bvars == <<avars, svars>>

BridgeInit == AdaptersInit /\ Src!Init

(***************************************************************************)
(* Attestation                                                             *)
(***************************************************************************)
\* Entry i of what transport t has carried is message m.
CarriedAt(t, i, m) == i \in 1 .. Len(wire[t]) /\ wire[t][i] = m

Posted(v) ==
  \/ v.emitterChainId # WORMHOLE_CHAIN_ID_SOLANA \/ v.emitterAddress # OurEmitter
  \/ /\ CarriedAt(Src!TRANSPORT_WORMHOLE, v.sequence, v.payload)
     /\ v.consistencyLevel = CONSISTENCY_FINALIZED

\* The options pay for the envelope's gas limit (LzDispatcher!PaidForTheLimit).
Sent(p) ==
  \/ p.srcEid # SOLANA_EID \/ p.sender # OurSender
  \/ /\ CarriedAt(Src!TRANSPORT_LAYERZERO, p.nonce, p.message)
     /\ p.gas = Env[p.message].gasLimit

Guardians == \E v \in Vaa : Posted(v) /\ Sign(v)

Network == \E p \in Packet : Sent(p) /\ Verify(p)

BridgeNext ==
  \/ Src!Next /\ UNCHANGED avars
  \/ (Guardians \/ Network \/ DestinationStep) /\ UNCHANGED svars

BridgeSpec == BridgeInit /\ [][BridgeNext]_bvars

(***************************************************************************)
(* Properties                                                              *)
(***************************************************************************)
TransportOf(a) ==
  IF a \in WhAdapter THEN Src!TRANSPORT_WORMHOLE ELSE Src!TRANSPORT_LAYERZERO

\* A vote on the destination is the trace of a dispatch on Solana: the sender
\* asked for this envelope, byte for byte, over the voting adapter's transport,
\* and the outbox carried it there.  Nothing another program emits, and no
\* second encoding of the request, is ever counted (mark_dispatch,
\* receiveMessage, lzReceive, deliver).
EveryVoteWasSent ==
  \A m \in Message : \A a \in confirmedBy[m] :
    /\ m \in Src!Carried(TransportOf(a))
    /\ \E p \in prepared : p.envelope = m /\ TransportOf(a) \in p.expected

\* A quorum of two transports that ran a call is visible to the sender until
\* the account is closed: every transport whose adapter voted has its bit on
\* the account (dispatched), so a retry of a dispatch cannot be a second send.
BitsCoverVotes ==
  \A m \in Message :
    Src!Exists(m.sender, m.nonce) /\ confirmedBy[m] # {}
      => {TransportOf(a) : a \in confirmedBy[m]} \subseteq message[m.sender][m.nonce].dispatched

\* A quorum is one of transports: a delivery that ends a message's wait finds
\* the message carried, on Solana, by as many transports as its target asks
\* for at that moment, though the gateway counts the contracts that call it
\* and knows nothing of transports (deliver, the adapters' checks of chain and
\* sender, mark_dispatch).  It needs an owner who keeps one adapter for each.
OneAdapterEach ==
  /\ \A a, b \in WhAdapter : a = b
  /\ \A a, b \in LzAdapter : a = b

QuorumCarried ==
  [][\A m \in Message :
       status[m] \in {"None", "Pending"} /\ status'[m] \in {"Executed", "Failed"}
         => Cardinality(Src!CarriedBy(m)) >= Required(Env[m].target)]_bvars

Remote == INSTANCE RemoteCall WITH
  Request <- Message, asked <- {p.envelope : p \in prepared}

\* Every behaviour of the two chains is one of RemoteCall: what takes effect
\* was asked for exactly so, once, under a nonce that no other request of its
\* sender has, whatever is lost, repeated, reordered, parked or retried.
ImplementsRemoteCall == Remote!RemoteSpec
===============================================================================
