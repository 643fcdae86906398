------------------------------ MODULE LzDispatcher ------------------------------
(***************************************************************************)
(* The outbox together with its LayerZero dispatcher, a program of its own *)
(* that shares no code with it: it reads a message account by offset,      *)
(* hands the envelope's bytes to the LayerZero endpoint with the gas it    *)
(* finds in them, and calls mark_dispatched back, all in one transaction.  *)
(*                                                                         *)
(* The endpoint is external: it takes what it is given, or the transaction *)
(* fails.  Fees, bumps and the program's two PDAs, which its account       *)
(* constraints pin, are left out.                                          *)
(***************************************************************************)
EXTENDS Outbox, Codec

CONSTANTS
  LzProgram,   \* this dispatcher, as the outbox's admin registers it
  BaseCaller,  \* the outbox program, owner of its accounts
  Key,         \* Key[a]: the 32 bytes of an authority's public key
  Body,        \* Body[c]: the rest of what a call asks for
  Payer,       \* the 32 bytes of whoever pays the rent
  Foreign,     \* accounts that are not message accounts of the outbox
  Peer         \* destination adapters

CONSTANTS      \* what an instance considers
  InitChoice, PeerChoice

\* A deployment assumption: the program serves whatever outbox and endpoint its
\* initialize was given, and the model takes them for the real outbox,
\* BaseCaller, and the real LayerZero endpoint, which needs no field.
Store ==
  [admin : Principal, base_caller_program : {BaseCaller},
   transport_id : TransportId, dst_eid : Nat, peer : Peer]

NoStore == [admin |-> DefaultKey]

ASSUME DispatcherAssumption ==
  /\ LzProgram \in Program
  /\ Key \in [Authority -> Bytes(32)]
  /\ \A a, b \in Authority : Key[a] = Key[b] => a = b  \* its key is who it is
  /\ FitsU64(MaxNonce)
  /\ Body \in [Call -> [target : Bytes(20), value : Bytes(16), calldata : Seq(Byte)]]
  /\ \A c \in Call : Len(Body[c].calldata) = Params[c].size /\ Params[c].mode \in Byte
  /\ Payer \in Bytes(32)
  /\ \A x \in Foreign : x.key \notin Authority \X Nonce
  /\ InitChoice \subseteq Store
  /\ PeerChoice \subseteq Nat \X Peer

VARIABLES
  store,    \* the Store account
  packets   \* history: what the endpoint has accepted, in order

lzvars == <<vars, store, packets>>

LzInit == Init /\ store = NoStore /\ packets = <<>>

(***************************************************************************)
(* The bytes of an envelope, and of the account that keeps it.             *)
(***************************************************************************)
ParamsOf(e) ==
  LET p == Params[e.call] IN
  [dst_chain_id |-> U16(p.dst_chain_id), target |-> Body[e.call].target,
   value |-> Body[e.call].value, gas_limit |-> U64(p.gas_limit),
   expiry |-> U64(e.expiry), mode |-> p.mode, calldata |-> Body[e.call].calldata]

EnvelopeBytes(e) == EncodeEnvelope(Key[e.sender], U64(e.nonce), ParamsOf(e))

MessageAccount(a, n) ==
  LET m == message[a][n] IN
  [key |-> <<a, n>>, owner |-> BaseCaller,
   data |-> AccountData(Key[a], Payer, U64(n), U64(m.expiry), m.expected, m.dispatched, 255,
                        EnvelopeBytes(m.envelope))]

\* What a client may pass as prepared_message.
Account ==
  {MessageAccount(k[1], k[2]) : k \in {j \in Authority \X Nonce : Exists(j[1], j[2])}}
    \cup Foreign

(***************************************************************************)
(* The instructions.                                                       *)
(***************************************************************************)
\* Open to anyone, once.  That the deployer comes first, or throws away a
\* dispatcher which somebody else has initialized, is what Store assumes.
InitializeStore(params) ==
  /\ store = NoStore
  /\ params \in InitChoice
  /\ store' = params
  /\ UNCHANGED <<vars, packets>>

SetPeer(p, dst_eid, peer) ==
  /\ store # NoStore
  /\ p = store.admin
  /\ <<dst_eid, peer>> \in PeerChoice
  /\ store' = [store EXCEPT !.dst_eid = dst_eid, !.peer = peer]
  /\ UNCHANGED <<vars, packets>>

Packet(env) ==
  [dst_eid |-> store.dst_eid, receiver |-> store.peer, message |-> env,
   options |-> ExecutorLzReceive(EnvelopeGasLimit(env))]

\* What the handler refuses before it sends.
Readable(x, n) ==
  /\ x.owner = store.base_caller_program
  /\ EnvelopeOf(x.data) # None
  /\ NonceOf(x.data) = U64(n)
  /\ EnvelopeGasLimit(EnvelopeOf(x.data)) # None

\* Sends, and leaves the mark to a transaction of its own.
BadLzDispatch(x, a, n) ==
  /\ store # NoStore
  /\ Readable(x, n)
  /\ x.key = <<a, n>>
  /\ packets' = Append(packets, Packet(EnvelopeOf(x.data)))
  /\ Len(packets) < 2
  /\ UNCHANGED <<vars, store>>

\* dispatch: the send, then the call of mark_dispatched, which finds the
\* message account by its seeds: the key of the account passed must be the
\* address for the authority passed and the nonce.  If either call fails, so
\* does the transaction.
LzDispatch(x, a, n) ==
  /\ store # NoStore
  /\ Readable(x, n)
  /\ packets' = Append(packets, Packet(EnvelopeOf(x.data)))
  /\ x.key = <<a, n>>
  /\ MarkDispatched(LzProgram, store.transport_id, a, n)
  /\ UNCHANGED store

\* The outbox alone: another dispatcher marks, this one only as above.
OutboxStep ==
  /\ \/ \E p \in Principal : Administer(p)
     \/ \E c \in PrepareChoice : Prepare(c[1], c[2], c[3], c[4])
     \/ \E a \in Authority, n \in Nonce :
          \/ DispatchViaWormhole(a, n)
          \/ DispatchViaLayerZero(a, n)
          \/ \E d \in Program \ {LzProgram}, t \in TransportId : MarkDispatched(d, t, a, n)
          \/ Finalize(a, n)
     \/ Tick
  /\ UNCHANGED <<store, packets>>

LzNext ==
  \/ OutboxStep
  \/ \E params \in InitChoice : InitializeStore(params)
  \/ \E p \in Principal, c \in PeerChoice : SetPeer(p, c[1], c[2])
  \/ \E x \in Account, a \in Authority, n \in Nonce : LzDispatch(x, a, n)

LzSpec == LzInit /\ [][LzNext]_lzvars

\* As in the outbox.
LzFairSpec ==
  /\ LzSpec
  /\ WF_vars(Tick /\ UNCHANGED <<store, packets>>)
  /\ \A a \in Authority, n \in Nonce :
       WF_vars(Finalize(a, n) /\ UNCHANGED <<store, packets>>)

(***************************************************************************)
(* Properties                                                              *)
(***************************************************************************)
Packets == {packets[i] : i \in 1 .. Len(packets)}

\* The store and the packets stay in their types.
LzTypeOK ==
  /\ store \in Store \cup {NoStore}
  /\ \A k \in Packets :
       /\ k.dst_eid \in Nat /\ k.receiver \in Peer
       /\ k.message \in Seq(Byte) /\ k.options \in Seq(Byte)

\* What the destination decodes from a packet is what some sender asked
\* prepare for, field by field, under the nonce it was given.  Four hand-made
\* layouts lie between the two: the encoder, the account, the dispatcher's
\* offsets and the decoder (encode, envelope_of, dispatch, tryDecode).
PacketsTellTheRequest ==
  \A k \in Packets : \E p \in prepared :
    LET e == p.envelope IN
    TryDecode(k.message) =
      [ok |-> TRUE, version |-> <<1>>, msgType |-> <<0>>, srcChainId |-> <<0, 1>>,
       dstChainId |-> U16(Params[e.call].dst_chain_id),
       sender |-> Key[e.sender], nonce |-> U64(e.nonce),
       target |-> Body[e.call].target, value |-> Body[e.call].value,
       gasLimit |-> U64(Params[e.call].gas_limit), expiry |-> U64(e.expiry),
       mode |-> <<Params[e.call].mode>>, callData |-> Body[e.call].calldata]

\* The executor is paid for the gas limit the destination will read from the
\* same packet (envelope_gas_limit, executor_lz_receive).
PaidForTheLimit ==
  \A k \in Packets : PaidGas(k.options) = Zeros(8) \o TryDecode(k.message).gasLimit

\* The dispatcher pays for a message once, and for none that the outbox has
\* not recorded as sent over its transport, though it sends first and records
\* second, the admin may replace and reinstate it in between, and another
\* dispatcher serves the same transport (dispatch, mark_dispatched).
OnePacketPerMessage ==
  /\ \A i, j \in 1 .. Len(packets) : packets[i].message = packets[j].message => i = j
  /\ \A k \in Packets : \E e \in Carried(store.transport_id) : k.message = EnvelopeBytes(e)

\* Bytes name one request: no two that prepare ever took, of one sender or of
\* two, share them, so the keccak hash of the bytes by which the destination
\* votes, settles and refuses duplicates is about one request (encode, prepare).
BytesIdentifyRequest ==
  \A p, q \in prepared : EnvelopeBytes(p.envelope) = EnvelopeBytes(q.envelope) => p = q

\* No account the outbox writes is unreadable to the dispatcher, whatever the
\* size of the call and the progress of its dispatch: each shows it the very
\* bytes that the other transports carry, and its nonce.  A layout that
\* drifts would leave LayerZero's half of every quorum unsent for good
\* (envelope_of, nonce_of against PreparedMessage and Anchor's encoding).
EveryAccountReadable ==
  \A a \in Authority, n \in Nonce :
    Exists(a, n) =>
      LET data == MessageAccount(a, n).data IN
      /\ EnvelopeOf(data) = EnvelopeBytes(message[a][n].envelope)
      /\ NonceOf(data) = U64(n)
===============================================================================
