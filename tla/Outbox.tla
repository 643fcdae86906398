-------------------------------- MODULE Outbox --------------------------------
(***************************************************************************)
(* The source program: solana/programs/base-caller.  An envelope is built  *)
(* once by prepare and kept in an account; each transport then carries     *)
(* those bytes, dispatched by this program or by a registered external     *)
(* dispatcher; finalize closes the account.                                *)
(*                                                                         *)
(* A Solana transaction is one step.  One that fails leaves no trace and   *)
(* is no step, with one exception kept in history: a call that got as far  *)
(* as layerzero::send.  Lamports, bumps and the fields of TransportConfig  *)
(* that this program only stores (peer, dest_chain) are left out, and so   *)
(* is program_id, which names the bridge a post goes to.                   *)
(***************************************************************************)
EXTENDS Integers, Sequences

CONSTANTS
  Authority,    \* senders: wallets or PDAs of calling programs
  Principal,    \* keys that can sign as admin
  TransportId,  \* the u8 transport ids in play
  Program,      \* programs that may be registered as dispatchers
  DefaultKey,   \* Pubkey::default(), which cannot sign
  Call,         \* what a sender may ask for
  Params,       \* Params[c]: the fields of SendParams that prepare checks
  NoMessage,    \* a message account that does not exist
  MaxNonce,     \* u64::MAX in the program
  MaxTime       \* bound on the clock

CONSTANTS       \* the choices an instance considers
  TransportChoice, PrepareChoice, PauseChoice, HeirChoice

TRANSPORT_WORMHOLE == 1
TRANSPORT_LAYERZERO == 2
MAX_TRANSPORT_ID == 8
MIN_GAS_LIMIT == 50000
MAX_CALLDATA == 8192
MODE_ACCOUNT == 1
CHAIN_SOLANA == 1

\* A mask is the set of transport ids whose bits are on.
Bit == 1 .. MAX_TRANSPORT_ID
Nonce == 1 .. MaxNonce
SendParams == [dst_chain_id : Nat, zero_target : BOOLEAN, gas_limit : Nat, mode : Nat, size : Nat]
Envelope == [sender : Authority, nonce : Nonce, call : Call, expiry : Nat]
PreparedMessage ==
  [expiry : Nat, expected : SUBSET Bit, dispatched : SUBSET Bit, envelope : Envelope]
TransportConfig == [enabled : BOOLEAN, dispatcher : Program \cup {DefaultKey}]

ASSUME OutboxAssumption ==
  /\ TransportId \subseteq 0 .. 255
  /\ {TRANSPORT_WORMHOLE, TRANSPORT_LAYERZERO} \subseteq TransportId
  /\ MaxNonce \in Nat
  /\ MaxTime \in Nat
  /\ Params \in [Call -> SendParams]
  /\ NoMessage \notin PreparedMessage
  /\ DefaultKey \notin Principal \cup Program
  /\ TransportChoice \subseteq TransportId \X BOOLEAN \X (Program \cup {DefaultKey})
  /\ PrepareChoice \subseteq Authority \X Call \X Nat \X SUBSET Bit
  /\ PauseChoice \subseteq BOOLEAN
  /\ HeirChoice \subseteq Principal \cup {DefaultKey}

VARIABLES
  admin, pending_admin, paused,  \* Config; admin is DefaultKey before initialize
  transport,    \* TransportConfig by id; disabled where there is none
  nonce,        \* SenderState.nonce by authority
  message,      \* the PreparedMessage account by authority and nonce
  now,          \* Clock::unix_timestamp
  wire,         \* history: what each transport has carried, in order
  prepared,     \* history: every envelope built, with the transports expected of it
  sends         \* history: calls of layerzero::send, up to one

config == <<admin, pending_admin, paused>>
vars == <<config, transport, nonce, message, now, wire, prepared, sends>>

Init ==
  /\ admin = DefaultKey
  /\ pending_admin = DefaultKey
  /\ paused = FALSE
  /\ transport = [t \in TransportId |-> [enabled |-> FALSE, dispatcher |-> DefaultKey]]
  /\ nonce = [a \in Authority |-> 0]
  /\ message = [a \in Authority |-> [n \in Nonce |-> NoMessage]]
  /\ now = 0
  /\ wire = [t \in TransportId |-> <<>>]
  /\ prepared = {}
  /\ sends = 0

Initialized == admin # DefaultKey

(***************************************************************************)
(* Administration                                                          *)
(***************************************************************************)
Initialize(p) ==
  /\ ~Initialized
  /\ admin' = p
  /\ pending_admin' = DefaultKey
  /\ paused' = FALSE
  /\ UNCHANGED <<transport, nonce, message, now, wire, prepared, sends>>

SetTransport(p, t, enabled, dispatcher) ==
  /\ Initialized /\ p = admin
  /\ <<t, enabled, dispatcher>> \in TransportChoice
  /\ transport' = [transport EXCEPT ![t] = [enabled |-> enabled, dispatcher |-> dispatcher]]
  /\ UNCHANGED <<config, nonce, message, now, wire, prepared, sends>>

SetPaused(p, b) ==
  /\ Initialized /\ p = admin
  /\ b \in PauseChoice
  /\ paused' = b
  /\ UNCHANGED <<admin, pending_admin, transport, nonce, message, now, wire, prepared, sends>>

TransferAdmin(p, heir) ==
  /\ Initialized /\ p = admin
  /\ heir \in HeirChoice
  /\ pending_admin' = heir
  /\ UNCHANGED <<admin, paused, transport, nonce, message, now, wire, prepared, sends>>

AcceptAdmin(p) ==
  /\ Initialized /\ p = pending_admin
  /\ admin' = pending_admin
  /\ pending_admin' = DefaultKey
  /\ UNCHANGED <<paused, transport, nonce, message, now, wire, prepared, sends>>

(***************************************************************************)
(* prepare: the checks on the request, then the nonce, the bytes and the   *)
(* account.  Definitions named Bad... are faulty variants of the one that  *)
(* follows them, used to see that a property would catch the mistake.      *)
(***************************************************************************)
Acceptable(c) ==
  LET p == Params[c] IN
  /\ p.size <= MAX_CALLDATA
  /\ p.mode <= MODE_ACCOUNT
  /\ ~p.zero_target
  /\ p.gas_limit >= MIN_GAS_LIMIT
  /\ p.dst_chain_id # 0 /\ p.dst_chain_id # CHAIN_SOLANA

\* Writes the nonce from before it was counted.
BadEncode(a, n, c, expiry) == [sender |-> a, nonce |-> n - 1, call |-> c, expiry |-> expiry]

\* Packed fields of fixed width and a length: two requests differ, so do their bytes.
Encode(a, n, c, expiry) == [sender |-> a, nonce |-> n, call |-> c, expiry |-> expiry]

\* Takes the first free account instead of counting.
BadPrepare(a, c, expiry, transports) ==
  \E n \in Nonce :
    /\ Initialized /\ ~paused
    /\ <<a, c, expiry, transports>> \in PrepareChoice
    /\ transports # {} /\ Acceptable(c) /\ (expiry # 0 => expiry > now)
    /\ message[a][n] = NoMessage /\ \A k \in 1 .. n - 1 : message[a][k] # NoMessage
    /\ nonce' = [nonce EXCEPT ![a] = n]
    /\ message' = [message EXCEPT ![a][n] =
         [expiry |-> expiry, expected |-> transports, dispatched |-> {},
          envelope |-> Encode(a, n, c, expiry)]]
    /\ prepared' = prepared \cup {[envelope |-> Encode(a, n, c, expiry), expected |-> transports]}
    /\ UNCHANGED <<config, transport, now, wire, sends>>

Prepare(a, c, expiry, transports) ==
  LET n == nonce[a] + 1
      bytes == Encode(a, n, c, expiry)
  IN
  /\ Initialized /\ ~paused
  /\ <<a, c, expiry, transports>> \in PrepareChoice
  /\ transports # {}
  /\ Acceptable(c)
  /\ expiry # 0 => expiry > now
  /\ n <= MaxNonce                  \* checked_add
  /\ message[a][n] = NoMessage      \* init: the account must not exist
  /\ nonce' = [nonce EXCEPT ![a] = n]
  /\ message' = [message EXCEPT ![a][n] =
       [expiry |-> expiry, expected |-> transports, dispatched |-> {}, envelope |-> bytes]]
  /\ prepared' = prepared \cup {[envelope |-> bytes, expected |-> transports]}
  /\ UNCHANGED <<config, transport, now, wire, sends>>

(***************************************************************************)
(* Dispatch                                                                *)
(***************************************************************************)
Exists(a, n) == message[a][n] # NoMessage

\* Gives up while the destination still accepts.
BadExpired(m) == m.expiry # 0 /\ now >= m.expiry

Expired(m) == m.expiry # 0 /\ now > m.expiry

\* Does not look for a bit already set.
BadMarkable(m, t) == t \in m.expected /\ ~Expired(m)

\* mark_dispatch: what it refuses, and the bit it records.
Markable(m, t) == t \in m.expected /\ t \notin m.dispatched /\ ~Expired(m)

\* Keeps the last bit only.
BadMark(a, n, t) ==
  message' = [message EXCEPT ![a][n].dispatched = {t}]

Mark(a, n, t) ==
  message' = [message EXCEPT ![a][n].dispatched = @ \cup {t}]

Carry(t, e) == wire' = [wire EXCEPT ![t] = Append(@, e)]

\* One send instruction per transport: a nonce of its own, bytes of its own.
BadDispatchViaWormhole(a, n) ==
  /\ ~paused
  /\ transport[TRANSPORT_WORMHOLE].enabled
  /\ Exists(a, n)
  /\ Markable(message[a][n], TRANSPORT_WORMHOLE)
  /\ nonce[a] < MaxNonce
  /\ nonce' = [nonce EXCEPT ![a] = @ + 1]
  /\ Mark(a, n, TRANSPORT_WORMHOLE)
  /\ Carry(TRANSPORT_WORMHOLE, [message[a][n].envelope EXCEPT !.nonce = nonce[a] + 1])
  /\ UNCHANGED <<config, transport, now, prepared, sends>>

DispatchViaWormhole(a, n) ==
  /\ ~paused
  /\ transport[TRANSPORT_WORMHOLE].enabled
  /\ Exists(a, n)
  /\ Markable(message[a][n], TRANSPORT_WORMHOLE)
  /\ Mark(a, n, TRANSPORT_WORMHOLE)
  /\ Carry(TRANSPORT_WORMHOLE, message[a][n].envelope)
  /\ UNCHANGED <<config, transport, nonce, now, prepared, sends>>

\* layerzero::send returns Ok and sends nothing.
BadDispatchViaLayerZero(a, n) ==
  /\ ~paused
  /\ transport[TRANSPORT_LAYERZERO].enabled
  /\ Exists(a, n)
  /\ Markable(message[a][n], TRANSPORT_LAYERZERO)
  /\ Mark(a, n, TRANSPORT_LAYERZERO)
  /\ UNCHANGED <<config, transport, nonce, now, wire, prepared, sends>>

\* layerzero::send panics, so the transaction fails and the bit is not kept.
DispatchViaLayerZero(a, n) ==
  /\ ~paused
  /\ transport[TRANSPORT_LAYERZERO].enabled
  /\ Exists(a, n)
  /\ Markable(message[a][n], TRANSPORT_LAYERZERO)
  /\ sends' = 1
  /\ UNCHANGED <<config, transport, nonce, message, now, wire, prepared>>

\* mask_of
HasMask(t) == t # 0 /\ t <= MAX_TRANSPORT_ID

\* Called by dispatcher program d, signing as its PDA, in the transaction in
\* which it handed the account's bytes to its own endpoint.
MarkDispatched(d, t, a, n) ==
  /\ ~paused
  /\ transport[t].enabled
  /\ transport[t].dispatcher # DefaultKey
  /\ d = transport[t].dispatcher
  /\ HasMask(t)
  /\ Exists(a, n)
  /\ Markable(message[a][n], t)
  /\ Mark(a, n, t)
  /\ Carry(t, message[a][n].envelope)
  /\ UNCHANGED <<config, transport, nonce, now, prepared, sends>>

(***************************************************************************)
(* finalize: open to anyone, paused or not.                                *)
(***************************************************************************)
\* Forgets the way out for a message no transport will carry.
BadFinalizable(m) == m.dispatched = m.expected

Finalizable(m) == m.dispatched = m.expected \/ Expired(m)

Finalize(a, n) ==
  /\ Exists(a, n)
  /\ Finalizable(message[a][n])
  /\ message' = [message EXCEPT ![a][n] = NoMessage]
  /\ UNCHANGED <<config, transport, nonce, now, wire, prepared, sends>>

Tick ==
  /\ now < MaxTime
  /\ now' = now + 1
  /\ UNCHANGED <<config, transport, nonce, message, wire, prepared, sends>>

Administer(p) ==
  \/ Initialize(p)
  \/ \E c \in TransportChoice : SetTransport(p, c[1], c[2], c[3])
  \/ \E b \in BOOLEAN : SetPaused(p, b)
  \/ \E heir \in HeirChoice : TransferAdmin(p, heir)
  \/ AcceptAdmin(p)

Dispatch(a, n) ==
  \/ DispatchViaWormhole(a, n)
  \/ DispatchViaLayerZero(a, n)
  \/ \E d \in Program, t \in TransportId : MarkDispatched(d, t, a, n)

Next ==
  \/ \E p \in Principal : Administer(p)
  \/ \E c \in PrepareChoice : Prepare(c[1], c[2], c[3], c[4])
  \/ \E a \in Authority, n \in Nonce : Dispatch(a, n) \/ Finalize(a, n)
  \/ Tick

Spec == Init /\ [][Next]_vars

\* Time passes, and someone wants the rent back: finalize is open to anyone.
FairSpec ==
  /\ Spec
  /\ WF_vars(Tick)
  /\ \A a \in Authority, n \in Nonce : WF_vars(Finalize(a, n))

(***************************************************************************)
(* Properties                                                              *)
(***************************************************************************)
SameKey(e, f) == e.sender = f.sender /\ e.nonce = f.nonce

Carried(t) == {wire[t][i] : i \in 1 .. Len(wire[t])}

CarriedBy(e) == {t \in TransportId : e \in Carried(t)}

\* Every variable stays in its type.
TypeOK ==
  /\ admin \in Principal \cup {DefaultKey}
  /\ pending_admin \in Principal \cup {DefaultKey}
  /\ paused \in BOOLEAN
  /\ transport \in [TransportId -> TransportConfig]
  /\ nonce \in [Authority -> 0 .. MaxNonce]
  /\ message \in [Authority -> [Nonce -> PreparedMessage \cup {NoMessage}]]
  /\ now \in 0 .. MaxTime
  /\ wire \in [TransportId -> Seq(Envelope)]
  /\ prepared \subseteq [envelope : Envelope, expected : SUBSET Bit]
  /\ sends \in {0, 1}

\* A transport carries a sender's nonce at most once, whoever pays for the
\* dispatch, in whatever order the program and the dispatchers act, and also
\* after the account was closed (mark_dispatch, finalize, prepare's init).
CarriedOnce ==
  \A t \in TransportId : \A i, j \in 1 .. Len(wire[t]) :
    SameKey(wire[t][i], wire[t][j]) => i = j

\* What two transports carry for one sender and nonce is one envelope, the one
\* prepare built, so the destination hashes both copies to one message id.
\* This is what makes a quorum of two transports reachable (prepare, the
\* dispatch instructions, mark_dispatched).
OneEnvelopePerNonce ==
  /\ \A p, q \in prepared : SameKey(p.envelope, q.envelope) => p = q
  /\ \A t \in TransportId : \A e \in Carried(t) : \E p \in prepared :
       p.envelope = e /\ t \in p.expected

\* The nonces a sender's envelopes use are 1, 2, ... without a gap, as a
\* contract with a last-nonce check needs: they are counted by prepare only,
\* and never by a dispatch or a finalize.
NoncesGapless ==
  \A a \in Authority :
    {p.envelope.nonce : p \in {q \in prepared : q.envelope.sender = a}} = 1 .. nonce[a]

\* While the account exists, its dispatched bits are exactly the transports
\* that have carried the envelope, so a partial dispatch is visible on chain
\* (mark_dispatch in the same transaction as the post).
BitsTellTheWire ==
  \A a \in Authority, n \in Nonce :
    Exists(a, n) =>
      message[a][n].dispatched = CarriedBy(message[a][n].envelope)

\* What finalize gives up on is dead: an envelope whose account is closed was
\* carried by every transport expected of it, or the destination refuses it
\* as expired by the same clock (finalize's two conditions).
AbandonedIsDead ==
  \A p \in prepared : LET e == p.envelope IN
    ~Exists(e.sender, e.nonce) =>
      \/ p.expected \subseteq CarriedBy(e)
      \/ e.expiry # 0 /\ now > e.expiry

\* A message with an expiry is closed in the end, whatever becomes of its
\* transports, of the pause switch and of the admin (finalize).
ExpiringMessagesClose ==
  \A a \in Authority, n \in Nonce :
    (Exists(a, n) /\ message[a][n].expiry # 0) ~> ~Exists(a, n)
===============================================================================
