# sol-base-comm in TLA+

sol-base-comm lets a Solana program call a contract on Base. A Solana program
(`base_caller`) numbers and encodes a call once, and lets one or two bridges
(Wormhole, LayerZero) carry the same bytes. On Base a gateway
(`SolanaGateway`) counts which adapters have delivered those bytes, checks
them against its policy and calls the target, directly or through an account
it deploys for the Solana sender. This directory models that system, checks it
with TLC and proves its safety with TLAPS.

Paths below are relative to `src/`.

## The system

| Component | State it keeps | Operations | Talks to |
|---|---|---|---|
| `base_caller` (`solana/programs/base-caller`) | `Config` (admin, pending admin, paused), a `TransportConfig` per transport id, a `SenderState` nonce per authority, a `PreparedMessage` account per authority and nonce | `initialize`, `set_transport`, `set_paused`, `transfer_admin`, `accept_admin`, `prepare`, `dispatch_via_wormhole`, `dispatch_via_layerzero`, `mark_dispatched`, `finalize` | CPI to the Wormhole core bridge; CPI from an external dispatcher |
| `lz-dispatcher` (`solana/layerzero-dispatcher`) | a `Store` (admin, program and transport id it serves, destination eid, peer) | `initialize_store`, `set_peer`, `dispatch`: read the account's bytes, send them through the LayerZero endpoint, CPI `mark_dispatched` | `base_caller`, LayerZero endpoint |
| `base-caller-abi` (`solana/abi`) | none | `envelope_of`, `nonce_of`: account offsets and discriminators shared by both programs | |
| Envelope codec (`envelope.rs`, `EnvelopeLib.sol`) | none | `encode`, `tryDecode` | both sides |
| `WormholeAdapter`, `LayerZeroAdapter` (`evm/src/adapters`) | consumed VAAs, emitter or peer, owner | `receiveMessage`, `lzReceive`, setters | `SolanaGateway.deliver` |
| `SolanaGateway` with `Auth` (`evm/src`) | owner, pause, reentrancy guard, policy (versions, account mode, adapters, quorums, strict mode, allow list), a status and votes per message, deployed accounts, the transient origin | `deliver`, `retry`, the setters, ownership handover | adapters, targets, `SolanaAccount` |
| `SolanaAccount` (`evm/src`) | gateway, Solana owner | `initialize`, `execute` | targets |
| `ConfigInvokeTarget` with `SolanaCallable` (`evm/src/examples`) | config, config version | `setConfig`, `invoke` | reads the gateway's transient origin |
| Relayer (`relayer/wormhole-relay.js`) | none | poll for a VAA, simulate, submit | Wormhole, adapter |

What is hard here: two transports race each other and every one may redeliver;
a message's checks are made at delivery, and again, later, when anyone retries
it; the target is foreign code that may call back into the gateway while a
call is open; the owner changes the policy between any two of these or inside a call; expiry
runs on two clocks; gas is divided by 64 at each frame; and on Solana several
programs act on one account, which anyone may close.

What makes each component correct:

- Outbox: one envelope per sender and nonce, numbered without gaps, carried at
  most once by each transport, with the bits on chain telling the truth, and
  an account that is closed only when nothing is left to do.
- Gateway: a message takes effect at most once; a settled one is never revived;
  the origin a target reads is that of its own call; a call is made only under
  the policy of the moment, with the votes its target requires, and never at an
  address the gateway has power over; nothing waits for ever that someone
  could move.
- Adapters and endpoint: an attestation is spent exactly when its vote counts,
  no vote comes without one, and everything attested gets through in the end.
- Codec: what the destination decodes is what the sender asked for, though four
  programs lay the bytes out by hand.
- lz-dispatcher: it can read every account, sends each message once, and pays
  for the gas the message names.
- The whole bridge: every vote is the trace of a dispatch; a request takes effect
  at most once, as it was asked for.
- Gas floor: a call that is made gives its target the gas the envelope
  certifies.
- Configure/invoke target: the version counts configurations, identifies
  them, and the two authorities stay apart.

## Modules

| Module | Models | Role |
|---|---|---|
| `Gateway` | `SolanaGateway.sol`, `Auth.sol` | the gateway's state machine and its properties |
| `MessageLifecycle` | the promise of `ISolanaGateway.Status` | abstract specification, implemented by `Gateway` |
| `Outbox` | `base-caller`: `lib.rs`, `state.rs`, `transports/` | the source program and its properties |
| `Codec` | `envelope.rs`, `EnvelopeLib.sol`, `solana/abi`, `options.rs` | the bytes that cross program boundaries |
| `LzDispatcher` | `lz-dispatcher`: `lib.rs` | EXTENDS `Outbox`, `Codec`: the dispatcher beside the outbox |
| `GasRule` | `_gasFloor` | the rule itself, used by the next two |
| `GasFloor` | `_run`, `SolanaAccount.execute` | gas through the call frames |
| `Adapters` | `WormholeAdapter.sol`, `LayerZeroAdapter.sol`, `relayer/wormhole-relay.js` | EXTENDS `Gateway`: the destination chain |
| `Bridge` | both chains and what lies between | EXTENDS `Adapters`, INSTANCE of `Outbox` |
| `RemoteCall` | what the system promises a sender | abstract specification, implemented by `Bridge` |
| `ConfigInvoke` | `ConfigInvokeTarget.sol`, `SolanaCallable.sol` | EXTENDS `Gateway`: the target behind the whole gateway |
| `MC...` | | instances for TLC; also the documents' statements that the code refutes |
| `...Proofs`, `GatewayRefinement` | | theorems and proofs |

Definitions named `Bad...` stand before the definition they vary. Each is the
mistake a plausible bug would make, and a property that such a variant does not
break would say nothing; nothing else uses them.

### Gateway

A variable per storage slot. A mapping to bool is the set of its true keys.
An envelope is a model value that stands for its own keccak256 hash; `Env[m]`
is what `tryDecode` reads from it. `xDomain` is the pair of transient slots.
`running` holds the open calls and `effects` is history: how often a message's
call took effect.

One transaction is one step, except where foreign code runs. `Deliver` and
`Retry` end in `Run`, which does what `_run` does before the call; `Return` is
what comes back, success or not, and the rest of the transaction. Between the
two anybody may try `Deliver` or `Retry` - only the guard in `Enter` stops
them, as in the code - so re-entry is a behaviour of the model, not an
assumption about it. A target can succeed only with the gas it needs
(`Needs`), and may fail with any amount. The owner's functions carry no
guard, and an owner may be a contract that the target reaches: `SetPolicy` and
`SetAuth` may happen inside an open call as well. Nothing reads the policy between
the opening of a call and its return, so what an owner did inside a call that then
fails, and is rolled back with it, is let stand as if done just after. Only the clock
stands still while a call is open: that is one transaction.

A transaction that reverts is no step. That covers `InsufficientGas`, the one
revert of the execution path. Events and their reasons are left out, so the
order of the terminal checks among themselves does not show; the order of
terminal before parkable does, and is kept. A retry that finds the message
still parkable rewrites `Failed` and is a stuttering step.

### Outbox

Accounts are functions, `NoMessage` where there is no account. Masks are the
sets of transport ids whose bits are on; ids are `u8` and those above 8 have
no bit (`HasMask`), though `set_transport` accepts them. `wire`, `prepared` and
`sends` are history. `MarkDispatched` is the step of an external dispatcher: it
hands the account's bytes to its own endpoint and marks the bit in one
transaction. `DispatchViaLayerZero` passes its checks and then panics in the
stub `layerzero::send`; the transaction leaves nothing but the mark in `sends`.

Left out: lamports, bumps, events, and the fields the program only stores
(`peer`, `dest_chain`, `program_id`). A transport that was never registered
and one that is disabled behave alike, so they are not told apart.
`Initialize` is done by someone who can sign as admin later.

### Codec and LzDispatcher

A byte string is a sequence of 0..255 and an integer of 16 to 128 bits is the
sequence of its bytes, so no width is cut. `EncodeEnvelope` writes what
`envelope::encode` writes, `TryDecode` reads whole words and shifts as the
Solidity does, `WordAt` reaching behind the envelope where the assembly does;
`Beyond` is whatever byte lies there. `AccountData` is what Anchor writes for a
`PreparedMessage`, `EnvelopeOf` and `NonceOf` what `solana/abi` reads by
offset, `ExecutorLzReceive` the options, and `PaidGas` (external) what the executor
makes of them.

`LzDispatch` is the whole `dispatch` handler: the checks of the account it is
given - any account, its own or foreign -, the send, and the CPI, which is the outbox's
`MarkDispatched` with that module's guards. The order matters: it sends first and
marks second, and only the transaction makes the two one. `packets` is history. The
two PDAs its account constraints pin, fees and bumps are left out.

A deployment assumption: `initialize` is open to whoever calls it first and takes any
addresses (`solana/layerzero-dispatcher/programs/lz-dispatcher/src/lib.rs:60-70`). The model takes it to be called by
the deployer, who names the real outbox and the real LayerZero endpoint; the
program checks neither. Destination, peer and transport in the store may be wrong ones.

### GasRule and GasFloor

One execution going down the frames: gateway, clone, account code, target. What
a frame spends before its call is decided by the compiler, so it is chosen from
a set: the gateway's from its whole reserve, the others from constants. The
EVM's rule that a call forwards at most all but a 64th is `AllButOne64th`.

### Adapters

The gateway's state, and per adapter its `Auth`, peer, minimum consistency
level and consumed VAAs. `ReceiveMessage` is checks, consume and deliver in one step;
`HandOver` is the gateway's `deliver` as the adapter sees it: it reverts when the
gateway is paused or entered, the adapter unregistered, or a call that would run
short of its floor, and returns without an effect on a duplicate. Gas is counted
for the call only; what a delivery spends on recording a vote or a rejection is taken
to be paid. The owner's functions have no guard here either and may happen inside a call. `LzReceive`
is the endpoint calling its receiver. External: `Sign` (guardians), `Verify` (the
endpoint takes a packet in), the executor, whose attempt with the gas it was paid for may fail
(`LzStarve`), and anyone who makes the endpoint try again.

A relayer takes one step per call it makes: poll, `Simulate`, `Submit` (which fixes the
gas by estimate), `Mined`. What it saw in one step may be stale in the next. An error
or an exit ends the run, and the operator starts it again. Errors of the guardian API
are an exit or one more poll. Finding its own receipt and printing it is left out.

### Bridge and RemoteCall

`Src` is `Outbox` with a clock of its own. The guardians sign, under the sequence number
and the level of the post, what the outbox's emitter has posted; the LayerZero network verifies
what the dispatcher has sent. Either may never do it. What other emitters say may be anything. A
message is the outbox's envelope record, and `Decoded` turns it into what the gateway
reads: the codec's round trip, which `LzDispatcherProofs!RoundTrip` proves of the
bytes. The dispatcher of the bridge is `MarkDispatched`, as `DispatcherRefinesOutbox` allows.
Assumed: peers are the two PDAs and stay so (`BridgeAssumption`).

`RemoteCall` knows no transport: a request is asked for under its sender's next nonce, and may
take effect, once.

### ConfigInvoke

`TargetReturn` replaces the gateway's free choice of outcome by the target's
code. `OnlySolanaSender` is both checks of the modifier: the caller (`MsgSender`) and the
origin the gateway shows. An envelope may call the target in DIRECT mode, through the
sender's account, or through a contract that passes the call on and may
shrug off its revert. A call without enough gas (`Needs`) reverts, whatever its function would do. `ran` is
history. `invocations` and `lastArgsHash` are left out: the contract writes them and never reads them.

## Runs

Each takes seconds, `outbox`, `lz_dispatcher`, `bridge` and `config_invoke` a minute or so:
`tlc -workers 2 -config <run>.cfg <module>`.

| Run | Instance | Shows |
|---|---|---|
| `gateway_quorum` | messages `direct`, `other`, `malformed`; two adapters registered and removed; requirement 0, 1, 2; strict mode; pause; owner handover; retry override; time 0..2 | `TypeOK`, `ExecutedOnce`, `OriginShown`, `QuorumVouched`, and `ImplementsLifecycle`: every step is one of `MessageLifecycle` |
| `gateway_policy` | policy changes inside open calls as well as between them; five messages: expiring, ACCOUNT, an old version, one aimed at an account, one whose gas limit is too low; one adapter, and the target itself may become one | `RunsUnderCurrentPolicy`, `PrivilegedNeverCalled`, `SettledIsFinal` |
| `gateway_liveness` | two messages, two adapters, requirement 2, pause, strict mode, a target that may fail | `ParkedUntilExpiry`, `PendingResolves` |
| `outbox` | two senders, two nonces each, Wormhole in process and through a dispatcher, LayerZero through its dispatcher, id 9, a request below the gas floor, pause, admin handover, time 0..2 | `TypeOK`, `CarriedOnce`, `OneEnvelopePerNonce`, `NoncesGapless`, `BitsTellTheWire`, `AbandonedIsDead` |
| `lz_dispatcher` | real bytes, all different in a request; a call with five bytes of calldata and one with none; the dispatcher replaced, switched off and reinstated, another one on its transport, three foreign accounts, a store for the right transport or a wrong one; time 0..3 | `PacketsTellTheRequest`, `PaidForTheLimit`, `OnePacketPerMessage`, `BytesIdentifyRequest`, `EveryAccountReadable`, `ExpiringMessagesClose` |
| `adapters` | a call attested by both transports, a malformed one, the same call from another program; requirement 2; the peer of the LayerZero adapter changed and restored; pause; a relayer beside anyone else | `NothingSpentInVain`, `VotesBacked`, `EndpointDrains`, `VaaLands`, `AttestedTwiceSettles` |
| `bridge` | one sender with two requests that compete for nonce 1, one of them expiring; both transports; another program emitting the second; adapters registered and removed, the Wormhole adapter paused, handed over and its level changed; the source's clock 0..2 | `EveryVoteWasSent`, `BitsCoverVotes`, `QuorumCarried`, `ImplementsRemoteCall` |
| `gas_floor` | limits 50000..50130 (every residue of 63 and 64) up to 1.5 million, gas at the floor and around it, the reserve spent to the last unit | `DirectTargetGetsLimit`, `AccountTargetGetsLimit` |
| `config_invoke` | two changes; invokes of versions 1, 1 and 2, the last with a limit too low for it, so that it needs a retry with more; a change forged by the invoker, and one passed on by a contract that the configurer's account calls; two adapters | `VersionCountsConfigs`, `VersionIdentifiesConfig`, `AuthoritySeparated`, `LatestInvokeRuns` |

Why these bounds are enough: messages share no state but the guard, the pause,
the policy and the set of deployed accounts, so two or three are enough for any
interference the properties can tell, and the theorems below do not depend on
the number. Two adapters are what the repository has, one for each transport, as `QuorumCarried`
needs (`OneAdapterEach`). The clock needs a value
before, at and after an expiry; in `bridge` the destination's stands still at 0,
because what expiry does there is the matter of the gateway's runs and a second
moving clock multiplies the states. Two nonces per sender show a gap or a reuse.
In `bridge` one nonce is enough for two requests to compete for it, and `outbox` has two.

The remaining runs are expected to fail. Each checks one statement of a
document or comment and finds the behaviour that refutes it:

| Run | Statement | What happens |
|---|---|---|
| `gateway_lowered_quorum` | `ISolanaGateway.sol:9`: `Pending` is "still short of the required quorum"; `docs/05-operations.md:81`: deliver via the other transport | the requirement is lowered to the votes already cast by every adapter; `deliver` returns on `confirmedBy` before it looks at the quorum, and no call can move the message again |
| `executor_gas` | `docs/DESIGN.md:59`: the options keep a call from running out of gas on arrival; `LayerZeroAdapter.sol:20`: the executor calls "automatically -- no relayer to operate" | the options pay for the envelope's limit and nothing else; the gateway wants that limit, a 64th more and 40000; the executor's attempt reverts, and somebody has to make the endpoint try again with more gas. `ExecutorNeverCalls` proves it for every limit, mode and policy. Of a delivery that does not run the call, a first of two votes for instance, this says nothing: the model charges no gas for its writes, the chain does |
| `config_invoke_order` | `docs/DESIGN.md:683`: the guard makes "ran with the wrong config" impossible | versions number arrivals: two changes overtaking each other exchange versions |

Other places where a text and the code differ, read off while modelling and
not given a run:

- `SolanaGateway.sol:68` says adapters "must independently deliver a message
  before it executes"; `retry` (`:143`) does not look at the quorum, so a message
  parked on one vote runs on it after the owner has raised the requirement to two.
- `SolanaGateway.sol:250` says every frame needs its own inflation; ACCOUNT mode has
  three frames (clone and account code are two) and two inflations. The constants
  cover the third up to a limit of 2.48 million if the two spend nothing before they call, 1.68
  million if they spend 2700 and 10000 (`AccountFloor`). From 4.92 million on, a call
  made at the floor never gives its target the limit (`AccountShort`).
- `docs/DESIGN.md:669` says nothing is lost; an invoke that waits for a retry while the next
  configuration lands names a version that never comes back.
- `docs/05-operations.md:85` says calls with value park as `Failed`;
  `_terminalCheck` (`SolanaGateway.sol:182`) rejects them for good.
- `docs/05-operations.md:48` says a second relay of a message settles quietly at the
  gateway; the Wormhole adapter reverts with `AlreadyConsumed` (`WormholeAdapter.sol:110`) before it gets there.
- `transports/layerzero.rs:55` says no instruction calls `send`; `dispatch_via_layerzero` does (`lib.rs:284`).

And consequences of the code that no text denies: a message with expiry 0 whose
transport is never enabled cannot be closed by `finalize` (`lib.rs:364`), so its rent
stays locked; votes of an adapter keep counting after it is disabled, and an adapter that replaces
it consumes VAAs afresh, so the same VAA can make a second vote; the
dispatcher sends to the one `dst_eid` of its store, whatever destination the envelope names.

### Fairness

- Gateway: time passes. The open call returns (gas is finite). Anyone may
  retry, and adapters have transports that redeliver, so each is tried
  again whenever it can be; fairness is strong because a pause or another
  message's call disables it in between. An owner who pauses unpauses - without
  that nothing can be promised. Nothing is assumed of the rest of the owner's
  actions, nor that a target ever succeeds.
- Outbox with dispatcher (`LzFairSpec`): time passes, and someone calls
  `finalize`, which is open to anyone and returns the rent. Nothing is assumed of
  dispatchers, transports or the admin.
- Adapters (`AdaptersFairSpec`): the operator restarts a relayer that has exited
  and its calls are answered; someone with enough gas makes the endpoint try a packet it
  holds; an open call returns. Nothing is assumed of the owners: the properties
  say "if the adapter and the gateway are in the end left running with the peer
  pinned" in their antecedents, nor that anything is ever attested.
- ConfigInvoke: as for the gateway, with delivery and retry under one condition
  per message because a message has only one of them to wait for; a retry that counts
  is one with enough gas. It is assumed only of the configurer's changes and of
  the invokes of the last version: nobody need care for the rest.

No fairness is put on the clock of a safety run. All runs that go on for ever
check for deadlock as well; `gas_floor` and the configure/invoke runs stop
when the work is done.

## Proofs

The theorems hold for every value of the constants that satisfies the
assumption of the module (`GatewayAssumption`, `OutboxAssumption`,
`GasAssumption`, `ConfigInvokeAssumption`, `AdaptersAssumption`,
`BridgeAssumption`, `DispatcherAssumption`): any number of messages, adapters,
senders and transports, any choices of the owners and the admin.

**Gateway** (`GatewayProofs`). `ExecutedOnce` is not inductive: a redelivery from
inside a call could run the message again if the ledger did not already say
`Executed`. `IInv` adds what prevents it: the guard is up exactly while a call
is open (`GuardUp`), at most one call is open (`OneCall`), and its message is
already marked (`MarkedFirst`). From it follow `Once` and `TrueOrigin`,
and the action properties `Final` and `Vouched`; the last needs
`VotesCounted` too: the counter is the cardinality of the set of voters.
`CurrentPolicy` and `NoPrivilegedCall` judge a call at the moment it is opened - the
owner may change the policy under an open call - and need
only the types and `OpensChecked`: a step that opens a call has made every check.

**Refinement** (`GatewayRefinement`). `Implements`: with `phase` mapped by
`PhaseOf`, the initial state of the gateway is one of `MessageLifecycle`, and
each step moves one message, alone, along the life cycle, or none. Deliveries map to
`Await`, `Park`, `Refuse` or `Call`, retries to `Refuse` or `Call`, returns to
`Succeed` or `Fail`, all else to stuttering.

**Outbox** (`OutboxProofs`). `OInv` is inductive: an account holds an
envelope that `prepare` recorded under the account's own key (`AccountsTrue`), no
recorded nonce exceeds its sender's counter (`PreparedCounted`), so no key is used
twice (`KeysOnce`) and whatever is on a wire was prepared for it
(`WirePrepared`). Then a second dispatch of a key would be of the same
envelope, its bit would be set, and `mark_dispatch` refuses: `NoDoubleSend`.
`OneEnvelope`, `Gapless`, `BitsTrue` and `FinalizeSafe` come from the same
invariant.

**Gas** (`GasFloorProofs`). `DirectFloor`: for every limit and everything the
gateway may spend of its reserve. `AccountFloor` needs a hypothesis, `Covered`: the
third frame is paid by `ACCOUNT_FRAME_OVERHEAD`, so a 64th of the limit and what
clone and account code spend before they call must fit in it (`OverheadCovers`, which carries each
down to the target in exact terms). `AccountShort` shows that some such bound is
the code's and not the proof's: with limits from 4.92 million on and no more gas than
the floor at the start, the target always gets less than its limit, even if the frames spend nothing.

**Adapters** (`AdaptersProofs`). `AdaptersRefineGateway`: each step is a step of the
gateway or leaves it alone, so all of the above holds behind the adapters. `SpentForSomething`
needs of the gateway that a delivery that does not revert either counts the vote
or finds the message past counting, and that nothing takes a vote or a settled status
back; `AInv` carries it along with the types and the fact that a packet is held or cleared, not
both. That last fact is what makes a cleared packet a new one in `EveryVoteBought`.

**ConfigInvoke** (`ConfigInvokeProofs`). `CInv` adds to the gateway's `IInv` that
no invoke that ran names a version that is still to come, and that one that names the
version of the moment ran under the configuration of the moment
(`RanUnderItsVersion`): the next configuration has a version no invoke has run under.
That the gateway never calls itself (`NotItself`) is why a call with the gateway as its caller is one of
DIRECT mode to the target, and `RanOnce` why a message that did something there has its call counted.
The theorems cover what the run does not have: a call straight from an account, any number of contracts in between.
`VersionCounts` counts the configuration messages that took effect, so it needs their set to be
finite (`Done`).

**Bridge** (`BridgeProofs`). `BInv` joins `IInv`, `AInv` and the outbox's `OInv` (the
theorems of `OutboxProofs` through an INSTANCE under the same substitution) with what links
the chains: what is attested in the outbox's name was carried (`Attested`), and votes
came from it (`CarriedVotes`), because the peers are pinned (`PeersPinned`). `VotesWereSent` and `BitsCover` follow;
`BridgeImplements` maps an outbox step to `Ask` or a stutter and a gateway step to
`TakeEffect` or a stutter. That a message which ran or is parked
has a vote behind it (`Voted`) makes `TakeEffect`'s guard, "asked for", true. From the steps of
`RemoteCall` alone follows `NonceTakesEffectOnce`, what the promise is worth to a sender.
`BridgeRefinesOutbox` carries the outbox's theorems over, as `BridgeRefinesAdapters` does the
destination's.

`QuorumOfTransports` says that a quorum of adapters is one of transports. A wait ends with as many
voters as the target requires (`Vouched`); by `CarriedVotes` each voter's transport carried the
message, and under `OneAdapterEach` voters map one to one to transports, so these are as many
(`VotesAreTransports`). The hypothesis is necessary: with a second adapter of one transport,
that transport alone meets a requirement of two.

`ExecutorNeverCalls` rests on `PaidExactly`, that the endpoint holds packets with exactly the gas their
envelope names, and `FloorAbove`, that the gateway's floor exceeds every limit. A delivery that reaches the floor reverts, and any other
opens no call.

**Codec and dispatcher** (`LzDispatcherProofs`). The layouts are proved as lemmas about
slices of joined sequences: what is appended leaves what is before it in place (`Before`) and
is found behind it (`Behind`). `Header`, `Trailer`, `HeadLayout` and `TailLayout` name where every
field lies; `WordField` says that a field the decoder cuts from a word is a slice of the
envelope and never reaches behind it. From them `RoundTrip`, for any call within the
size limit or beyond, and `Read`. `OneEncoding` is the converse: two envelopes it accepts and reads alike
are one, since each field is a slice (`FieldsOf`, `SameSlice`) and the decoder accepts
no length but the header's and the calldata's. `LzInv` has the store's type and the size limit
`prepare` enforces (without it, the length would not fit its four bytes). `AccountsReadable`
adds `OInv`; `PInv` says each packet is the envelope of a recorded request,
with its gas, and gives `PacketsTell` and `PaidForWhatIsRead`. `DispatcherRefinesOutbox`
carries the outbox's theorems over.

`BytesIdentify` and `OnePacket` say that the hash by which the destination counts, settles and refuses is
about one request. They use two facts about the platform, stated in `DispatcherAssumption`: different authorities
have different keys (an authority is its public key), and nonces fit in 64 bits
(`SenderState.nonce` is a `u64` advanced by `checked_add`). Then bytes tell the sender and the nonce, and
`KeysOnce` the request. `OnceInv` adds to `PInv` that packets are among what the outbox carried for
the store's transport and that no two are of one entry: the outbox's bit refuses the
second `mark_dispatched`, whichever dispatcher asks, and the transaction undoes the send.

**Model-checked only.** Liveness under fairness is outside the prover:
`ParkedUntilExpiry`, `PendingResolves`, `ExpiringMessagesClose`,
`LatestInvokeRuns`, `EndpointDrains`, `VaaLands`, `AttestedTwiceSettles`. Every
safety property a run checks is a theorem.

## Not modelled, and why

- Copying a long return data, which spends gas after the call: a matter of the
  compiled code.
- `SolanaAccount.initialize` has no step of its own: the gateway deploys and
  initializes in one transaction, which is `Run`'s deployment. Its two guards
  can only be met by a call to the clone's code from elsewhere, which changes nothing.
- Test doubles, deployment and build scripts: no state of the running system.
- Solana's and Ethereum's consensus, the guardians' signatures and LayerZero's
  verifier network: a transaction is final when it happens, and an attestation is true or
  never comes.
- Lamports, fees and bumps; events and logs.

## Plan

Done, in this order: `Gateway` with `MessageLifecycle` (the heart of the system),
`Outbox`, `GasFloor`, `ConfigInvoke` and their proofs; `Codec` and
`LzDispatcher`, `Adapters`, `Bridge` with `RemoteCall`, and theirs.

Left:

1. A bridge whose destination clock moves too, and a second sender, once a
   coarser gateway keeps it small.
2. An end-to-end liveness property: a request dispatched over all its transports is settled,
   under the fairness of `AdaptersFairSpec` and of dispatch.
