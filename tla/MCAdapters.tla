------------------------------ MODULE MCAdapters ------------------------------
(***************************************************************************)
(* Instances of Adapters for TLC: one adapter per transport.               *)
(***************************************************************************)
EXTENDS Adapters

CONSTANTS
  alice, s1, t1, acc1, wh, lz,     \* owner, sender, target, its account, the adapters
  ours, theirs,                    \* our Solana emitter, and another program
  call, broken,                    \* envelopes
  r1                               \* a relayer

MCAddress == {Zero, Self, accountImplementation, t1, acc1, wh, lz}
MCAccountFor == [s \in Sender |-> acc1]

Base ==
  [decodes |-> TRUE, version |-> 1, msgType |-> 0, srcChainId |-> 1, dstChainId |-> 3,
   sender |-> s1, nonce |-> 1, target |-> t1, value |-> 0, gasLimit |-> 50000,
   expiry |-> 0, mode |-> 0, selector |-> 7]

EnvOf(m) ==
  CASE m = call   -> Base
    [] m = broken -> [Base EXCEPT !.decodes = FALSE]

MCEnv == [m \in Message |-> EnvOf(m)]
MCNeeds == [m \in Message |-> 50000]
MCPeer == [a \in {wh, lz} |-> ours]

VaaOf(e, m) ==
  [emitterChainId |-> 1, emitterAddress |-> e, sequence |-> 0, consistencyLevel |-> 1,
   payload |-> m]

PacketOf(e, n, m) ==
  [receiver |-> lz, srcEid |-> 30168, sender |-> e, nonce |-> n, message |-> m, gas |-> 50000]

\* Wormhole attests the call; LayerZero attests it too, and a message that is
\* refused, and the same call from another program.
OneVaa == {VaaOf(ours, call)}
Packets == {PacketOf(ours, 1, call), PacketOf(ours, 2, broken), PacketOf(theirs, 1, call)}
TwoPackets == {PacketOf(ours, 1, call), PacketOf(ours, 2, broken)}

Jobs == [r \in Relayer |-> <<wh, VaaOf(ours, call)>>]

None == {}
BothOn == {wh, lz} \X {TRUE}
LzPeers == {lz} \X {ours, theirs}
Quorum2 == {<<t1, 2>>}

(***************************************************************************)
(* The options are built in-program so that a call does not "run out of    *)
(* gas on arrival" (docs/DESIGN.md:59), and the executor calls the adapter *)
(* "automatically -- no relayer to operate" (LayerZeroAdapter.sol:18).     *)
(* They pay for the envelope's gas limit and nothing else, while the       *)
(* gateway asks for that limit, its 64/63 inflation and a reserve.         *)
(***************************************************************************)
PaidGasSuffices == starved = {}
===============================================================================
