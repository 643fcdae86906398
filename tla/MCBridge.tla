-------------------------------- MODULE MCBridge --------------------------------
(***************************************************************************)
(* Instances of Bridge for TLC: one sender, one adapter per transport, a   *)
(* call and another that a sender may ask for under the same nonce.        *)
(***************************************************************************)
EXTENDS Bridge

CONSTANTS
  alice, bob, adm, s1, t1, acc1, wh, lz,  \* owners, sender, target, its account, the adapters
  emitter, oapp, theirs,             \* our two PDAs, and another program
  lzd, call, other

MCAddress == {Zero, Self, accountImplementation, t1, acc1, wh, lz}
MCAccountFor == [s \in Sender |-> acc1]

MCParams ==
  [c \in SrcCall |->
    [dst_chain_id |-> 3, zero_target |-> FALSE, gas_limit |-> 50000, mode |-> 0, size |-> 4]]
MCTargetOf == [c \in SrcCall |-> t1]
MCSelectorOf == [c \in SrcCall |-> 7]

Letter(n, c, expiry) == [sender |-> s1, nonce |-> n, call |-> c, expiry |-> expiry]
MCMessage == {Letter(1, call, 1), Letter(1, other, 0)}
MCEnv == [m \in Message |-> Decoded(m)]
MCNeeds == [m \in Message |-> 50000]
MCPeer == [a \in {wh, lz} |-> IF a = wh THEN emitter ELSE oapp]

VaaOf(e, m) ==
  [emitterChainId |-> 1, emitterAddress |-> e, sequence |-> 1, consistencyLevel |-> 1,
   payload |-> m]

PacketOf(e, m) ==
  [receiver |-> lz, srcEid |-> 30168, sender |-> e, nonce |-> 1, message |-> m, gas |-> 50000]

\* What the outbox may send over either transport; another program emits one
\* of the two in its own name.
MCVaa == {VaaOf(emitter, m) : m \in MCMessage} \cup {VaaOf(theirs, Letter(1, other, 0))}
MCPacket == {PacketOf(oapp, m) : m \in MCMessage} \cup {PacketOf(theirs, Letter(1, other, 0))}

None == {}
NoJobs == [r \in {} |-> 0]
Registrations == {<<1, TRUE, DefaultKey>>, <<2, TRUE, lzd>>}
Requests == {<<s1, call, 1, {1, 2}>>, <<s1, other, 0, {1, 2}>>}
BothWays == {wh, lz} \X BOOLEAN
LevelsBothWays == {wh} \X {0, 1}
WhHeir == {<<wh, bob>>}
WhOff == {wh} \X BOOLEAN
Quorum2 == {<<t1, 2>>}
===============================================================================
