---------------------------- MODULE MCLzDispatcher ----------------------------
(***************************************************************************)
(* Instances of LzDispatcher for TLC.  Every byte of a request differs     *)
(* from its neighbours, so that a field read one byte off shows.           *)
(***************************************************************************)
EXTENDS LzDispatcher

CONSTANTS adm, a1, lzd, other, call, bare, adapter, newAdapter, k1, k2, k3, mimic

\* 300000 = 0x0493E0; the other call carries no calldata, so that the
\* decoder's last word reaches behind the envelope.
MCParams ==
  [c \in Call |->
    [dst_chain_id |-> 3, zero_target |-> FALSE, mode |-> 1,
     size |-> IF c = bare THEN 0 ELSE 5, gas_limit |-> IF c = bare THEN 50000 ELSE 300000]]

MCBody ==
  [c \in Call |->
    [target |-> [i \in 1 .. 20 |-> 150 + i], value |-> [i \in 1 .. 16 |-> 180 + i],
     calldata |-> IF c = bare THEN <<>> ELSE <<222, 173, 190, 239, 1>>]]

MCKey == [a \in Authority |-> [i \in 1 .. 32 |-> 16 + i]]
MCPayer == [i \in 1 .. 32 |-> 60 + i]

\* An account of another program with a message account's bytes, one of the
\* outbox's own that is something else, and one cut short.
CopyOf(n) ==
  AccountData(MCKey[a1], MCPayer, U64(n), U64(0), {2}, {}, 254,
    EncodeEnvelope(MCKey[a1], U64(n),
      [dst_chain_id |-> U16(3), target |-> MCBody[call].target, value |-> Zeros(16),
       gas_limit |-> U64(50000), expiry |-> U64(0), mode |-> 0, calldata |-> <<>>]))

MCForeign ==
  {[key |-> k1, owner |-> mimic, data |-> CopyOf(1)],
   [key |-> k2, owner |-> BaseCaller, data |-> Zeros(49)],
   [key |-> k3, owner |-> BaseCaller, data |-> SubSeq(CopyOf(1), 1, 190)]}

Stores ==
  {[admin |-> adm, base_caller_program |-> BaseCaller, transport_id |-> t,
    dst_eid |-> 30184, peer |-> adapter] : t \in {2, 3}}
Peers == {<<30184, newAdapter>>}

Registrations == {<<1, TRUE, DefaultKey>>, <<2, TRUE, lzd>>, <<2, TRUE, other>>, <<2, FALSE, lzd>>}
Requests == {<<a1, bare, 0, {2}>>, <<a1, call, 2, {1, 2}>>}
===============================================================================
