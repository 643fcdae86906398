------------------------------- MODULE MCOutbox -------------------------------
(***************************************************************************)
(* Instances of Outbox for TLC.                                            *)
(***************************************************************************)
EXTENDS Outbox

CONSTANTS a1, a2, lzd, small, swap, cheap

\* Two calls that prepare accepts and one below the gas floor.
MCParams ==
  [c \in Call |->
    [dst_chain_id |-> 3, zero_target |-> FALSE, mode |-> 0, size |-> 4,
     gas_limit |-> IF c = cheap THEN MIN_GAS_LIMIT - 1 ELSE MIN_GAS_LIMIT]]

\* Wormhole in this program, then with a dispatcher besides, LayerZero through
\* its dispatcher, and an id that set_transport accepts but that has no bit.
BothTransports ==
  {<<1, TRUE, DefaultKey>>, <<1, TRUE, lzd>>, <<2, TRUE, lzd>>, <<9, TRUE, lzd>>}

Requests ==
  {<<a1, small, 1, {1, 2}>>, <<a1, swap, 0, {2}>>, <<a1, cheap, 0, {1}>>, <<a2, small, 1, {1}>>}
===============================================================================
