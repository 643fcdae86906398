------------------------------- MODULE GasFloor -------------------------------
(***************************************************************************)
(* The gas floor of SolanaGateway._run and _gasFloor: a call is made only  *)
(* with enough gas left that the target receives the limit the envelope    *)
(* certifies.  A call hands its callee at most all but one 64th of what    *)
(* the caller has left (the EVM's rule), so the state here is the gas of   *)
(* one execution as it goes down the frames.  What a frame spends before   *)
(* its call is chosen from a set: the compiler decides it, not the source. *)
(***************************************************************************)
EXTENDS GasRule

CONSTANTS
  Limit,         \* certified gas limits
  Spare,         \* gas supplied beyond the floor, negative for too little
  GatewaySpends, CloneSpends, CodeSpends  \* what each frame uses before its call

ASSUME GasAssumption ==
  /\ Limit \subseteq Nat
  /\ Spare \subseteq Int
  /\ GatewaySpends \subseteq 0 .. GAS_RESERVE
  /\ CloneSpends \subseteq Nat
  /\ CodeSpends \subseteq Nat

VARIABLES frame, gas, gasLimit, mode

vars == <<frame, gas, gasLimit, mode>>

\* What a call with a gas argument g receives when its caller has h left.
AllButOne64th(h) == h - h \div 64
Forward(h, g) == IF g <= AllButOne64th(h) THEN g ELSE AllButOne64th(h)

Init ==
  /\ frame = "gateway"
  /\ gasLimit \in Limit
  /\ mode \in {MODE_DIRECT, MODE_ACCOUNT}
  /\ \E d \in Spare : gas = GasFloorOf(gasLimit, mode) + d

Step(from, to, g) ==
  /\ frame = from
  /\ frame' = to
  /\ gas' = g
  /\ UNCHANGED <<gasLimit, mode>>

\* revert InsufficientGas: the delivery leaves no trace and can be made again.
Revert ==
  /\ gas < GasFloorOf(gasLimit, mode)
  /\ Step("gateway", "reverted", gas)

\* e.target.call{gas: gasLimit}
CallTarget(c) ==
  /\ mode = MODE_DIRECT
  /\ gas >= GasFloorOf(gasLimit, mode)
  /\ Step("gateway", "target", Forward(gas - c, gasLimit))

\* ISolanaAccount(account).execute, on the sender's clone
CallAccount(c) ==
  /\ mode = MODE_ACCOUNT
  /\ gas >= GasFloorOf(gasLimit, mode)
  /\ Step("gateway", "clone", AllButOne64th(gas - c))

\* The EIP-1167 clone delegates to the account code, a frame of its own.
Delegate(c) == gas >= c /\ Step("clone", "code", AllButOne64th(gas - c))

\* SolanaAccount.execute: target.call{gas: gasLimit}
Execute(c) == gas >= c /\ Step("code", "target", Forward(gas - c, gasLimit))

Next ==
  \/ Revert
  \/ \E c \in GatewaySpends : CallTarget(c) \/ CallAccount(c)
  \/ \E c \in CloneSpends : Delegate(c)
  \/ \E c \in CodeSpends : Execute(c)

Spec == Init /\ [][Next]_vars

(***************************************************************************)
(* Properties                                                              *)
(***************************************************************************)

\* A DIRECT call that is made at all gives its target the certified gas, with
\* whatever the gateway spends of its reserve after the check (_gasFloor).
DirectTargetGetsLimit ==
  frame = "target" /\ mode = MODE_DIRECT => gas >= gasLimit

\* The same for an ACCOUNT call, whose gas goes through the account and its
\* clone.  The floor inflates for two frames where there are three: it holds
\* until a 64th of the limit and the work of the two frames exceed the overhead
\* (GasFloorProofs: AccountFloor, and AccountShort for what comes after).
AccountTargetGetsLimit ==
  frame = "target" /\ mode = MODE_ACCOUNT => gas >= gasLimit
===============================================================================
