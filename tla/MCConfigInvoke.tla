---------------------------- MODULE MCConfigInvoke ----------------------------
(***************************************************************************)
(* Instances of ConfigInvoke for TLC: configurations first and second,     *)
(* sent in that order, and invokes that expect version 1 or 2.  t1 is the  *)
(* target and t2 a contract that passes calls on to it.                    *)
(***************************************************************************)
EXTENDS ConfigInvoke

CONSTANTS
  owner1, s1, s2, a1, a2, t1, t2, acc1, acc2,
  set1, set2, inv1, again1, inv2, forged, passedOn

MCAddress == {Zero, Self, accountImplementation, a1, a2, t1, t2, acc1, acc2}
MCAccountFor == [s \in {s1, s2} |-> IF s = s1 THEN acc1 ELSE acc2]

\* inv2 was sent with too low a limit.
MCNeeds == [m \in Message |-> IF m = inv2 THEN 2 ELSE 1]

Base ==
  [decodes |-> TRUE, version |-> 1, msgType |-> 0, srcChainId |-> 1, dstChainId |-> 3,
   sender |-> s1, nonce |-> 1, target |-> t1, value |-> 0, gasLimit |-> 1,
   expiry |-> 0, mode |-> 0, selector |-> 7]

\* s1 configures and s2 invokes.  Two more would configure: forged comes from
\* the invoker, and passedOn is a call of t2's, which the configurer's account
\* has called.
MCEnv ==
  [m \in Message |->
    CASE m = set1   -> Base
      [] m = set2   -> [Base EXCEPT !.nonce = 2]
      [] m = inv1   -> [Base EXCEPT !.sender = s2, !.selector = 8]
      [] m = again1 -> [Base EXCEPT !.sender = s2, !.selector = 8, !.nonce = 2]
      [] m = inv2   -> [Base EXCEPT !.sender = s2, !.selector = 8, !.nonce = 3]
      [] m = forged -> [Base EXCEPT !.sender = s2, !.nonce = 4]
      [] m = passedOn -> [Base EXCEPT !.nonce = 3, !.mode = 1, !.target = t2]]

MCCalldata ==
  [m \in Message |->
    IF m \in {set1, set2, forged, passedOn}
    THEN [fn |-> "setConfig", config |-> IF m = set2 THEN "second" ELSE "first"]
    ELSE [fn |-> "invoke", expectedVersion |-> IF m = inv2 THEN 2 ELSE 1]]

NoChoice == {}
AccountsOn == {TRUE}
AdaptersOn == {a1, a2} \X {TRUE}
OneAdapter == {<<a1, TRUE>>}

(***************************************************************************)
(* What the documents say that the code does not do.                       *)
(***************************************************************************)

\* The version guard is said to make "ran with the wrong config" impossible.
\* The version counts arrivals, and two changes that arrive in the other order
\* exchange their numbers: the invoke meant for one runs against the other.
RanUnderSourceConfig ==
  \A m \in Message :
    ~Sets(m) /\ ran[m] # NoConfig =>
      ran[m] = IF Calldata[m].expectedVersion = 1 THEN "first" ELSE "second"
===============================================================================
