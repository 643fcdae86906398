------------------------------ MODULE MCGateway ------------------------------
(***************************************************************************)
(* Instances of Gateway for TLC.  The envelopes below are the ones a       *)
(* configuration picks its Message from; each owner's call a configuration *)
(* allows is listed here too.                                              *)
(***************************************************************************)
EXTENDS Gateway

CONSTANTS
  alice, bob,                        \* owners
  s1, s2,                            \* Solana senders
  a1, a2, t1, acc1, acc2,            \* adapters, a target, the senders' accounts
  direct, other, dear, account, toAccount, malformed, oldVersion

MCAddress == {Zero, Self, accountImplementation, a1, a2, t1, acc1, acc2}
MCAccountFor == [s \in {s1, s2} |-> IF s = s1 THEN acc1 ELSE acc2]

\* A DIRECT call from s1 to t1 that expires at 1.
Base ==
  [decodes |-> TRUE, version |-> 1, msgType |-> 0, srcChainId |-> 1, dstChainId |-> 3,
   sender |-> s1, nonce |-> 1, target |-> t1, value |-> 0, gasLimit |-> 1,
   expiry |-> 1, mode |-> 0, selector |-> 7]

EnvOf(m) ==
  CASE m = direct     -> Base
    [] m = other      -> [Base EXCEPT !.sender = s2, !.expiry = 0]
    [] m = dear       -> [Base EXCEPT !.nonce = 2, !.expiry = 0]
    [] m = account    -> [Base EXCEPT !.nonce = 3, !.mode = 1, !.expiry = 0]
    [] m = toAccount  -> [Base EXCEPT !.sender = s2, !.target = acc1, !.expiry = 0]
    [] m = malformed  -> [Base EXCEPT !.decodes = FALSE]
    [] m = oldVersion -> [Base EXCEPT !.version = 2, !.expiry = 0]

MCEnv == [m \in Message |-> EnvOf(m)]
MCNeeds == [m \in Message |-> IF m = dear THEN 2 ELSE 1]

None == {}
BothWays == BOOLEAN
AdaptersBothWays == {a1, a2} \X BOOLEAN
AdaptersOn == {a1, a2} \X {TRUE}
OneAdapterAndTarget == {<<a1, TRUE>>, <<t1, TRUE>>}
Quorum012 == {t1} \X {0, 1, 2}
Quorum2 == {<<t1, 2>>}
Quorum32 == {t1} \X {2, 3}
Version2 == {2} \X BOOLEAN
StrictT1 == {t1} \X BOOLEAN
AllowS1 == {<<t1, s1, 7>>} \X BOOLEAN

(***************************************************************************)
(* What the repository's documents and comments say that the code does not *)
(* do.                                                                     *)
(***************************************************************************)

\* Pending is documented as "still short of the required quorum", cured by
\* delivering over the other transport.  When the owner lowers the requirement
\* to the votes that every registered adapter has already cast, nothing moves
\* the message any more: each redelivery is a duplicate.
QuorumMetLeavesPending ==
  \A m \in Message :
    (/\ status[m] = "Pending"
     /\ \A c \in AdapterChoice : c[1] \in isAdapter
     /\ confirmations[m] >= Required(Env[m].target)) ~> status[m] # "Pending"
===============================================================================
