----------------------------- MODULE ConfigInvoke -----------------------------
(***************************************************************************)
(* ConfigInvokeTarget, the target the repository proposes, behind the      *)
(* gateway.  The gateway's steps are those of module Gateway, except that  *)
(* a call which reaches this target returns what the target's code decides *)
(* from its caller and the origin shown (SolanaCallable.onlySolanaSender). *)
(*                                                                         *)
(* An envelope reaches the target in one of three ways: the gateway calls  *)
(* it in DIRECT mode, the sender's account calls it in ACCOUNT mode, or a  *)
(* contract that the gateway called passes the call on.  Calldata is what  *)
(* arrives.  The counter of invocations and the hash of the last arguments *)
(* are left out: the contract writes them and reads neither.               *)
(***************************************************************************)
EXTENDS Gateway

CONSTANTS
  This,                 \* the target's address
  CONFIGURER, INVOKER,  \* the two Solana authorities
  Config,               \* configurations
  Enabled,              \* the configurations with enabled set
  NoConfig,             \* the one of a new contract, not enabled
  Calldata              \* Calldata[m]: the function called for m, and its argument

ASSUME ConfigInvokeAssumption ==
  /\ This \in Address \ {Self}
  /\ \A s \in Sender : accountFor[s] # Self
  /\ {CONFIGURER, INVOKER} \subseteq Sender
  /\ Enabled \subseteq Config
  /\ NoConfig \notin Config
  /\ \A m \in Message : Calldata[m] \in [fn : {"setConfig"}, config : Config]
                                     \cup [fn : {"invoke"}, expectedVersion : Nat]

VARIABLES
  config, configVersion,
  ran  \* history: the configuration each message has set, or was run against

target == <<config, configVersion, ran>>

TargetInit ==
  /\ Init
  /\ config = NoConfig
  /\ configVersion = 0
  /\ ran = [m \in Message |-> NoConfig]

\* msg.sender, as the target sees it in the call for m.
MsgSender(m) ==
  LET e == Env[m] IN
  IF e.target # This THEN e.target
  ELSE IF e.mode = MODE_DIRECT THEN Self ELSE accountFor[e.sender]

\* Definitions named Bad... are faulty variants of the one that follows them:
\* each of these forgets one half of the check.
BadOnlySolanaSender(c, expected) == MsgSender(c.msg) = Self
BadOnlyOrigin(c, expected) == xDomain.sender = expected

OnlySolanaSender(c, expected) ==
  /\ MsgSender(c.msg) = Self
  /\ xDomain.sender = expected

SetConfig(c) ==
  LET d == Calldata[c.msg] IN
  /\ d.fn = "setConfig"
  /\ OnlySolanaSender(c, CONFIGURER)
  /\ config' = d.config
  /\ configVersion' = configVersion + 1
  /\ ran' = [ran EXCEPT ![c.msg] = d.config]

\* Waits for the version after the one it names.
BadInvoke(c) ==
  LET d == Calldata[c.msg] IN
  /\ d.fn = "invoke"
  /\ OnlySolanaSender(c, INVOKER)
  /\ configVersion = d.expectedVersion + 1
  /\ config \in Enabled
  /\ ran' = [ran EXCEPT ![c.msg] = config]
  /\ UNCHANGED <<config, configVersion>>

\* Runs under any version.
BadInvokeUnguarded(c) ==
  LET d == Calldata[c.msg] IN
  /\ d.fn = "invoke"
  /\ OnlySolanaSender(c, INVOKER)
  /\ config \in Enabled
  /\ ran' = [ran EXCEPT ![c.msg] = config]
  /\ UNCHANGED <<config, configVersion>>

Invoke(c) ==
  LET d == Calldata[c.msg] IN
  /\ d.fn = "invoke"
  /\ OnlySolanaSender(c, INVOKER)
  /\ configVersion = d.expectedVersion
  /\ config \in Enabled
  /\ ran' = [ran EXCEPT ![c.msg] = config]
  /\ UNCHANGED <<config, configVersion>>

\* What makes the call revert: too little gas, or a check of the function's.
Reverts(c) ==
  LET d == Calldata[c.msg] IN
  \/ c.gas < Needs[c.msg]
  \/ d.fn = "setConfig" /\ ~OnlySolanaSender(c, CONFIGURER)
  \/ /\ d.fn = "invoke"
     /\ \/ ~OnlySolanaSender(c, INVOKER)
        \/ configVersion # d.expectedVersion
        \/ config \notin Enabled

\* A contract in between may fail with the target's revert or shrug it off.
TargetReturn(c) ==
  \/ Return(c, TRUE) /\ (SetConfig(c) \/ Invoke(c))
  \/ Return(c, FALSE) /\ Reverts(c) /\ UNCHANGED target
  \/ /\ Env[c.msg].target # This
     /\ Return(c, TRUE)
     /\ Reverts(c)
     /\ UNCHANGED target

TargetNext ==
  \/ \E c \in running : TargetReturn(c)
  \/ /\ \/ \E a \in Address, m \in Message : Deliver(a, m)
        \/ \E m \in Message, g \in OverrideChoice : Retry(m, g)
        \/ \E p \in Principal : SetPolicy(p) \/ SetAuth(p)
        \/ Tick
     /\ UNCHANGED target

targetVars == <<vars, target>>

TargetSpec == TargetInit /\ [][TargetNext]_targetVars

Sets(m) == Calldata[m].fn = "setConfig"
Addressed(m) == Env[m].target = This /\ Env[m].mode = MODE_DIRECT

\* The changes the configurer sends, and the invokes that name the version they
\* all lead to.
Changes == {m \in Message : Sets(m) /\ Addressed(m) /\ Env[m].sender = CONFIGURER}

LatestInvokes ==
  {m \in Message : /\ ~Sets(m)
                   /\ Addressed(m)
                   /\ Env[m].sender = INVOKER
                   /\ Calldata[m].expectedVersion = Cardinality(Changes)}

\* As in Gateway, transports redeliver, anyone retries and the call returns; a
\* retry of a call that runs out of gas is made with more.  A message is
\* delivered while it is new and retried once it is parked, never both, so one
\* strong fairness condition stands for the two.  Nobody need care for any
\* other message.
Suffices(m, g) == (IF g = 0 THEN Env[m].gasLimit ELSE g) >= Needs[m]

Attempt(m) ==
  /\ \/ \E c \in AdapterChoice : Deliver(c[1], m)
     \/ \E g \in OverrideChoice : Suffices(m, g) /\ Retry(m, g)
  /\ UNCHANGED target

TargetFairSpec ==
  /\ TargetSpec
  /\ WF_targetVars(\E c \in running : TargetReturn(c))
  /\ \A m \in Changes \cup LatestInvokes : SF_targetVars(Attempt(m))

(***************************************************************************)
(* Properties                                                              *)
(***************************************************************************)
\* The version counts the configuration messages to the target that took
\* effect, each once, however often the transports delivered or anyone retried
\* them, and nothing else: neither a second delivery nor a call that reaches
\* the target through an account or another contract, not even one the
\* configurer's own message set off, moves the version under the invokes.
VersionCountsConfigs ==
  configVersion =
    Cardinality({m \in Message : Sets(m) /\ Addressed(m) /\ effects[m] > 0})

\* Two invokes that name the same version ran against the same configuration:
\* the version identifies it (the guard of invoke, the bump of setConfig).
VersionIdentifiesConfig ==
  \A m, k \in Message :
    (/\ ~Sets(m) /\ ~Sets(k)
     /\ ran[m] # NoConfig /\ ran[k] # NoConfig
     /\ Calldata[m].expectedVersion = Calldata[k].expectedVersion)
      => ran[m] = ran[k]

\* A message does something at the target only if it was addressed to it, in
\* DIRECT mode, by the authority of the function it calls: the invoker cannot
\* configure, though both go through one gateway and interleave there, and a
\* contract that either of them calls cannot act in their name
\* (onlySolanaSender, the origin shown by the gateway).
AuthoritySeparated ==
  \A m \in Message :
    ran[m] # NoConfig =>
      Addressed(m) /\ Env[m].sender = IF Sets(m) THEN CONFIGURER ELSE INVOKER

\* An invoke that names the version all the configuration changes lead to runs
\* in the end, in whatever order they and it are delivered: parked while the
\* version is still short or when its gas runs out, retried once the last of
\* them has landed, or with more gas.
LatestInvokeRuns ==
  \A m \in LatestInvokes : status[m] = "Failed" ~> ran[m] # NoConfig
===============================================================================
