-------------------------- MODULE ConfigInvokeProofs --------------------------
(***************************************************************************)
(* Theorems about ConfigInvoke, for any messages, configurations and       *)
(* choices of the owner.  The target only acts while the gateway calls it, *)
(* so what GatewayProofs shows of the gateway holds here, and is what the  *)
(* target's own invariants rest on: a call is open once, its effect has    *)
(* not been counted yet, it reads the sender of its own message, and the   *)
(* gateway never calls itself, so that what it calls is not its equal.     *)
(***************************************************************************)
EXTENDS ConfigInvoke, GatewayProofs

\* The target never does what the gateway would not.
LEMMA TargetSteps == [TargetNext]_targetVars => [Next]_vars
BY DEF TargetNext, TargetReturn, Next, targetVars

\* Behind the gateway the target is only ever called as Gateway says.
THEOREM TargetRefinesGateway == TargetSpec => Spec
<1>1. TargetInit => Init
  BY DEF TargetInit
<1> QED
  BY <1>1, TargetSteps, PTL DEF TargetSpec, Spec

(***************************************************************************)
(* The invariant.  A version is given to one configuration only, so it is  *)
(* enough to know that an invoke which took effect under the version of    *)
(* the moment ran against the configuration of the moment, and that none   *)
(* named a later one.                                                      *)
(***************************************************************************)
Done == {m \in Message : Sets(m) /\ Addressed(m) /\ effects[m] > 0}

\* What no call has reached yet has done nothing.
RanOnce == \A m \in Message : effects[m] = 0 => ran[m] = NoConfig

NotItself == \A c \in running : Env[c.msg].target # Self

RanUnderItsVersion ==
  \A m \in Message : ~Sets(m) /\ ran[m] # NoConfig =>
    /\ Calldata[m].expectedVersion <= configVersion
    /\ Calldata[m].expectedVersion = configVersion => ran[m] = config

TargetType ==
  /\ configVersion \in Nat
  /\ ran \in [Message -> Config \cup {NoConfig}]
  /\ config \in Config \cup {NoConfig}

CInv ==
  /\ IInv
  /\ TargetType
  /\ NotItself
  /\ RanOnce
  /\ IsFiniteSet(Done)
  /\ VersionCountsConfigs
  /\ RanUnderItsVersion
  /\ VersionIdentifiesConfig
  /\ AuthoritySeparated

LEMMA CInvInit == TargetInit => CInv
<1> SUFFICES ASSUME TargetInit PROVE CInv
  OBVIOUS
<1>1. IInv
  BY IInvInit DEF TargetInit
<1>2. \A m \in Message : effects[m] = 0
  BY DEF TargetInit, Init
<1>3. Done = {}
  BY <1>2 DEF Done
<1>4. IsFiniteSet(Done) /\ VersionCountsConfigs
  BY <1>3, FS_EmptySet DEF Done, VersionCountsConfigs, TargetInit
<1>5. TargetType
  BY DEF TargetInit, TargetType
<1>6. NotItself
  BY DEF TargetInit, Init, NotItself
<1>7. \A m \in Message : ran[m] = NoConfig
  BY DEF TargetInit
<1> QED
  BY <1>1, <1>4, <1>5, <1>6, <1>7
     DEF CInv, RanOnce, RanUnderItsVersion, VersionIdentifiesConfig, AuthoritySeparated

\* A call is opened only to another than the gateway.
LEMMA NotItselfStep == TypeOK /\ NotItself /\ [Next]_vars => NotItself'
<1> SUFFICES ASSUME TypeOK, NotItself, [Next]_vars, NEW c \in running'
             PROVE  Env[c.msg].target # Self
  BY DEF NotItself
<1>1. CASE c \in running
  BY <1>1 DEF NotItself
<1>2. CASE c \notin running
  <2>1. ~Terminal(c.msg)
    BY <1>2, OpensChecked
  <2> QED
    BY <2>1 DEF Terminal, Forbidden
<1> QED
  BY <1>1, <1>2

\* A step in which nothing takes effect at the target.
LEMMA NoEffect ==
  ASSUME CInv, IInv', NotItself', UNCHANGED target,
         Done' = Done, \A m \in Message : effects[m] > 0 => effects'[m] > 0
  PROVE  CInv'
<1>1. effects \in [Message -> Nat] /\ effects' \in [Message -> Nat]
  BY DEF CInv, IInv, TypeOK
<1>2. RanOnce'
  BY <1>1 DEF CInv, RanOnce, target
<1>3. VersionCountsConfigs' /\ IsFiniteSet(Done')
  BY DEF CInv, VersionCountsConfigs, Done, target
<1> QED
  BY <1>2, <1>3 DEF CInv, TargetType, RanUnderItsVersion, VersionIdentifiesConfig,
       AuthoritySeparated, Sets, Addressed, target

\* The message of an open call, its origin, and the effect it has yet to have.
LEMMA OpenCall ==
  ASSUME CInv, NEW c \in running
  PROVE  /\ c.msg \in Message
         /\ effects \in [Message -> Nat]
         /\ effects[c.msg] = 0
         /\ xDomain.sender = Env[c.msg].sender
         /\ MsgSender(c.msg) = Self => Addressed(c.msg)
<1>1. c.msg \in Message /\ effects \in [Message -> Nat] /\ c.msg \in Open
  BY DEF CInv, IInv, TypeOK, Open
<1>2. effects[c.msg] = 0
  BY <1>1 DEF CInv, IInv, ExecutedOnce
<1>3. xDomain.sender = Env[c.msg].sender
  BY DEF CInv, IInv, OriginShown
<1>4. Env[c.msg].target # Self
  BY DEF CInv, NotItself
<1>5. accountFor[Env[c.msg].sender] # Self
  BY <1>1, GatewayAssumption, ConfigInvokeAssumption DEF Envelope
<1>6. MsgSender(c.msg) = Self => Addressed(c.msg)
  BY <1>4, <1>5 DEF MsgSender, Addressed
<1> QED
  BY <1>1, <1>2, <1>3, <1>6

\* The effect of a call that returns.
LEMMA Effect ==
  ASSUME CInv, NEW c \in running, Return(c, TRUE)
  PROVE  /\ effects'[c.msg] = 1
         /\ \A m \in Message \ {c.msg} : effects'[m] = effects[m]
BY OpenCall DEF Return

LEMMA SetConfigCInv ==
  ASSUME CInv, IInv', NotItself', NEW c \in running, Return(c, TRUE), SetConfig(c)
  PROVE  CInv'
<1> DEFINE k == c.msg
<1>1. k \in Message /\ effects[k] = 0 /\ effects'[k] = 1
      /\ \A m \in Message \ {k} : effects'[m] = effects[m]
  BY OpenCall, Effect
<1>2. /\ Sets(k) /\ Env[k].sender = CONFIGURER /\ Addressed(k)
      /\ configVersion' = configVersion + 1
      /\ config' = Calldata[k].config
      /\ ran' = [ran EXCEPT ![k] = Calldata[k].config]
  BY OpenCall DEF SetConfig, OnlySolanaSender, Sets
<1>3. Calldata[k] \in [fn : {"setConfig"}, config : Config]
                      \cup [fn : {"invoke"}, expectedVersion : Nat]
  BY <1>1, ConfigInvokeAssumption
<1>4. Calldata[k].config \in Config
  BY <1>2, <1>3 DEF Sets
<1>5. TargetType'
  BY <1>1, <1>2, <1>4 DEF CInv, TargetType
<1>6. \A m \in Message \ {k} : ran'[m] = ran[m]
  BY <1>1, <1>2 DEF CInv, TargetType
<1>7. Done' = Done \cup {k} /\ k \notin Done
  BY <1>1, <1>2 DEF Done, Sets, Addressed
<1>8. configVersion = Cardinality(Done) /\ IsFiniteSet(Done)
  BY DEF CInv, VersionCountsConfigs, Done
<1>9. IsFiniteSet(Done') /\ Cardinality(Done') = Cardinality(Done) + 1
  BY <1>7, <1>8, FS_AddElement
<1>10. VersionCountsConfigs'
  BY <1>2, <1>8, <1>9 DEF VersionCountsConfigs, Done
<1>11. RanOnce'
  BY <1>1, <1>6 DEF CInv, RanOnce
<1>12. \A m \in Message : ~Sets(m) => m # k /\ Calldata[m].expectedVersion \in Nat
  <2> SUFFICES ASSUME NEW m \in Message, ~Sets(m)
               PROVE  Calldata[m].expectedVersion \in Nat
    BY <1>2
  <2>1. \/ Calldata[m] \in [fn : {"setConfig"}, config : Config]
        \/ Calldata[m] \in [fn : {"invoke"}, expectedVersion : Nat]
    BY ConfigInvokeAssumption
  <2> QED
    BY <2>1 DEF Sets
<1>13. RanUnderItsVersion'
  <2>1. ASSUME NEW m \in Message, ~Sets(m), ran'[m] # NoConfig
        PROVE  /\ Calldata[m].expectedVersion <= configVersion'
               /\ Calldata[m].expectedVersion # configVersion'
    <3>1. Calldata[m].expectedVersion <= configVersion /\ Calldata[m].expectedVersion \in Nat
      BY <1>6, <1>12, <2>1 DEF CInv, RanUnderItsVersion
    <3>2. configVersion \in Nat
      BY DEF CInv, TargetType
    <3> QED
      BY <1>2, <3>1, <3>2
  <2> QED
    BY <2>1 DEF RanUnderItsVersion, Sets
<1>14. VersionIdentifiesConfig'
  BY <1>6, <1>12 DEF CInv, VersionIdentifiesConfig, Sets
<1>15. AuthoritySeparated'
  BY <1>2, <1>6 DEF CInv, AuthoritySeparated, Sets, Addressed
<1> QED
  BY <1>5, <1>9, <1>10, <1>11, <1>13, <1>14, <1>15 DEF CInv

LEMMA InvokeCInv ==
  ASSUME CInv, IInv', NotItself', NEW c \in running, Return(c, TRUE), Invoke(c)
  PROVE  CInv'
<1> DEFINE k == c.msg
<1>1. k \in Message /\ effects[k] = 0 /\ effects'[k] = 1
      /\ \A m \in Message \ {k} : effects'[m] = effects[m]
  BY OpenCall, Effect
<1>2. /\ ~Sets(k) /\ Env[k].sender = INVOKER /\ Addressed(k)
      /\ Calldata[k].expectedVersion = configVersion
      /\ configVersion' = configVersion /\ config' = config
      /\ ran' = [ran EXCEPT ![k] = config]
  BY OpenCall DEF Invoke, OnlySolanaSender, Sets
<1>3. ran'[k] = config /\ \A m \in Message \ {k} : ran'[m] = ran[m]
  BY <1>1, <1>2 DEF CInv, TargetType
<1>4. TargetType'
  BY <1>1, <1>2 DEF CInv, TargetType
<1>5. Done' = Done
  BY <1>1, <1>2 DEF Done, Sets, Addressed
<1>6. VersionCountsConfigs'
  BY <1>2, <1>5 DEF CInv, VersionCountsConfigs, Done
<1>7. RanOnce'
  BY <1>1, <1>3 DEF CInv, RanOnce
<1>8. RanUnderItsVersion'
  BY <1>1, <1>2, <1>3 DEF CInv, TargetType, RanUnderItsVersion, Sets
<1>9. VersionIdentifiesConfig'
  <2> SUFFICES ASSUME NEW m \in Message, NEW j \in Message, ~Sets(m), ~Sets(j),
                      ran'[m] # NoConfig, ran'[j] # NoConfig,
                      Calldata[m].expectedVersion = Calldata[j].expectedVersion
               PROVE  ran'[m] = ran'[j]
    BY DEF VersionIdentifiesConfig, Sets
  <2>1. CASE Calldata[m].expectedVersion = configVersion
    BY <1>3, <2>1 DEF CInv, RanUnderItsVersion
  <2>2. CASE Calldata[m].expectedVersion # configVersion
    BY <1>2, <1>3, <2>2 DEF CInv, VersionIdentifiesConfig
  <2> QED
    BY <2>1, <2>2
<1>10. AuthoritySeparated'
  BY <1>2, <1>3 DEF CInv, AuthoritySeparated, Sets, Addressed
<1> QED
  BY <1>4, <1>5, <1>6, <1>7, <1>8, <1>9, <1>10 DEF CInv

\* A contract in between that shrugs off the target's revert: its message took
\* effect, and nothing happened here.
LEMMA ShruggedCInv ==
  ASSUME CInv, IInv', NotItself', NEW c \in running, Return(c, TRUE),
         Env[c.msg].target # This, UNCHANGED target
  PROVE  CInv'
<1>1. effects'[c.msg] = 1 /\ effects[c.msg] = 0
      /\ \A m \in Message \ {c.msg} : effects'[m] = effects[m]
  BY OpenCall, Effect
<1>2. Done' = Done
  BY <1>1 DEF Done, Sets, Addressed
<1>3. \A m \in Message : effects[m] > 0 => effects'[m] > 0
  BY <1>1
<1> QED
  BY <1>2, <1>3, NoEffect

\* Nothing but a target that returns has an effect.
LEMMA Quiet ==
  ASSUME \/ \E a \in Address, m \in Message : Deliver(a, m)
         \/ \E m \in Message, g \in OverrideChoice : Retry(m, g)
         \/ \E p \in Principal : SetPolicy(p) \/ SetAuth(p)
         \/ Tick
         \/ \E c \in running : Return(c, FALSE)
         \/ UNCHANGED vars
  PROVE  effects' = effects
<1>1. ASSUME NEW m \in Message, NEW s, Settle(m, s) PROVE effects' = effects
  BY <1>1 DEF Settle, calls
<1>2. ASSUME NEW m \in Message, NEW gas, Run(m, gas) PROVE effects' = effects
  BY <1>2 DEF Run
<1>3. ASSUME NEW a \in Address, NEW m \in Message, Deliver(a, m) PROVE effects' = effects
  BY <1>1, <1>2, <1>3 DEF Deliver
<1>4. ASSUME NEW m \in Message, NEW g \in OverrideChoice, Retry(m, g) PROVE effects' = effects
  BY <1>1, <1>2, <1>4 DEF Retry
<1>5. ASSUME NEW p \in Principal, SetPolicy(p) \/ SetAuth(p) PROVE effects' = effects
  BY <1>5, OwnerIdle DEF calls
<1>6. ASSUME NEW c \in running, Return(c, FALSE) PROVE effects' = effects
  BY <1>6 DEF Return
<1>7. CASE Tick \/ UNCHANGED vars
  BY <1>7 DEF Tick, vars, calls
<1> QED
  BY <1>3, <1>4, <1>5, <1>6, <1>7

LEMMA CInvStep == CInv /\ [TargetNext]_targetVars => CInv'
<1> SUFFICES ASSUME CInv, [TargetNext]_targetVars PROVE CInv'
  OBVIOUS
<1>1. IInv' /\ NotItself'
  BY TargetSteps, IInvStep, NotItselfStep DEF CInv, IInv
<1>2. ASSUME NEW c \in running, Return(c, TRUE), SetConfig(c) PROVE CInv'
  BY <1>1, <1>2, SetConfigCInv
<1>3. ASSUME NEW c \in running, Return(c, TRUE), Invoke(c) PROVE CInv'
  BY <1>1, <1>3, InvokeCInv
<1>4. ASSUME NEW c \in running, Return(c, TRUE), Env[c.msg].target # This, UNCHANGED target
      PROVE  CInv'
  BY <1>1, <1>4, ShruggedCInv
<1>5. ASSUME effects' = effects, UNCHANGED target PROVE CInv'
  <2>1. Done' = Done
    BY <1>5 DEF Done, Sets, Addressed
  <2> QED
    BY <1>1, <1>5, <2>1, NoEffect
<1>6. ASSUME NEW c \in running, Return(c, FALSE), UNCHANGED target PROVE CInv'
  BY <1>5, <1>6, Quiet
<1>7. ASSUME \/ \E a \in Address, m \in Message : Deliver(a, m)
             \/ \E m \in Message, g \in OverrideChoice : Retry(m, g)
             \/ \E p \in Principal : SetPolicy(p) \/ SetAuth(p)
             \/ Tick
             \/ UNCHANGED vars,
             UNCHANGED target
      PROVE  CInv'
  BY <1>5, <1>7, Quiet
<1> QED
  BY <1>2, <1>3, <1>4, <1>6, <1>7 DEF TargetNext, TargetReturn, targetVars

THEOREM TargetInvariance == TargetSpec => []CInv
BY CInvInit, CInvStep, PTL DEF TargetSpec

\* The version is the number of configuration messages to the target that took
\* effect, for any number of messages, deliveries and retries and whatever
\* other contracts pass on.
THEOREM VersionCounts == TargetSpec => []VersionCountsConfigs
<1>1. CInv => VersionCountsConfigs
  BY DEF CInv
<1> QED
  BY <1>1, TargetInvariance, PTL

\* Invokes that name one version ran against one configuration.
THEOREM VersionIdentifies == TargetSpec => []VersionIdentifiesConfig
<1>1. CInv => VersionIdentifiesConfig
  BY DEF CInv
<1> QED
  BY <1>1, TargetInvariance, PTL

\* Nothing is done at the target but by a message addressed to it, from the
\* authority of the function it calls.
THEOREM AuthorityKept == TargetSpec => []AuthoritySeparated
<1>1. CInv => AuthoritySeparated
  BY DEF CInv
<1> QED
  BY <1>1, TargetInvariance, PTL
===============================================================================
