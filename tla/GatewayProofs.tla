---------------------------- MODULE GatewayProofs ----------------------------
(***************************************************************************)
(* Theorems about Gateway, for any set of messages, senders and addresses  *)
(* and any choices of the owner.                                           *)
(***************************************************************************)
EXTENDS Gateway, FiniteSetTheorems, TLAPS

(***************************************************************************)
(* Type correctness                                                        *)
(***************************************************************************)
LEMMA TypeInit == Init => TypeOK
<1> SUFFICES ASSUME Init PROVE TypeOK
  OBVIOUS
<1>1. owner \in Principal /\ pendingOwner \in Principal \cup {Zero} /\ now \in 0 .. MaxTime
  BY GatewayAssumption DEF Init
<1>2. /\ status \in [Message -> Status]
      /\ confirmedBy \in [Message -> SUBSET Address]
      /\ confirmations \in [Message -> Nat]
      /\ effects \in [Message -> Nat]
      /\ requiredConfirmations \in [Address -> Nat]
  BY DEF Init, Status
<1>3. xDomain \in Origin
  BY DEF Init, Origin, NoOrigin
<1>4. paused \in BOOLEAN /\ entered \in BOOLEAN /\ accountModeEnabled \in BOOLEAN
  BY Zenon DEF Init
<1>5. acceptedVersion \subseteq Nat
  BY DEF Init, VERSION
<1>6. /\ isAdapter \subseteq Address /\ strictMode \subseteq Address
      /\ isAccount \subseteq Address /\ allowedCall \subseteq CallKey
      /\ running \subseteq [msg : Message, gas : Nat]
  BY DEF Init
<1> QED
  BY <1>1, <1>2, <1>3, <1>4, <1>5, <1>6 DEF TypeOK

\* Opening a call keeps the types of what it changes.
LEMMA RunType ==
  ASSUME TypeOK, NEW m \in Message, NEW gas \in Nat, Run(m, gas)
  PROVE  /\ status' \in [Message -> Status]
         /\ entered' \in BOOLEAN
         /\ isAccount' \subseteq Address
         /\ xDomain' \in Origin
         /\ running' \subseteq [msg : Message, gas : Nat]
         /\ effects' \in [Message -> Nat]
<1>1. Env[m].sender \in Sender /\ Env[m].nonce \in Nat
  BY GatewayAssumption DEF Envelope
<1>2. isAccount' \subseteq Address
  BY <1>1, GatewayAssumption DEF Run, TypeOK
<1>3. xDomain' \in Origin
  BY <1>1 DEF Run, Origin
<1>4. status' \in [Message -> Status] /\ entered' \in BOOLEAN
  BY DEF Run, TypeOK, Status
<1>5. running' \subseteq [msg : Message, gas : Nat] /\ effects' \in [Message -> Nat]
  BY DEF Run, TypeOK
<1> QED
  BY <1>2, <1>3, <1>4, <1>5

\* Settling a message changes its status and nothing of the calls.
LEMMA SettleType ==
  ASSUME TypeOK, NEW m \in Message, NEW s \in Status, Settle(m, s)
  PROVE  /\ status' \in [Message -> Status]
         /\ entered' \in BOOLEAN
         /\ isAccount' \subseteq Address
         /\ xDomain' \in Origin
         /\ running' \subseteq [msg : Message, gas : Nat]
         /\ effects' \in [Message -> Nat]
BY DEF Settle, calls, TypeOK

LEMMA DeliverType ==
  ASSUME TypeOK, NEW a \in Address, NEW m \in Message, Deliver(a, m)
  PROVE  TypeOK'
<1>1. /\ confirmedBy' \in [Message -> SUBSET Address]
      /\ confirmations' \in [Message -> Nat]
  BY DEF Deliver, Vote, TypeOK
<1>2. Env[m].gasLimit \in Nat
  BY GatewayAssumption DEF Envelope
<1>3. \/ \E s \in Status : Settle(m, s)
      \/ Run(m, Env[m].gasLimit)
  BY DEF Deliver, Status
<1>4. /\ status' \in [Message -> Status]
      /\ entered' \in BOOLEAN
      /\ isAccount' \subseteq Address
      /\ xDomain' \in Origin
      /\ running' \subseteq [msg : Message, gas : Nat]
      /\ effects' \in [Message -> Nat]
  BY <1>2, <1>3, RunType, SettleType
<1>5. UNCHANGED <<auth, policy, now>>
  BY DEF Deliver
<1> QED
  BY <1>1, <1>4, <1>5 DEF TypeOK, auth, policy

LEMMA RetryType ==
  ASSUME TypeOK, NEW m \in Message, NEW g \in OverrideChoice, Retry(m, g)
  PROVE  TypeOK'
<1>1. Env[m].gasLimit \in Nat /\ g \in Nat
  BY GatewayAssumption DEF Envelope
<1>2. \/ Settle(m, "Rejected")
      \/ Run(m, Env[m].gasLimit)
      \/ Run(m, g)
  BY DEF Retry
<1>3. /\ status' \in [Message -> Status]
      /\ entered' \in BOOLEAN
      /\ isAccount' \subseteq Address
      /\ xDomain' \in Origin
      /\ running' \subseteq [msg : Message, gas : Nat]
      /\ effects' \in [Message -> Nat]
  BY <1>1, <1>2, RunType, SettleType DEF Status
<1>4. UNCHANGED <<auth, policy, now, confirmedBy, confirmations>>
  BY DEF Retry
<1> QED
  BY <1>3, <1>4 DEF TypeOK, auth, policy

LEMMA ReturnType ==
  ASSUME TypeOK, NEW c \in running, NEW ok \in BOOLEAN, Return(c, ok)
  PROVE  TypeOK'
<1>1. c.msg \in Message
  BY DEF TypeOK
<1>2. /\ status' \in [Message -> Status]
      /\ effects' \in [Message -> Nat]
  BY <1>1 DEF Return, TypeOK, Status
<1>3. /\ entered' \in BOOLEAN
      /\ running' \subseteq [msg : Message, gas : Nat]
      /\ xDomain' \in Origin
  BY DEF Return, TypeOK, Origin, NoOrigin
<1>4. UNCHANGED <<auth, policy, now, isAccount, confirmedBy, confirmations>>
  BY DEF Return
<1> QED
  BY <1>2, <1>3, <1>4 DEF TypeOK, auth, policy

LEMMA OwnerType ==
  ASSUME TypeOK, NEW p \in Principal, SetPolicy(p) \/ SetAuth(p)
  PROVE  TypeOK'
<1> USE GatewayAssumption DEF TypeOK, auth, policy, ledger, calls
<1>1. ASSUME NEW a \in Address, NEW b \in BOOLEAN, SetAdapter(p, a, b)
      PROVE  TypeOK'
  BY <1>1 DEF SetAdapter
<1>2. ASSUME NEW c \in VersionChoice, SetAcceptedVersion(p, c[1], c[2])
      PROVE  TypeOK'
  BY <1>2 DEF SetAcceptedVersion
<1>3. ASSUME NEW b \in BOOLEAN, SetAccountModeEnabled(p, b)
      PROVE  TypeOK'
  BY <1>3 DEF SetAccountModeEnabled
<1>4. ASSUME NEW c \in QuorumChoice, SetRequiredConfirmations(p, c[1], c[2])
      PROVE  TypeOK'
  BY <1>4 DEF SetRequiredConfirmations
<1>5. ASSUME NEW t \in Address, NEW b \in BOOLEAN, SetStrictMode(p, t, b)
      PROVE  TypeOK'
  BY <1>5 DEF SetStrictMode
<1>6. ASSUME NEW c \in AllowChoice, SetAllowedCall(p, c[1], c[2])
      PROVE  TypeOK'
  BY <1>6 DEF SetAllowedCall
<1>7. ASSUME NEW b \in BOOLEAN, SetPaused(p, b)
      PROVE  TypeOK'
  BY <1>7 DEF SetPaused
<1>8. ASSUME NEW heir \in HeirChoice, TransferOwnership(p, heir)
      PROVE  TypeOK'
  BY <1>8 DEF TransferOwnership
<1>9. ASSUME AcceptOwnership(p)
      PROVE  TypeOK'
  BY <1>9 DEF AcceptOwnership
<1> QED
  BY <1>1, <1>2, <1>3, <1>4, <1>5, <1>6, <1>7, <1>8, <1>9 DEF SetPolicy, SetAuth

LEMMA TypeStep == TypeOK /\ [Next]_vars => TypeOK'
<1> SUFFICES ASSUME TypeOK, [Next]_vars PROVE TypeOK'
  OBVIOUS
<1>1. ASSUME NEW a \in Address, NEW m \in Message, Deliver(a, m) PROVE TypeOK'
  BY <1>1, DeliverType
<1>2. ASSUME NEW m \in Message, NEW g \in OverrideChoice, Retry(m, g) PROVE TypeOK'
  BY <1>2, RetryType
<1>3. ASSUME NEW c \in running, NEW ok \in BOOLEAN, Return(c, ok) PROVE TypeOK'
  BY <1>3, ReturnType
<1>4. ASSUME NEW p \in Principal, SetPolicy(p) \/ SetAuth(p) PROVE TypeOK'
  BY <1>4, OwnerType
<1>5. CASE Tick
  BY <1>5, GatewayAssumption DEF Tick, TypeOK, auth, policy, ledger, calls
<1>6. CASE UNCHANGED vars
  BY <1>6 DEF vars, TypeOK, auth, policy, ledger, calls
<1> QED
  BY <1>1, <1>2, <1>3, <1>4, <1>5, <1>6 DEF Next

\* Every variable stays in its type, whatever the adapters deliver, the
\* targets do and the owner sets.
THEOREM TypeCorrect == Spec => []TypeOK
BY TypeInit, TypeStep, PTL DEF Spec


(***************************************************************************)
(* The call in progress                                                    *)
(*                                                                         *)
(* ExecutedOnce is not inductive by itself.  What keeps it is that a call  *)
(* is open only while the reentrancy guard is up, that no second one opens *)
(* meanwhile, and that the message of the open call is marked Executed     *)
(* before its effect: a redelivery from inside the call finds it done.     *)
(***************************************************************************)
GuardUp == entered = (running # {})
OneCall == \A c, d \in running : c = d
MarkedFirst == \A c \in running : status[c.msg] = "Executed"

IInv ==
  /\ TypeOK
  /\ GuardUp
  /\ OneCall
  /\ MarkedFirst
  /\ ExecutedOnce
  /\ OriginShown

callInv == <<running, entered, status, effects, xDomain>>

LEMMA IInvInit == Init => IInv
<1> SUFFICES ASSUME Init PROVE IInv
  OBVIOUS
<1>1. TypeOK
  BY TypeInit
<1>2. running = {} /\ Open = {}
  BY DEF Init, Open
<1>3. GuardUp
  BY <1>2 DEF Init, GuardUp
<1>4. ExecutedOnce
  BY <1>2 DEF Init, ExecutedOnce
<1>5. OneCall /\ MarkedFirst /\ OriginShown
  BY <1>2 DEF Init, OneCall, MarkedFirst, OriginShown
<1> QED
  BY <1>1, <1>3, <1>4, <1>5 DEF IInv

\* No call is open where a delivery or a retry enters.
LEMMA EnterAlone == ASSUME IInv, Enter PROVE running = {} /\ Open = {}
BY DEF IInv, GuardUp, Enter, Open

\* A message that has not executed may be settled otherwise.
LEMMA SettleIInv ==
  ASSUME IInv, TypeOK', Enter,
         NEW m \in Message, NEW s \in Status \ {"Executed"},
         status[m] # "Executed", Settle(m, s)
  PROVE  IInv'
<1>1. /\ running' = running /\ entered' = entered
      /\ xDomain' = xDomain /\ effects' = effects
  BY DEF Settle, calls
<1>2. running' = {} /\ Open' = {} /\ running = {} /\ Open = {}
  BY <1>1, EnterAlone DEF Open
<1>3. GuardUp' /\ OneCall' /\ MarkedFirst'
  BY <1>1, <1>2 DEF IInv, GuardUp, OneCall, MarkedFirst
<1>4. OriginShown'
  BY <1>1, <1>2 DEF IInv, OriginShown
<1>5. ExecutedOnce'
  <2> SUFFICES ASSUME NEW k \in Message
               PROVE  effects'[k] = IF status'[k] = "Executed" THEN 1 ELSE 0
    BY <1>2 DEF ExecutedOnce
  <2>1. effects[k] = IF status[k] = "Executed" THEN 1 ELSE 0
    BY <1>2 DEF IInv, ExecutedOnce
  <2>2. status' = [status EXCEPT ![m] = s] /\ status \in [Message -> Status]
    BY DEF Settle, IInv, TypeOK
  <2> QED
    BY <1>1, <2>1, <2>2
<1> QED
  BY <1>3, <1>4, <1>5 DEF IInv

\* A call may be opened for a message that has not executed.
LEMMA RunIInv ==
  ASSUME IInv, TypeOK', Enter,
         NEW m \in Message, NEW gas \in Nat,
         status[m] # "Executed", Run(m, gas)
  PROVE  IInv'
<1> DEFINE c0 == [msg |-> m, gas |-> gas]
<1>1. running' = {c0} /\ c0.msg = m
  BY EnterAlone DEF Run
<1>2. Open' = {m}
  BY <1>1 DEF Open
<1>3. status' = [status EXCEPT ![m] = "Executed"] /\ status \in [Message -> Status]
  BY DEF Run, IInv, TypeOK
<1>4. GuardUp' /\ OneCall' /\ MarkedFirst'
  BY <1>1, <1>3 DEF Run, GuardUp, OneCall, MarkedFirst
<1>5. ExecutedOnce'
  <2> SUFFICES ASSUME NEW k \in Message
               PROVE  effects'[k] = IF status'[k] = "Executed" /\ k # m THEN 1 ELSE 0
    BY <1>2 DEF ExecutedOnce
  <2>1. effects[k] = IF status[k] = "Executed" THEN 1 ELSE 0
    BY EnterAlone DEF IInv, ExecutedOnce
  <2>2. effects' = effects
    BY DEF Run
  <2> QED
    BY <1>3, <2>1, <2>2
<1>6. OriginShown'
  BY <1>1 DEF OriginShown, Run
<1> QED
  BY <1>4, <1>5, <1>6 DEF IInv

LEMMA DeliverIInv ==
  ASSUME IInv, NEW a \in Address, NEW m \in Message, Deliver(a, m)
  PROVE  IInv'
<1>1. TypeOK' /\ Enter
  BY DeliverType DEF IInv, Deliver
<1>2. status[m] # "Executed"
  BY DEF Deliver, Duplicate
<1>3. CASE Settle(m, "Rejected") \/ Settle(m, "Pending") \/ Settle(m, "Failed")
  BY <1>1, <1>2, <1>3, SettleIInv DEF Status
<1>4. CASE Run(m, Env[m].gasLimit)
  <2>1. Env[m].gasLimit \in Nat
    BY GatewayAssumption DEF Envelope
  <2> QED
    BY <1>1, <1>2, <1>4, <2>1, RunIInv
<1> QED
  BY <1>3, <1>4 DEF Deliver

LEMMA RetryIInv ==
  ASSUME IInv, NEW m \in Message, NEW g \in OverrideChoice, Retry(m, g)
  PROVE  IInv'
<1>1. TypeOK' /\ Enter
  BY RetryType DEF IInv, Retry
<1>2. status[m] # "Executed"
  BY DEF Retry
<1>3. CASE Settle(m, "Rejected")
  BY <1>1, <1>2, <1>3, SettleIInv DEF Status
<1>4. ASSUME NEW gas \in Nat, Run(m, gas) PROVE IInv'
  BY <1>1, <1>2, <1>4, RunIInv
<1>5. Env[m].gasLimit \in Nat /\ g \in Nat
  BY GatewayAssumption DEF Envelope
<1> QED
  BY <1>3, <1>4, <1>5 DEF Retry

LEMMA ReturnIInv ==
  ASSUME IInv, NEW c \in running, NEW ok \in BOOLEAN, Return(c, ok)
  PROVE  IInv'
<1>1. TypeOK'
  BY ReturnType DEF IInv
<1>2. running = {c} /\ c.msg \in Message
  BY DEF IInv, OneCall, TypeOK
<1>3. running' = {} /\ Open' = {} /\ Open = {c.msg}
  BY <1>2 DEF Return, Open
<1>4. GuardUp' /\ OneCall' /\ MarkedFirst' /\ OriginShown'
  BY <1>3 DEF Return, GuardUp, OneCall, MarkedFirst, OriginShown
<1>5. ExecutedOnce'
  <2> SUFFICES ASSUME NEW k \in Message
               PROVE  effects'[k] = IF status'[k] = "Executed" THEN 1 ELSE 0
    BY <1>3 DEF ExecutedOnce
  <2>1. effects[k] = IF status[k] = "Executed" /\ k # c.msg THEN 1 ELSE 0
    BY <1>3 DEF IInv, ExecutedOnce
  <2>2. status[c.msg] = "Executed"
    BY DEF IInv, MarkedFirst
  <2>3. status \in [Message -> Status] /\ effects \in [Message -> Nat]
    BY DEF IInv, TypeOK
  <2>4. CASE ok
    BY <1>2, <2>1, <2>2, <2>3, <2>4 DEF Return
  <2>5. CASE ~ok
    BY <1>2, <2>1, <2>2, <2>3, <2>5 DEF Return
  <2> QED
    BY <2>4, <2>5
<1> QED
  BY <1>1, <1>4, <1>5 DEF IInv

\* What the owner does, inside a call or outside, changes no call and no
\* status; nor does the clock.
LEMMA IdleIInv ==
  ASSUME IInv, TypeOK', UNCHANGED callInv
  PROVE  IInv'
<1>1. Open' = Open
  BY DEF Open, callInv
<1>2. GuardUp' /\ OneCall' /\ MarkedFirst' /\ OriginShown'
  BY DEF callInv, IInv, GuardUp, OneCall, MarkedFirst, OriginShown
<1>3. ExecutedOnce'
  BY <1>1 DEF callInv, IInv, ExecutedOnce
<1> QED
  BY <1>2, <1>3 DEF IInv

LEMMA OwnerIdle ==
  ASSUME NEW p \in Principal, SetPolicy(p) \/ SetAuth(p)
  PROVE  UNCHANGED <<ledger, calls>>
BY DEF SetPolicy, SetAuth, OnlyOwner, SetAdapter, SetAcceptedVersion, SetAccountModeEnabled,
       SetRequiredConfirmations, SetStrictMode, SetAllowedCall, SetPaused,
       TransferOwnership, AcceptOwnership

LEMMA IInvStep == IInv /\ [Next]_vars => IInv'
<1> SUFFICES ASSUME IInv, [Next]_vars PROVE IInv'
  OBVIOUS
<1>1. TypeOK'
  BY TypeStep DEF IInv
<1>2. ASSUME NEW a \in Address, NEW m \in Message, Deliver(a, m) PROVE IInv'
  BY <1>2, DeliverIInv
<1>3. ASSUME NEW m \in Message, NEW g \in OverrideChoice, Retry(m, g) PROVE IInv'
  BY <1>3, RetryIInv
<1>4. ASSUME NEW c \in running, NEW ok \in BOOLEAN, Return(c, ok) PROVE IInv'
  BY <1>4, ReturnIInv
<1>5. ASSUME NEW p \in Principal, SetPolicy(p) \/ SetAuth(p) PROVE IInv'
  BY <1>1, <1>5, OwnerIdle, IdleIInv DEF ledger, calls, callInv
<1>6. CASE Tick \/ UNCHANGED vars
  BY <1>1, <1>6, IdleIInv DEF Tick, vars, ledger, calls, callInv
<1> QED
  BY <1>2, <1>3, <1>4, <1>5, <1>6 DEF Next

THEOREM Invariance == Spec => []IInv
BY IInvInit, IInvStep, PTL DEF Spec

\* For any set of messages, adapters and targets, however they re-enter: a
\* call takes effect at most once, and the ledger tells whether it did.
THEOREM Once == Spec => []ExecutedOnce
<1>1. IInv => ExecutedOnce
  BY DEF IInv
<1> QED
  BY <1>1, Invariance, PTL

\* A target in a call reads the origin of the message it is called for.
THEOREM TrueOrigin == Spec => []OriginShown
<1>1. IInv => OriginShown
  BY DEF IInv
<1> QED
  BY <1>1, Invariance, PTL

(***************************************************************************)
(* What a step may do                                                      *)
(***************************************************************************)
\* A call is opened only by a delivery or a retry that made all the checks.
LEMMA OpensChecked ==
  ASSUME TypeOK, [Next]_vars, NEW c \in running' \ running
  PROVE  ~Terminal(c.msg) /\ ~Parkable(c.msg)
<1>1. ASSUME NEW m \in Message, NEW gas \in Nat, Run(m, gas) PROVE c.msg = m
  BY <1>1 DEF Run
<1>2. ASSUME NEW m \in Message, NEW s \in Status, Settle(m, s) PROVE FALSE
  BY <1>2 DEF Settle, calls
<1>3. ASSUME NEW a \in Address, NEW m \in Message, Deliver(a, m)
      PROVE  ~Terminal(c.msg) /\ ~Parkable(c.msg)
  <2>1. Env[m].gasLimit \in Nat
    BY GatewayAssumption DEF Envelope
  <2> QED
    BY <1>1, <1>2, <1>3, <2>1 DEF Deliver, Status
<1>4. ASSUME NEW m \in Message, NEW g \in OverrideChoice, Retry(m, g)
      PROVE  ~Terminal(c.msg) /\ ~Parkable(c.msg)
  <2>1. Env[m].gasLimit \in Nat /\ g \in Nat
    BY GatewayAssumption DEF Envelope
  <2> QED
    BY <1>1, <1>2, <1>4, <2>1 DEF Retry, Status
<1>5. ASSUME NEW d \in running, NEW ok \in BOOLEAN, Return(d, ok) PROVE FALSE
  BY <1>5 DEF Return
<1>6. ASSUME NEW p \in Principal, SetPolicy(p) \/ SetAuth(p) PROVE FALSE
  BY <1>6, OwnerIdle DEF calls
<1>7. CASE Tick \/ UNCHANGED vars
  BY <1>7 DEF Tick, vars, calls
<1> QED
  BY <1>3, <1>4, <1>5, <1>6, <1>7 DEF Next

\* No call is ever opened against the policy of the moment, whatever the owner
\* changed since the message was parked.
THEOREM CurrentPolicy == Spec => RunsUnderCurrentPolicy
<1>1. TypeOK /\ [Next]_vars
        => [\A c \in running' \ running : ~Terminal(c.msg) /\ ~Parkable(c.msg)]_vars
  BY OpensChecked
<1> QED
  BY <1>1, TypeCorrect, PTL DEF Spec, RunsUnderCurrentPolicy

\* In DIRECT mode the gateway never calls an address it has power over, however
\* long the message was parked and whatever its target has become meanwhile.
THEOREM NoPrivilegedCall == Spec => PrivilegedNeverCalled
<1>1. \A m \in Message : ~Terminal(m) => Env[m].target \notin Privileged
  BY DEF Terminal, Forbidden, Privileged
<1>2. TypeOK' => \A c \in running' : c.msg \in Message
  BY DEF TypeOK
<1>3. TypeOK /\ [Next]_vars
        => [\A c \in running' \ running :
              Env[c.msg].mode = MODE_DIRECT => Env[c.msg].target \notin Privileged]_vars
  BY <1>1, <1>2, TypeStep, OpensChecked
<1> QED
  BY <1>3, TypeCorrect, PTL DEF Spec, PrivilegedNeverCalled

\* One step leaves a settled message as it is.
LEMMA SettledStep ==
  ASSUME IInv, [Next]_vars, NEW m \in Message,
         status[m] = "Rejected" \/ effects[m] > 0
  PROVE  status'[m] = status[m] /\ m \notin Open'
<1>1. m \notin Open /\ status[m] \in {"Rejected", "Executed"}
  <2>1. effects[m] = IF status[m] = "Executed" /\ m \notin Open THEN 1 ELSE 0
    BY DEF IInv, ExecutedOnce
  <2>2. m \in Open => status[m] = "Executed"
    BY DEF IInv, MarkedFirst, Open
  <2> QED
    BY <2>1, <2>2
<1>2. status \in [Message -> Status]
  BY DEF IInv, TypeOK
<1>3. ASSUME NEW k \in Message, NEW s \in Status, k # m, Settle(k, s)
      PROVE  status'[m] = status[m] /\ m \notin Open'
  BY <1>1, <1>2, <1>3 DEF Settle, calls, Open
<1>4. ASSUME NEW k \in Message, NEW gas \in Nat, k # m, Run(k, gas)
      PROVE  status'[m] = status[m] /\ m \notin Open'
  BY <1>1, <1>2, <1>4 DEF Run, Open
<1>5. ASSUME NEW a \in Address, NEW k \in Message, Deliver(a, k)
      PROVE  status'[m] = status[m] /\ m \notin Open'
  <2>1. k # m
    BY <1>1, <1>5 DEF Deliver, Duplicate
  <2>2. Env[k].gasLimit \in Nat
    BY GatewayAssumption DEF Envelope
  <2> QED
    BY <1>3, <1>4, <1>5, <2>1, <2>2 DEF Deliver, Status
<1>6. ASSUME NEW k \in Message, NEW g \in OverrideChoice, Retry(k, g)
      PROVE  status'[m] = status[m] /\ m \notin Open'
  <2>1. k # m
    BY <1>1, <1>6 DEF Retry
  <2>2. Env[k].gasLimit \in Nat /\ g \in Nat
    BY GatewayAssumption DEF Envelope
  <2> QED
    BY <1>3, <1>4, <1>6, <2>1, <2>2 DEF Retry, Status
<1>7. ASSUME NEW c \in running, NEW ok \in BOOLEAN, Return(c, ok)
      PROVE  status'[m] = status[m] /\ m \notin Open'
  <2>1. c.msg # m
    BY <1>1 DEF Open
  <2> QED
    BY <1>1, <1>2, <1>7, <2>1 DEF Return, Open
<1>8. ASSUME NEW p \in Principal, SetPolicy(p) \/ SetAuth(p)
      PROVE  status'[m] = status[m] /\ m \notin Open'
  BY <1>1, <1>8, OwnerIdle DEF ledger, calls, Open
<1>9. CASE Tick \/ UNCHANGED vars
  BY <1>1, <1>9 DEF Tick, vars, ledger, calls, Open
<1> QED
  BY <1>5, <1>6, <1>7, <1>8, <1>9 DEF Next

\* A rejected message, or one whose call took effect, is never revived.
THEOREM Final == Spec => SettledIsFinal
<1>1. IInv /\ [Next]_vars
        => [\A m \in Message : status[m] = "Rejected" \/ effects[m] > 0
              => status'[m] = status[m] /\ m \notin Open']_vars
  BY SettledStep
<1> QED
  BY <1>1, Invariance, PTL DEF Spec, SettledIsFinal

(***************************************************************************)
(* Votes                                                                   *)
(***************************************************************************)
\* The counter is the number of different adapters that voted.
VotesCounted ==
  \A m \in Message :
    IsFiniteSet(confirmedBy[m]) /\ confirmations[m] = Cardinality(confirmedBy[m])

LEMMA VotesInit == Init => VotesCounted
BY FS_EmptySet DEF Init, VotesCounted

LEMMA VoteCounts ==
  ASSUME TypeOK, VotesCounted, NEW a \in Address, NEW m \in Message,
         a \notin confirmedBy[m], Vote(a, m)
  PROVE  VotesCounted'
<1> SUFFICES ASSUME NEW k \in Message
             PROVE  /\ IsFiniteSet(confirmedBy'[k])
                    /\ confirmations'[k] = Cardinality(confirmedBy'[k])
  BY DEF VotesCounted
<1>1. IsFiniteSet(confirmedBy[k]) /\ confirmations[k] = Cardinality(confirmedBy[k])
  BY DEF VotesCounted
<1>2. CASE k = m
  <2>1. confirmedBy'[k] = confirmedBy[k] \cup {a} /\ confirmations'[k] = confirmations[k] + 1
    BY <1>2 DEF Vote, TypeOK
  <2>2. a \notin confirmedBy[k]
    BY <1>2
  <2>3. /\ IsFiniteSet(confirmedBy[k] \cup {a})
        /\ Cardinality(confirmedBy[k] \cup {a}) = Cardinality(confirmedBy[k]) + 1
    BY <1>1, <2>2, FS_AddElement, Zenon
  <2> QED
    BY <1>1, <2>1, <2>3
<1>3. CASE k # m
  BY <1>1, <1>3 DEF Vote, TypeOK
<1> QED
  BY <1>2, <1>3

LEMMA VotesStep == TypeOK /\ VotesCounted /\ [Next]_vars => VotesCounted'
<1> SUFFICES ASSUME TypeOK, VotesCounted, [Next]_vars PROVE VotesCounted'
  OBVIOUS
<1>1. ASSUME UNCHANGED <<confirmedBy, confirmations>> PROVE VotesCounted'
  BY <1>1 DEF VotesCounted
<1>2. ASSUME NEW a \in Address, NEW m \in Message, Deliver(a, m) PROVE VotesCounted'
  BY <1>1, <1>2, VoteCounts DEF Deliver, Duplicate
<1>3. ASSUME NEW m \in Message, NEW g \in OverrideChoice, Retry(m, g) PROVE VotesCounted'
  BY <1>1, <1>3 DEF Retry
<1>4. ASSUME NEW c \in running, NEW ok \in BOOLEAN, Return(c, ok) PROVE VotesCounted'
  BY <1>1, <1>4 DEF Return
<1>5. ASSUME NEW p \in Principal, SetPolicy(p) \/ SetAuth(p) PROVE VotesCounted'
  BY <1>1, <1>5, OwnerIdle DEF ledger
<1>6. CASE Tick \/ UNCHANGED vars
  BY <1>1, <1>6 DEF Tick, vars, ledger
<1> QED
  BY <1>2, <1>3, <1>4, <1>5, <1>6 DEF Next

\* Only a delivery ends a wait, and then the quorum is met by distinct votes.
LEMMA VouchedStep ==
  ASSUME IInv, VotesCounted', [Next]_vars, NEW m \in Message,
         status[m] \in {"None", "Pending"}, status'[m] \in {"Executed", "Failed"}
  PROVE  Cardinality(confirmedBy'[m]) >= Required(Env[m].target)
<1>1. status \in [Message -> Status]
  BY DEF IInv, TypeOK
<1>2. ASSUME NEW a \in Address, NEW k \in Message, Deliver(a, k)
      PROVE  Cardinality(confirmedBy'[m]) >= Required(Env[m].target)
  <2>1. k = m /\ status' # [status EXCEPT ![m] = "Rejected"]
              /\ status' # [status EXCEPT ![m] = "Pending"]
    BY <1>1, <1>2 DEF Deliver, Settle, Run
  <2>2. confirmations'[m] >= Required(Env[m].target)
    BY <1>2, <2>1 DEF Deliver, Settle
  <2>3. confirmations'[m] = Cardinality(confirmedBy'[m])
    BY DEF VotesCounted
  <2> QED
    BY <2>2, <2>3
<1>3. ASSUME NEW k \in Message, NEW g \in OverrideChoice, Retry(k, g) PROVE FALSE
  <2>1. k # m
    BY <1>3 DEF Retry
  <2>2. status'[m] = status[m]
    BY <1>1, <1>3, <2>1 DEF Retry, Settle, Run
  <2> QED
    BY <2>2
<1>4. ASSUME NEW c \in running, NEW ok \in BOOLEAN, Return(c, ok) PROVE FALSE
  <2>1. c.msg # m
    BY DEF IInv, MarkedFirst
  <2>2. status'[m] = status[m]
    BY <1>1, <1>4, <2>1 DEF Return
  <2> QED
    BY <2>2
<1>5. ASSUME NEW p \in Principal, SetPolicy(p) \/ SetAuth(p) PROVE FALSE
  BY <1>5, OwnerIdle DEF ledger
<1>6. CASE Tick \/ UNCHANGED vars
  BY <1>6 DEF Tick, vars, ledger
<1> QED
  BY <1>2, <1>3, <1>4, <1>5, <1>6 DEF Next

\* A wait ends only with as many different adapters behind the message as its
\* target requires at that moment.
THEOREM Vouched == Spec => QuorumVouched
<1>1. IInv => TypeOK
  BY DEF IInv
<1>2. IInv /\ VotesCounted' /\ [Next]_vars
        => [\A m \in Message :
              status[m] \in {"None", "Pending"} /\ status'[m] \in {"Executed", "Failed"}
                => Cardinality(confirmedBy'[m]) >= Required(Env[m].target)]_vars
  BY VouchedStep
<1> QED
  BY <1>1, <1>2, VotesInit, VotesStep, Invariance, PTL DEF Spec, QuorumVouched
===============================================================================
