------------------------------- MODULE Gateway -------------------------------
(***************************************************************************)
(* The destination contract: evm/src/SolanaGateway.sol with its base       *)
(* Auth.sol.  Adapters deliver envelopes; the gateway counts their votes,  *)
(* checks the envelope against its policy and calls the target.  A call    *)
(* that could not run is parked and anyone may retry it.                   *)
(*                                                                         *)
(* One transaction is one step, except that a delivery or a retry which    *)
(* calls the target is split where foreign code runs: one step opens the   *)
(* call, another returns from it.  `running` holds the open calls; while   *)
(* there is one, only code reached from the target can act: re-enter       *)
(* deliver or retry, or make an owner act that is a contract.  A           *)
(* transaction that reverts, for want of gas or otherwise, is no step.     *)
(***************************************************************************)
EXTENDS Integers, FiniteSets

CONSTANTS
  Message,      \* envelopes, each standing for its own keccak256 hash
  Env,          \* Env[m]: what EnvelopeLib.tryDecode reads from m
  Needs,        \* Needs[m]: the gas below which m's target cannot succeed
  Sender,       \* Solana public keys that can sign
  ZeroKey,      \* bytes32(0), which cannot
  Address,      \* EVM addresses
  Zero, Self, accountImplementation,  \* three of them: 0, the gateway, the account code
  accountFor,   \* the CREATE2 address of each sender's account
  chainId,      \* the gateway's own internal chain id
  Deployer,     \* the first owner
  Principal,    \* who may own the gateway
  MaxTime       \* bound on the clock

CONSTANTS       \* the owner's calls and the retry overrides an instance considers
  VersionChoice, AdapterChoice, AccountModeChoice, QuorumChoice, StrictChoice,
  AllowChoice, PauseChoice, HeirChoice, OverrideChoice

VERSION == 1
CHAIN_ID_SOLANA == 1
MSG_TYPE_CALL == 0
MODE_DIRECT == 0
MODE_ACCOUNT == 1

Envelope ==
  [decodes : BOOLEAN, version : Nat, msgType : Nat, srcChainId : Nat,
   dstChainId : Nat, sender : Sender, nonce : Nat, target : Address,
   value : Nat, gasLimit : Nat, expiry : Nat, mode : Nat, selector : Nat]

Status == {"None", "Pending", "Executed", "Failed", "Rejected"}
CallKey == Address \X Sender \X Nat
Origin == [sender : Sender \cup {ZeroKey}, nonce : Nat]
NoOrigin == [sender |-> ZeroKey, nonce |-> 0]

ASSUME GatewayAssumption ==
  /\ Env \in [Message -> Envelope]
  /\ Needs \in [Message -> Nat]
  /\ ZeroKey \notin Sender
  /\ {Zero, Self, accountImplementation} \subseteq Address
  /\ accountFor \in [Sender -> Address]
  /\ Deployer \in Principal
  /\ Zero \notin Principal
  /\ MaxTime \in Nat
  /\ VersionChoice \subseteq Nat \X BOOLEAN
  /\ AdapterChoice \subseteq Address \X BOOLEAN
  /\ AccountModeChoice \subseteq BOOLEAN
  /\ QuorumChoice \subseteq Address \X Nat
  /\ StrictChoice \subseteq Address \X BOOLEAN
  /\ AllowChoice \subseteq CallKey \X BOOLEAN
  /\ PauseChoice \subseteq BOOLEAN
  /\ HeirChoice \subseteq Principal \cup {Zero}
  /\ OverrideChoice \subseteq Nat

(***************************************************************************)
(* A mapping to bool is the set of keys it maps to true.                   *)
(***************************************************************************)
VARIABLES
  owner, pendingOwner, paused,  \* Auth
  entered,                      \* Auth._entered
  acceptedVersion, accountModeEnabled, isAdapter,
  requiredConfirmations, strictMode, allowedCall,
  isAccount,                    \* the accounts this gateway has deployed
  status, confirmedBy, confirmations,
  xDomain,                      \* the transient slots: the origin on show
  running,                      \* open calls: message, and the gas certified for it
  now,                          \* block.timestamp
  effects                       \* history: how often a message's call took effect

auth == <<owner, pendingOwner, paused>>
policy == <<acceptedVersion, accountModeEnabled, isAdapter,
            requiredConfirmations, strictMode, allowedCall>>
ledger == <<status, confirmedBy, confirmations>>
calls == <<entered, isAccount, xDomain, running, effects>>
vars == <<auth, policy, ledger, calls, now>>

Open == {c.msg : c \in running}

Init ==
  /\ owner = Deployer
  /\ pendingOwner = Zero
  /\ paused = FALSE
  /\ entered = FALSE
  /\ acceptedVersion = {VERSION}
  /\ accountModeEnabled = FALSE
  /\ isAdapter = {}
  /\ requiredConfirmations = [t \in Address |-> 0]
  /\ strictMode = {}
  /\ allowedCall = {}
  /\ isAccount = {}
  /\ status = [m \in Message |-> "None"]
  /\ confirmedBy = [m \in Message |-> {}]
  /\ confirmations = [m \in Message |-> 0]
  /\ xDomain = NoOrigin
  /\ running = {}
  /\ now = 0
  /\ effects = [m \in Message |-> 0]

(***************************************************************************)
(* Definitions named Bad... are faulty variants of the definition that     *)
(* follows them: the mistake in one line, used to see that a property      *)
(* would catch it.  Nothing else refers to them.                           *)
(*                                                                         *)
(* The checks.  Which reason an event reports is not modelled, so the      *)
(* order among the terminal checks does not show.                          *)
(***************************************************************************)
\* Misses an account deployed since.
BadForbidden(t) == t \in {Zero, Self, accountImplementation} \cup isAdapter

Forbidden(t) ==
  t \in {Zero, Self, accountImplementation} \cup isAdapter \cup isAccount

\* Malformed, or a condition no retry can cure.
Terminal(m) ==
  LET e == Env[m] IN
  \/ ~e.decodes
  \/ e.version \notin acceptedVersion
  \/ e.msgType # MSG_TYPE_CALL
  \/ e.srcChainId # CHAIN_ID_SOLANA
  \/ e.dstChainId # chainId
  \/ e.mode > MODE_ACCOUNT
  \/ e.expiry # 0 /\ now > e.expiry
  \/ e.value # 0
  \/ Forbidden(e.target)

\* A condition the owner can change, after which anyone retries.
Parkable(m) ==
  LET e == Env[m] IN
  \/ e.mode = MODE_ACCOUNT /\ ~accountModeEnabled
  \/ e.target \in strictMode /\ <<e.target, e.sender, e.selector>> \notin allowedCall

Required(t) == IF requiredConfirmations[t] = 0 THEN 1 ELSE requiredConfirmations[t]

(***************************************************************************)
(* Outcomes of a delivery or a retry.  Run is the part of _run before the  *)
(* target's code: mark, deploy the account, show the origin, call.         *)
(***************************************************************************)
Settle(m, s) ==
  /\ status' = [status EXCEPT ![m] = s]
  /\ UNCHANGED calls

Run(m, gas) ==
  LET e == Env[m] IN
  /\ status' = [status EXCEPT ![m] = "Executed"]
  /\ isAccount' = IF e.mode = MODE_ACCOUNT
                  THEN isAccount \cup {accountFor[e.sender]} ELSE isAccount
  /\ entered' = TRUE
  /\ xDomain' = [sender |-> e.sender, nonce |-> e.nonce]
  /\ running' = running \cup {[msg |-> m, gas |-> gas]}
  /\ UNCHANGED effects

\* No reentrancy guard.
BadEnter == ~paused

\* nonReentrant and whenNotPaused
Enter == ~entered /\ ~paused

\* Counts down.
BadVote(a, m) ==
  /\ confirmedBy' = [confirmedBy EXCEPT ![m] = @ \cup {a}]
  /\ confirmations' = [confirmations EXCEPT ![m] = @ - 1]

Vote(a, m) ==
  /\ confirmedBy' = [confirmedBy EXCEPT ![m] = @ \cup {a}]
  /\ confirmations' = [confirmations EXCEPT ![m] = @ + 1]

\* Each forgets one reason to ignore a delivery, or has one too many.
BadDuplicateExecuted(a, m) == status[m] \in {"Failed", "Rejected"} \/ a \in confirmedBy[m]
BadDuplicateRejected(a, m) == status[m] \in {"Executed", "Failed"} \/ a \in confirmedBy[m]
BadDuplicateVote(a, m) == status[m] \in {"Executed", "Failed", "Rejected"}
BadDuplicatePending(a, m) == status[m] # "None" \/ a \in confirmedBy[m]

\* A message already settled, or already voted for by this adapter.
Duplicate(a, m) ==
  \/ status[m] \in {"Executed", "Failed", "Rejected"}
  \/ a \in confirmedBy[m]

Deliver(a, m) ==
  /\ Enter
  /\ a \in isAdapter
  /\ ~Duplicate(a, m)
  /\ \/ /\ Terminal(m)
        /\ Settle(m, "Rejected")
        /\ UNCHANGED <<confirmedBy, confirmations>>
     \/ /\ ~Terminal(m)
        /\ Vote(a, m)
        /\ \/ /\ confirmations'[m] < Required(Env[m].target)
              /\ Settle(m, "Pending")
           \/ /\ confirmations'[m] >= Required(Env[m].target)
              /\ Parkable(m)
              /\ Settle(m, "Failed")
           \/ /\ confirmations'[m] >= Required(Env[m].target)
              /\ ~Parkable(m)
              /\ Run(m, Env[m].gasLimit)
  /\ UNCHANGED <<auth, policy, now>>

\* Trusts the checks made at delivery.
BadRetryUnchecked(m, gasLimitOverride) ==
  /\ Enter
  /\ status[m] = "Failed"
  /\ Run(m, Env[m].gasLimit)
  /\ UNCHANGED <<auth, policy, now, confirmedBy, confirmations>>

\* Returns on a parkable condition before it looks for a terminal one.
BadRetryParksFirst(m, gasLimitOverride) ==
  /\ Enter
  /\ status[m] = "Failed"
  /\ ~Parkable(m)
  /\ IF Terminal(m) THEN Settle(m, "Rejected") ELSE Run(m, Env[m].gasLimit)
  /\ UNCHANGED <<auth, policy, now, confirmedBy, confirmations>>

\* Retries whatever has been delivered.
BadRetryAny(m, gasLimitOverride) ==
  /\ Enter
  /\ status[m] # "None"
  /\ IF Terminal(m) THEN Settle(m, "Rejected") ELSE Run(m, Env[m].gasLimit)
  /\ UNCHANGED <<auth, policy, now, confirmedBy, confirmations>>

\* Anyone may call it.  A message that is still parkable stays Failed.
Retry(m, gasLimitOverride) ==
  /\ Enter
  /\ status[m] = "Failed"
  /\ \/ /\ Terminal(m)
        /\ Settle(m, "Rejected")
     \/ /\ ~Terminal(m)
        /\ ~Parkable(m)
        /\ \/ /\ gasLimitOverride = 0
              /\ Run(m, Env[m].gasLimit)
           \/ /\ gasLimitOverride # 0
              /\ gasLimitOverride >= Env[m].gasLimit
              /\ Run(m, gasLimitOverride)
  /\ UNCHANGED <<auth, policy, now, confirmedBy, confirmations>>

\* The target comes back: what follows the call in _run, and the end of the
\* transaction.  A call that fails leaves none of its effects.  What an owner
\* did inside it is let stand all the same: nothing reads the policy before
\* the call has returned, so the owner might as well have acted just after.
Return(c, ok) ==
  /\ c \in running
  /\ ok => c.gas >= Needs[c.msg]
  /\ running' = running \ {c}
  /\ entered' = FALSE
  /\ xDomain' = NoOrigin
  /\ status' = IF ok THEN status ELSE [status EXCEPT ![c.msg] = "Failed"]
  /\ effects' = IF ok THEN [effects EXCEPT ![c.msg] = @ + 1] ELSE effects
  /\ UNCHANGED <<auth, policy, now, isAccount, confirmedBy, confirmations>>

(***************************************************************************)
(* The owner's calls, and time.  None of the setters is nonReentrant, so   *)
(* they may fall inside an open call: any owner is taken for a contract    *)
(* that the target may reach.  The clock stands still in a transaction.    *)
(***************************************************************************)
OnlyOwner(p) == p = owner

SetAdapter(p, a, enabled) ==
  /\ OnlyOwner(p)
  /\ <<a, enabled>> \in AdapterChoice
  /\ isAdapter' = IF enabled THEN isAdapter \cup {a} ELSE isAdapter \ {a}
  /\ UNCHANGED <<auth, ledger, calls, now, acceptedVersion, accountModeEnabled,
                 requiredConfirmations, strictMode, allowedCall>>

SetAcceptedVersion(p, v, accepted) ==
  /\ OnlyOwner(p)
  /\ <<v, accepted>> \in VersionChoice
  /\ acceptedVersion' = IF accepted THEN acceptedVersion \cup {v} ELSE acceptedVersion \ {v}
  /\ UNCHANGED <<auth, ledger, calls, now, accountModeEnabled, isAdapter,
                 requiredConfirmations, strictMode, allowedCall>>

SetAccountModeEnabled(p, enabled) ==
  /\ OnlyOwner(p)
  /\ enabled \in AccountModeChoice
  /\ accountModeEnabled' = enabled
  /\ UNCHANGED <<auth, ledger, calls, now, acceptedVersion, isAdapter,
                 requiredConfirmations, strictMode, allowedCall>>

SetRequiredConfirmations(p, t, required) ==
  /\ OnlyOwner(p)
  /\ <<t, required>> \in QuorumChoice
  /\ requiredConfirmations' = [requiredConfirmations EXCEPT ![t] = required]
  /\ UNCHANGED <<auth, ledger, calls, now, acceptedVersion, accountModeEnabled,
                 isAdapter, strictMode, allowedCall>>

SetStrictMode(p, t, enabled) ==
  /\ OnlyOwner(p)
  /\ <<t, enabled>> \in StrictChoice
  /\ strictMode' = IF enabled THEN strictMode \cup {t} ELSE strictMode \ {t}
  /\ UNCHANGED <<auth, ledger, calls, now, acceptedVersion, accountModeEnabled,
                 isAdapter, requiredConfirmations, allowedCall>>

SetAllowedCall(p, k, allowed) ==
  /\ OnlyOwner(p)
  /\ <<k, allowed>> \in AllowChoice
  /\ allowedCall' = IF allowed THEN allowedCall \cup {k} ELSE allowedCall \ {k}
  /\ UNCHANGED <<auth, ledger, calls, now, acceptedVersion, accountModeEnabled,
                 isAdapter, requiredConfirmations, strictMode>>

SetPaused(p, b) ==
  /\ OnlyOwner(p)
  /\ b \in PauseChoice
  /\ paused' = b
  /\ UNCHANGED <<owner, pendingOwner, policy, ledger, calls, now>>

TransferOwnership(p, heir) ==
  /\ OnlyOwner(p)
  /\ heir \in HeirChoice
  /\ pendingOwner' = heir
  /\ UNCHANGED <<owner, paused, policy, ledger, calls, now>>

AcceptOwnership(p) ==
  /\ p = pendingOwner
  /\ owner' = pendingOwner
  /\ pendingOwner' = Zero
  /\ UNCHANGED <<paused, policy, ledger, calls, now>>

Tick ==
  /\ running = {}
  /\ now < MaxTime
  /\ now' = now + 1
  /\ UNCHANGED <<auth, policy, ledger, calls>>

SetPolicy(p) ==
  \/ \E a \in Address, b \in BOOLEAN : SetAdapter(p, a, b)
  \/ \E c \in VersionChoice : SetAcceptedVersion(p, c[1], c[2])
  \/ \E b \in BOOLEAN : SetAccountModeEnabled(p, b)
  \/ \E c \in QuorumChoice : SetRequiredConfirmations(p, c[1], c[2])
  \/ \E t \in Address, b \in BOOLEAN : SetStrictMode(p, t, b)
  \/ \E c \in AllowChoice : SetAllowedCall(p, c[1], c[2])

SetAuth(p) ==
  \/ \E b \in BOOLEAN : SetPaused(p, b)
  \/ \E heir \in HeirChoice : TransferOwnership(p, heir)
  \/ AcceptOwnership(p)

Next ==
  \/ \E a \in Address, m \in Message : Deliver(a, m)
  \/ \E m \in Message, g \in OverrideChoice : Retry(m, g)
  \/ \E c \in running, ok \in BOOLEAN : Return(c, ok)
  \/ \E p \in Principal : SetPolicy(p) \/ SetAuth(p)
  \/ Tick

Spec == Init /\ [][Next]_vars

(***************************************************************************)
(* Fairness.  Time passes and a called target returns.  Adapters have      *)
(* transports that redeliver and retry is open to anyone, so each is tried *)
(* again whenever it can be: strong fairness, because a pause or another   *)
(* message's call may disable it in between.  An owner who pauses          *)
(* eventually unpauses.                                                    *)
(***************************************************************************)
FairSpec ==
  /\ Spec
  /\ SF_vars(Tick)
  /\ WF_vars(\E c \in running, ok \in BOOLEAN : Return(c, ok))
  /\ WF_vars(\E p \in Principal : SetPaused(p, FALSE))
  /\ \A m \in Message :
       /\ SF_vars(Retry(m, 0))
       /\ \A c \in AdapterChoice : SF_vars(Deliver(c[1], m))

(***************************************************************************)
(* Properties                                                              *)
(***************************************************************************)

\* Every variable stays in its type; the clock stays within its bound.
TypeOK ==
  /\ owner \in Principal
  /\ pendingOwner \in Principal \cup {Zero}
  /\ paused \in BOOLEAN
  /\ entered \in BOOLEAN
  /\ acceptedVersion \subseteq Nat
  /\ accountModeEnabled \in BOOLEAN
  /\ isAdapter \subseteq Address
  /\ requiredConfirmations \in [Address -> Nat]
  /\ strictMode \subseteq Address
  /\ allowedCall \subseteq CallKey
  /\ isAccount \subseteq Address
  /\ status \in [Message -> Status]
  /\ confirmedBy \in [Message -> SUBSET Address]
  /\ confirmations \in [Message -> Nat]
  /\ xDomain \in Origin
  /\ running \subseteq [msg : Message, gas : Nat]
  /\ now \in 0 .. MaxTime
  /\ effects \in [Message -> Nat]

\* A call takes effect at most once, and the ledger tells exactly whether it
\* did: outside the call itself, Executed means one effect and every other
\* status none.  This is the invariant docs/DESIGN.md asks of the gateway,
\* "no message is ever both executed and retryable", against redelivery over
\* a second transport, retries and re-entry (deliver, retry, _run).
ExecutedOnce ==
  \A m \in Message :
    effects[m] = IF status[m] = "Executed" /\ m \notin Open THEN 1 ELSE 0

\* What a target reads from xDomainMessageSender and xDomainMessageNonce is
\* the origin of the message whose call it is in, for the whole of that call
\* whatever the target calls meanwhile, and nothing outside a call
\* (_setTransient before and after the call, nonReentrant).
OriginShown ==
  /\ running = {} => xDomain = NoOrigin
  /\ \A c \in running :
       xDomain = [sender |-> Env[c.msg].sender, nonce |-> Env[c.msg].nonce]

\* What trusts the gateway as its caller, or holds a part of it.
Privileged == {Self, accountImplementation} \cup isAdapter \cup isAccount

\* In DIRECT mode the gateway itself is the caller, so it never calls an
\* address it has power over: itself, the account code, an adapter or any
\* sender's account, even one that became such after the message was parked
\* (_isForbiddenTarget, checked again by retry).  The word is on the moment of
\* the call: an owner may register the target as an adapter while it runs.
PrivilegedNeverCalled ==
  [][\A c \in running' \ running :
       Env[c.msg].mode = MODE_DIRECT => Env[c.msg].target \notin Privileged]_vars

\* A delivery that ends a message's wait was vouched for by as many different
\* adapters as its target asks for at that moment (confirmedBy against
\* confirmations, the quorum test of deliver).
QuorumVouched ==
  [][\A m \in Message :
       status[m] \in {"None", "Pending"} /\ status'[m] \in {"Executed", "Failed"}
         => Cardinality(confirmedBy'[m]) >= Required(Env[m].target)]_vars

\* No call is ever opened for a message that is expired, of a retired version,
\* or refused by the account-mode, strict-mode or target rules in force at
\* that moment, however long it was parked and whatever the owner changed in
\* between (deliver, retry).
RunsUnderCurrentPolicy ==
  [][\A c \in running' \ running : ~Terminal(c.msg) /\ ~Parkable(c.msg)]_vars

\* Rejected is final, and so is Executed once the call has returned: no
\* delivery, retry or change of policy revives such a message.
SettledIsFinal ==
  [][\A m \in Message :
       status[m] = "Rejected" \/ effects[m] > 0
         => status'[m] = status[m] /\ m \notin Open']_vars

\* A parked message that has an expiry does not stay parked for ever: a retry
\* runs it or, once it has expired, rejects it, whatever the target does
\* (retry runs the terminal checks before the parkable ones).
ParkedUntilExpiry ==
  \A m \in Message :
    status[m] = "Failed" /\ Env[m].expiry # 0
      ~> status[m] \in {"Executed", "Rejected"} /\ m \notin Open

\* A message waiting for its quorum is settled once every adapter the owner
\* may register is registered, if each of them keeps redelivering.  Registered
\* for good, that is: not inside a call that may yet fail.
PendingResolves ==
  \A m \in Message :
    (/\ status[m] = "Pending"
     /\ running = {}
     /\ \A c \in AdapterChoice : c[1] \in isAdapter) ~> status[m] # "Pending"

\* The promise to users: the gateway's steps are steps of MessageLifecycle.
PhaseOf(m) ==
  IF m \in Open THEN "open"
  ELSE CASE status[m] = "None" -> "none"
         [] status[m] = "Pending" -> "pending"
         [] status[m] = "Executed" -> "executed"
         [] status[m] = "Failed" -> "failed"
         [] OTHER -> "rejected"

Lifecycle == INSTANCE MessageLifecycle WITH phase <- [m \in Message |-> PhaseOf(m)]

\* Every behaviour of the gateway, with its votes, policy and re-entry, is a
\* behaviour of the abstract life cycle: one effect at most, one call at a
\* time, no way back from a settled message.
ImplementsLifecycle == Lifecycle!LifecycleSpec
===============================================================================
