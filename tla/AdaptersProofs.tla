---------------------------- MODULE AdaptersProofs ----------------------------
(***************************************************************************)
(* Theorems about Adapters, for any adapters, attestations, relayers and   *)
(* choices of the owners.  First, that whatever stands in front of it the  *)
(* gateway only ever takes its own steps, so that what GatewayProofs shows *)
(* of it holds here; then what the adapters add.                           *)
(***************************************************************************)
EXTENDS Adapters, GatewayProofs

(***************************************************************************)
(* Every step is a step of the gateway, or leaves it alone.                *)
(***************************************************************************)
LEMMA HandOverSteps ==
  ASSUME NEW a \in Adapter, NEW m \in Message, NEW gas, HandOver(a, m, gas)
  PROVE  [Next]_vars
<1>1. a \in Address
  BY AdaptersAssumption
<1> QED
  BY <1>1 DEF HandOver, Next

LEMMA ReceiveSteps ==
  ASSUME NEW a \in WhAdapter, NEW v \in Vaa, NEW gas, ReceiveMessage(a, v, gas)
  PROVE  [Next]_vars
<1>1. a \in Adapter /\ v.payload \in Message
  BY AdaptersAssumption DEF Adapter, SignedVaa
<1> QED
  BY <1>1, HandOverSteps DEF ReceiveMessage

LEMMA LzReceiveSteps ==
  ASSUME NEW p \in Packet, NEW gas, LzReceive(p, gas)
  PROVE  [Next]_vars
<1>1. p.receiver \in Adapter /\ p.message \in Message
  BY AdaptersAssumption DEF Adapter, LzPacket
<1> QED
  BY <1>1, HandOverSteps DEF LzReceive

LEMMA RelayerSteps ==
  ASSUME NEW r \in Relayer, Start(r) \/ RelayerStep(r)
  PROVE  [Next]_vars
<1>1. Job[r][1] \in WhAdapter /\ Job[r][2] \in Vaa
  BY AdaptersAssumption
<1>2. CASE Mined(r)
  BY <1>1, <1>2, ReceiveSteps DEF Mined, Off
<1> QED
  BY <1>2 DEF Start, RelayerStep, Poll, Simulate, Submit, Off

LEMMA ConfigureFrame ==
  ASSUME NEW p \in Principal, ConfigureAdapter(p)
  PROVE  UNCHANGED <<vars, transports, relayer, starved>>
BY DEF ConfigureAdapter, SetSolanaPeer, SetMinConsistencyLevel, SetAdapterPaused,
       TransferAdapterOwnership, AcceptAdapterOwnership, SetAdapterAuth

LEMMA AdaptersSteps == [AdaptersNext]_avars => [Next]_vars
<1> SUFFICES ASSUME [AdaptersNext]_avars PROVE [Next]_vars
  OBVIOUS
<1>1. CASE Attest
  BY <1>1 DEF Attest, Sign, Verify
<1>2. CASE Arrive
  BY <1>2, ReceiveSteps, LzReceiveSteps DEF Arrive, LzStarve
<1>3. CASE GatewayStep
  BY <1>3 DEF GatewayStep, Next
<1>4. ASSUME NEW r \in Relayer, Start(r) \/ RelayerStep(r) PROVE [Next]_vars
  BY <1>4, RelayerSteps
<1>5. ASSUME NEW p \in Principal, ConfigureAdapter(p) PROVE [Next]_vars
  BY <1>5, ConfigureFrame
<1>6. CASE UNCHANGED avars
  BY <1>6 DEF avars
<1> QED
  BY <1>1, <1>2, <1>3, <1>4, <1>5, <1>6 DEF AdaptersNext, DestinationStep

\* Behind its adapters, the endpoint and the relayers, the gateway behaves as
\* Gateway says: no delivery they make is one that Gateway does not consider.
THEOREM AdaptersRefineGateway == AdaptersSpec => Spec
<1>1. AdaptersInit => Init
  BY DEF AdaptersInit
<1> QED
  BY <1>1, AdaptersSteps, PTL DEF AdaptersSpec, Spec

\* So a call takes effect at most once whatever the transports repeat.
THEOREM AdaptersOnce == AdaptersSpec => []ExecutedOnce
BY AdaptersRefineGateway, Once, PTL

(***************************************************************************)
(* The adapters' own variables                                             *)
(***************************************************************************)
LEMMA AdaptersTypeInit == AdaptersInit => AdaptersTypeOK
<1> SUFFICES ASSUME AdaptersInit PROVE AdaptersTypeOK
  OBVIOUS
<1>1. \A a \in Adapter :
        [owner |-> Deployer, pendingOwner |-> Zero, paused |-> FALSE]
          \in [owner : Principal, pendingOwner : Principal \cup {Zero}, paused : BOOLEAN]
  BY GatewayAssumption, Zenon
<1>2. adapterAuth \in
        [Adapter -> [owner : Principal, pendingOwner : Principal \cup {Zero}, paused : BOOLEAN]]
  BY <1>1, Zenon DEF AdaptersInit
<1>3. Idle \in [phase : {"idle", "polling", "fetched", "simulated", "sent"}, runs : BOOLEAN]
  BY Zenon DEF Idle
<1>4. relayer \in
        [Relayer -> [phase : {"idle", "polling", "fetched", "simulated", "sent"}, runs : BOOLEAN]]
  BY <1>3, Zenon DEF AdaptersInit
<1> QED
  BY <1>2, <1>4, AdaptersAssumption DEF AdaptersInit, AdaptersTypeOK, CONSISTENCY_FINALIZED

RelayerState == [phase : {"idle", "polling", "fetched", "simulated", "sent"}, runs : BOOLEAN]
AuthState == [owner : Principal, pendingOwner : Principal \cup {Zero}, paused : BOOLEAN]

\* What SetAdapterPaused, TransferAdapterOwnership and AcceptAdapterOwnership
\* make of an Auth state.
LEMMA AuthUpdates ==
  ASSUME NEW s \in AuthState, NEW p \in Principal, NEW heir \in Principal \cup {Zero},
         NEW b \in BOOLEAN
  PROVE  /\ [s EXCEPT !.paused = b] \in AuthState
         /\ [s EXCEPT !.pendingOwner = heir] \in AuthState
         /\ [s EXCEPT !.owner = p, !.pendingOwner = Zero] \in AuthState
<1>1. [s EXCEPT !.paused = b] \in AuthState
  BY Zenon DEF AuthState
<1>2. [s EXCEPT !.pendingOwner = heir] \in AuthState
  BY Zenon DEF AuthState
<1>3. [s EXCEPT !.owner = p, !.pendingOwner = Zero] \in AuthState
  BY Zenon DEF AuthState
<1> QED
  BY <1>1, <1>2, <1>3

\* What a step of the relayer makes of its state.
LEMMA RelayerUpdates ==
  ASSUME NEW s \in RelayerState, NEW b \in BOOLEAN
  PROVE  /\ Idle \in RelayerState
         /\ [Idle EXCEPT !.phase = "polling"] \in RelayerState
         /\ [Idle EXCEPT !.phase = "fetched"] \in RelayerState
         /\ [s EXCEPT !.phase = "simulated"] \in RelayerState
         /\ [s EXCEPT !.phase = "sent", !.runs = b] \in RelayerState
<1>1. Idle \in RelayerState
  BY Zenon DEF Idle, RelayerState
<1>2. ASSUME NEW t \in RelayerState,
             NEW phase \in {"idle", "polling", "fetched", "simulated", "sent"}
      PROVE  [t EXCEPT !.phase = phase] \in RelayerState
  BY Zenon DEF RelayerState
<1>3. [s EXCEPT !.phase = "sent", !.runs = b] \in RelayerState
  BY Zenon DEF RelayerState
<1> QED
  BY <1>1, <1>2, <1>3

LEMMA ConfigureTypes ==
  ASSUME AdaptersTypeOK, NEW p \in Principal, ConfigureAdapter(p)
  PROVE  AdaptersTypeOK'
<1>1. adapterAuth \in [Adapter -> AuthState]
  BY DEF AdaptersTypeOK, AuthState
<1>2. ASSUME NEW a \in Adapter, NEW s \in AuthState, SetAdapterAuth(a, s)
      PROVE  AdaptersTypeOK'
  <2>1. adapterAuth' \in [Adapter -> AuthState]
    BY <1>1, <1>2, Zenon DEF SetAdapterAuth
  <2>2. UNCHANGED <<solanaPeer, minConsistencyLevel, transports, relayer, starved>>
    BY <1>2 DEF SetAdapterAuth
  <2> QED
    BY <2>1, <2>2 DEF AdaptersTypeOK, AuthState, transports
<1>3. ASSUME NEW c \in AdapterPeerChoice, SetSolanaPeer(p, c[1], c[2])
      PROVE  AdaptersTypeOK'
  <2>1. c[1] \in Adapter /\ c[2] \in Emitter
    BY AdaptersAssumption
  <2>2. solanaPeer' \in [Adapter -> Emitter]
    BY <1>3, <2>1 DEF SetSolanaPeer, AdaptersTypeOK
  <2>3. UNCHANGED <<adapterAuth, minConsistencyLevel, transports, relayer, starved>>
    BY <1>3 DEF SetSolanaPeer
  <2> QED
    BY <2>2, <2>3 DEF AdaptersTypeOK, transports
<1>4. ASSUME NEW c \in LevelChoice, SetMinConsistencyLevel(p, c[1], c[2])
      PROVE  AdaptersTypeOK'
  <2>1. c[1] \in WhAdapter /\ c[2] \in Nat
    BY AdaptersAssumption
  <2>2. minConsistencyLevel' \in [WhAdapter -> Nat]
    BY <1>4, <2>1 DEF SetMinConsistencyLevel, AdaptersTypeOK
  <2>3. UNCHANGED <<adapterAuth, solanaPeer, transports, relayer, starved>>
    BY <1>4 DEF SetMinConsistencyLevel
  <2> QED
    BY <2>2, <2>3 DEF AdaptersTypeOK, transports
<1>5. ASSUME NEW c \in AdapterPauseChoice, SetAdapterPaused(p, c[1], c[2])
      PROVE  AdaptersTypeOK'
  <2>1. c[1] \in Adapter /\ c[2] \in BOOLEAN
    BY AdaptersAssumption
  <2>2. adapterAuth[c[1]] \in AuthState
    BY <1>1, <2>1
  <2> QED
    BY <1>2, <1>5, <2>1, <2>2, AuthUpdates, Zenon DEF SetAdapterPaused
<1>6. ASSUME NEW c \in AdapterHeirChoice, TransferAdapterOwnership(p, c[1], c[2])
      PROVE  AdaptersTypeOK'
  <2>1. c[1] \in Adapter /\ c[2] \in Principal \cup {Zero}
    BY AdaptersAssumption
  <2>2. adapterAuth[c[1]] \in AuthState
    BY <1>1, <2>1
  <2> QED
    BY <1>2, <1>6, <2>1, <2>2, AuthUpdates, Zenon DEF TransferAdapterOwnership
<1>7. ASSUME NEW c \in AdapterHeirChoice, AcceptAdapterOwnership(p, c[1])
      PROVE  AdaptersTypeOK'
  <2>1. c[1] \in Adapter
    BY AdaptersAssumption
  <2>2. adapterAuth[c[1]] \in AuthState
    BY <1>1, <2>1
  <2>3. Zero \in Principal \cup {Zero} /\ TRUE \in BOOLEAN
    OBVIOUS
  <2> QED
    BY <1>2, <1>7, <2>1, <2>2, <2>3, AuthUpdates, Zenon DEF AcceptAdapterOwnership
<1> QED
  BY <1>3, <1>4, <1>5, <1>6, <1>7 DEF ConfigureAdapter

LEMMA ReceiveTypes ==
  ASSUME AdaptersTypeOK, NEW a \in WhAdapter, NEW v \in Vaa, NEW gas,
         ReceiveMessage(a, v, gas), relayer' \in [Relayer -> RelayerState]
  PROVE  AdaptersTypeOK'
<1>1. consumedVaa' \in [WhAdapter -> SUBSET Vaa]
  BY DEF AdaptersTypeOK, ReceiveMessage, Consume
<1>2. UNCHANGED <<signed, verified, cleared, contracts, starved>>
  BY DEF ReceiveMessage
<1> QED
  BY <1>1, <1>2 DEF AdaptersTypeOK, RelayerState, contracts

LEMMA RelayerTypes ==
  ASSUME AdaptersTypeOK, NEW r \in Relayer, Start(r) \/ RelayerStep(r)
  PROVE  AdaptersTypeOK'
<1>1. relayer \in [Relayer -> RelayerState] /\ relayer[r] \in RelayerState
  BY DEF AdaptersTypeOK, RelayerState
<1>2. ASSUME NEW s \in RelayerState, Set(r, s)
      PROVE  relayer' \in [Relayer -> RelayerState]
  BY <1>1, <1>2, Zenon DEF Set
<1>3. ASSUME Off, relayer' \in [Relayer -> RelayerState]
      PROVE  AdaptersTypeOK'
  BY <1>3 DEF Off, AdaptersTypeOK, RelayerState, contracts, transports
<1>4. CASE Start(r)
  BY <1>1, <1>2, <1>3, <1>4, RelayerUpdates, Zenon DEF Start
<1>5. CASE Poll(r)
  <2>1. \/ Set(r, [Idle EXCEPT !.phase = "fetched"])
        \/ Set(r, Idle)
    BY <1>5, Zenon DEF Poll
  <2> QED
    BY <1>1, <1>2, <1>3, <1>5, <2>1, RelayerUpdates, Zenon DEF Poll
<1>6. CASE Simulate(r)
  <2>1. \/ Set(r, [relayer[r] EXCEPT !.phase = "simulated"])
        \/ Set(r, Idle)
    BY <1>6, Zenon DEF Simulate
  <2> QED
    BY <1>1, <1>2, <1>3, <1>6, <2>1, RelayerUpdates, Zenon DEF Simulate
<1>7. CASE Submit(r)
  <2> DEFINE runs == WouldRun(Job[r][1], Job[r][2].payload)
  <2>1. \/ Set(r, [relayer[r] EXCEPT !.phase = "sent", !.runs = runs])
        \/ Set(r, Idle)
    BY <1>7, Zenon DEF Submit
  <2>2. runs \in BOOLEAN
    BY Zenon DEF WouldRun
  <2> HIDE DEF runs
  <2> QED
    BY <1>1, <1>2, <1>3, <1>7, <2>1, <2>2, RelayerUpdates, Zenon DEF Submit
<1>8. CASE Mined(r)
  <2>1. relayer' \in [Relayer -> RelayerState]
    BY <1>1, <1>2, <1>8, RelayerUpdates, Zenon DEF Mined
  <2>2. Job[r][1] \in WhAdapter /\ Job[r][2] \in Vaa
    BY AdaptersAssumption
  <2> QED
    BY <1>3, <1>8, <2>1, <2>2, ReceiveTypes, Zenon DEF Mined
<1> QED
  BY <1>4, <1>5, <1>6, <1>7, <1>8 DEF RelayerStep

LEMMA AdaptersTypeStep == AdaptersTypeOK /\ [AdaptersNext]_avars => AdaptersTypeOK'
<1> SUFFICES ASSUME AdaptersTypeOK, [AdaptersNext]_avars PROVE AdaptersTypeOK'
  OBVIOUS
<1>1. CASE Attest
  BY <1>1 DEF Attest, Sign, Verify, AdaptersTypeOK, contracts
<1>2. ASSUME NEW a \in WhAdapter, NEW v \in Vaa, ReceiveMessage(a, v, Ample), UNCHANGED relayer
      PROVE  AdaptersTypeOK'
  <2>1. relayer' \in [Relayer -> RelayerState]
    BY <1>2 DEF AdaptersTypeOK, RelayerState
  <2> QED
    BY <1>2, <2>1, ReceiveTypes
<1>3. ASSUME NEW p \in Packet, NEW gas, LzReceive(p, gas) PROVE AdaptersTypeOK'
  BY <1>3 DEF LzReceive, AdaptersTypeOK, contracts
<1>4. ASSUME NEW p \in Packet, LzStarve(p) PROVE AdaptersTypeOK'
  BY <1>4 DEF LzStarve, AdaptersTypeOK, contracts, transports
<1>5. CASE GatewayStep
  BY <1>5 DEF GatewayStep, AdaptersTypeOK, outside, contracts, transports
<1>6. ASSUME NEW r \in Relayer, Start(r) \/ RelayerStep(r) PROVE AdaptersTypeOK'
  BY <1>6, RelayerTypes
<1>7. ASSUME NEW p \in Principal, ConfigureAdapter(p) PROVE AdaptersTypeOK'
  BY <1>7, ConfigureTypes
<1>8. CASE UNCHANGED avars
  BY <1>8 DEF avars, AdaptersTypeOK, outside, contracts, transports
<1> QED
  BY <1>1, <1>2, <1>3, <1>4, <1>5, <1>6, <1>7, <1>8 DEF AdaptersNext, DestinationStep, Arrive

THEOREM AdaptersTypes == AdaptersSpec => []AdaptersTypeOK
BY AdaptersTypeInit, AdaptersTypeStep, PTL DEF AdaptersSpec

(***************************************************************************)
(* Nothing is spent in vain.  A vote is never withdrawn and a settled      *)
(* message stays settled, whatever the gateway does; and an adapter spends *)
(* an attestation only in the step in which the gateway takes it.          *)
(***************************************************************************)
LEMMA SettleGrows ==
  ASSUME TypeOK, NEW m \in Message, NEW k \in Message,
         NEW s \in Status, Settle(k, s), Settled(k) => s \in {"Executed", "Failed", "Rejected"}
  PROVE  Settled(m) => Settled(m)'
<1>1. status \in [Message -> Status]
  BY DEF TypeOK
<1>2. status' = [status EXCEPT ![k] = s]
  BY DEF Settle
<1> QED
  BY <1>1, <1>2 DEF Settled

LEMMA RunGrows ==
  ASSUME TypeOK, NEW m \in Message, NEW k \in Message, NEW gas, Run(k, gas)
  PROVE  (Settled(m) => Settled(m)') /\ Settled(k)'
<1>1. status \in [Message -> Status]
  BY DEF TypeOK
<1>2. status' = [status EXCEPT ![k] = "Executed"]
  BY DEF Run
<1> QED
  BY <1>1, <1>2 DEF Settled

LEMMA Growth ==
  ASSUME TypeOK, [Next]_vars, NEW m \in Message
  PROVE  /\ confirmedBy[m] \subseteq confirmedBy'[m]
         /\ Settled(m) => Settled(m)'
<1>1. status \in [Message -> Status] /\ confirmedBy \in [Message -> SUBSET Address]
  BY DEF TypeOK
<1>2. ASSUME UNCHANGED ledger
      PROVE  confirmedBy[m] \subseteq confirmedBy'[m] /\ (Settled(m) => Settled(m)')
  BY <1>2 DEF ledger, Settled
<1>3. ASSUME NEW a \in Address, NEW k \in Message, Deliver(a, k)
      PROVE  confirmedBy[m] \subseteq confirmedBy'[m] /\ (Settled(m) => Settled(m)')
  <2>1. confirmedBy[m] \subseteq confirmedBy'[m]
    BY <1>1, <1>3 DEF Deliver, Vote
  <2>2. ~Settled(k)
    BY <1>3 DEF Deliver, Duplicate, Settled
  <2>3. \/ \E s \in Status : Settle(k, s)
        \/ Run(k, Env[k].gasLimit)
    BY <1>3 DEF Deliver, Status
  <2> QED
    BY <2>1, <2>2, <2>3, SettleGrows, RunGrows
<1>4. ASSUME NEW k \in Message, NEW g \in OverrideChoice, Retry(k, g)
      PROVE  confirmedBy[m] \subseteq confirmedBy'[m] /\ (Settled(m) => Settled(m)')
  <2>1. confirmedBy' = confirmedBy
    BY <1>4 DEF Retry
  <2>2. Settle(k, "Rejected") \/ (\E gas : Run(k, gas))
    BY <1>4 DEF Retry
  <2> QED
    BY <2>1, <2>2, SettleGrows, RunGrows DEF Status
<1>5. ASSUME NEW c \in running, NEW ok \in BOOLEAN, Return(c, ok)
      PROVE  confirmedBy[m] \subseteq confirmedBy'[m] /\ (Settled(m) => Settled(m)')
  BY <1>1, <1>5 DEF Return, Settled
<1>6. ASSUME NEW p \in Principal, SetPolicy(p) \/ SetAuth(p)
      PROVE  UNCHANGED ledger
  BY <1>6, OwnerIdle DEF ledger
<1>7. CASE Tick \/ UNCHANGED vars
  BY <1>2, <1>7 DEF Tick, vars
<1> QED
  BY <1>2, <1>3, <1>4, <1>5, <1>6, <1>7 DEF Next

\* The gateway takes what it does not refuse.
LEMMA HandedOver ==
  ASSUME TypeOK, NEW a \in Adapter, NEW m \in Message, NEW gas, HandOver(a, m, gas)
  PROVE  a \in confirmedBy'[m] \/ Settled(m)'
<1>1. status \in [Message -> Status] /\ confirmedBy \in [Message -> SUBSET Address]
  BY DEF TypeOK
<1>2. CASE Duplicate(a, m) /\ UNCHANGED vars
  BY <1>2 DEF Duplicate, Settled, vars, ledger
<1>3. CASE Deliver(a, m) /\ Terminal(m)
  BY <1>1, <1>3 DEF Deliver, Settle, Settled
<1>4. CASE Deliver(a, m) /\ ~Terminal(m)
  BY <1>1, <1>4 DEF Deliver, Vote
<1> QED
  BY <1>2, <1>3, <1>4 DEF HandOver

AInv ==
  /\ TypeOK
  /\ AdaptersTypeOK
  /\ verified \cap cleared = {}
  /\ NothingSpentInVain

LEMMA AInvInit == AdaptersInit => AInv
<1> SUFFICES ASSUME AdaptersInit PROVE AInv
  OBVIOUS
<1>1. TypeOK /\ AdaptersTypeOK
  BY TypeInit, AdaptersTypeInit DEF AdaptersInit
<1> QED
  BY <1>1 DEF AdaptersInit, AInv, NothingSpentInVain

\* What was spent before stays spent for something.
LEMMA StillSpent ==
  ASSUME AInv, [Next]_vars
  PROVE  /\ \A a \in WhAdapter : \A v \in consumedVaa[a] :
              a \in confirmedBy'[v.payload] \/ Settled(v.payload)'
         /\ \A p \in cleared : p.receiver \in confirmedBy'[p.message] \/ Settled(p.message)'
<1>1. ASSUME NEW a \in WhAdapter, NEW v \in consumedVaa[a]
      PROVE  a \in confirmedBy'[v.payload] \/ Settled(v.payload)'
  <2>1. v \in Vaa /\ v.payload \in Message
    BY AdaptersAssumption DEF AInv, AdaptersTypeOK, SignedVaa
  <2> QED
    BY <2>1, Growth DEF AInv, NothingSpentInVain
<1>2. ASSUME NEW p \in cleared
      PROVE  p.receiver \in confirmedBy'[p.message] \/ Settled(p.message)'
  <2>1. p \in Packet /\ p.message \in Message
    BY AdaptersAssumption DEF AInv, AdaptersTypeOK, LzPacket
  <2> QED
    BY <2>1, Growth DEF AInv, NothingSpentInVain
<1> QED
  BY <1>1, <1>2

\* A step that spends nothing.
LEMMA Unspent ==
  ASSUME AInv, [Next]_vars, AdaptersTypeOK', UNCHANGED <<consumedVaa, cleared>>,
         verified' \cap cleared = {}
  PROVE  AInv'
<1>1. TypeOK'
  BY TypeStep DEF AInv
<1>2. NothingSpentInVain'
  BY StillSpent DEF NothingSpentInVain
<1> QED
  BY <1>1, <1>2 DEF AInv

LEMMA ReceiveAInv ==
  ASSUME AInv, AdaptersTypeOK', NEW a \in WhAdapter, NEW v \in Vaa, NEW gas,
         ReceiveMessage(a, v, gas)
  PROVE  AInv'
<1>1. [Next]_vars
  BY ReceiveSteps
<1>2. TypeOK'
  BY <1>1, TypeStep DEF AInv
<1>3. a \in Adapter /\ v.payload \in Message
  BY AdaptersAssumption DEF Adapter, SignedVaa
<1>4. a \in confirmedBy'[v.payload] \/ Settled(v.payload)'
  BY <1>3, HandedOver DEF ReceiveMessage, AInv
<1>5. consumedVaa' = [consumedVaa EXCEPT ![a] = @ \cup {v}] /\ cleared' = cleared
      /\ verified' = verified
  BY DEF ReceiveMessage, Consume
<1>6. ASSUME NEW b \in WhAdapter, NEW w \in consumedVaa'[b]
      PROVE  b \in confirmedBy'[w.payload] \/ Settled(w.payload)'
  <2>1. w \in consumedVaa[b] \/ (b = a /\ w = v)
    BY <1>5 DEF AInv, AdaptersTypeOK
  <2> QED
    BY <1>1, <1>4, <2>1, StillSpent
<1>7. \A p \in cleared' : p.receiver \in confirmedBy'[p.message] \/ Settled(p.message)'
  BY <1>1, <1>5, StillSpent
<1> QED
  BY <1>2, <1>5, <1>6, <1>7 DEF AInv, NothingSpentInVain

LEMMA LzReceiveAInv ==
  ASSUME AInv, AdaptersTypeOK', NEW p \in Packet, NEW gas, LzReceive(p, gas)
  PROVE  AInv'
<1>1. [Next]_vars
  BY LzReceiveSteps
<1>2. TypeOK'
  BY <1>1, TypeStep DEF AInv
<1>3. p.receiver \in Adapter /\ p.message \in Message
  BY AdaptersAssumption DEF Adapter, LzPacket
<1>4. p.receiver \in confirmedBy'[p.message] \/ Settled(p.message)'
  BY <1>3, HandedOver DEF LzReceive, AInv
<1>5. /\ consumedVaa' = consumedVaa
      /\ verified' = verified \ {p} /\ cleared' = cleared \cup {p}
  BY DEF LzReceive
<1>6. verified' \cap cleared' = {}
  BY <1>5 DEF AInv
<1>7. NothingSpentInVain'
  BY <1>1, <1>4, <1>5, StillSpent DEF NothingSpentInVain
<1> QED
  BY <1>2, <1>6, <1>7 DEF AInv

LEMMA AInvStep == AInv /\ [AdaptersNext]_avars => AInv'
<1> SUFFICES ASSUME AInv, [AdaptersNext]_avars PROVE AInv'
  OBVIOUS
<1>1. [Next]_vars /\ AdaptersTypeOK'
  BY AdaptersSteps, AdaptersTypeStep DEF AInv
<1>2. ASSUME UNCHANGED transports PROVE AInv'
  BY <1>1, <1>2, Unspent DEF transports, AInv
<1>3. CASE Attest
  <2>1. UNCHANGED <<consumedVaa, cleared>> /\ verified' \cap cleared = {}
    BY <1>3 DEF Attest, Sign, Verify, AInv
  <2> QED
    BY <1>1, <2>1, Unspent
<1>4. CASE Arrive
  BY <1>1, <1>2, <1>4, ReceiveAInv, LzReceiveAInv DEF Arrive, LzStarve
<1>5. CASE GatewayStep
  BY <1>2, <1>5 DEF GatewayStep, outside
<1>6. ASSUME NEW r \in Relayer, Start(r) \/ RelayerStep(r) PROVE AInv'
  <2>1. Job[r][1] \in WhAdapter /\ Job[r][2] \in Vaa
    BY AdaptersAssumption
  <2>2. CASE Mined(r)
    BY <1>1, <1>2, <2>1, <2>2, ReceiveAInv DEF Mined, Off
  <2> QED
    BY <1>2, <1>6, <2>2 DEF Start, RelayerStep, Poll, Simulate, Submit, Off
<1>7. ASSUME NEW p \in Principal, ConfigureAdapter(p) PROVE AInv'
  BY <1>2, <1>7, ConfigureFrame
<1>8. CASE UNCHANGED avars
  BY <1>2, <1>8 DEF avars, outside
<1> QED
  BY <1>3, <1>4, <1>5, <1>6, <1>7, <1>8 DEF AdaptersNext, DestinationStep

THEOREM AdaptersInvariance == AdaptersSpec => []AInv
BY AInvInit, AInvStep, PTL DEF AdaptersSpec

\* No attestation is lost: whatever the adapters, the endpoint and the
\* relayers do, one that is spent is a vote or found its message settled.
THEOREM SpentForSomething == AdaptersSpec => []NothingSpentInVain
<1>1. AInv => NothingSpentInVain
  BY DEF AInv
<1> QED
  BY <1>1, AdaptersInvariance, PTL

(***************************************************************************)
(* A vote costs an attestation of its own.                                 *)
(***************************************************************************)
\* Only its own delivery gives an adapter a vote.
LEMMA VoteTaken ==
  ASSUME TypeOK, NEW a \in Adapter, NEW m \in Message, NEW gas, HandOver(a, m, gas),
         NEW k \in Message, NEW b \in confirmedBy'[k] \ confirmedBy[k]
  PROVE  k = m /\ b = a
<1>1. confirmedBy \in [Message -> SUBSET Address]
  BY DEF TypeOK
<1>2. Deliver(a, m)
  BY DEF HandOver, vars, ledger
<1> QED
  BY <1>1, <1>2 DEF Deliver, Vote

LEMMA ReceiveBuys ==
  ASSUME AInv, NEW a \in WhAdapter, NEW v \in Vaa, NEW gas, ReceiveMessage(a, v, gas),
         NEW k \in Message, NEW b \in confirmedBy'[k] \ confirmedBy[k]
  PROVE  Bought(b, k)
<1>1. a \in Adapter /\ v.payload \in Message
  BY AdaptersAssumption DEF Adapter, SignedVaa
<1>2. k = v.payload /\ b = a
  BY <1>1, VoteTaken DEF ReceiveMessage, AInv
<1>3. /\ v \in signed
      /\ v.emitterChainId = WORMHOLE_CHAIN_ID_SOLANA /\ v.emitterAddress = solanaPeer[a]
      /\ v.consistencyLevel >= minConsistencyLevel[a]
      /\ v \notin consumedVaa[a]
  BY DEF ReceiveMessage, Accepts
<1>4. v \in consumedVaa'[a]
  BY DEF ReceiveMessage, Consume, AInv, AdaptersTypeOK
<1> QED
  BY <1>2, <1>3, <1>4 DEF Bought

LEMMA LzReceiveBuys ==
  ASSUME AInv, NEW p \in Packet, NEW gas, LzReceive(p, gas),
         NEW k \in Message, NEW b \in confirmedBy'[k] \ confirmedBy[k]
  PROVE  Bought(b, k)
<1>1. p.receiver \in Adapter /\ p.message \in Message
  BY AdaptersAssumption DEF Adapter, LzPacket
<1>2. k = p.message /\ b = p.receiver
  BY <1>1, VoteTaken DEF LzReceive, AInv
<1>3. /\ p \in cleared' \ cleared
      /\ p.srcEid = SOLANA_EID /\ p.sender = solanaPeer[p.receiver]
  BY DEF LzReceive, Takes, AllowInitializePath, AInv
<1> QED
  BY <1>2, <1>3 DEF Bought

\* The gateway gives no vote of itself.
LEMMA OthersBuyNothing ==
  ASSUME GatewayStep \/ UNCHANGED vars
  PROVE  confirmedBy' = confirmedBy
<1>1. ASSUME NEW m \in Message, NEW g \in OverrideChoice, Retry(m, g)
      PROVE  confirmedBy' = confirmedBy
  BY <1>1 DEF Retry
<1>2. ASSUME NEW c \in running, NEW ok \in BOOLEAN, Return(c, ok)
      PROVE  confirmedBy' = confirmedBy
  BY <1>2 DEF Return
<1>3. ASSUME NEW p \in Principal, SetPolicy(p) \/ SetAuth(p)
      PROVE  confirmedBy' = confirmedBy
  BY <1>3, OwnerIdle DEF ledger
<1>4. CASE Tick \/ UNCHANGED vars
  BY <1>4 DEF Tick, vars, ledger
<1> QED
  BY <1>1, <1>2, <1>3, <1>4 DEF GatewayStep

LEMMA StepBuys ==
  ASSUME AInv, [AdaptersNext]_avars,
         NEW k \in Message, NEW b \in confirmedBy'[k] \ confirmedBy[k]
  PROVE  Bought(b, k)
<1>1. ~GatewayStep /\ ~UNCHANGED vars
  BY OthersBuyNothing
<1>2. CASE Arrive
  BY <1>1, <1>2, ReceiveBuys, LzReceiveBuys DEF Arrive, LzStarve
<1>3. ASSUME NEW r \in Relayer, Start(r) \/ RelayerStep(r) PROVE Bought(b, k)
  <2>1. Job[r][1] \in WhAdapter /\ Job[r][2] \in Vaa
    BY AdaptersAssumption
  <2>2. CASE Mined(r)
    BY <1>1, <2>1, <2>2, ReceiveBuys DEF Mined, Off
  <2> QED
    BY <1>1, <1>3, <2>2 DEF Start, RelayerStep, Poll, Simulate, Submit, Off
<1>4. ASSUME NEW p \in Principal, ConfigureAdapter(p) PROVE FALSE
  BY <1>1, <1>4, ConfigureFrame
<1>5. CASE Attest \/ UNCHANGED avars
  BY <1>1, <1>5 DEF Attest, Sign, Verify, avars
<1> QED
  BY <1>1, <1>2, <1>3, <1>4, <1>5 DEF AdaptersNext, DestinationStep

\* No vote without an attestation that bought it and nothing else.
THEOREM EveryVoteBought == AdaptersSpec => VotesBacked
<1>1. AInv /\ [AdaptersNext]_avars
        => [\A m \in Message : \A a \in confirmedBy'[m] \ confirmedBy[m] : Bought(a, m)]_avars
  BY StepBuys
<1> QED
  BY <1>1, AdaptersInvariance, PTL DEF AdaptersSpec, VotesBacked
===============================================================================
