-------------------------- MODULE GatewayRefinement --------------------------
(***************************************************************************)
(* The gateway implements MessageLifecycle: each step of Gateway moves one *)
(* message along the life cycle, or none.                                  *)
(***************************************************************************)
EXTENDS GatewayProofs

Phases == [m \in Message |-> PhaseOf(m)]

\* Every phase but "open" follows from the status alone.
LEMMA PhaseRead ==
  ASSUME TypeOK, NEW m \in Message
  PROVE  /\ m \in Open => PhaseOf(m) = "open"
         /\ m \notin Open => PhaseOf(m) # "open"
         /\ m \notin Open /\ status[m] = "None" => PhaseOf(m) = "none"
         /\ m \notin Open /\ status[m] = "Pending" => PhaseOf(m) = "pending"
         /\ m \notin Open /\ status[m] = "Executed" => PhaseOf(m) = "executed"
         /\ m \notin Open /\ status[m] = "Failed" => PhaseOf(m) = "failed"
         /\ m \notin Open /\ status[m] = "Rejected" => PhaseOf(m) = "rejected"
BY DEF PhaseOf

\* What a step leaves alone keeps its phase.
LEMMA PhaseFrame ==
  ASSUME TypeOK, NEW m \in Message,
         \A k \in Message \ {m} : status'[k] = status[k] /\ (k \in Open' <=> k \in Open)
  PROVE  Phases' = [Phases EXCEPT ![m] = PhaseOf(m)']
<1>1. ASSUME NEW k \in Message, k # m PROVE PhaseOf(k)' = PhaseOf(k)
  <2>1. status'[k] = status[k] /\ (k \in Open' <=> k \in Open)
    BY <1>1
  <2> QED
    BY <2>1 DEF PhaseOf
<1> QED
  BY <1>1 DEF Phases

LEMMA PhasesKept ==
  ASSUME UNCHANGED <<status, running>>
  PROVE  Phases' = Phases
<1>1. Open' = Open
  BY DEF Open
<1>2. \A k \in Message : PhaseOf(k)' = PhaseOf(k)
  BY <1>1 DEF PhaseOf
<1> QED
  BY <1>2 DEF Phases

\* With no other message's call open, one message may move.
LEMMA Moves ==
  ASSUME TypeOK, TypeOK', NEW m \in Message, Open \subseteq {m},
         \A k \in Message \ {m} : status'[k] = status[k] /\ k \notin Open',
         NEW p, PhaseOf(m)' = p
  PROVE  Lifecycle!Move(m, p)
<1>1. \A k \in Message \ {m} : k \notin Open /\ PhaseOf(k) # "open"
  BY PhaseRead
<1>2. Phases' = [Phases EXCEPT ![m] = p]
  BY <1>1, PhaseFrame
<1> QED
  BY <1>1, <1>2 DEF Lifecycle!Move, Lifecycle!Alone, Phases

LEMMA SettleMoves ==
  ASSUME IInv, TypeOK', Enter, NEW m \in Message, NEW s \in Status, Settle(m, s)
  PROVE  /\ Open = {} /\ Open' = {} /\ status'[m] = s /\ UNCHANGED effects
         /\ Lifecycle!Move(m, PhaseOf(m)')
<1>1. Open = {}
  BY EnterAlone
<1>2. Open' = Open /\ UNCHANGED effects
  BY DEF Settle, calls, Open
<1>3. status'[m] = s /\ \A k \in Message \ {m} : status'[k] = status[k]
  BY DEF Settle, IInv, TypeOK
<1>4. Lifecycle!Move(m, PhaseOf(m)')
  BY <1>1, <1>2, <1>3, Moves DEF IInv
<1> QED
  BY <1>1, <1>2, <1>3, <1>4

\* Opening a call is the life cycle's Call.
LEMMA RunMoves ==
  ASSUME IInv, TypeOK', Enter, NEW m \in Message, NEW gas \in Nat,
         PhaseOf(m) \in {"none", "pending", "failed"}, Run(m, gas)
  PROVE  Lifecycle!Call(m)
<1>1. Open = {} /\ running = {}
  BY EnterAlone
<1>2. Open' = {m}
  BY <1>1 DEF Run, Open
<1>3. \A k \in Message \ {m} : status'[k] = status[k]
  BY DEF Run, IInv, TypeOK
<1>4. PhaseOf(m)' = "open"
  BY <1>2 DEF PhaseOf
<1>5. Lifecycle!Move(m, "open")
  BY <1>1, <1>2, <1>3, <1>4, Moves DEF IInv
<1> QED
  BY <1>5 DEF Lifecycle!Call, Run, Phases

LEMMA DeliverRefines ==
  ASSUME IInv, NEW a \in Address, NEW m \in Message, Deliver(a, m)
  PROVE  Lifecycle!LifecycleNext
<1>1. TypeOK' /\ Enter /\ TypeOK
  BY DeliverType DEF IInv, Deliver
<1>2. PhaseOf(m) \in {"none", "pending"}
  <2>1. status[m] \in {"None", "Pending"} /\ m \notin Open
    BY <1>1, EnterAlone DEF Deliver, Duplicate, TypeOK, Status
  <2> QED
    BY <1>1, <2>1, PhaseRead
<1>3. CASE Settle(m, "Rejected")
  <2>1. Lifecycle!Move(m, PhaseOf(m)') /\ PhaseOf(m)' = "rejected" /\ UNCHANGED effects
    BY <1>1, <1>3, SettleMoves DEF PhaseOf, Status
  <2> QED
    BY <1>2, <2>1 DEF Lifecycle!LifecycleNext, Lifecycle!Refuse, Phases
<1>4. CASE Settle(m, "Pending")
  <2>1. Lifecycle!Move(m, PhaseOf(m)') /\ PhaseOf(m)' = "pending" /\ UNCHANGED effects
    BY <1>1, <1>4, SettleMoves DEF PhaseOf, Status
  <2> QED
    BY <1>2, <2>1 DEF Lifecycle!LifecycleNext, Lifecycle!Await, Phases
<1>5. CASE Settle(m, "Failed")
  <2>1. Lifecycle!Move(m, PhaseOf(m)') /\ PhaseOf(m)' = "failed" /\ UNCHANGED effects
    BY <1>1, <1>5, SettleMoves DEF PhaseOf, Status
  <2> QED
    BY <1>2, <2>1 DEF Lifecycle!LifecycleNext, Lifecycle!Park, Phases
<1>6. CASE Run(m, Env[m].gasLimit)
  <2>1. Env[m].gasLimit \in Nat
    BY GatewayAssumption DEF Envelope
  <2> QED
    BY <1>1, <1>2, <1>6, <2>1, RunMoves DEF Lifecycle!LifecycleNext
<1> QED
  BY <1>3, <1>4, <1>5, <1>6 DEF Deliver

LEMMA RetryRefines ==
  ASSUME IInv, NEW m \in Message, NEW g \in OverrideChoice, Retry(m, g)
  PROVE  Lifecycle!LifecycleNext
<1>1. TypeOK' /\ Enter /\ TypeOK
  BY RetryType DEF IInv, Retry
<1>2. PhaseOf(m) = "failed"
  BY <1>1, EnterAlone, PhaseRead DEF Retry
<1>3. CASE Settle(m, "Rejected")
  <2>1. Lifecycle!Move(m, PhaseOf(m)') /\ PhaseOf(m)' = "rejected" /\ UNCHANGED effects
    BY <1>1, <1>3, SettleMoves DEF PhaseOf, Status
  <2> QED
    BY <1>2, <2>1 DEF Lifecycle!LifecycleNext, Lifecycle!Refuse, Phases
<1>4. ASSUME NEW gas \in Nat, Run(m, gas) PROVE Lifecycle!LifecycleNext
  BY <1>1, <1>2, <1>4, RunMoves DEF Lifecycle!LifecycleNext
<1>5. Env[m].gasLimit \in Nat /\ g \in Nat
  BY GatewayAssumption DEF Envelope
<1> QED
  BY <1>3, <1>4, <1>5 DEF Retry

LEMMA ReturnRefines ==
  ASSUME IInv, NEW c \in running, NEW ok \in BOOLEAN, Return(c, ok)
  PROVE  Lifecycle!LifecycleNext
<1> DEFINE m == c.msg
<1>1. TypeOK /\ TypeOK'
  BY ReturnType DEF IInv
<1>2. running = {c} /\ m \in Message
  BY DEF IInv, OneCall, TypeOK
<1>3. Open = {m} /\ Open' = {}
  BY <1>2 DEF Return, Open
<1>4. PhaseOf(m) = "open" /\ status[m] = "Executed"
  BY <1>3 DEF PhaseOf, IInv, MarkedFirst
<1>5. \A k \in Message \ {m} : status'[k] = status[k]
  BY <1>1 DEF Return, TypeOK
<1>6. Lifecycle!Move(m, PhaseOf(m)')
  BY <1>1, <1>2, <1>3, <1>5, Moves
<1>7. CASE ok
  <2>1. PhaseOf(m)' = "executed"
    BY <1>3, <1>4, <1>7 DEF Return, PhaseOf
  <2>2. effects' = [effects EXCEPT ![m] = @ + 1]
    BY <1>7 DEF Return
  <2>3. Lifecycle!Succeed(m)
    BY <1>2, <1>4, <1>6, <2>1, <2>2 DEF Lifecycle!Succeed, Phases
  <2> QED
    BY <1>2, <2>3 DEF Lifecycle!LifecycleNext
<1>8. CASE ~ok
  <2>1. PhaseOf(m)' = "failed"
    <3>1. status'[m] = "Failed"
      BY <1>1, <1>2, <1>8 DEF Return, TypeOK
    <3> QED
      BY <1>3, <3>1 DEF PhaseOf
  <2>2. effects' = effects
    BY <1>8 DEF Return
  <2>3. Lifecycle!Fail(m)
    BY <1>2, <1>4, <1>6, <2>1, <2>2 DEF Lifecycle!Fail, Phases
  <2> QED
    BY <1>2, <2>3 DEF Lifecycle!LifecycleNext
<1> QED
  BY <1>7, <1>8

LEMMA InitRefines == Init => Lifecycle!LifecycleInit
<1> SUFFICES ASSUME Init PROVE Lifecycle!LifecycleInit
  OBVIOUS
<1>1. Open = {} /\ effects = [m \in Message |-> 0]
  BY DEF Init, Open
<1>2. \A m \in Message : PhaseOf(m) = "none"
  BY <1>1 DEF Init, PhaseOf
<1> QED
  BY <1>1, <1>2 DEF Lifecycle!LifecycleInit

LEMMA StepRefines ==
  IInv /\ [Next]_vars => [Lifecycle!LifecycleNext]_<<Phases, effects>>
<1> SUFFICES ASSUME IInv, [Next]_vars
             PROVE  Lifecycle!LifecycleNext \/ UNCHANGED <<Phases, effects>>
  OBVIOUS
<1>1. ASSUME NEW a \in Address, NEW m \in Message, Deliver(a, m)
      PROVE  Lifecycle!LifecycleNext
  BY <1>1, DeliverRefines
<1>2. ASSUME NEW m \in Message, NEW g \in OverrideChoice, Retry(m, g)
      PROVE  Lifecycle!LifecycleNext
  BY <1>2, RetryRefines
<1>3. ASSUME NEW c \in running, NEW ok \in BOOLEAN, Return(c, ok)
      PROVE  Lifecycle!LifecycleNext
  BY <1>3, ReturnRefines
<1>4. ASSUME NEW p \in Principal, SetPolicy(p) \/ SetAuth(p)
      PROVE  UNCHANGED <<Phases, effects>>
  BY <1>4, OwnerIdle, PhasesKept DEF ledger, calls
<1>5. CASE Tick \/ UNCHANGED vars
  BY <1>5, PhasesKept DEF Tick, vars, ledger, calls
<1> QED
  BY <1>1, <1>2, <1>3, <1>4, <1>5 DEF Next

\* For any instance, the gateway with its votes, policy and re-entry implements
\* the abstract life cycle of a message.
THEOREM Implements == Spec => ImplementsLifecycle
<1>1. Init => Lifecycle!LifecycleInit
  BY InitRefines
<1>2. IInv /\ [Next]_vars
        => [Lifecycle!LifecycleNext]_<<[m \in Message |-> PhaseOf(m)], effects>>
  BY StepRefines DEF Phases
<1> QED
  BY <1>1, <1>2, Invariance, PTL DEF Spec, ImplementsLifecycle, Lifecycle!LifecycleSpec
===============================================================================
