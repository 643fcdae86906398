--------------------------- MODULE MessageLifecycle ---------------------------
(***************************************************************************)
(* What the gateway promises about a message, told without adapters,       *)
(* votes or policy: the life cycle of ISolanaGateway.Status, a call that   *)
(* is open by itself, and an effect that happens at most once.             *)
(***************************************************************************)
EXTENDS Integers

CONSTANT Message

VARIABLES
  phase,    \* where each message stands
  effects   \* how often its call took effect

Phase == {"none", "pending", "open", "executed", "failed", "rejected"}

LifecycleInit ==
  /\ phase = [m \in Message |-> "none"]
  /\ effects = [m \in Message |-> 0]

\* No step is taken about another message while a call is open.
Alone(m) == \A k \in Message \ {m} : phase[k] # "open"

Move(m, p) ==
  /\ Alone(m)
  /\ phase' = [phase EXCEPT ![m] = p]

Await(m)  == phase[m] \in {"none", "pending"} /\ Move(m, "pending") /\ UNCHANGED effects
Park(m)   == phase[m] \in {"none", "pending"} /\ Move(m, "failed") /\ UNCHANGED effects
Refuse(m) == phase[m] \in {"none", "pending", "failed"} /\ Move(m, "rejected") /\ UNCHANGED effects
Call(m)   == phase[m] \in {"none", "pending", "failed"} /\ Move(m, "open") /\ UNCHANGED effects
Fail(m)   == phase[m] = "open" /\ Move(m, "failed") /\ UNCHANGED effects

Succeed(m) ==
  /\ phase[m] = "open"
  /\ Move(m, "executed")
  /\ effects' = [effects EXCEPT ![m] = @ + 1]

LifecycleNext ==
  \E m \in Message :
    Await(m) \/ Park(m) \/ Refuse(m) \/ Call(m) \/ Fail(m) \/ Succeed(m)

LifecycleSpec == LifecycleInit /\ [][LifecycleNext]_<<phase, effects>>
===============================================================================
