------------------------------- MODULE RemoteCall -------------------------------
(***************************************************************************)
(* What the whole system promises a Solana sender, told without programs,  *)
(* transports or contracts: a call is asked for under the next nonce of    *)
(* its sender, and may then take effect, once, as it was asked for.        *)
(***************************************************************************)
EXTENDS Integers

CONSTANT Request   \* records with a sender and a nonce

VARIABLES
  asked,   \* the requests made
  effects  \* how often each took effect

NonceOf(s) == {r.nonce : r \in {q \in asked : q.sender = s}}

RemoteInit == asked = {} /\ effects = [r \in Request |-> 0]

Ask(r) ==
  /\ r \in Request
  /\ r.nonce \notin NonceOf(r.sender)
  /\ \A n \in 1 .. r.nonce - 1 : n \in NonceOf(r.sender)
  /\ asked' = asked \cup {r}
  /\ UNCHANGED effects

TakeEffect(r) ==
  /\ r \in asked
  /\ effects[r] = 0
  /\ effects' = [effects EXCEPT ![r] = 1]
  /\ UNCHANGED asked

RemoteNext == \E r \in Request : Ask(r) \/ TakeEffect(r)

RemoteSpec == RemoteInit /\ [][RemoteNext]_<<asked, effects>>
===============================================================================
