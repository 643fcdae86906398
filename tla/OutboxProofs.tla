----------------------------- MODULE OutboxProofs -----------------------------
(***************************************************************************)
(* Theorems about Outbox, for any senders, transports, dispatchers and     *)
(* choices of the admin.                                                   *)
(***************************************************************************)
EXTENDS Outbox, SequenceTheorems, TLAPS

(***************************************************************************)
(* Type correctness                                                        *)
(***************************************************************************)
LEMMA TypeInit == Init => TypeOK
<1> SUFFICES ASSUME Init PROVE TypeOK
  OBVIOUS
<1>1. paused \in BOOLEAN
  BY Zenon DEF Init
<1>2. transport \in [TransportId -> TransportConfig]
  <2>1. [enabled |-> FALSE, dispatcher |-> DefaultKey] \in TransportConfig
    BY DEF TransportConfig
  <2> QED
    BY <2>1 DEF Init
<1>3. wire \in [TransportId -> Seq(Envelope)]
  BY DEF Init
<1>4. nonce \in [Authority -> 0 .. MaxNonce] /\ now \in 0 .. MaxTime
  BY OutboxAssumption DEF Init
<1>5. message \in [Authority -> [Nonce -> PreparedMessage \cup {NoMessage}]]
  BY DEF Init
<1> QED
  BY <1>1, <1>2, <1>3, <1>4, <1>5 DEF Init, TypeOK

LEMMA AdministerType ==
  ASSUME TypeOK, NEW p \in Principal, Administer(p)
  PROVE  TypeOK'
<1> USE OutboxAssumption DEF TypeOK, config
<1>1. CASE Initialize(p)
  BY <1>1 DEF Initialize
<1>2. ASSUME NEW c \in TransportChoice, SetTransport(p, c[1], c[2], c[3]) PROVE TypeOK'
  <2>1. /\ c[1] \in TransportId
        /\ [enabled |-> c[2], dispatcher |-> c[3]] \in TransportConfig
    BY DEF TransportConfig
  <2> QED
    BY <1>2, <2>1 DEF SetTransport
<1>3. ASSUME NEW b \in BOOLEAN, SetPaused(p, b) PROVE TypeOK'
  BY <1>3 DEF SetPaused
<1>4. ASSUME NEW heir \in HeirChoice, TransferAdmin(p, heir) PROVE TypeOK'
  BY <1>4 DEF TransferAdmin
<1>5. CASE AcceptAdmin(p)
  BY <1>5 DEF AcceptAdmin
<1> QED
  BY <1>1, <1>2, <1>3, <1>4, <1>5 DEF Administer

\* What prepare puts in the account and on record.
LEMMA PrepareShape ==
  ASSUME TypeOK, NEW a, NEW c, NEW expiry, NEW transports,
         Prepare(a, c, expiry, transports)
  PROVE  LET n == nonce[a] + 1
             e == Encode(a, n, c, expiry)
         IN /\ a \in Authority /\ n \in Nonce
            /\ e \in Envelope /\ transports \in SUBSET Bit /\ expiry \in Nat
            /\ e.sender = a /\ e.nonce = n /\ e.expiry = expiry
<1>1. a \in Authority /\ c \in Call /\ expiry \in Nat /\ transports \in SUBSET Bit
  <2>1. <<a, c, expiry, transports>> \in PrepareChoice
    BY DEF Prepare
  <2>2. <<a, c, expiry, transports>> \in Authority \X Call \X Nat \X SUBSET Bit
    BY <2>1, OutboxAssumption
  <2> QED
    BY <2>2
<1>2. nonce[a] + 1 \in Nonce
  BY <1>1, OutboxAssumption DEF TypeOK, Prepare, Nonce
<1> QED
  BY <1>1, <1>2 DEF Encode, Envelope

LEMMA PrepareType ==
  ASSUME TypeOK, NEW a, NEW c, NEW expiry, NEW transports,
         Prepare(a, c, expiry, transports)
  PROVE  TypeOK'
<1> DEFINE n == nonce[a] + 1
           e == Encode(a, n, c, expiry)
           m == [expiry |-> expiry, expected |-> transports, dispatched |-> {}, envelope |-> e]
<1>1. /\ a \in Authority /\ n \in Nonce /\ e \in Envelope
      /\ transports \in SUBSET Bit /\ expiry \in Nat
  BY PrepareShape
<1>2. /\ nonce' = [nonce EXCEPT ![a] = n]
      /\ message' = [message EXCEPT ![a][n] = m]
      /\ prepared' = prepared \cup {[envelope |-> e, expected |-> transports]}
      /\ UNCHANGED <<config, transport, now, wire, sends>>
  BY DEF Prepare
<1>3. m \in PreparedMessage
  BY <1>1 DEF PreparedMessage
<1> HIDE DEF e, m
<1>4. message' \in [Authority -> [Nonce -> PreparedMessage \cup {NoMessage}]]
  BY <1>1, <1>2, <1>3 DEF TypeOK
<1>5. prepared' \subseteq [envelope : Envelope, expected : SUBSET Bit]
  BY <1>1, <1>2 DEF TypeOK
<1>6. nonce' \in [Authority -> 0 .. MaxNonce]
  BY <1>1, <1>2, OutboxAssumption DEF TypeOK, Nonce
<1> QED
  BY <1>2, <1>4, <1>5, <1>6 DEF TypeOK, config

\* A transport carries the account's bytes and the account keeps its bit.
Dispatched(a, n, t) ==
  /\ Exists(a, n)
  /\ Markable(message[a][n], t)
  /\ Mark(a, n, t)
  /\ Carry(t, message[a][n].envelope)
  /\ UNCHANGED <<config, transport, nonce, now, prepared, sends>>

LEMMA DispatchCases ==
  ASSUME NEW a \in Authority, NEW n \in Nonce, Dispatch(a, n)
  PROVE  \/ \E t \in TransportId : Dispatched(a, n, t)
         \/ /\ sends' = 1
            /\ UNCHANGED <<config, transport, nonce, message, now, wire, prepared>>
<1>1. CASE DispatchViaWormhole(a, n)
  BY <1>1, OutboxAssumption DEF DispatchViaWormhole, Dispatched
<1>2. CASE DispatchViaLayerZero(a, n)
  BY <1>2 DEF DispatchViaLayerZero
<1>3. ASSUME NEW d \in Program, NEW t \in TransportId, MarkDispatched(d, t, a, n)
      PROVE  Dispatched(a, n, t)
  BY <1>3 DEF MarkDispatched, Dispatched
<1> QED
  BY <1>1, <1>2, <1>3 DEF Dispatch

\* An account that exists holds a prepared message.
LEMMA ExistsType ==
  ASSUME TypeOK, NEW a \in Authority, NEW n \in Nonce, Exists(a, n)
  PROVE  message[a][n] \in PreparedMessage
BY DEF TypeOK, Exists

\* The account after its bit is set, and the others.
LEMMA MarkShape ==
  ASSUME TypeOK, NEW a \in Authority, NEW n \in Nonce, NEW t, Exists(a, n), Mark(a, n, t)
  PROVE  /\ message'[a][n] = [message[a][n] EXCEPT !.dispatched = @ \cup {t}]
         /\ \A b \in Authority, k \in Nonce :
              <<b, k>> # <<a, n>> => message'[b][k] = message[b][k]
BY DEF TypeOK, Mark

LEMMA DispatchedType ==
  ASSUME TypeOK, NEW a \in Authority, NEW n \in Nonce, NEW t \in TransportId,
         Dispatched(a, n, t)
  PROVE  TypeOK'
<1>1. message[a][n] \in PreparedMessage /\ t \in Bit
  BY ExistsType DEF Dispatched, Markable, PreparedMessage
<1>2. [message[a][n] EXCEPT !.dispatched = @ \cup {t}] \in PreparedMessage
  BY <1>1 DEF PreparedMessage
<1>3. message' \in [Authority -> [Nonce -> PreparedMessage \cup {NoMessage}]]
  BY <1>2 DEF TypeOK, Dispatched, Mark
<1>4. wire' \in [TransportId -> Seq(Envelope)]
  <2>1. message[a][n].envelope \in Envelope
    BY <1>1 DEF PreparedMessage
  <2> QED
    BY <2>1 DEF TypeOK, Dispatched, Carry
<1> QED
  BY <1>3, <1>4 DEF TypeOK, Dispatched, config

LEMMA TypeStep == TypeOK /\ [Next]_vars => TypeOK'
<1> SUFFICES ASSUME TypeOK, [Next]_vars PROVE TypeOK'
  OBVIOUS
<1>1. ASSUME NEW p \in Principal, Administer(p) PROVE TypeOK'
  BY <1>1, AdministerType
<1>2. ASSUME NEW c \in PrepareChoice, Prepare(c[1], c[2], c[3], c[4]) PROVE TypeOK'
  BY <1>2, PrepareType
<1>3. ASSUME NEW a \in Authority, NEW n \in Nonce, Dispatch(a, n) PROVE TypeOK'
  <2>1. CASE sends' = 1 /\ UNCHANGED <<config, transport, nonce, message, now, wire, prepared>>
    BY <2>1 DEF TypeOK, config
  <2> QED
    BY <1>3, <2>1, DispatchCases, DispatchedType
<1>4. ASSUME NEW a \in Authority, NEW n \in Nonce, Finalize(a, n) PROVE TypeOK'
  BY <1>4 DEF Finalize, TypeOK, config
<1>5. CASE Tick
  BY <1>5, OutboxAssumption DEF Tick, TypeOK, config
<1>6. CASE UNCHANGED vars
  BY <1>6 DEF vars, TypeOK, config
<1> QED
  BY <1>1, <1>2, <1>3, <1>4, <1>5, <1>6 DEF Next

\* Every variable stays in its type, whatever is asked of the program.
THEOREM TypeCorrect == Spec => []TypeOK
BY TypeInit, TypeStep, PTL DEF Spec


(***************************************************************************)
(* What the accounts, the record and the wire have to do with each other   *)
(*                                                                         *)
(* An account holds an envelope that prepare built under the account's own *)
(* key, and prepare never uses a key twice because the nonce only grows.   *)
(* So an envelope on a wire is the account's, its bit tells, and the bit   *)
(* keeps it from being carried again.                                      *)
(***************************************************************************)
Entry(m) == [envelope |-> m.envelope, expected |-> m.expected]

AccountsTrue ==
  \A a \in Authority, n \in Nonce :
    Exists(a, n) => LET m == message[a][n] IN
      /\ m.envelope.sender = a /\ m.envelope.nonce = n
      /\ m.envelope.expiry = m.expiry
      /\ Entry(m) \in prepared

PreparedCounted == \A p \in prepared : p.envelope.nonce <= nonce[p.envelope.sender]

KeysOnce == \A p, q \in prepared : SameKey(p.envelope, q.envelope) => p = q

WirePrepared ==
  \A t \in TransportId : \A e \in Carried(t) : \E p \in prepared :
    p.envelope = e /\ t \in p.expected

OInv ==
  /\ TypeOK
  /\ AccountsTrue
  /\ PreparedCounted
  /\ KeysOnce
  /\ WirePrepared
  /\ BitsTellTheWire
  /\ CarriedOnce
  /\ NoncesGapless
  /\ AbandonedIsDead

LEMMA OInvInit == Init => OInv
<1> SUFFICES ASSUME Init PROVE OInv
  OBVIOUS
<1>1. prepared = {} /\ \A t \in TransportId : wire[t] = <<>>
  BY DEF Init
<1>2. \A a \in Authority, n \in Nonce : ~Exists(a, n)
  BY DEF Init, Exists
<1>3. \A t \in TransportId : Len(wire[t]) = 0
  BY <1>1
<1>4. \A t \in TransportId : Carried(t) = {}
  BY <1>3 DEF Carried
<1>5. AccountsTrue /\ BitsTellTheWire
  BY <1>2 DEF AccountsTrue, BitsTellTheWire
<1>6. PreparedCounted /\ KeysOnce /\ AbandonedIsDead
  BY <1>1 DEF PreparedCounted, KeysOnce, AbandonedIsDead
<1>7. WirePrepared
  BY <1>4 DEF WirePrepared
<1>8. CarriedOnce
  BY <1>3 DEF CarriedOnce
<1>9. NoncesGapless
  <2> SUFFICES ASSUME NEW a \in Authority
               PROVE  {p.envelope.nonce : p \in {q \in prepared : q.envelope.sender = a}}
                        = 1 .. nonce[a]
    BY DEF NoncesGapless
  <2>1. nonce[a] = 0
    BY DEF Init
  <2> QED
    BY <1>1, <2>1
<1> QED
  BY <1>5, <1>6, <1>7, <1>8, <1>9, TypeInit DEF OInv

\* Steps that touch neither accounts, nonces, wires nor the record.
LEMMA Untouched ==
  ASSUME OInv, TypeOK', UNCHANGED <<nonce, message, wire, prepared>>,
         now' \in Int, now <= now'
  PROVE  OInv'
<1>1. /\ \A t \in TransportId : Carried(t)' = Carried(t)
      /\ \A e : CarriedBy(e)' = CarriedBy(e)
  BY DEF Carried, CarriedBy
<1>2. \A a \in Authority, n \in Nonce : Exists(a, n)' <=> Exists(a, n)
  BY DEF Exists
<1>3. AccountsTrue' /\ PreparedCounted' /\ KeysOnce' /\ NoncesGapless'
  BY <1>2 DEF OInv, AccountsTrue, PreparedCounted, KeysOnce, NoncesGapless
<1>4. WirePrepared' /\ CarriedOnce'
  BY <1>1 DEF OInv, WirePrepared, CarriedOnce
<1>5. BitsTellTheWire'
  BY <1>1, <1>2 DEF OInv, BitsTellTheWire
<1>6. AbandonedIsDead'
  <2> SUFFICES ASSUME NEW p \in prepared, ~Exists(p.envelope.sender, p.envelope.nonce)',
                      ~(p.expected \subseteq CarriedBy(p.envelope)')
               PROVE  p.envelope.expiry # 0 /\ now' > p.envelope.expiry
    BY DEF AbandonedIsDead
  <2>1. /\ p.envelope.sender \in Authority /\ p.envelope.nonce \in Nonce
        /\ p.envelope.expiry \in Nat
    BY DEF OInv, TypeOK, Envelope
  <2>2. p.envelope.expiry # 0 /\ now > p.envelope.expiry
    BY <1>1, <1>2, <2>1 DEF OInv, AbandonedIsDead
  <2> QED
    BY <2>1, <2>2 DEF OInv, TypeOK
<1> QED
  BY <1>3, <1>4, <1>5, <1>6 DEF OInv

\* Two envelopes under one key that are both on record are the same.
LEMMA SameEntry ==
  ASSUME OInv, NEW p \in prepared, NEW q \in prepared, SameKey(p.envelope, q.envelope)
  PROVE  p = q
BY DEF OInv, KeysOnce

(***************************************************************************)
(* prepare: a key never used before                                        *)
(***************************************************************************)
LEMMA PrepareOInv ==
  ASSUME OInv, NEW a, NEW c, NEW expiry, NEW transports,
         Prepare(a, c, expiry, transports)
  PROVE  OInv'
<1> DEFINE n == nonce[a] + 1
           e == Encode(a, n, c, expiry)
           m == [expiry |-> expiry, expected |-> transports, dispatched |-> {}, envelope |-> e]
           p0 == [envelope |-> e, expected |-> transports]
<1>1. TypeOK /\ TypeOK'
  BY PrepareType DEF OInv
<1>2. /\ a \in Authority /\ n \in Nonce /\ e \in Envelope
      /\ transports \in SUBSET Bit /\ expiry \in Nat
      /\ e.sender = a /\ e.nonce = n /\ e.expiry = expiry
  BY <1>1, PrepareShape
<1>3. /\ nonce' = [nonce EXCEPT ![a] = n]
      /\ message' = [message EXCEPT ![a][n] = m]
      /\ prepared' = prepared \cup {p0}
      /\ ~Exists(a, n)
      /\ UNCHANGED <<wire, now>>
  BY DEF Prepare, Exists
<1>4. /\ Entry(m) = p0 /\ m.envelope = e /\ m.expiry = expiry /\ m.dispatched = {}
      /\ p0.envelope = e /\ p0.expected = transports
  BY DEF Entry
<1>5. m \in PreparedMessage /\ m # NoMessage
  BY <1>2, OutboxAssumption DEF PreparedMessage
<1> HIDE DEF n, e, m, p0
<1>6. /\ message'[a][n] = m /\ message'[a][n] # NoMessage
      /\ \A b \in Authority, k \in Nonce :
           <<b, k>> # <<a, n>> => message'[b][k] = message[b][k] /\ (Exists(b, k)' <=> Exists(b, k))
  BY <1>1, <1>2, <1>3, <1>5 DEF TypeOK, Exists
<1>7. n = nonce[a] + 1 /\ nonce[a] \in Nat /\ nonce'[a] = n
      /\ \A b \in Authority : b # a => nonce'[b] = nonce[b]
  BY <1>1, <1>2, <1>3 DEF TypeOK, n
<1>8. \A p \in prepared : p.envelope.sender \in Authority /\ p.envelope.nonce \in Nonce
                          /\ p.envelope.nonce <= nonce[p.envelope.sender]
  BY <1>1 DEF OInv, PreparedCounted, TypeOK, Envelope
<1>9. \A p \in prepared : ~SameKey(p.envelope, e)
  BY <1>2, <1>7, <1>8 DEF SameKey, Nonce
<1>10. \A t \in TransportId : Carried(t)' = Carried(t)
  BY <1>3 DEF Carried
<1>11. \A x : CarriedBy(x)' = CarriedBy(x)
  BY <1>10 DEF CarriedBy
<1>12. CarriedBy(e) = {}
  BY <1>9 DEF OInv, WirePrepared, CarriedBy, SameKey
<1>13. AccountsTrue'
  <2> SUFFICES ASSUME NEW b \in Authority, NEW k \in Nonce, Exists(b, k)'
               PROVE  /\ message'[b][k].envelope.sender = b
                      /\ message'[b][k].envelope.nonce = k
                      /\ message'[b][k].envelope.expiry = message'[b][k].expiry
                      /\ Entry(message'[b][k]) \in prepared'
    BY DEF AccountsTrue, Entry
  <2>1. CASE <<b, k>> = <<a, n>>
    BY <1>2, <1>3, <1>4, <1>6, <2>1
  <2>2. CASE <<b, k>> # <<a, n>>
    BY <1>3, <1>6, <2>2 DEF OInv, AccountsTrue
  <2> QED
    BY <2>1, <2>2
<1>14. PreparedCounted'
  <2> SUFFICES ASSUME NEW p \in prepared' PROVE p.envelope.nonce <= nonce'[p.envelope.sender]
    BY DEF PreparedCounted
  <2>1. CASE p = p0
    BY <1>2, <1>4, <1>7, <2>1 DEF Nonce
  <2>2. CASE p \in prepared
    BY <1>7, <1>8, <2>2 DEF Nonce
  <2> QED
    BY <1>3, <2>1, <2>2
<1>15. KeysOnce'
  BY <1>3, <1>4, <1>9 DEF OInv, KeysOnce, SameKey
<1>16. WirePrepared'
  BY <1>3, <1>10 DEF OInv, WirePrepared
<1>17. BitsTellTheWire'
  <2> SUFFICES ASSUME NEW b \in Authority, NEW k \in Nonce, Exists(b, k)'
               PROVE  message'[b][k].dispatched = CarriedBy(message'[b][k].envelope)
    BY <1>11 DEF BitsTellTheWire
  <2>1. CASE <<b, k>> = <<a, n>>
    BY <1>4, <1>6, <1>12, <2>1
  <2>2. CASE <<b, k>> # <<a, n>>
    BY <1>6, <2>2 DEF OInv, BitsTellTheWire
  <2> QED
    BY <2>1, <2>2
<1>18. CarriedOnce'
  BY <1>3 DEF OInv, CarriedOnce
<1>19. NoncesGapless'
  <2> SUFFICES ASSUME NEW b \in Authority
               PROVE  {p.envelope.nonce : p \in {q \in prepared' : q.envelope.sender = b}}
                        = 1 .. nonce'[b]
    BY DEF NoncesGapless
  <2> DEFINE used == {p.envelope.nonce : p \in {q \in prepared : q.envelope.sender = b}}
             usedNow == {p.envelope.nonce : p \in {q \in prepared' : q.envelope.sender = b}}
  <2>1. used = 1 .. nonce[b]
    BY DEF OInv, NoncesGapless
  <2>2. CASE b = a
    <3>1. usedNow = used \cup {n}
      BY <1>2, <1>3, <1>4, <2>2
    <3>2. 1 .. nonce'[b] = 1 .. nonce[b] \cup {n}
      BY <1>7, <2>2
    <3> QED
      BY <2>1, <3>1, <3>2
  <2>3. CASE b # a
    <3>1. usedNow = used
      BY <1>2, <1>3, <1>4, <2>3
    <3> QED
      BY <1>7, <2>1, <2>3, <3>1
  <2> QED
    BY <2>2, <2>3
<1>20. AbandonedIsDead'
  <2> SUFFICES ASSUME NEW p \in prepared', ~Exists(p.envelope.sender, p.envelope.nonce)'
               PROVE  \/ p.expected \subseteq CarriedBy(p.envelope)
                      \/ p.envelope.expiry # 0 /\ now > p.envelope.expiry
    BY <1>3, <1>11 DEF AbandonedIsDead
  <2>1. p # p0
    BY <1>2, <1>4, <1>6 DEF Exists
  <2>2. p \in prepared
    BY <1>3, <2>1
  <2>3. ~Exists(p.envelope.sender, p.envelope.nonce)
    BY <1>2, <1>6, <1>8, <1>9, <2>2 DEF SameKey
  <2> QED
    BY <2>2, <2>3 DEF OInv, AbandonedIsDead
<1> QED
  BY <1>1, <1>13, <1>14, <1>15, <1>16, <1>17, <1>18, <1>19, <1>20 DEF OInv


(***************************************************************************)
(* dispatch: one more envelope on one wire                                 *)
(***************************************************************************)
LEMMA CarryShape ==
  ASSUME TypeOK, NEW t \in TransportId, NEW e \in Envelope, Carry(t, e)
  PROVE  /\ Len(wire'[t]) = Len(wire[t]) + 1 /\ Len(wire[t]) \in Nat
         /\ wire'[t][Len(wire[t]) + 1] = e
         /\ \A i \in 1 .. Len(wire[t]) : wire'[t][i] = wire[t][i]
         /\ \A u \in TransportId : u # t => wire'[u] = wire[u]
         /\ Carried(t)' = Carried(t) \cup {e}
         /\ \A u \in TransportId : u # t => Carried(u)' = Carried(u)
<1>1. wire' = [wire EXCEPT ![t] = Append(wire[t], e)] /\ wire[t] \in Seq(Envelope)
  BY DEF Carry, TypeOK
<1>2. wire'[t] = Append(wire[t], e) /\ \A u \in TransportId : u # t => wire'[u] = wire[u]
  BY <1>1 DEF TypeOK
<1>3. /\ Len(wire'[t]) = Len(wire[t]) + 1 /\ Len(wire[t]) \in Nat
      /\ wire'[t][Len(wire[t]) + 1] = e
      /\ \A i \in 1 .. Len(wire[t]) : wire'[t][i] = wire[t][i]
  BY <1>1, <1>2
<1>4. Carried(t)' = Carried(t) \cup {e}
  BY <1>3 DEF Carried
<1>5. \A u \in TransportId : u # t => Carried(u)' = Carried(u)
  BY <1>2 DEF Carried
<1> QED
  BY <1>2, <1>3, <1>4, <1>5

LEMMA DispatchedOInv ==
  ASSUME OInv, NEW a \in Authority, NEW n \in Nonce, NEW t \in TransportId,
         Dispatched(a, n, t)
  PROVE  OInv'
<1>0. PICK e : e = message[a][n].envelope
  OBVIOUS
<1>1. TypeOK /\ TypeOK' /\ Exists(a, n) /\ Markable(message[a][n], t)
  BY DispatchedType DEF OInv, Dispatched
<1>2. /\ Carry(t, e) /\ Mark(a, n, t)
      /\ nonce' = nonce /\ prepared' = prepared /\ now' = now
  BY <1>0 DEF Dispatched
<1>3. message[a][n] \in PreparedMessage /\ e \in Envelope
  BY <1>0, <1>1, ExistsType DEF PreparedMessage
<1>4. /\ e.sender = a /\ e.nonce = n
      /\ Entry(message[a][n]) \in prepared
      /\ Entry(message[a][n]).envelope = e
      /\ Entry(message[a][n]).expected = message[a][n].expected
      /\ message[a][n].dispatched = CarriedBy(e)
  BY <1>0, <1>1 DEF OInv, AccountsTrue, BitsTellTheWire, Entry
<1>5. /\ message'[a][n].envelope = e
      /\ message'[a][n].expiry = message[a][n].expiry
      /\ message'[a][n].expected = message[a][n].expected
      /\ message'[a][n].dispatched = message[a][n].dispatched \cup {t}
      /\ message'[a][n] # NoMessage
  <2>1. message'[a][n] = [message[a][n] EXCEPT !.dispatched = @ \cup {t}]
    BY <1>1, <1>2, MarkShape
  <2>2. message'[a][n] \in PreparedMessage
    BY <1>1, <1>3, <2>1 DEF PreparedMessage, Markable
  <2> QED
    BY <1>0, <1>3, <2>1, <2>2, OutboxAssumption DEF PreparedMessage
<1>6. \A b \in Authority, k \in Nonce :
        <<b, k>> # <<a, n>> => message'[b][k] = message[b][k]
  BY <1>1, <1>2, MarkShape
<1>7. \A b \in Authority, k \in Nonce : Exists(b, k)' <=> Exists(b, k)
  BY <1>1, <1>5, <1>6 DEF Exists
<1>8. Carried(t)' = Carried(t) \cup {e} /\ \A u \in TransportId : u # t => Carried(u)' = Carried(u)
  BY <1>1, <1>2, <1>3, CarryShape
<1>9. /\ CarriedBy(e)' = CarriedBy(e) \cup {t}
      /\ \A x : x # e => CarriedBy(x)' = CarriedBy(x)
      /\ \A x : CarriedBy(x) \subseteq CarriedBy(x)'
  <2>1. CarriedBy(e)' = CarriedBy(e) \cup {t}
    BY <1>8 DEF CarriedBy
  <2>2. ASSUME NEW x, x # e PROVE CarriedBy(x)' = CarriedBy(x)
    BY <1>8, <2>2 DEF CarriedBy
  <2> QED
    BY <2>1, <2>2
<1>10. AccountsTrue'
  <2> SUFFICES ASSUME NEW b \in Authority, NEW k \in Nonce, Exists(b, k)
               PROVE  /\ message'[b][k].envelope.sender = b
                      /\ message'[b][k].envelope.nonce = k
                      /\ message'[b][k].envelope.expiry = message'[b][k].expiry
                      /\ Entry(message'[b][k]) \in prepared
    BY <1>2, <1>7 DEF AccountsTrue, Entry
  <2>1. CASE <<b, k>> = <<a, n>>
    BY <1>0, <1>1, <1>4, <1>5, <2>1 DEF OInv, AccountsTrue, Entry
  <2>2. CASE <<b, k>> # <<a, n>>
    BY <1>6, <2>2 DEF OInv, AccountsTrue
  <2> QED
    BY <2>1, <2>2
<1>11. PreparedCounted' /\ KeysOnce' /\ NoncesGapless'
  BY <1>2 DEF OInv, PreparedCounted, KeysOnce, NoncesGapless
<1>12. WirePrepared'
  <2> SUFFICES ASSUME NEW u \in TransportId, NEW x \in Carried(u)'
               PROVE  \E p \in prepared : p.envelope = x /\ u \in p.expected
    BY <1>2 DEF WirePrepared
  <2>1. CASE x \in Carried(u)
    BY <2>1 DEF OInv, WirePrepared
  <2>2. CASE u = t /\ x = e
    BY <1>1, <1>4, <2>2 DEF Markable
  <2> QED
    BY <1>8, <2>1, <2>2
<1>13. BitsTellTheWire'
  <2>1. ASSUME NEW b \in Authority, NEW k \in Nonce, Exists(b, k),
               NEW x, x = message'[b][k].envelope
        PROVE  message'[b][k].dispatched = CarriedBy(x)'
    <3>1. CASE <<b, k>> = <<a, n>>
      BY <1>4, <1>5, <1>9, <2>1, <3>1
    <3>2. CASE <<b, k>> # <<a, n>>
      <4>1. x = message[b][k].envelope /\ message'[b][k] = message[b][k]
        BY <1>6, <2>1, <3>2
      <4>2. x.sender = b /\ x.nonce = k /\ message[b][k].dispatched = CarriedBy(x)
        BY <2>1, <4>1 DEF OInv, AccountsTrue, BitsTellTheWire
      <4>3. x # e
        BY <1>4, <3>2, <4>2
      <4> QED
        BY <1>9, <4>1, <4>2, <4>3
    <3> QED
      BY <3>1, <3>2
  <2> QED
    BY <1>7, <2>1 DEF BitsTellTheWire, CarriedBy, Carried
<1>14. CarriedOnce'
  <2> SUFFICES ASSUME NEW u \in TransportId, NEW i \in 1 .. Len(wire'[u]), NEW j \in 1 .. Len(wire'[u]),
                      SameKey(wire'[u][i], wire'[u][j])
               PROVE  i = j
    BY DEF CarriedOnce, SameKey
  <2>1. CASE u # t
    BY <1>1, <1>2, <1>3, <2>1, CarryShape DEF OInv, CarriedOnce
  <2>2. CASE u = t
    <3>1. ASSUME NEW k \in 1 .. Len(wire[t]), SameKey(wire[t][k], e) PROVE FALSE
      <4>1. wire[t][k] \in Carried(t)
        BY DEF Carried
      <4>2. PICK p \in prepared : p.envelope = wire[t][k] /\ t \in p.expected
        BY <4>1 DEF OInv, WirePrepared
      <4>3. p = Entry(message[a][n])
        BY <1>4, <3>1, <4>2, SameEntry
      <4>4. t \in CarriedBy(e)
        BY <1>4, <4>1, <4>2, <4>3 DEF CarriedBy
      <4> QED
        BY <1>1, <1>4, <4>4 DEF Markable
    <3>2. /\ Len(wire'[t]) = Len(wire[t]) + 1 /\ Len(wire[t]) \in Nat
          /\ wire'[t][Len(wire[t]) + 1] = e
          /\ \A k \in 1 .. Len(wire[t]) : wire'[t][k] = wire[t][k]
      BY <1>1, <1>2, <1>3, CarryShape
    <3>3. CASE i \in 1 .. Len(wire[t]) /\ j \in 1 .. Len(wire[t])
      BY <2>2, <3>2, <3>3 DEF OInv, CarriedOnce
    <3>4. CASE i \in 1 .. Len(wire[t]) /\ j = Len(wire[t]) + 1
      BY <2>2, <3>1, <3>2, <3>4
    <3>5. CASE i = Len(wire[t]) + 1 /\ j \in 1 .. Len(wire[t])
      <4>1. SameKey(wire[t][j], e)
        BY <2>2, <3>2, <3>5 DEF SameKey
      <4> QED
        BY <3>1, <3>5, <4>1
    <3>6. CASE i = Len(wire[t]) + 1 /\ j = Len(wire[t]) + 1
      BY <3>6
    <3> QED
      BY <2>2, <3>2, <3>3, <3>4, <3>5, <3>6
  <2> QED
    BY <2>1, <2>2
<1>15. AbandonedIsDead'
  <2> SUFFICES ASSUME NEW p \in prepared, ~Exists(p.envelope.sender, p.envelope.nonce)',
                      ~(p.envelope.expiry # 0 /\ now > p.envelope.expiry)
               PROVE  p.expected \subseteq CarriedBy(p.envelope)'
    BY <1>2 DEF AbandonedIsDead
  <2>1. p.envelope.sender \in Authority /\ p.envelope.nonce \in Nonce
    BY <1>1 DEF TypeOK, Envelope
  <2>2. p.expected \subseteq CarriedBy(p.envelope)
    BY <1>7, <2>1 DEF OInv, AbandonedIsDead
  <2> QED
    BY <1>9, <2>2
<1> QED
  BY <1>1, <1>10, <1>11, <1>12, <1>13, <1>14, <1>15 DEF OInv

(***************************************************************************)
(* finalize: the account is gone, and with it the last chance              *)
(***************************************************************************)
LEMMA FinalizeOInv ==
  ASSUME OInv, TypeOK', NEW a \in Authority, NEW n \in Nonce, Finalize(a, n)
  PROVE  OInv'
<1>1. /\ Exists(a, n) /\ Finalizable(message[a][n])
      /\ message' = [message EXCEPT ![a][n] = NoMessage]
      /\ UNCHANGED <<nonce, wire, prepared, now>>
  BY DEF Finalize
<1>2. /\ ~Exists(a, n)'
      /\ \A b \in Authority, k \in Nonce :
           <<b, k>> # <<a, n>> => message'[b][k] = message[b][k]
  BY <1>1 DEF OInv, TypeOK, Exists
<1>3. \A b \in Authority, k \in Nonce :
        Exists(b, k)' => Exists(b, k) /\ message'[b][k] = message[b][k]
  BY <1>2 DEF Exists
<1>4. /\ \A t \in TransportId : Carried(t)' = Carried(t)
      /\ \A x : CarriedBy(x)' = CarriedBy(x)
  BY <1>1 DEF Carried, CarriedBy
<1>5. AccountsTrue'
  BY <1>1, <1>3 DEF OInv, AccountsTrue, Entry
<1>6. PreparedCounted' /\ KeysOnce' /\ NoncesGapless' /\ CarriedOnce'
  BY <1>1 DEF OInv, PreparedCounted, KeysOnce, NoncesGapless, CarriedOnce
<1>7. WirePrepared'
  BY <1>1, <1>4 DEF OInv, WirePrepared
<1>8. BitsTellTheWire'
  BY <1>3, <1>4 DEF OInv, BitsTellTheWire
<1>9. AbandonedIsDead'
  <2> SUFFICES ASSUME NEW p \in prepared, ~Exists(p.envelope.sender, p.envelope.nonce)'
               PROVE  \/ p.expected \subseteq CarriedBy(p.envelope)
                      \/ p.envelope.expiry # 0 /\ now > p.envelope.expiry
    BY <1>1, <1>4 DEF AbandonedIsDead
  <2>1. p.envelope.sender \in Authority /\ p.envelope.nonce \in Nonce
    BY DEF OInv, TypeOK, Envelope
  <2>2. CASE p.envelope.sender = a /\ p.envelope.nonce = n
    <3>1. /\ Entry(message[a][n]) \in prepared
          /\ Entry(message[a][n]).envelope = message[a][n].envelope
          /\ Entry(message[a][n]).expected = message[a][n].expected
          /\ SameKey(p.envelope, message[a][n].envelope)
          /\ message[a][n].expiry = message[a][n].envelope.expiry
          /\ message[a][n].dispatched = CarriedBy(message[a][n].envelope)
      BY <1>1, <2>2 DEF OInv, AccountsTrue, BitsTellTheWire, Entry, SameKey
    <3>2. p.envelope = message[a][n].envelope /\ p.expected = message[a][n].expected
      BY <3>1, SameEntry
    <3> QED
      BY <1>1, <3>1, <3>2 DEF Finalizable, Expired
  <2>3. CASE ~(p.envelope.sender = a /\ p.envelope.nonce = n)
    BY <1>2, <2>1, <2>3 DEF OInv, AbandonedIsDead, Exists
  <2> QED
    BY <2>2, <2>3
<1> QED
  BY <1>5, <1>6, <1>7, <1>8, <1>9 DEF OInv

LEMMA OInvStep == OInv /\ [Next]_vars => OInv'
<1> SUFFICES ASSUME OInv, [Next]_vars PROVE OInv'
  OBVIOUS
<1>1. TypeOK' /\ now \in Int
  BY TypeStep DEF OInv, TypeOK
<1>2. ASSUME NEW p \in Principal, Administer(p) PROVE OInv'
  <2>1. UNCHANGED <<nonce, message, wire, prepared, now>>
    BY <1>2 DEF Administer, Initialize, SetTransport, SetPaused, TransferAdmin, AcceptAdmin
  <2> QED
    BY <1>1, <2>1, Untouched
<1>3. ASSUME NEW c \in PrepareChoice, Prepare(c[1], c[2], c[3], c[4]) PROVE OInv'
  BY <1>3, PrepareOInv
<1>4. ASSUME NEW a \in Authority, NEW n \in Nonce, Dispatch(a, n) PROVE OInv'
  <2>1. CASE UNCHANGED <<nonce, message, now, wire, prepared>>
    BY <1>1, <2>1, Untouched
  <2> QED
    BY <1>4, <2>1, DispatchCases, DispatchedOInv
<1>5. ASSUME NEW a \in Authority, NEW n \in Nonce, Finalize(a, n) PROVE OInv'
  BY <1>1, <1>5, FinalizeOInv
<1>6. CASE Tick
  BY <1>1, <1>6, Untouched DEF Tick
<1>7. CASE UNCHANGED vars
  BY <1>1, <1>7, Untouched DEF vars
<1> QED
  BY <1>2, <1>3, <1>4, <1>5, <1>6, <1>7 DEF Next

THEOREM Invariance == Spec => []OInv
BY OInvInit, OInvStep, PTL DEF Spec

\* No transport carries a sender's nonce twice, in whatever order the program
\* and any number of dispatchers act, and whoever finalizes in between.
THEOREM NoDoubleSend == Spec => []CarriedOnce
<1>1. OInv => CarriedOnce
  BY DEF OInv
<1> QED
  BY <1>1, Invariance, PTL

\* All transports carry the one envelope prepare built for a sender's nonce.
THEOREM OneEnvelope == Spec => []OneEnvelopePerNonce
<1>1. OInv => OneEnvelopePerNonce
  BY DEF OInv, OneEnvelopePerNonce, KeysOnce, WirePrepared
<1> QED
  BY <1>1, Invariance, PTL

\* A sender's envelopes are numbered 1, 2, ... with no gap.
THEOREM Gapless == Spec => []NoncesGapless
<1>1. OInv => NoncesGapless
  BY DEF OInv
<1> QED
  BY <1>1, Invariance, PTL

\* The dispatched bits of an account are the transports that carried it.
THEOREM BitsTrue == Spec => []BitsTellTheWire
<1>1. OInv => BitsTellTheWire
  BY DEF OInv
<1> QED
  BY <1>1, Invariance, PTL

\* An account is closed only when nothing is left to send or to execute.
THEOREM FinalizeSafe == Spec => []AbandonedIsDead
<1>1. OInv => AbandonedIsDead
  BY DEF OInv
<1> QED
  BY <1>1, Invariance, PTL

(***************************************************************************)
(* What a step adds to the histories.                                      *)
(***************************************************************************)
LEMMA Grows ==
  ASSUME TypeOK, [Next]_vars
  PROVE  /\ \A t \in TransportId : Carried(t) \subseteq Carried(t)'
         /\ prepared \subseteq prepared'
<1>1. ASSUME wire' = wire PROVE \A t \in TransportId : Carried(t)' = Carried(t)
  BY <1>1 DEF Carried
<1>2. ASSUME NEW p \in Principal, Administer(p)
      PROVE  UNCHANGED <<wire, prepared>>
  BY <1>2 DEF Administer, Initialize, SetTransport, SetPaused, TransferAdmin, AcceptAdmin
<1>3. ASSUME NEW c \in PrepareChoice, Prepare(c[1], c[2], c[3], c[4])
      PROVE  wire' = wire /\ prepared \subseteq prepared'
  BY <1>3 DEF Prepare
<1>4. ASSUME NEW a \in Authority, NEW n \in Nonce, Dispatch(a, n)
      PROVE  prepared' = prepared /\ \A t \in TransportId : Carried(t) \subseteq Carried(t)'
  <2>1. ASSUME NEW t \in TransportId, Dispatched(a, n, t)
        PROVE  prepared' = prepared /\ \A u \in TransportId : Carried(u) \subseteq Carried(u)'
    <3>1. message[a][n].envelope \in Envelope
      BY <2>1, ExistsType DEF Dispatched, PreparedMessage
    <3> QED
      BY <2>1, <3>1, CarryShape DEF Dispatched
  <2> QED
    BY <1>1, <1>4, <2>1, DispatchCases
<1>5. ASSUME NEW a \in Authority, NEW n \in Nonce, Finalize(a, n)
      PROVE  UNCHANGED <<wire, prepared>>
  BY <1>5 DEF Finalize
<1>6. CASE Tick \/ UNCHANGED vars
  BY <1>1, <1>6 DEF Tick, vars
<1> QED
  BY <1>1, <1>2, <1>3, <1>4, <1>5, <1>6 DEF Next

\* The record grows by one request at a time, under its sender's next nonce.
LEMMA RecordStep ==
  ASSUME TypeOK, [Next]_vars, prepared' # prepared
  PROVE  \E c \in PrepareChoice : LET n == nonce[c[1]] + 1
                                      e == Encode(c[1], n, c[2], c[3])
           IN /\ c[1] \in Authority /\ n \in Nonce
              /\ e.sender = c[1] /\ e.nonce = n
              /\ prepared' = prepared \cup {[envelope |-> e, expected |-> c[4]]}
<1>1. ASSUME NEW p \in Principal, Administer(p) PROVE prepared' = prepared
  BY <1>1 DEF Administer, Initialize, SetTransport, SetPaused, TransferAdmin, AcceptAdmin
<1>2. ASSUME NEW a \in Authority, NEW n \in Nonce, Dispatch(a, n) PROVE prepared' = prepared
  BY <1>2, DispatchCases DEF Dispatched
<1>3. ASSUME NEW a \in Authority, NEW n \in Nonce, Finalize(a, n) PROVE prepared' = prepared
  BY <1>3 DEF Finalize
<1>4. ASSUME Tick \/ UNCHANGED vars PROVE prepared' = prepared
  BY <1>4 DEF Tick, vars
<1>5. \E c \in PrepareChoice : Prepare(c[1], c[2], c[3], c[4])
  BY <1>1, <1>2, <1>3, <1>4, Zenon DEF Next
<1>6. PICK c \in PrepareChoice : Prepare(c[1], c[2], c[3], c[4])
  BY <1>5
<1> DEFINE n == nonce[c[1]] + 1
           e == Encode(c[1], n, c[2], c[3])
<1>7. c[1] \in Authority /\ n \in Nonce /\ e.sender = c[1] /\ e.nonce = n
  BY <1>6, PrepareShape
<1>8. prepared' = prepared \cup {[envelope |-> e, expected |-> c[4]]}
  BY <1>6 DEF Prepare
<1> QED
  BY <1>7, <1>8
=============================================================================
