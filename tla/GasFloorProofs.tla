---------------------------- MODULE GasFloorProofs ----------------------------
(***************************************************************************)
(* Theorems about GasFloor: the DIRECT floor is enough for every limit,    *)
(* the ACCOUNT floor for the limits its constants can pay a third frame of.*)
(***************************************************************************)
EXTENDS GasFloor, TLAPS

(***************************************************************************)
(* Arithmetic                                                              *)
(***************************************************************************)
\* What the gateway spends after the check is within its reserve.
LEMMA Reserve ==
  /\ GAS_RESERVE \in Nat
  /\ \A c \in GatewaySpends : c \in Int /\ c <= GAS_RESERVE
<1>1. GAS_RESERVE \in Nat
  BY DEF GAS_RESERVE
<1> QED
  BY <1>1, GasAssumption

\* A 64th, rounded down.
LEMMA Sixtyfourth ==
  ASSUME NEW h \in Int
  PROVE  /\ h \div 64 \in Int
         /\ 64 * (h \div 64) <= h
         /\ h < 64 * (h \div 64) + 64
OBVIOUS

LEMMA Inflated ==
  ASSUME NEW g \in Int
  PROVE  /\ Inflate(g) \in Int
         /\ 63 * Inflate(g) <= 64 * g
         /\ 64 * g < 63 * Inflate(g) + 63
BY DEF Inflate

\* More gas at the caller is no less gas at the callee.
LEMMA ForwardMonotone ==
  ASSUME NEW h \in Int, NEW k \in Int, k <= h
  PROVE  /\ AllButOne64th(h) \in Int
         /\ AllButOne64th(k) <= AllButOne64th(h)
BY Sixtyfourth DEF AllButOne64th

\* One inflation pays for one frame.
LEMMA InflatePays ==
  ASSUME NEW g \in Int, NEW h \in Int, Inflate(g) <= h
  PROVE  g <= AllButOne64th(h)
BY Inflated, Sixtyfourth DEF AllButOne64th

\* A call asking for g gets g when all but a 64th is as much.
LEMMA ForwardGets ==
  ASSUME NEW g \in Int, NEW h \in Int, g <= AllButOne64th(h)
  PROVE  Forward(h, g) = g
BY DEF Forward


(***************************************************************************)
(* DIRECT                                                                  *)
(***************************************************************************)
GasType ==
  /\ gas \in Int
  /\ gasLimit \in Limit
  /\ mode \in {MODE_DIRECT, MODE_ACCOUNT}

\* In DIRECT mode there is no frame between the gateway and the target.
DirectInv ==
  /\ GasType
  /\ frame \in {"clone", "code"} => mode = MODE_ACCOUNT
  /\ DirectTargetGetsLimit

LEMMA FloorInt ==
  ASSUME NEW l \in Int, NEW m
  PROVE  GasFloorOf(l, m) \in Int
BY Inflated DEF GasFloorOf, ACCOUNT_FRAME_OVERHEAD, GAS_RESERVE

LEMMA ForwardInt ==
  ASSUME NEW h \in Int, NEW g \in Int
  PROVE  AllButOne64th(h) \in Int /\ Forward(h, g) \in Int
BY ForwardMonotone DEF Forward

LEMMA TypeInit == Init => GasType
BY GasAssumption, FloorInt DEF Init, GasType

LEMMA TypeStep == GasType /\ [Next]_vars => GasType'
<1> SUFFICES ASSUME GasType, [Next]_vars PROVE GasType'
  OBVIOUS
<1> USE GasAssumption DEF GasType
<1>1. gasLimit \in Int
  OBVIOUS
<1>2. ASSUME Revert PROVE GasType'
  BY <1>2 DEF Revert, Step
<1>3. ASSUME NEW c \in GatewaySpends, CallTarget(c) PROVE GasType'
  <2>1. gas - c \in Int
    BY Reserve
  <2> QED
    BY <1>1, <1>3, <2>1, ForwardInt DEF CallTarget, Step
<1>4. ASSUME NEW c \in GatewaySpends, CallAccount(c) PROVE GasType'
  <2>1. gas - c \in Int
    BY Reserve
  <2> QED
    BY <1>4, <2>1, ForwardInt, <1>1 DEF CallAccount, Step
<1>5. ASSUME NEW c \in CloneSpends, Delegate(c) PROVE GasType'
  <2>1. gas - c \in Int
    OBVIOUS
  <2> QED
    BY <1>5, <2>1, ForwardInt, <1>1 DEF Delegate, Step
<1>6. ASSUME NEW c \in CodeSpends, Execute(c) PROVE GasType'
  <2>1. gas - c \in Int
    OBVIOUS
  <2> QED
    BY <1>1, <1>6, <2>1, ForwardInt DEF Execute, Step
<1>7. CASE UNCHANGED vars
  BY <1>7 DEF vars
<1> QED
  BY <1>2, <1>3, <1>4, <1>5, <1>6, <1>7 DEF Next

LEMMA DirectInit == Init => DirectInv
BY TypeInit DEF Init, DirectInv, DirectTargetGetsLimit

LEMMA DirectStep == DirectInv /\ [Next]_vars => DirectInv'
<1> SUFFICES ASSUME DirectInv, [Next]_vars PROVE DirectInv'
  OBVIOUS
<1>1. GasType /\ GasType'
  BY TypeStep DEF DirectInv
<1>2. ASSUME Revert PROVE DirectInv'
  BY <1>1, <1>2 DEF Revert, Step, DirectInv, DirectTargetGetsLimit
<1>3. ASSUME NEW c \in GatewaySpends, CallTarget(c) PROVE DirectInv'
  <2>1. gas \in Int /\ gasLimit \in Int /\ gas - c \in Int
    BY <1>1, Reserve, GasAssumption DEF GasType
  <2>2. GasFloorOf(gasLimit, mode) = Inflate(gasLimit) + GAS_RESERVE
    BY <1>3 DEF CallTarget, GasFloorOf, MODE_DIRECT, MODE_ACCOUNT
  <2>3. Inflate(gasLimit) <= gas - c
    BY <1>3, <2>1, <2>2, Inflated, Reserve DEF CallTarget
  <2>4. gas' = gasLimit
    BY <1>3, <2>1, <2>3, InflatePays, ForwardGets DEF CallTarget, Step
  <2> QED
    BY <1>1, <1>3, <2>1, <2>4 DEF CallTarget, Step, DirectInv, DirectTargetGetsLimit
<1>4. ASSUME NEW c \in GatewaySpends, CallAccount(c) PROVE DirectInv'
  BY <1>1, <1>4 DEF CallAccount, Step, DirectInv, DirectTargetGetsLimit
<1>5. ASSUME NEW c \in CloneSpends, Delegate(c) PROVE DirectInv'
  BY <1>1, <1>5 DEF Delegate, Step, DirectInv, DirectTargetGetsLimit
<1>6. ASSUME NEW c \in CodeSpends, Execute(c) PROVE DirectInv'
  BY <1>1, <1>6 DEF Execute, Step, DirectInv, DirectTargetGetsLimit, MODE_DIRECT, MODE_ACCOUNT
<1>7. CASE UNCHANGED vars
  BY <1>1, <1>7 DEF vars, DirectInv, DirectTargetGetsLimit
<1> QED
  BY <1>2, <1>3, <1>4, <1>5, <1>6, <1>7 DEF Next

\* Whatever the limit and whatever the gateway spends of its reserve, a DIRECT
\* call that is made gives its target the certified gas.
THEOREM DirectFloor == Spec => []DirectTargetGetsLimit
<1>1. DirectInv => DirectTargetGetsLimit
  BY DEF DirectInv
<1> QED
  BY <1>1, DirectInit, DirectStep, PTL DEF Spec

(***************************************************************************)
(* ACCOUNT                                                                 *)
(*                                                                         *)
(* Three frames, two inflations.  The third is paid out of                 *)
(* ACCOUNT_FRAME_OVERHEAD, as are the clone and the account code: a 64th   *)
(* of the limit and what the two spend before they call must fit in it.    *)
(***************************************************************************)
\* 63 * 63 and 64 * 63: what a unit spent by each of the two frames takes.
OverheadCovers(l, c, d) == 64 * l + 3969 * c + 4032 * d <= 3969 * ACCOUNT_FRAME_OVERHEAD

Covered ==
  \A l \in Limit, c \in CloneSpends, d \in CodeSpends : OverheadCovers(l, c, d)

AccountInv ==
  /\ Covered
  /\ GasType
  /\ frame \in {"clone", "code"} => mode = MODE_ACCOUNT
  /\ frame = "clone" => gas >= Inflate(gasLimit) + ACCOUNT_FRAME_OVERHEAD
  /\ frame = "code" => \A d \in CodeSpends : gasLimit <= AllButOne64th(gas - d)
  /\ AccountTargetGetsLimit

\* The arithmetic of the third frame.
LEMMA ThirdFrame ==
  ASSUME NEW l \in Nat, NEW c \in Nat, NEW d \in Nat, OverheadCovers(l, c, d),
         NEW h \in Int, h >= Inflate(l) + ACCOUNT_FRAME_OVERHEAD
  PROVE  l <= AllButOne64th(AllButOne64th(h - c) - d)
<1> DEFINE k == AllButOne64th(h - c)
           r == AllButOne64th(k - d)
<1>1. 63 * h >= 64 * l - 63 + 63 * 40000
  BY Inflated DEF ACCOUNT_FRAME_OVERHEAD
<1>2. h - c \in Int
  OBVIOUS
<1>3. k \in Int /\ 64 * k >= 63 * (h - c)
  BY <1>2, Sixtyfourth DEF AllButOne64th
<1> HIDE DEF k
<1>4. k - d \in Int
  BY <1>3
<1>5. r \in Int /\ 64 * r >= 63 * (k - d)
  BY <1>4, Sixtyfourth DEF AllButOne64th
<1>6. 64 * l + 3969 * c + 4032 * d <= 3969 * 40000
  BY DEF OverheadCovers, ACCOUNT_FRAME_OVERHEAD
<1> HIDE DEF r
<1>7. l <= r
  BY <1>1, <1>3, <1>5, <1>6
<1> QED
  BY <1>7 DEF k, r

LEMMA AccountInit == Covered /\ Init => AccountInv
BY TypeInit DEF Init, AccountInv, AccountTargetGetsLimit

\* What the gateway hands down: the whole of the first two frames' share.
LEMMA CloneShare ==
  ASSUME GasType, NEW c \in GatewaySpends, CallAccount(c)
  PROVE  gas' >= Inflate(gasLimit) + ACCOUNT_FRAME_OVERHEAD
<1> DEFINE g == Inflate(gasLimit) + ACCOUNT_FRAME_OVERHEAD
<1>1. gas \in Int /\ gasLimit \in Int /\ gas - c \in Int
  BY Reserve, GasAssumption DEF GasType
<1>2. g \in Int
  BY <1>1, Inflated DEF ACCOUNT_FRAME_OVERHEAD
<1>3. GasFloorOf(gasLimit, mode) = Inflate(g) + GAS_RESERVE
  BY DEF CallAccount, GasFloorOf
<1> HIDE DEF g
<1>4. Inflate(g) <= gas - c
  BY <1>1, <1>2, <1>3, Inflated, Reserve DEF CallAccount
<1>5. gas' >= g
  BY <1>1, <1>2, <1>4, InflatePays, ForwardInt DEF CallAccount, Step
<1> QED
  BY <1>5 DEF g

LEMMA AccountStep == AccountInv /\ [Next]_vars => AccountInv'
<1> SUFFICES ASSUME AccountInv, [Next]_vars PROVE AccountInv'
  OBVIOUS
<1>1. GasType /\ GasType' /\ Covered /\ Covered'
  BY TypeStep DEF AccountInv, Covered, OverheadCovers
<1>2. gas \in Int /\ gasLimit \in Nat /\ gasLimit \in Limit
  BY <1>1, GasAssumption DEF GasType
<1>3. ASSUME Revert PROVE AccountInv'
  BY <1>1, <1>3 DEF Revert, Step, AccountInv, AccountTargetGetsLimit
<1>4. ASSUME NEW c \in GatewaySpends, CallTarget(c) PROVE AccountInv'
  BY <1>1, <1>4 DEF CallTarget, Step, AccountInv, AccountTargetGetsLimit,
                    MODE_DIRECT, MODE_ACCOUNT
<1>5. ASSUME NEW c \in GatewaySpends, CallAccount(c) PROVE AccountInv'
  <2>1. gas' >= Inflate(gasLimit) + ACCOUNT_FRAME_OVERHEAD
    BY <1>1, <1>5, CloneShare
  <2> QED
    BY <1>1, <1>5, <2>1 DEF CallAccount, Step, AccountInv, AccountTargetGetsLimit
<1>6. ASSUME NEW c \in CloneSpends, Delegate(c) PROVE AccountInv'
  <2>1. gas >= Inflate(gasLimit) + ACCOUNT_FRAME_OVERHEAD
    BY <1>6 DEF AccountInv, Delegate, Step
  <2>2. ASSUME NEW d \in CodeSpends PROVE gasLimit <= AllButOne64th(AllButOne64th(gas - c) - d)
    <3>1. c \in Nat /\ d \in Nat /\ OverheadCovers(gasLimit, c, d)
      BY <1>1, <1>2, GasAssumption DEF Covered
    <3> QED
      BY <1>2, <2>1, <3>1, ThirdFrame
  <2>3. gas' = AllButOne64th(gas - c) /\ gasLimit' = gasLimit /\ frame' = "code" /\ mode' = mode
        /\ mode = MODE_ACCOUNT
    BY <1>6 DEF Delegate, Step, AccountInv
  <2>4. \A d \in CodeSpends : gasLimit' <= AllButOne64th(gas' - d)
    BY <2>2, <2>3
  <2> QED
    BY <1>1, <2>3, <2>4 DEF AccountInv, AccountTargetGetsLimit
<1>7. ASSUME NEW d \in CodeSpends, Execute(d) PROVE AccountInv'
  <2>1. gas - d \in Int /\ gasLimit <= AllButOne64th(gas - d)
    BY <1>2, <1>7, GasAssumption DEF AccountInv, Execute, Step
  <2>2. gas' = gasLimit
    BY <1>2, <1>7, <2>1, ForwardGets DEF Execute, Step
  <2> QED
    BY <1>1, <1>2, <1>7, <2>2 DEF Execute, Step, AccountInv, AccountTargetGetsLimit
<1>8. CASE UNCHANGED vars
  BY <1>1, <1>8 DEF vars, AccountInv, AccountTargetGetsLimit
<1> QED
  BY <1>3, <1>4, <1>5, <1>6, <1>7, <1>8 DEF Next

\* An ACCOUNT call that is made gives its target the certified gas as long as a
\* 64th of the limit, and what the clone and the account code spend before they
\* call, fit in the overhead: limits up to 2.48 million when they spend nothing,
\* 1.68 million at 2700 and 10000 (_gasFloor, _run, SolanaAccount.execute).
THEOREM AccountFloor == Covered /\ Spec => []AccountTargetGetsLimit
<1>1. AccountInv => AccountTargetGetsLimit
  BY DEF AccountInv
<1> QED
  BY <1>1, AccountInit, AccountStep, PTL DEF Spec

(***************************************************************************)
(* The bound is not the proof's: from SHORT_FROM on the floor is too low,  *)
(* however little the frames spend.                                        *)
(***************************************************************************)
SHORT_FROM == 4922569

LargeAtTheFloor ==
  /\ \A l \in Limit : l >= SHORT_FROM
  /\ \A d \in Spare : d <= 0

TargetFallsShort == frame = "target" /\ mode = MODE_ACCOUNT => gas < gasLimit

ShortInv ==
  /\ LargeAtTheFloor
  /\ GasType
  /\ frame = "gateway" => gas <= GasFloorOf(gasLimit, mode)
  /\ frame \in {"clone", "code"} => mode = MODE_ACCOUNT
  /\ frame = "clone" => 63 * gas <= 64 * gasLimit + 5000625
  /\ frame = "code" => gas <= gasLimit + 78135
  /\ TargetFallsShort

LEMMA ShortInit == LargeAtTheFloor /\ Init => ShortInv
<1> SUFFICES ASSUME LargeAtTheFloor, Init PROVE ShortInv
  OBVIOUS
<1>1. PICK d \in Spare : gas = GasFloorOf(gasLimit, mode) + d
  BY DEF Init
<1>2. GasFloorOf(gasLimit, mode) \in Int /\ d \in Int /\ d <= 0
  BY GasAssumption, FloorInt DEF Init, LargeAtTheFloor
<1> QED
  BY <1>1, <1>2, TypeInit DEF Init, ShortInv, TargetFallsShort

\* The gas that reaches the clone from a gateway at its floor.
LEMMA CloneGets ==
  ASSUME NEW l \in Nat, NEW c \in Nat, NEW h \in Int, h <= GasFloorOf(l, MODE_ACCOUNT)
  PROVE  63 * AllButOne64th(h - c) <= 64 * l + 5000625
<1> DEFINE g == Inflate(l) + 40000
           k == AllButOne64th(h - c)
<1>1. g \in Int /\ 63 * g <= 64 * l + 63 * 40000
  BY Inflated
<1>2. GasFloorOf(l, MODE_ACCOUNT) = Inflate(g) + 40000
  BY DEF GasFloorOf, ACCOUNT_FRAME_OVERHEAD, GAS_RESERVE
<1> HIDE DEF g
<1>3. Inflate(g) \in Int /\ 63 * Inflate(g) <= 64 * g
  BY <1>1, Inflated
<1>4. h - c \in Int /\ h - c <= Inflate(g) + 40000
  BY <1>2, <1>3
<1>5. k \in Int /\ 64 * k < 63 * (h - c) + 64
  BY <1>4, Sixtyfourth DEF AllButOne64th
<1> HIDE DEF k
<1>6. 63 * k <= 64 * l + 5000625
  BY <1>1, <1>3, <1>4, <1>5
<1> QED
  BY <1>6 DEF k

LEMMA ShortStep == ShortInv /\ [Next]_vars => ShortInv'
<1> SUFFICES ASSUME ShortInv, [Next]_vars PROVE ShortInv'
  OBVIOUS
<1>1. GasType /\ GasType' /\ LargeAtTheFloor /\ LargeAtTheFloor'
  BY TypeStep DEF ShortInv, LargeAtTheFloor
<1>2. gas \in Int /\ gasLimit \in Nat /\ gasLimit >= SHORT_FROM
  BY <1>1, GasAssumption DEF GasType, LargeAtTheFloor
<1>3. ASSUME Revert PROVE ShortInv'
  BY <1>1, <1>3 DEF Revert, Step, ShortInv, TargetFallsShort
<1>4. ASSUME NEW c \in GatewaySpends, CallTarget(c) PROVE ShortInv'
  BY <1>1, <1>4 DEF CallTarget, Step, ShortInv, TargetFallsShort, MODE_DIRECT, MODE_ACCOUNT
<1>5. ASSUME NEW c \in GatewaySpends, CallAccount(c) PROVE ShortInv'
  <2>1. gas <= GasFloorOf(gasLimit, MODE_ACCOUNT) /\ c \in Nat
    BY <1>5, GasAssumption DEF ShortInv, CallAccount, Step
  <2>2. 63 * AllButOne64th(gas - c) <= 64 * gasLimit + 5000625
    BY <1>2, <2>1, CloneGets
  <2> QED
    BY <1>1, <1>5, <2>2 DEF CallAccount, Step, ShortInv, TargetFallsShort
<1>6. ASSUME NEW c \in CloneSpends, Delegate(c) PROVE ShortInv'
  <2>1. 63 * gas <= 64 * gasLimit + 5000625 /\ c \in Nat /\ gas - c \in Int
    BY <1>2, <1>6, GasAssumption DEF ShortInv, Delegate, Step
  <2>2. /\ AllButOne64th(gas - c) \in Int
        /\ 64 * AllButOne64th(gas - c) < 63 * (gas - c) + 64
    BY <2>1, Sixtyfourth DEF AllButOne64th
  <2>3. AllButOne64th(gas - c) <= gasLimit + 78135
    BY <1>2, <2>1, <2>2
  <2> QED
    BY <1>1, <1>6, <2>3 DEF Delegate, Step, ShortInv, TargetFallsShort
<1>7. ASSUME NEW d \in CodeSpends, Execute(d) PROVE ShortInv'
  <2>1. gas <= gasLimit + 78135 /\ d \in Nat /\ gas - d \in Int
    BY <1>2, <1>7, GasAssumption DEF ShortInv, Execute, Step
  <2>2. /\ AllButOne64th(gas - d) \in Int
        /\ 64 * AllButOne64th(gas - d) < 63 * (gas - d) + 64
    BY <2>1, Sixtyfourth DEF AllButOne64th
  <2>3. AllButOne64th(gas - d) < gasLimit
    BY <1>2, <2>1, <2>2 DEF SHORT_FROM
  <2>4. Forward(gas - d, gasLimit) < gasLimit
    BY <1>2, <2>2, <2>3 DEF Forward
  <2> QED
    BY <1>1, <1>7, <2>4 DEF Execute, Step, ShortInv, TargetFallsShort
<1>8. CASE UNCHANGED vars
  BY <1>1, <1>8 DEF vars, ShortInv, TargetFallsShort
<1> QED
  BY <1>3, <1>4, <1>5, <1>6, <1>7, <1>8 DEF Next

\* With a limit of 4.93 million or more, an ACCOUNT call made with no more gas
\* than the floor asks for never gives its target the certified gas, though
\* the comment on _gasFloor says the target receives at least that: the frame
\* of the account code has no inflation of its own.
THEOREM AccountShort == LargeAtTheFloor /\ Spec => []TargetFallsShort
<1>1. ShortInv => TargetFallsShort
  BY DEF ShortInv
<1> QED
  BY <1>1, ShortInit, ShortStep, PTL DEF Spec
===============================================================================
