-------------------------- MODULE LzDispatcherProofs --------------------------
(***************************************************************************)
(* Theorems about LzDispatcher, for any accounts, stores and bytes.        *)
(***************************************************************************)
EXTENDS LzDispatcher, OutboxProofs, SequenceTheorems

(***************************************************************************)
(* The dispatcher's invariant: its store names a transport the outbox has, *)
(* and no call longer than the limit was ever prepared.                    *)
(***************************************************************************)
StoreTyped == store # NoStore => store \in Store

ShortCalls == \A p \in prepared : Params[p.envelope.call].size <= MAX_CALLDATA

LzInv == StoreTyped /\ ShortCalls

LEMMA PeerTyped ==
  ASSUME NEW s \in Store, NEW d \in Nat, NEW q \in Peer
  PROVE  [s EXCEPT !.dst_eid = d, !.peer = q] \in Store
BY Zenon DEF Store

\* A step of the two programs is a step of the outbox, or leaves it alone.
LEMMA LzSteps == StoreTyped /\ [LzNext]_lzvars => [Next]_vars
<1> SUFFICES ASSUME StoreTyped, [LzNext]_lzvars PROVE [Next]_vars
  OBVIOUS
<1>1. CASE OutboxStep
  BY <1>1 DEF OutboxStep, Next, Dispatch
<1>2. ASSUME NEW params \in InitChoice, InitializeStore(params) PROVE [Next]_vars
  BY <1>2 DEF InitializeStore
<1>3. ASSUME NEW p \in Principal, NEW c \in PeerChoice, SetPeer(p, c[1], c[2]) PROVE [Next]_vars
  BY <1>3 DEF SetPeer
<1>4. ASSUME NEW x \in Account, NEW a \in Authority, NEW n \in Nonce, LzDispatch(x, a, n)
      PROVE  [Next]_vars
  <2>1. MarkDispatched(LzProgram, store.transport_id, a, n) /\ store # NoStore
    BY <1>4 DEF LzDispatch
  <2>2. store.transport_id \in TransportId
    BY <2>1 DEF StoreTyped, Store
  <2>3. LzProgram \in Program
    BY DispatcherAssumption
  <2>4. Dispatch(a, n)
    BY <2>1, <2>2, <2>3 DEF Dispatch
  <2> QED
    BY <2>4 DEF Next
<1>5. CASE UNCHANGED lzvars
  BY <1>5 DEF lzvars
<1> QED
  BY <1>1, <1>2, <1>3, <1>4, <1>5 DEF LzNext

LEMMA StoreStep == StoreTyped /\ [LzNext]_lzvars => StoreTyped'
<1> SUFFICES ASSUME StoreTyped, [LzNext]_lzvars PROVE StoreTyped'
  OBVIOUS
<1>1. CASE UNCHANGED store
  BY <1>1 DEF StoreTyped
<1>2. ASSUME NEW params \in InitChoice, InitializeStore(params) PROVE StoreTyped'
  BY <1>2, DispatcherAssumption DEF InitializeStore, StoreTyped
<1>3. ASSUME NEW p \in Principal, NEW c \in PeerChoice, SetPeer(p, c[1], c[2]) PROVE StoreTyped'
  <2>1. c \in Nat \X Peer
    BY DispatcherAssumption
  <2>2. c[1] \in Nat /\ c[2] \in Peer
    BY <2>1
  <2>3. store \in Store /\ store' = [store EXCEPT !.dst_eid = c[1], !.peer = c[2]]
    BY <1>3 DEF SetPeer, StoreTyped
  <2> QED
    BY <2>2, <2>3, PeerTyped DEF StoreTyped
<1>4. ASSUME NEW x \in Account, NEW a \in Authority, NEW n \in Nonce, LzDispatch(x, a, n)
      PROVE  StoreTyped'
  BY <1>1, <1>4 DEF LzDispatch
<1> QED
  BY <1>1, <1>2, <1>3, <1>4 DEF LzNext, OutboxStep, lzvars

LEMMA CallsStep == ShortCalls /\ [Next]_vars => ShortCalls'
<1> SUFFICES ASSUME ShortCalls, [Next]_vars PROVE ShortCalls'
  OBVIOUS
<1>1. CASE UNCHANGED prepared
  BY <1>1 DEF ShortCalls
<1>2. ASSUME NEW c \in PrepareChoice, Prepare(c[1], c[2], c[3], c[4]) PROVE ShortCalls'
  <2>1. PICK e : prepared' = prepared \cup {[envelope |-> e, expected |-> c[4]]} /\ e.call = c[2]
    BY <1>2 DEF Prepare, Encode
  <2>2. Params[c[2]].size <= MAX_CALLDATA
    BY <1>2 DEF Prepare, Acceptable
  <2> QED
    BY <2>1, <2>2 DEF ShortCalls
<1>3. \A p : Administer(p) => UNCHANGED prepared
  BY DEF Administer, Initialize, SetTransport, SetPaused, TransferAdmin, AcceptAdmin
<1>4. \A a, n : Dispatch(a, n) => UNCHANGED prepared
  BY DEF Dispatch, DispatchViaWormhole, DispatchViaLayerZero, MarkDispatched
<1>5. \A a, n : Finalize(a, n) => UNCHANGED prepared
  BY DEF Finalize
<1>6. Tick => UNCHANGED prepared
  BY DEF Tick
<1> QED
  BY <1>1, <1>2, <1>3, <1>4, <1>5, <1>6 DEF Next, vars

LEMMA LzInvariance == LzSpec => []LzInv
<1>1. LzInit => LzInv
  BY DEF LzInit, Init, LzInv, StoreTyped, ShortCalls
<1>2. LzInv /\ [LzNext]_lzvars => LzInv'
  BY LzSteps, StoreStep, CallsStep DEF LzInv
<1> QED
  BY <1>1, <1>2, PTL DEF LzSpec

\* The outbox with this dispatcher is still the outbox: a program that sends
\* before it marks, and is registered or not, adds no step that Outbox does
\* not have, so all that is proved of the outbox holds beside it (dispatch,
\* mark_dispatched).
THEOREM DispatcherRefinesOutbox == LzSpec => Spec
<1>1. LzInit => Init
  BY DEF LzInit
<1>2. LzInv /\ [LzNext]_lzvars => [Next]_vars
  BY LzSteps DEF LzInv
<1> QED
  BY <1>1, <1>2, LzInvariance, PTL DEF LzSpec, Spec

(***************************************************************************)
(* Bytes, and sequences put together from them.                            *)
(***************************************************************************)
LEMMA BytesSeq ==
  ASSUME NEW S, Byte \subseteq S, NEW k \in Nat, NEW b \in Bytes(k)
  PROVE  b \in Seq(S) /\ Len(b) = k
<1>1. b \in [1 .. k -> Byte]
  BY DEF Bytes
<1>2. b \in Seq(Byte)
  BY <1>1, SeqDef
<1>3. Len(b) = k
  BY <1>1, <1>2, LenProperties
<1> QED
  BY <1>2, <1>3, SeqMonotonic, Zenon

LEMMA Joined ==
  ASSUME NEW k \in Nat, NEW b \in Bytes(k), NEW c \in Bytes(k)
  PROVE  b \o c \in Bytes(2 * k)
<1>1. b \in Seq(Byte) /\ c \in Seq(Byte) /\ Len(b) = k /\ Len(c) = k
  BY BytesSeq
<1>2. b \o c \in Seq(Byte) /\ Len(b \o c) = 2 * k
  BY <1>1, ConcatProperties
<1> QED
  BY <1>2, LenProperties DEF Bytes

LEMMA TwoBytes ==
  ASSUME NEW i \in Nat
  PROVE  U16(i) \in Bytes(2)
<1> DEFINE
  x == (i \div 256) % 256
  y == i % 256
<1>1. x \in Byte /\ y \in Byte
  BY DEF Byte
<1>2. U16(i) = <<x, y>>
  BY DEF U16
<1> HIDE DEF x, y
<1>3. <<x, y>> \in [1 .. 2 -> Byte]
  BY <1>1
<1> QED
  BY <1>2, <1>3 DEF Bytes

LEMMA FourBytes ==
  ASSUME NEW i \in Nat
  PROVE  U32(i) \in Bytes(4)
<1>1. (i \div 256) \div 256 \in Nat
  OBVIOUS
<1>2. U16((i \div 256) \div 256) \in Bytes(2) /\ U16(i) \in Bytes(2)
  BY <1>1, TwoBytes
<1>3. U16((i \div 256) \div 256) \o U16(i) \in Bytes(2 * 2)
  BY <1>2, Joined
<1> QED
  BY <1>3 DEF U32

LEMMA EightBytes ==
  ASSUME NEW i \in Nat
  PROVE  U64(i) \in Bytes(8)
<1>1. High(i) \in Nat
  BY DEF High
<1>2. U32(High(i)) \in Bytes(4) /\ U32(i) \in Bytes(4)
  BY <1>1, FourBytes
<1>3. U32(High(i)) \o U32(i) \in Bytes(2 * 4)
  BY <1>2, Joined
<1> QED
  BY <1>3 DEF U64

\* Turned round twice, an integer is itself again.
LEMMA Reversal ==
  ASSUME NEW k \in Nat, NEW b \in Bytes(k)
  PROVE  LittleEndian(b) \in Bytes(k) /\ LittleEndian(LittleEndian(b)) = b
<1>1. b \in [1 .. k -> Byte] /\ Len(b) = k
  BY BytesSeq DEF Bytes
<1>2. LittleEndian(b) = [i \in 1 .. k |-> b[k + 1 - i]]
  BY <1>1 DEF LittleEndian
<1>3. \A i \in 1 .. k : k + 1 - i \in 1 .. k
  OBVIOUS
<1>4. LittleEndian(b) \in Bytes(k)
  BY <1>1, <1>2, <1>3 DEF Bytes
<1>5. Len(LittleEndian(b)) = k
  BY <1>4, BytesSeq
<1>6. LittleEndian(LittleEndian(b)) = [i \in 1 .. k |-> LittleEndian(b)[k + 1 - i]]
  BY <1>5 DEF LittleEndian
<1>7. \A i \in 1 .. k : LittleEndian(b)[k + 1 - i] = b[i]
  BY <1>2, <1>3
<1>8. LittleEndian(LittleEndian(b)) = [i \in 1 .. k |-> b[i]]
  BY <1>6, <1>7
<1> QED
  BY <1>1, <1>4, <1>8

\* The four bytes of a number.
LEMMA Quarters ==
  ASSUME NEW i \in Nat
  PROVE  LET x == i \div 256
             y == x \div 256
             z == y \div 256
         IN  U32(i)[1] = z % 256 /\ U32(i)[2] = y % 256 /\ U32(i)[3] = x % 256 /\ U32(i)[4] = i % 256
<1> DEFINE
  x == i \div 256
  y == x \div 256
  z == y \div 256
<1>1. y \in Nat
  OBVIOUS
<1>2. U16(y) = <<z % 256, y % 256>> /\ U16(i) = <<x % 256, i % 256>> /\ U32(i) = U16(y) \o U16(i)
  BY DEF U16, U32
<1> HIDE DEF x, y, z
<1>3. U16(y) \in Seq(Byte) /\ U16(i) \in Seq(Byte) /\ Len(U16(y)) = 2 /\ Len(U16(i)) = 2
  BY <1>1, TwoBytes, BytesSeq
<1>4. \A j \in 1 .. 4 : U32(i)[j] = IF j <= 2 THEN U16(y)[j] ELSE U16(i)[j - 2]
  BY <1>2, <1>3, ConcatProperties
<1>5. /\ U32(i)[1] = U16(y)[1] /\ U32(i)[2] = U16(y)[2]
      /\ U32(i)[3] = U16(i)[1] /\ U32(i)[4] = U16(i)[2]
  BY <1>4
<1>6. U16(y)[1] = z % 256 /\ U16(y)[2] = y % 256 /\ U16(i)[1] = x % 256 /\ U16(i)[2] = i % 256
  BY <1>2
<1> QED
  BY <1>5, <1>6 DEF x, y, z

\* A length that fits four bytes is read back as it was written.
FitsU32(i) == i \in Nat /\ i < 256 * 256 * 256 * 256

LEMMA NumberOfU32 ==
  ASSUME NEW i, FitsU32(i)
  PROVE  Number(U32(i)) = i
<1> DEFINE
  x == i \div 256
  y == x \div 256
  z == y \div 256
<1>0. i \in Nat /\ i < 256 * 256 * 256 * 256
  BY DEF FitsU32
<1>1. x \in Nat /\ i = 256 * x + (i % 256) /\ i % 256 \in Nat
  BY <1>0
<1>2. y \in Nat /\ x = 256 * y + (x % 256) /\ x % 256 \in Nat
  BY <1>1
<1>3. z \in Nat /\ y = 256 * z + (y % 256) /\ y % 256 \in Nat
  BY <1>2
<1>4. z < 256
  BY <1>0, <1>1, <1>2, <1>3
<1>5. z % 256 = z
  BY <1>3, <1>4
<1>6. U32(i)[1] = z % 256 /\ U32(i)[2] = y % 256 /\ U32(i)[3] = x % 256 /\ U32(i)[4] = i % 256
  BY <1>0, Quarters
<1> HIDE DEF x, y, z
<1>7. Number(U32(i)) = ((z * 256 + (y % 256)) * 256 + (x % 256)) * 256 + (i % 256)
  BY <1>5, <1>6 DEF Number
<1>8. Number(U32(i)) = (y * 256 + (x % 256)) * 256 + (i % 256)
  BY <1>3, <1>7
<1>9. Number(U32(i)) = x * 256 + (i % 256)
  BY <1>2, <1>8
<1> QED
  BY <1>1, <1>9

\* Two numbers with the same four bytes are the same if what is above them is.
LEMMA SameFourBytes ==
  ASSUME NEW i \in Nat, NEW j \in Nat, U32(i) = U32(j), High(i) = High(j)
  PROVE  i = j
<1> DEFINE
  x(k) == k \div 256
  y(k) == x(k) \div 256
  z(k) == y(k) \div 256
<1>1. z(i) % 256 = z(j) % 256 /\ y(i) % 256 = y(j) % 256 /\ x(i) % 256 = x(j) % 256 /\ i % 256 = j % 256
  <2>1. U32(i)[1] = z(i) % 256 /\ U32(i)[2] = y(i) % 256 /\ U32(i)[3] = x(i) % 256 /\ U32(i)[4] = i % 256
    BY Quarters
  <2>2. U32(j)[1] = z(j) % 256 /\ U32(j)[2] = y(j) % 256 /\ U32(j)[3] = x(j) % 256 /\ U32(j)[4] = j % 256
    BY Quarters
  <2> QED
    BY <2>1, <2>2
<1>2. \A k \in Nat : k \div 256 \in Nat /\ k = 256 * (k \div 256) + (k % 256)
  OBVIOUS
<1>3. \A k \in Nat : x(k) \in Nat /\ y(k) \in Nat /\ z(k) \in Nat
  BY <1>2
<1>4. z(i) \div 256 = z(j) \div 256
  BY DEF High
<1>5. z(i) = z(j)
  BY <1>1, <1>2, <1>3, <1>4
<1>6. y(i) = y(j)
  BY <1>1, <1>2, <1>3, <1>5
<1>7. x(i) = x(j)
  BY <1>1, <1>2, <1>3, <1>6
<1> QED
  BY <1>1, <1>2, <1>7

\* The sequences of k items of S, and their concatenation, which the provers
\* are not to take apart.
Run(S, k) == {s \in Seq(S) : Len(s) = k}
Cat(s, t) == s \o t

LEMMA Whole ==
  ASSUME NEW S, NEW k \in Nat, NEW s \in Run(S, k)
  PROVE  Slice(s, 0, k) = s
<1>1. 0 + 1 = 1 /\ 0 + k = k
  OBVIOUS
<1> QED
  BY <1>1, SubSeqFull DEF Run, Slice

LEMMA Joint ==
  ASSUME NEW S, NEW i \in Nat, NEW j \in Nat, NEW s \in Run(S, i), NEW t \in Run(S, j)
  PROVE  Cat(s, t) \in Run(S, i + j)
<1>1. s \in Seq(S) /\ t \in Seq(S) /\ Len(s) = i /\ Len(t) = j
  BY DEF Run
<1> QED
  BY <1>1, ConcatProperties DEF Run, Cat

\* Appending to s leaves what s holds where it is.
LEMMA Before ==
  ASSUME NEW S, NEW i \in Nat, NEW j \in Nat, NEW s \in Run(S, i), NEW t \in Run(S, j),
         NEW f \in Nat, NEW k \in Nat \ {0}, f + k <= i
  PROVE  Slice(Cat(s, t), f, k) = Slice(s, f, k)
<1>1. s \in Seq(S) /\ t \in Seq(S) /\ Len(s) = i /\ Len(t) = j
  BY DEF Run
<1>2. f + 1 \in 1 .. Len(s) /\ f + k \in 1 .. Len(s)
  BY <1>1
<1>3. SubSeq(s \o t, f + 1, f + k) = SubSeq(s, f + 1, f + k)
  BY <1>1, <1>2, SubSeqOfConcat1
<1> QED
  BY <1>3 DEF Slice, Cat

\* And puts t behind it.
LEMMA Behind ==
  ASSUME NEW S, NEW i \in Nat, NEW j \in Nat, NEW s \in Run(S, i), NEW t \in Run(S, j),
         NEW f \in Nat, NEW k \in Nat \ {0}, i <= f, f + k <= i + j
  PROVE  Slice(Cat(s, t), f, k) = Slice(t, f - i, k)
<1>1. s \in Seq(S) /\ t \in Seq(S) /\ Len(s) = i /\ Len(t) = j
  BY DEF Run
<1>2. /\ f + 1 \in Len(s) + 1 .. Len(s) + Len(t)
      /\ f + k \in Len(s) + 1 .. Len(s) + Len(t)
  BY <1>1
<1>3. SubSeq(s \o t, f + 1, f + k) = SubSeq(t, (f + 1) - Len(s), (f + k) - Len(s))
  BY <1>1, <1>2, SubSeqOfConcat2
<1>4. (f + 1) - Len(s) = (f - i) + 1 /\ (f + k) - Len(s) = (f - i) + k
  BY <1>1
<1> QED
  BY <1>3, <1>4 DEF Slice, Cat

LEMMA BytesRun ==
  ASSUME NEW S, Byte \subseteq S, NEW k \in Nat, NEW b \in Bytes(k)
  PROVE  b \in Run(S, k)
BY BytesSeq DEF Run

\* The two halves of eight bytes.
LEMMA Halves ==
  ASSUME NEW i \in Nat
  PROVE  Slice(U64(i), 0, 4) = U32(High(i)) /\ Slice(U64(i), 4, 4) = U32(i)
<1> DEFINE s == U32(High(i))
           t == U32(i)
<1>1. High(i) \in Nat
  BY DEF High
<1>2. s \in Run(Byte, 4) /\ t \in Run(Byte, 4)
  BY <1>1, FourBytes, BytesRun
<1>3. U64(i) = Cat(s, t)
  BY Zenon DEF U64, Cat
<1> HIDE DEF s, t
<1>4. Slice(Cat(s, t), 0, 4) = Slice(s, 0, 4)
  BY <1>2, Before
<1>5. Slice(Cat(s, t), 4, 4) = Slice(t, 4 - 4, 4)
  BY <1>2, Behind
<1>6. Slice(s, 0, 4) = s
  BY <1>2, Whole
<1>7. Slice(t, 0, 4) = t
  BY <1>2, Whole
<1>8. 4 - 4 = 0
  OBVIOUS
<1>9. Slice(U64(i), 0, 4) = s /\ Slice(U64(i), 4, 4) = t
  BY <1>3, <1>4, <1>5, <1>6, <1>7, <1>8, Zenon
<1> QED
  BY <1>9 DEF s, t

\* A number that fits eight bytes is told by them.
LEMMA SameEightBytes ==
  ASSUME NEW i \in Nat, NEW j \in Nat, FitsU64(i), FitsU64(j), U64(i) = U64(j)
  PROVE  i = j
<1>1. High(i) \in Nat /\ High(j) \in Nat
  BY DEF High
<1>2. Slice(U64(i), 0, 4) = U32(High(i)) /\ Slice(U64(i), 4, 4) = U32(i)
  BY Halves
<1>3. Slice(U64(j), 0, 4) = U32(High(j)) /\ Slice(U64(j), 4, 4) = U32(j)
  BY Halves
<1>4. U32(High(i)) = U32(High(j)) /\ U32(i) = U32(j)
  BY <1>2, <1>3, Zenon
<1>5. High(High(i)) = High(High(j))
  BY DEF FitsU64
<1>6. High(i) = High(j)
  BY <1>1, <1>4, <1>5, SameFourBytes
<1> QED
  BY <1>4, <1>6, SameFourBytes

(***************************************************************************)
(* The envelope.                                                           *)
(***************************************************************************)
\* Where each field of an envelope lies.
LEMMA Header ==
  ASSUME NEW S,
         NEW ver \in Run(S, 1), NEW type \in Run(S, 1), NEW src \in Run(S, 2),
         NEW dst \in Run(S, 2), NEW sender \in Run(S, 32), NEW n \in Run(S, 8),
         NEW target \in Run(S, 20), NEW value \in Run(S, 16), NEW gas \in Run(S, 8)
  PROVE  LET h == Cat(Cat(Cat(Cat(Cat(Cat(Cat(Cat(ver, type), src), dst), sender), n),
                                  target), value), gas)
         IN  /\ h \in Run(S, 90)
             /\ Slice(h, 0, 1) = ver
             /\ Slice(h, 1, 1) = type
             /\ Slice(h, 2, 2) = src
             /\ Slice(h, 4, 2) = dst
             /\ Slice(h, 6, 32) = sender
             /\ Slice(h, 38, 8) = n
             /\ Slice(h, 46, 20) = target
             /\ Slice(h, 66, 16) = value
             /\ Slice(h, 82, 8) = gas
<1> DEFINE
  h1 == Cat(ver, type)
  h2 == Cat(h1, src)
  h3 == Cat(h2, dst)
  h4 == Cat(h3, sender)
  h5 == Cat(h4, n)
  h6 == Cat(h5, target)
  h7 == Cat(h6, value)
  h8 == Cat(h7, gas)
<1>1. /\ h1 \in Run(S, 2)
      /\ Slice(h1, 1, 1) = type
      /\ Slice(h1, 0, 1) = ver
  <2>1. h1 \in Run(S, 2)
    BY Joint
  <2>2. Slice(h1, 1, 1) = type
    BY Behind, Whole
  <2>3. Slice(h1, 0, 1) = ver
    BY Before, Whole
  <2> QED
    BY <2>1, <2>2, <2>3
<1> HIDE DEF h1
<1>2. /\ h2 \in Run(S, 4)
      /\ Slice(h2, 2, 2) = src
      /\ Slice(h2, 0, 1) = ver
      /\ Slice(h2, 1, 1) = type
  <2>1. h2 \in Run(S, 4)
    BY <1>1, Joint
  <2>2. Slice(h2, 2, 2) = src
    BY <1>1, Behind, Whole
  <2>3. /\ Slice(h2, 0, 1) = Slice(h1, 0, 1)
        /\ Slice(h2, 1, 1) = Slice(h1, 1, 1)
    BY <1>1, Before
  <2> QED
    BY <1>1, <2>1, <2>2, <2>3
<1> HIDE DEF h2
<1>3. /\ h3 \in Run(S, 6)
      /\ Slice(h3, 4, 2) = dst
      /\ Slice(h3, 0, 1) = ver
      /\ Slice(h3, 1, 1) = type
      /\ Slice(h3, 2, 2) = src
  <2>1. h3 \in Run(S, 6)
    BY <1>2, Joint
  <2>2. Slice(h3, 4, 2) = dst
    BY <1>2, Behind, Whole
  <2>3. /\ Slice(h3, 0, 1) = Slice(h2, 0, 1)
        /\ Slice(h3, 1, 1) = Slice(h2, 1, 1)
        /\ Slice(h3, 2, 2) = Slice(h2, 2, 2)
    BY <1>2, Before
  <2> QED
    BY <1>2, <2>1, <2>2, <2>3
<1> HIDE DEF h3
<1>4. /\ h4 \in Run(S, 38)
      /\ Slice(h4, 6, 32) = sender
      /\ Slice(h4, 0, 1) = ver
      /\ Slice(h4, 1, 1) = type
      /\ Slice(h4, 2, 2) = src
      /\ Slice(h4, 4, 2) = dst
  <2>1. h4 \in Run(S, 38)
    BY <1>3, Joint
  <2>2. Slice(h4, 6, 32) = sender
    BY <1>3, Behind, Whole
  <2>3. /\ Slice(h4, 0, 1) = Slice(h3, 0, 1)
        /\ Slice(h4, 1, 1) = Slice(h3, 1, 1)
        /\ Slice(h4, 2, 2) = Slice(h3, 2, 2)
        /\ Slice(h4, 4, 2) = Slice(h3, 4, 2)
    BY <1>3, Before
  <2> QED
    BY <1>3, <2>1, <2>2, <2>3
<1> HIDE DEF h4
<1>5. /\ h5 \in Run(S, 46)
      /\ Slice(h5, 38, 8) = n
      /\ Slice(h5, 0, 1) = ver
      /\ Slice(h5, 1, 1) = type
      /\ Slice(h5, 2, 2) = src
      /\ Slice(h5, 4, 2) = dst
      /\ Slice(h5, 6, 32) = sender
  <2>1. h5 \in Run(S, 46)
    BY <1>4, Joint
  <2>2. Slice(h5, 38, 8) = n
    BY <1>4, Behind, Whole
  <2>3. /\ Slice(h5, 0, 1) = Slice(h4, 0, 1)
        /\ Slice(h5, 1, 1) = Slice(h4, 1, 1)
        /\ Slice(h5, 2, 2) = Slice(h4, 2, 2)
        /\ Slice(h5, 4, 2) = Slice(h4, 4, 2)
        /\ Slice(h5, 6, 32) = Slice(h4, 6, 32)
    BY <1>4, Before
  <2> QED
    BY <1>4, <2>1, <2>2, <2>3
<1> HIDE DEF h5
<1>6. /\ h6 \in Run(S, 66)
      /\ Slice(h6, 46, 20) = target
      /\ Slice(h6, 0, 1) = ver
      /\ Slice(h6, 1, 1) = type
      /\ Slice(h6, 2, 2) = src
      /\ Slice(h6, 4, 2) = dst
      /\ Slice(h6, 6, 32) = sender
      /\ Slice(h6, 38, 8) = n
  <2>1. h6 \in Run(S, 66)
    BY <1>5, Joint
  <2>2. Slice(h6, 46, 20) = target
    BY <1>5, Behind, Whole
  <2>3. /\ Slice(h6, 0, 1) = Slice(h5, 0, 1)
        /\ Slice(h6, 1, 1) = Slice(h5, 1, 1)
        /\ Slice(h6, 2, 2) = Slice(h5, 2, 2)
        /\ Slice(h6, 4, 2) = Slice(h5, 4, 2)
        /\ Slice(h6, 6, 32) = Slice(h5, 6, 32)
        /\ Slice(h6, 38, 8) = Slice(h5, 38, 8)
    BY <1>5, Before
  <2> QED
    BY <1>5, <2>1, <2>2, <2>3
<1> HIDE DEF h6
<1>7. /\ h7 \in Run(S, 82)
      /\ Slice(h7, 66, 16) = value
      /\ Slice(h7, 0, 1) = ver
      /\ Slice(h7, 1, 1) = type
      /\ Slice(h7, 2, 2) = src
      /\ Slice(h7, 4, 2) = dst
      /\ Slice(h7, 6, 32) = sender
      /\ Slice(h7, 38, 8) = n
      /\ Slice(h7, 46, 20) = target
  <2>1. h7 \in Run(S, 82)
    BY <1>6, Joint
  <2>2. Slice(h7, 66, 16) = value
    BY <1>6, Behind, Whole
  <2>3. /\ Slice(h7, 0, 1) = Slice(h6, 0, 1)
        /\ Slice(h7, 1, 1) = Slice(h6, 1, 1)
        /\ Slice(h7, 2, 2) = Slice(h6, 2, 2)
        /\ Slice(h7, 4, 2) = Slice(h6, 4, 2)
        /\ Slice(h7, 6, 32) = Slice(h6, 6, 32)
        /\ Slice(h7, 38, 8) = Slice(h6, 38, 8)
        /\ Slice(h7, 46, 20) = Slice(h6, 46, 20)
    BY <1>6, Before
  <2> QED
    BY <1>6, <2>1, <2>2, <2>3
<1> HIDE DEF h7
<1>8. /\ h8 \in Run(S, 90)
      /\ Slice(h8, 82, 8) = gas
      /\ Slice(h8, 0, 1) = ver
      /\ Slice(h8, 1, 1) = type
      /\ Slice(h8, 2, 2) = src
      /\ Slice(h8, 4, 2) = dst
      /\ Slice(h8, 6, 32) = sender
      /\ Slice(h8, 38, 8) = n
      /\ Slice(h8, 46, 20) = target
      /\ Slice(h8, 66, 16) = value
  <2>1. h8 \in Run(S, 90)
    BY <1>7, Joint
  <2>2. Slice(h8, 82, 8) = gas
    BY <1>7, Behind, Whole
  <2>3. /\ Slice(h8, 0, 1) = Slice(h7, 0, 1)
        /\ Slice(h8, 1, 1) = Slice(h7, 1, 1)
        /\ Slice(h8, 2, 2) = Slice(h7, 2, 2)
        /\ Slice(h8, 4, 2) = Slice(h7, 4, 2)
        /\ Slice(h8, 6, 32) = Slice(h7, 6, 32)
        /\ Slice(h8, 38, 8) = Slice(h7, 38, 8)
        /\ Slice(h8, 46, 20) = Slice(h7, 46, 20)
        /\ Slice(h8, 66, 16) = Slice(h7, 66, 16)
    BY <1>7, Before
  <2> QED
    BY <1>7, <2>1, <2>2, <2>3
<1> QED
  BY <1>8 DEF h1, h2, h3, h4, h5, h6, h7

LEMMA Trailer ==
  ASSUME NEW S, NEW k \in Nat,
         NEW expiry \in Run(S, 8), NEW mode \in Run(S, 1), NEW len \in Run(S, 4),
         NEW calldata \in Run(S, k)
  PROVE  LET r == Cat(Cat(Cat(expiry, mode), len), calldata)
         IN  /\ r \in Run(S, 13 + k)
             /\ Slice(r, 0, 8) = expiry
             /\ Slice(r, 8, 1) = mode
             /\ Slice(r, 9, 4) = len
             /\ k # 0 => Slice(r, 13, k) = calldata
<1> DEFINE
  r1 == Cat(expiry, mode)
  r2 == Cat(r1, len)
  r3 == Cat(r2, calldata)
<1>1. r1 \in Run(S, 9) /\ Slice(r1, 0, 8) = expiry /\ Slice(r1, 8, 1) = mode
  BY Joint, Before, Behind, Whole
<1> HIDE DEF r1
<1>2. /\ r2 \in Run(S, 13) /\ Slice(r2, 0, 8) = expiry /\ Slice(r2, 8, 1) = mode
      /\ Slice(r2, 9, 4) = len
  BY <1>1, Joint, Before, Behind, Whole
<1> HIDE DEF r2
<1>3. /\ r3 \in Run(S, 13 + k) /\ Slice(r3, 0, 8) = expiry /\ Slice(r3, 8, 1) = mode
      /\ Slice(r3, 9, 4) = len
  BY <1>2, Joint, Before
<1>4. k # 0 => Slice(r3, 13, k) = calldata
  BY <1>2, Behind, Whole
<1> QED
  BY <1>3, <1>4 DEF r1, r2

\* The envelope of e in two halves: up to the gas limit, and from the expiry.
HeaderOf(e) ==
  LET p == ParamsOf(e) IN
  Cat(Cat(Cat(Cat(Cat(Cat(Cat(Cat(<<VERSION>>, <<MSG_TYPE_CALL>>), U16(SRC_CHAIN_SOLANA)),
              p.dst_chain_id), Key[e.sender]), U64(e.nonce)), p.target), p.value), p.gas_limit)

TrailerOf(e) ==
  LET p == ParamsOf(e) IN Cat(Cat(Cat(p.expiry, <<p.mode>>), U32(Len(p.calldata))), p.calldata)

LEMMA Shape ==
  ASSUME NEW e
  PROVE  EnvelopeBytes(e) = Cat(HeaderOf(e), TrailerOf(e))
<1>1. <<VERSION, MSG_TYPE_CALL>> = <<VERSION>> \o <<MSG_TYPE_CALL>>
  BY DEF VERSION, MSG_TYPE_CALL
<1> QED
  BY <1>1, Zenon DEF EnvelopeBytes, EncodeEnvelope, UpToValue, Cat, HeaderOf, TrailerOf

LEMMA FieldRuns ==
  ASSUME NEW e \in Envelope
  PROVE  LET p == ParamsOf(e)
             k == Params[e.call].size
         IN  /\ k \in Nat
             /\ <<VERSION>> \in Run(Byte, 1)
             /\ <<MSG_TYPE_CALL>> \in Run(Byte, 1)
             /\ U16(SRC_CHAIN_SOLANA) \in Run(Byte, 2)
             /\ p.dst_chain_id \in Run(Byte, 2)
             /\ Key[e.sender] \in Run(Byte, 32)
             /\ U64(e.nonce) \in Run(Byte, 8)
             /\ p.target \in Run(Byte, 20)
             /\ p.value \in Run(Byte, 16)
             /\ p.gas_limit \in Run(Byte, 8)
             /\ p.expiry \in Run(Byte, 8)
             /\ <<p.mode>> \in Run(Byte, 1)
             /\ U32(Len(p.calldata)) \in Run(Byte, 4)
             /\ p.calldata \in Run(Byte, k)
             /\ Len(p.calldata) = k
<1> DEFINE
  p == ParamsOf(e)
  k == Params[e.call].size
<1>1. /\ e.sender \in Authority /\ e.nonce \in Nat /\ e.expiry \in Nat /\ e.call \in Call
      /\ Params[e.call] \in SendParams
  BY OutboxAssumption DEF Envelope, Nonce
<1>2. /\ Body[e.call].target \in Bytes(20) /\ Body[e.call].value \in Bytes(16)
      /\ Body[e.call].calldata \in Seq(Byte) /\ Key[e.sender] \in Bytes(32)
  BY <1>1, DispatcherAssumption
<1>3. /\ k \in Nat /\ Len(Body[e.call].calldata) = k /\ Params[e.call].mode \in Byte
      /\ Params[e.call].dst_chain_id \in Nat /\ Params[e.call].gas_limit \in Nat
  BY <1>1, DispatcherAssumption DEF SendParams
<1>4. /\ p.dst_chain_id = U16(Params[e.call].dst_chain_id)
      /\ p.target = Body[e.call].target /\ p.value = Body[e.call].value
      /\ p.gas_limit = U64(Params[e.call].gas_limit) /\ p.expiry = U64(e.expiry)
      /\ p.mode = Params[e.call].mode /\ p.calldata = Body[e.call].calldata
  BY DEF ParamsOf
<1> HIDE DEF p, k
<1>5. /\ p.dst_chain_id \in Run(Byte, 2) /\ U16(SRC_CHAIN_SOLANA) \in Run(Byte, 2)
      /\ U64(e.nonce) \in Run(Byte, 8) /\ p.gas_limit \in Run(Byte, 8)
      /\ p.expiry \in Run(Byte, 8) /\ U32(Len(p.calldata)) \in Run(Byte, 4)
  <2>1. SRC_CHAIN_SOLANA \in Nat /\ Len(p.calldata) \in Nat
    BY <1>3, <1>4 DEF SRC_CHAIN_SOLANA
  <2> QED
    BY <1>1, <1>3, <1>4, <2>1, TwoBytes, FourBytes, EightBytes, BytesRun
<1>6. /\ Key[e.sender] \in Run(Byte, 32) /\ p.target \in Run(Byte, 20)
      /\ p.value \in Run(Byte, 16)
  BY <1>2, <1>4, BytesRun
<1>7. p.calldata \in Run(Byte, k) /\ Len(p.calldata) = k
  BY <1>2, <1>3, <1>4 DEF Run
<1>8. <<VERSION>> \in Run(Byte, 1) /\ <<MSG_TYPE_CALL>> \in Run(Byte, 1)
  BY DEF Run, Byte, VERSION, MSG_TYPE_CALL
<1>9. <<p.mode>> \in Run(Byte, 1)
  BY <1>3, <1>4 DEF Run
<1> QED
  BY <1>3, <1>5, <1>6, <1>7, <1>8, <1>9, Zenon DEF p, k

LEMMA HeaderFields ==
  ASSUME NEW e \in Envelope
  PROVE  LET h == HeaderOf(e)
             p == ParamsOf(e)
         IN  /\ h \in Run(Byte, 90)
             /\ Slice(h, 0, 1) = <<VERSION>> /\ Slice(h, 1, 1) = <<MSG_TYPE_CALL>>
             /\ Slice(h, 2, 2) = U16(SRC_CHAIN_SOLANA)
             /\ Slice(h, 4, 2) = p.dst_chain_id
             /\ Slice(h, 6, 32) = Key[e.sender] /\ Slice(h, 38, 8) = U64(e.nonce)
             /\ Slice(h, 46, 20) = p.target /\ Slice(h, 66, 16) = p.value
             /\ Slice(h, 82, 8) = p.gas_limit
<1> DEFINE
  p == ParamsOf(e)
  ver == <<VERSION>>
  type == <<MSG_TYPE_CALL>>
  src == U16(SRC_CHAIN_SOLANA)
  dst == p.dst_chain_id
  key == Key[e.sender]
  n == U64(e.nonce)
  target == p.target
  value == p.value
  gas == p.gas_limit
  h == Cat(Cat(Cat(Cat(Cat(Cat(Cat(Cat(ver, type), src), dst), key), n), target), value), gas)
<1>1. /\ ver \in Run(Byte, 1) /\ type \in Run(Byte, 1) /\ src \in Run(Byte, 2)
      /\ dst \in Run(Byte, 2) /\ key \in Run(Byte, 32) /\ n \in Run(Byte, 8)
      /\ target \in Run(Byte, 20) /\ value \in Run(Byte, 16) /\ gas \in Run(Byte, 8)
  BY FieldRuns, Zenon
<1>2. HeaderOf(e) = h
  BY Zenon DEF HeaderOf
<1> HIDE DEF ver, type, src, dst, key, n, target, value, gas
<1>3. /\ h \in Run(Byte, 90)
      /\ Slice(h, 0, 1) = ver /\ Slice(h, 1, 1) = type /\ Slice(h, 2, 2) = src
      /\ Slice(h, 4, 2) = dst /\ Slice(h, 6, 32) = key /\ Slice(h, 38, 8) = n
      /\ Slice(h, 46, 20) = target /\ Slice(h, 66, 16) = value /\ Slice(h, 82, 8) = gas
  BY <1>1, Header
<1> HIDE DEF h
<1> QED
  BY <1>2, <1>3, Zenon DEF ver, type, src, dst, key, n, target, value, gas

LEMMA TrailerFields ==
  ASSUME NEW e \in Envelope
  PROVE  LET r == TrailerOf(e)
             p == ParamsOf(e)
             k == Params[e.call].size
         IN  /\ r \in Run(Byte, 13 + k)
             /\ Slice(r, 0, 8) = p.expiry /\ Slice(r, 8, 1) = <<p.mode>>
             /\ Slice(r, 9, 4) = U32(k)
             /\ k # 0 => Slice(r, 13, k) = p.calldata
<1> DEFINE
  p == ParamsOf(e)
  k == Params[e.call].size
  expiry == p.expiry
  mode == <<p.mode>>
  len == U32(Len(p.calldata))
  calldata == p.calldata
  r == Cat(Cat(Cat(expiry, mode), len), calldata)
<1>1. /\ k \in Nat /\ expiry \in Run(Byte, 8) /\ mode \in Run(Byte, 1)
      /\ len \in Run(Byte, 4) /\ calldata \in Run(Byte, k)
  BY FieldRuns, Zenon
<1>2. TrailerOf(e) = r
  BY Zenon DEF TrailerOf
<1>3. len = U32(k)
  BY FieldRuns, Zenon
<1> HIDE DEF k, expiry, mode, len, calldata
<1>4. /\ r \in Run(Byte, 13 + k)
      /\ Slice(r, 0, 8) = expiry /\ Slice(r, 8, 1) = mode /\ Slice(r, 9, 4) = len
      /\ k # 0 => Slice(r, 13, k) = calldata
  BY <1>1, Trailer
<1> HIDE DEF r
<1> QED
  BY <1>2, <1>3, <1>4, Zenon DEF k, expiry, mode, len, calldata

LEMMA EnvelopeRun ==
  ASSUME NEW e \in Envelope
  PROVE  EnvelopeBytes(e) \in Run(Byte, 103 + Params[e.call].size)
<1> DEFINE
  k == Params[e.call].size
  h == HeaderOf(e)
  r == TrailerOf(e)
<1>1. k \in Nat /\ h \in Run(Byte, 90) /\ r \in Run(Byte, 13 + k)
  BY FieldRuns, HeaderFields, TrailerFields, Zenon
<1>2. EnvelopeBytes(e) = Cat(h, r)
  BY Shape
<1> HIDE DEF k, h, r
<1>3. 90 \in Nat /\ 13 + k \in Nat /\ 90 + (13 + k) = 103 + k
  BY <1>1
<1>4. Cat(h, r) \in Run(Byte, 90 + (13 + k))
  BY <1>1, <1>3, Joint, Zenon
<1> QED
  BY <1>2, <1>3, <1>4 DEF k

\* A field of k bytes, f bytes into the word at an offset, as the decoder cuts
\* it out, is that slice of the envelope: no field reaches behind it.
LEMMA WordField ==
  ASSUME NEW len \in Nat, NEW b \in Run(Byte, len), NEW offset \in Nat, NEW f \in Nat,
         NEW k \in Nat \ {0}, f + k <= 32, offset + (f + k) <= len
  PROVE  Slice(WordAt(b, offset), f, k) = Slice(b, offset + f, k)
<1> DEFINE w == WordAt(b, offset)
<1>1. b \in Seq(Byte) /\ Len(b) = len
  BY DEF Run
<1>2. \A i \in 1 .. len : b[i] \in Byte
  BY <1>1, ElementOfSeq
<1>3. \A i \in f + 1 .. f + k : w[i] = b[offset + i]
  <2>1. w = [i \in 1 .. 32 |-> IF offset + i <= len THEN b[offset + i] ELSE Beyond]
    BY <1>1 DEF WordAt
  <2> HIDE DEF w
  <2>2. \A i \in f + 1 .. f + k : i \in 1 .. 32 /\ offset + i <= len
    OBVIOUS
  <2> QED
    BY <2>1, <2>2
<1> HIDE DEF w
<1>4. \A i \in f + 1 .. f + k : w[i] \in Byte
  BY <1>2, <1>3
<1>5. \A i \in (offset + f) + 1 .. (offset + f) + k : b[i] \in Byte
  BY <1>2
<1>6. /\ Slice(w, f, k) \in Seq(Byte)
      /\ Len(Slice(w, f, k)) = k
      /\ \A i \in 1 .. k : Slice(w, f, k)[i] = w[f + i]
  BY <1>4, SubSeqProperties DEF Slice
<1>7. /\ Slice(b, offset + f, k) \in Seq(Byte)
      /\ Len(Slice(b, offset + f, k)) = k
      /\ \A i \in 1 .. k : Slice(b, offset + f, k)[i] = b[(offset + f) + i]
  BY <1>5, SubSeqProperties DEF Slice
<1>8. \A i \in 1 .. k : w[f + i] = b[(offset + f) + i]
  BY <1>3
<1>9. \A i \in 1 .. k : Slice(w, f, k)[i] = Slice(b, offset + f, k)[i]
  BY <1>6, <1>7, <1>8
<1> QED
  BY <1>6, <1>7, <1>9, SeqEqual DEF w

LEMMA WholeWord ==
  ASSUME NEW len \in Nat, NEW b \in Run(Byte, len), NEW offset \in Nat, offset + 32 <= len
  PROVE  WordAt(b, offset) = Slice(b, offset, 32)
<1>1. b \in Seq(Byte) /\ Len(b) = len
  BY DEF Run
<1>2. \A i \in 1 .. 32 : offset + i <= len /\ b[offset + i] \in Byte
  BY <1>1, ElementOfSeq
<1>3. WordAt(b, offset) = [i \in 1 .. 32 |-> b[offset + i]]
  BY <1>1, <1>2 DEF WordAt
<1>4. WordAt(b, offset) \in Run(Byte, 32)
  <2>1. WordAt(b, offset) \in Bytes(32)
    BY <1>2, <1>3 DEF Bytes
  <2> QED
    BY <2>1, BytesRun
<1>5. /\ Slice(b, offset, 32) \in Seq(Byte)
      /\ Len(Slice(b, offset, 32)) = 32
      /\ \A i \in 1 .. 32 : Slice(b, offset, 32)[i] = b[offset + i]
  <2>1. \A i \in offset + 1 .. offset + 32 : b[i] \in Byte
    BY <1>1, ElementOfSeq
  <2> QED
    BY <2>1, SubSeqProperties DEF Slice
<1>6. \A i \in 1 .. 32 : WordAt(b, offset)[i] = Slice(b, offset, 32)[i]
  BY <1>3, <1>5
<1> QED
  BY <1>4, <1>5, <1>6, SeqEqual DEF Run

\* The fields of b, slices of it, with what is left as calldata.
FieldsOf(b) ==
  [ok |-> TRUE, version |-> Slice(b, 0, 1), msgType |-> Slice(b, 1, 1),
   srcChainId |-> Slice(b, 2, 2), dstChainId |-> Slice(b, 4, 2),
   sender |-> Slice(b, 6, 32), nonce |-> Slice(b, 38, 8),
   target |-> Slice(b, 46, 20), value |-> Slice(b, 66, 16),
   gasLimit |-> Slice(b, 82, 8), expiry |-> Slice(b, 90, 8),
   mode |-> Slice(b, 98, 1), callData |-> SubSeq(b, 104, Len(b))]

\* What the decoder makes of bytes that are long enough: their fields, if the
\* length they name is right.
LEMMA Fields ==
  ASSUME NEW len \in Nat, len >= 103, NEW b \in Run(Byte, len)
  PROVE  TryDecode(b) =
           IF Slice(b, 99, 4) # U32(len - 103) THEN Malformed ELSE FieldsOf(b)
<1> DEFINE
  w0 == WordAt(b, 0)
  w38 == WordAt(b, 38)
  w66 == WordAt(b, 66)
  w98 == WordAt(b, 98)
<1>5. /\ Field(w0, 248, 8) = Slice(b, 0, 1)
      /\ Field(w0, 240, 8) = Slice(b, 1, 1)
      /\ Field(w0, 224, 16) = Slice(b, 2, 2)
      /\ Field(w0, 208, 16) = Slice(b, 4, 2)
  <2>1. Slice(w0, 0, 1) = Slice(b, 0, 1)
    BY WordField
  <2>2. Slice(w0, 1, 1) = Slice(b, 1, 1)
    BY WordField
  <2>3. Slice(w0, 2, 2) = Slice(b, 2, 2)
    BY WordField
  <2>4. Slice(w0, 4, 2) = Slice(b, 4, 2)
    BY WordField
  <2> HIDE DEF w0
  <2>5. /\ Field(w0, 248, 8) = Slice(w0, 0, 1)
        /\ Field(w0, 240, 8) = Slice(w0, 1, 1)
        /\ Field(w0, 224, 16) = Slice(w0, 2, 2)
        /\ Field(w0, 208, 16) = Slice(w0, 4, 2)
    BY DEF Field
  <2> QED
    BY <2>1, <2>2, <2>3, <2>4, <2>5
<1>6. /\ Field(w38, 192, 64) = Slice(b, 38, 8)
      /\ Field(w38, 32, 160) = Slice(b, 46, 20)
  <2>1. Slice(w38, 0, 8) = Slice(b, 38, 8)
    BY WordField
  <2>2. Slice(w38, 8, 20) = Slice(b, 46, 20)
    BY WordField
  <2> HIDE DEF w38
  <2>3. /\ Field(w38, 192, 64) = Slice(w38, 0, 8)
        /\ Field(w38, 32, 160) = Slice(w38, 8, 20)
    BY DEF Field
  <2> QED
    BY <2>1, <2>2, <2>3
<1>7. /\ Field(w66, 128, 128) = Slice(b, 66, 16)
      /\ Field(w66, 64, 64) = Slice(b, 82, 8)
      /\ Field(w66, 0, 64) = Slice(b, 90, 8)
  <2>1. Slice(w66, 0, 16) = Slice(b, 66, 16)
    BY WordField
  <2>2. Slice(w66, 16, 8) = Slice(b, 82, 8)
    BY WordField
  <2>3. Slice(w66, 24, 8) = Slice(b, 90, 8)
    BY WordField
  <2> HIDE DEF w66
  <2>4. /\ Field(w66, 128, 128) = Slice(w66, 0, 16)
        /\ Field(w66, 64, 64) = Slice(w66, 16, 8)
        /\ Field(w66, 0, 64) = Slice(w66, 24, 8)
    BY DEF Field
  <2> QED
    BY <2>1, <2>2, <2>3, <2>4
<1>8. /\ Field(w98, 248, 8) = Slice(b, 98, 1)
      /\ Field(w98, 216, 32) = Slice(b, 99, 4)
  <2>1. Slice(w98, 0, 1) = Slice(b, 98, 1)
    BY WordField
  <2>2. Slice(w98, 1, 4) = Slice(b, 99, 4)
    BY WordField
  <2> HIDE DEF w98
  <2>3. /\ Field(w98, 248, 8) = Slice(w98, 0, 1)
        /\ Field(w98, 216, 32) = Slice(w98, 1, 4)
    BY DEF Field
  <2> QED
    BY <2>1, <2>2, <2>3
<1>9. WordAt(b, 6) = Slice(b, 6, 32)
  BY WholeWord
<1>1. Len(b) = len /\ ~(Len(b) < 103)
  BY DEF Run
<1>2. TryDecode(b) =
        IF Len(b) < 103 \/ Field(w98, 216, 32) # U32(Len(b) - 103)
        THEN Malformed
        ELSE [ok |-> TRUE, version |-> Field(w0, 248, 8), msgType |-> Field(w0, 240, 8),
              srcChainId |-> Field(w0, 224, 16), dstChainId |-> Field(w0, 208, 16),
              sender |-> WordAt(b, 6),
              nonce |-> Field(w38, 192, 64), target |-> Field(w38, 32, 160),
              value |-> Field(w66, 128, 128), gasLimit |-> Field(w66, 64, 64),
              expiry |-> Field(w66, 0, 64), mode |-> Field(w98, 248, 8),
              callData |-> SubSeq(b, 103 + 1, Len(b))]
  BY Zenon DEF TryDecode, HEADER_SIZE
<1> HIDE DEF w0, w38, w66, w98
<1>3. 103 + 1 = 104
  OBVIOUS
<1>4. Len(b) < 103 \/ Field(w98, 216, 32) # U32(Len(b) - 103) <=> Slice(b, 99, 4) # U32(len - 103)
  BY <1>1, <1>8, Zenon
<1> QED
  BY <1>2, <1>3, <1>4, <1>5, <1>6, <1>7, <1>8, <1>9, Zenon DEF FieldsOf

\* A header and a trailer whose length is right.
LEMMA Decoding ==
  ASSUME NEW k \in Nat, NEW h \in Run(Byte, 90), NEW r \in Run(Byte, 13 + k),
         NEW calldata \in Run(Byte, k), Slice(r, 9, 4) = U32(k),
         k # 0 => Slice(r, 13, k) = calldata
  PROVE  TryDecode(Cat(h, r)) =
           [ok |-> TRUE, version |-> Slice(h, 0, 1), msgType |-> Slice(h, 1, 1),
            srcChainId |-> Slice(h, 2, 2), dstChainId |-> Slice(h, 4, 2),
            sender |-> Slice(h, 6, 32), nonce |-> Slice(h, 38, 8),
            target |-> Slice(h, 46, 20), value |-> Slice(h, 66, 16),
            gasLimit |-> Slice(h, 82, 8), expiry |-> Slice(r, 0, 8),
            mode |-> Slice(r, 8, 1), callData |-> calldata]
<1> DEFINE
  b == Cat(h, r)
  len == 103 + k
<1>1. b \in Run(Byte, 90 + (13 + k)) /\ 90 + (13 + k) = 103 + k
  BY Joint
<1>2. b \in Run(Byte, 103 + k) /\ Len(b) = 103 + k
  BY <1>1 DEF Run
<1>3. /\ Slice(b, 0, 1) = Slice(h, 0, 1) /\ Slice(b, 1, 1) = Slice(h, 1, 1)
      /\ Slice(b, 2, 2) = Slice(h, 2, 2) /\ Slice(b, 4, 2) = Slice(h, 4, 2)
      /\ Slice(b, 6, 32) = Slice(h, 6, 32) /\ Slice(b, 38, 8) = Slice(h, 38, 8)
      /\ Slice(b, 46, 20) = Slice(h, 46, 20) /\ Slice(b, 66, 16) = Slice(h, 66, 16)
      /\ Slice(b, 82, 8) = Slice(h, 82, 8)
  BY Before
<1>4. /\ Slice(b, 90, 8) = Slice(r, 0, 8) /\ Slice(b, 98, 1) = Slice(r, 8, 1)
      /\ Slice(b, 99, 4) = Slice(r, 9, 4)
      /\ k # 0 => Slice(b, 103, k) = Slice(r, 13, k)
  BY Behind
<1> HIDE DEF b
<1>5. len \in Nat /\ len >= 103 /\ len - 103 = k /\ b \in Run(Byte, len) /\ Len(b) = len
  BY <1>2
<1>6. SubSeq(b, 104, Len(b)) = calldata
  <2>1. CASE k = 0
    <3>1. Len(calldata) = 0 /\ calldata \in Seq(Byte)
      BY <2>1 DEF Run
    <3>2. calldata = <<>>
      BY <3>1, EmptySeq
    <3>3. SubSeq(b, 104, Len(b)) = <<>>
      BY <1>2, <2>1, SubSeqEmpty
    <3> QED
      BY <3>2, <3>3
  <2>2. CASE k # 0
    <3>1. 103 + 1 = 104
      OBVIOUS
    <3>2. SubSeq(b, 103 + 1, 103 + k) = calldata
      BY <1>4, <2>2, Zenon DEF Slice
    <3> QED
      BY <1>2, <3>1, <3>2, Zenon
  <2> QED
    BY <2>1, <2>2
<1> HIDE DEF len
<1>7. TryDecode(b) = FieldsOf(b)
  <2>1. Slice(b, 99, 4) = U32(len - 103)
    BY <1>4, <1>5
  <2> QED
    BY <1>5, <2>1, Fields, Zenon
<1>8. FieldsOf(b) =
        [ok |-> TRUE, version |-> Slice(h, 0, 1), msgType |-> Slice(h, 1, 1),
         srcChainId |-> Slice(h, 2, 2), dstChainId |-> Slice(h, 4, 2),
         sender |-> Slice(h, 6, 32), nonce |-> Slice(h, 38, 8),
         target |-> Slice(h, 46, 20), value |-> Slice(h, 66, 16),
         gasLimit |-> Slice(h, 82, 8), expiry |-> Slice(r, 0, 8),
         mode |-> Slice(r, 8, 1), callData |-> calldata]
  BY <1>3, <1>4, <1>6, Zenon DEF FieldsOf
<1> QED
  BY <1>7, <1>8 DEF b

(***************************************************************************)
(* One encoding.                                                           *)
(***************************************************************************)
\* The bytes behind a slice.
LEMMA SameSlice ==
  ASSUME NEW len \in Nat, NEW b \in Run(Byte, len), NEW c \in Run(Byte, len),
         NEW f \in Nat, NEW k \in Nat \ {0}, f + k <= len, Slice(b, f, k) = Slice(c, f, k)
  PROVE  \A i \in Nat : f < i /\ i <= f + k => b[i] = c[i]
<1>1. \A i \in f + 1 .. f + k : b[i] \in Byte /\ c[i] \in Byte
  BY ElementOfSeq DEF Run
<1>2. \A i \in 1 .. k : Slice(b, f, k)[i] = b[f + i]
  BY <1>1, SubSeqProperties DEF Slice
<1>3. \A i \in 1 .. k : Slice(c, f, k)[i] = c[f + i]
  BY <1>1, SubSeqProperties DEF Slice
<1>4. \A i \in 1 .. k : b[f + i] = c[f + i]
  BY <1>2, <1>3
<1>5. ASSUME NEW i \in Nat, f < i, i <= f + k PROVE i - f \in 1 .. k /\ f + (i - f) = i
  BY <1>5
<1> QED
  BY <1>4, <1>5

\* What decodes is long enough, and is its fields.
LEMMA Decodes ==
  ASSUME NEW b \in Seq(Byte), TryDecode(b).ok
  PROVE  /\ Len(b) >= 103 /\ b \in Run(Byte, Len(b))
         /\ Slice(b, 99, 4) = U32(Len(b) - 103)
         /\ TryDecode(b) = FieldsOf(b)
<1>1. ~Malformed.ok
  BY DEF Malformed
<1>2. Len(b) \in Nat /\ b \in Run(Byte, Len(b))
  BY DEF Run
<1>3. ~(Len(b) < 103)
  <2>1. Len(b) < HEADER_SIZE => TryDecode(b) = Malformed
    BY Zenon DEF TryDecode
  <2> QED
    BY <1>1, <2>1 DEF HEADER_SIZE
<1>4. Len(b) >= 103
  BY <1>2, <1>3
<1> QED
  BY <1>1, <1>2, <1>4, Fields, Zenon

\* The decoder reads no two byte strings alike: an envelope has one encoding,
\* so no one can bring the same request under a second hash (tryDecode, the
\* equality it asks of the length; deliver, keccak256).
THEOREM OneEncoding ==
  \A b, c \in Seq(Byte) : TryDecode(b).ok /\ TryDecode(b) = TryDecode(c) => b = c
<1> SUFFICES ASSUME NEW b \in Seq(Byte), NEW c \in Seq(Byte),
                    TryDecode(b).ok, TryDecode(b) = TryDecode(c)
             PROVE  b = c
  OBVIOUS
<1> DEFINE len == Len(b)
<1>1. TryDecode(c).ok
  BY Zenon
<1>2. /\ len \in Nat /\ len >= 103 /\ b \in Run(Byte, len)
      /\ Slice(b, 99, 4) = U32(len - 103)
  BY Decodes
<1>3. /\ Len(c) \in Nat /\ Len(c) >= 103 /\ c \in Run(Byte, Len(c))
      /\ Slice(c, 99, 4) = U32(Len(c) - 103)
  BY <1>1, Decodes
<1>4. FieldsOf(b) = FieldsOf(c)
  BY <1>1, Decodes, Zenon
<1>5. /\ Slice(b, 0, 1) = Slice(c, 0, 1) /\ Slice(b, 1, 1) = Slice(c, 1, 1)
      /\ Slice(b, 2, 2) = Slice(c, 2, 2) /\ Slice(b, 4, 2) = Slice(c, 4, 2)
      /\ Slice(b, 6, 32) = Slice(c, 6, 32) /\ Slice(b, 38, 8) = Slice(c, 38, 8)
      /\ Slice(b, 46, 20) = Slice(c, 46, 20) /\ Slice(b, 66, 16) = Slice(c, 66, 16)
      /\ Slice(b, 82, 8) = Slice(c, 82, 8) /\ Slice(b, 90, 8) = Slice(c, 90, 8)
      /\ Slice(b, 98, 1) = Slice(c, 98, 1)
      /\ SubSeq(b, 104, Len(b)) = SubSeq(c, 104, Len(c))
  <2> DEFINE x == FieldsOf(b)
             y == FieldsOf(c)
  <2>1. /\ x.version = y.version /\ x.msgType = y.msgType /\ x.srcChainId = y.srcChainId
        /\ x.dstChainId = y.dstChainId /\ x.sender = y.sender /\ x.nonce = y.nonce
        /\ x.target = y.target /\ x.value = y.value /\ x.gasLimit = y.gasLimit
        /\ x.expiry = y.expiry /\ x.mode = y.mode /\ x.callData = y.callData
    BY <1>4, Zenon
  <2> QED
    BY <2>1, Zenon DEF FieldsOf
\* The calldata behind the header tells the length.
<1>6. ASSUME NEW e \in Seq(Byte), Len(e) >= 103
      PROVE  /\ Len(SubSeq(e, 104, Len(e))) = Len(e) - 103
             /\ \A i \in 1 .. Len(e) - 103 : SubSeq(e, 104, Len(e))[i] = e[103 + i]
  <2> DEFINE n == Len(e)
             t == SubSeq(e, 104, n)
  <2>1. n \in Int /\ n >= 103 /\ \A i \in 104 .. n : e[i] \in Byte
    BY <1>6, ElementOfSeq
  <2>2. /\ Len(t) = IF 104 <= n THEN n - 104 + 1 ELSE 0
        /\ \A i \in 1 .. n - 104 + 1 : t[i] = e[104 + i - 1]
    BY <2>1, SubSeqProperties
  <2> HIDE DEF n, t
  <2>3. Len(t) = n - 103 /\ \A i \in 1 .. n - 103 : t[i] = e[103 + i]
    BY <2>1, <2>2
  <2> QED
    BY <2>3 DEF n, t
<1>7. Len(c) = len
  <2>1. Len(SubSeq(b, 104, Len(b))) = len - 103
    BY <1>2, <1>6
  <2>2. Len(SubSeq(c, 104, Len(c))) = Len(c) - 103
    BY <1>3, <1>6
  <2> QED
    BY <1>2, <1>3, <1>5, <2>1, <2>2
<1>8. \A i \in 104 .. len : b[i] = c[i]
  <2>1. \A i \in 1 .. len - 103 : SubSeq(b, 104, Len(b))[i] = b[103 + i]
    BY <1>2, <1>6
  <2>2. \A i \in 1 .. len - 103 : SubSeq(c, 104, Len(c))[i] = c[103 + i]
    BY <1>3, <1>6, <1>7
  <2>3. \A i \in 1 .. len - 103 : b[103 + i] = c[103 + i]
    BY <1>5, <2>1, <2>2, Zenon
  <2>4. ASSUME NEW i \in 104 .. len PROVE i - 103 \in 1 .. len - 103 /\ 103 + (i - 103) = i
    BY <1>2
  <2> QED
    BY <2>3, <2>4
<1>9. c \in Run(Byte, len)
  BY <1>3, <1>7
<1> HIDE DEF len
<1> DEFINE Within(f, k) == f \in Nat /\ k \in Nat \ {0} /\ f + k <= len
           Same(f, k) == \A i \in Nat : f < i /\ i <= f + k => b[i] = c[i]
<1>10. ASSUME NEW f, NEW k, Within(f, k), Slice(b, f, k) = Slice(c, f, k)
       PROVE  Same(f, k)
  BY <1>2, <1>9, <1>10, SameSlice
<1>11. /\ Within(0, 1) /\ Within(1, 1) /\ Within(2, 2) /\ Within(4, 2)
       /\ Within(6, 32) /\ Within(38, 8) /\ Within(46, 20) /\ Within(66, 16)
       /\ Within(82, 8) /\ Within(90, 8) /\ Within(98, 1) /\ Within(99, 4)
  BY <1>2
<1>12. Slice(b, 99, 4) = Slice(c, 99, 4)
  BY <1>2, <1>3, <1>7, Zenon
<1> HIDE DEF Within, Same
<1>13. /\ Same(0, 1) /\ Same(1, 1) /\ Same(2, 2) /\ Same(4, 2)
       /\ Same(6, 32) /\ Same(38, 8) /\ Same(46, 20) /\ Same(66, 16)
       /\ Same(82, 8) /\ Same(90, 8) /\ Same(98, 1) /\ Same(99, 4)
  BY <1>5, <1>10, <1>11, <1>12, Zenon
<1>14. \A i \in 1 .. len : b[i] = c[i]
  BY <1>2, <1>8, <1>13 DEF Same
<1> QED
  BY <1>7, <1>14, SeqEqual DEF len

\* What a sender asked for, as the destination is to read it.
AsRead(e) ==
  [ok |-> TRUE, version |-> <<1>>, msgType |-> <<0>>, srcChainId |-> <<0, 1>>,
   dstChainId |-> U16(Params[e.call].dst_chain_id),
   sender |-> Key[e.sender], nonce |-> U64(e.nonce),
   target |-> Body[e.call].target, value |-> Body[e.call].value,
   gasLimit |-> U64(Params[e.call].gas_limit), expiry |-> U64(e.expiry),
   mode |-> <<Params[e.call].mode>>, callData |-> Body[e.call].calldata]

\* The Solidity decoder reads each field of every envelope as the Rust encoder
\* wrote it, for calldata of any length, the empty one included, and whatever
\* lies behind the envelope (encode, tryDecode).
THEOREM RoundTrip == \A e \in Envelope : TryDecode(EnvelopeBytes(e)) = AsRead(e)
<1> SUFFICES ASSUME NEW e \in Envelope PROVE TryDecode(EnvelopeBytes(e)) = AsRead(e)
  OBVIOUS
<1> DEFINE
  k == Params[e.call].size
  h == HeaderOf(e)
  r == TrailerOf(e)
  p == ParamsOf(e)
<1>1. /\ k \in Nat /\ p.calldata \in Run(Byte, k)
      /\ h \in Run(Byte, 90) /\ r \in Run(Byte, 13 + k)
      /\ Slice(r, 9, 4) = U32(k)
      /\ k # 0 => Slice(r, 13, k) = p.calldata
  BY FieldRuns, HeaderFields, TrailerFields, Zenon
<1>2. EnvelopeBytes(e) = Cat(h, r)
  BY Shape
<1>3. /\ Slice(h, 0, 1) = <<VERSION>> /\ Slice(h, 1, 1) = <<MSG_TYPE_CALL>>
      /\ Slice(h, 2, 2) = U16(SRC_CHAIN_SOLANA)
      /\ Slice(h, 4, 2) = p.dst_chain_id
      /\ Slice(h, 6, 32) = Key[e.sender] /\ Slice(h, 38, 8) = U64(e.nonce)
      /\ Slice(h, 46, 20) = p.target /\ Slice(h, 66, 16) = p.value
      /\ Slice(h, 82, 8) = p.gas_limit
  BY HeaderFields
<1>4. Slice(r, 0, 8) = p.expiry /\ Slice(r, 8, 1) = <<p.mode>>
  BY TrailerFields
<1>5. /\ p.dst_chain_id = U16(Params[e.call].dst_chain_id)
      /\ p.target = Body[e.call].target /\ p.value = Body[e.call].value
      /\ p.gas_limit = U64(Params[e.call].gas_limit) /\ p.expiry = U64(e.expiry)
      /\ p.mode = Params[e.call].mode /\ p.calldata = Body[e.call].calldata
  BY DEF ParamsOf
<1>6. <<VERSION>> = <<1>> /\ <<MSG_TYPE_CALL>> = <<0>> /\ U16(SRC_CHAIN_SOLANA) = <<0, 1>>
  BY DEF VERSION, MSG_TYPE_CALL, SRC_CHAIN_SOLANA, U16
<1> HIDE DEF k, h, r, p
<1>7. TryDecode(Cat(h, r)) =
        [ok |-> TRUE, version |-> Slice(h, 0, 1), msgType |-> Slice(h, 1, 1),
         srcChainId |-> Slice(h, 2, 2), dstChainId |-> Slice(h, 4, 2),
         sender |-> Slice(h, 6, 32), nonce |-> Slice(h, 38, 8),
         target |-> Slice(h, 46, 20), value |-> Slice(h, 66, 16),
         gasLimit |-> Slice(h, 82, 8), expiry |-> Slice(r, 0, 8),
         mode |-> Slice(r, 8, 1), callData |-> p.calldata]
  BY <1>1, Decoding, Zenon
<1>8. /\ Slice(h, 0, 1) = <<1>> /\ Slice(h, 1, 1) = <<0>> /\ Slice(h, 2, 2) = <<0, 1>>
      /\ Slice(h, 4, 2) = U16(Params[e.call].dst_chain_id)
      /\ Slice(h, 46, 20) = Body[e.call].target /\ Slice(h, 66, 16) = Body[e.call].value
      /\ Slice(h, 82, 8) = U64(Params[e.call].gas_limit)
      /\ Slice(r, 0, 8) = U64(e.expiry) /\ Slice(r, 8, 1) = <<Params[e.call].mode>>
  BY <1>3, <1>4, <1>5, <1>6, Zenon
<1> QED
  BY <1>2, <1>3, <1>5, <1>7, <1>8, Zenon DEF AsRead

(***************************************************************************)
(* A message account.                                                      *)
(***************************************************************************)
\* The first 91 bytes of an account, whatever they are: discriminator, two
\* keys, two integers, two masks and a bump.
HeadOf(d, a, p, n, x, m) == Cat(Cat(Cat(Cat(Cat(d, a), p), n), x), m)

LEMMA HeadLayout ==
  ASSUME NEW S,
         NEW d \in Run(S, 8), NEW a \in Run(S, 32), NEW p \in Run(S, 32), NEW n \in Run(S, 8),
         NEW x \in Run(S, 8), NEW m \in Run(S, 3)
  PROVE  /\ HeadOf(d, a, p, n, x, m) \in Run(S, 91)
         /\ Slice(HeadOf(d, a, p, n, x, m), 0, 8) = d
         /\ Slice(HeadOf(d, a, p, n, x, m), 72, 8) = n
<1> DEFINE
  da == Cat(d, a)
  dap == Cat(da, p)
  dapn == Cat(dap, n)
  dapnx == Cat(dapn, x)
  head == Cat(dapnx, m)
<1>1. da \in Run(S, 40) /\ Slice(da, 0, 8) = d
  BY Joint, Before, Whole
<1> HIDE DEF da
<1>2. dap \in Run(S, 72) /\ Slice(dap, 0, 8) = d
  BY <1>1, Joint, Before
<1> HIDE DEF dap
<1>3. dapn \in Run(S, 80) /\ Slice(dapn, 0, 8) = d /\ Slice(dapn, 72, 8) = n
  BY <1>2, Joint, Before, Behind, Whole
<1> HIDE DEF dapn
<1>4. dapnx \in Run(S, 88) /\ Slice(dapnx, 0, 8) = d /\ Slice(dapnx, 72, 8) = n
  BY <1>3, Joint, Before
<1> HIDE DEF dapnx
<1>5. head \in Run(S, 91) /\ Slice(head, 0, 8) = d /\ Slice(head, 72, 8) = n
  BY <1>4, Joint, Before
<1> QED
  BY <1>5 DEF HeadOf, da, dap, dapn, dapnx

\* Behind them, the length and the envelope.
LEMMA TailLayout ==
  ASSUME NEW S, NEW head \in Run(S, 91), NEW l \in Run(S, 4),
         NEW k \in Nat \ {0}, NEW e \in Run(S, k)
  PROVE  LET data == Cat(head, Cat(l, e)) IN
         /\ Len(data) = 95 + k
         /\ Slice(data, 0, 8) = Slice(head, 0, 8)
         /\ Slice(data, 72, 8) = Slice(head, 72, 8)
         /\ Slice(data, 91, 4) = l
         /\ Slice(data, 95, k) = e
<1> DEFINE
  rest == Cat(l, e)
  data == Cat(head, rest)
<1>1. rest \in Run(S, 4 + k) /\ Slice(rest, 0, 4) = l
  BY Joint, Before, Whole
<1>2. Slice(rest, 4, k) = e
  BY Behind, Whole
<1> HIDE DEF rest
<1>3. data \in Run(S, 91 + (4 + k))
  BY <1>1, Joint
<1>4. Len(data) = 95 + k
  BY <1>3 DEF Run
<1>5. Slice(data, 0, 8) = Slice(head, 0, 8) /\ Slice(data, 72, 8) = Slice(head, 72, 8)
  BY <1>1, Before
<1>6. Slice(data, 91, 4) = Slice(rest, 91 - 91, 4)
  BY <1>1, Behind
<1>7. Slice(data, 95, k) = Slice(rest, 95 - 91, k)
  BY <1>1, Behind
<1> QED
  BY <1>1, <1>2, <1>4, <1>5, <1>6, <1>7 DEF rest

\* Whatever the head holds, the two readers find what was put behind it.
LEMMA Read ==
  ASSUME NEW S, Byte \subseteq S,
         NEW a \in Bytes(32), NEW p \in Bytes(32), NEW n \in Bytes(8), NEW x \in Bytes(8),
         NEW m \in Run(S, 3), NEW k \in Nat \ {0}, FitsU32(k), NEW e \in Run(S, k),
         NEW data,
         data = Cat(HeadOf(PREPARED_MESSAGE_ACCOUNT, a, p, LittleEndian(n), LittleEndian(x), m),
                    Cat(LittleEndian(U32(k)), e))
  PROVE  EnvelopeOf(data) = e /\ NonceOf(data) = n
<1> DEFINE
  head == HeadOf(PREPARED_MESSAGE_ACCOUNT, a, p, LittleEndian(n), LittleEndian(x), m)
  l == LittleEndian(U32(k))
<1>1. PREPARED_MESSAGE_ACCOUNT \in Run(S, 8)
  <2>1. PREPARED_MESSAGE_ACCOUNT \in [1 .. 8 -> Byte]
    BY DEF PREPARED_MESSAGE_ACCOUNT, Byte
  <2>2. PREPARED_MESSAGE_ACCOUNT \in Bytes(8)
    BY <2>1 DEF Bytes
  <2> QED
    BY <2>2, BytesRun
<1>2. a \in Run(S, 32) /\ p \in Run(S, 32)
  BY BytesRun
<1>3. LittleEndian(n) \in Run(S, 8) /\ LittleEndian(x) \in Run(S, 8)
  BY Reversal, BytesRun
<1>4. U32(k) \in Bytes(4)
  BY FourBytes
<1>5. l \in Run(S, 4)
  BY <1>4, Reversal, BytesRun
<1>6. /\ head \in Run(S, 91)
      /\ Slice(head, 0, 8) = PREPARED_MESSAGE_ACCOUNT
      /\ Slice(head, 72, 8) = LittleEndian(n)
  BY <1>1, <1>2, <1>3, HeadLayout
<1>7. data = Cat(head, Cat(l, e))
  OBVIOUS
<1> HIDE DEF head, l
<1>8. /\ Len(data) = 95 + k
      /\ Slice(data, 0, 8) = PREPARED_MESSAGE_ACCOUNT
      /\ Slice(data, 72, 8) = LittleEndian(n)
      /\ Slice(data, 91, 4) = l
      /\ Slice(data, 95, k) = e
  BY <1>5, <1>6, <1>7, TailLayout
<1>9. LittleEndian(LittleEndian(n)) = n
  BY Reversal
<1>10. LittleEndian(l) = U32(k)
  BY <1>4, Reversal DEF l
<1>11. Number(U32(k)) = k
  BY NumberOfU32
<1>12. NonceOf(data) = n
  BY <1>8, <1>9 DEF NonceOf, NONCE
<1>13. Number(LittleEndian(Slice(data, 91, 4))) = k
  BY <1>8, <1>10, <1>11, Zenon
<1>14. EnvelopeOf(data) = Slice(data, 95, k)
  <2>1. ~(Len(data) < 95) /\ ~(95 + k > Len(data))
    BY <1>8
  <2> QED
    BY <1>8, <1>13, <2>1, Zenon DEF EnvelopeOf, ENVELOPE, ENVELOPE_LEN
<1> QED
  BY <1>8, <1>12, <1>14

LEMMA Readability == OInv /\ LzInv => EveryAccountReadable
<1> SUFFICES ASSUME OInv, LzInv, NEW a \in Authority, NEW n \in Nonce, Exists(a, n)
             PROVE  LET data == MessageAccount(a, n).data IN
                    /\ EnvelopeOf(data) = EnvelopeBytes(message[a][n].envelope)
                    /\ NonceOf(data) = U64(n)
  BY DEF EveryAccountReadable
<1> DEFINE
  m == message[a][n]
  e == EnvelopeBytes(m.envelope)
  k == 103 + Params[m.envelope.call].size
  data == MessageAccount(a, n).data
  masks == <<Mask(m.expected), Mask(m.dispatched), 255>>
  S == Byte \cup {Mask(m.expected), Mask(m.dispatched)}
<1>1. m \in PreparedMessage
  BY DEF OInv, TypeOK, Exists
<1>2. m.envelope \in Envelope /\ m.expiry \in Nat /\ n \in Nat
  BY <1>1 DEF PreparedMessage, Nonce
<1>3. Entry(m) \in prepared
  BY DEF OInv, AccountsTrue
<1>4. Params[m.envelope.call].size <= MAX_CALLDATA
  BY <1>3 DEF LzInv, ShortCalls, Entry
<1>5. Params[m.envelope.call].size \in Nat
  BY <1>2, OutboxAssumption DEF Envelope, SendParams
<1>6. k \in Nat \ {0} /\ FitsU32(k)
  BY <1>4, <1>5 DEF MAX_CALLDATA, FitsU32
<1>7. e \in Run(Byte, k)
  BY <1>2, EnvelopeRun
<1>8. data = AccountData(Key[a], Payer, U64(n), U64(m.expiry), m.expected, m.dispatched, 255, e)
  BY DEF MessageAccount
<1> HIDE DEF m, e, k, data
<1>9. Byte \subseteq S /\ masks \in Run(S, 3)
  <2>1. 255 \in Byte
    BY DEF Byte
  <2> DEFINE u == Mask(m.expected)
             v == Mask(m.dispatched)
  <2> HIDE DEF u, v
  <2>2. <<u, v, 255>> \in Run(Byte \cup {u, v}, 3)
    BY <2>1 DEF Run
  <2> QED
    BY <2>2 DEF u, v
<1>10. e \in Run(S, k) /\ Len(e) = k
  BY <1>7, <1>9, SeqMonotonic DEF Run
<1>11. data = Cat(HeadOf(PREPARED_MESSAGE_ACCOUNT, Key[a], Payer, LittleEndian(U64(n)),
                         LittleEndian(U64(m.expiry)), masks),
                  Cat(LittleEndian(U32(k)), e))
  BY <1>8, <1>10, Zenon DEF AccountData, HeadOf, Cat
<1>12. /\ Key[a] \in Bytes(32) /\ Payer \in Bytes(32)
       /\ U64(n) \in Bytes(8) /\ U64(m.expiry) \in Bytes(8)
  BY <1>2, EightBytes, DispatcherAssumption
<1> HIDE DEF masks, S
<1>13. EnvelopeOf(data) = e /\ NonceOf(data) = U64(n)
  <2> DEFINE
    key == Key[a]
    nn == U64(n)
    xx == U64(m.expiry)
  <2>1. key \in Bytes(32) /\ nn \in Bytes(8) /\ xx \in Bytes(8) /\ Payer \in Bytes(32)
    BY <1>12
  <2>2. data = Cat(HeadOf(PREPARED_MESSAGE_ACCOUNT, key, Payer, LittleEndian(nn),
                          LittleEndian(xx), masks),
                   Cat(LittleEndian(U32(k)), e))
    BY <1>11
  <2> HIDE DEF key, nn, xx
  <2>3. EnvelopeOf(data) = e /\ NonceOf(data) = nn
    BY <1>6, <1>9, <1>10, <2>1, <2>2, Read
  <2> QED
    BY <2>3 DEF nn
<1> QED
  BY <1>13 DEF data, e, m

\* Whatever a sender asks for, and however long its call, the dispatcher can
\* read the account: it finds the very bytes of the envelope and the nonce
\* (envelope_of, nonce_of).
THEOREM AccountsReadable == LzSpec => []EveryAccountReadable
BY Readability, LzInvariance, DispatcherRefinesOutbox, Invariance, PTL

(***************************************************************************)
(* The packets.                                                            *)
(***************************************************************************)
\* The gas an envelope asks for is a number.
LEMMA FieldsTyped ==
  ASSUME NEW e \in Envelope
  PROVE  Params[e.call].gas_limit \in Nat
BY OutboxAssumption DEF Envelope, SendParams

LEMMA Appended ==
  ASSUME NEW s \in Seq(Nat), NEW t \in Seq(Nat), NEW u \in Seq(Nat),
         Len(u) = Len(s) + Len(t),
         \A i \in 1 .. Len(s) : u[i] = s[i],
         \A i \in 1 .. Len(t) : u[Len(s) + i] = t[i]
  PROVE  s \o t = u
<1>1. /\ s \o t \in Seq(Nat) /\ Len(s \o t) = Len(s) + Len(t)
      /\ \A i \in 1 .. Len(s) + Len(t) :
           (s \o t)[i] = IF i <= Len(s) THEN s[i] ELSE t[i - Len(s)]
  BY ConcatProperties
<1> DEFINE c == s \o t
<1>2. ASSUME NEW i \in 1 .. Len(u) PROVE c[i] = u[i]
  <2>1. Len(s) \in Nat /\ Len(t) \in Nat
    OBVIOUS
  <2>2. CASE i <= Len(s)
    BY <1>1, <2>1, <2>2
  <2>3. CASE ~(i <= Len(s))
    <3>1. i - Len(s) \in 1 .. Len(t) /\ Len(s) + (i - Len(s)) = i
      BY <2>1, <2>3
    <3> QED
      BY <1>1, <2>3, <3>1
  <2> QED
    BY <2>2, <2>3
<1> HIDE DEF c
<1>3. c \in Seq(Nat) /\ Len(c) = Len(u)
  BY <1>1 DEF c
<1>4. c = u
  BY <1>2, <1>3, SeqEqual
<1> QED
  BY <1>4 DEF c

\* The options the executor is given say the gas it was asked for.
LEMMA Options ==
  ASSUME NEW gas \in Bytes(8)
  PROVE  /\ ExecutorLzReceive(gas) \in Seq(Byte)
         /\ PaidGas(ExecutorLzReceive(gas)) = Zeros(8) \o gas
<1> DEFINE
  head == U16(TYPE_3) \o <<WORKER_EXECUTOR>> \o U16(1 + 16) \o <<OPTION_LZRECEIVE>>
  pay == Cat(Zeros(8), gas)
  opt == Cat(head, pay)
<1>1. head = <<0, 3, 1, 0, 17, 1>>
  <2>1. U16(TYPE_3) = <<0, 3>> /\ <<WORKER_EXECUTOR>> = <<1>> /\ <<OPTION_LZRECEIVE>> = <<1>>
    BY DEF U16, TYPE_3, WORKER_EXECUTOR, OPTION_LZRECEIVE
  <2>2. U16(1 + 16) = <<0, 17>>
    BY DEF U16
  <2>3. head = <<0, 3>> \o <<1>> \o <<0, 17>> \o <<1>>
    BY <2>1, <2>2, Zenon
  <2>4. <<0, 3>> \o <<1>> = <<0, 3, 1>>
    <3> DEFINE s == <<0, 3>>
               t == <<1>>
               u == <<0, 3, 1>>
    <3>1. s \in Seq(Nat) /\ t \in Seq(Nat) /\ u \in Seq(Nat)
      OBVIOUS
    <3>2. Len(s) = 2 /\ Len(t) = 1 /\ Len(u) = 3
      OBVIOUS
    <3>3. /\ u[1] = s[1] /\ u[2] = s[2]
          /\ u[3] = t[1]
      OBVIOUS
    <3> HIDE DEF s, t, u
    <3>4. /\ Len(u) = Len(s) + Len(t)
          /\ \A i \in 1 .. Len(s) : u[i] = s[i]
          /\ \A i \in 1 .. Len(t) : u[Len(s) + i] = t[i]
      BY <3>2, <3>3
    <3>5. s \o t = u
      BY <3>1, <3>4, Appended
    <3> QED
      BY <3>5 DEF s, t, u
  <2>5. <<0, 3, 1>> \o <<0, 17>> = <<0, 3, 1, 0, 17>>
    <3> DEFINE s == <<0, 3, 1>>
               t == <<0, 17>>
               u == <<0, 3, 1, 0, 17>>
    <3>1. s \in Seq(Nat) /\ t \in Seq(Nat) /\ u \in Seq(Nat)
      OBVIOUS
    <3>2. Len(s) = 3 /\ Len(t) = 2 /\ Len(u) = 5
      OBVIOUS
    <3>3. /\ u[1] = s[1] /\ u[2] = s[2] /\ u[3] = s[3]
          /\ u[4] = t[1] /\ u[5] = t[2]
      OBVIOUS
    <3> HIDE DEF s, t, u
    <3>4. /\ Len(u) = Len(s) + Len(t)
          /\ \A i \in 1 .. Len(s) : u[i] = s[i]
          /\ \A i \in 1 .. Len(t) : u[Len(s) + i] = t[i]
      BY <3>2, <3>3
    <3>5. s \o t = u
      BY <3>1, <3>4, Appended
    <3> QED
      BY <3>5 DEF s, t, u
  <2>6. <<0, 3, 1, 0, 17>> \o <<1>> = <<0, 3, 1, 0, 17, 1>>
    <3> DEFINE s == <<0, 3, 1, 0, 17>>
               t == <<1>>
               u == <<0, 3, 1, 0, 17, 1>>
    <3>1. s \in Seq(Nat) /\ t \in Seq(Nat) /\ u \in Seq(Nat)
      OBVIOUS
    <3>2. Len(s) = 5 /\ Len(t) = 1 /\ Len(u) = 6
      OBVIOUS
    <3>3. /\ u[1] = s[1] /\ u[2] = s[2] /\ u[3] = s[3] /\ u[4] = s[4] /\ u[5] = s[5]
          /\ u[6] = t[1]
      OBVIOUS
    <3> HIDE DEF s, t, u
    <3>4. /\ Len(u) = Len(s) + Len(t)
          /\ \A i \in 1 .. Len(s) : u[i] = s[i]
          /\ \A i \in 1 .. Len(t) : u[Len(s) + i] = t[i]
      BY <3>2, <3>3
    <3>5. s \o t = u
      BY <3>1, <3>4, Appended
    <3> QED
      BY <3>5 DEF s, t, u
  <2> QED
    BY <2>3, <2>4, <2>5, <2>6, Zenon
<1>2. head \in Run(Byte, 6)
  <2> HIDE DEF head
  <2>1. <<0, 3, 1, 0, 17, 1>> \in Seq(Byte) /\ Len(<<0, 3, 1, 0, 17, 1>>) = 6
    BY DEF Byte
  <2> QED
    BY <1>1, <2>1, Zenon DEF Run
<1>3. Zeros(8) \in Run(Byte, 8) /\ gas \in Run(Byte, 8)
  <2>1. Zeros(8) \in Bytes(8)
    BY DEF Zeros, Bytes, Byte
  <2> QED
    BY <2>1, BytesRun
<1>4. pay \in Run(Byte, 16)
  BY <1>3, Joint
<1>5. ExecutorLzReceive(gas) = opt
  BY Zenon DEF ExecutorLzReceive, Cat
<1>6. pay = Zeros(8) \o gas
  BY DEF Cat
<1> HIDE DEF head, pay
<1>7. opt \in Run(Byte, 22)
  BY <1>2, <1>4, Joint
<1>8. Slice(opt, 0, 6) = head
  <2>1. Slice(opt, 0, 6) = Slice(head, 0, 6)
    BY <1>2, <1>4, Before
  <2> QED
    BY <1>2, <2>1, Whole
<1>9. Slice(opt, 6, 16) = pay
  <2>1. Slice(opt, 6, 16) = Slice(pay, 0, 16)
    BY <1>2, <1>4, Behind
  <2> QED
    BY <1>4, <2>1, Whole
<1> HIDE DEF opt
<1>10. opt \in Seq(Byte) /\ Len(opt) = 22
  BY <1>7 DEF Run
<1>11. PaidGas(opt) = pay
  BY <1>1, <1>8, <1>9, <1>10, Zenon DEF PaidGas
<1> QED
  BY <1>5, <1>6, <1>10, <1>11

\* The gas limit the dispatcher finds in an envelope is the one asked for.
LEMMA GasLimitRead ==
  ASSUME NEW e \in Envelope
  PROVE  EnvelopeGasLimit(EnvelopeBytes(e)) = U64(Params[e.call].gas_limit)
<1> DEFINE
  k == Params[e.call].size
  h == HeaderOf(e)
  r == TrailerOf(e)
  gas == U64(Params[e.call].gas_limit)
<1>1. h \in Run(Byte, 90) /\ r \in Run(Byte, 13 + k) /\ k \in Nat
  BY FieldRuns, HeaderFields, TrailerFields, Zenon
<1>2. ParamsOf(e).gas_limit = gas
  BY DEF ParamsOf
<1>3. Slice(h, 82, 8) = gas
  BY <1>2, HeaderFields, Zenon
<1> HIDE DEF h, r, k, gas
<1>4. Slice(Cat(h, r), 82, 8) = gas
  <2>1. 13 + k \in Nat
    BY <1>1
  <2> HIDE DEF gas
  <2>2. Slice(Cat(h, r), 82, 8) = Slice(h, 82, 8)
    BY <1>1, <2>1, Before
  <2> QED
    BY <1>3, <2>2
<1>5. ~(Len(Cat(h, r)) < 90)
  <2>1. Cat(h, r) \in Run(Byte, 90 + (13 + k))
    BY <1>1, Joint
  <2> QED
    BY <1>1, <2>1 DEF Run
<1>6. EnvelopeBytes(e) = Cat(h, r)
  BY Shape DEF h, r
<1> QED
  BY <1>4, <1>5, <1>6, Zenon DEF EnvelopeGasLimit, gas

PacketType ==
  [dst_eid : Nat, receiver : Peer, message : Seq(Byte), options : Seq(Byte)]

\* A packet is the envelope of a request, with the gas it asks for.
Tells(k, p) ==
  /\ k.message = EnvelopeBytes(p.envelope)
  /\ k.options = ExecutorLzReceive(U64(Params[p.envelope.call].gas_limit))

PacketsTrue == \A k \in Packets : \E p \in prepared : Tells(k, p)

PInv == packets \in Seq(PacketType) /\ PacketsTrue

LEMMA SentPacket ==
  ASSUME OInv, LzInv, NEW x \in Account, NEW a \in Authority, NEW n \in Nonce,
         LzDispatch(x, a, n)
  PROVE  /\ Exists(a, n) /\ Entry(message[a][n]) \in prepared
         /\ \E k \in PacketType :
              packets' = Append(packets, k) /\ Tells(k, Entry(message[a][n]))
<1> DEFINE
  e == message[a][n].envelope
  k == Packet(EnvelopeOf(x.data))
<1>1. x.key = <<a, n>> /\ store # NoStore /\ packets' = Append(packets, k)
  BY DEF LzDispatch
<1>2. x \notin Foreign
  <2>1. <<a, n>> \in Authority \X Nonce
    OBVIOUS
  <2>2. \A f \in Foreign : f.key \notin Authority \X Nonce
    BY DispatcherAssumption
  <2> QED
    BY <1>1, <2>1, <2>2, Zenon
<1>3. x = MessageAccount(a, n) /\ Exists(a, n)
  <2>1. PICK j \in Authority \X Nonce : x = MessageAccount(j[1], j[2]) /\ Exists(j[1], j[2])
    BY <1>2 DEF Account
  <2>2. x.key = <<j[1], j[2]>>
    BY <2>1 DEF MessageAccount
  <2> QED
    BY <1>1, <2>1, <2>2
<1>4. EnvelopeOf(x.data) = EnvelopeBytes(e)
  BY <1>3, Readability DEF EveryAccountReadable
<1>5. message[a][n] \in PreparedMessage /\ Entry(message[a][n]) \in prepared
  BY <1>3 DEF OInv, TypeOK, AccountsTrue, Exists
<1>6. e \in Envelope /\ Entry(message[a][n]).envelope = e
  BY <1>5 DEF PreparedMessage, Entry
<1> DEFINE gas == U64(Params[e.call].gas_limit)
<1>7. /\ k.message = EnvelopeBytes(e) /\ k.options = ExecutorLzReceive(gas)
      /\ k = [dst_eid |-> store.dst_eid, receiver |-> store.peer, message |-> EnvelopeBytes(e),
              options |-> ExecutorLzReceive(gas)]
  BY <1>4, <1>6, GasLimitRead DEF Packet
<1>8. store.dst_eid \in Nat /\ store.peer \in Peer
  BY <1>1 DEF LzInv, StoreTyped, Store
<1>9. EnvelopeBytes(e) \in Seq(Byte)
  BY <1>6, EnvelopeRun DEF Run
<1>10. ExecutorLzReceive(gas) \in Seq(Byte)
  <2>1. Params[e.call].gas_limit \in Nat
    BY <1>6, FieldsTyped
  <2> QED
    BY <2>1, EightBytes, Options
<1> HIDE DEF e, gas, k
<1>11. k \in PacketType
  BY <1>7, <1>8, <1>9, <1>10 DEF PacketType
<1>12. Tells(k, Entry(message[a][n]))
  BY <1>6, <1>7 DEF Tells, gas
<1> QED
  BY <1>1, <1>3, <1>5, <1>11, <1>12

LEMMA PacketsStep == OInv /\ LzInv /\ PInv /\ [LzNext]_lzvars => PInv'
<1> SUFFICES ASSUME OInv, LzInv, PInv, [LzNext]_lzvars PROVE PInv'
  OBVIOUS
<1>1. prepared \subseteq prepared'
  BY LzSteps, Grows DEF OInv, LzInv
<1>2. CASE packets' = packets
  BY <1>1, <1>2 DEF PInv, PacketsTrue, Packets
<1>3. ASSUME NEW x \in Account, NEW a \in Authority, NEW n \in Nonce, LzDispatch(x, a, n)
      PROVE  PInv'
  <2>1. PICK k \in PacketType :
          packets' = Append(packets, k) /\ \E p \in prepared : Tells(k, p)
    BY <1>3, SentPacket, Zenon
  <2>2. packets \in Seq(PacketType)
    BY DEF PInv
  <2>3. packets' \in Seq(PacketType) /\ Packets' = Packets \cup {k}
    BY <2>1, <2>2, AppendProperties DEF Packets
  <2>4. \A q, p : Tells(q, p)' <=> Tells(q, p)
    BY DEF Tells
  <2> QED
    BY <1>1, <2>1, <2>3, <2>4 DEF PInv, PacketsTrue
<1>4. OutboxStep \/ UNCHANGED lzvars => packets' = packets
  BY DEF OutboxStep, lzvars
<1>5. \A params : InitializeStore(params) => packets' = packets
  BY DEF InitializeStore
<1>6. \A p, d, q : SetPeer(p, d, q) => packets' = packets
  BY DEF SetPeer
<1> QED
  BY <1>2, <1>3, <1>4, <1>5, <1>6 DEF LzNext

LEMMA PacketsInvariance == LzSpec => []PInv
<1>1. LzInit => PInv
  BY DEF LzInit, PInv, PacketsTrue, Packets
<1>2. OInv /\ LzInv /\ PInv /\ [LzNext]_lzvars => PInv'
  BY PacketsStep
<1> QED
  BY <1>1, <1>2, LzInvariance, DispatcherRefinesOutbox, Invariance, PTL DEF LzSpec

LEMMA EntryTyped == ASSUME OInv, NEW p \in prepared PROVE p.envelope \in Envelope
BY DEF OInv, TypeOK

(***************************************************************************)
(* One packet per message.                                                 *)
(*                                                                         *)
(* The bytes tell the sender and the nonce, the record has one request     *)
(* under each, and the account of that request shows a bit for every       *)
(* transport that has carried it: so the message of a packet on record is  *)
(* one the outbox refuses to mark again over the store's transport, which  *)
(* never changes.                                                          *)
(***************************************************************************)
LEMMA NonceFits == \A n \in Nonce : n \in Nat /\ FitsU64(n)
<1> SUFFICES ASSUME NEW n \in Nonce PROVE n \in Nat /\ FitsU64(n)
  OBVIOUS
<1>1. n \in Nat /\ MaxNonce \in Nat /\ n <= MaxNonce
  BY OutboxAssumption DEF Nonce
<1>2. ASSUME NEW i \in Nat, NEW j \in Nat, i <= j
      PROVE  High(i) \in Nat /\ High(j) \in Nat /\ High(i) <= High(j)
  BY <1>2 DEF High
<1>3. High(High(n)) <= High(High(MaxNonce)) /\ High(High(n)) \in Nat
  BY <1>1, <1>2
<1>4. High(High(MaxNonce)) = 0
  BY DispatcherAssumption DEF FitsU64
<1>5. High(High(n)) = 0
  BY <1>3, <1>4
<1> QED
  BY <1>1, <1>5 DEF FitsU64

\* Envelopes of one sender and one nonce are all that share their bytes.
LEMMA BytesTellTheKey ==
  ASSUME NEW e \in Envelope, NEW f \in Envelope, EnvelopeBytes(e) = EnvelopeBytes(f)
  PROVE  SameKey(e, f)
<1>1. AsRead(e) = AsRead(f)
  BY RoundTrip
<1>2. AsRead(e).sender = Key[e.sender] /\ AsRead(f).sender = Key[f.sender]
  BY DEF AsRead
<1>3. AsRead(e).nonce = U64(e.nonce) /\ AsRead(f).nonce = U64(f.nonce)
  BY DEF AsRead
<1>4. /\ e.sender \in Authority /\ f.sender \in Authority
      /\ e.nonce \in Nonce /\ f.nonce \in Nonce
  BY DEF Envelope
<1>5. e.sender = f.sender
  <2>1. Key[e.sender] = Key[f.sender]
    BY <1>1, <1>2, Zenon
  <2> QED
    BY <1>4, <2>1, DispatcherAssumption
<1>6. e.nonce = f.nonce
  <2>1. U64(e.nonce) = U64(f.nonce)
    BY <1>1, <1>3, Zenon
  <2> QED
    BY <1>4, <2>1, NonceFits, SameEightBytes
<1> QED
  BY <1>5, <1>6 DEF SameKey

LEMMA BytesTellTheEntry ==
  ASSUME OInv, NEW p \in prepared, NEW q \in prepared,
         EnvelopeBytes(p.envelope) = EnvelopeBytes(q.envelope)
  PROVE  p = q
BY EntryTyped, BytesTellTheKey, SameEntry

\* For any senders with keys of their own and any number of nonces that fit a
\* u64, no two requests share the bytes the destination hashes: the layout has
\* no field that could run into its neighbour (encode, prepare).
THEOREM BytesIdentify == LzSpec => []BytesIdentifyRequest
<1>1. OInv => BytesIdentifyRequest
  BY BytesTellTheEntry DEF BytesIdentifyRequest
<1> QED
  BY <1>1, DispatcherRefinesOutbox, Invariance, PTL

\* A packet of a message on the wire of transport t.
Sent(k, t) == \E e \in Carried(t) : k.message = EnvelopeBytes(e)

OnceInv ==
  /\ store = NoStore => packets = <<>>
  /\ \A k \in Packets : Sent(k, store.transport_id)
  /\ \A i, j \in 1 .. Len(packets) : packets[i].message = packets[j].message => i = j

\* The store, once there, keeps its transport.
LEMMA TransportKept ==
  ASSUME StoreTyped, [LzNext]_lzvars, store # NoStore
  PROVE  store' # NoStore /\ store'.transport_id = store.transport_id
<1>1. store \in Store
  BY DEF StoreTyped
<1>2. \A s \in Store : s # NoStore
  <2>1. \A s \in Store : s.admin \in Principal
    BY DEF Store
  <2>2. NoStore.admin = DefaultKey
    BY DEF NoStore
  <2>3. DefaultKey \notin Principal
    BY OutboxAssumption
  <2> QED
    BY <2>1, <2>2, <2>3
<1>3. CASE UNCHANGED store
  BY <1>3
<1>4. ASSUME NEW p \in Principal, NEW c \in PeerChoice, SetPeer(p, c[1], c[2])
      PROVE  store' # NoStore /\ store'.transport_id = store.transport_id
  <2>1. c \in Nat \X Peer
    BY DispatcherAssumption
  <2>2. c[1] \in Nat /\ c[2] \in Peer
    BY <2>1
  <2>3. store' = [store EXCEPT !.dst_eid = c[1], !.peer = c[2]]
    BY <1>4 DEF SetPeer
  <2>4. store' \in Store
    BY <1>1, <2>2, <2>3, PeerTyped
  <2>5. store'.transport_id = store.transport_id
    BY <1>1, <2>3 DEF Store
  <2> QED
    BY <1>2, <2>4, <2>5
<1>5. \A params \in InitChoice : ~InitializeStore(params)
  BY DEF InitializeStore
<1>6. \A x, a, n : LzDispatch(x, a, n) => UNCHANGED store
  BY DEF LzDispatch
<1> QED
  BY <1>3, <1>4, <1>5, <1>6 DEF LzNext, OutboxStep, lzvars

LEMMA OnceStep == OInv /\ LzInv /\ PInv /\ OnceInv /\ [LzNext]_lzvars => OnceInv'
<1> SUFFICES ASSUME OInv, LzInv, PInv, OnceInv, [LzNext]_lzvars PROVE OnceInv'
  OBVIOUS
<1>1. \A t \in TransportId : Carried(t) \subseteq Carried(t)'
  BY LzSteps, Grows DEF OInv, LzInv
<1>2. ASSUME store # NoStore
      PROVE  /\ store.transport_id \in TransportId
             /\ store' # NoStore /\ store'.transport_id = store.transport_id
  BY <1>2, TransportKept DEF LzInv, StoreTyped, Store
<1>3. \A k, t : Sent(k, t)' <=> \E e \in Carried(t)' : k.message = EnvelopeBytes(e)
  BY DEF Sent, EnvelopeBytes, ParamsOf
<1>4. CASE packets' = packets
  <2>1. Packets' = Packets
    BY <1>4 DEF Packets
  <2>2. CASE store = NoStore
    <3>1. packets = <<>> /\ packets' = <<>>
      BY <1>4, <2>2 DEF OnceInv
    <3>2. Len(packets') = 0 /\ Packets' = {}
      BY <3>1 DEF Packets
    <3> QED
      BY <3>1, <3>2 DEF OnceInv
  <2>3. CASE store # NoStore
    <3>1. PICK t \in TransportId : t = store.transport_id /\ t = store'.transport_id
      BY <1>2, <2>3
    <3>2. \A k \in Packets : Sent(k, t)
      BY <3>1 DEF OnceInv
    <3>3. \A k \in Packets : \E e \in Carried(t)' : k.message = EnvelopeBytes(e)
      BY <1>1, <3>2 DEF Sent
    <3>4. \A k \in Packets' : Sent(k, t)'
      BY <1>3, <2>1, <3>3
    <3>5. (\A k \in Packets : Sent(k, store.transport_id))'
      BY <3>1, <3>4
    <3> QED
      BY <1>2, <1>4, <2>3, <3>5 DEF OnceInv
  <2> QED
    BY <2>2, <2>3
<1>5. ASSUME NEW x \in Account, NEW a \in Authority, NEW n \in Nonce, LzDispatch(x, a, n)
      PROVE  OnceInv'
  <2> DEFINE
    m == message[a][n]
    t == store.transport_id
    len == Len(packets)
  <2>1. PICK k \in PacketType : packets' = Append(packets, k) /\ Tells(k, Entry(m))
    BY <1>5, SentPacket
  <2>2. Exists(a, n) /\ Entry(m) \in prepared
    BY <1>5, SentPacket
  <2>3. store # NoStore /\ t \in TransportId /\ store' = store
    BY <1>2, <1>5 DEF LzDispatch
  <2>4. Markable(m, t) /\ Carry(t, m.envelope)
    BY <1>5 DEF LzDispatch, MarkDispatched
  <2>5. k.message = EnvelopeBytes(m.envelope)
    BY <2>1 DEF Tells, Entry
  <2>6. m.envelope \in Envelope
    BY <2>2, ExistsType DEF OInv, PreparedMessage
  <2>7. packets \in Seq(PacketType) /\ len \in Nat
    BY DEF PInv
  <2>8. /\ Len(packets') = len + 1 /\ packets'[len + 1] = k
        /\ \A i \in 1 .. len : packets'[i] = packets[i]
        /\ Packets' = Packets \cup {k}
    BY <2>1, <2>7, AppendProperties DEF Packets
  \* None of the packets before has this message.
  <2>9. ASSUME NEW q \in Packets, q.message = k.message PROVE FALSE
    <3>1. PICK e \in Carried(t) : q.message = EnvelopeBytes(e)
      BY DEF OnceInv, Sent
    <3>2. PICK p \in prepared : p.envelope = e
      BY <2>3 DEF OInv, WirePrepared
    <3>3. Entry(m).envelope = m.envelope
      BY DEF Entry
    <3>4. p = Entry(m)
      BY <2>2, <2>5, <2>9, <3>1, <3>2, <3>3, BytesTellTheEntry
    <3>5. t \in CarriedBy(m.envelope)
      BY <2>3, <3>2, <3>3, <3>4 DEF CarriedBy
    <3>6. t \in m.dispatched
      BY <2>2, <3>5 DEF OInv, BitsTellTheWire
    <3> QED
      BY <2>4, <3>6 DEF Markable
  <2>10. \A i, j \in 1 .. Len(packets') : packets'[i].message = packets'[j].message => i = j
    <3> SUFFICES ASSUME NEW i \in 1 .. len + 1, NEW j \in 1 .. len + 1,
                        packets'[i].message = packets'[j].message
                 PROVE  i = j
      BY <2>8
    <3>1. CASE i \in 1 .. len /\ j \in 1 .. len
      BY <2>8, <3>1 DEF OnceInv
    <3>2. CASE i = len + 1 /\ j = len + 1
      BY <3>2
    <3>3. \A l \in 1 .. len : packets[l] \in Packets
      BY DEF Packets
    <3>4. CASE i \in 1 .. len /\ j = len + 1
      BY <2>8, <2>9, <3>3, <3>4
    <3>5. CASE i = len + 1 /\ j \in 1 .. len
      BY <2>8, <2>9, <3>3, <3>5
    <3> QED
      BY <2>7, <3>1, <3>2, <3>4, <3>5
  <2>11. m.envelope \in Carried(t)'
    BY <2>3, <2>4, <2>6, CarryShape DEF OInv
  <2>12. \A q \in Packets : \E e \in Carried(t)' : q.message = EnvelopeBytes(e)
    BY <1>1, <2>3 DEF OnceInv, Sent
  <2>13. \A q \in Packets' : \E e \in Carried(t)' : q.message = EnvelopeBytes(e)
    BY <2>5, <2>8, <2>11, <2>12
  <2>14. (\A q \in Packets : Sent(q, store.transport_id))'
    BY <1>3, <2>3, <2>13
  <2> QED
    BY <2>3, <2>10, <2>14 DEF OnceInv
<1>6. OutboxStep \/ UNCHANGED lzvars => packets' = packets
  BY DEF OutboxStep, lzvars
<1>7. \A params : InitializeStore(params) => packets' = packets
  BY DEF InitializeStore
<1>8. \A p, d, q : SetPeer(p, d, q) => packets' = packets
  BY DEF SetPeer
<1> QED
  BY <1>4, <1>5, <1>6, <1>7, <1>8 DEF LzNext

\* The dispatcher pays for a message once and for none that the outbox has not
\* recorded as sent, for any senders, transports and number of dispatchers of
\* one transport, in whatever order they, the admins and the finalizers act
\* (dispatch, mark_dispatched).
THEOREM OnePacket == LzSpec => []OnePacketPerMessage
<1>1. LzInit => OnceInv
  BY DEF LzInit, OnceInv, Packets
<1>2. OInv /\ LzInv /\ PInv /\ OnceInv /\ [LzNext]_lzvars => OnceInv'
  BY OnceStep
<1>3. OnceInv => OnePacketPerMessage
  BY DEF OnceInv, Sent, OnePacketPerMessage
<1> QED
  BY <1>1, <1>2, <1>3, LzInvariance, PacketsInvariance, DispatcherRefinesOutbox, Invariance, PTL
     DEF LzSpec

\* The store and what the dispatcher sends are well typed.
THEOREM DispatcherTypes == LzSpec => []LzTypeOK
<1>1. LzInv /\ PInv => LzTypeOK
  <2> SUFFICES ASSUME LzInv, PInv PROVE LzTypeOK
    OBVIOUS
  <2>1. \A k \in Packets : k \in PacketType
    BY DEF PInv, Packets
  <2> QED
    BY <2>1 DEF LzTypeOK, LzInv, StoreTyped, PacketType
<1> QED
  BY <1>1, LzInvariance, PacketsInvariance, PTL

\* Whatever a packet carries, the destination decodes from it what some sender
\* asked prepare for, under the nonce it was given (prepare, dispatch,
\* tryDecode).
THEOREM PacketsTell == LzSpec => []PacketsTellTheRequest
<1>1. OInv /\ PInv => PacketsTellTheRequest
  <2> SUFFICES ASSUME OInv, PInv, NEW k \in Packets
               PROVE  \E p \in prepared : TryDecode(k.message) = AsRead(p.envelope)
    BY Zenon DEF PacketsTellTheRequest, AsRead
  <2>1. PICK p \in prepared : Tells(k, p)
    BY DEF PInv, PacketsTrue
  <2>2. TryDecode(EnvelopeBytes(p.envelope)) = AsRead(p.envelope)
    BY EntryTyped, RoundTrip
  <2> QED
    BY <2>1, <2>2 DEF Tells
<1> QED
  BY <1>1, PacketsInvariance, DispatcherRefinesOutbox, Invariance, PTL

\* The executor is paid for the very gas limit the destination reads from the
\* packet, for every limit of 64 bits (envelope_gas_limit,
\* executor_lz_receive).
THEOREM PaidForWhatIsRead == LzSpec => []PaidForTheLimit
<1>1. OInv /\ PInv => PaidForTheLimit
  <2> SUFFICES ASSUME OInv, PInv, NEW k \in Packets
               PROVE  PaidGas(k.options) = Zeros(8) \o TryDecode(k.message).gasLimit
    BY Zenon DEF PaidForTheLimit
  <2>1. PICK p \in prepared : Tells(k, p)
    BY DEF PInv, PacketsTrue
  <2> DEFINE e == p.envelope
             gas == U64(Params[e.call].gas_limit)
  <2>2. e \in Envelope
    BY EntryTyped
  <2>3. TryDecode(EnvelopeBytes(e)) = AsRead(e)
    BY <2>2, RoundTrip
  <2>4. AsRead(e).gasLimit = gas
    BY DEF AsRead
  <2>5. gas \in Bytes(8)
    <3>1. Params[e.call].gas_limit \in Nat
      BY <2>2, FieldsTyped
    <3> QED
      BY <3>1, EightBytes
  <2>6. k.message = EnvelopeBytes(e) /\ k.options = ExecutorLzReceive(gas)
    BY <2>1 DEF Tells
  <2> HIDE DEF e, gas
  <2>7. PaidGas(k.options) = Zeros(8) \o gas
    BY <2>5, <2>6, Options
  <2> QED
    BY <2>3, <2>4, <2>6, <2>7, Zenon
<1> QED
  BY <1>1, PacketsInvariance, DispatcherRefinesOutbox, Invariance, PTL
===============================================================================
