--------------------------------- MODULE Codec ---------------------------------
(***************************************************************************)
(* The bytes that cross program boundaries, in the four places that        *)
(* hand-write them and must agree without sharing code: the Rust encoder   *)
(* (envelope.rs), the Solidity decoder (EnvelopeLib.sol), the layout of a  *)
(* PreparedMessage account that a dispatcher reads by offset               *)
(* (base-caller-abi), and LayerZero's executor options (options.rs).       *)
(*                                                                         *)
(* A sequence of bytes is a sequence of 0 .. 255.  An integer of a fixed   *)
(* width is the sequence of its big-endian bytes, whatever the width, so   *)
(* 64 and 128 bits are exact; it is never taken apart except by bytes.     *)
(***************************************************************************)
EXTENDS Integers, Sequences

CONSTANTS
  None,      \* Option::None
  Beyond     \* the byte of the calldata that lies behind the envelope

Byte == 0 .. 255
Bytes(n) == [1 .. n -> Byte]

ASSUME CodecAssumption == Beyond \in Byte

U16(n) == <<(n \div 256) % 256, n % 256>>
U32(n) == U16((n \div 256) \div 256) \o U16(n)
High(n) == (((n \div 256) \div 256) \div 256) \div 256
U64(n) == U32(High(n)) \o U32(n)
FitsU64(n) == High(High(n)) = 0
Zeros(n) == [i \in 1 .. n |-> 0]

\* The same integer with its least significant byte first.
LittleEndian(b) == [i \in 1 .. Len(b) |-> b[Len(b) + 1 - i]]

\* The value of four big-endian bytes.
Number(b) == ((b[1] * 256 + b[2]) * 256 + b[3]) * 256 + b[4]

\* data.get(from .. from + n), counting from 0
Slice(b, from, n) == SubSeq(b, from + 1, from + n)

(***************************************************************************)
(* The envelope: envelope::encode and EnvelopeLib.tryDecode.               *)
(***************************************************************************)
VERSION == 1
MSG_TYPE_CALL == 0
SRC_CHAIN_SOLANA == 1
HEADER_SIZE == 103

CallParams ==
  [dst_chain_id : Bytes(2), target : Bytes(20), value : Bytes(16), gas_limit : Bytes(8),
   expiry : Bytes(8), mode : Byte, calldata : Seq(Byte)]

\* Leaves the nonce to the transports, which number what they carry.
BadUpToValue(sender, nonce, p) ==
  <<VERSION, MSG_TYPE_CALL>> \o U16(SRC_CHAIN_SOLANA) \o p.dst_chain_id
    \o sender \o Zeros(8) \o p.target \o p.value

\* The fields up to the value, where the gas limit starts.
UpToValue(sender, nonce, p) ==
  <<VERSION, MSG_TYPE_CALL>> \o U16(SRC_CHAIN_SOLANA) \o p.dst_chain_id
    \o sender \o nonce \o p.target \o p.value

\* Swaps the two 64-bit fields behind the value.
BadEncodeEnvelope(sender, nonce, p) ==
  UpToValue(sender, nonce, p) \o p.expiry \o p.gas_limit
    \o (<<p.mode>> \o U32(Len(p.calldata)) \o p.calldata)

EncodeEnvelope(sender, nonce, p) ==
  UpToValue(sender, nonce, p) \o p.gas_limit
    \o (p.expiry \o <<p.mode>> \o U32(Len(p.calldata)) \o p.calldata)

\* calldataload(p + offset): 32 bytes, which may reach behind the envelope.
WordAt(b, offset) ==
  [i \in 1 .. 32 |-> IF offset + i <= Len(b) THEN b[offset + i] ELSE Beyond]

\* uintN(w >> shift): the bytes that are left of the bits shifted out.
Field(w, shift, n) == Slice(w, (256 - shift - n) \div 8, n \div 8)

Malformed == [ok |-> FALSE]

TryDecode(b) ==
  LET w0 == WordAt(b, 0)
      w38 == WordAt(b, 38)
      w66 == WordAt(b, 66)
      w98 == WordAt(b, 98)
  IN
  IF Len(b) < HEADER_SIZE \/ Field(w98, 216, 32) # U32(Len(b) - HEADER_SIZE)
  THEN Malformed
  ELSE [ok |-> TRUE,
        version |-> Field(w0, 248, 8), msgType |-> Field(w0, 240, 8),
        srcChainId |-> Field(w0, 224, 16), dstChainId |-> Field(w0, 208, 16),
        sender |-> WordAt(b, 6),
        nonce |-> Field(w38, 192, 64), target |-> Field(w38, 32, 160),
        value |-> Field(w66, 128, 128), gasLimit |-> Field(w66, 64, 64),
        expiry |-> Field(w66, 0, 64),
        mode |-> Field(w98, 248, 8),
        callData |-> SubSeq(b, HEADER_SIZE + 1, Len(b))]

(***************************************************************************)
(* A PreparedMessage account: Anchor writes it, a dispatcher reads it.     *)
(***************************************************************************)
PREPARED_MESSAGE_ACCOUNT == <<169, 24, 80, 234, 91, 37, 123, 123>>
NONCE == 72
ENVELOPE_LEN == 91
ENVELOPE == 95

\* A transport mask as a byte: id t has bit t - 1.
Mask(ids) ==
  LET bit(t) == IF t \in ids THEN 2^(t - 1) ELSE 0
  IN bit(1) + bit(2) + bit(3) + bit(4) + bit(5) + bit(6) + bit(7) + bit(8)

\* Borsh after the discriminator, in the order of the struct's fields.
AccountData(authority, payer, nonce, expiry, expected, dispatched, bump, envelope) ==
  PREPARED_MESSAGE_ACCOUNT \o authority \o payer
    \o LittleEndian(nonce) \o LittleEndian(expiry)
    \o <<Mask(expected), Mask(dispatched), bump>>
    \o (LittleEndian(U32(Len(envelope))) \o envelope)

\* Wants a byte behind the envelope, which a grown account would have.
BadEnvelopeOf(data) ==
  IF Len(data) < ENVELOPE \/ Slice(data, 0, 8) # PREPARED_MESSAGE_ACCOUNT
  THEN None
  ELSE LET len == Number(LittleEndian(Slice(data, ENVELOPE_LEN, 4))) IN
       IF ENVELOPE + len >= Len(data) THEN None ELSE Slice(data, ENVELOPE, len)

EnvelopeOf(data) ==
  IF Len(data) < ENVELOPE \/ Slice(data, 0, 8) # PREPARED_MESSAGE_ACCOUNT
  THEN None
  ELSE LET len == Number(LittleEndian(Slice(data, ENVELOPE_LEN, 4))) IN
       IF ENVELOPE + len > Len(data) THEN None ELSE Slice(data, ENVELOPE, len)

NonceOf(data) ==
  IF Len(data) < NONCE + 8 THEN None ELSE LittleEndian(Slice(data, NONCE, 8))

(***************************************************************************)
(* The gas a dispatcher pays the executor for.                             *)
(***************************************************************************)
\* Reads the expiry.
BadEnvelopeGasLimit(env) == IF Len(env) < 98 THEN None ELSE Slice(env, 90, 8)

EnvelopeGasLimit(env) == IF Len(env) < 90 THEN None ELSE Slice(env, 82, 8)

TYPE_3 == 3
WORKER_EXECUTOR == 1
OPTION_LZRECEIVE == 1

ExecutorLzReceive(gas) ==
  U16(TYPE_3) \o <<WORKER_EXECUTOR>> \o U16(1 + 16) \o <<OPTION_LZRECEIVE>>
    \o (Zeros(8) \o gas)

\* What the executor makes of them: one option of the kind above, its last
\* sixteen bytes the gas it hands to lzReceive.
PaidGas(options) ==
  IF Len(options) = 22 /\ Slice(options, 0, 6) = <<0, 3, 1, 0, 17, 1>>
  THEN Slice(options, 6, 16)
  ELSE None
===============================================================================
