---------------------------- MODULE ChainEncoding ----------------------------
(***************************************************************************)
(* What is sent to a contract and to a node: ABI call data                 *)
(* (src/chain_abi.cpp), RPC quantities, and signed legacy transactions in  *)
(* RLP (src/chain_transaction.cpp).  Bytes are numbers below 256; the      *)
(* sizes of a word (32) and of an address (20) are parameters.  Keccak is  *)
(* external: a selector is the position of its method's signature, and a   *)
(* digest is the bytes it is taken of.                                     *)
(***************************************************************************)
EXTENDS Integers, SequencesExt

CONSTANTS WordBytes, AddressBytes

ASSUME EncodingAssumption ==
  WordBytes \in Nat /\ AddressBytes \in Nat /\ WordBytes > AddressBytes

Zeros(n) == [i \in 1..n |-> 0]

\* Big-endian digits without leading zeros, and the number they spell.
Digits(value, base) ==
  LET width == CHOOSE w \in 0..16 :
                 value < base ^ w /\ (w = 0 \/ value >= base ^ (w - 1))
  IN  [i \in 1..width |-> (value \div base ^ (width - i)) % base]

uint_from_bytes(bytes) == FoldLeft(LAMBDA n, b : 256 * n + b, 0, bytes)

encode_quantity(value) == IF value = 0 THEN <<0>> ELSE Digits(value, 16)

\* 0x-prefixed nibbles; -1 stands for a character that is no nibble.
decode_quantity(nibbles) ==
  IF \/ nibbles = <<>> \/ (Len(nibbles) > 1 /\ nibbles[1] = 0)
     \/ \E i \in DOMAIN nibbles : nibbles[i] = -1
     \/ Len(nibbles) > 2 * WordBytes
  THEN [error |-> "invalid_field"]
  ELSE [error |-> "none",
        value |-> FoldLeft(LAMBDA n, d : 16 * n + d, 0, nibbles)]

-----------------------------------------------------------------------------
(* Call data. *)

word(value) == [i \in 1..WordBytes |-> (value \div 256 ^ (WordBytes - i)) % 256]

address_word(address) == Zeros(WordBytes - AddressBytes) \o address

decode_word_uint256(bytes) ==
  IF Len(bytes) # WordBytes THEN [error |-> "invalid_field"]
  ELSE [error |-> "none", value |-> uint_from_bytes(bytes)]

decode_word_bool(bytes) ==
  LET decoded == decode_word_uint256(bytes)
  IN  IF decoded.error = "none" /\ decoded.value \in {0, 1} THEN decoded
      ELSE [error |-> "invalid_field"]

encode_call(selector, words) == selector \o FlattenSeq(words)

encode_call_with_uint_array(selector, before, values, after) ==
  selector \o FlattenSeq(before)
    \o word((Len(before) + 1 + Len(after)) * WordBytes)
    \o FlattenSeq(after) \o word(Len(values))
    \o FlattenSeq([i \in DOMAIN values |-> word(values[i])])

\* The bytes, filled up to a whole number of words.
Padded(bytes) ==
  bytes \o Zeros(((Len(bytes) + WordBytes - 1) \div WordBytes) * WordBytes - Len(bytes))

encode_call_with_bytes(selector, before, bytes) ==
  selector \o FlattenSeq(before) \o word((Len(before) + 1) * WordBytes)
    \o word(Len(bytes)) \o Padded(bytes)

-----------------------------------------------------------------------------
(* Legacy transactions. *)

Short(size) == size <= 55

append_length(size) ==
  <<183 + Len(Digits(size, 256))>> \o Digits(size, 256)

rlp_bytes(bytes) ==
  CASE Len(bytes) = 1 /\ bytes[1] < 128 -> bytes
    [] Short(Len(bytes)) -> <<128 + Len(bytes)>> \o bytes
    [] OTHER -> append_length(Len(bytes)) \o bytes

rlp_integer(value) == rlp_bytes(Digits(value, 256))

rlp_list(fields) ==
  LET bytes == FlattenSeq(fields)
      length == Digits(Len(bytes), 256)
  IN  (IF Len(bytes) <= 55 THEN <<192 + Len(bytes)>>
       ELSE <<247 + Len(length)>> \o length) \o bytes

base_fields(tx) ==
  <<rlp_integer(tx.nonce), rlp_integer(tx.gas_price), rlp_integer(tx.gas_limit),
    rlp_bytes(tx.to), rlp_integer(tx.value), rlp_bytes(tx.data)>>

legacy_transaction_signing_digest(tx) ==
  rlp_list(base_fields(tx) \o <<rlp_integer(tx.chain_id), rlp_bytes(<<>>), rlp_bytes(<<>>)>>)

signature_bytes(signature) ==
  IF Len(signature) # 2 * WordBytes + 1 \/ Last(signature) \notin {27, 28}
  THEN [error |-> "invalid_field"]
  ELSE [error |-> "none", bytes |-> signature]

trim_word(signature, offset) ==
  LET bytes == SubSeq(signature, offset + 1, offset + WordBytes)
      zeros == CHOOSE z \in 0..WordBytes :
                 /\ \A i \in 1..z : bytes[i] = 0
                 /\ z = WordBytes \/ bytes[z + 1] # 0
  IN  SubSeq(bytes, zeros + 1, WordBytes)

\* The optional signer (digest -> an error, or the bytes it answers) is asked
\* and its answer checked; the recovery id is combined with the chain's id.
sign_legacy_transaction(tx, signer) ==
  LET answer == signer[1][legacy_transaction_signing_digest(tx)]
      signature == signature_bytes(answer.bytes)
      v == Last(signature.bytes) - 27 + 35 + 2 * tx.chain_id
      encoded == rlp_list(base_fields(tx) \o
                   <<rlp_integer(v), rlp_bytes(trim_word(signature.bytes, 0)),
                     rlp_bytes(trim_word(signature.bytes, WordBytes))>>)
  IN  CASE signer = <<>> -> [error |-> "invalid_argument"]
        [] answer.error # "none" -> answer
        [] signature.error # "none" -> signature
        [] OTHER -> [error |-> "none", raw |-> encoded, hash |-> encoded]

\* The hash under which the transaction is looked up: of what was sent.
raw_transaction_hash(raw) ==
  IF raw = <<>> THEN [error |-> "invalid_field"]
  ELSE [error |-> "none", hash |-> raw]

-----------------------------------------------------------------------------
(* Reference definitions: how a node reads RLP and a contract reads a call. *)

\* Where the payload of the item at p starts, and where the item ends.
ItemPayload(bytes, p) ==
  LET head == bytes[p]
      base == IF head >= 192 THEN 192 ELSE 128
      size == head - base - 55
  IN  CASE head < 128 -> p
        [] head - base <= 55 -> p + 1
        [] OTHER -> p + 1 + size

ItemEnd(bytes, p) ==
  LET head == bytes[p]
      base == IF head >= 192 THEN 192 ELSE 128
      start == ItemPayload(bytes, p)
  IN  CASE head < 128 -> p
        [] head - base <= 55 -> p + head - base
        [] OTHER -> start - 1 + uint_from_bytes(SubSeq(bytes, p + 1, start - 1))

\* The payloads of the items from p on.
RlpItems(bytes, p) ==
  LET items[q \in p..(Len(bytes) + 1)] ==
        IF q = Len(bytes) + 1 THEN <<>>
        ELSE <<SubSeq(bytes, ItemPayload(bytes, q), ItemEnd(bytes, q))>>
               \o items[ItemEnd(bytes, q) + 1]
  IN  items[p]

RlpList(bytes) == RlpItems(bytes, ItemPayload(bytes, 1))

\* The n-th word behind the selector, and the values of the array or bytes
\* whose offset is the n-th word.
CallWord(data, n) == uint_from_bytes(SubSeq(data, 2 + (n - 1) * WordBytes, 1 + n * WordBytes))

CallArray(data, n) ==
  LET head == CallWord(data, n) \div WordBytes + 1
  IN  [i \in 1..CallWord(data, head) |-> CallWord(data, head + i)]

CallBytes(data, n) ==
  LET head == CallWord(data, n) \div WordBytes + 1
      start == 2 + head * WordBytes
  IN  SubSeq(data, start, start + CallWord(data, head) - 1)

=============================================================================
