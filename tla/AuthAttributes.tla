--------------------------- MODULE AuthAttributes ----------------------------
(***************************************************************************)
(* AuthAttributes: the attributes one process sets, the bytes Pack makes   *)
(* of each for the other, and how Unpack reads one.  The loops of Pack and *)
(* Unpack over them are actions of IpcCalls.  A uint64 is the pair of its  *)
(* lower and its upper word.                                               *)
(***************************************************************************)
EXTENDS Integers, Sequences, SequencesExt, Overlay

CONSTANT Missing  \* no value for an attribute: a model value

AUTH_ROOT      == 100000
AUTH_SIGNATURE == 100004
AUTH_DATA      == 100020
ALGORITHM_INFO == 100030

\* authAttributesPosition_: the type of each attribute, by tag.
Position ==
  [t \in {100001, 100005, 100009, 100010, 100016, 100022, 100023, 100024} |-> "uint32"] ++
  [t \in {100006, 100014, 100018, 100019, 100021, 100025, 100027} |-> "uint64"] ++
  [t \in {AUTH_SIGNATURE, 100015, 100028, ALGORITHM_INFO} |-> "uint8s"] ++
  [t \in {100007} |-> "uint64s"] ++ [t \in {100026} |-> "bool"]

Tags == DOMAIN Position

\* The values a setter of each type takes.
IsWord(v) == v \in Nat /\ v \div 16777216 <= 255
IsLong(v) == v \in Nat \X Nat /\ IsWord(v[1]) /\ IsWord(v[2])
IsValue(type, v) ==
  CASE type = "bool" -> v \in {0, 1}
    [] type = "uint32" -> IsWord(v)
    [] type = "uint64" -> IsLong(v)
    [] type = "uint64s" ->
         v \in Seq(Nat \X Nat) /\ IsWord(8 * Len(v)) /\ \A i \in DOMAIN v : IsLong(v[i])
    [] type = "uint8s" -> v \in Seq(0..255) /\ IsWord(Len(v))

\* The six value maps in one, since the type of a tag tells its map, and
\* existAttributes_.
Empty == [values |-> [t \in Tags |-> Missing], exist |-> <<>>]

Get(attrs, t) == attrs.values[t]

\* SetXValue of a type: refused unless that is the type of the attribute.
Set(attrs, t, type, value) ==
  IF Position[t] # type THEN attrs
  ELSE [values |-> [attrs.values EXCEPT ![t] = value], exist |-> Append(attrs.exist, t)]

(***************************************************************************)
(* Pack                                                                    *)
(***************************************************************************)

\* The i-th byte of a word, the first n of them, and the i-th byte of a long one:
\* the least comes first.
ByteOf(v, i) ==
  CASE i = 1 -> v % 256
    [] i = 2 -> (v \div 256) % 256
    [] i = 3 -> (v \div 65536) % 256
    [] i = 4 -> (v \div 16777216) % 256

LittleEndian(v, n) == [i \in 1..n |-> ByteOf(v, i)]

LongByte(v, i) == IF i <= 4 THEN ByteOf(v[1], i) ELSE ByteOf(v[2], i - 4)

\* PackToBuffer without its length: an attribute never set leaves an empty array.
Payload(t, value) ==
  CASE Position[t] = "bool"   -> LittleEndian(value, 1)
    [] Position[t] = "uint32" -> LittleEndian(value, 4)
    [] Position[t] = "uint64" -> [i \in 1..8 |-> LongByte(value, i)]
    [] Position[t] = "uint64s" ->
         [i \in 1..(8 * Len(value)) |-> LongByte(value[((i - 1) \div 8) + 1], ((i - 1) % 8) + 1)]
    [] Position[t] = "uint8s" -> IF value = Missing THEN <<>> ELSE value

Tlv(tag, bytes) == LittleEndian(tag, 4) \o LittleEndian(Len(bytes), 4) \o bytes

\* What the loop of Pack adds for an attribute.
Field(attrs, t) == Tlv(t, Payload(t, Get(attrs, t)))

\* The end of Pack: the root and data headers in front, the signature behind.
Enclosed(attrs, body) == Tlv(AUTH_ROOT, Tlv(AUTH_DATA, body) \o Field(attrs, AUTH_SIGNATURE))

(***************************************************************************)
(* Unpack                                                                  *)
(***************************************************************************)

\* GetUint32FromUint8: past the end of the buffer it is ALGORITHM_INFO.
WordAt(buffer, at) ==
  IF at + 4 > Len(buffer) THEN ALGORITHM_INFO
  ELSE buffer[at + 1] + 256 * buffer[at + 2] + 65536 * buffer[at + 3] + 16777216 * buffer[at + 4]

\* A mutant: the upper word is lost.
LongAtHalf(buffer, at) == <<WordAt(buffer, at), 0>>

\* GetUint64FromUint8, behind CheckLengthPass.
LongAt(buffer, at) == <<WordAt(buffer, at), WordAt(buffer, at + 4)>>

\* CheckLengthPass: inside the buffer, and a scalar has exactly its size.
CheckLengthPass(type, at, length, bufferLength) ==
  /\ at + length <= bufferLength
  /\ type = "bool" => length = 1
  /\ type = "uint32" => length = 4
  /\ type = "uint64" => length = 8

Value(type, buffer, at, length) ==
  CASE type = "bool"   -> buffer[at + 1]
    [] type = "uint32" -> WordAt(buffer, at)
    [] type = "uint64" -> LongAt(buffer, at)
    [] type = "uint64s" -> [i \in 1..(length \div 8) |-> LongAt(buffer, at + (i - 1) * 8)]
    [] type = "uint8s" -> [i \in 1..length |-> buffer[at + i]]
=============================================================================
