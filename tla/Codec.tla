-------------------------------- MODULE Codec ---------------------------------
(***************************************************************************)
(* The wire format of IOTMP messages: the encoder and the decoder of a     *)
(* message, of a PSON value and of the varints both are made of.           *)
(*                                                                         *)
(* The bytes are the real ones: seven bits of a number in each byte of a   *)
(* varint, the type of a PSON value in the upper three bits of its tag and *)
(* a value below 31 in the rest.  The 32 and 64 bits of the integers are   *)
(* the constants Narrow and Wide, which end inside a byte as they do.      *)
(***************************************************************************)
EXTENDS Integers, Sequences, SequencesExt

CONSTANTS
  Narrow,  \* bits of a uint32_t
  Wide     \* bits of a uint64_t

ASSUME CodecAssumption ==
  /\ Narrow \in Nat \ {0}
  /\ Wide \in Nat \ {0}
  /\ Narrow < Wide

(***************************************************************************)
(* A value is its type and what it holds: the number of an "unsigned" or   *)
(* an "integer", a "float" in quarters, the bytes of "text" and "bytes",   *)
(* the values of an "array", the pairs of an "object" in the order of      *)
(* their keys, and of a "discrete" value 0 for false, 1 for true and 2 for *)
(* null.                                                                   *)
(***************************************************************************)
Value(type, v) == [kind |-> type, holds |-> v]
Unsigned(n) == Value("unsigned", <<n>>)
Integer(n) == Value("integer", <<n>>)
Null == Value("discrete", <<2>>)
Text(s) == Value("text", s)

Number(v) == v.holds[1]
Quarters == 4

-----------------------------------------------------------------------------
(* Encoding                                                                *)

RECURSIVE Varint(_)
Varint(n) == IF n < 128 THEN <<n>> ELSE <<128 + (n % 128)>> \o Varint(n \div 128)

Wire == [unsigned |-> 0, signed |-> 1, floating |-> 2, discrete |-> 3,
         text |-> 4, bytes |-> 5, map |-> 6, array |-> 7]

Fixed(wire, n) == <<32 * Wire[wire] + n>>

\* A mistake: 31 is written as a value, not as the escape.
TagFits31(wire, n) ==
  IF n <= 31 THEN Fixed(wire, n) ELSE Fixed(wire, 31) \o Varint(n)
Tag(wire, n) ==
  IF n < 31 THEN Fixed(wire, n) ELSE Fixed(wire, 31) \o Varint(n)

\* Strings are passed as C strings: they end at their first NUL.
UntilNul(s) == IF Contains(s, 0) THEN SubSeq(s, 1, SelectInSeq(s, LAMBDA c : c = 0) - 1)
               ELSE s

PsonText(s) == Tag("text", Len(UntilNul(s))) \o UntilNul(s)

PsonNumber(n) == IF n < 0 THEN Tag("signed", -n) ELSE Tag("unsigned", n)

\* An integral float is written as an integer; a half fits in a float, a
\* quarter in a double only.  Its bytes are one element of the stream.
PsonFloat(q) ==
  IF q % Quarters = 0 THEN PsonNumber(q \div Quarters)
  ELSE Fixed("floating", IF q % 2 = 0 THEN 0 ELSE 1) \o <<q>>

RECURSIVE Pson(_)
Pson(v) ==
  CASE v.kind \in {"unsigned", "integer"} -> PsonNumber(Number(v))
    [] v.kind = "float"    -> PsonFloat(Number(v))
    [] v.kind = "discrete" -> Fixed("discrete", Number(v))
    [] v.kind = "text"     -> PsonText(v.holds)
    [] v.kind = "bytes"    -> Tag("bytes", Len(v.holds)) \o v.holds
    [] v.kind = "array"    -> Tag("array", Len(v.holds))
                              \o FlattenSeq([k \in DOMAIN v.holds |-> Pson(v.holds[k])])
    [] v.kind = "object"   ->
         Tag("map", Len(v.holds))
           \o FlattenSeq([k \in DOMAIN v.holds |->
                            PsonText(v.holds[k].key) \o Pson(v.holds[k].value)])

\* A field that is a number is a varint, and 0 when it is negative.
Field(f, v) ==
  IF v.kind \in {"unsigned", "integer"}
  THEN <<8 * f>> \o Varint(IF Number(v) >= 0 THEN Number(v) ELSE 0)
  ELSE <<8 * f + 2>> \o Pson(v)

\* The fields are in an unordered_map: order is the one it iterates in.
Body(fields, order) ==
  FlattenSeq([k \in DOMAIN order |-> Field(order[k], fields[order[k]])])

Frame(type, body) == <<type>> \o Varint(Len(body)) \o body

-----------------------------------------------------------------------------
(* Decoding.  The result of decoding from position at: whether it          *)
(* succeeded, what it left in its target, and where the next byte is.      *)

Result(ok, value, at) == [ok |-> ok, value |-> value, at |-> at]

\* Bits that do not fit in the width are shifted out.
RECURSIVE VarintFrom(_, _, _, _, _)
VarintFrom(bytes, at, width, n, bit_pos) ==
  IF at > Len(bytes) \/ bit_pos >= width THEN Result(FALSE, n, at)
  ELSE LET sum == (n + (bytes[at] % 128) * 2^bit_pos) % 2^width
       IN IF bytes[at] < 128 THEN Result(TRUE, sum, at + 1)
          ELSE VarintFrom(bytes, at + 1, width, sum, bit_pos + 7)

VarintAt(bytes, at, width) == VarintFrom(bytes, at, width, 0, 0)

TagAt(bytes, at) ==
  IF at > Len(bytes) THEN [ok |-> FALSE, wire |-> 0, value |-> 0, at |-> at]
  ELSE LET rest == VarintAt(bytes, at + 1, Wide)
           short == bytes[at] % 32
       IN [wire |-> bytes[at] \div 32]
            @@ (IF short = 31 THEN rest ELSE Result(TRUE, short, at + 1))

\* read() of n bytes.
BytesAt(bytes, type, at, n) ==
  IF at + n - 1 > Len(bytes) THEN Result(FALSE, Null, at)
  ELSE Result(TRUE, Value(type, SubSeq(bytes, at, at + n - 1)), at + n)

\* int64_t: the upper half of the uint64_t wraps.
Signed(n) ==
  LET unsigned == n % 2^Wide
  IN IF unsigned >= 2^(Wide - 1) THEN unsigned - 2^Wide ELSE unsigned

\* object[key] = value.
Assigned(pairs, key, value) ==
  IF \E k \in DOMAIN pairs : pairs[k].key = key
  THEN [k \in DOMAIN pairs |->
          IF pairs[k].key = key THEN [key |-> key, value |-> value] ELSE pairs[k]]
  ELSE Append(pairs, [key |-> key, value |-> value])

RECURSIVE PsonAt(_, _), ElementsAt(_, _, _, _), PairsAt(_, _, _, _)
PsonAt(bytes, at) ==
  LET tag == TagAt(bytes, at)
      n == tag.value
      failed == Result(FALSE, Null, tag.at)
  IN CASE ~tag.ok -> failed
       [] tag.wire = Wire.unsigned -> Result(TRUE, Unsigned(n), tag.at)
       [] tag.wire = Wire.signed   -> Result(TRUE, Integer(Signed(2^Wide - n)), tag.at)
       [] tag.wire = Wire.floating ->
            IF n > 1 THEN failed ELSE BytesAt(bytes, "float", tag.at, 1)
       [] tag.wire = Wire.discrete ->
            IF n > 2 THEN failed ELSE Result(TRUE, Value("discrete", <<n>>), tag.at)
       [] tag.wire \in {Wire.text, Wire.bytes} ->
            IF n >= 2^Narrow THEN failed
            ELSE BytesAt(bytes, IF tag.wire = Wire.text THEN "text" ELSE "bytes", tag.at, n)
       [] tag.wire = Wire.map      -> PairsAt(bytes, tag.at, n, <<>>)
       [] tag.wire = Wire.array    -> ElementsAt(bytes, tag.at, n, <<>>)

ElementsAt(bytes, at, n, elements) ==
  LET array == Value("array", elements)
      next == PsonAt(bytes, at)
  IN CASE n = 0    -> Result(TRUE, array, at)
       [] ~next.ok -> Result(FALSE, array, at)
       [] OTHER    -> ElementsAt(bytes, next.at, n - 1, Append(elements, next.value))

PairsAt(bytes, at, n, pairs) ==
  LET object == Value("object", pairs)
      tag == TagAt(bytes, at)
      key == BytesAt(bytes, "text", tag.at, tag.value)
      next == PsonAt(bytes, key.at)
      now == Assigned(pairs, key.value.holds, next.value)
  IN CASE n = 0 -> Result(TRUE, object, at)
       [] \/ ~tag.ok \/ tag.wire # Wire.text
          \/ tag.value >= 2^Narrow \/ ~key.ok -> Result(FALSE, object, at)
       [] ~next.ok -> Result(FALSE, Value("object", now), at)
       [] OTHER    -> PairsAt(bytes, next.at, n - 1, now)

\* fields_ is indexed by a uint8_t.
FieldOf(tag) == (tag \div 8) % 256

NoFields == [f \in {} |-> Null]

\* What decode() leaves in the message: all fields up to the first error.
RECURSIVE FieldsFrom(_, _, _)
FieldsFrom(bytes, at, fields) ==
  LET tag == VarintAt(bytes, at, Narrow)
      f == FieldOf(tag.value)
      number == VarintAt(bytes, tag.at, Narrow)
      pson == PsonAt(bytes, tag.at)
      wire == tag.value % 8
  IN CASE at > Len(bytes) -> Result(TRUE, fields, at)
       [] ~tag.ok -> Result(FALSE, fields, at)
       [] wire = 0 ->
            IF number.ok
            THEN FieldsFrom(bytes, number.at, (f :> Unsigned(number.value)) @@ fields)
            ELSE Result(FALSE, fields, at)
       [] wire = 2 ->
            IF pson.ok THEN FieldsFrom(bytes, pson.at, (f :> pson.value) @@ fields)
            ELSE Result(FALSE, (f :> pson.value) @@ fields, at)
       [] OTHER -> Result(FALSE, fields, at)

Decoded(body) == FieldsFrom(body, 1, NoFields)

-----------------------------------------------------------------------------
(* Values as the application compares them                                 *)

\* Two values are equal as JSON: numbers by their value, whatever their type.
RECURSIVE Canonical(_)
Canonical(v) ==
  CASE v.kind \in {"unsigned", "integer"} -> Value("number", <<Quarters * Number(v)>>)
    [] v.kind = "float"  -> Value("number", v.holds)
    [] v.kind = "array"  -> Value("array", [k \in DOMAIN v.holds |-> Canonical(v.holds[k])])
    [] v.kind = "object" ->
         Value("object", [k \in DOMAIN v.holds |->
                            [key |-> v.holds[k].key, value |-> Canonical(v.holds[k].value)]])
    [] OTHER -> v

SameFields(a, b) ==
  /\ DOMAIN a = DOMAIN b
  /\ \A f \in DOMAIN a : Canonical(a[f]) = Canonical(b[f])
===============================================================================
