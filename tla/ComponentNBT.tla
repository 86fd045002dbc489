---------------------------- MODULE ComponentNBT ----------------------------
(***************************************************************************)
(* componentJSONToAnonymousNBT (play_events.go): a text component, as JSON *)
(* without a schema, becomes the NBT modern clients read.  The output is a *)
(* sequence of symbols, one for each byte of a string and one for each     *)
(* tag, count and number.  The constants are small stand-ins.              *)
(***************************************************************************)
EXTENDS Integers, Sequences, SequencesExt

CONSTANTS LengthMod,                \* 2^16, of the length of a string
          IntMod, LongMod,          \* 2^32 and 2^64
          FloatBits, DoubleBits,    \* significant bits: 24 and 53
          FloatEnd, DoubleEnd       \* 2^128 and 2^1024, the first number beyond

\* JSON, as json.Decoder with UseNumber returns it.  The fields of an object
\* are in the order in which the writer's loop over the map meets them.  A
\* "decimal" is a number written with a point or an exponent; its value here is
\* whole, as rounding to significant bits does not depend on the scale.  A
\* string is the sequence of its bytes in UTF-8.
Object(fields) == [type |-> "object", fields |-> fields]
Array(values)  == [type |-> "array", values |-> values]
Str(bytes)     == [type |-> "string", bytes |-> bytes]
Bool(value)    == [type |-> "bool", n |-> IF value THEN 1 ELSE 0]
IntNumber(n)   == [type |-> "int", n |-> n]
Decimal(n)     == [type |-> "decimal", n |-> n]
Null           == [type |-> "null", n |-> 0]

Tag(name)   == <<"tag", name>>
Number(n)   == <<"number", n>>
Byte(b)     == <<"byte", b>>
ErrorMark   == <<"error", 0>>   \* the writer has returned an error

Failed(out) == Contains(out, ErrorMark)

\* The bytes of the characters that UTF-8 and the modified UTF-8 of the client
\* write alike; of a character above U+FFFF a client can read no byte.
Common  == "common"
Foreign == "foreign"

-----------------------------------------------------------------------------
(***************************************************************************)
(* The writer.                                                             *)
(***************************************************************************)

IsNumber(v) == v.type \in {"int", "decimal"}

Size(n) == IF n < 0 THEN -n ELSE n

\* The place of the last of a number's significant bits.
RECURSIVE LastPlace(_, _)
LastPlace(bits, size) ==
    IF size < 2^bits THEN 1 ELSE 2 * LastPlace(bits, size \div 2)

\* The nearest number of so many significant bits, of two the even one.
Nearest(bits, n) ==
    LET place == LastPlace(bits, Size(n))
        below == Size(n) \div place
        twice == 2 * (Size(n) % place)
        near  == place * (IF twice > place \/ (twice = place /\ below % 2 = 1)
                          THEN below + 1 ELSE below)
    IN  IF n < 0 THEN -near ELSE near

\* Number.Int64 returns no error, and Number.Float64 none.
HasInt64(v)   == v.type = "int" /\ -LongMod <= 2 * v.n /\ 2 * v.n < LongMod
HasFloat64(v) == IsNumber(v) /\ Size(Nearest(DoubleBits, v.n)) < DoubleEnd

\* int32 of an int64.
Int32(n) == LET m == n % IntMod IN IF 2 * m < IntMod THEN m ELSE m - IntMod

\* float32 of the double nearest to a number; FloatEnd and -FloatEnd stand for
\* the infinities.
Float32(n) ==
    LET float == Nearest(FloatBits, Nearest(DoubleBits, n))
    IN  IF float >= FloatEnd THEN FloatEnd
        ELSE IF float <= -FloatEnd THEN -FloatEnd ELSE float

\* writeRawNBTString: the length is cut to 16 bits, the bytes are not.
writeRawNBTString(bytes) ==
    <<Number(Len(bytes) % LengthMod)>> \o [i \in DOMAIN bytes |-> Byte(bytes[i])]

\* jsonNumberNBTTag.
jsonNumberNBTTag(v) ==
    CASE v.type = "decimal" /\ HasFloat64(v) -> "float"
      [] HasInt64(v) -> "int"
      [] OTHER       -> "error"

\* jsonNBTTag; a number that fits nothing, and null, are strings.
jsonNBTTag(v) ==
    CASE v.type = "object"  -> "compound"
      [] v.type = "array"   -> "list"
      [] v.type = "bool"    -> "byte"
      [] IsNumber(v) /\ jsonNumberNBTTag(v) # "error" -> jsonNumberNBTTag(v)
      [] OTHER              -> "string"

\* Mutant: every element of a list by its own type.
ElementTagOwn(values, v) == jsonNBTTag(v)

\* The type of all elements of a list: that of the first.
ElementTag(values, v) == jsonNBTTag(Head(values))

\* writeNamedJSONNBT, writeJSONListPayload and writeJSONNBTPayload.  A value
\* that is not of the type of its tag is written as the zero value of that
\* type, a number as an error.
RECURSIVE writeJSONNBTPayload(_, _)
writeJSONNBTPayload(tag, v) ==
    LET named(field) ==
            LET childTag == jsonNBTTag(field.value)
            IN  <<Tag(childTag)>> \o writeRawNBTString(field.name)
                    \o writeJSONNBTPayload(childTag, field.value)
        fields == IF v.type = "object" THEN v.fields ELSE <<>>
        values == IF v.type = "array" THEN v.values ELSE <<>>
    IN  CASE tag = "compound" ->
                 FlattenSeq([i \in DOMAIN fields |-> named(fields[i])]) \o <<Tag("end")>>
          [] tag = "list" ->
                 <<Tag(IF values = <<>> THEN "end" ELSE jsonNBTTag(Head(values))),
                   Number(Len(values))>>
                 \o FlattenSeq([i \in DOMAIN values |->
                        writeJSONNBTPayload(ElementTag(values, values[i]), values[i])])
          [] tag = "string" -> writeRawNBTString(IF v.type = "string" THEN v.bytes ELSE <<>>)
          [] tag = "byte"   -> <<Number(IF v.type = "bool" THEN v.n ELSE 0)>>
          [] tag = "int"    -> <<IF HasInt64(v) THEN Number(Int32(v.n)) ELSE ErrorMark>>
          [] tag = "float"  -> <<IF HasFloat64(v) THEN Number(Float32(v.n)) ELSE ErrorMark>>

\* writeAnonymousJSONNBT, writeAnonymousJSONListNBT, writeJSONNumberNBTPayload:
\* the root, without a name; null is an empty compound.
writeAnonymousJSONNBT(v) ==
    CASE v.type = "null" -> <<Tag("compound"), Tag("end")>>
      [] IsNumber(v) /\ jsonNumberNBTTag(v) = "error" -> <<ErrorMark>>
      [] OTHER -> <<Tag(jsonNBTTag(v))>> \o writeJSONNBTPayload(jsonNBTTag(v), v)

-----------------------------------------------------------------------------
(***************************************************************************)
(* The client.                                                             *)
(***************************************************************************)

\* A value read and the position behind it; position 0 is a failure.
Unreadable == [value |-> <<>>, pos |-> 0]

At(in, pos) == IF pos \in DOMAIN in THEN in[pos] ELSE ErrorMark

\* A string of so many bytes, in modified UTF-8.
readString(in, pos) ==
    IF At(in, pos)[1] # "number" THEN Unreadable
    ELSE LET length == in[pos][2]
         IN  IF \E i \in 1..length : At(in, pos + i) # Byte(Common) THEN Unreadable
             ELSE [value |-> <<"string", [i \in 1..length |-> in[pos + i][2]]>>,
                   pos   |-> pos + 1 + length]

RECURSIVE readPayload(_, _, _), readFields(_, _, _), readElements(_, _, _, _, _)

readPayload(in, pos, tag) ==
    CASE tag = "compound" -> readFields(in, pos, <<>>)
      [] tag = "list" ->
             IF At(in, pos)[1] # "tag" \/ At(in, pos + 1)[1] # "number" THEN Unreadable
             ELSE readElements(in, pos + 2, in[pos][2], in[pos + 1][2], <<>>)
      [] tag = "string" -> readString(in, pos)
      [] tag \in {"byte", "int", "float"} ->
             IF At(in, pos)[1] # "number" THEN Unreadable
             ELSE [value |-> <<tag, in[pos][2]>>, pos |-> pos + 1]
      [] OTHER -> Unreadable

readFields(in, pos, fields) ==
    IF At(in, pos)[1] # "tag" THEN Unreadable
    ELSE IF in[pos][2] = "end" THEN [value |-> <<"compound", fields>>, pos |-> pos + 1]
    ELSE LET name  == readString(in, pos + 1)
             child == readPayload(in, name.pos, in[pos][2])
         IN  IF name.pos = 0 \/ child.pos = 0 THEN Unreadable
             ELSE readFields(in, child.pos,
                             Append(fields, <<name.value[2], child.value>>))

readElements(in, pos, tag, count, values) ==
    IF count = 0 THEN [value |-> <<"list", values>>, pos |-> pos]
    ELSE LET child == readPayload(in, pos, tag)
         IN  IF child.pos = 0 THEN Unreadable
             ELSE readElements(in, child.pos, tag, count - 1, Append(values, child.value))

\* What the client makes of a component: the value, if it is all there is.
Decode(in) ==
    IF At(in, 1)[1] # "tag" THEN Unreadable
    ELSE LET root == readPayload(in, 2, in[1][2])
         IN  IF root.pos = Len(in) + 1 THEN root ELSE Unreadable

-----------------------------------------------------------------------------
(***************************************************************************)
(* What the JSON means as NBT, and the JSON for which that is defined.     *)
(***************************************************************************)

RECURSIVE Meaning(_), Fits(_), Expressible(_)

Meaning(v) ==
    CASE v.type = "object" ->
             <<"compound", [i \in DOMAIN v.fields |->
                               <<v.fields[i].name, Meaning(v.fields[i].value)>>]>>
      [] v.type = "array"   -> <<"list", [i \in DOMAIN v.values |-> Meaning(v.values[i])]>>
      [] v.type = "string"  -> <<"string", v.bytes>>
      [] v.type = "bool"    -> <<"byte", v.n>>
      [] v.type = "int"     -> <<"int", v.n>>
      [] v.type = "decimal" -> <<"float", v.n>>

\* Strings, names among them, whose length fits its field and whose characters
\* are at most U+FFFF.
ReadableString(bytes) == Len(bytes) < LengthMod /\ ~Contains(bytes, Foreign)

Fits(v) ==
    CASE v.type = "object" ->
             \A i \in DOMAIN v.fields :
                 ReadableString(v.fields[i].name) /\ Fits(v.fields[i].value)
      [] v.type = "array"  -> \A i \in DOMAIN v.values : Fits(v.values[i])
      [] v.type = "string" -> ReadableString(v.bytes)
      [] OTHER -> TRUE

\* Values NBT has: integers of 32 bits, decimals that are finite floats, lists of
\* one type, no null.
Expressible(v) ==
    CASE v.type = "object" -> \A i \in DOMAIN v.fields : Expressible(v.fields[i].value)
      [] v.type = "array"  ->
             \A i \in DOMAIN v.values :
                 Expressible(v.values[i]) /\ v.values[i].type = v.values[1].type
      [] v.type = "int"     -> Int32(v.n) = v.n
      [] v.type = "decimal" -> Float32(v.n) = v.n /\ Size(v.n) < FloatEnd
      [] OTHER -> v.type # "null"

=============================================================================
