--------------------------- MODULE MCConversions ---------------------------
(***************************************************************************)
(* The parts of the server that compute without state, each on all inputs  *)
(* of a bounded form: an input is chosen, then converted.  Beside them the *)
(* start of main with all files of MCConfiguration.                        *)
(***************************************************************************)
EXTENDS MCConfiguration, FiniteSets, SequencesExt

CONSTANTS MaxTokens,            \* bound on the length of a text
          LengthMod, IntMod, LongMod,          \* of ComponentNBT, with the next
          FloatBits, DoubleBits, FloatEnd, DoubleEnd,
          Group, WordBits, MaxVarIntBytes,     \* of Wire
          MaxSize               \* bound on the size of a packet that is read

Play     == INSTANCE PlayPackets
Mini     == INSTANCE MiniMessage
NBT      == INSTANCE ComponentNBT
Framing  == INSTANCE Wire
Registry == INSTANCE RegistryFiles WITH Bad <- "bad"

VARIABLES what,     \* the component at work
          input,
          output    \* <<>>, then <<the result>>

conversion == <<what, input, output>>

-----------------------------------------------------------------------------
(***************************************************************************)
(* Inputs.                                                                 *)
(***************************************************************************)

\* Every operation on every protocol that reaches play.
Calls == [protocol : Play!PlayProtocols, op : Play!Ops]

Tokens ==
    {Mini!Letter, Mini!Malformed}
    \cup {Mini!OpenTag(n) : n \in {"red", "bold", "b", "!bold", "gradient", "reset",
                                   "br", "lang", "blink"}}
    \cup {Mini!CloseTag(n) : n \in {"red", "bold", "gradient", "br"}}
    \cup {Mini!SlashTag("bold")}

\* A text is built token by token, so that TLC need not enumerate them all at
\* the start.
Texts == {<<>>}

\* JSON values: scalars, objects and arrays of up to two of them, and these
\* once more inside an object or array.
Text(length) == [i \in 1..length |-> NBT!Common]

\* Numbers: an int, one beyond 32 bits, beyond 64 bits, beyond a double; a
\* decimal that is a float, one that is not, one that is rounded twice, one
\* beyond the floats and one beyond the doubles.
Scalars ==
    {NBT!Str(<<>>), NBT!Str(Text(2)), NBT!Str(<<NBT!Common, NBT!Foreign>>), NBT!Null}
    \cup {NBT!Bool(b) : b \in BOOLEAN}
    \cup {NBT!IntNumber(n) : n \in {3, -9, 40, 300}}
    \cup {NBT!Decimal(n) : n \in {2, -5, 41, 100, 300}}

Fields(values) == {<<[name |-> n, value |-> v]>> : n \in {<<>>, Text(1)}, v \in values}
                  \cup {<<[name |-> Text(1), value |-> v], [name |-> Text(2), value |-> w]>> :
                           v \in values, w \in values}

Compounds(values) ==
    {NBT!Object(f) : f \in {<<>>} \cup Fields(values)}
    \cup {NBT!Array(a) : a \in {<<>>} \cup {<<v>> : v \in values}
                               \cup {<<v, w>> : v \in values, w \in values}}

Inner == {NBT!Object(<<>>), NBT!Array(<<>>), NBT!Array(<<NBT!Str(Text(1)), NBT!Null>>),
          NBT!Array(<<NBT!Decimal(1), NBT!IntNumber(40)>>),
          NBT!Object(<<[name |-> Text(1), value |-> NBT!Str(Text(1))]>>), NBT!Str(Text(1)),
          NBT!Str(Text(LengthMod)), NBT!IntNumber(1)}

Components ==
    Scalars \cup Compounds(Scalars) \cup Compounds(Inner)
    \cup {NBT!Array(<<c>>) : c \in Compounds(Inner)}

\* Two packets one after another, cut somewhere; a byte of data may look like
\* the end of a length or like its middle.
Packets == [id : {-2^(WordBits - 1), -1, 0, 1, 2^Group - 1, 2^Group, 2^(WordBits - 1) - 1},
            data : {<<>>, <<0>>, <<2^Group>>, <<1, 2^(Group + 1) - 1, 0>>}]

Streams == [first : Packets, second : Packets, cut : 0..(2 * MaxSize + 4)]

\* The files of a zip, and the same as one JSON file.
Entries ==
    [protocol : {Registry!NoProtocol, 767, 769}, format : {0, 1, 2}, declared : {0, 769},
     registries : {<<>>, <<<<"r1">>, <<"r2", "bad">>>>, <<<<"r1">>>>},
     tags : {<<>>, <<"t1">>}, codec : {<<>>, <<"c1">>, <<"bad">>}, dimension : {<<>>, <<"d1">>}]

Plain == {e \in Entries : e.format = 1 /\ e.declared = 0}

DataFiles == {<<>>} \cup {<<e>> : e \in Entries} \cup {<<e, f>> : e \in Plain, f \in Plain}

\* No file is read.
NoFile == file = "none" /\ fileCfg = <<>> /\ world = <<>>

Start ==
    /\ output = <<>>
    /\ \/ what = "main"      /\ Init   /\ input = <<>>
       \/ what = "call"      /\ NoFile /\ input \in Calls
       \/ what = "text"      /\ NoFile /\ input \in Texts
       \/ what = "component" /\ NoFile /\ input \in Components
       \/ what = "stream"    /\ NoFile /\ input \in Streams
       \/ what = "data"      /\ NoFile /\ input \in DataFiles

-----------------------------------------------------------------------------

Converted(component, result) ==
    /\ what = component
    /\ output = <<>>
    /\ output' = <<result>>
    /\ UNCHANGED <<vars, what, input>>

Call == Converted("call", Play!Outcome(input.protocol, input.op))

\* Bound: a text has at most MaxTokens tokens.
Type ==
    /\ what = "text" /\ output = <<>>
    /\ Len(input) < MaxTokens
    /\ \E token \in Tokens : input' = Append(input, token)
    /\ UNCHANGED <<vars, what, output>>

ParseText == Converted("text", Mini!Parse(input))

Encode == Converted("component", NBT!writeAnonymousJSONNBT(input))

Send == Converted("stream", Framing!Stream(<<input.first, input.second>>)[2])

LoadData ==
    Converted("data", [zip |-> Registry!LoadZipBytes(input), json |-> Registry!LoadBytes(input)])

Main == what = "main" /\ Next /\ UNCHANGED conversion

Done == output # <<>> /\ UNCHANGED <<vars, conversion>>

Work == Main \/ Call \/ Type \/ ParseText \/ Encode \/ Send \/ LoadData \/ Done

AllSpec == Start /\ [][Work]_<<vars, conversion>>

Is(component) == what = component /\ output # <<>>

-----------------------------------------------------------------------------
(***************************************************************************)
(* Properties.                                                             *)
(***************************************************************************)

\* What sessionCapabilities announces works, on every protocol, although flag,
\* writer and reader look different packets up: a well-formed call succeeds
\* exactly where its flag is set, a call that fails has written nothing (no
\* title is left half sent), and what the client answers is heard.
CapabilitiesTruthful ==
    Is("call") =>
        LET p      == input.protocol
            kind   == input.op.kind
            result == output[1]
            Heard(event) == \E packet \in DOMAIN Play!ToServer, slash \in BOOLEAN :
                                Play!EventOf(p, packet, slash) = event
        IN  /\ Play!WellFormed(input.op) =>
                   (Play!Capability(p, kind) <=> result.err = "none")
            /\ result.err # "none" => result.frames = <<>>
            /\ Heard("Chat") /\ Heard("Command")
            /\ Play!Capability(p, "AddResourcePack") => Heard("ResourcePackResponse")
            /\ Play!Capability(p, "ShowDialog") => Heard("DialogClick")

\* The packets that operations of one part write as the old title packet carry
\* an action number that no other such operation uses on that protocol.
TitleActionsDistinct ==
    Is("call") =>
        LET OneTitle(frames) == Len(frames) = 1 /\ frames[1].packet = "title"
            mine == output[1].frames
        IN  \A other \in Play!Ops :
                LET theirs == Play!Outcome(input.protocol, other).frames
                IN  OneTitle(mine) /\ OneTitle(theirs)
                        /\ mine[1].action = theirs[1].action => other = input.op

\* The gradient colours its runes one by one, each with its own place below the
\* number of them, in nested elements too.
GradientInOrder(parts) ==
    \A k \in DOMAIN parts :
        LET color(j) == parts[j].style.color
        IN  Len(color(k)) = 4 =>
                /\ color(k)[3] < color(k)[4]
                /\ color(k)[3] = Cardinality({j \in 1..(k - 1) :
                       Len(color(j)) = 4 /\ color(j)[2] = color(k)[2]})

\* Tags nobody closes, closes twice or in the wrong order give each rune the
\* style of the tags around it, the innermost last, and nothing is lost: the
\* parser's recursion and the renderer's counters agree with that definition.
StyledAsNested ==
    Is("text") /\ Mini!Understood(input) =>
        LET parts == output[1]
            place(color) == SubSeq(color, 1, IF Len(color) > 2 THEN 2 ELSE Len(color))
        IN  /\ [k \in DOMAIN parts |-> [parts[k] EXCEPT !.style.color = place(@)]]
                   = Mini!Meaning(input)
            /\ GradientInOrder(parts)

\* Whatever the JSON of a component, if its strings are short enough and have no
\* character above U+FFFF, the NBT is read to its last byte, even where lists mix
\* types and numbers fit no type.  What NBT can express arrives unchanged: a
\* decimal if it is a float, an integer if it has 32 bits.
ComponentFaithful ==
    Is("component") /\ NBT!Fits(input) =>
        LET read == NBT!Decode(output[1])
        IN  /\ ~NBT!Failed(output[1]) => read.pos # 0
            /\ NBT!Expressible(input) =>
                   ~NBT!Failed(output[1]) /\ read.value = NBT!Meaning(input)

\* However a stream of packets is cut, ReadPacket returns exactly those that have
\* arrived whole, unchanged, and VarIntLen predicts the length of their IDs.
PacketsSelfDelimiting ==
    Is("stream") =>
        LET cut == IF input.cut < Len(output[1]) THEN input.cut ELSE Len(output[1])
        IN  /\ Framing!PacketsSelfDelimiting(<<input.first, input.second>>,
                                             SubSeq(output[1], 1, cut), MaxSize)
            /\ Framing!LengthsPredicted(input.first.id)

\* A zip and a JSON file with the same contents load to the same data or not at
\* all: no protocol appears in one table because it is in another, and one bad
\* entry of several leaves nothing loaded.
LoadersAgree ==
    Is("data") => Registry!LoadersAgree(input, output[1].zip, output[1].json)

\* "Unknown or malformed tags are kept as literal text": no letter of a text
\* disappears.
UnknownTagsKeepText ==
    Is("text") =>
        \A i \in DOMAIN input : input[i] = Mini!Letter =>
            \E k \in DOMAIN output[1] : output[1][k].at = i

=============================================================================
