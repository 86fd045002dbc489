-------------------------------- MODULE Wire --------------------------------
(***************************************************************************)
(* internal/protocol/wire: variable-length integers and the framing of     *)
(* packets.  Group, WordBits and MaxVarIntBytes are 7, 32 and 5 in the     *)
(* source; a byte is a group of bits and the bit that says another byte    *)
(* follows.                                                                *)
(***************************************************************************)
EXTENDS Integers, Sequences

CONSTANTS Group, WordBits, MaxVarIntBytes

\* A number of the word's width has groups for MaxVarIntBytes bytes at most.
NumbersFit ==
    /\ {Group, WordBits, MaxVarIntBytes} \subseteq Nat \ {0}
    /\ WordBits <= Group * MaxVarIntBytes

ASSUME WireAssumption == NumbersFit

\* 1 << n.
Shifted[n \in Nat] == IF n = 0 THEN 1 ELSE 2 * Shifted[n - 1]

More == Shifted[Group]              \* the bit 0x80
Byte == 0..(2 * More - 1)

Word == Shifted[WordBits]
Half == Shifted[WordBits - 1]
Int32 == -Half..(Half - 1)

\* uint32 of an int32, and int32 of any number.
Unsigned(n) == n % Word
Signed(n) == IF n % Word < Half THEN n % Word ELSE (n % Word) - Word

-----------------------------------------------------------------------------
(***************************************************************************)
(* Numbers.                                                                *)
(***************************************************************************)

\* What is left of a number fits one byte.
LastGroup(u) == u < More

\* What the loops of WriteVarInt and VarIntLen have left for byte k.
Left(u, k) == u \div Shifted[Group * (k - 1)]

Turns(u) ==
    CHOOSE k \in 1..MaxVarIntBytes :
        LastGroup(Left(u, k)) /\ \A j \in 1..(k - 1) : ~LastGroup(Left(u, j))

WriteVarInt(value) ==
    LET u == Unsigned(value)
    IN  [k \in 1..Turns(u) |->
            IF k = Turns(u) THEN Left(u, k) ELSE More + (Left(u, k) % More)]

VarIntLen(value) ==
    LET short == {i \in 1..(MaxVarIntBytes - 1) : LastGroup(Left(Unsigned(value), i))}
    IN  IF short = {} THEN MaxVarIntBytes
        ELSE CHOOSE i \in short : \A j \in short : i <= j

\* A read: the value and the rest of the input, or an error.
Got(value, rest) == [ok |-> TRUE, value |-> value, rest |-> rest]
ReadError == [ok |-> FALSE, value |-> 0, rest |-> <<>>]

Drop(in, n) == SubSeq(in, n + 1, Len(in))

\* The last byte of a number, 0 if the input ends or the bytes go on too long.
NumberEnd(in) ==
    LET ends == {i \in DOMAIN in : in[i] < More /\ i <= MaxVarIntBytes}
    IN  IF ends = {} THEN 0 ELSE CHOOSE i \in ends : \A j \in ends : i <= j

\* The groups of the first n bytes, the lowest one first.
Groups(in, n) ==
    LET sum[k \in 0..n] ==
            IF k = 0 THEN 0
            ELSE sum[k - 1] + (in[k] % More) * Shifted[Group * (k - 1)]
    IN  sum[n]

\* Groups above the width are shifted out.
ReadVarInt(in) ==
    IF NumberEnd(in) = 0 THEN ReadError
    ELSE Got(Signed(Groups(in, NumberEnd(in))), Drop(in, NumberEnd(in)))

-----------------------------------------------------------------------------
(***************************************************************************)
(* Packets.                                                                *)
(***************************************************************************)

Packet == [id : Int32, data : Seq(Byte)]

Body(packet) == WriteVarInt(packet.id) \o packet.data

\* Mutant: the length of a packet is that of its data.
BodyLengthOfData(packet) == Len(packet.data)

BodyLength(packet) == Len(Body(packet))

WritePacket(packet) == WriteVarInt(BodyLength(packet)) \o Body(packet)

\* The length is read and checked against the limit in force, then as many
\* bytes are read; the ID is read from these, what is left of them is the data.
ReadPacket(in, maxSize) ==
    LET length == ReadVarInt(in)
        id     == ReadVarInt(SubSeq(length.rest, 1, length.value))
    IN  IF \/ ~length.ok
           \/ length.value < 0 \/ length.value > maxSize
           \/ length.value > Len(length.rest)
           \/ ~id.ok
        THEN ReadError
        ELSE Got([id |-> id.value, data |-> id.rest], Drop(length.rest, length.value))

-----------------------------------------------------------------------------
(***************************************************************************)
(* Streams.                                                                *)
(***************************************************************************)

\* Stream(packets)[n] is the stream after the first n packets.
Stream(packets) ==
    LET bytes[n \in 0..Len(packets)] ==
            IF n = 0 THEN <<>> ELSE bytes[n - 1] \o WritePacket(packets[n])
    IN  bytes

\* A reader is what it has read and the bytes it has not.
ReadNext(reader, maxSize) ==
    LET next == ReadPacket(reader.rest, maxSize)
    IN  IF next.ok THEN [got |-> Append(reader.got, next.value), rest |-> next.rest]
        ELSE reader

\* Readers(in, maxSize)[n] is the reader of a stream after n calls; no packet is
\* empty, so that Len(in) calls come to the end or to an error, the last thing
\* that is read.
Readers(in, maxSize) ==
    LET reader[n \in 0..Len(in)] ==
            IF n = 0 THEN [got |-> <<>>, rest |-> in] ELSE ReadNext(reader[n - 1], maxSize)
    IN  reader

ReadPackets(in, maxSize) == Readers(in, maxSize)[Len(in)].got

\* However a stream of packets is cut, the reader gets exactly those that have
\* arrived whole, unchanged.
PacketsSelfDelimiting(packets, arrived, maxSize) ==
    \E whole \in 0..Len(packets) :
        /\ Len(Stream(packets)[whole]) <= Len(arrived)
        /\ whole < Len(packets) => Len(arrived) < Len(Stream(packets)[whole + 1])
        /\ ReadPackets(arrived, maxSize) = SubSeq(packets, 1, whole)

\* VarIntLen predicts the length of a number.
LengthsPredicted(value) == VarIntLen(value) = Len(WriteVarInt(value))

=============================================================================
