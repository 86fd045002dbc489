------------------------------- MODULE World -------------------------------
(***************************************************************************)
(* From a schematic to the blocks a client shows: world/schematic decodes  *)
(* the palette and the block data and cuts them into chunks and sections;  *)
(* a play adapter looks the spawn chunk up, translates palette IDs to the  *)
(* client's block states and packs them; the client unpacks them.          *)
(*                                                                         *)
(* Coordinates and IDs are numbers, block names are model values.  Edge,   *)
(* Bits, LongBits and Sections are literals in the source (16, 4, 64, 16). *)
(***************************************************************************)
EXTENDS Wire, FiniteSets, SequencesExt

CONSTANTS Edge,         \* blocks along one side of a section
          Bits,         \* bitsPerBlock
          LongBits,     \* bits of a packed long
          Sections,     \* sections a section mask can name
          Sizes,        \* <<Width, Height, Length>> of the schematics
          Palettes,     \* Palette compounds: block names to IDs
          VarInts,      \* byte strings BlockData is made of
          Options,      \* dimensions given to the loader
          Spawns,       \* spawn positions <<X, Z>>, in half blocks
          StateOf,      \* the client's state of a block name, 0 if it has none
          Codecs        \* dimensions of the registry data, some clients' own

ASSUME WorldAssumption ==
    /\ {Edge, Bits, LongBits, Sections} \subseteq Nat \ {0}
    /\ LongBits % Bits = 0
    /\ (Edge * Edge * Edge) % (LongBits \div Bits) = 0
    /\ \A name \in DOMAIN StateOf : StateOf[name] \in Nat
    /\ \A p \in Palettes : DOMAIN p \subseteq DOMAIN StateOf
    /\ VarInts \subseteq Seq(Byte)
    /\ Sizes \subseteq Int \X Int \X Int /\ Spawns \subseteq Int \X Int
    /\ \A o \in Options : o.minY \in Int
    /\ \A d \in Codecs : d.minY \in Int /\ d.height \in Nat \ {0} /\ d.height % Edge = 0

Volume == Edge * Edge * Edge
PerLong == LongBits \div Bits       \* valuesPerLong
Cells == 0..(Volume - 1)

VARIABLES
    size, input, opts,  \* the schematic's size and palette, the options
    phase,              \* palette, data, blocks, loaded, sent or error
    palette,            \* the decoded palette, 0-based
    ids,                \* the decoded block data
    set,                \* blocks set so far
    chunks,             \* chunk position to its sections, in order of Y
    sent                \* the chunk packet, for which spawn and client

vars == <<size, input, opts, phase, palette, ids, set, chunks, sent>>

given == <<size, input, opts>>

Width == size[1]
Height == size[2]
Length == size[3]
Expected == Width * Height * Length

NotSent == [family |-> "none"]

Init ==
    /\ size \in Sizes
    /\ input \in Palettes
    /\ opts \in Options
    /\ phase = "palette"
    /\ palette = <<>>
    /\ ids = <<>>
    /\ set = 0
    /\ chunks = <<>>
    /\ sent = NotSent

-----------------------------------------------------------------------------
(***************************************************************************)
(* The loader.                                                             *)
(***************************************************************************)

\* The palettes decodePalette may return, none if it reports an error: it
\* ranges over a Go map, so of two names with one ID either may be kept.
decodePalette(names) ==
    LET used == {names[n] : n \in DOMAIN names}
    IN  {p \in UNION {[0..top -> DOMAIN names] : top \in used} :
            /\ used = DOMAIN p
            /\ \A i \in DOMAIN p : names[p[i]] = i}

DecodePalette ==
    /\ phase = "palette"
    /\ \/ /\ \A i \in 1..3 : size[i] > 0
          /\ palette' \in decodePalette(input)
          /\ phase' = "data"
       \/ /\ (\E i \in 1..3 : size[i] <= 0) \/ decodePalette(input) = {}
          /\ phase' = "error"
          /\ UNCHANGED palette
    /\ UNCHANGED <<given, ids, set, chunks, sent>>

\* A loop of its own, with the groups and the limit of Wire: a number, or -1 for
\* an error.
readSchematicVarInt(bytes) ==
    IF NumberEnd(bytes) = 0 THEN -1 ELSE Unsigned(Groups(bytes, NumberEnd(bytes)))

\* Bound: the data holds at most one ID more than the schematic has blocks.
ReadID ==
    /\ phase = "data"
    /\ Len(ids) <= Expected
    /\ \E bytes \in VarInts :
           LET id == readSchematicVarInt(bytes)
           IN  IF id = -1 THEN phase' = "error" /\ UNCHANGED ids
               ELSE ids' = Append(ids, id) /\ UNCHANGED phase
    /\ UNCHANGED <<given, palette, set, chunks, sent>>

\* The end of decodeBlockData.
EndData ==
    /\ phase = "data"
    /\ phase' = IF Len(ids) = Expected THEN "blocks" ELSE "error"
    /\ UNCHANGED <<given, palette, ids, set, chunks, sent>>

blockIndex(x, y, z) == (y * Length + z) * Width + x

\* Mutant: the layers of a section overlap.
SectionIndexOverlap(x, y, z) == (y + z) * Edge + x

sectionIndexInChunk(x, y, z) == (y * Edge + z) * Edge + x

\* sort.Slice by Y, of which no two sections of a chunk have the same.
Sorted(sections) ==
    LET places == DOMAIN sections
        order  == CHOOSE p \in [places -> places] :
                      /\ \A i \in places : \E j \in places : p[j] = i
                      /\ \A i, j \in places : i < j => sections[p[i]].y < sections[p[j]].y
    IN  [i \in places |-> sections[order[i]]]

\* The IDs of a new section are all zero.
NewSection(y) == [y |-> y, blocks |-> [c \in Cells |-> 0]]

\* An absent section is appended and the sections are sorted.
WithSection(sections, y) ==
    IF \E i \in DOMAIN sections : sections[i].y = y THEN sections
    ELSE Sorted(Append(sections, NewSection(y)))

\* setBlock.
setBlock(x, y, z, id) ==
    LET pos      == <<x \div Edge, z \div Edge>>
        old      == IF pos \in DOMAIN chunks THEN chunks[pos] ELSE <<>>
        sections == WithSection(old, y \div Edge)
        s        == CHOOSE i \in DOMAIN sections : sections[i].y = y \div Edge
        cell     == sectionIndexInChunk(x % Edge, y % Edge, z % Edge)
        new      == [sections EXCEPT ![s].blocks[cell] = id]
    IN  [p \in DOMAIN chunks \cup {pos} |-> IF p = pos THEN new ELSE chunks[p]]

OutsidePalette(id) == id >= Cardinality(DOMAIN palette)

\* One turn of the loops of buildWorld over y, z and x.
SetBlock ==
    /\ phase = "blocks"
    /\ set < Expected
    /\ LET x  == set % Width
           z  == (set \div Width) % Length
           y  == set \div (Width * Length)
           id == ids[blockIndex(x, y, z) + 1]
       IN  IF OutsidePalette(id) THEN phase' = "error" /\ UNCHANGED <<set, chunks>>
           ELSE /\ chunks' = setBlock(x, y, z, id)
                /\ set' = set + 1
                /\ phase' = IF set' = Expected THEN "loaded" ELSE phase
    /\ UNCHANGED <<given, palette, ids, sent>>

-----------------------------------------------------------------------------
(***************************************************************************)
(* The dimension.                                                          *)
(***************************************************************************)

\* Mutant: a height is not rounded up to whole sections.
HeightAsGiven(height) == height

normalizeDimensionHeight(height) ==
    IF height % Edge = 0 THEN height ELSE height + (Edge - (height % Edge))

\* defaultDimension, or NormalizeDimension of a dimension with a name.
Dimension ==
    LET fitted == normalizeDimensionHeight(Height)
    IN  IF ~opts.named THEN [minY |-> 0, height |-> fitted]
        ELSE [minY |-> opts.minY,
              height |-> IF opts.height = 0 THEN fitted ELSE opts.height]

-----------------------------------------------------------------------------
(***************************************************************************)
(* The play adapters.                                                      *)
(***************************************************************************)

\* Go's division and conversion to an integer: towards zero.
Quotient(a, b) == IF a >= 0 THEN a \div b ELSE -((-a) \div b)

\* Mutant: a position is truncated towards zero.
ChunkCoordTruncated(value) == Quotient(Quotient(value, 2), Edge)

\* chunkCoord of a position given in half blocks.
chunkCoord(value) ==
    LET toZero == Quotient(value, 2)
        block  == IF value < 0 /\ 2 * toZero # value THEN toZero - 1 ELSE toZero
    IN  IF block >= 0 THEN block \div Edge ELSE -((Edge - 1 - block) \div Edge)

\* findSection: the cells of the first section at y, none if the chunk lacks it.
findSection(sections, y) ==
    LET found == {i \in DOMAIN sections : sections[i].y = y}
    IN  IF found = {} THEN <<>>
        ELSE sections[CHOOSE i \in found : \A j \in found : i <= j].blocks

blockStateForProtocol(id) ==
    IF OutsidePalette(id) THEN 0 ELSE StateOf[palette[id]]

\* The states of a section in the order of its cells, air where it is absent.
SectionStates(blocks) ==
    [i \in 1..Volume |-> IF blocks = <<>> THEN 0 ELSE blockStateForProtocol(blocks[i - 1])]

\* buildLocalPalette340 and buildLocalPaletteModern: local[n] is what the loop has
\* after n cells.
buildLocalPalette(states) ==
    LET local[n \in 0..Volume] ==
            IF n = 0 THEN <<0>>
            ELSE LET before == local[n - 1]
                 IN  IF Contains(before, states[n]) THEN before
                     ELSE Append(before, states[n])
    IN  local[Volume]

\* indexByState.
IndexByState(local, state) == (CHOOSE i \in DOMAIN local : local[i] = state) - 1

\* Mutant: the first value goes to the high end of a long.
BitOffsetHigh(k) == Bits * (PerLong - 1 - k)

BitOffset(k) == Bits * k

\* One long, of which indices are the palette indices: long[k] is the long after k
\* of them.  An index keeps its low bits.
PackLong(indices) ==
    LET long[k \in 0..PerLong] ==
            IF k = 0 THEN 0
            ELSE long[k - 1] + (indices[k] % Shifted[Bits]) * Shifted[BitOffset(k - 1)]
    IN  long[PerLong]

\* packSectionPaletteIndices340 and ...Modern.
packSectionPaletteIndices(states, local) ==
    [j \in 1..(Volume \div PerLong) |->
        PackLong([k \in 1..PerLong |->
                     IndexByState(local, states[(j - 1) * PerLong + k])])]

\* The section loop of encodeChunkData47, and writeSection340 and
\* writeBlockStates766.
WriteSection(family, blocks) ==
    LET states == SectionStates(blocks)
        local  == buildLocalPalette(states)
    IN  IF family = "47" THEN states
        ELSE [palette |-> local, longs |-> packSectionPaletteIndices(states, local)]

\* The mask of writeMapChunk47, ...340, ...Legacy, ...Flat and ...Codec.
SectionMask(sections) == {sections[i].y : i \in DOMAIN sections} \cap 0..(Sections - 1)

\* The sections encodeChunkDataModern writes: every one of the dimension.
DimensionSections ==
    LET first == Quotient(Dimension.minY, Edge)
        count == Quotient(Dimension.height, Edge)
    IN  [i \in 1..(IF count <= 0 THEN Sections ELSE count) |-> first + i - 1]

\* encodeChunkData47, ...340, ...Flat and ...Codec: written[y] are the sections
\* below y that the mask names.
EncodeMasked(family, sections) ==
    LET written[y \in 0..Sections] ==
            IF y = 0 THEN <<>>
            ELSE IF y - 1 \in SectionMask(sections)
                 THEN Append(written[y - 1], WriteSection(family, findSection(sections, y - 1)))
                 ELSE written[y - 1]
    IN  written[Sections]

EncodeChunkData(family, sections) ==
    IF family = "modern"
    THEN [i \in DOMAIN DimensionSections |->
             WriteSection(family, findSection(sections, DimensionSections[i]))]
    ELSE EncodeMasked(family, sections)

WriteMapChunk(family, sections) ==
    [mask |-> SectionMask(sections), data |-> EncodeChunkData(family, sections)]

Families == {"47", "masked", "modern"}

\* The dimensions a client of a family may have been told.  A modern one is told
\* the world's own from 766 on, and one of the registry data before; the others
\* have always the same sections.
ToldTo(family) ==
    IF family = "modern" THEN {Dimension} \cup Codecs
    ELSE {[minY |-> 0, height |-> Sections * Edge]}

\* An adapter looks up and sends the chunk the player spawns in.
SendSpawnChunk(family, spawn) ==
    /\ phase = "loaded"
    /\ LET pos == <<chunkCoord(spawn[1]), chunkCoord(spawn[2])>>
       IN  IF pos \in DOMAIN chunks
           THEN /\ phase' = "sent"
                /\ \E told \in ToldTo(family) :
                       sent' = [family |-> family, spawn |-> spawn, pos |-> pos,
                                told |-> told,
                                packet |-> WriteMapChunk(family, chunks[pos])]
           ELSE phase' = "error" /\ UNCHANGED sent     \* ErrWorldNotFound
    /\ UNCHANGED <<given, palette, ids, set, chunks>>

Terminated == phase \in {"sent", "error"} /\ UNCHANGED vars

Next ==
    \/ DecodePalette \/ ReadID \/ EndData \/ SetBlock
    \/ \E family \in Families, spawn \in Spawns : SendSpawnChunk(family, spawn)
    \/ Terminated

Spec == Init /\ [][Next]_vars

-----------------------------------------------------------------------------
(***************************************************************************)
(* The client.                                                             *)
(***************************************************************************)

\* The sections of the packet that a modern client has room for.
Read == {k \in DOMAIN sent.packet.data : k <= sent.told.height \div Edge}

\* The place in the packet of what the client takes for section y, 0 if there is
\* none: a modern one counts from the min_y it was told.
Place(y) ==
    LET mask == sent.packet.mask
        k    == y - (sent.told.minY \div Edge) + 1
    IN  IF sent.family = "modern" THEN IF k \in Read THEN k ELSE 0
        ELSE IF y \in mask THEN Cardinality({m \in mask : m <= y}) ELSE 0

\* The state a client unpacks for cell c of section y.
Seen(y, c) ==
    IF Place(y) = 0 THEN 0
    ELSE LET data == sent.packet.data[Place(y)]
         IN  IF sent.family = "47" THEN data[c + 1]
             ELSE LET long  == data.longs[c \div PerLong + 1]
                      index == (long \div Shifted[Bits * (c % PerLong)]) % Shifted[Bits]
                  IN  data.palette[index + 1]

-----------------------------------------------------------------------------
(***************************************************************************)
(* Properties.                                                             *)
(***************************************************************************)

\* The ID the schematic has at a position, for the first set blocks.
InSchematic(x, y, z) ==
    x < Width /\ z < Length /\ y < Height /\ blockIndex(x, y, z) < set
Given(x, y, z) == IF InSchematic(x, y, z) THEN ids[blockIndex(x, y, z) + 1] ELSE 0

\* The ID of cell c of section y of a chunk, by position in the schematic.
Wanted(pos, y, c) ==
    Given(pos[1] * Edge + (c % Edge), y * Edge + c \div (Edge * Edge),
          pos[2] * Edge + ((c \div Edge) % Edge))

\* The types of what the loader makes; the IDs of every section are in its palette.
TypeOK ==
    /\ phase \in {"palette", "data", "blocks", "loaded", "sent", "error"}
    /\ ids \in Seq(Nat)
    /\ set \in Nat /\ (phase \notin {"palette", "error"} => set <= Expected)
    /\ \A pos \in DOMAIN chunks : \A i \in DOMAIN chunks[pos] :
           LET s == chunks[pos][i]
           IN  s.y \in Nat /\ s.blocks \in [Cells -> DOMAIN palette]

\* Every cell of every section made so far holds what it should.
Kept ==
    \A pos \in DOMAIN chunks : \A i \in DOMAIN chunks[pos] : \A c \in Cells :
        chunks[pos][i].blocks[c] = Wanted(pos, chunks[pos][i].y, c)

\* Cutting the schematic into chunks and sections neither loses, moves nor
\* overwrites a block, whatever its size: every cell of every section holds the
\* schematic's ID for its position, and palette entry 0 outside the schematic.
LoadKeepsBlocks ==
    /\ Kept
    /\ phase = "loaded" =>
           \A x \in 0..(Width - 1), y \in 0..(Height - 1), z \in 0..(Length - 1) :
               findSection(chunks[<<x \div Edge, z \div Edge>>], y \div Edge) # <<>>

\* The chunk sent is the one the player stands in, on either side of zero.
SpawnInChunk ==
    phase = "sent" => \A i \in 1..2 :
        /\ sent.pos[i] * Edge * 2 <= sent.spawn[i]
        /\ sent.spawn[i] < (sent.pos[i] + 1) * Edge * 2

\* The states of a section fit the packed indices.
Fits(family, sections, y) ==
    family = "47" \/ Len(buildLocalPalette(SectionStates(findSection(sections, y)))) <= Shifted[Bits]

\* What the client shows in every section it got is what the section's blocks
\* translate to.
Translated(y) == \A c \in Cells :
    LET blocks == findSection(chunks[sent.pos], y)
    IN  Seen(y, c) = IF blocks = <<>> THEN 0 ELSE blockStateForProtocol(blocks[c])

\* A modern client accepts a min_y only where a section begins, and a chunk only
\* with all sections it was told of.  One told the registry data's dimension gets
\* sections from the world's min_y all the same, and is covered if that is the one
\* it was told.
ToldAsSent ==
    sent.family = "modern" =>
        /\ sent.told.minY % Edge = 0
        /\ sent.told.height \div Edge <= Len(sent.packet.data)
        /\ sent.told.minY = Dimension.minY

SentSections ==
    IF sent.family = "modern"
    THEN {sent.told.minY \div Edge + k - 1 : k \in Read}
    ELSE sent.packet.mask

\* Masks, local palettes and packed longs of every adapter carry the blocks of
\* each section to the client, as long as the section has no more states than
\* four bits can number, and what the client was told of the dimension begins
\* where the packet does and is no higher.
ClientSeesWorld ==
    phase = "sent" /\ ToldAsSent => \A y \in SentSections :
        Fits(sent.family, chunks[sent.pos], y) => Translated(y)

\* Without a configured dimension no part of the schematic lies above what a
\* modern client told of the world's dimension takes, although sections come in
\* sixteens of layers.
WholeSchematicSent ==
    phase = "sent" /\ sent.family = "modern" /\ ~opts.named /\ sent.told = Dimension =>
        \A i \in DOMAIN chunks[sent.pos] : Place(chunks[sent.pos][i].y) # 0

\* README: "Protocol adapters translate that palette to client-specific block
\* state IDs at chunk serialization time", for any number of states in a section.
TranslatesEveryPalette ==
    phase = "sent" /\ ToldAsSent => \A y \in SentSections : Translated(y)

-----------------------------------------------------------------------------
(***************************************************************************)
(* The inductive invariant behind LoadKeepsBlocks, SpawnInChunk,           *)
(* ClientSeesWorld and WholeSchematicSent.                                 *)
(***************************************************************************)

Values == {0} \cup {ids[k] : k \in Nat}

SectionSet == [y : Nat, blocks : [Cells -> Values]]

Ascending(sections) ==
    \A i, j \in DOMAIN sections : i < j => sections[i].y < sections[j].y

\* How far the loader is.
Progress ==
    /\ phase \in {"palette", "data", "blocks", "loaded", "sent", "error"}
    /\ set \in Nat
    /\ phase \in {"palette", "data"} => set = 0 /\ DOMAIN chunks = {}
    /\ phase \notin {"palette", "error"} \/ DOMAIN chunks # {} =>
           \A k \in 1..3 : size[k] > 0
    /\ phase = "blocks" => set < Expected
    /\ phase \in {"loaded", "sent"} => set = Expected

\* A chunk's sections are sorted, and each was made for a block of a layer that
\* the loader has begun.
Shaped ==
    \A pos \in DOMAIN chunks :
        /\ pos \in Nat \X Nat
        /\ chunks[pos] \in Seq(SectionSet) /\ Ascending(chunks[pos])
        /\ \A i \in DOMAIN chunks[pos] :
               \E y \in 0..(Height - 1) :
                   chunks[pos][i].y = y \div Edge /\ y * Length * Width < set

\* Every block that was set has a section.
Covered ==
    \A x \in 0..(Width - 1), y \in 0..(Height - 1), z \in 0..(Length - 1) :
        blockIndex(x, y, z) < set =>
            /\ <<x \div Edge, z \div Edge>> \in DOMAIN chunks
            /\ \E i \in DOMAIN chunks[<<x \div Edge, z \div Edge>>] :
                   chunks[<<x \div Edge, z \div Edge>>][i].y = y \div Edge

\* What the loader has read, and the IDs it has set.
Indexed ==
    /\ ids \in Seq(Nat)
    /\ phase \in {"data", "blocks", "loaded", "sent"} \/ DOMAIN chunks # {} =>
           \E top \in DOMAIN palette : top \in Nat /\ DOMAIN palette = 0..top
    /\ phase = "blocks" => Len(ids) = Expected
    /\ \A k \in 1..set : ids[k] \in DOMAIN palette

\* The packet has the chunk's sections where a client looks for them.
PacketIsChunk ==
    LET sections == chunks[sent.pos]
        data     == sent.packet.data
    IN  /\ sent.packet.mask = SectionMask(sections)
        /\ sent.family = "modern" =>
               /\ DOMAIN data = DOMAIN DimensionSections
               /\ \A k \in DOMAIN data :
                      data[k] = WriteSection(sent.family,
                                             findSection(sections, DimensionSections[k]))
        /\ sent.family # "modern" =>
               \A y \in sent.packet.mask :
                   data[Cardinality({m \in sent.packet.mask : m <= y})]
                       = WriteSection(sent.family, findSection(sections, y))

\* What was sent is the chunk at the spawn.
SentFromSpawn ==
    phase = "sent" =>
        /\ sent.spawn \in Spawns
        /\ sent.pos = <<chunkCoord(sent.spawn[1]), chunkCoord(sent.spawn[2])>>
        /\ sent.pos \in DOMAIN chunks
        /\ sent.family \in Families
        /\ PacketIsChunk

WorldInv ==
    /\ size \in Sizes /\ opts \in Options
    /\ Progress /\ Shaped /\ Covered /\ Kept /\ SentFromSpawn

=============================================================================
