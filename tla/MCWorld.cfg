SPECIFICATION Spec
CONSTANTS
    Group = 2
    WordBits = 9
    MaxVarIntBytes = 5
    Edge = 2
    Bits = 1
    LongBits = 4
    Sections = 2
    Sizes <- MCSizes
    Palettes <- MCPalettes
    VarInts <- MCVarInts
    Options <- MCOptions
    Spawns <- MCSpawns
    StateOf <- MCStateOf
    Codecs <- MCCodecs
INVARIANTS
    LoadKeepsBlocks
    SpawnInChunk
    ClientSeesWorld
    WholeSchematicSent
