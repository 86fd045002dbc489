CONSTANTS
    Names <- MCNames
    ConfigFiles <- MCConfigFiles
    Codec <- MCCodec
    CodecDimension <- MCCodecDimension
    MaxTokens = 5
    LengthMod = 4
    IntMod = 16
    LongMod = 64
    FloatBits = 2
    DoubleBits = 4
    FloatEnd = 64
    DoubleEnd = 256
    Group = 2
    WordBits = 9
    MaxVarIntBytes = 5
    MaxSize = 8
SPECIFICATION AllSpec
INVARIANTS
    CapabilitiesTruthful
    TitleActionsDistinct
    WorldAsConfigured
    StyledAsNested
    ComponentFaithful
    PacketsSelfDelimiting
    LoadersAgree
