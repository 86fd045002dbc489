CONSTANTS
    Names <- MCNames
    ConfigFiles <- MCConfigFiles
    Codec <- MCCodec
    CodecDimension <- MCCodecDimension
SPECIFICATION Spec
INVARIANTS
    BedrockBelowSpawn
