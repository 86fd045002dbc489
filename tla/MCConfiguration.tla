-------------------------- MODULE MCConfiguration --------------------------
(***************************************************************************)
(* Every setting of dimension, schematic and spawn that differs in a       *)
(* decision of the code.                                                   *)
(***************************************************************************)
EXTENDS Configuration

MCNames == {"", "nether", "end", "void", "minecraft:the_end", "x:y", "w", "other"}

Dimensions ==
    [environment : {"", "nether", "end", "void"}, name : {"", "minecraft:the_end", "x:y"},
     minY : {<<>>, <<-64>>, <<5>>, <<32>>}, height : {<<>>, <<-1>>, <<0>>, <<40>>, <<384>>},
     logicalHeight : {<<>>, <<64>>}]

Spawns ==
    [world : {"", "other"}, pos : {Origin, <<8, 70, 8>>},
     look : {NoRotation, <<90, 0>>}, mode : {Survival, Adventure}]

MCConfigFiles ==
    [worldID : {"", "w"}, schematicHeight : {0, 1, 16, 300}, dimension : Dimensions,
     spawn : Spawns]

\* registrydata/protocols: the dimension types of 759.json to 765.json, and the
\* dimension of 757.json and 758.json.
MCCodecDimension == [minY |-> -64, height |-> 384]

MCCodec ==
    [name \in {"minecraft:overworld", "minecraft:overworld_caves", "minecraft:the_nether",
               "minecraft:the_end"} |->
        IF name \in {"minecraft:overworld", "minecraft:overworld_caves"} THEN MCCodecDimension
        ELSE [minY |-> 0, height |-> 256]]

=============================================================================
