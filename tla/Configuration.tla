--------------------------- MODULE Configuration ---------------------------
(***************************************************************************)
(* From a configuration file to the world it serves and where players      *)
(* spawn: config.go, the dimensions of world.go, loadWorld of              *)
(* cmd/limbgo/main.go, and what modern clients are told of the dimension.  *)
(* Of a dimension there are the fields the code decides by or fills in; a  *)
(* field that may be absent is <<>> or <<value>>.                          *)
(***************************************************************************)
EXTENDS Integers, Sequences

CONSTANTS Names,          \* the strings of a file
          ConfigFiles,    \* the files main may be started with
          Codec,          \* the registry data's dimension types, by name
          CodecDimension  \* its dimension for the clients told only one

Origin == <<0, 0, 0>>
NoRotation == <<0, 0>>
Survival == 0
Adventure == 2

DefaultWorldID == "default"
DefaultBedrockY == 64

\* The file: an omitted field has its zero value, as json.Unmarshal leaves it.
\* schematicHeight is that of the file world.schematic names, 0 if it is
\* omitted; dimension is world.dimension.
NoDimension == [environment |-> "", name |-> "", minY |-> <<>>, height |-> <<>>,
                logicalHeight |-> <<>>]

Optional(S) == {s \in Seq(S) : Len(s) <= 1}

\* What a file may hold.
FileSet ==
    [worldID : Names, schematicHeight : Nat,
     dimension : [environment : Names, name : Names, minY : Optional(Int),
                  height : Optional(Int), logicalHeight : Optional(Int)],
     spawn : [world : Names, pos : Int \X Int \X Int, look : Int \X Int, mode : Nat]]

\* Where a dimension type begins and how high it is.
Ranges == [minY : Int, height : {h \in Nat \ {0} : h % 16 = 0}]

ASSUME ConfigurationAssumption ==
    /\ ConfigFiles \subseteq FileSet
    /\ \A name \in DOMAIN Codec : Codec[name] \in Ranges
    /\ CodecDimension \in Ranges

-----------------------------------------------------------------------------
(***************************************************************************)
(* Dimensions.                                                             *)
(***************************************************************************)

normalizeDimensionHeight(height) ==
    IF height <= 0 THEN 0
    ELSE IF height % 16 # 0 THEN height + (16 - (height % 16)) ELSE height

fallbackHeight(height, fallback) == IF height > 0 THEN height ELSE fallback

inferDimensionEnvironment(name) ==
    CASE name = "minecraft:the_nether" -> "nether"
      [] name = "minecraft:the_end"    -> "end"
      [] OTHER                         -> "overworld"

\* The preset of an unknown environment is the overworld's.
DimensionPreset(environment, givenHeight) ==
    LET height == fallbackHeight(normalizeDimensionHeight(givenHeight), 256)
        preset(env, name, logical, scale) ==
            [environment |-> env, name |-> name, minY |-> 0, height |-> height,
             logicalHeight |-> logical, scale |-> scale, effects |-> name]
    IN  CASE environment = "nether" -> preset("nether", "minecraft:the_nether", 128, 8)
          [] environment = "end"    -> preset("end", "minecraft:the_end", height, 1)
          [] OTHER -> preset("overworld", "minecraft:overworld", height, 1)

ZeroDimension == [environment |-> "", name |-> "", minY |-> 0, height |-> 0,
                  logicalHeight |-> 0, scale |-> 0, effects |-> ""]

OrElse(value, zero, default) == IF value = zero THEN default ELSE value

\* A dimension without a name is replaced by a preset as a whole.
NormalizeDimension(d, schematicHeight) ==
    LET env     == OrElse(d.environment, "", inferDimensionEnvironment(d.name))
        height  == OrElse(OrElse(d.height, 0, normalizeDimensionHeight(schematicHeight)),
                          0, 256)
    IN  IF d.name = "" THEN DimensionPreset(env, schematicHeight)
        ELSE [d EXCEPT !.environment = env, !.height = height,
                       !.logicalHeight = OrElse(@, 0, height),
                       !.scale = OrElse(@, 0, 1),
                       !.effects = OrElse(@, "", DimensionPreset(env, height).effects)]

Given(field, default) == IF field = <<>> THEN default ELSE field[1]

\* DimensionConfig.Dimension.
ConfigDimension(cfg, schematicHeight) ==
    LET preset == DimensionPreset(OrElse(cfg.environment, "",
                                         inferDimensionEnvironment(cfg.name)),
                                  schematicHeight)
    IN  NormalizeDimension(
            [preset EXCEPT !.name = OrElse(cfg.name, "", @),
                           !.minY = Given(cfg.minY, @),
                           !.height = IF cfg.height = <<>> THEN @
                                      ELSE normalizeDimensionHeight(cfg.height[1]),
                           !.logicalHeight = Given(cfg.logicalHeight, @)],
            schematicHeight)

\* DimensionConfig.Empty.
Empty(cfg) == cfg = NoDimension

-----------------------------------------------------------------------------
(***************************************************************************)
(* The file.                                                               *)
(***************************************************************************)

DefaultSpawn(worldID) ==
    [world |-> OrElse(worldID, "", DefaultWorldID),
     pos |-> <<0, DefaultBedrockY + 1, 0>>, look |-> NoRotation, mode |-> Adventure]

\* spawn.world after the defaults.
SpawnWorld(file) ==
    OrElse(file.spawn.world, "", OrElse(file.worldID, "", DefaultWorldID))

SpawnOmitted(file) ==
    /\ file.schematicHeight = 0
    /\ file.spawn.pos = Origin /\ file.spawn.look = NoRotation /\ file.spawn.mode = Survival

\* LoadFileConfig: the whole spawn is defaulted, or nothing of it but its world.
LoadFileConfig(file) ==
    LET worldID  == OrElse(file.worldID, "", DefaultWorldID)
    IN  [file EXCEPT !.worldID = worldID,
                     !.spawn = IF SpawnOmitted(file)
                               THEN DefaultSpawn(worldID)
                               ELSE [@ EXCEPT !.world = SpawnWorld(file)]]

\* DefaultWorldWithDimension: one bedrock block, the first of its section.
DefaultWorldWithDimension(id, dimension) ==
    [id |-> OrElse(id, "", DefaultWorldID),
     dimension |-> NormalizeDimension(dimension, 256),
     blocks |-> {<<0, 16 * (DefaultBedrockY \div 16), 0>>}]

\* The dimension of a loaded schematic (buildWorld, defaultDimension), whose
\* blocks lie at y in 0..height - 1.
SchematicWorld(id, dimension, height) ==
    [id |-> OrElse(id, "", DefaultWorldID),
     dimension |-> IF dimension.name = "" /\ dimension.environment = ""
                   THEN DimensionPreset("overworld", height)
                   ELSE NormalizeDimension(dimension, height),
     blocks |-> {<<0, y, 0>> : y \in {0, height - 1}}]

\* loadWorld of the command.
loadWorld(cfg) ==
    LET dimension(height) == IF Empty(cfg.dimension) THEN ZeroDimension
                             ELSE ConfigDimension(cfg.dimension, height)
    IN  IF cfg.schematicHeight = 0
        THEN DefaultWorldWithDimension(cfg.worldID, dimension(256))
        ELSE SchematicWorld(cfg.worldID, dimension(0), cfg.schematicHeight)

-----------------------------------------------------------------------------
(***************************************************************************)
(* What a modern client is told, and what it is sent.                      *)
(***************************************************************************)

ModernProtocols == 757..775

\* Go's division: towards zero.
Quotient(a, b) == IF a >= 0 THEN a \div b ELSE -((-a) \div b)

\* Mutant: the sections are counted from height 0, as before min_y.
SectionsFromZero(dimension) == [first |-> 0, count |-> Quotient(dimension.height, 16)]

\* The sections encodeChunkDataModern writes, from the world as it is.
SectionsSent(dimension) ==
    LET count == Quotient(dimension.height, 16)
    IN  [first |-> Quotient(dimension.minY, 16), count |-> IF count <= 0 THEN 16 ELSE count]

\* dimensionTypeRegistry766, from the world normalized.
Registered(dimension) ==
    LET d == NormalizeDimension(dimension, 256)
    IN  [minY |-> d.minY, height |-> d.height, logicalHeight |-> d.logicalHeight]

\* The dimension type a client is told.  Only from 766 on is it made from the
\* world; before, it is that of the world's name in the registry data, or for
\* the first two protocols always the same.  <<>>: the codec lacks the name.
Told(protocol, dimension) ==
    LET name == NormalizeDimension(dimension, 256).name
    IN  CASE protocol >= 766 -> <<[minY   |-> Registered(dimension).minY,
                                   height |-> Registered(dimension).height]>>
          [] protocol <= 758 -> <<CodecDimension>>
          [] OTHER           -> IF name \in DOMAIN Codec THEN <<Codec[name]>> ELSE <<>>

\* A block at y is in a section that is sent.
IsSent(dimension, y) ==
    LET sent == SectionsSent(dimension)
    IN  y \div 16 \in sent.first..(sent.first + sent.count - 1)

\* Where the client shows a block at y: it takes as many sections as it is told,
\* the first of the packet as the lowest.  <<>>: it has no such section, or
\* there are too few.
ShownAt(told, dimension, y) ==
    LET sent  == SectionsSent(dimension)
        place == y \div 16 - sent.first
        count == told.height \div 16
    IN  IF IsSent(dimension, y) /\ place < count /\ count <= sent.count
        THEN <<told.minY + 16 * place + (y % 16)>> ELSE <<>>

-----------------------------------------------------------------------------
(***************************************************************************)
(* What a file describes is what is served.                                *)
(***************************************************************************)

\* What a file without min_y or height says of them, if it has a dimension.
FileRange(file) == [minY   |-> Given(file.dimension.minY, 0),
                    height |-> Given(file.dimension.height, 256)]

\* The client is told what the server is to serve: the registry is made from the
\* world, or the file describes the dimension type the client is told anyway.
ToldFromFile(protocol, file, world) ==
    \/ protocol >= 766
    \/ ~Empty(file.dimension) /\ Told(protocol, world.dimension) = <<FileRange(file)>>

\* The sections sent are those of the dimension type the client is told.
SectionsAsTold(protocol, world) ==
    LET sent == SectionsSent(world.dimension)
        told == Told(protocol, world.dimension)[1]
    IN  /\ told.minY % 16 = 0 => 16 * sent.first = told.minY
        /\ 16 * sent.count = told.height

\* A dimension with the height of its preset has no greater logical height,
\* unless the file asks for one.
LogicalFits(file, world) ==
    LET told == Registered(world.dimension)
    IN  /\ file.dimension.height = <<>>
        /\ Given(file.dimension.logicalHeight, 0) <= 256
        => told.logicalHeight <= told.height

\* The spawn's world is the one that exists unless the file names another, and
\* the default spawn stands on the bedrock.
SpawnAsConfigured(file, world, spawn) ==
    /\ file.spawn.world = "" => spawn.world = world.id
    /\ SpawnOmitted(file) =>
           <<spawn.pos[1], spawn.pos[2] - 1, spawn.pos[3]>> \in world.blocks

\* A block inside the dimension is shown where it is.
BlocksInPlace(protocol, world) ==
    LET told == Told(protocol, world.dimension)[1]
    IN  \A block \in world.blocks :
            told.minY % 16 = 0
            /\ told.minY <= block[2] /\ block[2] < told.minY + told.height
            => ShownAt(told, world.dimension, block[2]) = <<block[2]>>

\* Without a dimension in the file every block is sent.
BlocksAreSent(file, world) ==
    Empty(file.dimension) =>
        \A block \in world.blocks : IsSent(world.dimension, block[2])

AsConfigured(file, world, spawn) ==
    /\ \A protocol \in ModernProtocols : ToldFromFile(protocol, file, world) =>
           SectionsAsTold(protocol, world) /\ BlocksInPlace(protocol, world)
    /\ LogicalFits(file, world)
    /\ SpawnAsConfigured(file, world, spawn)
    /\ BlocksAreSent(file, world)

-----------------------------------------------------------------------------
(***************************************************************************)
(* main: the file is read, the world is made, the server serves them.      *)
(***************************************************************************)

VARIABLES file,     \* the file main is started with
          fileCfg,  \* what LoadFileConfig makes of it, once it has
          world     \* the world of the StaticWorldProvider, once it is made

vars == <<file, fileCfg, world>>

Init == file \in ConfigFiles /\ fileCfg = <<>> /\ world = <<>>

ReadFile ==
    /\ fileCfg = <<>>
    /\ fileCfg' = <<LoadFileConfig(file)>>
    /\ UNCHANGED <<file, world>>

MakeWorld ==
    /\ fileCfg # <<>> /\ world = <<>>
    /\ world' = <<loadWorld(fileCfg[1])>>
    /\ UNCHANGED <<file, fileCfg>>

\* Neither changes while the server runs.
Serving == world # <<>> /\ UNCHANGED vars

Next == ReadFile \/ MakeWorld \/ Serving

Spec == Init /\ [][Next]_vars

\* The spawn and the world are those of the file main was started with.
ServedFromFile ==
    /\ fileCfg \in {<<>>, <<LoadFileConfig(file)>>}
    /\ world # <<>> => fileCfg # <<>> /\ world = <<loadWorld(fileCfg[1])>>

\* What a configuration file describes is what is served.  For clients told the
\* world's own dimension type (766 and later), and for the earlier modern ones
\* if the file describes the type they are told from the registry data, the
\* sections sent are those of that type and every block inside it is shown at its
\* height.  The spawn's world is the one that exists unless the file names
\* another, and the default spawn stands on the bedrock.  A height in the file
\* without a logical height may be lower than the latter; min_y is taken as it
\* is, also where no section begins.
WorldAsConfigured == world # <<>> => AsConfigured(file, world[1], fileCfg[1].spawn)

\* README, of the world served without a schematic: "a minimal air world with one
\* `minecraft:bedrock` block directly below the spawn position", "at `0,64,0`":
\* there every modern client shows it.
BedrockBelowSpawn ==
    world # <<>> /\ SpawnOmitted(file) /\ Empty(file.dimension) =>
        \A protocol \in ModernProtocols :
            LET told == Told(protocol, world[1].dimension)
            IN  told # <<>> =>
                    ShownAt(told[1], world[1].dimension, DefaultBedrockY) = <<DefaultBedrockY>>

=============================================================================
