-------------------------- MODULE ConfigurationProofs --------------------------
(***************************************************************************)
(* Proofs about Configuration: for every file, whatever heights it and its *)
(* schematic give, a client is told of the dimension it is sent.           *)
(***************************************************************************)
EXTENDS Configuration, TLAPS

Named(name) == name # ""

\* A dimension with a name, as NormalizeDimension leaves it.
IsDimension(d) ==
    /\ d = [environment |-> d.environment, name |-> d.name, minY |-> d.minY,
            height |-> d.height, logicalHeight |-> d.logicalHeight, scale |-> d.scale,
            effects |-> d.effects]
    /\ Named(d.name) /\ d.minY \in Int /\ d.height \in Int /\ d.logicalHeight \in Int

Whole(height) == height > 0 /\ height % 16 = 0

LEMMA Rounded ==
    \A h \in Int :
        /\ normalizeDimensionHeight(h) \in Nat /\ normalizeDimensionHeight(h) % 16 = 0
        /\ h <= normalizeDimensionHeight(h)
        /\ h <= 0 => normalizeDimensionHeight(h) = 0
        /\ h > 0 => normalizeDimensionHeight(h) > 0
        /\ Whole(h) => normalizeDimensionHeight(h) = h
BY DEF normalizeDimensionHeight, Whole

\* A preset has a height in whole sections; its logical height is that or the 128
\* of the nether.
LEMMA Preset ==
    ASSUME NEW env, NEW h \in Int, NEW d, d = DimensionPreset(env, h)
    PROVE  /\ IsDimension(d) /\ Whole(d.height) /\ d.minY = 0 /\ h <= d.height
           /\ h <= 0 => d.height = 256
           /\ d.logicalHeight = IF env = "nether" THEN 128 ELSE d.height
<1>1. PICK n \in Nat : /\ n = normalizeDimensionHeight(h) /\ n % 16 = 0 /\ h <= n
                       /\ h <= 0 => n = 0
                       /\ h > 0 => n > 0
  BY Rounded
<1>2. PICK k \in Int : /\ k = fallbackHeight(n, 256) /\ Whole(k) /\ h <= k
                       /\ h <= 0 => k = 256
  BY <1>1 DEF fallbackHeight, Whole
<1>3. CASE env = "nether"
  <2>1. d = [environment |-> "nether", name |-> "minecraft:the_nether", minY |-> 0,
             height |-> k, logicalHeight |-> 128, scale |-> 8,
             effects |-> "minecraft:the_nether"]
    BY <1>1, <1>2, <1>3 DEF DimensionPreset
  <2> QED
    <3>1. d.minY = 0 /\ d.height = k /\ d.logicalHeight = 128
      BY <2>1
    <3>2. d.name = "minecraft:the_nether"
      BY <2>1
    <3>3. Named(d.name)
      BY <3>2 DEF Named
    <3>4. d = [environment |-> d.environment, name |-> d.name, minY |-> d.minY,
               height |-> d.height, logicalHeight |-> d.logicalHeight, scale |-> d.scale,
               effects |-> d.effects]
      BY <2>1
    <3>5. IsDimension(d)
      BY <1>2, <3>1, <3>3, <3>4 DEF IsDimension
    <3> QED
      BY <1>2, <1>3, <3>1, <3>5
<1>4. CASE env = "end"
  <2>1. d = [environment |-> "end", name |-> "minecraft:the_end", minY |-> 0,
             height |-> k, logicalHeight |-> k, scale |-> 1, effects |-> "minecraft:the_end"]
    BY <1>1, <1>2, <1>4 DEF DimensionPreset
  <2> QED
    <3>1. d.minY = 0 /\ d.height = k /\ d.logicalHeight = k
      BY <2>1
    <3>2. d.name = "minecraft:the_end"
      BY <2>1
    <3>3. Named(d.name)
      BY <3>2 DEF Named
    <3>4. d = [environment |-> d.environment, name |-> d.name, minY |-> d.minY,
               height |-> d.height, logicalHeight |-> d.logicalHeight, scale |-> d.scale,
               effects |-> d.effects]
      BY <2>1
    <3>5. IsDimension(d)
      BY <1>2, <3>1, <3>3, <3>4 DEF IsDimension
    <3> QED
      BY <1>2, <1>4, <3>1, <3>5
<1>5. CASE env # "nether" /\ env # "end"
  <2>1. d = [environment |-> "overworld", name |-> "minecraft:overworld", minY |-> 0,
             height |-> k, logicalHeight |-> k, scale |-> 1, effects |-> "minecraft:overworld"]
    BY <1>1, <1>2, <1>5 DEF DimensionPreset
  <2> QED
    <3>1. d.minY = 0 /\ d.height = k /\ d.logicalHeight = k
      BY <2>1
    <3>2. d.name = "minecraft:overworld"
      BY <2>1
    <3>3. Named(d.name)
      BY <3>2 DEF Named
    <3>4. d = [environment |-> d.environment, name |-> d.name, minY |-> d.minY,
               height |-> d.height, logicalHeight |-> d.logicalHeight, scale |-> d.scale,
               effects |-> d.effects]
      BY <2>1
    <3>5. IsDimension(d)
      BY <1>2, <3>1, <3>3, <3>4 DEF IsDimension
    <3> QED
      BY <1>2, <1>5, <3>1, <3>5
<1> QED
  BY <1>3, <1>4, <1>5

\* n is d with the heights that d does not have, h being the schematic's.
IsNormal(n, d, h) ==
    /\ IsDimension(n) /\ n.minY = d.minY
    /\ n.height = IF d.height # 0 THEN d.height
                  ELSE IF normalizeDimensionHeight(h) # 0
                       THEN normalizeDimensionHeight(h) ELSE 256
    /\ n.logicalHeight = IF d.logicalHeight # 0 THEN d.logicalHeight ELSE n.height

\* A dimension that has a height keeps it.
LEMMA Normalized ==
    \A d, h : IsDimension(d) /\ h \in Int => IsNormal(NormalizeDimension(d, h), d, h)
<1> SUFFICES ASSUME NEW d, IsDimension(d), NEW h \in Int,
                    NEW n, n = NormalizeDimension(d, h)
             PROVE  IsNormal(n, d, h)
  BY Zenon
<1>1. d.minY \in Int /\ d.height \in Int /\ d.logicalHeight \in Int /\ Named(d.name)
  BY DEF IsDimension
<1>2. PICK k \in Int : k = normalizeDimensionHeight(h)
  BY Rounded
<1>3. PICK env : env = OrElse(d.environment, "", inferDimensionEnvironment(d.name))
  OBVIOUS
<1>4. PICK fit \in Int : /\ fit = OrElse(OrElse(d.height, 0, k), 0, 256)
                         /\ fit = (IF d.height # 0 THEN d.height ELSE IF k # 0 THEN k ELSE 256)
  BY <1>1, <1>2 DEF OrElse
<1>5. PICK logical \in Int :
          /\ logical = OrElse(d.logicalHeight, 0, fit)
          /\ logical = (IF d.logicalHeight # 0 THEN d.logicalHeight ELSE fit)
  BY <1>1, <1>4 DEF OrElse
<1>6. PICK scale : scale = OrElse(d.scale, 0, 1)
  OBVIOUS
<1>7. PICK effects : effects = OrElse(d.effects, "", DimensionPreset(env, fit).effects)
  OBVIOUS
<1>11. d.name # ""
  BY <1>1 DEF Named
<1>8. n = [d EXCEPT !.environment = env, !.height = fit, !.logicalHeight = logical,
                    !.scale = scale, !.effects = effects]
  BY <1>11, <1>2, <1>3, <1>4, <1>5, <1>6, <1>7 DEF NormalizeDimension
<1>9. n = [environment |-> env, name |-> d.name, minY |-> d.minY, height |-> fit,
           logicalHeight |-> logical, scale |-> scale, effects |-> effects]
  BY <1>8 DEF IsDimension
<1>10. IsDimension(n) /\ n.minY = d.minY /\ n.height = fit /\ n.logicalHeight = logical
  <2>1. n.minY = d.minY /\ n.height = fit /\ n.logicalHeight = logical /\ n.name = d.name
    BY <1>9
  <2>2. n = [environment |-> n.environment, name |-> n.name, minY |-> n.minY,
             height |-> n.height, logicalHeight |-> n.logicalHeight, scale |-> n.scale,
             effects |-> n.effects]
    BY <1>9
  <2>3. Named(n.name)
    BY <1>1, <2>1
  <2> QED
    BY <1>1, <2>1, <2>2, <2>3 DEF IsDimension
<1> QED
  BY <1>2, <1>4, <1>5, <1>10 DEF IsNormal

LEMMA Fields ==
    /\ \A field, v : field \in Optional(Int) /\ v \in Int => Given(field, v) \in Int
    /\ \A field : field \in Optional(Int) /\ field # <<>> => field[1] \in Int
BY DEF Optional, Given

\* The height ConfigDimension is given when the schematic has none.
Standard(height) == height = 0 \/ height = 256

\* The dimension a file describes: a height that is not given is 256.
LEMMA FromFile ==
    ASSUME NEW cfg, cfg.minY \in Optional(Int), cfg.height \in Optional(Int),
           cfg.logicalHeight \in Optional(Int),
           NEW h \in Int, Standard(h), NEW d, d = ConfigDimension(cfg, h)
    PROVE  /\ IsDimension(d) /\ Whole(d.height)
           /\ cfg.height = <<>> => d.height = 256
           /\ cfg.height = <<>> /\ Given(cfg.logicalHeight, 0) <= 256
                  => d.logicalHeight <= 256
           /\ d.minY = Given(cfg.minY, 0)
           /\ Whole(Given(cfg.height, 256)) => d.height = Given(cfg.height, 256)
<1>1. h \in Int
  OBVIOUS
<1>2. PICK env : env = OrElse(cfg.environment, "", inferDimensionEnvironment(cfg.name))
  OBVIOUS
<1>3. PICK p : p = DimensionPreset(env, h)
  OBVIOUS
<1>4. IsDimension(p) /\ p.height = 256 /\ p.logicalHeight <= 256 /\ p.minY = 0
  <2>1. IsDimension(p) /\ (h <= 0 => p.height = 256) /\ p.minY = 0
        /\ p.logicalHeight = IF env = "nether" THEN 128 ELSE p.height
    BY <1>1, <1>3, Preset
  <2>2. p.height = 256
    <3>1. CASE h = 0
      BY <2>1, <3>1
    <3>2. CASE h = 256
      <4>1. fallbackHeight(normalizeDimensionHeight(256), 256) = 256
        BY DEF fallbackHeight, normalizeDimensionHeight
      <4> QED
        BY <1>3, <3>2, <4>1 DEF DimensionPreset
    <3> QED
      BY <3>1, <3>2 DEF Standard
  <2> QED
    BY <2>1, <2>2
<1>5. p.minY \in Int /\ p.logicalHeight \in Int /\ Named(p.name)
  BY <1>4 DEF IsDimension
<1>6. PICK name : name = OrElse(cfg.name, "", p.name)
  OBVIOUS
<1>7. Named(name)
  BY <1>5, <1>6 DEF OrElse, Named
<1>8. PICK minY \in Int : minY = Given(cfg.minY, p.minY)
  <2>1. Given(cfg.minY, p.minY) \in Int
    BY <1>5, Fields, Zenon
  <2> QED
    BY <2>1, Zenon
<1>9. PICK fit \in Nat :
          /\ fit = (IF cfg.height = <<>> THEN p.height
                    ELSE normalizeDimensionHeight(cfg.height[1]))
          /\ fit % 16 = 0 /\ (cfg.height = <<>> => fit = 256)
          /\ Whole(Given(cfg.height, 256)) => fit = Given(cfg.height, 256)
  <2>1. CASE cfg.height = <<>>
    BY <1>4, <2>1 DEF Given
  <2>2. CASE cfg.height # <<>>
    <3>1. PICK k \in Int : k = cfg.height[1]
      <4>1. cfg.height[1] \in Int
        BY <2>2, Fields, Zenon
      <4> QED
        BY <4>1, Zenon
    <3>2. /\ normalizeDimensionHeight(k) \in Nat /\ normalizeDimensionHeight(k) % 16 = 0
          /\ Whole(k) => normalizeDimensionHeight(k) = k
      BY Rounded
    <3>3. Given(cfg.height, 256) = k
      BY <2>2, <3>1 DEF Given
    <3> QED
      BY <2>2, <3>1, <3>2, <3>3
  <2> QED
    BY <2>1, <2>2
<1>10. PICK logical \in Int : /\ logical = Given(cfg.logicalHeight, p.logicalHeight)
                              /\ Given(cfg.logicalHeight, 0) <= 256 => logical <= 256
  <2>1. PICK l \in Int : l = Given(cfg.logicalHeight, p.logicalHeight)
    BY <1>5, Fields
  <2>2. PICK l0 \in Int : l0 = Given(cfg.logicalHeight, 0)
    BY Fields
  <2>3. l = l0 \/ l = p.logicalHeight
    BY <2>1, <2>2 DEF Given
  <2> QED
    BY <1>4, <2>1, <2>2, <2>3
<1>11. PICK q : q = [p EXCEPT !.name = name, !.minY = minY, !.height = fit,
                             !.logicalHeight = logical]
  OBVIOUS
<1>12. IsDimension(q) /\ q.height = fit /\ q.logicalHeight = logical /\ q.minY = minY
  <2>1. q = [environment |-> p.environment, name |-> name, minY |-> minY, height |-> fit,
             logicalHeight |-> logical, scale |-> p.scale, effects |-> p.effects]
    BY <1>4, <1>11 DEF IsDimension
  <2>2. q.minY = minY /\ q.height = fit /\ q.logicalHeight = logical /\ q.name = name
    BY <2>1
  <2>3. q = [environment |-> q.environment, name |-> q.name, minY |-> q.minY,
             height |-> q.height, logicalHeight |-> q.logicalHeight, scale |-> q.scale,
             effects |-> q.effects]
    BY <2>1
  <2> QED
    BY <1>7, <2>2, <2>3 DEF IsDimension
<1>13. d = NormalizeDimension(q, h)
  BY <1>2, <1>3, <1>6, <1>8, <1>9, <1>10, <1>11 DEF ConfigDimension
<1>14. PICK k \in Nat : k = normalizeDimensionHeight(h) /\ k % 16 = 0
  BY <1>1, Rounded
<1>15. /\ IsDimension(d) /\ d.minY = minY
       /\ d.height = IF fit # 0 THEN fit ELSE IF k # 0 THEN k ELSE 256
       /\ d.logicalHeight = IF logical # 0 THEN logical ELSE d.height
  <2>1. IsNormal(d, q, h)
    BY <1>1, <1>12, <1>13, Normalized, Zenon
  <2> QED
    BY <1>12, <1>14, <2>1 DEF IsNormal
<1>16. Whole(d.height) /\ (cfg.height = <<>> => d.height = 256)
  BY <1>9, <1>14, <1>15 DEF Whole
<1>17. d.minY = Given(cfg.minY, 0)
  BY <1>4, <1>8, <1>15 DEF Given
<1>18. Whole(Given(cfg.height, 256)) => d.height = Given(cfg.height, 256)
  BY <1>9, <1>15 DEF Whole
<1> QED
  BY <1>10, <1>15, <1>16, <1>17, <1>18

-----------------------------------------------------------------------------
(***************************************************************************)
(* The world of a file.                                                    *)
(***************************************************************************)

\* What is known of the dimension d of a file's world.
IsServed(d, source) ==
    /\ IsDimension(d) /\ Whole(d.height)
    /\ source.dimension.height = <<>> /\ Given(source.dimension.logicalHeight, 0) <= 256
           => d.logicalHeight <= d.height
    /\ Empty(source.dimension) =>
           /\ d.minY = 0 /\ source.schematicHeight <= d.height
           /\ source.schematicHeight = 0 => d.height = 256
    /\ ~Empty(source.dimension) =>
           /\ d.minY = FileRange(source).minY
           /\ Whole(FileRange(source).height) => d.height = FileRange(source).height

\* A world's ID.
Identified(id) == OrElse(id, "", DefaultWorldID)

LEMMA IdentifiedOnce == \A id : Identified(Identified(id)) = Identified(id)
BY DEF Identified, OrElse, DefaultWorldID

LEMMA FileKept ==
    ASSUME NEW source \in FileSet, NEW cfg, cfg = LoadFileConfig(source)
    PROVE  /\ cfg.dimension = source.dimension /\ cfg.schematicHeight = source.schematicHeight
           /\ source.schematicHeight \in Nat
           /\ source.dimension.minY \in Optional(Int)
           /\ source.dimension.height \in Optional(Int)
           /\ source.dimension.logicalHeight \in Optional(Int)
           /\ cfg.worldID = Identified(source.worldID)
           /\ cfg.spawn = IF SpawnOmitted(source) THEN DefaultSpawn(cfg.worldID)
                          ELSE [source.spawn EXCEPT !.world = SpawnWorld(source)]
BY DEF FileSet, LoadFileConfig, SpawnOmitted, Identified

\* A dimension that has a height and a name is served as it is.
LEMMA WholeKept ==
    ASSUME NEW d, IsDimension(d), Whole(d.height), NEW h \in Int, NEW n, IsNormal(n, d, h)
    PROVE  /\ IsDimension(n) /\ n.minY = d.minY /\ n.height = d.height /\ Whole(n.height)
           /\ d.logicalHeight <= d.height => n.logicalHeight <= n.height
<1>1. d.height # 0 /\ d.height \in Int /\ d.logicalHeight \in Int
  BY DEF IsDimension, Whole
<1>2. n.height = d.height
  BY <1>1 DEF IsNormal
<1>3. d.logicalHeight <= d.height => n.logicalHeight <= n.height
  BY <1>1, <1>2 DEF IsNormal
<1> QED
  BY <1>2, <1>3 DEF IsNormal

LEMMA ZeroIsOverworld ==
    \A h : NormalizeDimension(ZeroDimension, h) = DimensionPreset("overworld", h)
BY DEF NormalizeDimension, ZeroDimension, OrElse, inferDimensionEnvironment

LEMMA OverworldPreset ==
    ASSUME NEW h \in Int, NEW d, d = DimensionPreset("overworld", h)
    PROVE  IsDimension(d) /\ Whole(d.height) /\ d.minY = 0 /\ h <= d.height
           /\ d.logicalHeight = d.height /\ (h = 256 => d.height = 256)
<1>1. IsDimension(d) /\ Whole(d.height) /\ d.minY = 0 /\ h <= d.height
      /\ d.logicalHeight = IF "overworld" = "nether" THEN 128 ELSE d.height
  BY Preset
<1>2. d.logicalHeight = d.height
  BY <1>1
<1>3. ASSUME h = 256 PROVE d.height = 256
  <2>1. fallbackHeight(normalizeDimensionHeight(256), 256) = 256
    BY DEF fallbackHeight, normalizeDimensionHeight
  <2> QED
    BY <1>3, <2>1 DEF DimensionPreset
<1> QED
  BY <1>1, <1>2, <1>3

\* The blocks of the two worlds.
Bedrock == {<<0, 64, 0>>}
Ends(height) == {<<0, y, 0>> : y \in {0, height - 1}}

LEMMA BlockHeights ==
    /\ \A block \in Bedrock : block[2] = 64
    /\ \A h \in Int : \A block \in Ends(h) : block[2] = 0 \/ block[2] = h - 1
BY DEF Bedrock, Ends

LEMMA DefaultSpawnIs ==
    \A id : /\ DefaultSpawn(id).pos = <<0, 65, 0>>
            /\ DefaultSpawn(id).world = Identified(id)
BY DEF DefaultSpawn, DefaultBedrockY, Identified

LEMMA DefaultDimension ==
    \A id, c : DefaultWorldWithDimension(id, c).dimension = NormalizeDimension(c, 256)
BY DEF DefaultWorldWithDimension

LEMMA DefaultWorldIs ==
    \A id, c :
        /\ DefaultWorldWithDimension(id, c).id = Identified(id)
        /\ DefaultWorldWithDimension(id, c).blocks = Bedrock
BY DEF DefaultWorldWithDimension, DefaultBedrockY, Bedrock, Identified

LEMMA SchematicDimension ==
    \A id, c, h : Named(c.name) =>
        SchematicWorld(id, c, h).dimension = NormalizeDimension(c, h)
BY DEF SchematicWorld, Named

LEMMA SchematicID ==
    \A id, c, h : SchematicWorld(id, c, h).id = Identified(id)
BY DEF SchematicWorld, Identified

LEMMA SchematicBlocks ==
    \A id, c, h : SchematicWorld(id, c, h).blocks = Ends(h)
BY DEF SchematicWorld, Ends

LEMMA Served ==
    ASSUME NEW source \in FileSet, NEW w, w = loadWorld(LoadFileConfig(source))
    PROVE  IsServed(w.dimension, source)
<1> DEFINE given == source.dimension
           height == source.schematicHeight
<1>1. PICK cfg : cfg = LoadFileConfig(source)
  OBVIOUS
<1>2. PICK d : d = w.dimension
  OBVIOUS
<1>3. /\ cfg.dimension = given /\ cfg.schematicHeight = height /\ height \in Nat
      /\ given.minY \in Optional(Int) /\ given.height \in Optional(Int)
      /\ given.logicalHeight \in Optional(Int)
  BY <1>1, FileKept
<1>4. CASE Empty(given) /\ height = 0
  <2>1. d = NormalizeDimension(ZeroDimension, 256)
    BY <1>1, <1>2, <1>3, <1>4 DEF loadWorld, DefaultWorldWithDimension
  <2>2. IsDimension(d) /\ Whole(d.height) /\ d.minY = 0
        /\ d.logicalHeight = d.height /\ d.height = 256
    BY <2>1, ZeroIsOverworld, OverworldPreset
  <2> QED
    BY <1>2, <1>4, <2>2 DEF IsServed
<1>5. CASE Empty(given) /\ height # 0
  <2>1. d = DimensionPreset("overworld", height)
    BY <1>1, <1>2, <1>3, <1>5 DEF loadWorld, SchematicWorld, ZeroDimension
  <2>2. IsDimension(d) /\ Whole(d.height) /\ d.minY = 0
        /\ d.logicalHeight = d.height /\ height <= d.height
    BY <1>3, <2>1, OverworldPreset
  <2> QED
    <3>1. d.height \in Int
      BY <2>2 DEF IsDimension
    <3> QED
      BY <1>2, <1>5, <2>2, <3>1 DEF IsServed
<1>6. CASE ~Empty(given)
  <2>1. PICK h \in Int : Standard(h) /\ h = (IF height = 0 THEN 256 ELSE 0)
    BY <1>3 DEF Standard
  <2>2. PICK c : c = ConfigDimension(given, h)
    OBVIOUS
  <2>3. /\ IsDimension(c) /\ Whole(c.height)
        /\ given.height = <<>> => c.height = 256
        /\ given.height = <<>> /\ Given(given.logicalHeight, 0) <= 256
               => c.logicalHeight <= 256
        /\ c.minY = FileRange(source).minY
        /\ Whole(FileRange(source).height) => c.height = FileRange(source).height
    BY <1>3, <2>1, <2>2, FromFile DEF FileRange
  <2>4. PICK m \in Int : d = NormalizeDimension(c, m)
    <3>1. CASE height = 0
      <4>1. c = ConfigDimension(cfg.dimension, 256) /\ ~Empty(cfg.dimension)
            /\ cfg.schematicHeight = 0
        BY <1>3, <1>6, <2>1, <2>2, <3>1
      <4>2. w = DefaultWorldWithDimension(cfg.worldID, c)
        BY <1>1, <4>1 DEF loadWorld
      <4>3. d = NormalizeDimension(c, 256)
        BY <1>2, <4>2, DefaultDimension, Zenon
      <4> QED
        BY <4>3
    <3>2. CASE height # 0
      <4>1. c = ConfigDimension(cfg.dimension, 0) /\ ~Empty(cfg.dimension)
            /\ cfg.schematicHeight # 0
        BY <1>3, <1>6, <2>1, <2>2, <3>2
      <4>2. w = SchematicWorld(cfg.worldID, c, cfg.schematicHeight)
        BY <1>1, <4>1 DEF loadWorld
      <4>3. Named(c.name)
        BY <2>3 DEF IsDimension
      <4>4. SchematicWorld(cfg.worldID, c, cfg.schematicHeight).dimension
                = NormalizeDimension(c, cfg.schematicHeight)
        BY <4>3, SchematicDimension, SMT
      <4>5. d = NormalizeDimension(c, cfg.schematicHeight)
        BY <1>2, <4>2, <4>4, Zenon
      <4> QED
        BY <1>3, <4>5
    <3> QED
      BY <3>1, <3>2
  <2>5. IsNormal(d, c, m)
    BY <2>3, <2>4, Normalized, Zenon
  <2>6. IsDimension(d) /\ Whole(d.height) /\ d.minY = c.minY /\ d.height = c.height
        /\ (c.logicalHeight <= c.height => d.logicalHeight <= d.height)
    BY <2>3, <2>5, WholeKept
  <2> QED
    BY <1>2, <1>6, <2>3, <2>6 DEF IsServed
<1> QED
  BY <1>4, <1>5, <1>6

-----------------------------------------------------------------------------
(***************************************************************************)
(* What is sent of it.                                                     *)
(***************************************************************************)

LEMMA Sections ==
    /\ \A a \in Int : Quotient(a, 16) \in Int /\ (a % 16 = 0 => 16 * Quotient(a, 16) = a)
    /\ \A a \in Int : Whole(a) => Quotient(a, 16) > 0
    /\ \A y \in Int : y \div 16 \in Int /\ 16 * (y \div 16) <= y /\ y < 16 * (y \div 16) + 16
BY DEF Quotient, Whole

\* A block inside a dimension that begins with a section is sent.
LEMMA InsideIsSent ==
    ASSUME NEW d, IsDimension(d), Whole(d.height), NEW y \in Int
    PROVE  /\ d.minY % 16 = 0 => 16 * SectionsSent(d).first = d.minY
           /\ 16 * SectionsSent(d).count = d.height
           /\ d.minY % 16 = 0 /\ d.minY <= y /\ y < d.minY + d.height => IsSent(d, y)
<1>1. PICK m \in Int, k \in Int : m = d.minY /\ k = d.height /\ k % 16 = 0 /\ k > 0
  BY DEF IsDimension, Whole
<1>2. PICK first \in Int : first = Quotient(m, 16) /\ (m % 16 = 0 => 16 * first = m)
  BY Sections
<1>3. PICK count \in Int : count = Quotient(k, 16) /\ 16 * count = k /\ count > 0
  BY <1>1, Sections DEF Whole
<1>4. SectionsSent(d).first = first /\ SectionsSent(d).count = count
  BY <1>1, <1>2, <1>3 DEF SectionsSent
<1>5. PICK s \in Int : s = y \div 16 /\ 16 * s <= y /\ y < 16 * s + 16
  BY Sections
<1>6. IsSent(d, y) <=> s \in first..(first + count - 1)
  BY <1>4, <1>5 DEF IsSent
<1>7. ASSUME m % 16 = 0, m <= y, y < m + k
      PROVE  s \in first..(first + count - 1)
  BY <1>2, <1>3, <1>5, <1>7
<1> QED
  BY <1>1, <1>2, <1>3, <1>4, <1>6, <1>7

\* A dimension that is served has the heights the client is told, except that a
\* logical height of 0 is told as the height.
LEMMA ToldIsServed ==
    ASSUME NEW d, IsDimension(d), Whole(d.height), NEW told, told = Registered(d)
    PROVE  /\ told.minY = d.minY /\ told.height = d.height
           /\ d.logicalHeight <= d.height => told.logicalHeight <= told.height
<1>1. PICK n : n = NormalizeDimension(d, 256)
  OBVIOUS
<1>2. IsNormal(n, d, 256)
  BY <1>1, Normalized
<1>3. /\ n.minY = d.minY /\ n.height = d.height
      /\ d.logicalHeight <= d.height => n.logicalHeight <= n.height
  BY <1>2, WholeKept
<1>4. told = [minY |-> n.minY, height |-> n.height, logicalHeight |-> n.logicalHeight]
  BY <1>1 DEF Registered
<1>5. told.minY = n.minY /\ told.height = n.height /\ told.logicalHeight = n.logicalHeight
  BY <1>4
<1> QED
  BY <1>3, <1>5

\* Such a block is shown where it is, by a client told of the dimension.
LEMMA ShownInPlace ==
    ASSUME NEW d, IsDimension(d), Whole(d.height), NEW y \in Int,
           d.minY % 16 = 0, d.minY <= y, y < d.minY + d.height,
           NEW told, told.minY = d.minY, told.height = d.height
    PROVE  ShownAt(told, d, y) = <<y>>
<1>1. PICK m \in Int, k \in Int : m = d.minY /\ k = d.height /\ k % 16 = 0 /\ k > 0
  BY DEF IsDimension, Whole
<1>2. PICK first \in Int : first = Quotient(m, 16) /\ 16 * first = m
  BY <1>1, Sections
<1>3. PICK count \in Int : count = Quotient(k, 16) /\ 16 * count = k /\ count > 0
  BY <1>1, Sections DEF Whole
<1>4. SectionsSent(d).first = first /\ SectionsSent(d).count = count
  BY <1>1, <1>2, <1>3 DEF SectionsSent
<1>5. PICK s \in Int, r \in Int : /\ s = y \div 16 /\ r = y % 16 /\ y = 16 * s + r
                               /\ 0 <= r /\ r < 16
  OBVIOUS
<1>6. told.height \div 16 = count
  BY <1>1, <1>3
<1>7. IsSent(d, y)
  BY <1>1, InsideIsSent
<1>8. s - first < count
  BY <1>1, <1>2, <1>3, <1>5
<1>9. m + 16 * (s - first) + r = y
  BY <1>2, <1>5
<1> QED
  BY <1>1, <1>4, <1>5, <1>6, <1>7, <1>8, <1>9 DEF ShownAt

\* A client whose dimension type is made from the world, or described by the file,
\* is told the heights of the dimension that is served.
LEMMA ToldInRange ==
    ASSUME NEW protocol \in Int, protocol < 766, NEW d, NEW told,
           Told(protocol, d) = <<told>>
    PROVE  told \in Ranges
<1>1. PICK name : name = NormalizeDimension(d, 256).name
  OBVIOUS
<1>2. Told(protocol, d) = IF protocol <= 758 THEN <<CodecDimension>>
                          ELSE IF name \in DOMAIN Codec THEN <<Codec[name]>> ELSE <<>>
  BY <1>1 DEF Told
<1>3. /\ CodecDimension \in Ranges
      /\ \A n \in DOMAIN Codec : Codec[n] \in Ranges
  BY ConfigurationAssumption
<1>4. \/ <<told>> = <<CodecDimension>>
      \/ name \in DOMAIN Codec /\ <<told>> = <<Codec[name]>>
      \/ <<told>> = <<>>
  BY <1>2, Zenon
<1> HIDE DEF Ranges
<1>5. <<told>> # <<>> /\ \A a, b : <<a>> = <<b>> => a = b
  OBVIOUS
<1> QED
  BY <1>3, <1>4, <1>5, Zenon

LEMMA ToldAsServed ==
    ASSUME NEW source \in FileSet, NEW w, IsServed(w.dimension, source),
           NEW protocol \in ModernProtocols, ToldFromFile(protocol, source, w),
           NEW told, told = Told(protocol, w.dimension)[1]
    PROVE  told.minY = w.dimension.minY /\ told.height = w.dimension.height
<1>1. PICK d : d = w.dimension
  OBVIOUS
<1>2. IsDimension(d) /\ Whole(d.height) /\ protocol \in Int
  BY <1>1 DEF IsServed, ModernProtocols
<1>3. CASE protocol >= 766
  <2>1. PICK r : r = Registered(d) /\ r.minY = d.minY /\ r.height = d.height
    BY <1>2, ToldIsServed
  <2>2. Told(protocol, d) = <<[minY |-> r.minY, height |-> r.height]>>
    <3>1. protocol >= 766 /\ ~(protocol <= 758)
      BY <1>2, <1>3
    <3> QED
      BY <2>1, <3>1, Zenon DEF Told
  <2>3. told = [minY |-> r.minY, height |-> r.height]
    BY <1>1, <2>2
  <2> QED
    BY <1>1, <2>1, <2>3
<1>4. CASE protocol < 766
  <2>1. PICK range : range = FileRange(source)
    OBVIOUS
  <2>2. ~Empty(source.dimension) /\ Told(protocol, d) = <<range>>
    BY <1>1, <1>2, <1>4, <2>1 DEF ToldFromFile
  <2>3. told = range
    BY <1>1, <2>2
  <2>4. range \in Ranges
    BY <1>2, <1>4, <2>2, ToldInRange
  <2>5. Whole(range.height)
    BY <2>4 DEF Ranges, Whole
  <2>6. d.minY = range.minY /\ d.height = range.height
    BY <1>1, <2>1, <2>2, <2>5 DEF IsServed
  <2> QED
    BY <1>1, <2>3, <2>6
<1> QED
  BY <1>2, <1>3, <1>4

LEMMA Blocks ==
    ASSUME NEW source \in FileSet, NEW w, w = loadWorld(LoadFileConfig(source))
    PROVE  /\ w.id = Identified(Identified(source.worldID))
           /\ w.blocks = IF source.schematicHeight = 0 THEN Bedrock
                         ELSE Ends(source.schematicHeight)
<1>1. PICK cfg : cfg = LoadFileConfig(source)
  OBVIOUS
<1>2. /\ cfg.schematicHeight = source.schematicHeight
      /\ cfg.worldID = Identified(source.worldID)
  BY <1>1, FileKept
<1>3. CASE source.schematicHeight = 0
  <2>1. \E c : w = DefaultWorldWithDimension(cfg.worldID, c)
    BY <1>1, <1>2, <1>3 DEF loadWorld
  <2> QED
    <3>1. w.id = Identified(cfg.worldID) /\ w.blocks = Bedrock
      BY <2>1, DefaultWorldIs, Zenon
    <3> QED
      BY <1>2, <1>3, <3>1, Zenon
<1>4. CASE source.schematicHeight # 0
  <2>1. \E c : w = SchematicWorld(cfg.worldID, c, cfg.schematicHeight)
    BY <1>1, <1>2, <1>4 DEF loadWorld
  <2> QED
    <3>1. PICK i, c, n : /\ i = cfg.worldID /\ n = cfg.schematicHeight
                         /\ w = SchematicWorld(i, c, n)
      BY <2>1
    <3>2. w.id = Identified(i)
      BY <3>1, SchematicID
    <3>3. w.blocks = Ends(n)
      BY <3>1, SchematicBlocks
    <3> QED
      BY <1>2, <1>4, <3>1, <3>2, <3>3, Zenon
<1> QED
  BY <1>3, <1>4

\* Where its blocks are.
LEMMA BlockHeight ==
    ASSUME NEW source \in FileSet, NEW w, w = loadWorld(LoadFileConfig(source)),
           NEW block \in w.blocks
    PROVE  /\ block[2] \in Int
           /\ IF source.schematicHeight = 0 THEN block[2] = 64
              ELSE block[2] = 0 \/ block[2] = source.schematicHeight - 1
<1>1. w.blocks = IF source.schematicHeight = 0 THEN Bedrock ELSE Ends(source.schematicHeight)
  BY Blocks
<1>2. CASE source.schematicHeight = 0
  <2>1. block \in Bedrock
    BY <1>1, <1>2
  <2>2. block[2] = 64
    BY <2>1, BlockHeights
  <2> QED
    BY <1>2, <2>2
<1>3. CASE source.schematicHeight # 0
  <2>1. PICK h \in Int : h = source.schematicHeight
    BY DEF FileSet
  <2>2. block \in Ends(h)
    BY <1>1, <1>3, <2>1
  <2>3. block[2] = 0 \/ block[2] = h - 1
    BY <2>2, BlockHeights
  <2> QED
    BY <1>3, <2>1, <2>3
<1> QED
  BY <1>2, <1>3

-----------------------------------------------------------------------------
(***************************************************************************)
(* What a file describes is what is served.                                *)
(***************************************************************************)

\* Whatever file LoadFileConfig reads, the world loadWorld makes of it is one
\* whose chunk data (encodeChunkDataModern) has the sections of the dimension type
\* the client is told, and whose blocks inside it the client shows at their
\* heights: from 766 on, where dimensionTypeRegistry766 makes the type from the
\* world, and before if the file describes the type of the registry data.  The
\* logical height fits, every block is sent unless the file gives a dimension, and
\* a player whose spawn the file leaves out stands on the bedrock of the world
\* that exists.
THEOREM ServedAsConfigured ==
    ASSUME NEW source \in FileSet
    PROVE  AsConfigured(source, loadWorld(LoadFileConfig(source)), LoadFileConfig(source).spawn)
<1>1. PICK cfg, w, d :
          /\ cfg = LoadFileConfig(source) /\ w = loadWorld(LoadFileConfig(source))
          /\ d = w.dimension
  OBVIOUS
<1>2. IsServed(d, source) /\ IsDimension(d) /\ Whole(d.height)
  BY <1>1, Served DEF IsServed
<1>3. d.minY \in Int /\ d.height \in Int
  BY <1>2 DEF IsDimension
<1>4. ASSUME NEW protocol \in ModernProtocols, ToldFromFile(protocol, source, w)
      PROVE  SectionsAsTold(protocol, w) /\ BlocksInPlace(protocol, w)
  <2>1. PICK told : told = Told(protocol, w.dimension)[1]
    OBVIOUS
  <2>2. told.minY = d.minY /\ told.height = d.height
    BY <1>1, <1>2, <1>4, <2>1, ToldAsServed
  <2>3. SectionsAsTold(protocol, w)
    <3>1. /\ d.minY % 16 = 0 => 16 * SectionsSent(d).first = d.minY
          /\ 16 * SectionsSent(d).count = d.height
      BY <1>2, <1>3, InsideIsSent
    <3> QED
      BY <1>1, <2>1, <2>2, <3>1 DEF SectionsAsTold
  <2>4. BlocksInPlace(protocol, w)
    <3> SUFFICES ASSUME NEW block \in w.blocks, told.minY % 16 = 0,
                        told.minY <= block[2], block[2] < told.minY + told.height
                 PROVE  ShownAt(told, d, block[2]) = <<block[2]>>
      BY <1>1, <2>1 DEF BlocksInPlace
    <3>1. PICK y \in Int : y = block[2]
      BY <1>1, BlockHeight
    <3>2. d.minY % 16 = 0 /\ d.minY <= y /\ y < d.minY + d.height
      BY <2>2, <3>1
    <3> QED
      BY <1>2, <2>2, <3>1, <3>2, ShownInPlace
  <2> QED
    BY <2>3, <2>4
<1>5. LogicalFits(source, w)
  <2>1. PICK r : /\ r = Registered(d) /\ r.height = d.height
                 /\ d.logicalHeight <= d.height => r.logicalHeight <= r.height
    BY <1>2, ToldIsServed
  <2> QED
    BY <1>1, <1>2, <2>1 DEF LogicalFits, IsServed
<1>7. /\ w.id = Identified(Identified(source.worldID))
      /\ w.blocks = IF source.schematicHeight = 0 THEN Bedrock
                    ELSE Ends(source.schematicHeight)
  BY <1>1, Blocks
<1>8. SpawnAsConfigured(source, w, cfg.spawn)
  <2>1. /\ cfg.worldID = Identified(source.worldID)
        /\ cfg.spawn = IF SpawnOmitted(source) THEN DefaultSpawn(cfg.worldID)
                       ELSE [source.spawn EXCEPT !.world = SpawnWorld(source)]
    BY <1>1, FileKept
  <2>2. ASSUME source.spawn.world = "" PROVE cfg.spawn.world = w.id
    <3>0. Identified(cfg.worldID) = cfg.worldID
      BY <2>1, IdentifiedOnce, Zenon
    <3>1. w.id = cfg.worldID
      BY <1>7, <2>1, <3>0, Zenon
    <3>2. CASE SpawnOmitted(source)
      BY <2>1, <3>0, <3>1, <3>2, DefaultSpawnIs, Zenon
    <3>3. CASE ~SpawnOmitted(source)
      <4>1. source.spawn = [source.spawn EXCEPT !.world = source.spawn.world]
            /\ "world" \in DOMAIN source.spawn
        BY DEF FileSet
      <4>2. cfg.spawn.world = SpawnWorld(source)
        BY <2>1, <3>3, <4>1
      <4> QED
        BY <2>1, <2>2, <3>1, <4>2 DEF SpawnWorld, OrElse, Identified
    <3> QED
      BY <3>2, <3>3
  <2>3. ASSUME SpawnOmitted(source)
        PROVE  <<cfg.spawn.pos[1], cfg.spawn.pos[2] - 1, cfg.spawn.pos[3]>> \in w.blocks
    <3>1. cfg.spawn = DefaultSpawn(cfg.worldID)
      BY <2>1, <2>3
    <3>2. cfg.spawn.pos = <<0, 65, 0>>
      BY <3>1, DefaultSpawnIs
    <3>3. source.schematicHeight = 0
      BY <2>3 DEF SpawnOmitted
    <3>4. w.blocks = Bedrock
      BY <1>7, <3>3
    <3> QED
      BY <3>2, <3>4 DEF Bedrock
  <2> QED
    BY <2>2, <2>3 DEF SpawnAsConfigured
<1>9. BlocksAreSent(source, w)
  <2> SUFFICES ASSUME Empty(source.dimension), NEW block \in w.blocks
               PROVE  IsSent(d, block[2])
    BY <1>1 DEF BlocksAreSent
  <2>1. /\ d.minY = 0 /\ source.schematicHeight <= d.height /\ source.schematicHeight \in Nat
        /\ source.schematicHeight = 0 => d.height = 256
    BY <1>1, <1>2, FileKept DEF IsServed
  <2>2. PICK y \in Int : /\ y = block[2]
                         /\ IF source.schematicHeight = 0 THEN y = 64
                            ELSE y = 0 \/ y = source.schematicHeight - 1
    BY <1>1, BlockHeight
  <2>3. y >= 0 /\ y < d.height
    BY <1>3, <2>1, <2>2
  <2>4. IsSent(d, y)
    BY <1>2, <1>3, <2>1, <2>3, InsideIsSent
  <2> QED
    BY <2>2, <2>4
<1> QED
  BY <1>1, <1>4, <1>5, <1>8, <1>9 DEF AsConfigured

\* What main holds at any time is made of the file it was started with.
LEMMA FromItsFile == Spec => [](file \in ConfigFiles /\ ServedFromFile)
<1>1. Init => file \in ConfigFiles /\ ServedFromFile
  BY DEF Init, ServedFromFile
<1>2. file \in ConfigFiles /\ ServedFromFile /\ [Next]_vars
          => (file \in ConfigFiles /\ ServedFromFile)'
  <2> SUFFICES ASSUME file \in ConfigFiles, ServedFromFile, [Next]_vars
               PROVE  (file \in ConfigFiles /\ ServedFromFile)'
    OBVIOUS
  <2>1. CASE ReadFile
    <3>1. world = <<>>
      BY <2>1 DEF ReadFile, ServedFromFile
    <3> QED
      BY <2>1, <3>1 DEF ReadFile, ServedFromFile
  <2>2. CASE MakeWorld
    BY <2>2 DEF MakeWorld, ServedFromFile
  <2>3. CASE UNCHANGED vars
    BY <2>3 DEF vars, ServedFromFile
  <2> QED
    BY <2>1, <2>2, <2>3 DEF Next, Serving
<1> QED
  BY <1>1, <1>2, PTL DEF Spec

\* WorldAsConfigured: from the moment main has made its world, the server serves
\* what the file describes (LoadFileConfig, loadWorld and the adapters' use of the
\* world's dimension), whatever files it may be started with.
THEOREM AlwaysAsConfigured == Spec => []WorldAsConfigured
<1>1. file \in ConfigFiles /\ ServedFromFile => WorldAsConfigured
  <2> SUFFICES ASSUME file \in ConfigFiles, ServedFromFile, world # <<>>
               PROVE  AsConfigured(file, world[1], fileCfg[1].spawn)
    BY DEF WorldAsConfigured
  <2>1. fileCfg = <<LoadFileConfig(file)>> /\ world = <<loadWorld(fileCfg[1])>>
    BY DEF ServedFromFile
  <2>2. fileCfg[1] = LoadFileConfig(file) /\ world[1] = loadWorld(LoadFileConfig(file))
    BY <2>1
  <2>3. AsConfigured(file, loadWorld(LoadFileConfig(file)), LoadFileConfig(file).spawn)
    BY ConfigurationAssumption, ServedAsConfigured
  <2> QED
    BY <2>2, <2>3
<1> QED
  BY <1>1, FromItsFile, PTL

================================================================================
