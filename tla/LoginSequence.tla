---------------------------- MODULE LoginSequence ----------------------------
(***************************************************************************)
(* What the adapters do between authentication and the first callback:     *)
(* the adapter serveLogin selects for a protocol, and the packets it       *)
(* writes and waits for, in order.  Payloads are left out.                 *)
(***************************************************************************)
EXTENDS PlayPackets

\* legacyProtocolConfigFor, flatProtocolConfigFor, codecProtocolConfigFor and
\* the embedded modern_protocols.json.
Legacy == {107, 109, 110, 210, 315, 316, 335, 338}
Flat == {393, 401, 404, 477, 480, 490, 498, 573, 575, 578}
Codec == {735, 736, 751, 753, 754, 755, 756}
Modern == 757..775
PreConfiguration == 757..763

\* The protocols with a packet table: for the others no packet has an ID.
Known == Tables \cup DOMAIN Alias

\* The adapter serveLogin dispatches to.
Adapter(p) ==
    CASE p \in {47, 340} \cup Legacy -> "legacy"
      [] p \in Flat                  -> "flat"
      [] p \in Codec                 -> "codec"
      [] p \in PreConfiguration      -> "preConfiguration"
      [] p \in Modern \ PreConfiguration -> "configuration"
      [] OTHER                       -> "none"

\* Adapters that are given registry data.
UsesRegistry(p) == Adapter(p) \in {"codec", "preConfiguration", "configuration"}

\* First and last protocol whose table holds a packet the adapters write.
Written ==
    [success |-> <<5, 775>>,             registry_data |-> <<764, 775>>,
     tags |-> <<764, 775>>,              finish_configuration |-> <<764, 775>>,
     login |-> <<5, 775>>,               spawn_position |-> <<5, 774>>,
     position |-> <<5, 775>>,            update_time |-> <<5, 775>>,
     map_chunk |-> <<5, 775>>,           update_light |-> <<477, 775>>,
     update_view_distance |-> <<477, 775>>,
     simulation_distance |-> <<757, 775>>,
     update_view_position |-> <<477, 775>>,
     chunk_batch_start |-> <<764, 775>>, chunk_batch_finished |-> <<764, 775>>]

\* The state a packet belongs to.
StateOf(name) ==
    CASE name \in {"success", "disconnect", "encryption_begin"} -> "login"
      [] name \in {"registry_data", "tags", "finish_configuration"} -> "configuration"
      [] name \in {"status_response", "pong"} -> "status"
      [] OTHER -> "play"

\* A required write, a write that is skipped where the packet does not exist,
\* a packet awaited, the lookup of the spawn chunk.
W(name) == [do |-> "write", name |-> name]
Opt(name) == [do |-> "option", name |-> name]
R(name) == [do |-> "read", name |-> name]
Chunk == [do |-> "chunk", name |-> "chunk"]

\* writeUpdateTime: skipped for a world without any time of its own.
Time == [do |-> "time", name |-> "update_time"]

\* writeChunkViewModern.
ChunkView == <<Opt("update_view_distance"), Opt("simulation_distance"),
               Opt("update_view_position")>>

\* The adapters' sequences.
serveProtocol47 == <<W("success"), W("login"), W("spawn_position"),
                     W("position"), Time, Chunk, W("map_chunk")>>
serveProtocol340 == serveProtocol47
serveLegacyProtocol == serveProtocol47

\* cfg.chunkUpdateLight is set from protocol 477 on.
serveFlatProtocol(p) ==
    serveProtocol47 \o (IF p >= 477 THEN <<W("update_light")>> ELSE <<>>)

serveCodecProtocol == serveProtocol47 \o <<W("update_light")>>

serveModernPreConfigurationProtocol ==
    <<W("success"), W("login"), W("position"), Time>>
    \o ChunkView \o <<Chunk, W("map_chunk")>>

\* One write stands for all the registries.
serveModernProtocol ==
    <<W("success"), R("login_acknowledged"), W("registry_data"), W("tags"),
      W("finish_configuration"), R("finish_configuration"), W("login"),
      W("position"), Time>>
    \o ChunkView
    \o <<Chunk, W("chunk_batch_start"), W("map_chunk"), W("chunk_batch_finished")>>

\* Mutant: the spawn position to clients that have no such packet.
SpawnForAll(p) == <<W("success"), W("login"), W("spawn_position"),
                    W("position"), Time>> \o ChunkView
                  \o <<Chunk, W("map_chunk")>>

\* Mutant: the client's acknowledgement is awaited before it is asked for.
AwaitBeforeFinish(p) == <<W("success"), R("login_acknowledged"),
                          R("finish_configuration"), W("finish_configuration")>>

\* What the adapter of a protocol does.
Steps(p) ==
    CASE p = 47                              -> serveProtocol47
      [] p = 340                             -> serveProtocol340
      [] p \in Legacy                        -> serveLegacyProtocol
      [] p \in Flat                          -> serveFlatProtocol(p)
      [] p \in Codec                         -> serveCodecProtocol
      [] Adapter(p) = "preConfiguration"     -> serveModernPreConfigurationProtocol
      [] Adapter(p) = "configuration"        -> serveModernProtocol
      [] OTHER                               -> <<>>

\* Packets that carry registry data.
Carries(p, name) ==
    \/ name \in {"registry_data", "tags"}
    \/ name = "login" /\ Adapter(p) \in {"codec", "preConfiguration"}

\* Writes that may fail before anything is sent: the player's UUID does not
\* parse, or the application's registry data has nothing for this protocol.
MayFail(p, name) ==
    /\ UsesRegistry(p)
    /\ \/ name \in {"success", "registry_data"}
       \/ name = "login" /\ Adapter(p) # "configuration"

\* isIgnorableConfigurationServerboundPacket: "settings" stands for all eleven
\* names, which are read and dropped alike.
Ignorable == {"settings"}

=============================================================================
