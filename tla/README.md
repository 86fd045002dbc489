# limbgo in TLA+

limbgo is a limbo server for Minecraft Java clients: it accepts a connection,
logs the player in, puts the player into a tiny world and hands the application
a session object to talk to the player with. This directory holds a TLA+ model of
the parts of it that carry state, the TLC runs that check them, and TLAPS proofs
of the most important results.

Paths below are relative to the repository. `PROJECT.json` maps each definition
to the lines it models and lists runs, mutants, hazards, findings and theorems.

## 1. Inventory

### Components

| Component | Source | State it keeps | Operations |
|---|---|---|---|
| Server | `server.go`, `types.go` | `closed`, listener, `conns`, `joins`, `wg`, all but `wg` under `s.mu` | `Serve`, `Shutdown`, the goroutine that calls it when the context is done, one handler goroutine per connection, `ResolveJoin`, the release of a join |
| PROXY protocol | `proxy_protocol.go` | per connection: `once`, `headerErr`, the addresses, the read deadline | `wrap`, `Read`, `RemoteAddr`, `SetReadDeadline` |
| Rate limiter | `rate_limit.go` | a table from host to window end and count | `Allow`, `cleanup` |
| Login router | `protocol/limbo/router.go` | the connection's phase, the reader, the player | handshake, status, login start, protocol policy, login policy, dispatch |
| Session authentication | `session_auth.go`, `protocol/limbo/session_auth.go` | token, shared secret, verdict | encryption request and answer, the verifier, hybrid fallback |
| Version adapters | `protocol/limbo/protocol*.go` | none beyond the connection | the sequence of packets from login success to the spawn chunk, for protocols 47 to 775 |
| Registry data store | `protocol/registrydata/store.go` | the current data | `RegistryData`, `Update` |
| Play session | `protocol/limbo/play_events.go`, `events.go` | `s.mu`, `closed`, the resource pack tables | the `PlayerSession` methods, the event loop, the keep-alive loop |
| Play packets | `protocol/limbo/play_events.go`, `protocol/packetid` | none | which packets an operation needs on which protocol; a component's JSON as NBT |
| World | `world.go`, `world/schematic/load.go`, the chunk writers | chunks and palette, fixed once loaded | load, look up the spawn chunk, translate and pack it |
| Configuration | `config.go`, `world.go`, `cmd/limbgo` | none after start | defaults of world, dimension and spawn |
| MiniMessage | `minimessage` | none between calls; a rune counter per gradient | parse, render |
| Wire | `internal/protocol/wire` | none | variable-length integers, framing |
| Registry data files | `protocol/registrydata/registrydata.go` | the tables being filled | load a zip or a JSON file |
| Others | `status.go`, `dialog`, `text.go`, `tools` | none | formatting, code generation |

### How they interact

`Server.Serve` accepts a connection, wraps it in the PROXY protocol, records it
and starts a handler that calls `Router.ServeConn`. The router asks
`conn.RemoteAddr`, which may first have to read the PROXY header. A status request
passes the rate limiter; a login passes the protocol policy, the login policy and
possibly authentication, and is dispatched to the adapter of its protocol. The
adapter calls back into the server (`ResolveJoin`, which records the join under
the remote address), takes a snapshot of the registry data, writes its packets,
sometimes waits for the client, sends the spawn chunk and enters
`servePlayEvents`. From there on the handler reads client packets and calls the
application, a keep-alive goroutine writes every few seconds, and any goroutine of
the application may call the session. When the handler returns, the server removes
the connection and releases its join.

### What is hard, and what makes each component correct

- **Server.** `Accept`, `Shutdown` (called by two goroutines), handlers and the
  release of joins interleave, and `wg.Add` is not under the mutex. Correct means:
  once `Shutdown` has waited nothing runs and nothing is registered; no connection
  slips through open; every join is released once, after its connection closed.
- **PROXY protocol.** The header trickles in while a timer runs; a player's first
  byte may look like a signature. Correct: one address for life, only from whom it
  may be believed; no byte lost; no deadline left behind; no endless wait.
- **Rate limiter.** Time stamps are taken before the lock. Correct: never more than
  the budget in a window, no running window dropped, no table that only grows.
- **Login.** Both ends wait for each other, encryption is switched on mid-stream,
  readers buffer ahead and are replaced, the data store changes meanwhile, and some forty
  protocols differ. Correct: the two ends agree on the protocol state; nobody
  is admitted whose identity was not established as the mode demands; nothing is
  lost; all data is of one version; the exchange ends.
- **Play session.** Four kinds of goroutine share a mutex that is held across
  blocking writes. Correct: packets of one operation stay together, nothing follows
  a kick, the pack tables agree with the wire, an event is never attributed to the
  wrong pack, and closing the connection frees everybody.
- **World.** Three index computations and a bit packing that wraps. Correct: the
  client shows the block the schematic has, at the place where it has it.

- **Play packets.** Flag, writer and reader look packets up by different names over forty
  tables; NBT has typed lists and integers, JSON has not. Correct: what is announced works,
  nothing is half sent, the client reads a component to its end and what NBT can
  express arrives unchanged.
- **Configuration.** A dimension is merged from a file, a preset and a schematic, and
  read in two places, normalized in only one. Correct: the chunk sent fits the dimension
  announced, and players spawn on the bedrock.
- **MiniMessage.** Tags may be unclosed, closed twice or crossed. Correct: every rune has the
  style of the tags around it, a gradient counts the runes it colours.
- **Wire.** A stream arrives in pieces. Correct: the reader gets the packets written.
- **Registry data files.** Correct: all or nothing, and the same from both formats.

The list of hazards in `PROJECT.json` names the line where each of these bites.

## 2. Modules

| Module | Models | Extends |
|---|---|---|
| `Server` | `Serve`, `Shutdown`, the handlers and the join table | |
| `JoinLifecycle` | what the server promises a `JoinReleaser`: none, active, released, once each | |
| `RateLimiter` | `Allow` and `cleanup` called concurrently | |
| `PlayPackets` | the packets of each session operation on each protocol | |
| `PlaySession` | one session and its goroutines | `PlayPackets` |
| `SerialSession` | what a session promises: whole operations one after another, nothing after a kick, the packs offered | |
| `ComponentNBT` | a component's JSON to NBT, and the client's reading of it | |
| `MiniMessage` | the parser and the renderer, and the meaning of a text without either | |
| `Configuration` | from the file to the world, the spawn and the announced dimension, in the steps of `main` | |
| `Wire` | `ReadVarInt`, `WriteVarInt`, `VarIntLen`, `ReadPacket`, `WritePacket`, a stream of packets and its reader | |
| `RegistryFiles` | `LoadBytes` and `LoadZipBytes` | |
| `LoginSequence` | the steps of each version adapter | `PlayPackets` |
| `Router` | one connection from handshake to the first callback | `LoginSequence` |
| `ProxyProtocol` | one wrapped connection | |
| `World` | schematic to client | `Wire` |
| `MC*` | instances for TLC; `MCConversions` is about the parts without state, which it instantiates side by side, and about `Configuration` | one of the above |
| `ServerProofs`, `RateLimiterProofs`, `ProxyProtocolProofs`, `PlaySessionProofs`, `RouterProofs`, `ConfigurationProofs` | theorems | the module they are named for |
| `ConversionProofs` | theorems about `Wire` and `RegistryFiles`, and the lemmas about loops written as recursive functions | `Wire`, `RegistryFiles` |
| `WorldProofs` | theorems | `World`, `ConversionProofs` |

### Server

The variables `closed`, `listener`, `conns`, `joins`, `wg` are the fields of the
struct; `handler`, `caller`, `serve` are control states; `open` and `releases`
observe connections and `ReleaseJoin`; `snapshot` is the copy of `s.conns` that
`Shutdown` takes under the lock. One action is one critical section or one call
outside it, so the window between `trackConn` and `wg.Add`, and the one between
removing a join and releasing it, are real interleavings. `Addr` gives each
connection its address; with `ExclusiveAddrs` no two live connections have the
same one, as for TCP peers without a proxy. One `Serve` per server is modelled, and
a router that calls `ResolveJoin` at most once per connection, as the one in
`protocol/limbo` does.

`Server` implements `JoinLifecycle` under the refinement mapping `JoinPhase`.

### RateLimiter

A call reads the clock (`Stamp`), later takes the lock and decides. The clock
advances at any time between the two, up to `MaxTime`. `CleanupFactor` is 32 in the
source and 1 in the run, so that cleanups happen with three hosts.

### PlayPackets and PlaySession

`PlayPackets` has the first and last protocol whose table contains each packet
name in use, and for each operation the sequence of frames it writes or the error
it returns. `PlaySession` lets several goroutines perform these operations on one
session: acquire `s.mu`, test `closed`, write frame after frame (each may block or
fail), update the tables, release. The handler reads, looks packs up, calls the
application and asks `Closed`; a callback may itself call session methods. The
keep-alive goroutine ticks, tests, locks, tests again and writes. The client
answers pack offers, leaves, or stops reading.

`PlaySession` implements `SerialSession`: `wire` is what was sent, a closed connection
is the end, `packs` are the packs offered. In `SerialSession` an operation's packets
are contiguous and its packs change only to what is standing on the wire.

### The conversions

`ComponentNBT`, `MiniMessage`, `Wire` and `RegistryFiles` are functions.
`MCConversions` chooses an input, converts it and compares the result with what the
component should mean, said independently: the client's reader for `ComponentNBT`; for
`MiniMessage` the set of tags that enclose a token, without a tree or recursion over
one; for `Wire` the packets that have arrived whole; for `RegistryFiles` the other
loader. A text is a sequence of what the scanner cuts it into (letters, malformed,
opening, closing and self-closed tags), a payload a name. A string of JSON is its bytes,
of two kinds: those the client's modified UTF-8 has too, and those of characters beyond
U+FFFF, which the code writes as they are. A number goes the code's way: an integer through
`Int64` and `int32`, a decimal through `Float64` and `float32`, rounded twice to so many
significant bits. `ComponentFaithful` speaks of the values that survive this
(`Expressible`, `Fits`); for the rest it says that the client reads to the end.

### Configuration

`main` starts with a `file`, reads it into `fileCfg` (`ReadFile`, with the defaults of
`LoadFileConfig`) and makes the `world` it serves (`MakeWorld`); any file of
`ConfigFiles`. What a file should mean is `AsConfigured`, and `WorldAsConfigured`
compares it with what is served. It is about sections only where the `min_y` the client is
told begins one: the code divides towards zero and announces the value as it is.

What a client is told of the dimension depends on its protocol (`Told`). From 766 on it is
made from the world; 759 to 765 look the world's name up in the dimension types of the
generated registry data (`Codec`), 757 and 758 are sent one dimension of it
(`CodecDimension`). The chunk is cut from the world's dimension for all of them. So
`AsConfigured` says of protocols before 766 that the packet fits under one condition,
`ToldFromFile`: the file describes the type they are told anyway. Nothing in the code sees to
that, and the default world does not meet it (finding 4).

### LoginSequence and Router

`LoginSequence` gives every protocol its adapter and every adapter its sequence:
packets to write, optional ones that are skipped if the table lacks them, packets
to await, the look-up of the spawn chunk. `Router` runs a connection through
handshake, status or login, policies, authentication and this sequence. Packets of
the client pass through the socket, the buffer of the reader in use and the
parser, so that replacing the reader loses what it had read ahead. The client of the model
follows the protocol except that it may answer the encryption request in any way,
send one packet out of place and leave. Cryptography is the flag `sealed` and the
key of a packet; a packet that is read with the wrong key does not parse.

### ProxyProtocol

Bytes are counted, not spelled: a stream is its first byte, whether a signature
follows, the length and fields of the header and the end of the first packet, and
any number of bytes may arrive at a time. `PeerStreams` are the streams a peer may send. Read deadlines are `none`, the header's
or the router's. `AddressStable` is what allows `Server` to give a
connection one fixed address.

### World

The loader decodes a palette (a Go map, so of two names with one ID either may
win), block data of variable-length numbers, and sets block after block; an
adapter picks the spawn chunk, translates, builds the local palette and packs;
the client unpacks. `Edge`, `Bits`, `LongBits` and `Sections` are 16, 4, 64 and 16
in the source; TLC uses 2, 1, 4 and 2, which keeps all the carries and
boundaries and makes every case reachable with six blocks. A modern client is told the
world's dimension or one of the registry data's (`ToldTo`, `Codecs`), takes as many
sections as that has and counts them from its `min_y` (`Read`, `Place`). What it sees is
stated for `ToldAsSent`: the `min_y` it is told begins a section, as Minecraft demands, and
is the world's, and the packet has all the sections it expects. The first and the last are
conditions on the configuration where the client is told the registry data's dimension;
the loader and the adapters take any. The adapters' loops over the
cells of a section and the indices of a long are recursive functions of the number of
turns; `|=` of a shifted index is an addition, which is right because a long is below
the place of its next index (`LongBelow` of `WorldProofs`). The numbers of the block data
are read by a loop of the schematic package; it has the groups and the limit of `Wire`,
of which `World` takes them.

## 3. Runs

| Run | Bounds | Shows |
|---|---|---|
| `server` | 3 connections, 2 addresses (one used twice), 2 `Shutdown` callers | `QuietAfterShutdown`, `NoOpenHandlerAfterClose`, `ReleaseAfterClose`, `JoinNeverLost`, the refinement `ImplementsLifecycle`; a cancelled context or a `Shutdown` stops everything (`ShutdownStops`); a closed player's join is released (`ClosedJoinReleased`) |
| `server_second_shutdown` | 2 connections | violation, see findings |
| `rate_limit` | 3 callers, 3 hosts, 2 requests per 2 ticks, 4 ticks | `Budget`, `RunningWindowKept`, `TableCleaned` |
| `play_session` | 2 applications (symmetric), 2 packs, 1 operation each, 1 client packet | the refinement `ImplementsSession`, `PacksMatchWire`, `NeverAnotherPack`, `NoCallbackAfterOwnKick` |
| `play_session_liveness` | 1 application, no symmetry | `SessionEnds` |
| `router` | one protocol of every kind (`Kind` in `MCRouter`: all the router asks of a protocol), one without an adapter, one unknown; all modes, answers, verdicts; 1 update; 1 stray packet | `StatesAgree`, `IdentityEstablished`, `JoinEventAfterSequence`, `OneSnapshot`, `NothingLost`, `AdapterComplete`, `LoginEnds` |
| `proxy` | every configuration with at most one listed proxy, nine streams | `AddressStable`, `HeaderBelieved`, `NothingSwallowed`, `HeaderDeadlineGone`, `HeaderSettled` |
| `world` | 3 sizes across chunk and section borders, 5 palettes, 4 dimensions, 2 of the registry data, 6 spawns, 3 encodings | `LoadKeepsBlocks`, `SpawnInChunk`, `ClientSeesWorld`, `WholeSchematicSent` |
| `world_many_states` | the same | violation, see findings |
| `conversions` | all operations on all protocols; texts of at most 5 tokens out of 16; JSON three levels deep, two values wide; two packets, cut anywhere; up to two registry files; all dimension, spawn and schematic settings that differ in a decision | `CapabilitiesTruthful`, `TitleActionsDistinct`, `WorldAsConfigured`, `StyledAsNested`, `ComponentFaithful`, `PacketsSelfDelimiting`, `LoadersAgree` |
| `minimessage_unknown_tag` | texts of at most 2 tokens | violation, see findings |
| `default_world_bedrock` | the settings of `conversions` | violation, see findings |

`Server` and `Router` are checked for `TypeOK` too; those of the other state machines are
proved. Every
property of a passing run is violated by a mutant of a definition (`Mutant:` in
the modules), a change a programmer could make.

Why the bounds are enough: three connections are the least number for which one
address is used twice while another connection lives, and two `Shutdown` callers
are what the program has. A second application goroutine is what it takes for two of them to contend;
one operation each, with the handler's callback as a third, gives every pair of
operations in every order. Two registry versions tell a snapshot from the current
data. In `world` two cells per side, two sections and two chunks give an inside
and an outside of every border. In `conversions` and `world` a byte carries two bits of a
number and numbers have nine, so that the last of five bytes is cut off as it is with
seven and thirty-two; lengths of strings are modulo 4, integers modulo 16 and 64 for 2^32
and 2^64, and floats have two and four significant bits, so that there are decimals that
fit, that are rounded once or twice, and that overflow either. The dimension types are those
of the registry data. Five tokens are
what two tags, crossed or closed twice, and a letter under both need.

### Fairness

- `Server`: goroutines that can run do (weak fairness of each step of `Serve`, of
  a `Shutdown` that has begun, of the wait). A handler is only assumed to go on
  once its connection is closed: before that it may sit in a read for ever.
  For a session in play, `SessionEnds` of `PlaySession` checks that assumption.
- `PlaySession`: strong fairness of the steps that lock, since Go's `sync.Mutex`
  hands itself to a waiter after a millisecond; weak fairness of the others.
  Writes to an open connection are not fair: a client that does not read blocks
  them.
- `Router`: weak fairness of the server's steps and of the client's reading, so
  `LoginEnds` says that a client that does its part is never left waiting. No
  fairness for stray packets, leaving or updates.
- `ProxyProtocol`: reads whose bytes are there or whose deadline is set return. No
  fairness for arriving bytes.

## 4. Findings

The first four are runs in which TLC finds the behaviour; the others were met while
writing a definition.

1. `Shutdown`'s comment says that it "waits for handlers"; a second call
   returns nil at once, and `cmd/limbgo` makes one when its context ends
   (`server_second_shutdown`).
2. Sections are packed with four bits per block whatever the size of the local palette;
   the seventeenth state of a section wraps around to index 0 and the client
   shows other blocks than the schematic has (`world_many_states`).
3. MiniMessage's `Parse` says that unknown tags "are kept as literal text"; the tag is, but
   everything from it to its closing tag, or to the end of the text, is lost
   (`minimessage_unknown_tag`).
4. `README.md` says that the default world has its bedrock at 0, 64, 0. Clients of protocols
   757 to 765 are told the registry data's overworld, 24 sections from -64
   (`protocol766.go:276`, `:348`), but the chunk has the 16 sections of the world's own
   dimension, from 0 (`protocol766_data.go:149`): the packet has too few sections, and
   each would be shown 64 blocks too low. Any world whose file does not
   describe the type its name has in the registry data is sent like this
   (`default_world_bedrock`).
5. `API.md` says that an omitted `spawn.pos` defaults to 0, 65, 0 when there is no
   schematic; a file that sets `spawn.mode` or `spawn.look` gets 0, 0, 0
   (`config.go:120`; `SpawnOmitted` in `Configuration`).
6. A `JoinReleaser` "wants to clean them up after the connection closes"; joins are keyed
   by the text of the remote address, so of two connections that share one (clients of a
   Unix socket, two PROXY headers with one source) the first to end releases the join of
   the other. `Server` with `ExclusiveAddrs = FALSE` violates `ReleaseAfterClose`.
7. `API.md` says an unsupported method returns `ErrUnsupportedCapability`; the
   dialog writers return a plain error (`play_events.go:734`, `:760`; the `plain`
   error of `PlayPackets`).
8. `API.md` says that responses are mapped "back to the original ID"; a response under way
   while its pack is removed is reported under its UUID (`play_events.go:196`;
   `NeverAnotherPack` shows that it is at least never another pack's ID).
9. `API.md` says that `JoinEvent` follows the time packet; a world without a time
   of its own has none (`world_props.go:47`, `Time` in `LoginSequence`).
10. `NormalizeDimension` says that it preserves explicit values; a dimension without a name is
   replaced by a preset as a whole, `MinY` and `Height` included (`world.go:115`).
   `DimensionPreset` says that a positive height overrides the logical height; the nether's
   is always 128 (`world.go:62`). A configured height below that leaves a
   logical height above it.
11. The file's dimension is normalized before the schematic is known (`loadWorld` passes
   height 0, which becomes 256), so a dimension without `height` never grows with a taller
   schematic (`cmd/limbgo/main.go:121`).
12. JSON lists of mixed types become lists of the first element's type, the others
   empty; a string above 65535 bytes is written with its length cut off
   (`play_events.go:1070`, `:1138`). A decimal becomes a `float32`: 0.1 is rounded, 1e40 is
   infinity (`:1055`, `:1130`). Strings are written in UTF-8 where NBT has modified
   UTF-8, so that the client cannot read one with a character beyond U+FFFF (`:1137`). In a gradient an unsupported or unknown tag is counted
   with one rune or with its children's and rendered with those of its literal, so
   later runes have places beyond the total (`minimessage.go:486`).

## 5. Proofs

TLAPS checks these for all values of the constants that meet the module's named
assumption. Each rests on an inductive invariant, a conjunction of named parts,
which TLC checked on the module's run before it was proved. The invariants are
beside the state machines (`Server`, `RateLimiter`, `Router`, `ProxyProtocol`,
`PlaySession`, `World`, `Configuration`), the proofs in the modules named `...Proofs`.

**`ServerProofs`**. `TypeCorrect` is type correctness. `ShutdownQuiet` and
`NoneLeftOpen` rest on `ShutdownInv`: `wg` counts the handlers that run
(`WgCounts`); an accepted connection that is not started yet is the current one of
`Serve` (`AcceptedIsCurrent`); an open connection of a closed server is in the
snapshot the closing `Shutdown` still works off (`OpenIsReachable`), and only one
caller closes (`OneCloser`); an entry of the table has a handler that will take it
(`EntryHasHandler`); and when the wait is over no handler is past its first read
(`QuietAfterWait`). The last one needs the others because the wait can end between
`trackConn` and `wg.Add`. `ReleasedOnceAfterClose`, `JoinedRecorded`, `NeverLost`
and `Refinement` add `OwnInv`: live addresses differ, a handler takes its own join,
a released join's handler is past the release, and the entry under a joined player's
address is the player's. They assume `ExclusiveAddrs`, and need it (finding 6).

**`RateLimiterProofs`**. `TypeCorrect`, `BudgetHolds`, `WindowKept` and `TableIsCleaned`
from `RateInv`: no stamp lies in the future; while a host's window runs by the clock its
entry records that window; and what was served in it is at most the entry's count,
which is at most the limit.

**`ProxyProtocolProofs`**. `OneAddress`, `OnlyTrustedBelieved`,
`RouterReadsBehindHeader` and `DeadlineRestored`, for every configuration, stream
and way of its arriving, from `WrapInv`. Its parts follow one connection: until the
header is settled the router has seen neither a byte nor an address
(`NothingBefore`), a method waits only while the header is being read
(`WaitsInHeader`), and fields are read behind a signature only (`FieldsAreSigned`);
a connection without an error is read from right behind its header
(`ReadyIsBelieved`, `StartBehindHeader`), and that header, if it was needed or gave
an address, was a trusted peer's; a connection that is not wrapped keeps its own
address (`RawUntouched`); every address reported so far is the one that would be
reported now (`ReportedIsCurrent`, without which `AddressStable` is not inductive:
it speaks of all answers ever given); and the deadline in force is the router's
except while a header with a time limit is read (`DeadlineKept`).

**`PlaySessionProofs`**, for any number of application goroutines, packs and
operations, on every protocol that reaches play. `Refinement` proves that the
session implements `SerialSession`. Its core is that whoever is between its first
and last packet holds `s.mu` (`WriterHoldsLock`), that what it still has to write is
the rest of its operation (`LeftIsRest`) and what it has written stands together on
the wire (`FramesOwned`); nothing is open behind a kick (`KickCloses`), and the
packs remembered are those on the wire, except for what the holder of the lock has
written and not recorded yet (`WireIsRemembered`). The lemma that carries it,
`NextFrameFacts`, says that an operation on packs and a kick are one packet each and
no other operation writes such packets, on any protocol: with two packets the tables
could differ from the wire half way. `NoCallbackAfterKick` needs `OwnKickEndsLoop`:
the handler's own kick leaves its loop no way to the next read. `OwnPackReported`
and `RememberedAsOffered` add `NamesAreOwn`, that a uuid or hash is mapped to its
own pack, and assume `DistinctNames`. They need it, and an application can break it:
two spellings of one uuid are two IDs with one key, and a file offered under two IDs
has one hash. `LastIsRemembered` is there for protocol 47, where a response may name
nothing and is reported under the last pack.

**`RouterProofs`** has two parts. `RouterTypes`, `IdentitySafe` and `SnapshotKept` rest on
`RouterInv`: before the decision nothing of the adapter's has been written; while
authentication is under way the player is the unverified one of an online or hybrid
login; in the adapter's phases the player is `Admitted`; and every packet with
registry data has the connection's snapshot's version. One lemma per kind of step (a
write, a silent step, a packet read, the decision) carries it through.

The second part, for every protocol, mode and answer: `BothEndsAgree`,
`JoinAfterSequence`, `NoPacketLost` and `AdaptersComplete` from `RouterInv` and
`SequenceInv`. Some lemmas are about the adapters' sequences themselves
(`PlanTurns`, `PlanWrites`, `PlanOrder`): every packet belongs to the state that
those before it have brought the client to, and is in its protocol's table. The
others tie the connection to the sequence: what the adapter has written, in order,
is what stands in the sequence before its place, optional packets that the table
lacks aside, and has brought the client to the state of that place (`InSequence`);
the client's state is the one the packets it has read lead to (`ClientFollows`);
from the encryption request on every packet is encrypted, but for the reason of a
refusal (`KeyFollows`); before the adapter's turn only the packets of the handshake
have been written (`Exchange`); and a client that has acknowledged its configuration
has left it (`Acknowledged`). `NothingAhead` is what makes a replaced reader
harmless: until then a client cannot be ahead of the server by more than its first
packets, so a reader that is given up holds nothing but packets sent out of place.

**`WorldProofs`**, for every size of schematic and section, with the palette and the
ids as they come: `KeepsBlocks`, `SpawnChunk`, `WholeSchematic`, `ClientSees` and
`TypeCorrect` from `WorldInv`. The loader sets block after block, and the invariant says of the ones set so far
(`Progress`) what each section holds (`Kept`). It needs two facts beside: a chunk's
sections are in ascending order, each made for a layer that the loader has begun
(`Shaped`), so that a new one is the topmost and sorting moves none of the others;
and every block set so far has a section (`Covered`), so that the zeros of a new
section are right for all that was set. `SentFromSpawn` says which chunk was sent.
Underneath are lemmas about quotients and remainders: a coordinate is its chunk's
and the one inside it (`Split`), the number of a place determines it (`OnePlace`),
rounding a height up to whole sections.

`ClientSees` joins the two ends. Of the packet the invariant has `PacketIsChunk`: where
a client looks for a section stands what `WriteSection` makes of that section of the
chunk, in the packets with a mask because a section is written behind those that the
mask names below it (`MaskedPlace`), in the modern ones because the first section is the
one at the `MinY` the client was told, under `ToldAsSent` (`InItsPlace`). Of a section that was written
`SectionSeen` says that a client unpacks the cell's state from it, whatever the number of
bits: the local palette has every state (`PaletteHas`), so that a state's index leads
back to it (`IndexLeadsBack`); a long is made of what was packed before, below the place
of the next index (`LongBelow`), and of multiples of that place, which later turns add
(`LongAbove`), so that shifting and masking yield the index with its low bits
(`Unpacked`); and those are the whole index as long as the palette is no longer than
`1 << Bits` (`Fits`). Finding 2 is what happens where it is longer.

`TypeCorrect` adds `Indexed`: block data is numbers, the palette of a loaded schematic is
0 to some `top`, and every ID set so far is in it. With `Kept` a cell holds one of
these IDs or 0, so no section has an ID outside the palette.

**`ConversionProofs`** begins with what the proofs about loops rest on. The library's induction
theorems take an operator, which the provers cannot instantiate; `Induction` says the same
of a set of numbers, from the least element of its complement, and so does `InductionUpTo`
of a range. `Recursion` and `RecursionUpTo` say that a step from a number and a value to a
value has a function that unfolds it, which is what a definition by recursion needs before
anything can be said of it.

`StreamRead` says `PacketsSelfDelimiting` for any number of packets, any cut and any widths
of groups and numbers that satisfy `NumbersFit`; its packets are within the limit, and
the limit is a number (`Limit`), which 2 MiB and any other `int32` is. The argument goes up
from bytes. What `WriteVarInt` writes spells the number (`BytesAre`): all bytes but the
last have the bit that says another follows, and adding up the groups gives the number
back (`GroupsFound`: after k bytes what has been added and what is left make the number).
So a number is read as it was written whatever follows it (`NumberRead`), and not at all
from a part of it (`NumberCut`). A packet is two numbers and data; the same two facts
hold of it (`PacketRead`, `PacketCut`). A stream that is cut begins with the packets that
have arrived whole and ends in a part of the next one (`SomeWhole`, `Cut`), and the
reader has read k of them after k calls (`AllRead`). Then it stops, since a part of a packet
is not one (`ReadsNoMore`). `LengthPredicted` says that `VarIntLen`, which counts in a
loop of its own, is the length of what `WriteVarInt` writes.

`RegistriesAgree` says `LoadersAgree` for any number of entries and payloads of any kind.
The zip's loop goes through the entries once and decodes four fields of each, the JSON
file's goes through them four times and decodes one; so the argument says what both have
in their tables at every point (`At`: how many entries are in each of the four) and that a
turn of either loop takes it one entry further or fails (`DecodeIs`, `PassStep`). For
that a protocol must have one entry (`TableNext`). Both end at the tables of all entries
if every payload can be read and in failure otherwise (`ZipIs`, `JsonIs`). `ZipFails` is
the other half: a failure stays one. The entries are read in the same order in both; Go
goes through a map in any order, of which the tables and whether it fails do not depend.

**`ConfigurationProofs`**. `ServedAsConfigured`: for every file `AsConfigured`
holds, with heights, `min_y` and schematics of any size, positive or not. The
dimension is normalized twice on its way and once more for the client; the lemmas
say that a dimension that has a name and a height in whole sections is kept
(`WholeKept`), and that every way through `loadWorld` ends in one (`Served`). So what a
client from 766 on is told is the world's dimension (`ToldAsServed`), and what one before
is told is that if the file describes it (`FromFile`); the packet then has as many sections,
beginning where the client's do, and a block is shown at its height (`ShownInPlace`).
`AlwaysAsConfigured` says it of the specification, from the invariant that what `main` has
read and made are those of its file (`ServedFromFile`).

Only model-checked:

- All liveness (`ShutdownStops`, `ClosedJoinReleased`, `SessionEnds`,
  `LoginEnds`, `HeaderSettled`): the prover cannot do fairness or
  `ENABLED`.
- `StyledAsNested` and `ComponentFaithful`: their parsers and encoders recurse over trees and
  are written with `RECURSIVE` operators, in which the prover has no arithmetic, and
  induction over trees is beyond it.
- `CapabilitiesTruthful` and `TitleActionsDistinct`, which speak of finite tables:
  TLC visits all of their cases.

## 6. Not modelled

Payloads of packets other than components and those that decide control; RSA and
AES; the HTTP of the session verifier; gzip and NBT of schematics; biomes, light
and heightmaps. JSON, zip and base64 of registry data files are libraries. Of MiniMessage:
click and hover events, fonts, transitions and the values of colours; the arguments of
a tag are those with which it is understood, or it is an unknown tag. Of the
configuration: everything that is copied field by field, and the visual fields of a
dimension. Dialogs are builders of JSON objects. The generated tables beyond the
packet names in use (they are four fifths of the lines of the repository: block states
and packet numbers), and the code generators, which do not run in the server. The status-only
router (`protocol/status`) is the status path of the login router once more.
In `Router` and `PlaySession` packets are read and written as a whole, which
`PacketsSelfDelimiting` justifies for reads: a write that fails half way is one that fails.

Where a model is narrower than the code:

- `Server`: a socket is closed before its join is released (`server.go:224`, `:225`); that
  its address is used again between the two is assumed away with `ExclusiveAddrs`.
- `ProxyProtocol`: only the handler's goroutine sets read deadlines, as in the repository; a
  router that did so from another one would race with the header's (`proxy_protocol.go:188`
  reads the field that `SetReadDeadline` writes).
- `Router`: a bad answer is one of a few kinds, `badToken` for both that are
  `ErrInvalidLogin` (trailing bytes too); the verifier is never missing. Of the packets that
  are dropped while a client is configured, there is one for all (`settings`).
- `PlaySession`: a pack has one hash; an application may offer one ID with several.
- `World`: the arithmetic of the loader does not overflow (`load.go:118`, `:243`); the
  two-byte numbers of protocol 47 are numbers, in no byte order.
- `ComponentNBT`: decimals are whole numbers, as rounding does not depend on the scale; so
  there is none below the smallest float.
- `MiniMessage`: a tag has the arguments it needs. `lang_or` and its two synonyms need
  two and test for one: with one, `t.args[2:]` is out of range and panics
  (`minimessage.go:401`).
- `TitleActionsDistinct` compares the methods with each other: a boundary that is wrong alike
  in all of them is not noticed.

## 7. Plan

1. Done: server, rate limiter, play packets and session with the serial session it
   implements, login, PROXY protocol, world, configuration, components, texts, framing,
   registry files; proofs of the safety properties and refinements of the state machines,
   but for the conversions named under "Only model-checked".
2. Model next: a composition of `ProxyProtocol` with the server's join table (today
   `AddressStable` is the contract between them); the merging of the visual dimension fields;
   strings of 32767 characters and their limit.
