----------------------------- MODULE RouterProofs -----------------------------
(***************************************************************************)
(* Proofs about Router, for any protocol numbers, login modes and answers  *)
(* of the client, and any number of updates of the registry data.          *)
(*                                                                         *)
(* First identity and snapshot; then what needs the adapters' sequences,   *)
(* packet by packet, and the client's side of the exchange: that both ends *)
(* agree on state and key, that the join event comes behind the sequence,  *)
(* that no packet is left behind and that no adapter lacks one.            *)
(***************************************************************************)
EXTENDS Router, SequenceTheorems, TLAPS

LEMMA InitRouter == Init => RouterInv
<1> SUFFICES ASSUME Init PROVE RouterInv
  OBVIOUS
<1>1. TypeOK
  <2>1. player \in [id : {"none", "claimed", "override", "profile"}, verified : BOOLEAN]
    BY DEF Init, NoPlayer
  <2>2. sealed \in BOOLEAN /\ ckey \in BOOLEAN
    BY DEF Init
  <2>3. store \in 1..MaxVersion /\ snapshot \in 0..MaxVersion /\ seen \in 0..Len(out)
    BY RouterAssumption DEF Init
  <2> QED
    BY <2>1, <2>2, <2>3 DEF Init, TypeOK
<1>2. out = <<>> /\ steps = <<>> /\ phase = "handshake"
  BY DEF Init
<1> QED
  BY <1>1, <1>2 DEF RouterInv, IdentityEstablished, Names, Undecided

\* What every adapter does is a sequence of steps.
LEMMA StepsType == ASSUME NEW p PROVE Steps(p) \in Seq(StepSet)
<1> DEFINE T == StepSet
<1>1. \A s \in PacketNames : W(s) \in T /\ Opt(s) \in T /\ R(s) \in T
  BY DEF W, Opt, R, StepSet
<1>2. Chunk \in T /\ Time \in T
  BY DEF Chunk, Time, StepSet, PacketNames
<1>3. ChunkView \in Seq(T)
  BY <1>1 DEF ChunkView, PacketNames
<1>4. serveProtocol47 \in Seq(T)
  BY <1>1, <1>2 DEF serveProtocol47, PacketNames
<1>5. \A s, t \in Seq(T) : s \o t \in Seq(T)
  OBVIOUS
<1> HIDE DEF T
<1>6. <<>> \in Seq(T) /\ <<W("update_light")>> \in Seq(T)
  BY <1>1 DEF PacketNames
<1>7. <<W("success"), W("login"), W("position"), Time>> \in Seq(T)
  BY <1>1, <1>2 DEF PacketNames
<1>8. <<Chunk, W("map_chunk")>> \in Seq(T)
  BY <1>1, <1>2 DEF PacketNames
<1>9. <<W("success"), R("login_acknowledged"), W("registry_data"), W("tags"),
        W("finish_configuration"), R("finish_configuration"), W("login"),
        W("position"), Time>> \in Seq(T)
  BY <1>1, <1>2 DEF PacketNames
<1>10. <<Chunk, W("chunk_batch_start"), W("map_chunk"),
         W("chunk_batch_finished")>> \in Seq(T)
  BY <1>1, <1>2 DEF PacketNames
<1>11. Steps(p) \in Seq(T)
  BY <1>3, <1>4, <1>5, <1>6, <1>7, <1>8, <1>9, <1>10
  DEF Steps, serveProtocol340, serveLegacyProtocol, serveFlatProtocol,
      serveCodecProtocol, serveModernPreConfigurationProtocol, serveModernProtocol
<1> QED
  BY <1>11 DEF T

\* A packet, other than the adapter's first, that carries no registry data.
LEMMA Sending ==
    ASSUME out \in Seq(FrameSet),
           NEW name \in PacketNames, name # "success", NEW key \in BOOLEAN,
           out' = Append(out, Frame(name, key, 0))
    PROVE  /\ out' \in Seq(FrameSet)
           /\ Len(out') = Len(out) + 1
           /\ "success" \in Names' => "success" \in Names
           /\ \A i \in DOMAIN out' :
                  \/ out'[i].name # "success" /\ out'[i].version = 0
                  \/ i \in DOMAIN out /\ out'[i] = out[i]
<1> DEFINE f == Frame(name, key, 0)
<1>1. StateOf(name) \in {"status", "login", "configuration", "play"}
  BY DEF StateOf
<1>2. f \in FrameSet /\ f.name = name /\ f.version = 0
  BY <1>1 DEF Frame, FrameSet
<1> HIDE DEF f
<1>3. out' = Append(out, f)
  BY DEF f
<1>4. /\ out' \in Seq(FrameSet) /\ Len(out') = Len(out) + 1
      /\ \A i \in DOMAIN out' : out'[i] = f \/ (i \in DOMAIN out /\ out'[i] = out[i])
  BY <1>2, <1>3
<1> QED
  BY <1>2, <1>4 DEF Names

\* The adapter writes a packet.
LEMMA Writing ==
    ASSUME out \in Seq(FrameSet),
           NEW name \in PacketNames, NEW key \in BOOLEAN, NEW version \in Nat,
           out' = Append(out, Frame(name, key, version))
    PROVE  /\ out' \in Seq(FrameSet)
           /\ Len(out') = Len(out) + 1
           /\ \A i \in DOMAIN out' :
                  out'[i].version = version \/ (i \in DOMAIN out /\ out'[i] = out[i])
<1> DEFINE f == Frame(name, key, version)
<1>1. StateOf(name) \in {"status", "login", "configuration", "play"}
  BY DEF StateOf
<1>2. f \in FrameSet /\ f.version = version
  BY <1>1 DEF Frame, FrameSet
<1> HIDE DEF f
<1>3. out' = Append(out, f)
  BY DEF f
<1> QED
  BY <1>2, <1>3

\* A step that writes nothing and leaves the identity and the registry data
\* alone: it stays, ends, moves on before the decision or behind the adapter.
LEMMA Silent ==
    ASSUME RouterInv,
           UNCHANGED <<next, mode, verdict, player, sealed, snapshot, out>>,
           steps' \in Seq(StepSet), store' \in 1..MaxVersion, ckey' \in BOOLEAN,
           seen' \in 0..Len(out),
           \/ phase' \in {phase, "closed"}
           \/ phase \in Undecided /\ phase' \in {"statusRequest", "allow", "loginStart", "decide"}
           \/ phase = "adapter" /\ phase' \in {"play", "missingPacket"}
    PROVE  RouterInv'
<1>1. Names' = Names
  BY DEF Names
<1>2. TypeOK'
  BY DEF RouterInv, TypeOK, Undecided
<1>3. Admitted <=> Admitted'
  BY DEF Admitted
<1> QED
  BY <1>1, <1>2, <1>3 DEF RouterInv, IdentityEstablished, Undecided

\* A step that writes a packet, other than the adapter's, and ends or awaits
\* the ping or the encryption response.
LEMMA Spoken ==
    ASSUME RouterInv, phase \in Undecided,
           UNCHANGED <<next, snapshot, steps, store, ckey, seen>>,
           mode' \in {"none", "offline", "online", "hybrid", "unknown"},
           verdict' \in Verdicts \cup {"none"},
           player' \in [id : {"none", "claimed", "override", "profile"}, verified : BOOLEAN],
           sealed' \in BOOLEAN,
           NEW name \in PacketNames, name # "success", NEW key \in BOOLEAN,
           out' = Append(out, Frame(name, key, 0)),
           phase' \in {"ping", "closed"}
             \/ /\ phase' = "answer"
                /\ mode' \in {"online", "hybrid"}
                /\ player'.id = "claimed" /\ ~player'.verified
    PROVE  RouterInv'
<1>1. /\ out' \in Seq(FrameSet)
      /\ Len(out') = Len(out) + 1
      /\ "success" \in Names' => "success" \in Names
      /\ \A i \in DOMAIN out' :
             \/ out'[i].name # "success" /\ out'[i].version = 0
             \/ i \in DOMAIN out /\ out'[i] = out[i]
  BY Sending DEF RouterInv
<1>2. TypeOK'
  <2>1. seen' \in 0..Len(out')
    BY <1>1 DEF RouterInv, TypeOK
  <2> QED
    BY <2>1 DEF RouterInv, TypeOK
<1>3. "success" \notin Names
  BY DEF RouterInv, Names
<1>4. \A i \in DOMAIN out' : out'[i].name # "success" /\ out'[i].version = 0
  BY <1>1 DEF RouterInv
<1> QED
  BY <1>1, <1>2, <1>3, <1>4 DEF RouterInv, IdentityEstablished, Undecided

\* The end of the authentication or of the decision: nothing is written.
LEMMA Decided ==
    ASSUME RouterInv, phase \in Undecided,
           UNCHANGED <<next, snapshot, steps, store, ckey, seen, out>>,
           mode' \in {"none", "offline", "online", "hybrid", "unknown"},
           verdict' \in Verdicts \cup {"none"},
           player' \in [id : {"none", "claimed", "override", "profile"}, verified : BOOLEAN],
           sealed' \in BOOLEAN,
           \/ phase' = "closed"
           \/ phase' = "dispatch" /\ Admitted'
           \/ phase' = "verify" /\ sealed' /\ mode' \in {"online", "hybrid"}
              /\ player'.id = "claimed" /\ ~player'.verified
    PROVE  RouterInv'
<1>1. Names' = Names /\ "success" \notin Names
  BY DEF RouterInv, Names
<1>2. TypeOK'
  BY DEF RouterInv, TypeOK
<1> QED
  BY <1>1, <1>2 DEF RouterInv, IdentityEstablished, Undecided

LEMMA NextRouter == RouterInv /\ [Next]_vars => RouterInv'
<1> SUFFICES ASSUME RouterInv, [Next]_vars PROVE RouterInv'
  OBVIOUS
<1> USE RouterAssumption DEF choice, auth, registry, client
<1>t. /\ TypeOK /\ steps \in Seq(StepSet) /\ out \in Seq(FrameSet)
      /\ store \in 1..MaxVersion /\ ckey \in BOOLEAN /\ seen \in 0..Len(out)
  BY DEF RouterInv, TypeOK
<1>n. {"status_response", "pong", "disconnect", "encryption_begin"} \subseteq PacketNames
  BY DEF PacketNames
<1>1. CASE Fill
  BY <1>1, <1>t, Silent DEF Fill
<1>2. CASE ConnError
  BY <1>2, <1>t, Silent DEF ConnError, Close
<1>u. ASSUME NEW name, Unexpected(name) PROVE RouterInv'
  BY <1>u, <1>t, Silent DEF Unexpected, Close
<1>3. CASE ReadHandshake
  <2>1. ASSUME phase = "handshake",
               phase' = CASE next = "status" -> "statusRequest"
                          [] next = "login"  -> "allow"
                          [] next = "other"  -> "closed",
               UNCHANGED <<choice, auth, steps, registry, out, client>>
        PROVE  RouterInv'
    <3>1. phase' \in {"statusRequest", "allow", "closed"}
      BY <2>1, <1>t DEF TypeOK
    <3> QED
      BY <2>1, <3>1, <1>t, Silent DEF Undecided
  <2> QED
    BY <1>3, <1>u, <2>1 DEF ReadHandshake
<1>4. CASE ReadStatusRequest
  BY <1>4, <1>u, <1>t, <1>n, Silent, Spoken
  DEF ReadStatusRequest, Close, Send, Undecided, TypeOK
<1>5. CASE ReadPing
  BY <1>5, <1>u, <1>t, <1>n, Spoken DEF ReadPing, Close, Send, Undecided, TypeOK
<1>6. CASE AllowProtocol
  BY <1>6, <1>t, <1>n, Silent, Spoken DEF AllowProtocol, Close, Send, Undecided, TypeOK
<1>7. CASE ReadLoginStart
  BY <1>7, <1>u, <1>t, Silent DEF ReadLoginStart, Close, Undecided
<1>8. CASE Decide
  <2> USE <1>8, <1>t DEF Decide, Undecided
  <2>1. ASSUME Close, UNCHANGED <<mode, player, out>> PROVE RouterInv'
    BY <2>1, Silent DEF Close
  <2>2. ASSUME NEW chosen \in Modes, NEW override \in BOOLEAN,
               mode' = NormalMode(chosen),
               player' = Offline(OfflineID(mode', override)),
               \/ mode' = "offline" /\ phase' = "dispatch" /\ UNCHANGED out
               \/ mode' \in {"online", "hybrid"} /\ phase' = "answer"
                  /\ Send("encryption_begin", 0)
               \/ mode' \notin {"offline", "online", "hybrid"} /\ Close /\ UNCHANGED out
        PROVE  RouterInv'
    <3>1. mode' \in {"none", "offline", "online", "hybrid", "unknown"}
      BY <2>2 DEF NormalMode
    <3>2. /\ player' \in [id : {"none", "claimed", "override", "profile"}, verified : BOOLEAN]
          /\ ~player'.verified
          /\ player'.id = "override" => mode' = "offline"
          /\ mode' # "offline" => player'.id = "claimed"
      BY <2>2 DEF Offline, OfflineID
    <3>3. CASE phase' = "dispatch"
      BY <2>2, <3>1, <3>2, <3>3, Decided DEF Close, TypeOK, Admitted
    <3>4. CASE phase' = "answer"
      BY <2>2, <3>1, <3>2, <3>4, <1>n, Spoken DEF Close, Send, TypeOK
    <3>5. CASE phase' = "closed"
      BY <2>2, <3>1, <3>2, <3>5, Decided DEF TypeOK
    <3> QED
      BY <2>2, <3>3, <3>4, <3>5 DEF Close
  <2> QED
    BY <2>1, <2>2
<1>9. CASE ReadAnswer
  <2>0. /\ phase = "answer" /\ mode \in {"online", "hybrid"}
        /\ player.id = "claimed" /\ ~player.verified
    BY <1>9 DEF ReadAnswer, RouterInv
  <2>1. ASSUME sealed' = TRUE, phase' = "verify",
               UNCHANGED <<choice, mode, verdict, player, steps, registry, out, net, client>>
        PROVE  RouterInv'
    BY <2>0, <2>1, <1>t, Decided DEF Undecided, TypeOK
  <2>2. ASSUME NEW err, AuthFailed(err, FALSE),
               UNCHANGED <<choice, auth, steps, registry, client>>
        PROVE  RouterInv'
    BY <2>0, <2>2, <1>t, <1>n, Spoken
    DEF AuthFailed, FallsBack, loginDisconnectConn, Close, Undecided, TypeOK
  <2> QED
    BY <1>9, <2>1, <2>2 DEF ReadAnswer
<1>10. CASE Verify
  <2>0. /\ phase = "verify" /\ mode \in {"online", "hybrid"} /\ sealed
        /\ player.id = "claimed" /\ ~player.verified
    BY <1>10 DEF Verify, RouterInv
  <2> PICK v \in Verdicts :
           /\ verdict' = v
           /\ \/ /\ v = "ok"
                 /\ player' = Verified
                 /\ phase' = "dispatch"
                 /\ UNCHANGED out
              \/ /\ v # "ok"
                 /\ AuthFailed(IF v = "unavailable" THEN "other" ELSE "invalid", TRUE)
                 /\ UNCHANGED player
    BY <1>10 DEF Verify
  <2>1. UNCHANGED <<choice, mode, sealed, steps, registry, net, buf, lost, client>>
    BY <1>10 DEF Verify
  <2>2. CASE v = "ok"
    <3>1. /\ player' \in [id : {"none", "claimed", "override", "profile"}, verified : BOOLEAN]
          /\ player'.id = "profile" /\ player'.verified
      <4>1. player' = [id |-> "profile", verified |-> TRUE]
        BY <2>2 DEF Verified
      <4>2. player'.id = "profile" /\ player'.verified = TRUE
        BY <4>1
      <4> QED
        BY <4>1, <4>2
    <3>2. Admitted'
      BY <2>0, <2>1, <2>2, <3>1 DEF Admitted
    <3> QED
      BY <2>0, <2>1, <2>2, <3>1, <3>2, <1>t, Decided DEF Undecided, TypeOK
  <2>3. CASE v # "ok" /\ FallsBack(IF v = "unavailable" THEN "other" ELSE "invalid", TRUE)
    BY <2>0, <2>1, <2>3, <1>t, Decided
    DEF AuthFailed, FallsBack, Undecided, TypeOK, Admitted, Verdicts
  <2>4. CASE v # "ok" /\ ~FallsBack(IF v = "unavailable" THEN "other" ELSE "invalid", TRUE)
    BY <2>0, <2>1, <2>4, <1>t, <1>n, Spoken
    DEF AuthFailed, loginDisconnectConn, Close, Undecided, TypeOK
  <2> QED
    BY <2>2, <2>3, <2>4
<1>11. CASE Dispatch
  <2> USE <1>11, <1>t DEF Dispatch, Undecided
  <2>1. ASSUME Close, Send("disconnect", 0), UNCHANGED <<steps, snapshot>> PROVE RouterInv'
    BY <2>1, <1>n, Spoken DEF Close, Send, TypeOK
  <2>2. ASSUME phase' = "adapter", steps' = Steps(protocol),
               snapshot' = IF UsesRegistry(protocol) THEN store ELSE 0, UNCHANGED out
        PROVE  RouterInv'
    <3>1. steps' \in Seq(StepSet)
      BY <2>2, StepsType
    <3>2. Admitted' /\ Names' = Names /\ "success" \notin Names
      BY <2>2 DEF RouterInv, Admitted, Names
    <3>3. TypeOK'
      BY <2>2 DEF TypeOK
    <3>4. \A i \in DOMAIN out' : out'[i].version = 0
      BY <2>2 DEF RouterInv
    <3> QED
      BY <2>2, <3>1, <3>2, <3>3, <3>4 DEF RouterInv, IdentityEstablished
  <2>3. ASSUME Close, UNCHANGED <<steps, snapshot, out>> PROVE RouterInv'
    BY <2>3, Silent DEF Close
  <2> QED
    BY <2>1, <2>2, <2>3
<1>12. CASE Write
  <2>0. phase = "adapter" /\ Admitted /\ steps # <<>>
    BY <1>12 DEF Write, RouterInv
  <2>1. steps[1].name \in PacketNames /\ Tail(steps) \in Seq(StepSet)
    <3>1. steps[1] \in StepSet /\ Tail(steps) \in Seq(StepSet)
      BY <2>0, <1>t
    <3> QED
      BY <3>1 DEF StepSet
  <2>2. UNCHANGED <<choice, auth, registry, net, buf, lost, client>>
    BY <1>12 DEF Write
  <2>3. ASSUME Send(steps[1].name, VersionFor(steps[1].name)), steps' = Tail(steps),
               UNCHANGED phase
        PROVE  RouterInv'
    <3>1. VersionFor(steps[1].name) \in {0, snapshot} /\ snapshot \in Nat /\ sealed \in BOOLEAN
      BY <1>t DEF VersionFor, TypeOK
    <3>2. /\ out' \in Seq(FrameSet)
          /\ Len(out') = Len(out) + 1
          /\ \A i \in DOMAIN out' :
                 \/ out'[i].version = VersionFor(steps[1].name)
                 \/ i \in DOMAIN out /\ out'[i] = out[i]
      BY <1>t, <2>1, <2>3, <3>1, Writing DEF Send
    <3>3. \A i \in DOMAIN out' : out'[i].version \in {0, snapshot}
      BY <3>1, <3>2 DEF RouterInv
    <3>4. seen' \in 0..Len(out')
      BY <2>2, <3>2, <1>t
    <3>5. TypeOK'
      BY <2>2, <2>3, <3>4, <1>t DEF TypeOK
    <3>6. Admitted'
      BY <2>0, <2>2 DEF Admitted
    <3> QED
      BY <2>0, <2>1, <2>2, <2>3, <3>2, <3>3, <3>5, <3>6
      DEF RouterInv, IdentityEstablished, Undecided
  <2>4. ASSUME steps' = Tail(steps), UNCHANGED <<phase, out>> PROVE RouterInv'
    BY <2>1, <2>2, <2>4, <1>t, Silent
  <2>5. ASSUME phase' = "missingPacket", UNCHANGED <<steps, out>> PROVE RouterInv'
    BY <2>0, <2>2, <2>5, <1>t, Silent
  <2>6. ASSUME Close, UNCHANGED <<steps, out>> PROVE RouterInv'
    BY <2>2, <2>6, <1>t, Silent DEF Close
  <2> QED
    BY <1>12, <2>3, <2>4, <2>5, <2>6 DEF Write
<1>s. steps # <<>> => Tail(steps) \in Seq(StepSet)
  BY <1>t
<1>13. CASE FindChunk
  BY <1>13, <1>t, <1>s, Silent DEF FindChunk, Close
<1>14. CASE Await
  BY <1>14, <1>u, <1>t, <1>s, Silent DEF Await
<1>15. CASE Play
  BY <1>15, <1>t, Silent DEF Play
<1>16. CASE ReadPlay
  BY <1>16, <1>t, Silent DEF ReadPlay
<1>17. CASE ClientRead
  <2>1. ckey' \in BOOLEAN
    BY <1>17, <1>t DEF ClientRead
  <2>2. seen' \in 0..Len(out)
    BY <1>17, <1>t DEF ClientRead
  <2> QED
    BY <1>17, <1>t, <2>1, <2>2, Silent DEF ClientRead, server
<1>18. CASE ClientStray \/ ClientLeave
  BY <1>18, <1>t, Silent DEF ClientStray, ClientLeave
<1>19. CASE UpdateStore
  <2>1. store' \in 1..MaxVersion
    BY <1>19, <1>t DEF UpdateStore
  <2> QED
    BY <1>19, <1>t, <2>1, Silent DEF UpdateStore
<1>20. CASE Terminated \/ UNCHANGED vars
  BY <1>20, <1>t, Silent DEF Terminated, vars
<1> QED
  BY <1>1, <1>2, <1>3, <1>4, <1>5, <1>6, <1>7, <1>8, <1>9, <1>10, <1>11, <1>12,
     <1>13, <1>14, <1>15, <1>16, <1>17, <1>18, <1>19, <1>20 DEF Next, Server

\* The router's state keeps its type.
THEOREM RouterTypes == Spec => []TypeOK
<1>1. RouterInv => TypeOK
  BY DEF RouterInv
<1> QED
  BY <1>1, InitRouter, NextRouter, PTL DEF Spec

\* Whatever the protocol, the mode, the client's answers and the verifier's
\* verdict, serveLogin lets nobody in under an identity that was not
\* established the way the mode demands.
THEOREM IdentitySafe == Spec => []IdentityEstablished
<1>1. RouterInv => IdentityEstablished
  BY DEF RouterInv
<1> QED
  BY <1>1, InitRouter, NextRouter, PTL DEF Spec

\* All the registry data a connection is sent is of one version, however often
\* Store.Update runs meanwhile.
THEOREM SnapshotKept == Spec => []OneSnapshot
<1>1. RouterInv => OneSnapshot
  BY DEF RouterInv, OneSnapshot
<1> QED
  BY <1>1, InitRouter, NextRouter, PTL DEF Spec

-----------------------------------------------------------------------------
(***************************************************************************)
(* The adapters' sequences.                                                *)
(***************************************************************************)

\* The table a protocol's packets are looked up in, by adapter.
TableOf(p) == IF p \in Tables THEN p ELSE Alias[p]

LEMMA TableRanges ==
    ASSUME NEW p, Adapter(p) # "none"
    PROVE  /\ p \in Int
           /\ Adapter(p) = "legacy" => TableOf(p) \in 47..340
           /\ Adapter(p) = "flat" => p \in Flat /\ p \in 393..578 /\ TableOf(p) = p
           /\ Adapter(p) = "codec" => TableOf(p) \in 735..756
           /\ Adapter(p) = "preConfiguration" => TableOf(p) \in 757..763
           /\ Adapter(p) = "configuration" => TableOf(p) \in 764..775
           /\ Adapter(p) \in {"legacy", "flat", "codec", "preConfiguration", "configuration"}
<1>0. Alias[316] = 315 /\ Alias[753] = 751 /\ Alias[754] = 751
  BY DEF Alias
<1>1. CASE p \in {47, 340} \cup Legacy
  <2>1. p = 316 \/ p \in {47, 107, 109, 110, 210, 315, 335, 338, 340}
    BY <1>1 DEF Legacy
  <2>2. TableOf(p) \in 47..340 /\ p \in Int
    <3>1. CASE p = 316
      BY <1>0, <3>1 DEF TableOf, Tables
    <3>2. CASE p # 316
      BY <2>1, <3>2 DEF TableOf, Tables
    <3> QED
      BY <3>1, <3>2
  <2>3. p \notin Flat \cup Codec \cup PreConfiguration \cup Modern
    BY <2>1 DEF Flat, Codec, PreConfiguration, Modern
  <2>4. Adapter(p) = "legacy"
    BY <1>1, <2>3 DEF Adapter
  <2> QED
    BY <2>2, <2>4
<1>2. CASE p \in Flat
  <2>1. p \in 393..578 /\ p \in Tables /\ p \notin {47, 340} \cup Legacy
    <3>1. p \in 393..578 /\ p \in Tables
      BY <1>2 DEF Flat, Tables
    <3> QED
      BY <3>1 DEF Legacy
  <2>2. p \notin Codec \cup PreConfiguration \cup Modern
    BY <2>1 DEF Codec, PreConfiguration, Modern
  <2>3. Adapter(p) = "flat"
    BY <1>2, <2>1, <2>2 DEF Adapter
  <2> QED
    BY <1>2, <2>1, <2>3 DEF TableOf
<1>3. CASE p \in Codec
  <2>1. p \in {753, 754} \/ p \in {735, 736, 751, 755, 756}
    BY <1>3 DEF Codec
  <2>2. p \in Int /\ TableOf(p) \in 735..756
    <3>1. CASE p \in {753, 754}
      BY <1>0, <3>1 DEF TableOf, Tables
    <3>2. CASE p \in {735, 736, 751, 755, 756}
      BY <3>2 DEF TableOf, Tables
    <3> QED
      BY <2>1, <3>1, <3>2
  <2>3. p \notin {47, 340} \cup Legacy \cup Flat \cup PreConfiguration \cup Modern
    BY <2>1 DEF Legacy, Flat, PreConfiguration, Modern
  <2>4. Adapter(p) = "codec"
    BY <1>3, <2>3 DEF Adapter
  <2> QED
    BY <2>2, <2>4
<1>4. CASE p \in PreConfiguration
  <2>1. p \in 757..763 /\ TableOf(p) = p
    BY <1>4 DEF PreConfiguration, TableOf, Tables
  <2>2. p \notin {47, 340} \cup Legacy \cup Flat \cup Codec
    BY <2>1 DEF Legacy, Flat, Codec
  <2>3. Adapter(p) = "preConfiguration"
    BY <1>4, <2>2 DEF Adapter
  <2> QED
    BY <2>1, <2>3
<1>5. CASE p \in Modern \ PreConfiguration
  <2>1. p \in 764..775 /\ TableOf(p) = p
    BY <1>5 DEF Modern, PreConfiguration, TableOf, Tables
  <2>2. p \notin {47, 340} \cup Legacy \cup Flat \cup Codec
    BY <2>1 DEF Legacy, Flat, Codec
  <2>3. Adapter(p) = "configuration"
    BY <1>5, <2>2 DEF Adapter
  <2> QED
    BY <2>1, <2>3
<1> QED
  BY <1>1, <1>2, <1>3, <1>4, <1>5 DEF Adapter

\* The sequences, by adapter.
LEMMA StepsOf ==
    ASSUME NEW p, Adapter(p) # "none"
    PROVE  /\ Adapter(p) = "legacy" => Steps(p) = serveProtocol47
           /\ Adapter(p) = "flat" => Steps(p) = serveFlatProtocol(p)
           /\ Adapter(p) = "codec" => Steps(p) = serveCodecProtocol
           /\ Adapter(p) = "preConfiguration" =>
                  Steps(p) = serveModernPreConfigurationProtocol
           /\ Adapter(p) = "configuration" => Steps(p) = serveModernProtocol
<1>1. CASE p \in {47, 340} \cup Legacy
  BY <1>1 DEF Adapter, Steps, Legacy, serveProtocol340, serveLegacyProtocol
<1>2. CASE p \in Flat
  BY <1>2 DEF Adapter, Steps, Legacy, Flat
<1>3. CASE p \in Codec
  BY <1>3 DEF Adapter, Steps, Legacy, Flat, Codec
<1>4. CASE p \in PreConfiguration
  BY <1>4 DEF Adapter, Steps, Legacy, Flat, Codec, PreConfiguration
<1>5. CASE p \in Modern \ PreConfiguration
  BY <1>5 DEF Adapter, Steps, Legacy, Flat, Codec, PreConfiguration, Modern
<1> QED
  BY <1>1, <1>2, <1>3, <1>4, <1>5 DEF Adapter

\* Their elements.
LEMMA LegacySteps ==
    /\ Len(serveProtocol47) = 7
    /\ serveProtocol47[1] = W("success")
    /\ serveProtocol47[2] = W("login")
    /\ serveProtocol47[3] = W("spawn_position")
    /\ serveProtocol47[4] = W("position")
    /\ serveProtocol47[5] = Time
    /\ serveProtocol47[6] = Chunk
    /\ serveProtocol47[7] = W("map_chunk")
BY DEF serveProtocol47

LEMMA LegacyType ==
    serveProtocol47 \in Seq({W("success"), W("login"), W("spawn_position"), W("position"),
                             Time, Chunk, W("map_chunk")})
BY DEF serveProtocol47

LEMMA CodecSteps ==
    /\ Len(serveCodecProtocol) = 8
    /\ \A i \in 1..7 : serveCodecProtocol[i] = serveProtocol47[i]
    /\ serveCodecProtocol[8] = W("update_light")
<1> DEFINE T == {W("success"), W("login"), W("spawn_position"), W("position"),
                 Time, Chunk, W("map_chunk"), W("update_light")}
<1>1. serveProtocol47 \in Seq(T)
  BY DEF serveProtocol47
<1> DEFINE last == <<W("update_light")>>
<1>2. last \in Seq(T) /\ Len(last) = 1 /\ last[1] = W("update_light")
  OBVIOUS
<1>3. serveCodecProtocol = serveProtocol47 \o last
  BY DEF serveCodecProtocol
<1> HIDE DEF T, last
<1>4. /\ Len(serveProtocol47 \o last) = 7 + 1
      /\ \A i \in 1..8 : (serveProtocol47 \o last)[i] =
             IF i <= 7 THEN serveProtocol47[i] ELSE last[i - 7]
  <2>1. /\ Len(serveProtocol47 \o last) = Len(serveProtocol47) + Len(last)
        /\ \A i \in 1..Len(serveProtocol47) + Len(last) : (serveProtocol47 \o last)[i] =
               IF i <= Len(serveProtocol47) THEN serveProtocol47[i]
               ELSE last[i - Len(serveProtocol47)]
    BY <1>1, <1>2, ConcatProperties
  <2> QED
    BY <2>1, <1>2, LegacySteps
<1> QED
  BY <1>2, <1>3, <1>4, LegacySteps

LEMMA FlatSteps ==
    ASSUME NEW p \in Int
    PROVE  /\ Len(serveFlatProtocol(p)) \in {7, 8}
           /\ \A i \in 1..7 : serveFlatProtocol(p)[i] = serveProtocol47[i]
           /\ Len(serveFlatProtocol(p)) = 8 =>
                  p >= 477 /\ serveFlatProtocol(p)[8] = W("update_light")
<1>1. CASE p >= 477
  <2>1. serveFlatProtocol(p) = serveCodecProtocol
    BY <1>1 DEF serveFlatProtocol, serveCodecProtocol
  <2> QED
    BY <1>1, <2>1, CodecSteps
<1>2. CASE ~(p >= 477)
  <2>1. serveFlatProtocol(p) = serveProtocol47 \o <<>>
    BY <1>2 DEF serveFlatProtocol
  <2>2. serveProtocol47 \o <<>> = serveProtocol47
    BY LegacyType, ConcatEmptySeq
  <2> QED
    BY <2>1, <2>2, LegacySteps
<1> QED
  BY <1>1, <1>2

LEMMA PreConfigurationSteps ==
    LET s == serveModernPreConfigurationProtocol
    IN  /\ Len(s) = 9
        /\ s[1] = W("success") /\ s[2] = W("login") /\ s[3] = W("position") /\ s[4] = Time
        /\ s[5] = Opt("update_view_distance") /\ s[6] = Opt("simulation_distance")
        /\ s[7] = Opt("update_view_position") /\ s[8] = Chunk /\ s[9] = W("map_chunk")
BY DEF serveModernPreConfigurationProtocol, ChunkView

LEMMA ModernSteps ==
    LET s == serveModernProtocol
    IN  /\ Len(s) = 16
        /\ s[1] = W("success") /\ s[2] = R("login_acknowledged") /\ s[3] = W("registry_data")
        /\ s[4] = W("tags") /\ s[5] = W("finish_configuration")
        /\ s[6] = R("finish_configuration") /\ s[7] = W("login") /\ s[8] = W("position")
        /\ s[9] = Time
        /\ s[10] = Opt("update_view_distance") /\ s[11] = Opt("simulation_distance")
        /\ s[12] = Opt("update_view_position") /\ s[13] = Chunk
        /\ s[14] = W("chunk_batch_start") /\ s[15] = W("map_chunk")
        /\ s[16] = W("chunk_batch_finished")
BY DEF serveModernProtocol, ChunkView

\* A property of all sequences, from the kinds of steps at every place.
LEMMA LegacyLike ==
    ASSUME NEW p, Adapter(p) \in {"legacy", "flat", "codec"}
    PROVE  /\ Len(Steps(p)) \in {7, 8}
           /\ Steps(p)[1] = W("success") /\ Steps(p)[2] = W("login")
           /\ Steps(p)[3] = W("spawn_position") /\ Steps(p)[4] = W("position")
           /\ Steps(p)[5] = Time /\ Steps(p)[6] = Chunk /\ Steps(p)[7] = W("map_chunk")
           /\ Len(Steps(p)) = 8 => /\ Steps(p)[8] = W("update_light")
                                   /\ TableOf(p) >= 477
<1>0. 1 \in 1..7 /\ 2 \in 1..7 /\ 3 \in 1..7 /\ 4 \in 1..7 /\ 5 \in 1..7 /\ 6 \in 1..7 /\ 7 \in 1..7
  OBVIOUS
<1>1. CASE Adapter(p) = "legacy"
  <2>1. Steps(p) = serveProtocol47
    BY <1>1, StepsOf
  <2> QED
    BY <2>1, LegacySteps
<1>2. CASE Adapter(p) = "flat"
  <2>1. Steps(p) = serveFlatProtocol(p) /\ p \in Int /\ TableOf(p) = p
    BY <1>2, StepsOf, TableRanges
  <2> QED
    BY <1>0, <2>1, LegacySteps, FlatSteps
<1>3. CASE Adapter(p) = "codec"
  <2>1. Steps(p) = serveCodecProtocol /\ TableOf(p) \in 735..756
    BY <1>3, StepsOf, TableRanges
  <2> QED
    BY <1>0, <2>1, LegacySteps, CodecSteps
<1> QED
  BY <1>1, <1>2, <1>3

LEMMA PreConfigurationLike ==
    ASSUME NEW p, Adapter(p) = "preConfiguration"
    PROVE  /\ Len(Steps(p)) = 9
           /\ Steps(p)[1] = W("success") /\ Steps(p)[2] = W("login")
           /\ Steps(p)[3] = W("position") /\ Steps(p)[4] = Time
           /\ Steps(p)[5] = Opt("update_view_distance")
           /\ Steps(p)[6] = Opt("simulation_distance")
           /\ Steps(p)[7] = Opt("update_view_position")
           /\ Steps(p)[8] = Chunk /\ Steps(p)[9] = W("map_chunk")
<1>1. Steps(p) = serveModernPreConfigurationProtocol
  BY StepsOf
<1> QED
  BY <1>1, PreConfigurationSteps

LEMMA ConfigurationLike ==
    ASSUME NEW p, Adapter(p) = "configuration"
    PROVE  /\ Len(Steps(p)) = 16
           /\ Steps(p)[1] = W("success") /\ Steps(p)[2] = R("login_acknowledged")
           /\ Steps(p)[3] = W("registry_data") /\ Steps(p)[4] = W("tags")
           /\ Steps(p)[5] = W("finish_configuration")
           /\ Steps(p)[6] = R("finish_configuration")
           /\ Steps(p)[7] = W("login") /\ Steps(p)[8] = W("position") /\ Steps(p)[9] = Time
           /\ Steps(p)[10] = Opt("update_view_distance")
           /\ Steps(p)[11] = Opt("simulation_distance")
           /\ Steps(p)[12] = Opt("update_view_position")
           /\ Steps(p)[13] = Chunk /\ Steps(p)[14] = W("chunk_batch_start")
           /\ Steps(p)[15] = W("map_chunk") /\ Steps(p)[16] = W("chunk_batch_finished")
<1>1. Steps(p) = serveModernProtocol
  BY StepsOf
<1> QED
  BY <1>1, ModernSteps

LEMMA UpTo8 ==
    ASSUME NEW n, n = 7 \/ n = 8, NEW i \in 1..n
    PROVE  i = 1 \/ i = 2 \/ i = 3 \/ i = 4 \/ i = 5 \/ i = 6 \/ i = 7 \/ (i = 8 /\ n = 8)
OBVIOUS

LEMMA AdapterKinds ==
    ASSUME NEW p, Adapter(p) # "none"
    PROVE  \/ Adapter(p) \in {"legacy", "flat", "codec"}
           \/ Adapter(p) = "preConfiguration"
           \/ Adapter(p) = "configuration"
BY TableRanges

\* The steps that change the client's state; only the newest adapter reads.
LEMMA PlanTurns ==
    ASSUME NEW p, Adapter(p) # "none"
    PROVE  /\ Len(Steps(p)) \in Nat /\ Len(Steps(p)) >= 7
           /\ Steps(p)[1] = W("success")
           /\ Adapter(p) = "configuration" =>
                  /\ Len(Steps(p)) = 16
                  /\ Steps(p)[5] = W("finish_configuration")
                  /\ Steps(p)[6] = R("finish_configuration")
           /\ Adapter(p) # "configuration" =>
                  \A i \in 1..Len(Steps(p)) : Steps(p)[i].do # "read"
<1>1. CASE Adapter(p) \in {"legacy", "flat", "codec"}
  <2>1. ASSUME NEW i \in 1..Len(Steps(p)) PROVE Steps(p)[i].do # "read"
    <3>0. Len(Steps(p)) = 7 \/ Len(Steps(p)) = 8
      BY <1>1, LegacyLike
    <3>1. i = 1 \/ i = 2 \/ i = 3 \/ i = 4 \/ i = 5 \/ i = 6 \/ i = 7
          \/ (i = 8 /\ Len(Steps(p)) = 8)
      BY <3>0, UpTo8
    <3> QED
      BY <1>1, <3>1, LegacyLike DEF W, Time, Chunk
  <2> QED
    BY <1>1, <2>1, LegacyLike
<1>2. CASE Adapter(p) = "preConfiguration"
  <2>1. ASSUME NEW i \in 1..Len(Steps(p)) PROVE Steps(p)[i].do # "read"
    <3>0. Len(Steps(p)) = 9
      BY <1>2, PreConfigurationLike
    <3>1. i = 1 \/ i = 2 \/ i = 3 \/ i = 4 \/ i = 5 \/ i = 6 \/ i = 7 \/ i = 8 \/ i = 9
      BY <3>0
    <3> QED
      BY <1>2, <3>1, PreConfigurationLike DEF W, Opt, Time, Chunk
  <2> QED
    BY <1>2, <2>1, PreConfigurationLike
<1>3. CASE Adapter(p) = "configuration"
  <2>1. /\ Len(Steps(p)) = 16 /\ Steps(p)[1] = W("success")
        /\ Steps(p)[5] = W("finish_configuration")
        /\ Steps(p)[6] = R("finish_configuration")
    BY <1>3, ConfigurationLike
  <2> QED
    BY <1>3, <2>1
<1> QED
  BY <1>1, <1>2, <1>3, AdapterKinds

LegacyPackets ==
    {"success", "login", "spawn_position", "position", "update_time", "map_chunk"}

LEMMA LegacyTable ==
    ASSUME NEW p, Adapter(p) \in {"legacy", "flat", "codec"}
    PROVE  TableOf(p) \in 47..756
<1>1. CASE Adapter(p) = "legacy"
  <2>1. TableOf(p) \in 47..340
    BY <1>1, TableRanges
  <2> QED
    BY <2>1
<1>2. CASE Adapter(p) = "flat"
  <2>1. TableOf(p) \in 393..578
    BY <1>2, TableRanges
  <2> QED
    BY <2>1
<1>3. CASE Adapter(p) = "codec"
  <2>1. TableOf(p) \in 735..756
    BY <1>3, TableRanges
  <2> QED
    BY <2>1
<1> QED
  BY <1>1, <1>2, <1>3

LEMMA LegacyHas ==
    ASSUME NEW p, TableOf(p) \in 47..756
    PROVE  \A name \in LegacyPackets : Has(Written, p, name)
<1> DEFINE q == TableOf(p)
<1>1. q \in Int /\ 47 <= q /\ q <= 774
  OBVIOUS
<1>2. \A name : Has(Written, p, name) <=> Written[name][1] <= q /\ q <= Written[name][2]
  BY DEF Has, TableOf
<1> HIDE DEF q
<1>3. \A name \in LegacyPackets :
          /\ Written[name][1] \in Int /\ Written[name][1] <= 47
          /\ Written[name][2] \in Int /\ 774 <= Written[name][2]
  BY DEF Written, LegacyPackets
<1> QED
  BY <1>1, <1>2, <1>3

LEMMA LightHas ==
    ASSUME NEW p, TableOf(p) \in 47..756, TableOf(p) >= 477
    PROVE  Has(Written, p, "update_light")
<1> DEFINE q == TableOf(p)
<1>1. Has(Written, p, "update_light") <=>
          Written["update_light"][1] <= q /\ q <= Written["update_light"][2]
  BY DEF Has, TableOf
<1>2. Written["update_light"][1] = 477 /\ Written["update_light"][2] = 775
  BY DEF Written
<1> QED
  BY <1>1, <1>2

\* Every packet that is written belongs to the state its client is in by then,
\* and is in the protocol's table unless it is optional.
Placed(p, i, s) ==
    /\ StateOf(s.name) = Stage(p, i - 1)
    /\ s.name = "success" <=> i = 1
    /\ s.name = "finish_configuration" => i = 5 /\ Adapter(p) = "configuration"
    /\ s.name \notin {"encryption_begin", "disconnect"}
    /\ s.do = "option" => s.name \notin {"success", "finish_configuration"}
    /\ s.do = "time" => s.name = "update_time"
    /\ s.do \in {"write", "time"} => Has(Written, p, s.name)

LEMMA PlanWrites ==
    ASSUME NEW p, Adapter(p) # "none"
    PROVE  \A i \in 1..Len(Steps(p)) :
               Steps(p)[i].do \in {"write", "option", "time"} => Placed(p, i, Steps(p)[i])
<1>0. \A name : Has(Written, p, name) <=>
                    Written[name][1] <= TableOf(p) /\ TableOf(p) <= Written[name][2]
  BY DEF Has, TableOf
<1>1. CASE Adapter(p) \in {"legacy", "flat", "codec"}
  <2>1. TableOf(p) \in 47..756
    BY <1>1, LegacyTable
  <2>2. \A name \in LegacyPackets : Has(Written, p, name)
    BY <2>1, LegacyHas
  <2>3. Len(Steps(p)) = 8 => Has(Written, p, "update_light")
    BY <1>1, <2>1, LegacyLike, LightHas
  <2>4. Len(Steps(p)) = 7 \/ Len(Steps(p)) = 8
    BY <1>1, LegacyLike
  <2>5. ASSUME NEW i, NEW s, s.do \in {"write", "option", "time"},
               \/ i = 1 /\ s = W("success")
               \/ i = 2 /\ s = W("login")
               \/ i = 3 /\ s = W("spawn_position")
               \/ i = 4 /\ s = W("position")
               \/ i = 5 /\ s = Time
               \/ i = 6 /\ s = Chunk
               \/ i = 7 /\ s = W("map_chunk")
               \/ i = 8 /\ s = W("update_light") /\ Len(Steps(p)) = 8
        PROVE  Placed(p, i, s)
    <3>1. Adapter(p) # "configuration"
      BY <1>1
    <3> QED
      BY <2>2, <2>3, <2>5, <3>1
      DEF Placed, StateOf, Stage, W, Time, Chunk, LegacyPackets
  <2> SUFFICES ASSUME NEW i \in 1..Len(Steps(p)),
                      Steps(p)[i].do \in {"write", "option", "time"}
               PROVE  Placed(p, i, Steps(p)[i])
    OBVIOUS
  <2>6. i = 1 \/ i = 2 \/ i = 3 \/ i = 4 \/ i = 5 \/ i = 6 \/ i = 7
        \/ (i = 8 /\ Len(Steps(p)) = 8)
    BY <2>4, UpTo8
  <2> QED
    BY <1>1, <2>5, <2>6, LegacyLike
<1>2. CASE Adapter(p) = "preConfiguration"
  <2>1. TableOf(p) \in 757..763
    BY <1>2, TableRanges
  <2>2. ASSUME NEW i, NEW s, s.do \in {"write", "option", "time"},
               \/ i = 1 /\ s = W("success")
               \/ i = 2 /\ s = W("login")
               \/ i = 3 /\ s = W("position")
               \/ i = 4 /\ s = Time
               \/ i = 5 /\ s = Opt("update_view_distance")
               \/ i = 6 /\ s = Opt("simulation_distance")
               \/ i = 7 /\ s = Opt("update_view_position")
               \/ i = 8 /\ s = Chunk
               \/ i = 9 /\ s = W("map_chunk")
        PROVE  Placed(p, i, s)
    <3>1. s.do \in {"write", "time"} => Has(Written, p, s.name)
      BY <1>0, <2>1, <2>2 DEF W, Opt, Time, Chunk, Written
    <3> QED
      BY <1>2, <2>2, <3>1 DEF Placed, StateOf, Stage, W, Opt, Time, Chunk
  <2> SUFFICES ASSUME NEW i \in 1..Len(Steps(p)),
                      Steps(p)[i].do \in {"write", "option", "time"}
               PROVE  Placed(p, i, Steps(p)[i])
    OBVIOUS
  <2>3. Len(Steps(p)) = 9
    BY <1>2, PreConfigurationLike
  <2>4. i = 1 \/ i = 2 \/ i = 3 \/ i = 4 \/ i = 5 \/ i = 6 \/ i = 7 \/ i = 8 \/ i = 9
    BY <2>3
  <2> QED
    BY <1>2, <2>2, <2>4, PreConfigurationLike
<1>3. CASE Adapter(p) = "configuration"
  <2>1. TableOf(p) \in 764..775
    BY <1>3, TableRanges
  <2>2. ASSUME NEW i, NEW s, s.do \in {"write", "option", "time"},
               \/ i = 1 /\ s = W("success")
               \/ i = 2 /\ s = R("login_acknowledged")
               \/ i = 3 /\ s = W("registry_data")
               \/ i = 4 /\ s = W("tags")
               \/ i = 5 /\ s = W("finish_configuration")
               \/ i = 6 /\ s = R("finish_configuration")
               \/ i = 7 /\ s = W("login")
               \/ i = 8 /\ s = W("position")
        PROVE  Placed(p, i, s)
    <3>1. s.do \in {"write", "time"} => Has(Written, p, s.name)
      BY <1>0, <2>1, <2>2 DEF W, R, Written
    <3> QED
      BY <1>3, <2>2, <3>1 DEF Placed, StateOf, Stage, W, R
  <2>3. ASSUME NEW i, NEW s, s.do \in {"write", "option", "time"},
               \/ i = 9 /\ s = Time
               \/ i = 10 /\ s = Opt("update_view_distance")
               \/ i = 11 /\ s = Opt("simulation_distance")
               \/ i = 12 /\ s = Opt("update_view_position")
               \/ i = 13 /\ s = Chunk
               \/ i = 14 /\ s = W("chunk_batch_start")
               \/ i = 15 /\ s = W("map_chunk")
               \/ i = 16 /\ s = W("chunk_batch_finished")
        PROVE  Placed(p, i, s)
    <3>1. s.do \in {"write", "time"} => Has(Written, p, s.name)
      BY <1>0, <2>1, <2>3 DEF W, Opt, Time, Chunk, Written
    <3> QED
      BY <1>3, <2>3, <3>1 DEF Placed, StateOf, Stage, W, Opt, Time, Chunk
  <2>4. Len(Steps(p)) = 16
    BY <1>3, ConfigurationLike
  <2>5. /\ Steps(p)[1] = W("success") /\ Steps(p)[2] = R("login_acknowledged")
        /\ Steps(p)[3] = W("registry_data") /\ Steps(p)[4] = W("tags")
        /\ Steps(p)[5] = W("finish_configuration")
        /\ Steps(p)[6] = R("finish_configuration")
        /\ Steps(p)[7] = W("login") /\ Steps(p)[8] = W("position")
    BY <1>3, ConfigurationLike
  <2>6. /\ Steps(p)[9] = Time
        /\ Steps(p)[10] = Opt("update_view_distance")
        /\ Steps(p)[11] = Opt("simulation_distance")
        /\ Steps(p)[12] = Opt("update_view_position")
        /\ Steps(p)[13] = Chunk /\ Steps(p)[14] = W("chunk_batch_start")
        /\ Steps(p)[15] = W("map_chunk") /\ Steps(p)[16] = W("chunk_batch_finished")
    BY <1>3, ConfigurationLike
  <2> SUFFICES ASSUME NEW i \in 1..Len(Steps(p)),
                      Steps(p)[i].do \in {"write", "option", "time"}
               PROVE  Placed(p, i, Steps(p)[i])
    OBVIOUS
  <2>7. \/ i = 1 \/ i = 2 \/ i = 3 \/ i = 4 \/ i = 5 \/ i = 6 \/ i = 7 \/ i = 8 \/ i = 9
        \/ i = 10 \/ i = 11 \/ i = 12 \/ i = 13 \/ i = 14 \/ i = 15 \/ i = 16
    BY <2>4
  <2>8. CASE i = 1 \/ i = 2 \/ i = 3 \/ i = 4 \/ i = 5 \/ i = 6 \/ i = 7 \/ i = 8
    BY <2>2, <2>8, <2>5
  <2>9. CASE i = 9 \/ i = 10 \/ i = 11 \/ i = 12 \/ i = 13 \/ i = 14 \/ i = 15 \/ i = 16
    BY <2>3, <2>9, <2>6
  <2> QED
    BY <2>7, <2>8, <2>9
<1> QED
  BY <1>1, <1>2, <1>3, AdapterKinds

\* Where the packets of the join are in the sequence.
LEMMA PlanOrder ==
    ASSUME NEW p, Adapter(p) # "none"
    PROVE  \E l, o, t, m \in 2..Len(Steps(p)) :
               /\ l < o /\ o < t /\ t < m
               /\ Steps(p)[l] = W("login") /\ Steps(p)[o] = W("position")
               /\ Steps(p)[t] = Time /\ Steps(p)[m] = W("map_chunk")
<1>1. CASE Adapter(p) \in {"legacy", "flat", "codec"}
  <2>1. 2 \in 2..Len(Steps(p)) /\ 4 \in 2..Len(Steps(p)) /\ 5 \in 2..Len(Steps(p))
        /\ 7 \in 2..Len(Steps(p))
    BY <1>1, LegacyLike
  <2> QED
    BY <1>1, <2>1, LegacyLike
<1>2. CASE Adapter(p) = "preConfiguration"
  <2>1. 2 \in 2..Len(Steps(p)) /\ 3 \in 2..Len(Steps(p)) /\ 4 \in 2..Len(Steps(p))
        /\ 9 \in 2..Len(Steps(p))
    BY <1>2, PreConfigurationLike
  <2> QED
    BY <1>2, <2>1, PreConfigurationLike
<1>3. CASE Adapter(p) = "configuration"
  <2>1. 7 \in 2..Len(Steps(p)) /\ 8 \in 2..Len(Steps(p)) /\ 9 \in 2..Len(Steps(p))
        /\ 15 \in 2..Len(Steps(p))
    <3>1. Len(Steps(p)) = 16
      BY <1>3, ConfigurationLike
    <3> QED
      BY <3>1
  <2>2. /\ Steps(p)[7] = W("login") /\ Steps(p)[8] = W("position")
        /\ Steps(p)[9] = Time /\ Steps(p)[15] = W("map_chunk")
    BY <1>3, ConfigurationLike
  <2> QED
    BY <2>1, <2>2
<1> QED
  BY <1>1, <1>2, <1>3, AdapterKinds

-----------------------------------------------------------------------------
(***************************************************************************)
(* The state of a client that has read so many packets.                    *)
(***************************************************************************)

\* StateAfter(n) as a function of the packets o, of whether the client is
\* configured and of the handshake's next state.
ReadState(o, conf, nx, n) ==
    LET read == {o[i].name : i \in 1..n}
    IN  IF "finish_configuration" \in read \/ ("success" \in read /\ ~conf) THEN "play"
        ELSE IF "success" \in read THEN "configuration" ELSE nx

LEMMA StateAfterIs ==
    /\ \A n : StateAfter(n) = ReadState(out, Configures, next, n)
    /\ \A n : StateAfter(n)' = ReadState(out', Configures', next', n)
BY DEF StateAfter, ReadState

LEMMA ReadStep ==
    ASSUME NEW o, NEW conf, NEW nx, NEW n \in Nat,
           NEW name, name = o[n + 1].name
    PROVE  /\ name \notin {"success", "finish_configuration"} =>
                  ReadState(o, conf, nx, n + 1) = ReadState(o, conf, nx, n)
           /\ name = "finish_configuration" => ReadState(o, conf, nx, n + 1) = "play"
           /\ name = "success" /\ ~conf => ReadState(o, conf, nx, n + 1) = "play"
           /\ name = "success" /\ conf /\ ReadState(o, conf, nx, n) = "login" =>
                  ReadState(o, conf, nx, n + 1) = "configuration"
<1> DEFINE R1 == {o[i].name : i \in 1..n}
           R2 == {o[i].name : i \in 1..(n + 1)}
<1>1. R2 = R1 \cup {name}
  <2>1. \A i : i \in 1..(n + 1) <=> i \in 1..n \/ i = n + 1
    OBVIOUS
  <2> QED
    BY <2>1
<1> HIDE DEF R1, R2
<1>2. /\ ReadState(o, conf, nx, n) =
             IF "finish_configuration" \in R1 \/ ("success" \in R1 /\ ~conf) THEN "play"
             ELSE IF "success" \in R1 THEN "configuration" ELSE nx
      /\ ReadState(o, conf, nx, n + 1) =
             IF "finish_configuration" \in R2 \/ ("success" \in R2 /\ ~conf) THEN "play"
             ELSE IF "success" \in R2 THEN "configuration" ELSE nx
  BY DEF ReadState, R1, R2
<1> QED
  BY <1>1, <1>2

LEMMA StageStep ==
    ASSUME NEW o, NEW conf, NEW nx, NEW n \in Nat,
           NEW name, name = o[n + 1].name,
           NEW stage, ReadState(o, conf, nx, n) = stage
    PROVE  /\ name \notin {"success", "finish_configuration"} =>
                  ReadState(o, conf, nx, n + 1) = stage
           /\ name = "finish_configuration" => ReadState(o, conf, nx, n + 1) = "play"
           /\ name = "success" /\ ~conf => ReadState(o, conf, nx, n + 1) = "play"
           /\ name = "success" /\ conf /\ stage = "login" =>
                  ReadState(o, conf, nx, n + 1) = "configuration"
BY ReadStep

LEMMA ReadSame ==
    ASSUME NEW o, NEW u, NEW conf, NEW nx, NEW n \in Nat, \A i \in 1..n : o[i] = u[i]
    PROVE  ReadState(o, conf, nx, n) = ReadState(u, conf, nx, n)
<1>1. {o[i].name : i \in 1..n} = {u[i].name : i \in 1..n}
  OBVIOUS
<1> QED
  BY <1>1 DEF ReadState

\* Nothing has moved the client yet.
LEMMA NotMoved ==
    ASSUME out \in Seq(FrameSet), NEW n \in 0..Len(out),
           "success" \notin Names, "finish_configuration" \notin Names
    PROVE  StateAfter(n) = next
<1>1. \A i \in 1..n : out[i].name \in Names
  BY DEF Names
<1> QED
  BY <1>1 DEF StateAfter

LEMMA SamePrefix ==
    ASSUME NEW n \in Nat, \A i \in 1..n : out'[i] = out[i], UNCHANGED <<protocol, next>>
    PROVE  StateAfter(n)' = StateAfter(n)
<1>1. Configures' = Configures
  BY DEF Configures
<1>2. ReadState(out', Configures, next, n) = ReadState(out, Configures, next, n)
  BY ReadSame
<1>3. /\ StateAfter(n)' = ReadState(out', Configures', next', n)
      /\ StateAfter(n) = ReadState(out, Configures, next, n)
  BY StateAfterIs
<1> QED
  BY <1>1, <1>2, <1>3

\* A packet is written.
LEMMA OutGrows ==
    ASSUME out \in Seq(FrameSet), NEW f \in FrameSet, out' = Append(out, f),
           UNCHANGED <<protocol, next>>
    PROVE  /\ out' \in Seq(FrameSet) /\ Len(out') = Len(out) + 1
           /\ \A i \in 1..Len(out) : out'[i] = out[i]
           /\ out'[Len(out) + 1] = f
           /\ Names' = Names \cup {f.name}
           /\ \A n \in 0..Len(out) : StateAfter(n)' = StateAfter(n)
           /\ \A a, b : Precedes(a, b) => Precedes(a, b)'
           /\ \A a \in Names : Precedes(a, f.name)'
<1>1. /\ out' \in Seq(FrameSet) /\ Len(out') = Len(out) + 1
      /\ \A i \in 1..Len(out) : out'[i] = out[i]
      /\ out'[Len(out) + 1] = f
  OBVIOUS
<1>2. DOMAIN out = 1..Len(out) /\ DOMAIN out' = 1..(Len(out) + 1)
      /\ DOMAIN out' = DOMAIN out \cup {Len(out) + 1}
  BY <1>1
<1>3. Names' = Names \cup {f.name}
  BY <1>1, <1>2 DEF Names
<1>4. ASSUME NEW n \in 0..Len(out) PROVE StateAfter(n)' = StateAfter(n)
  <2>1. n \in Nat /\ \A i \in 1..n : out'[i] = out[i]
    BY <1>1
  <2> QED
    BY <2>1, SamePrefix
<1>5. ASSUME NEW a, NEW b, Precedes(a, b) PROVE Precedes(a, b)'
  BY <1>1, <1>2, <1>5 DEF Precedes
<1>6. ASSUME NEW a \in Names PROVE Precedes(a, f.name)'
  <2>1. PICK i \in DOMAIN out : out[i].name = a
    BY DEF Names
  <2>2. i \in DOMAIN out' /\ out'[i].name = a /\ i < Len(out) + 1
    BY <1>1, <1>2, <2>1
  <2>3. Len(out) + 1 \in DOMAIN out' /\ out'[Len(out) + 1].name = f.name
    BY <1>1, <1>2
  <2> QED
    BY <2>2, <2>3 DEF Precedes
<1> QED
  BY <1>1, <1>3, <1>4, <1>5, <1>6

LEMMA FrameIs ==
    ASSUME NEW name \in PacketNames, NEW key \in BOOLEAN, NEW version \in Nat
    PROVE  /\ Frame(name, key, version) \in FrameSet
           /\ Frame(name, key, version).name = name
           /\ Frame(name, key, version).state = StateOf(name)
           /\ Frame(name, key, version).sealed = key
<1>1. StateOf(name) \in {"status", "login", "configuration", "play"}
  BY DEF StateOf
<1> QED
  BY <1>1 DEF Frame, FrameSet

\* No packet is written.
LEMMA OutStays ==
    ASSUME UNCHANGED <<out, protocol, next>>
    PROVE  /\ Names' = Names
           /\ Configures' = Configures
           /\ \A n : StateAfter(n)' = StateAfter(n)
           /\ \A a, b : Precedes(a, b)' <=> Precedes(a, b)
<1>1. Names' = Names /\ Configures' = Configures
  BY DEF Names, Configures
<1>2. \A n : StateAfter(n)' = StateAfter(n)
  BY <1>1, StateAfterIs
<1> QED
  BY <1>1, <1>2 DEF Precedes

-----------------------------------------------------------------------------
(***************************************************************************)
(* The parts of the invariant, action by action.                           *)
(***************************************************************************)

\* Actions that write a packet before the adapter does, and what they write.
LEMMA EarlyWrites ==
    ASSUME RouterInv, SequenceInv, Next, out' # out, phase # "adapter"
    PROVE  \E name \in {"status_response", "pong", "disconnect", "encryption_begin"} :
               /\ out' = Append(out, Frame(name, sealed, 0))
               /\ UNCHANGED <<protocol, next, timed, steps, sealed, cstate, ckey, seen, lost, net>>
               /\ phase \in Undecided
               /\ \/ phase = "statusRequest" /\ phase' = "ping" /\ name = "status_response"
                  \/ phase = "ping" /\ phase' = "closed" /\ name = "pong"
                  \/ phase = "decide" /\ phase' = "answer" /\ name = "encryption_begin"
                     /\ UNCHANGED buf
                  \/ phase \in {"allow", "answer", "verify", "dispatch"} /\ phase' = "closed"
                     /\ name = "disconnect"
<1> USE DEF choice, auth, registry, client, Undecided
<1>1. CASE ReadStatusRequest
  BY <1>1 DEF ReadStatusRequest, Unexpected, Send, Consume, Close
<1>2. CASE ReadPing
  BY <1>2 DEF ReadPing, Unexpected, Send, Consume, Close
<1>3. CASE AllowProtocol
  BY <1>3 DEF AllowProtocol, Send, Close
<1>4. CASE Decide
  BY <1>4 DEF Decide, Send, Close
<1>5. CASE ReadAnswer
  <2>1. phase = "answer" /\ sealed = FALSE
    BY <1>5 DEF ReadAnswer, RouterInv, TypeOK, SequenceInv, KeyFollows
  <2>2. PICK err : AuthFailed(err, FALSE) /\ Consume
                   /\ UNCHANGED <<choice, auth, steps, registry, client>>
    BY <1>5 DEF ReadAnswer
  <2>3. ~FallsBack(err, FALSE) /\ ~loginDisconnectConn(FALSE)
    BY DEF FallsBack, loginDisconnectConn
  <2>4. phase' = "closed" /\ out' = Append(out, Frame("disconnect", FALSE, 0))
    BY <2>2, <2>3 DEF AuthFailed, Close, loginDisconnectConn
  <2> QED
    BY <2>1, <2>2, <2>4 DEF Consume
<1>6. CASE Verify
  BY <1>6 DEF Verify, AuthFailed, loginDisconnectConn, Close, RouterInv
<1>7. CASE Dispatch
  BY <1>7 DEF Dispatch, Send, Close
<1>8. CASE Fill \/ ConnError \/ ReadHandshake \/ ReadLoginStart \/ Write \/ FindChunk
           \/ Await \/ Play \/ ReadPlay
  BY <1>8 DEF Fill, ConnError, ReadHandshake, ReadLoginStart, Write, FindChunk, Await,
              Play, ReadPlay, Unexpected
<1>9. CASE ClientRead \/ ClientStray \/ ClientLeave \/ UpdateStore \/ Terminated
  BY <1>9 DEF ClientRead, ClientStray, ClientLeave, UpdateStore, Terminated, server, vars
<1> QED
  BY <1>1, <1>2, <1>3, <1>4, <1>5, <1>6, <1>7, <1>8, <1>9 DEF Next, Server

\* The adapter's next step is the next one of its sequence.
LEMMA TailRest ==
    ASSUME NEW S, NEW P \in Seq(S), NEW q \in Seq(S), q # <<>>, Len(P) - Len(q) >= 0,
           \A i \in DOMAIN q : q[i] = P[Len(P) - Len(q) + i]
    PROVE  /\ q[1] = P[Len(P) - Len(q) + 1]
           /\ Len(P) - Len(q) + 1 \in 1..Len(P)
           /\ Tail(q) \in Seq(S)
           /\ Len(P) - Len(Tail(q)) = Len(P) - Len(q) + 1
           /\ \A i \in DOMAIN Tail(q) : Tail(q)[i] = P[Len(P) - Len(Tail(q)) + i]
<1>1. Tail(q) \in Seq(S) /\ Len(Tail(q)) = Len(q) - 1 /\ Len(q) \in Nat /\ Len(q) > 0
      /\ \A i \in 1..Len(Tail(q)) : Tail(q)[i] = q[i + 1]
  BY HeadTailProperties, EmptySeq
<1>2. DOMAIN q = 1..Len(q) /\ DOMAIN Tail(q) = 1..Len(Tail(q))
  BY <1>1
<1>3. q[1] = P[Len(P) - Len(q) + 1] /\ Len(P) - Len(q) + 1 \in 1..Len(P)
  BY <1>1, <1>2
<1>4. Len(P) - Len(Tail(q)) = Len(P) - Len(q) + 1
  BY <1>1
<1>5. ASSUME NEW i \in DOMAIN Tail(q) PROVE Tail(q)[i] = P[Len(P) - Len(Tail(q)) + i]
  <2>1. i \in Nat /\ i + 1 \in 1..Len(q) /\ Tail(q)[i] = q[i + 1]
    BY <1>1, <1>2
  <2>2. q[i + 1] = P[Len(P) - Len(q) + (i + 1)]
    BY <1>2, <2>1
  <2>3. Len(P) - Len(q) + (i + 1) = Len(P) - Len(Tail(q)) + i
    BY <1>1, <2>1
  <2> QED
    BY <2>1, <2>2, <2>3
<1> QED
  BY <1>1, <1>3, <1>4, <1>5

LEMMA Advance ==
    ASSUME RouterInv, SequenceInv, phase = "adapter", steps # <<>>
    PROVE  /\ Adapter(protocol) # "none"
           /\ Done \in Nat
           /\ Done + 1 \in 1..Len(Steps(protocol))
           /\ steps[1] = Steps(protocol)[Done + 1]
           /\ steps[1].do \in {"write", "option", "time"} =>
                  Placed(protocol, Done + 1, steps[1])
           /\ steps' = Tail(steps) /\ protocol' = protocol =>
                  /\ Done' = Done + 1
                  /\ \A i \in DOMAIN steps' : steps'[i] = Steps(protocol)[Done' + i]
<1> DEFINE P == Steps(protocol)
<1>1. P \in Seq(StepSet) /\ steps \in Seq(StepSet)
  BY StepsType DEF RouterInv
<1>2. /\ Adapter(protocol) # "none" /\ Done >= 0 /\ Done = Len(P) - Len(steps)
      /\ \A i \in DOMAIN steps : steps[i] = P[Done + i]
  BY DEF SequenceInv, InSequence, Done
<1>3. /\ steps[1] = P[Len(P) - Len(steps) + 1]
      /\ Len(P) - Len(steps) + 1 \in 1..Len(P)
      /\ Len(P) - Len(Tail(steps)) = Len(P) - Len(steps) + 1
      /\ \A i \in DOMAIN Tail(steps) : Tail(steps)[i] = P[Len(P) - Len(Tail(steps)) + i]
  <2> HIDE DEF P
  <2>1. /\ Len(P) - Len(steps) >= 0
        /\ \A i \in DOMAIN steps : steps[i] = P[Len(P) - Len(steps) + i]
    BY <1>2
  <2>2. \A q \in Seq(StepSet) :
            q # <<>> /\ Len(P) - Len(q) >= 0
            /\ (\A i \in DOMAIN q : q[i] = P[Len(P) - Len(q) + i])
            => /\ q[1] = P[Len(P) - Len(q) + 1]
               /\ Len(P) - Len(q) + 1 \in 1..Len(P)
               /\ Len(P) - Len(Tail(q)) = Len(P) - Len(q) + 1
               /\ \A i \in DOMAIN Tail(q) : Tail(q)[i] = P[Len(P) - Len(Tail(q)) + i]
    BY <1>1, TailRest
  <2> QED
    BY <1>1, <2>1, <2>2
<1>4. Done \in Nat
  BY <1>1, <1>2
<1>5. steps[1].do \in {"write", "option", "time"} => Placed(protocol, Done + 1, steps[1])
  BY <1>2, <1>3, PlanWrites
<1>6. ASSUME steps' = Tail(steps), protocol' = protocol
      PROVE  /\ Done' = Done + 1
             /\ \A i \in DOMAIN steps' : steps'[i] = Steps(protocol)[Done' + i]
  <2>1. Done' = Len(P) - Len(Tail(steps))
    BY <1>6 DEF Done
  <2> QED
    BY <1>2, <1>3, <1>6, <2>1
<1> QED
  BY <1>2, <1>3, <1>4, <1>5, <1>6

\* The adapter's write.
LEMMA AdapterWrites ==
    ASSUME RouterInv, SequenceInv, Write
    PROVE  LET s == steps[1] IN
           /\ phase = "adapter" /\ steps # <<>>
           /\ UNCHANGED <<choice, auth, registry, net, buf, lost, client>>
           /\ \/ /\ s.do \in {"write", "option", "time"}
                 /\ s.name \in PacketNames
                 /\ \E version \in Nat : out' = Append(out, Frame(s.name, sealed, version))
                 /\ steps' = Tail(steps)
                 /\ phase' = "adapter"
                 /\ s.do = "time" => timed
              \/ /\ s.do = "option" \/ (s.do = "time" /\ ~timed)
                 /\ steps' = Tail(steps)
                 /\ UNCHANGED <<phase, out>>
              \/ phase' = "closed" /\ UNCHANGED <<steps, out>>
<1> DEFINE s == steps[1]
<1>1. phase = "adapter" /\ steps # <<>> /\ s.do \in {"write", "option", "time"}
      /\ UNCHANGED <<choice, auth, registry, net, buf, lost, client>>
  BY DEF Write
<1>2. /\ s.do = "time" => s.name = "update_time"
      /\ s.do \in {"write", "time"} => Has(Written, protocol, s.name)
  BY <1>1, Advance DEF Placed
<1>3. s.name \in PacketNames
  <2>1. s \in StepSet
    BY <1>1 DEF RouterInv
  <2> QED
    BY <2>1 DEF StepSet
<1>4. VersionFor(s.name) \in Nat
  BY RouterAssumption DEF VersionFor, RouterInv, TypeOK
<1>5. \/ /\ out' = Append(out, Frame(s.name, sealed, VersionFor(s.name)))
         /\ steps' = Tail(steps)
         /\ phase' = phase
         /\ s.do = "time" => timed
      \/ /\ s.do = "option" \/ (s.do = "time" /\ ~timed)
         /\ steps' = Tail(steps)
         /\ UNCHANGED <<phase, out>>
      \/ phase' = "closed" /\ UNCHANGED <<steps, out>>
  BY <1>2 DEF Write, Send, Close
<1> QED
  BY <1>1, <1>3, <1>4, <1>5

\* How ServeConn's control moves while nothing is written.
Move ==
    \/ phase' = phase /\ sealed' = sealed
    \/ phase' = "closed" /\ sealed' = sealed
    \/ /\ phase = "handshake" /\ sealed' = sealed
       /\ \/ phase' = "statusRequest" /\ next = "status"
          \/ phase' = "allow" /\ next = "login"
    \/ phase = "allow" /\ phase' = "loginStart" /\ sealed' = sealed
    \/ phase = "loginStart" /\ phase' = "decide" /\ sealed' = sealed
    \/ phase = "decide" /\ phase' = "dispatch" /\ sealed' = sealed
    \/ phase = "answer" /\ phase' = "verify" /\ sealed' = TRUE
    \/ phase = "verify" /\ phase' = "dispatch" /\ sealed' = sealed
    \/ /\ phase = "dispatch" /\ phase' = "adapter" /\ sealed' = sealed
       /\ Adapter(protocol) # "none" /\ steps' = Steps(protocol)
    \/ phase = "adapter" /\ phase' = "play" /\ sealed' = sealed /\ steps = <<>>

LEMMA Moves ==
    ASSUME RouterInv, SequenceInv, [Next]_vars, out' = out
    PROVE  /\ UNCHANGED <<protocol, next, timed>>
           /\ Move
<1> USE DEF choice, auth, registry, client
<1>0. ASSUME NEW f, out' = Append(out, f) PROVE FALSE
  BY <1>0 DEF RouterInv
<1>1. ASSUME NEW name, Unexpected(name) PROVE UNCHANGED <<protocol, next, timed>> /\ Move
  BY <1>1 DEF Unexpected, Close, Move
<1>2. CASE Fill \/ ConnError \/ ReadPlay \/ Play \/ FindChunk
  BY <1>2 DEF Fill, ConnError, ReadPlay, Play, FindChunk, Close, Move
<1>3. CASE ReadHandshake
  BY <1>1, <1>3 DEF ReadHandshake, Move, RouterInv, TypeOK
<1>4. CASE ReadStatusRequest \/ ReadPing
  BY <1>0, <1>1, <1>4 DEF ReadStatusRequest, ReadPing, Send, Close, Move
<1>5. CASE AllowProtocol \/ ReadLoginStart
  BY <1>0, <1>1, <1>5 DEF AllowProtocol, ReadLoginStart, Send, Close, Move
<1>6. CASE Decide
  BY <1>0, <1>6 DEF Decide, Send, Close, Move
<1>7. CASE ReadAnswer
  <2>1. ASSUME NEW err, AuthFailed(err, FALSE) PROVE FALSE
    BY <1>0, <2>1 DEF AuthFailed, FallsBack
  <2> QED
    BY <1>7, <2>1 DEF ReadAnswer, Move
<1>8. CASE Verify
  BY <1>0, <1>8 DEF Verify, AuthFailed, Move
<1>9. CASE Dispatch
  BY <1>0, <1>9 DEF Dispatch, Send, Close, Move
<1>10. CASE Write
  BY <1>0, <1>10, AdapterWrites DEF Move
<1>11. CASE Await
  BY <1>1, <1>11 DEF Await, Move
<1>12. CASE ClientRead \/ ClientStray \/ ClientLeave \/ UpdateStore \/ Terminated
            \/ UNCHANGED vars
  BY <1>12 DEF ClientRead, ClientStray, ClientLeave, UpdateStore, Terminated, server, vars, Move
<1> QED
  BY <1>2, <1>3, <1>4, <1>5, <1>6, <1>7, <1>8, <1>9, <1>10, <1>11, <1>12 DEF Next, Server

\* The client's own state changes only when it reads or leaves.
LEMMA ClientMoves ==
    ASSUME [Next]_vars, ~ClientRead
    PROVE  UNCHANGED <<ckey, seen>> /\ cstate' \in {cstate, "gone"}
<1> USE DEF choice, auth, registry, client, Unexpected
<1>1. CASE Fill \/ ConnError \/ ReadHandshake \/ ReadStatusRequest \/ ReadPing \/ AllowProtocol
  BY <1>1 DEF Fill, ConnError, ReadHandshake, ReadStatusRequest, ReadPing, AllowProtocol
<1>2. CASE ReadLoginStart \/ Decide \/ ReadAnswer \/ Verify \/ Dispatch
  BY <1>2 DEF ReadLoginStart, Decide, ReadAnswer, Verify, Dispatch
<1>3. CASE Write \/ FindChunk \/ Await \/ Play \/ ReadPlay
  BY <1>3 DEF Write, FindChunk, Await, Play, ReadPlay
<1>4. CASE ClientStray \/ ClientLeave \/ UpdateStore \/ Terminated \/ UNCHANGED vars
  BY <1>4 DEF ClientStray, ClientLeave, UpdateStore, Terminated, vars
<1> QED
  BY <1>1, <1>2, <1>3, <1>4 DEF Next, Server

LEMMA WriterMoves ==
    ASSUME RouterInv, SequenceInv, [Next]_vars, out' # out
    PROVE  \/ phase = "adapter" /\ Write
           \/ phase # "adapter" /\ Next
<1> USE DEF choice, auth, registry, client, Unexpected
<1>1. CASE phase = "adapter"
  BY <1>1 DEF Next, Server, Fill, ConnError, ReadHandshake, ReadStatusRequest, ReadPing,
     AllowProtocol, ReadLoginStart, Decide, ReadAnswer, Verify, Dispatch, FindChunk, Await,
     Play, ReadPlay, ClientRead, ClientStray, ClientLeave, UpdateStore, Terminated, server, vars
<1> QED
  BY <1>1 DEF vars

\* A packet is written, before the adapter or by it.
LEMMA Written1 ==
    ASSUME RouterInv, SequenceInv, [Next]_vars, out' # out
    PROVE  \E name \in PacketNames, version \in Nat :
               /\ out' = Append(out, Frame(name, sealed, version))
               /\ UNCHANGED <<protocol, next, timed, sealed, cstate, ckey, seen>>
               /\ StateOf(name) = StateAfter(Len(out))
               /\ \/ phase = "statusRequest" /\ phase' = "ping" /\ name = "status_response"
                  \/ phase = "ping" /\ phase' = "closed" /\ name = "pong"
                  \/ phase = "decide" /\ phase' = "answer" /\ name = "encryption_begin"
                  \/ phase \in {"allow", "answer", "verify", "dispatch"} /\ phase' = "closed"
                     /\ name = "disconnect"
                  \/ phase = "adapter" /\ phase' = "adapter" /\ name = steps[1].name
                     /\ Write /\ name \notin {"encryption_begin", "disconnect"}
<1>1. CASE phase = "adapter"
  <2> DEFINE name == steps[1].name
  <2>1. Write
    BY <1>1, WriterMoves
  <2>2. PICK version \in Nat :
             /\ out' = Append(out, Frame(name, sealed, version))
             /\ name \in PacketNames /\ steps # <<>> /\ phase' = "adapter"
             /\ steps[1].do \in {"write", "option", "time"}
             /\ UNCHANGED <<choice, auth, registry, net, buf, lost, client>>
    BY <2>1, AdapterWrites
  <2>3. Placed(protocol, Done + 1, steps[1]) /\ Done \in Nat
    BY <1>1, <2>2, Advance
  <2>4. StateOf(name) = Stage(protocol, Done) /\ name \notin {"encryption_begin", "disconnect"}
    BY <2>3 DEF Placed
  <2>5. StateAfter(Len(out)) = Stage(protocol, Done)
    BY <1>1 DEF SequenceInv, InSequence
  <2> QED
    BY <1>1, <2>1, <2>2, <2>4, <2>5 DEF choice, auth, client
<1>2. CASE phase # "adapter"
  <2>1. Next
    BY <1>2, WriterMoves
  <2>2. PICK name \in {"status_response", "pong", "disconnect", "encryption_begin"} :
               /\ out' = Append(out, Frame(name, sealed, 0))
               /\ UNCHANGED <<protocol, next, timed, steps, sealed, cstate, ckey, seen, lost, net>>
               /\ \/ phase = "statusRequest" /\ phase' = "ping" /\ name = "status_response"
                  \/ phase = "ping" /\ phase' = "closed" /\ name = "pong"
                  \/ phase = "decide" /\ phase' = "answer" /\ name = "encryption_begin"
                  \/ phase \in {"allow", "answer", "verify", "dispatch"} /\ phase' = "closed"
                     /\ name = "disconnect"
    BY <1>2, <2>1, EarlyWrites
  <2>3. name \in PacketNames
    BY DEF PacketNames
  <2>4. "success" \notin Names /\ "finish_configuration" \notin Names
    <3>1. out = <<>> => Names = {}
      BY DEF Names
    <3>2. Names \subseteq {"status_response", "encryption_begin"}
      BY <2>2, <3>1 DEF SequenceInv, Exchange, Preparing
    <3> QED
      BY <3>2
  <2>5. StateAfter(Len(out)) = next
    BY <2>4, NotMoved DEF RouterInv
  <2>6. StateOf(name) = next
    BY <2>2 DEF SequenceInv, Exchange, LoginPhases, Preparing, StateOf
  <2> QED
    BY <2>2, <2>3, <2>5, <2>6
<1> QED
  BY <1>1, <1>2

LEMMA NextExchange == RouterInv /\ SequenceInv /\ [Next]_vars => Exchange'
<1> SUFFICES ASSUME RouterInv, SequenceInv, [Next]_vars PROVE Exchange'
  OBVIOUS
<1> USE DEF LoginPhases, Preparing
<1>1. CASE out' = out
  <2>1. UNCHANGED <<protocol, next, timed>> /\ Move
    BY <1>1, Moves
  <2>2. Names' = Names
    BY <1>1 DEF Names
  <2>3. out = <<>> => Names = {}
    BY DEF Names
  <2> QED
    BY <1>1, <2>1, <2>2, <2>3 DEF Move, SequenceInv, Exchange
<1>2. CASE out' # out
  <2>1. PICK name \in PacketNames, version \in Nat :
               /\ out' = Append(out, Frame(name, sealed, version))
               /\ UNCHANGED <<protocol, next, timed, sealed, cstate, ckey, seen>>
               /\ \/ phase = "statusRequest" /\ phase' = "ping" /\ name = "status_response"
                  \/ phase = "ping" /\ phase' = "closed" /\ name = "pong"
                  \/ phase = "decide" /\ phase' = "answer" /\ name = "encryption_begin"
                  \/ phase \in {"allow", "answer", "verify", "dispatch"} /\ phase' = "closed"
                     /\ name = "disconnect"
                  \/ phase = "adapter" /\ phase' = "adapter"
    BY <1>2, Written1
  <2>2. Names' = Names \cup {name}
    <3>1. sealed \in BOOLEAN /\ out \in Seq(FrameSet)
      BY DEF RouterInv, TypeOK
    <3> QED
      BY <2>1, <3>1, FrameIs, OutGrows
  <2>3. out = <<>> => Names = {}
    BY DEF Names
  <2> QED
    BY <2>1, <2>2, <2>3 DEF SequenceInv, Exchange
<1> QED
  BY <1>1, <1>2

LEMMA NextKeyFollows == RouterInv /\ SequenceInv /\ [Next]_vars => KeyFollows'
<1> SUFFICES ASSUME RouterInv, SequenceInv, [Next]_vars PROVE KeyFollows'
  OBVIOUS
<1> USE DEF LoginPhases, Preparing, Undecided
<1>t. sealed \in BOOLEAN /\ ckey \in BOOLEAN /\ out \in Seq(FrameSet) /\ seen \in 0..Len(out)
  BY DEF RouterInv, TypeOK
<1>b. Asked \in BOOLEAN /\ Asked' \in BOOLEAN
  BY DEF Asked
<1>k. /\ ckey = (Asked /\ seen > 0)
      /\ \A i \in DOMAIN out :
             /\ out[i].name = "encryption_begin" => i = 1
             /\ \/ out[i].sealed = (Asked /\ i > 1)
                \/ out[i].name = "disconnect" /\ ~sealed /\ phase = "closed"
      /\ sealed => Asked
      /\ phase \in {"verify", "dispatch", "adapter", "play"} => sealed = Asked
      /\ phase \in Undecided \ {"verify", "dispatch"} => ~sealed
  BY DEF SequenceInv, KeyFollows
<1>1. CASE out' = out
  <2>1. Move
    BY <1>1, Moves
  <2>2. Asked' = Asked
    BY <1>1 DEF Asked, Names
  <2>3. ckey' = (Asked /\ seen' > 0)
    <3>1. CASE ClientRead
      <4>1. /\ seen < Len(out) /\ seen' = seen + 1
            /\ out[seen + 1].name = "encryption_begin" => ckey' = TRUE
            /\ out[seen + 1].name # "encryption_begin" => ckey' = ckey
        BY <1>t, <3>1 DEF ClientRead
      <4>2. seen + 1 \in DOMAIN out
        BY <1>t, <4>1
      <4>3. out[seen + 1].name = "encryption_begin" => Asked
        BY <4>2 DEF Asked, Names
      <4>4. Asked /\ seen = 0 => out[seen + 1].name = "encryption_begin"
        BY <1>k DEF Asked, Names
      <4>5. out[seen + 1].name = "encryption_begin" => seen = 0
        BY <1>t, <1>k, <4>2
      <4>6. seen' > 0 /\ seen \in Nat
        BY <1>t, <4>1
      <4>7. CASE out[seen + 1].name = "encryption_begin"
        BY <4>1, <4>3, <4>6, <4>7
      <4>8. CASE out[seen + 1].name # "encryption_begin"
        <5>1. ckey = Asked
          BY <1>b, <1>k, <4>4, <4>6, <4>8
        <5> QED
          BY <1>b, <4>1, <4>6, <4>8, <5>1
      <4> QED
        BY <4>7, <4>8
    <3>2. CASE ~ClientRead
      BY <1>k, <3>2, ClientMoves
    <3> QED
      BY <3>1, <3>2
  <2>4. phase = "answer" => Asked
    BY DEF SequenceInv, Exchange, Asked
  <2>5. phase = "decide" => ~Asked
    BY DEF SequenceInv, Exchange, Asked, Names
  <2>6. sealed' => Asked
    BY <1>k, <2>1, <2>4 DEF Move
  <2>7. phase' \in {"verify", "dispatch", "adapter", "play"} => sealed' = Asked
    <3>1. phase = "decide" => sealed = Asked
      BY <1>b, <1>t, <1>k, <2>5
    <3>2. sealed' = sealed \/ (phase = "answer" /\ sealed' = TRUE)
      BY <2>1 DEF Move
    <3>3. CASE phase = "answer" /\ phase' = "verify" /\ sealed' = TRUE
      BY <2>4, <3>3
    <3>4. CASE sealed' = sealed /\ phase \in {"decide", "verify", "dispatch", "adapter", "play"}
      BY <1>k, <3>1, <3>4
    <3> QED
      BY <2>1, <3>3, <3>4 DEF Move
  <2>8. phase' \in Undecided \ {"verify", "dispatch"} => ~sealed'
    BY <1>k, <2>1 DEF Move
  <2>9. phase = "closed" => phase' = "closed" /\ sealed' = sealed
    BY <2>1 DEF Move
  <2> QED
    BY <1>1, <1>k, <2>2, <2>3, <2>6, <2>7, <2>8, <2>9 DEF KeyFollows
<1>2. CASE out' # out
  <2>1. PICK name \in PacketNames, version \in Nat :
               /\ out' = Append(out, Frame(name, sealed, version))
               /\ UNCHANGED <<protocol, next, timed, sealed, cstate, ckey, seen>>
               /\ \/ phase = "statusRequest" /\ phase' = "ping" /\ name = "status_response"
                  \/ phase = "ping" /\ phase' = "closed" /\ name = "pong"
                  \/ phase = "decide" /\ phase' = "answer" /\ name = "encryption_begin"
                  \/ phase \in {"allow", "answer", "verify", "dispatch"} /\ phase' = "closed"
                     /\ name = "disconnect"
                  \/ phase = "adapter" /\ phase' = "adapter"
                     /\ name \notin {"encryption_begin", "disconnect"}
    BY <1>2, Written1
  <2> DEFINE f == Frame(name, sealed, version)
  <2>2. f \in FrameSet /\ f.name = name /\ f.sealed = sealed
    BY <1>t, FrameIs
  <2> HIDE DEF f
  <2>3. /\ Len(out') = Len(out) + 1
        /\ \A i \in 1..Len(out) : out'[i] = out[i]
        /\ out'[Len(out) + 1] = f
        /\ Names' = Names \cup {name}
        /\ out' \in Seq(FrameSet)
    BY <1>t, <2>1, <2>2, OutGrows DEF f
  <2>4. DOMAIN out = 1..Len(out) /\ DOMAIN out' = 1..Len(out') /\ Len(out) \in Nat
    BY <1>t, <2>3
  <2>5. Asked => Len(out) > 0
    BY <2>4 DEF Asked, Names
  <2>6. phase # "closed"
    BY <2>1
  <2>7. CASE name = "encryption_begin"
    <3>1. phase = "decide" /\ phase' = "answer" /\ Len(out) = 0 /\ ~Asked /\ ~sealed
      BY <1>k, <2>1, <2>7 DEF SequenceInv, Exchange, Asked, Names
    <3>2. Asked'
      BY <2>3, <2>7 DEF Asked
    <3>3. seen' = 0 /\ ~ckey'
      BY <1>t, <1>k, <2>1, <3>1
    <3>4. \A i \in DOMAIN out' : i = 1 /\ out'[i].sealed = FALSE
      BY <1>t, <2>2, <2>3, <2>4, <3>1
    <3> QED
      <4>1. ckey' = (Asked' /\ seen' > 0)
        BY <1>t, <2>1, <3>3
      <4>2. ASSUME NEW i \in DOMAIN out'
            PROVE  i = 1 /\ out'[i].sealed = (Asked' /\ i > 1)
        <5>1. i = 1 /\ out'[i].sealed = FALSE /\ ~(i > 1)
          BY <3>4
        <5> QED
          BY <1>b, <5>1
      <4> QED
        BY <2>1, <3>1, <3>2, <4>1, <4>2 DEF KeyFollows
  <2>8. CASE name # "encryption_begin"
    <3>1. Asked' = Asked
      BY <2>3, <2>8 DEF Asked
    <3>2. f.sealed = (Asked /\ Len(out) + 1 > 1)
          \/ (name = "disconnect" /\ ~sealed /\ phase' = "closed")
      <4>1. out = <<>> => ~Asked
        BY DEF Asked, Names
      <4>2. CASE phase \in {"statusRequest", "allow", "ping"}
        <5>1. ~Asked
          BY <4>1, <4>2 DEF SequenceInv, Exchange, Asked
        <5> QED
          BY <1>t, <1>k, <2>2, <4>2, <5>1
      <4>3. CASE phase = "answer"
        BY <1>k, <2>1, <2>8, <4>3
      <4>4. CASE phase \in {"verify", "dispatch", "adapter"}
        <5>1. Asked = (Asked /\ Len(out) + 1 > 1)
          BY <1>b, <2>4, <2>5
        <5> QED
          BY <1>k, <2>2, <4>4, <5>1
      <4> QED
        BY <2>1, <2>8, <4>2, <4>3, <4>4
    <3>3. ASSUME NEW i \in DOMAIN out'
          PROVE  /\ out'[i].name = "encryption_begin" => i = 1
                 /\ \/ out'[i].sealed = (Asked' /\ i > 1)
                    \/ out'[i].name = "disconnect" /\ ~sealed' /\ phase' = "closed"
      <4>1. CASE i = Len(out) + 1
        BY <2>1, <2>2, <2>3, <2>8, <3>1, <3>2, <4>1
      <4>2. CASE i # Len(out) + 1
        <5>1. i \in DOMAIN out /\ out'[i] = out[i]
          BY <2>3, <2>4, <4>2
        <5> QED
          BY <1>k, <2>1, <2>6, <3>1, <5>1
      <4> QED
        BY <4>1, <4>2
    <3>4. phase' \in {"verify", "dispatch", "adapter", "play"} => sealed' = Asked
      BY <1>k, <2>1, <2>8
    <3>5. phase' \in Undecided \ {"verify", "dispatch"} => ~sealed'
      BY <1>k, <2>1, <2>8
    <3> QED
      BY <1>k, <2>1, <3>1, <3>3, <3>4, <3>5 DEF KeyFollows
  <2> QED
    BY <2>7, <2>8
<1> QED
  BY <1>1, <1>2

LEMMA NextFollows == RouterInv /\ SequenceInv /\ [Next]_vars => ClientFollows'
<1> SUFFICES ASSUME RouterInv, SequenceInv, [Next]_vars PROVE ClientFollows'
  OBVIOUS
<1>t. sealed \in BOOLEAN /\ out \in Seq(FrameSet) /\ seen \in 0..Len(out) /\ Len(out) \in Nat
  BY DEF RouterInv, TypeOK
<1>f. /\ cstate \in {"gone", StateAfter(seen)}
      /\ \A i \in DOMAIN out : out[i].state = StateAfter(i - 1) /\ out[i].state = StateOf(out[i].name)
  BY DEF SequenceInv, ClientFollows
<1>1. CASE ClientRead
  <2>1. /\ seen < Len(out) /\ seen' = seen + 1 /\ cstate # "gone"
        /\ UNCHANGED <<out, protocol, next>>
    BY <1>1 DEF ClientRead, server, choice
  <2> DEFINE name == out[seen + 1].name
  <2>2. \A n : StateAfter(n)' = StateAfter(n)
    BY <2>1, OutStays
  <2>3. seen + 1 \in DOMAIN out /\ cstate = StateAfter(seen) /\ StateOf(name) = StateAfter(seen)
    <3>1. seen + 1 \in DOMAIN out /\ cstate = StateAfter(seen)
      BY <1>t, <1>f, <2>1
    <3> QED
      BY <1>t, <1>f, <3>1
  <2>4. /\ name \notin {"success", "finish_configuration"} =>
               StateAfter(seen + 1) = StateAfter(seen)
        /\ name = "finish_configuration" => StateAfter(seen + 1) = "play"
        /\ name = "success" /\ ~Configures => StateAfter(seen + 1) = "play"
        /\ name = "success" /\ Configures /\ StateAfter(seen) = "login" =>
               StateAfter(seen + 1) = "configuration"
    <3>1. seen \in Nat
      BY <1>t
    <3> QED
      BY <3>1, ReadStep, StateAfterIs
  <2>5. name = "success" => StateAfter(seen) = "login"
    BY <2>3 DEF StateOf
  <2>6. cstate' \in {"gone", StateAfter(seen + 1)}
    <3>1. CASE name = "success"
      BY <1>1, <2>4, <2>5, <3>1 DEF ClientRead, Configures
    <3>2. CASE name = "finish_configuration"
      BY <1>1, <2>4, <3>2 DEF ClientRead
    <3>3. CASE name \notin {"success", "finish_configuration"}
      <4>1. cstate' \in {"gone", cstate}
        BY <1>1, <3>3 DEF ClientRead
      <4> QED
        BY <2>3, <2>4, <3>3, <4>1
    <3> QED
      BY <3>1, <3>2, <3>3
  <2> QED
    BY <1>f, <2>1, <2>2, <2>6 DEF ClientFollows
<1>2. CASE ~ClientRead /\ out' = out
  <2>1. /\ seen' = seen /\ cstate' \in {cstate, "gone"} /\ UNCHANGED <<protocol, next>>
    BY <1>2, ClientMoves, Moves
  <2>2. \A n : StateAfter(n)' = StateAfter(n)
    BY <1>2, <2>1, OutStays
  <2> QED
    BY <1>2, <1>f, <2>1, <2>2 DEF ClientFollows
<1>3. CASE out' # out
  <2>1. PICK name \in PacketNames, version \in Nat :
               /\ out' = Append(out, Frame(name, sealed, version))
               /\ UNCHANGED <<protocol, next, cstate, seen>>
               /\ StateOf(name) = StateAfter(Len(out))
    BY <1>3, Written1
  <2> DEFINE f == Frame(name, sealed, version)
  <2>2. f \in FrameSet /\ f.name = name /\ f.state = StateOf(name)
    BY <1>t, FrameIs
  <2> HIDE DEF f
  <2>3. /\ Len(out') = Len(out) + 1
        /\ \A i \in 1..Len(out) : out'[i] = out[i]
        /\ out'[Len(out) + 1] = f
        /\ out' \in Seq(FrameSet)
        /\ \A n \in 0..Len(out) : StateAfter(n)' = StateAfter(n)
    BY <1>t, <2>1, <2>2, OutGrows DEF f
  <2>4. cstate' \in {"gone", StateAfter(seen)'}
    BY <1>t, <1>f, <2>1, <2>3
  <2>5. ASSUME NEW i \in DOMAIN out'
        PROVE  out'[i].state = StateAfter(i - 1)' /\ out'[i].state = StateOf(out'[i].name)
    <3>1. i \in 1..(Len(out) + 1)
      BY <1>t, <2>3
    <3>2. CASE i = Len(out) + 1
      <4>1. i - 1 = Len(out) /\ i - 1 \in 0..Len(out)
        BY <1>t, <3>2
      <4>2. StateAfter(i - 1)' = StateAfter(Len(out))
        BY <2>3, <4>1
      <4> QED
        BY <2>1, <2>2, <2>3, <3>2, <4>2
    <3>3. CASE i # Len(out) + 1
      <4>1. i \in DOMAIN out /\ i - 1 \in 0..Len(out) /\ i \in 1..Len(out)
        BY <1>t, <3>1, <3>3
      <4>2. out'[i] = out[i] /\ StateAfter(i - 1)' = StateAfter(i - 1)
        BY <2>3, <4>1
      <4> QED
        BY <1>f, <4>1, <4>2
    <3> QED
      BY <3>2, <3>3
  <2> QED
    BY <2>4, <2>5 DEF ClientFollows
<1> QED
  BY <1>1, <1>2, <1>3

\* The adapter's steps that write nothing leave the client's state alone.
LEMMA StageStays ==
    ASSUME RouterInv, SequenceInv, phase = "adapter", steps # <<>>, steps[1].do # "write"
    PROVE  Stage(protocol, Done + 1) = Stage(protocol, Done)
<1>1. /\ Adapter(protocol) # "none" /\ Done \in Nat
      /\ steps[1] = Steps(protocol)[Done + 1]
  BY Advance
<1>2. Done # 0
  BY <1>1, PlanTurns DEF W
<1>3. Adapter(protocol) = "configuration" => Done # 4
  BY <1>1, PlanTurns DEF W
<1> QED
  BY <1>1, <1>2, <1>3 DEF Stage

\* The adapter has taken n steps.
Ordered(n) ==
    \A i \in 1..n :
        LET s == Steps(protocol)[i]
        IN  Certain(s) =>
                /\ s.name \in Names
                /\ \A j \in 1..(i - 1) :
                       Certain(Steps(protocol)[j]) => Precedes(Steps(protocol)[j].name, s.name)

LEMMA InSequenceIs ==
    InSequence <=>
        (phase \in {"adapter", "play"} =>
            /\ Adapter(protocol) # "none"
            /\ Done >= 0
            /\ \A i \in DOMAIN steps : steps[i] = Steps(protocol)[Done + i]
            /\ StateAfter(Len(out)) = Stage(protocol, Done)
            /\ Ordered(Done)
            /\ phase = "play" => steps = <<>>)
BY DEF InSequence, Ordered

\* A step that is certain to write has been written, another one has not.
LEMMA OrderedSilently ==
    ASSUME NEW n \in Nat, Ordered(n), ~Certain(Steps(protocol)[n + 1]),
           UNCHANGED <<protocol, next, timed, out>>
    PROVE  Ordered(n + 1)'
<1>1. /\ Names' = Names /\ \A a, b : Precedes(a, b)' <=> Precedes(a, b)
      /\ \A s : Certain(s)' <=> Certain(s)
  BY OutStays DEF Certain
<1>2. \A i \in 1..(n + 1) : i \in 1..n \/ i = n + 1
  OBVIOUS
<1> QED
  BY <1>1, <1>2 DEF Ordered

LEMMA OrderedWritten ==
    ASSUME NEW n \in Nat, Ordered(n), out \in Seq(FrameSet), NEW f \in FrameSet,
           out' = Append(out, f), f.name = Steps(protocol)[n + 1].name,
           UNCHANGED <<protocol, next, timed>>
    PROVE  Ordered(n + 1)'
<1>1. /\ Names' = Names \cup {f.name}
      /\ \A a, b : Precedes(a, b) => Precedes(a, b)'
      /\ \A a \in Names : Precedes(a, f.name)'
  BY OutGrows
<1>2. \A s : Certain(s)' <=> Certain(s)
  BY DEF Certain
<1>3. ASSUME NEW i \in 1..(n + 1), Certain(Steps(protocol)[i])
      PROVE  /\ Steps(protocol)[i].name \in Names'
             /\ \A j \in 1..(i - 1) : Certain(Steps(protocol)[j]) =>
                    Precedes(Steps(protocol)[j].name, Steps(protocol)[i].name)'
  <2>1. CASE i = n + 1
    <3>1. ASSUME NEW j \in 1..n, Certain(Steps(protocol)[j])
          PROVE  Steps(protocol)[j].name \in Names
      BY <3>1 DEF Ordered
    <3>2. i - 1 = n
      BY <2>1
    <3> QED
      BY <1>1, <2>1, <3>1, <3>2
  <2>2. CASE i # n + 1
    <3>1. i \in 1..n
      BY <2>2
    <3> QED
      BY <1>1, <1>3, <3>1 DEF Ordered
  <2> QED
    BY <2>1, <2>2
<1> QED
  BY <1>2, <1>3 DEF Ordered

\* Nothing of the adapter's changes.
LEMMA SequenceStays ==
    ASSUME InSequence, UNCHANGED <<protocol, next, timed, out, steps>>,
           phase' = phase \/ phase' \notin {"adapter", "play"}
           \/ (phase = "adapter" /\ phase' = "play" /\ steps = <<>>)
    PROVE  InSequence'
<1>1. /\ Names' = Names /\ \A a, b : Precedes(a, b)' <=> Precedes(a, b)
      /\ \A n : StateAfter(n)' = StateAfter(n)
      /\ \A s : Certain(s)' <=> Certain(s)
      /\ Done' = Done
  BY OutStays DEF Certain, Done
<1> QED
  BY <1>1 DEF InSequence

\* The adapter's next step writes nothing.
LEMMA SequenceSteps ==
    ASSUME RouterInv, SequenceInv, phase = "adapter", steps # <<>>, steps' = Tail(steps),
           UNCHANGED <<protocol, next, timed, out, phase>>, ~Certain(steps[1])
    PROVE  InSequence'
<1>1. /\ Adapter(protocol) # "none" /\ Done \in Nat
      /\ steps[1] = Steps(protocol)[Done + 1]
      /\ Done' = Done + 1
      /\ \A i \in DOMAIN steps' : steps'[i] = Steps(protocol)[Done' + i]
  BY Advance
<1>2. /\ Ordered(Done) /\ StateAfter(Len(out)) = Stage(protocol, Done)
  BY InSequenceIs DEF SequenceInv
<1>3. PICK n \in Nat : n = Done
  BY <1>1
<1>5. Ordered(n + 1)'
  BY <1>1, <1>2, <1>3, OrderedSilently
<1>4. StateAfter(Len(out))' = Stage(protocol, Done + 1)
  <2>1. steps[1].do # "write"
    BY DEF Certain
  <2> QED
    BY <1>2, <2>1, StageStays, OutStays
<1> QED
  BY <1>1, <1>3, <1>4, <1>5 DEF InSequence, Ordered

LEMMA NextInSequence == RouterInv /\ SequenceInv /\ [Next]_vars => InSequence'
<1> SUFFICES ASSUME RouterInv, SequenceInv, [Next]_vars PROVE InSequence'
  OBVIOUS
<1> USE DEF choice, auth, registry, client
<1>t. sealed \in BOOLEAN /\ out \in Seq(FrameSet) /\ Len(out) \in Nat /\ InSequence
  BY DEF RouterInv, TypeOK, SequenceInv
<1>1. CASE Write
  <2>1. PICK version \in Nat :
          /\ phase = "adapter" /\ steps # <<>>
          /\ UNCHANGED <<protocol, next, timed>>
          /\ \/ /\ steps[1].do \in {"write", "option", "time"}
                /\ steps[1].name \in PacketNames
                /\ out' = Append(out, Frame(steps[1].name, sealed, version))
                /\ steps' = Tail(steps)
                /\ phase' = "adapter"
             \/ /\ steps[1].do = "option" \/ (steps[1].do = "time" /\ ~timed)
                /\ steps' = Tail(steps)
                /\ UNCHANGED <<phase, out>>
             \/ phase' = "closed" /\ UNCHANGED <<steps, out>>
    BY <1>1, AdapterWrites
  <2>2. CASE phase' = "closed"
    BY <2>2 DEF InSequence
  <2>3. CASE /\ steps[1].do = "option" \/ (steps[1].do = "time" /\ ~timed)
             /\ steps' = Tail(steps)
             /\ UNCHANGED <<phase, out>>
    BY <2>1, <2>3, SequenceSteps DEF Certain
  <2>4. CASE /\ steps[1].do \in {"write", "option", "time"}
             /\ steps[1].name \in PacketNames
             /\ out' = Append(out, Frame(steps[1].name, sealed, version))
             /\ steps' = Tail(steps)
             /\ phase' = "adapter"
    <3>1. /\ Adapter(protocol) # "none" /\ Done \in Nat
          /\ steps[1] = Steps(protocol)[Done + 1]
          /\ Placed(protocol, Done + 1, steps[1])
          /\ Done' = Done + 1
          /\ \A i \in DOMAIN steps' : steps'[i] = Steps(protocol)[Done' + i]
      BY <2>1, <2>4, Advance
    <3>2. Ordered(Done) /\ StateAfter(Len(out)) = Stage(protocol, Done)
      BY <2>1, InSequenceIs DEF SequenceInv
    <3> PICK n \in Nat : n = Done
      BY <3>1
    <3> PICK f \in FrameSet : f = Frame(steps[1].name, sealed, version) /\ f.name = steps[1].name
      BY <1>t, <2>4, FrameIs
    <3>3. /\ out' = Append(out, f) /\ Len(out') = Len(out) + 1
          /\ out'[Len(out) + 1] = f
          /\ StateAfter(Len(out)) = ReadState(out', Configures', next', Len(out))
      <4>1. out' = Append(out, f)
        BY <2>4
      <4>2. PICK l \in Nat : l = Len(out)
        BY <1>t
      <4>3. /\ Len(out') = Len(out) + 1 /\ out'[Len(out) + 1] = f
            /\ StateAfter(l)' = StateAfter(l)
        BY <1>t, <2>1, <4>1, <4>2, OutGrows
      <4> QED
        BY <4>1, <4>2, <4>3, StateAfterIs
    <3>4. Ordered(n + 1)'
      BY <1>t, <2>1, <3>1, <3>2, <3>3, OrderedWritten
    <3>5. StateAfter(Len(out))' = Stage(protocol, n + 1)
      <4> DEFINE name == steps[1].name
      <4>1. /\ name \notin {"success", "finish_configuration"} =>
                   ReadState(out', Configures', next', Len(out) + 1) = Stage(protocol, n)
            /\ name = "finish_configuration" =>
                   ReadState(out', Configures', next', Len(out) + 1) = "play"
            /\ name = "success" /\ ~Configures' =>
                   ReadState(out', Configures', next', Len(out) + 1) = "play"
            /\ name = "success" /\ Configures' /\ Stage(protocol, n) = "login" =>
                   ReadState(out', Configures', next', Len(out) + 1) = "configuration"
        <5>1. /\ Len(out) \in Nat /\ name = out'[Len(out) + 1].name
              /\ ReadState(out', Configures', next', Len(out)) = Stage(protocol, n)
          BY <1>t, <3>2, <3>3
        <5> HIDE DEF name
        <5>2. PICK l \in Nat : l = Len(out)
          BY <5>1
        <5>3. /\ name = out'[l + 1].name
              /\ ReadState(out', Configures', next', l) = Stage(protocol, n)
          BY <5>1, <5>2
        <5>4. /\ name \notin {"success", "finish_configuration"} =>
                     ReadState(out', Configures', next', l + 1) = Stage(protocol, n)
              /\ name = "finish_configuration" =>
                     ReadState(out', Configures', next', l + 1) = "play"
              /\ name = "success" /\ ~Configures' =>
                     ReadState(out', Configures', next', l + 1) = "play"
              /\ name = "success" /\ Configures' /\ Stage(protocol, n) = "login" =>
                     ReadState(out', Configures', next', l + 1) = "configuration"
          BY <5>3, StageStep
        <5> QED
          BY <5>2, <5>4
      <4>2. StateAfter(Len(out))' = ReadState(out', Configures', next', Len(out) + 1)
        <5>1. PICK l \in Nat : l = Len(out')
          BY <1>t, <3>3
        <5>2. StateAfter(Len(out))' = StateAfter(l)'
          BY <5>1 DEF StateAfter
        <5> QED
          BY <3>3, <5>1, <5>2, StateAfterIs
      <4>3. /\ name = "success" <=> n = 0
            /\ name = "finish_configuration" => n = 4 /\ Configures'
            /\ steps[1].do # "write" => name \notin {"success", "finish_configuration"}
        BY <2>1, <2>4, <3>1 DEF Placed, Configures
      <4>4. n = 4 /\ Configures' => name = "finish_configuration"
        BY <2>1, <3>1, PlanTurns DEF W, Configures
      <4> QED
        BY <2>1, <4>1, <4>2, <4>3, <4>4 DEF Stage, Configures
    <3> QED
      BY <2>1, <2>4, <3>1, <3>4, <3>5 DEF InSequence, Ordered
  <2> QED
    BY <2>1, <2>2, <2>3, <2>4
<1>2. CASE out' # out /\ phase # "adapter"
  <2>1. phase' \notin {"adapter", "play"}
    BY <1>2, Written1
  <2> QED
    BY <2>1 DEF InSequence
<1>3. CASE FindChunk
  <2>1. CASE phase' = "closed"
    BY <2>1 DEF InSequence
  <2>2. CASE steps' = Tail(steps) /\ phase' = phase
    BY <1>3, <2>2, SequenceSteps DEF FindChunk, Certain
  <2> QED
    BY <1>3, <2>1, <2>2 DEF FindChunk, Close
<1>4. CASE Await
  <2>1. CASE phase' = "closed"
    BY <2>1 DEF InSequence
  <2>2. CASE steps' = Tail(steps) /\ phase' = phase
    BY <1>4, <2>2, SequenceSteps DEF Await, Certain, Unexpected
  <2>3. CASE steps' = steps /\ phase' = phase
    BY <1>t, <1>4, <2>3, SequenceStays DEF Await, Unexpected
  <2> QED
    BY <1>4, <2>1, <2>2, <2>3 DEF Await, Close, Unexpected
<1>5. CASE Dispatch
  <2>1. CASE phase' # "adapter"
    BY <1>5, <2>1 DEF InSequence, Dispatch, Close
  <2>2. CASE phase' = "adapter"
    <3>1. /\ Adapter(protocol) # "none" /\ steps' = Steps(protocol)
          /\ phase = "dispatch" /\ UNCHANGED <<protocol, next, timed, out>>
      BY <1>5, <2>2 DEF Dispatch, Close
    <3>2. Steps(protocol) \in Seq(StepSet)
      BY StepsType
    <3>3. Done' = 0
      BY <3>1, <3>2 DEF Done
    <3>4. StateAfter(Len(out)) = "login"
      <4>1. "success" \notin Names /\ "finish_configuration" \notin Names /\ next = "login"
        BY <3>1 DEF SequenceInv, Exchange, LoginPhases
      <4> QED
        BY <1>t, <4>1, NotMoved
    <3>5. StateAfter(Len(out))' = Stage(protocol, 0)
      BY <3>1, <3>4, OutStays DEF Stage
    <3> QED
      BY <2>2, <3>1, <3>2, <3>3, <3>5 DEF InSequence
  <2> QED
    BY <2>1, <2>2
<1>6. CASE out' = out /\ ~(Write \/ FindChunk \/ Await \/ Dispatch)
  <2>1. UNCHANGED <<protocol, next, timed>> /\ Move
    BY <1>6, Moves
  <2>2. steps' = steps
    BY <1>6 DEF Next, Server, Fill, ConnError, ReadHandshake, ReadStatusRequest, ReadPing,
       AllowProtocol, ReadLoginStart, Decide, ReadAnswer, Verify, Play, ReadPlay, ClientRead,
       ClientStray, ClientLeave, UpdateStore, Terminated, server, vars, Unexpected
  <2>3. phase' = "adapter" => phase = "adapter"
    BY <1>6, <2>1 DEF Next, Server, Fill, ConnError, ReadHandshake, ReadStatusRequest,
       ReadPing, AllowProtocol, ReadLoginStart, Decide, ReadAnswer, Verify, Play, ReadPlay,
       ClientRead, ClientStray, ClientLeave, UpdateStore, Terminated, server, vars, Unexpected,
       Close, AuthFailed, RouterInv, TypeOK
  <2> QED
    BY <1>t, <1>6, <2>1, <2>2, <2>3, SequenceStays DEF Move
<1>7. out' # out /\ phase = "adapter" => Write
  BY WriterMoves
<1> QED
  BY <1>1, <1>2, <1>3, <1>4, <1>5, <1>6, <1>7

-----------------------------------------------------------------------------
(***************************************************************************)
(* What is on its way to the server.                                       *)
(***************************************************************************)

LEMMA MsgType == ASSUME NEW name \in MessageNames, NEW key \in BOOLEAN
                 PROVE  Msg(name, key) \in Message /\ Msg(name, key).name = name
BY DEF Msg, Message

\* How packets move between the client, the socket and the reader in use.
LEMMA QueueMoves ==
    ASSUME RouterInv, SequenceInv, [Next]_vars
    PROVE  \/ UNCHANGED <<buf, net, lost>>
           \/ Fill
           \/ /\ buf # <<>> /\ Consume
              /\ phase' # phase \/ phase \in {"adapter", "play"}
           \/ /\ phase = "answer" /\ phase' = "verify" /\ Next1("good")
              /\ FreshReader(Tail(buf)) /\ UNCHANGED net
           \/ /\ phase = "adapter" /\ phase' \in {"play", "closed"} /\ ~Configures
              /\ FreshReader(buf) /\ UNCHANGED net
           \/ ClientStray
           \/ ClientRead
<1>1. ASSUME NEW name, phase # "closed", Unexpected(name)
      PROVE  buf # <<>> /\ Consume /\ phase' # phase
  BY <1>1 DEF Unexpected, Close
<1>2. CASE ReadHandshake \/ ReadStatusRequest \/ ReadPing \/ ReadLoginStart
  <2>1. phase # "closed"
    BY <1>2 DEF ReadHandshake, ReadStatusRequest, ReadPing, ReadLoginStart
  <2>2. CASE ReadHandshake
    BY <1>1, <2>1, <2>2 DEF ReadHandshake, Next1, RouterInv, TypeOK
  <2>3. CASE ReadStatusRequest
    BY <1>1, <2>1, <2>3 DEF ReadStatusRequest, Next1, Close
  <2>4. CASE ReadPing
    BY <1>1, <2>1, <2>4 DEF ReadPing, Next1, Close
  <2>5. CASE ReadLoginStart
    BY <1>1, <2>1, <2>5 DEF ReadLoginStart, Next1, Close
  <2> QED
    BY <1>2, <2>2, <2>3, <2>4, <2>5
<1>3. CASE ReadAnswer
  <2>1. ASSUME NEW err, AuthFailed(err, FALSE), phase = "answer" PROVE phase' # phase
    BY <2>1 DEF AuthFailed, Close
  <2> QED
    BY <1>3, <2>1 DEF ReadAnswer
<1>4. CASE Await
  BY <1>1, <1>4 DEF Await, Next1, Awaited, Consume, Unexpected
<1>5. CASE Play
  BY <1>5 DEF Play, OwnReader, Configures, FreshReader
<1>6. CASE ReadPlay
  BY <1>6 DEF ReadPlay
<1>7. CASE ConnError \/ AllowProtocol \/ Decide \/ Verify \/ Dispatch \/ Write \/ FindChunk
           \/ ClientLeave \/ UpdateStore \/ Terminated \/ UNCHANGED vars
  BY <1>7 DEF ConnError, AllowProtocol, Decide, Verify, Dispatch, Write, FindChunk,
              ClientLeave, UpdateStore, Terminated, vars
<1> QED
  BY <1>2, <1>3, <1>4, <1>5, <1>6, <1>7 DEF Next, Server

\* What the client says when it has read a packet.
LEMMA Said ==
    ASSUME RouterInv, SequenceInv, ClientRead
    PROVE  \E add \in Seq(Message) :
               /\ net' = net \o add
               /\ UNCHANGED <<buf, lost, phase, steps, protocol, out>>
               /\ \A i \in DOMAIN add : add[i].name = "finish_configuration" => cstate' = "play"
               /\ seen < Len(out) /\ seen' = seen + 1
               /\ phase = "answer" => Len(add) \in {0, 1}
<1> DEFINE name == out[seen + 1].name
<1>t. ckey \in BOOLEAN /\ net \in Seq(Message) /\ out \in Seq(FrameSet) /\ seen \in 0..Len(out)
  BY DEF RouterInv, TypeOK, SequenceInv
<1>1. UNCHANGED <<buf, lost, phase, steps, protocol, out>> /\ seen < Len(out) /\ seen' = seen + 1
  BY DEF ClientRead, server, choice
<1>2. phase = "answer" => name = "encryption_begin"
  <2>1. name \in Names
    BY <1>t, <1>1 DEF Names
  <2> QED
    BY <2>1 DEF SequenceInv, Exchange
<1>3. ASSUME NEW n1 \in MessageNames, net' = net \o <<Msg(n1, ckey)>>,
             n1 # "finish_configuration", phase # "answer"
      PROVE  \E add \in Seq(Message) :
                 /\ net' = net \o add
                 /\ \A i \in DOMAIN add : add[i].name = "finish_configuration" => cstate' = "play"
  <2> DEFINE m1 == Msg(n1, ckey)
  <2>1. m1 \in Message /\ m1.name = n1 /\ net' = net \o <<m1>>
    BY <1>t, <1>3, MsgType
  <2> HIDE DEF m1
  <2>2. <<m1>> \in Seq(Message) /\ \A i \in DOMAIN <<m1>> : <<m1>>[i].name # "finish_configuration"
    BY <1>3, <2>1
  <2> QED
    BY <2>1, <2>2
<1>4. ASSUME NEW n1 \in MessageNames, NEW n2 \in MessageNames,
             net' = net \o <<Msg(n1, ckey), Msg(n2, ckey)>>,
             "finish_configuration" \in {n1, n2} => cstate' = "play", phase # "answer"
      PROVE  \E add \in Seq(Message) :
                 /\ net' = net \o add
                 /\ \A i \in DOMAIN add : add[i].name = "finish_configuration" => cstate' = "play"
  <2> DEFINE m1 == Msg(n1, ckey)
             m2 == Msg(n2, ckey)
  <2>1. m1 \in Message /\ m2 \in Message /\ m1.name = n1 /\ m2.name = n2
    BY <1>t, MsgType
  <2>2. net' = net \o <<m1, m2>>
    BY <1>4
  <2> HIDE DEF m1, m2
  <2>3. <<m1, m2>> \in Seq(Message)
    BY <2>1
  <2>4. ASSUME NEW i \in DOMAIN <<m1, m2>>, <<m1, m2>>[i].name = "finish_configuration"
        PROVE  cstate' = "play"
    BY <1>4, <2>1, <2>4
  <2> QED
    BY <2>2, <2>3, <2>4
<1>5. ASSUME NEW a \in Answers, net' = Append(net, Msg(a, FALSE)) 
      PROVE  \E add \in Seq(Message) :
                 /\ net' = net \o add
                 /\ \A i \in DOMAIN add : add[i].name = "finish_configuration" => cstate' = "play"
                 /\ Len(add) = 1
  <2>1. a \in MessageNames /\ a # "finish_configuration"
    BY RouterAssumption DEF MessageNames
  <2> DEFINE m1 == Msg(a, FALSE)
  <2>2. m1 \in Message /\ m1.name = a
    BY <2>1, MsgType
  <2>3. net' = Append(net, m1)
    BY <1>5
  <2> HIDE DEF m1
  <2>4. net' = net \o <<m1>>
    BY <1>t, <2>2, <2>3, AppendIsConcat
  <2>5. /\ <<m1>> \in Seq(Message) /\ Len(<<m1>>) = 1
        /\ \A i \in DOMAIN <<m1>> : <<m1>>[i].name # "finish_configuration"
    BY <2>1, <2>2
  <2> QED
    BY <2>4, <2>5
<1>6. ASSUME UNCHANGED net
      PROVE  \E add \in Seq(Message) :
                 /\ net' = net \o add
                 /\ \A i \in DOMAIN add : add[i].name = "finish_configuration" => cstate' = "play"
                 /\ Len(add) = 0
  <2>1. net' = net \o <<>>
    BY <1>t, <1>6, ConcatEmptySeq
  <2> WITNESS <<>> \in Seq(Message)
  <2> QED
    BY <2>1
<1>s. /\ \A n1 : Say(<<n1>>) => net' = net \o <<Msg(n1, ckey)>>
      /\ \A n1, n2 : Say(<<n1, n2>>) => net' = net \o <<Msg(n1, ckey), Msg(n2, ckey)>>
  <2>1. \A n1 : [i \in DOMAIN <<n1>> |-> Msg(<<n1>>[i], ckey)] = <<Msg(n1, ckey)>>
    OBVIOUS
  <2>2. \A n1, n2 : [i \in DOMAIN <<n1, n2>> |-> Msg(<<n1, n2>>[i], ckey)]
                        = <<Msg(n1, ckey), Msg(n2, ckey)>>
    OBVIOUS
  <2> QED
    BY <2>1, <2>2 DEF Say
<1>7. CASE name = "encryption_begin"
  BY <1>1, <1>5, <1>7 DEF ClientRead
<1>8. CASE name = "success"
  <2>1. /\ \/ Say(<<"login_acknowledged">>) \/ Say(<<"login_acknowledged", "settings">>)
           \/ Say(<<"chat">>)
        /\ phase # "answer"
    BY <1>2, <1>8 DEF ClientRead
  <2>2. {"login_acknowledged", "settings", "chat"} \subseteq MessageNames
    BY DEF MessageNames
  <2> QED
    BY <1>1, <1>3, <1>4, <2>1, <2>2, <1>s
<1>9. CASE name = "finish_configuration"
  <2>1. Say(<<"finish_configuration", "chat">>) /\ phase # "answer" /\ cstate' = "play"
    BY <1>2, <1>9 DEF ClientRead
  <2>2. {"finish_configuration", "chat"} \subseteq MessageNames
    BY DEF MessageNames
  <2> QED
    BY <1>1, <1>4, <2>1, <2>2, <1>s
<1>10. CASE name = "status_response"
  <2>1. Say(<<"ping">>) /\ phase # "answer"
    BY <1>2, <1>10 DEF ClientRead
  <2>2. "ping" \in MessageNames
    BY DEF MessageNames
  <2> QED
    BY <1>1, <1>3, <2>1, <2>2, <1>s
<1>11. CASE name \notin {"encryption_begin", "success", "finish_configuration", "status_response"}
  BY <1>1, <1>6, <1>11 DEF ClientRead
<1> QED
  BY <1>7, <1>8, <1>9, <1>10, <1>11

\* A reader takes a part of what the socket holds: the order stays.
LEMMA TakePart ==
    ASSUME NEW q \in Seq(Message), NEW n \in Nat, 1 <= n, n <= Len(q)
    PROVE  /\ SubSeq(q, 1, n) \in Seq(Message) /\ SubSeq(q, n + 1, Len(q)) \in Seq(Message)
           /\ SubSeq(q, 1, n) \o SubSeq(q, n + 1, Len(q)) = q
           /\ \A i \in DOMAIN SubSeq(q, 1, n) : i \in DOMAIN q /\ SubSeq(q, 1, n)[i] = q[i]
           /\ \A i \in DOMAIN SubSeq(q, n + 1, Len(q)) :
                  n + i \in DOMAIN q /\ SubSeq(q, n + 1, Len(q))[i] = q[n + i]
<1>1. Len(q) \in Nat /\ DOMAIN q = 1..Len(q)
  OBVIOUS
<1>2. SubSeq(q, 1, n) \o SubSeq(q, n + 1, Len(q)) = SubSeq(q, 1, Len(q))
  <2>1. 1 \in 1..(Len(q) + 1) /\ n \in (1 - 1)..Len(q) /\ Len(q) \in n..Len(q)
    BY <1>1
  <2> QED
    BY <2>1, ConcatAdjacentSubSeq
<1>3. SubSeq(q, 1, Len(q)) = q
  BY SubSeqFull
<1>4. /\ SubSeq(q, 1, n) \in Seq(Message) /\ Len(SubSeq(q, 1, n)) = n
      /\ \A i \in 1..n : SubSeq(q, 1, n)[i] = q[i]
  BY <1>1
<1>5. /\ SubSeq(q, n + 1, Len(q)) \in Seq(Message)
      /\ Len(SubSeq(q, n + 1, Len(q))) = Len(q) - n
      /\ \A i \in 1..(Len(q) - n) : SubSeq(q, n + 1, Len(q))[i] = q[n + i]
  <2>1. n + 1 \in Int /\ Len(q) \in Int /\ \A i \in (n + 1)..Len(q) : q[i] \in Message
    BY <1>1
  <2>2. /\ SubSeq(q, n + 1, Len(q)) \in Seq(Message)
        /\ Len(SubSeq(q, n + 1, Len(q)))
             = IF n + 1 <= Len(q) THEN Len(q) - (n + 1) + 1 ELSE 0
        /\ \A i \in 1..(Len(q) - (n + 1) + 1) :
               SubSeq(q, n + 1, Len(q))[i] = q[n + 1 + i - 1]
    BY <2>1, SubSeqProperties
  <2>3. /\ Len(q) - (n + 1) + 1 = Len(q) - n
        /\ (IF n + 1 <= Len(q) THEN Len(q) - (n + 1) + 1 ELSE 0) = Len(q) - n
    <3>1. \A a, b \in Nat : b <= a => /\ a - (b + 1) + 1 = a - b
                                     /\ (IF b + 1 <= a THEN a - (b + 1) + 1 ELSE 0) = a - b
      OBVIOUS
    <3> QED
      BY <1>1, <3>1
  <2>4. \A i \in 1..(Len(q) - n) : n + 1 + i - 1 = n + i
    BY <1>1
  <2> QED
    BY <2>2, <2>3, <2>4
<1>6. \A i \in 1..n : i \in DOMAIN q
  BY <1>1
<1>7. \A i \in 1..(Len(q) - n) : n + i \in DOMAIN q
  BY <1>1
<1>8. DOMAIN SubSeq(q, 1, n) = 1..n
  BY <1>4
<1>9. DOMAIN SubSeq(q, n + 1, Len(q)) = 1..(Len(q) - n)
  BY <1>5
<1> QED
  BY <1>2, <1>3, <1>4, <1>5, <1>6, <1>7, <1>8, <1>9

\* The first packet is read.
LEMMA TakeFirst ==
    ASSUME NEW b \in Seq(Message), b # <<>>, NEW n \in Seq(Message)
    PROVE  /\ Tail(b) \in Seq(Message)
           /\ \A i \in DOMAIN Tail(b) : i + 1 \in DOMAIN b /\ Tail(b)[i] = b[i + 1]
           /\ \A i \in DOMAIN (Tail(b) \o n) :
                  /\ i \in Nat \ {0}
                  /\ i + 1 \in DOMAIN (b \o n) /\ (Tail(b) \o n)[i] = (b \o n)[i + 1]
<1>1. /\ Len(b) \in Nat \ {0} /\ Len(n) \in Nat
      /\ Tail(b) \in Seq(Message) /\ Len(Tail(b)) = Len(b) - 1
      /\ \A i \in 1..(Len(b) - 1) : Tail(b)[i] = b[i + 1]
  OBVIOUS
<1>2. /\ Len(b \o n) = Len(b) + Len(n) /\ b \o n \in Seq(Message)
      /\ \A i \in 1..(Len(b) + Len(n)) :
             (b \o n)[i] = IF i <= Len(b) THEN b[i] ELSE n[i - Len(b)]
  BY ConcatProperties
<1> DEFINE t == Tail(b)
<1>3. /\ Len(t \o n) = Len(t) + Len(n) /\ t \o n \in Seq(Message)
      /\ \A i \in 1..(Len(t) + Len(n)) :
             (t \o n)[i] = IF i <= Len(t) THEN t[i] ELSE n[i - Len(t)]
  BY <1>1, ConcatProperties
<1>4. DOMAIN t = 1..(Len(b) - 1) /\ DOMAIN b = 1..Len(b)
      /\ DOMAIN (b \o n) = 1..(Len(b) + Len(n))
      /\ DOMAIN (t \o n) = 1..(Len(b) - 1 + Len(n))
  BY <1>1, <1>2, <1>3
<1>5. ASSUME NEW i \in DOMAIN (t \o n)
      PROVE  i \in Nat \ {0} /\ i + 1 \in DOMAIN (b \o n) /\ (t \o n)[i] = (b \o n)[i + 1]
  <2>1. i \in 1..(Len(b) - 1 + Len(n)) /\ i + 1 \in 1..(Len(b) + Len(n))
    BY <1>1, <1>4, <1>5
  <2>2. CASE i <= Len(b) - 1
    BY <1>1, <1>2, <1>3, <2>1, <2>2
  <2>3. CASE i > Len(b) - 1
    <3>1. i - Len(t) = i + 1 - Len(b)
      BY <1>1, <2>1
    <3>2. (t \o n)[i] = n[i - Len(t)] /\ (b \o n)[i + 1] = n[i + 1 - Len(b)]
      BY <1>1, <1>2, <1>3, <2>1, <2>3
    <3> QED
      BY <1>4, <2>1, <3>1, <3>2
  <2> QED
    BY <1>1, <2>1, <2>2, <2>3
<1> QED
  BY <1>1, <1>4, <1>5

\* Packets arrive behind what is on its way.
LEMMA PutBehind ==
    ASSUME NEW b \in Seq(Message), NEW n \in Seq(Message), NEW add \in Seq(Message)
    PROVE  /\ n \o add \in Seq(Message)
           /\ b \o (n \o add) = (b \o n) \o add
           /\ \A i \in DOMAIN (n \o add) :
                  \/ i \in DOMAIN n /\ (n \o add)[i] = n[i]
                  \/ \E j \in DOMAIN add : (n \o add)[i] = add[j]
<1>1. n \o add \in Seq(Message) /\ b \o (n \o add) = (b \o n) \o add
  BY ConcatProperties, ConcatAssociative
<1>2. /\ Len(n \o add) = Len(n) + Len(add) /\ Len(n) \in Nat /\ Len(add) \in Nat
      /\ \A i \in 1..(Len(n) + Len(add)) :
             (n \o add)[i] = IF i <= Len(n) THEN n[i] ELSE add[i - Len(n)]
  BY ConcatProperties
<1>3. ASSUME NEW i \in DOMAIN (n \o add)
      PROVE  \/ i \in DOMAIN n /\ (n \o add)[i] = n[i]
             \/ \E j \in DOMAIN add : (n \o add)[i] = add[j]
  <2>1. i \in 1..(Len(n) + Len(add))
    BY <1>1, <1>2, <1>3
  <2>2. CASE i <= Len(n)
    BY <1>2, <2>1, <2>2
  <2>3. CASE i > Len(n)
    <3>1. i - Len(n) \in DOMAIN add
      BY <1>2, <2>1, <2>3
    <3> QED
      BY <1>2, <2>1, <2>3, <3>1
  <2> QED
    BY <1>2, <2>1, <2>2, <2>3
<1> QED
  BY <1>1, <1>3

\* The same, of the whole queue.
LEMMA QueueSaid ==
    ASSUME buf \in Seq(Message), net \in Seq(Message), NEW add \in Seq(Message),
           net' = net \o add, buf' = buf
    PROVE  /\ net' \in Seq(Message) /\ Queue \in Seq(Message)
           /\ Queue' = Queue \o add
           /\ \A i \in DOMAIN Queue' :
                  \/ i \in DOMAIN Queue /\ Queue'[i] = Queue[i]
                  \/ \E j \in DOMAIN add : Queue'[i] = add[j]
<1>1. Queue \in Seq(Message)
  BY ConcatProperties DEF Queue
<1>2. net' \in Seq(Message) /\ Queue' = Queue \o add
  BY PutBehind DEF Queue
<1> HIDE DEF Queue
<1>3. \A i \in DOMAIN (Queue \o add) :
          \/ i \in DOMAIN Queue /\ (Queue \o add)[i] = Queue[i]
          \/ \E j \in DOMAIN add : (Queue \o add)[i] = add[j]
  BY <1>1, PutBehind
<1> QED
  BY <1>1, <1>2, <1>3

LEMMA QueueFilled ==
    ASSUME Fill, buf \in Seq(Message), net \in Seq(Message)
    PROVE  /\ net' \in Seq(Message) /\ buf' \in Seq(Message)
           /\ Queue' = Queue
           /\ \A i \in DOMAIN buf' : i \in DOMAIN net /\ buf'[i] = net[i]
           /\ \A i \in DOMAIN net' : \E j \in DOMAIN net : net'[i] = net[j]
<1>1. PICK n \in 1..Len(net) : buf' = SubSeq(net, 1, n) /\ net' = SubSeq(net, n + 1, Len(net))
  BY DEF Fill
<1>2. buf = <<>>
  BY DEF Fill
<1>3. Queue = net
  BY <1>2, ConcatEmptySeq DEF Queue
<1>4. n \in Nat /\ 1 <= n /\ n <= Len(net)
  OBVIOUS
<1> QED
  BY <1>1, <1>3, <1>4, TakePart DEF Queue

LEMMA QueueRead ==
    ASSUME buf # <<>>, Consume, buf \in Seq(Message), net \in Seq(Message)
    PROVE  /\ net' = net /\ buf' \in Seq(Message)
           /\ \A i \in DOMAIN buf' : i + 1 \in DOMAIN buf /\ buf'[i] = buf[i + 1]
           /\ \A i \in DOMAIN Queue' :
                  i \in Nat \ {0} /\ i + 1 \in DOMAIN Queue /\ Queue'[i] = Queue[i + 1]
BY TakeFirst DEF Consume, Queue

\* A packet out of place.
LEMMA StraySaid ==
    ASSUME RouterInv, SequenceInv, ClientStray
    PROVE  \E add \in Seq(Message) :
               /\ net' = net \o add
               /\ UNCHANGED <<buf, lost, phase, seen, protocol, out>>
               /\ \A i \in DOMAIN add : add[i].name = "stray"
<1> DEFINE m == Msg("stray", ckey)
<1>1. m \in Message /\ m.name = "stray"
  BY MsgType DEF RouterInv, TypeOK, MessageNames
<1>2. net' = net \o [i \in DOMAIN <<"stray">> |-> Msg(<<"stray">>[i], ckey)]
  BY DEF ClientStray, Say
<1>3. [i \in DOMAIN <<"stray">> |-> Msg(<<"stray">>[i], ckey)] = <<m>>
  OBVIOUS
<1> HIDE DEF m
<1>4. <<m>> \in Seq(Message) /\ \A i \in DOMAIN <<m>> : <<m>>[i].name = "stray"
  BY <1>1
<1> QED
  BY <1>2, <1>3, <1>4 DEF ClientStray, choice

\* The packets on their way remain packets.
LEMMA NextQueue ==
    ASSUME RouterInv, SequenceInv, [Next]_vars
    PROVE  net' \in Seq(Message) /\ buf' \in Seq(Message)
<1>t. net \in Seq(Message) /\ buf \in Seq(Message)
  BY DEF SequenceInv
<1>1. CASE UNCHANGED <<buf, net, lost>>
  BY <1>1, <1>t
<1>2. CASE Fill
  BY <1>2, <1>t, QueueFilled
<1>3. CASE buf # <<>> /\ Consume
  BY <1>3, <1>t, QueueRead
<1>4. CASE \E left : FreshReader(left) /\ UNCHANGED net
  BY <1>4, <1>t DEF FreshReader
<1>5. CASE ClientStray
  BY <1>5, <1>t, StraySaid, QueueSaid
<1>6. CASE ClientRead
  BY <1>6, <1>t, Said, QueueSaid
<1> QED
  BY <1>1, <1>2, <1>3, <1>4, <1>5, <1>6, QueueMoves

\* A packet in the socket or the buffer was there or has just been sent.
LEMMA WhereFrom ==
    ASSUME RouterInv, SequenceInv, [Next]_vars,
           NEW m, \/ \E i \in DOMAIN buf' : m = buf'[i]
                  \/ \E i \in DOMAIN net' : m = net'[i]
    PROVE  \/ \E i \in DOMAIN buf : m = buf[i]
           \/ \E i \in DOMAIN net : m = net[i]
           \/ ClientRead /\ (m.name = "finish_configuration" => cstate' = "play")
           \/ m.name = "stray"
<1>t. net \in Seq(Message) /\ buf \in Seq(Message)
  BY DEF SequenceInv
<1>1. CASE UNCHANGED <<buf, net, lost>>
  BY <1>1
<1>2. CASE Fill
  BY <1>2, <1>t, QueueFilled
<1>3. CASE buf # <<>> /\ Consume
  BY <1>3, <1>t, QueueRead
<1>4. CASE \E left : FreshReader(left) /\ UNCHANGED net
  BY <1>4, <1>t DEF FreshReader
<1>5. CASE ClientStray
  <2>1. PICK add \in Seq(Message) :
             /\ net' = net \o add /\ UNCHANGED buf
             /\ \A i \in DOMAIN add : add[i].name = "stray"
    BY <1>5, StraySaid
  <2> QED
    BY <2>1, <1>t, PutBehind
<1>6. CASE ClientRead
  <2>1. PICK add \in Seq(Message) :
             /\ net' = net \o add /\ UNCHANGED buf
             /\ \A i \in DOMAIN add : add[i].name = "finish_configuration" => cstate' = "play"
    BY <1>6, Said
  <2> QED
    BY <1>6, <2>1, <1>t, PutBehind
<1> QED
  BY <1>1, <1>2, <1>3, <1>4, <1>5, <1>6, QueueMoves

\* A client in the play state stays there until it leaves.
LEMMA PlayLasts ==
    ASSUME RouterInv, SequenceInv, [Next]_vars, cstate \in {"play", "gone"}
    PROVE  cstate' \in {"play", "gone"}
<1>1. CASE ~ClientRead
  BY <1>1, ClientMoves
<1>2. CASE ClientRead
  <2>1. /\ cstate = "play" /\ seen' = seen + 1 /\ seen < Len(out)
        /\ UNCHANGED <<out, protocol, next>>
    BY <1>2 DEF ClientRead, server, choice
  <2>2. cstate = StateAfter(seen) /\ next # "play" /\ seen \in Nat
    BY <2>1 DEF RouterInv, TypeOK, SequenceInv, ClientFollows
  <2> DEFINE R1 == {out[i].name : i \in 1..seen}
             R2 == {out[i].name : i \in 1..(seen + 1)}
  <2>3. R1 \subseteq R2
    BY <2>2
  <2>4. \/ "finish_configuration" \in R1
        \/ "success" \in R1 /\ ~Configures
    BY <2>1, <2>2 DEF StateAfter
  <2>5. StateAfter(seen + 1) = "play"
    BY <2>3, <2>4 DEF StateAfter
  <2>6. StateAfter(seen)' = StateAfter(seen + 1)
    BY <2>1 DEF StateAfter, Configures
  <2>7. ClientFollows'
    BY NextFollows
  <2> QED
    BY <2>5, <2>6, <2>7 DEF ClientFollows
<1> QED
  BY <1>1, <1>2

\* The adapter's sequence advances by one step, behind a read only with what
\* is awaited.
LEMMA StepsMove ==
    ASSUME RouterInv, SequenceInv, [Next]_vars, phase = "adapter", steps' # steps
    PROVE  /\ steps # <<>> /\ steps' = Tail(steps) /\ protocol' = protocol
           /\ steps[1].do = "read" => Next1(steps[1].name)
<1> USE DEF choice, auth, registry, client, Unexpected, Close
<1>1. CASE Write \/ FindChunk \/ Await
  BY <1>1 DEF Write, FindChunk, Await, Awaited, Send
<1>2. CASE ~(Write \/ FindChunk \/ Await)
  BY <1>2 DEF Next, Server, Fill, ConnError, ReadHandshake, ReadStatusRequest, ReadPing,
     AllowProtocol, ReadLoginStart, Decide, ReadAnswer, Verify, Dispatch, Play, ReadPlay,
     ClientRead, ClientStray, ClientLeave, UpdateStore, Terminated, server, vars
<1> QED
  BY <1>1, <1>2

\* The adapter and the play phase are entered from the phase before only.
LEMMA Enters ==
    ASSUME RouterInv, SequenceInv, [Next]_vars, phase' \in {"adapter", "play"}
    PROVE  /\ \/ phase' = phase
              \/ phase = "dispatch" /\ phase' = "adapter" /\ steps' = Steps(protocol)
                 /\ Adapter(protocol) # "none"
              \/ phase = "adapter" /\ phase' = "play"
           /\ protocol' = protocol
<1>1. CASE out' = out
  BY <1>1, Moves DEF Move
<1>2. CASE out' # out
  BY <1>2, Written1
<1> QED
  BY <1>1, <1>2

LEMMA NextAcknowledged == RouterInv /\ SequenceInv /\ [Next]_vars => Acknowledged'
<1> SUFFICES ASSUME RouterInv, SequenceInv, [Next]_vars PROVE Acknowledged'
  OBVIOUS
<1>t. Acknowledged /\ InSequence
  BY DEF SequenceInv
<1>1. ASSUME NEW m, m.name = "finish_configuration",
             (\E i \in DOMAIN buf' : m = buf'[i]) \/ (\E i \in DOMAIN net' : m = net'[i])
      PROVE  cstate' \in {"play", "gone"}
  <2>1. CASE (\E i \in DOMAIN buf : m = buf[i]) \/ (\E i \in DOMAIN net : m = net[i])
    BY <1>1, <1>t, <2>1, PlayLasts DEF Acknowledged
  <2>2. CASE ClientRead /\ cstate' = "play"
    BY <2>2
  <2> QED
    BY <1>1, <2>1, <2>2, WhereFrom
<1>2. ASSUME phase' \in {"adapter", "play"}, Configures', (Done >= 6)'
      PROVE  cstate' \in {"play", "gone"}
  <2>0. protocol' = protocol /\ Configures
    BY <1>2, Enters DEF Configures
  <2>1. CASE phase = "dispatch"
    <3>1. phase' = "adapter" /\ steps' = Steps(protocol) /\ Adapter(protocol) # "none"
      BY <1>2, <2>1, Enters
    <3>2. Len(Steps(protocol)) \in Nat
      BY <3>1, PlanTurns
    <3>3. Done' = Len(Steps(protocol)) - Len(Steps(protocol))
      BY <2>0, <3>1 DEF Done
    <3> QED
      BY <1>2, <3>2, <3>3
  <2>2. CASE phase \in {"adapter", "play"} /\ Done >= 6
    BY <1>t, <2>0, <2>2, PlayLasts DEF Acknowledged
  <2>3. CASE phase = "adapter" /\ ~(Done >= 6)
    <3>1. steps' # steps
      BY <1>2, <2>0, <2>3 DEF Done
    <3>2. steps # <<>> /\ steps' = Tail(steps) /\ (steps[1].do = "read" => Next1(steps[1].name))
      BY <2>3, <3>1, StepsMove
    <3>3. /\ Adapter(protocol) # "none" /\ Done \in Nat /\ Done' = Done + 1
          /\ steps[1] = Steps(protocol)[Done + 1]
      BY <2>0, <2>3, <3>2, Advance
    <3>4. Done + 1 = 6
      BY <1>2, <2>3, <3>3
    <3>5. steps[1] = R("finish_configuration")
      BY <2>0, <3>3, <3>4, PlanTurns DEF Configures
    <3>6. buf # <<>> /\ buf[1].name = "finish_configuration"
      BY <3>2, <3>5 DEF R, Next1, Msg
    <3>7. 1 \in DOMAIN buf
      BY <3>6 DEF SequenceInv
    <3> QED
      BY <1>t, <3>6, <3>7, PlayLasts DEF Acknowledged
  <2>4. CASE phase = "play" /\ ~(Done >= 6)
    <3>1. steps = <<>> /\ Adapter(protocol) # "none"
      BY <1>t, <2>4 DEF InSequence
    <3>2. Done = 16
      BY <2>0, <3>1, PlanTurns DEF Done, Configures
    <3> QED
      BY <2>4, <3>2
  <2> QED
    BY <1>2, <2>1, <2>2, <2>3, <2>4, Enters
<1> QED
  BY <1>1, <1>2 DEF Acknowledged

-----------------------------------------------------------------------------
(***************************************************************************)
(* How far a client runs ahead of the server.                              *)
(***************************************************************************)

\* How the phases up to the adapter are entered, and with what of the queue.
LEMMA Forward ==
    ASSUME RouterInv, SequenceInv, [Next]_vars
    PROVE  /\ phase' = "handshake" => phase = "handshake"
           /\ phase' \in {"statusRequest", "allow"} =>
                  phase' = phase \/ (phase = "handshake" /\ buf # <<>> /\ Consume)
           /\ phase' = "loginStart" =>
                  phase' = phase \/ (phase = "allow" /\ UNCHANGED <<buf, net>>)
           /\ phase' = "decide" =>
                  phase' = phase \/ (phase = "loginStart" /\ buf # <<>> /\ Consume)
           /\ phase' = "answer" =>
                  phase' = phase \/ (phase = "decide" /\ UNCHANGED <<buf, net>>)
           /\ phase' = "verify" => phase' = phase \/ (phase = "answer" /\ buf' = <<>>)
           /\ phase' = "dispatch" =>
                  phase' = phase \/ (phase \in {"decide", "verify"} /\ UNCHANGED <<buf, net>>)
           /\ phase' = "adapter" =>
                  phase' = phase \/ (phase = "dispatch" /\ UNCHANGED <<buf, net>>)
<1> DEFINE Goal ==
           /\ phase' = "handshake" => phase = "handshake"
           /\ phase' \in {"statusRequest", "allow"} =>
                  phase' = phase \/ (phase = "handshake" /\ buf # <<>> /\ Consume)
           /\ phase' = "loginStart" =>
                  phase' = phase \/ (phase = "allow" /\ UNCHANGED <<buf, net>>)
           /\ phase' = "decide" =>
                  phase' = phase \/ (phase = "loginStart" /\ buf # <<>> /\ Consume)
           /\ phase' = "answer" =>
                  phase' = phase \/ (phase = "decide" /\ UNCHANGED <<buf, net>>)
           /\ phase' = "verify" => phase' = phase \/ (phase = "answer" /\ buf' = <<>>)
           /\ phase' = "dispatch" =>
                  phase' = phase \/ (phase \in {"decide", "verify"} /\ UNCHANGED <<buf, net>>)
           /\ phase' = "adapter" =>
                  phase' = phase \/ (phase = "dispatch" /\ UNCHANGED <<buf, net>>)
<1>0. ASSUME phase' \in {phase, "closed", "ping", "play", "missingPacket"} PROVE Goal
  BY <1>0
<1>1. ASSUME NEW name, Unexpected(name) PROVE Goal
  BY <1>0, <1>1 DEF Unexpected, Close
<1>2. CASE ReadHandshake
  BY <1>1, <1>2 DEF ReadHandshake, Next1, RouterInv, TypeOK
<1>3. CASE AllowProtocol
  BY <1>3 DEF AllowProtocol, Close
<1>4. CASE ReadLoginStart
  BY <1>1, <1>4 DEF ReadLoginStart, Next1, Close
<1>5. CASE Decide
  BY <1>5 DEF Decide, Close
<1>6. CASE ReadAnswer
  BY <1>6 DEF ReadAnswer, FreshReader, AuthFailed, FallsBack, Close
<1>7. CASE Verify
  BY <1>7 DEF Verify, AuthFailed, Close
<1>8. CASE Dispatch
  BY <1>8 DEF Dispatch, Close
<1>9. CASE ReadStatusRequest \/ ReadPing
  BY <1>0, <1>1, <1>9 DEF ReadStatusRequest, ReadPing, Close
<1>10. CASE Fill \/ ConnError \/ Write \/ FindChunk \/ Play \/ ReadPlay
  <2>1. phase' \in {phase, "closed", "ping", "play", "missingPacket"}
    BY <1>10 DEF Fill, ConnError, Write, FindChunk, Play, ReadPlay, Close
  <2> QED
    BY <1>0, <2>1
<1>11. CASE Await
  <2>1. phase' = phase \/ Unexpected(steps[1].name)
    BY <1>11 DEF Await
  <2> QED
    BY <1>0, <1>1, <2>1
<1>12. CASE ClientRead \/ ClientStray \/ ClientLeave \/ UpdateStore \/ Terminated
            \/ UNCHANGED vars
  BY <1>0, <1>12 DEF ClientRead, ClientStray, ClientLeave, UpdateStore, Terminated, server, vars
<1> QED
  BY <1>2, <1>3, <1>4, <1>5, <1>6, <1>7, <1>8, <1>9, <1>10, <1>11, <1>12 DEF Next, Server

\* A client that was not sent anything reads nothing; one that was asked to
\* encrypt reads that once.
LEMMA ReadsWhen ==
    ASSUME RouterInv, SequenceInv, ClientRead
    PROVE  /\ phase \notin {"handshake", "statusRequest"} \cup Preparing
           /\ phase = "answer" => seen = 0 /\ seen' = 1
<1>t. out \in Seq(FrameSet) /\ seen \in 0..Len(out) /\ seen < Len(out) /\ seen' = seen + 1
  BY DEF RouterInv, TypeOK, ClientRead
<1>1. out # <<>>
  BY <1>t
<1>2. ASSUME phase = "answer" PROVE seen = 0
  <2>1. seen + 1 \in DOMAIN out
    BY <1>t
  <2>2. out[seen + 1].name \in Names
    BY <2>1 DEF Names
  <2>3. out[seen + 1].name = "encryption_begin"
    BY <1>2, <2>2 DEF SequenceInv, Exchange
  <2>4. seen + 1 = 1
    BY <2>1, <2>3 DEF SequenceInv, KeyFollows
  <2> QED
    BY <1>t, <2>4
<1> QED
  BY <1>t, <1>1, <1>2 DEF SequenceInv, Exchange

\* Behind its first k packets the queue holds packets out of place only.
StrayBehind(q, k) == \A i \in DOMAIN q : i > k => q[i].name = "stray"

LEMMA StrayBehindMoves ==
    ASSUME RouterInv, SequenceInv, [Next]_vars, NEW k \in Nat
    PROVE  /\ UNCHANGED <<buf, net>> \/ Fill \/ ClientStray =>
                  (StrayBehind(Queue, k) => StrayBehind(Queue', k))
           /\ buf # <<>> /\ Consume => (StrayBehind(Queue, k + 1) => StrayBehind(Queue', k))
<1>t. net \in Seq(Message) /\ buf \in Seq(Message)
  BY DEF SequenceInv
<1>1. ASSUME UNCHANGED <<buf, net>> \/ Fill PROVE Queue' = Queue
  BY <1>1, <1>t, QueueFilled DEF Queue
<1>2. ASSUME ClientStray, StrayBehind(Queue, k) PROVE StrayBehind(Queue', k)
  <2>1. PICK add \in Seq(Message) :
             /\ net' = net \o add /\ UNCHANGED buf
             /\ \A i \in DOMAIN add : add[i].name = "stray"
    BY <1>2, StraySaid
  <2>2. \A i \in DOMAIN Queue' :
            \/ i \in DOMAIN Queue /\ Queue'[i] = Queue[i]
            \/ \E j \in DOMAIN add : Queue'[i] = add[j]
    BY <2>1, <1>t, QueueSaid
  <2> QED
    BY <1>2, <2>1, <2>2 DEF StrayBehind
<1>3. ASSUME buf # <<>>, Consume, StrayBehind(Queue, k + 1) PROVE StrayBehind(Queue', k)
  <2>1. \A i \in DOMAIN Queue' :
            i \in Nat \ {0} /\ i + 1 \in DOMAIN Queue /\ Queue'[i] = Queue[i + 1]
    BY <1>3, <1>t, QueueRead
  <2>2. ASSUME NEW i \in DOMAIN Queue', i > k PROVE Queue'[i].name = "stray"
    <3>1. i \in Nat /\ i + 1 > k + 1
      BY <2>1, <2>2
    <3> QED
      BY <1>3, <2>1, <2>2, <3>1 DEF StrayBehind
  <2> QED
    BY <2>2 DEF StrayBehind
<1> QED
  BY <1>1, <1>2, <1>3

\* In a phase before the adapter that goes on, packets are at most moved to the
\* reader's buffer, and others arrive.
LEMMA StillPhase ==
    ASSUME RouterInv, SequenceInv, [Next]_vars, phase \in Undecided, phase' = phase
    PROVE  \/ UNCHANGED <<buf, net>> \/ Fill \/ ClientStray
           \/ ClientRead
BY QueueMoves DEF Undecided

LEMMA NothingAheadIs ==
    /\ NothingAhead <=>
           /\ phase = "handshake" => StrayBehind(Queue, 2)
           /\ phase \in {"statusRequest", "allow", "loginStart"} => StrayBehind(Queue, 1)
           /\ phase = "decide" \/ (phase = "answer" /\ seen = 0) =>
                  \A i \in DOMAIN Queue : Queue[i].name = "stray"
           /\ phase = "answer" =>
                  \A i, j \in DOMAIN Queue : i < j => "stray" \in {Queue[i].name, Queue[j].name}
           /\ phase \in {"verify", "dispatch"} \/ (phase = "adapter" /\ ~Configures) =>
                  \A i \in DOMAIN buf : buf[i].name = "stray"
BY DEF NothingAhead, StrayBehind

LEMMA AllStray ==
    ASSUME NEW b \in Seq(Message), NEW n \in Seq(Message)
    PROVE  (\A i \in DOMAIN (b \o n) : (b \o n)[i].name = "stray") <=> StrayBehind(b \o n, 0)
<1>1. b \o n \in Seq(Message)
  BY ConcatProperties
<1>2. \A i \in DOMAIN (b \o n) : i > 0
  BY <1>1
<1> QED
  BY <1>2 DEF StrayBehind

\* While the client is asked to encrypt, one packet of its is in its place.
LEMMA NextAnswer ==
    ASSUME RouterInv, SequenceInv, [Next]_vars, phase' = "answer"
    PROVE  /\ seen' = 0 => \A i \in DOMAIN Queue' : Queue'[i].name = "stray"
           /\ \A i, j \in DOMAIN Queue' : i < j => "stray" \in {Queue'[i].name, Queue'[j].name}
<1>t. net \in Seq(Message) /\ buf \in Seq(Message) /\ NothingAhead /\ seen \in Nat
  BY DEF SequenceInv, RouterInv, TypeOK
<1>q. Queue \in Seq(Message)
  BY <1>t, ConcatProperties DEF Queue
<1>1. CASE phase = "decide" /\ UNCHANGED <<buf, net>>
  <2>1. Queue' = Queue /\ \A i \in DOMAIN Queue : Queue[i].name = "stray"
    BY <1>t, <1>1, NothingAheadIs DEF Queue
  <2> QED
    BY <2>1
<1>2. CASE phase = "answer" /\ (UNCHANGED <<buf, net>> \/ Fill)
  <2>1. Queue' = Queue
    BY <1>t, <1>2, QueueFilled DEF Queue
  <2>3. CASE ~ClientRead
    BY <1>2, <1>t, <2>1, <2>3, ClientMoves, NothingAheadIs
  <2>4. CASE ClientRead
    BY <1>2, <1>t, <2>1, <2>4, ReadsWhen, NothingAheadIs
  <2> QED
    BY <2>3, <2>4
<1>3. CASE phase = "answer" /\ ClientStray
  <2>1. PICK add \in Seq(Message) :
             /\ net' = net \o add /\ UNCHANGED <<buf, seen>>
             /\ \A i \in DOMAIN add : add[i].name = "stray"
    BY <1>3, StraySaid
  <2>2. \A i \in DOMAIN Queue' :
            \/ i \in DOMAIN Queue /\ Queue'[i] = Queue[i]
            \/ \E j \in DOMAIN add : Queue'[i] = add[j]
    BY <2>1, <1>t, QueueSaid
  <2>3. \A i \in DOMAIN Queue' :
            \/ i \in DOMAIN Queue /\ Queue'[i] = Queue[i]
            \/ Queue'[i].name = "stray"
    BY <2>1, <2>2
  <2> QED
    BY <1>3, <1>t, <2>1, <2>3, NothingAheadIs
<1>4. CASE phase = "answer" /\ ClientRead
  <2>1. seen = 0 /\ seen' = 1
    BY <1>4, ReadsWhen
  <2>2. PICK add \in Seq(Message) :
             net' = net \o add /\ UNCHANGED buf /\ Len(add) \in {0, 1}
    BY <1>4, Said
  <2>3. Queue' = Queue \o add
    BY <1>t, <2>2, QueueSaid
  <2>4. \A i \in DOMAIN Queue : Queue[i].name = "stray"
    BY <1>4, <1>t, <2>1, NothingAheadIs
  <2>5. ASSUME NEW i \in DOMAIN Queue', NEW j \in DOMAIN Queue', i < j
        PROVE  Queue'[i].name = "stray"
    <3> HIDE DEF Queue
    <3>1. Queue \o add \in Seq(Message) /\ Len(Queue \o add) = Len(Queue) + Len(add)
      BY <1>q, ConcatProperties
    <3>2. Len(Queue) \in Nat /\ i \in Nat \ {0} /\ j \in Nat /\ j <= Len(Queue) + 1
      <4>1. Len(Queue) \in Nat /\ Len(add) <= 1 /\ Len(add) \in Nat
        BY <1>q, <2>2
      <4>2. i \in 1..(Len(Queue) + Len(add)) /\ j \in 1..(Len(Queue) + Len(add))
        BY <2>3, <2>5, <3>1, <4>1
      <4> QED
        BY <4>1, <4>2
    <3>3. i \in 1..Len(Queue) /\ i \in DOMAIN Queue
      BY <1>q, <2>5, <3>2
    <3>4. (Queue \o add)[i] = Queue[i]
      BY <1>q, <3>3, ConcatProperties
    <3> QED
      BY <2>3, <2>4, <3>3, <3>4
  <2> QED
    BY <2>1, <2>5
<1> QED
  BY <1>1, <1>2, <1>3, <1>4, Forward, StillPhase DEF Undecided

\* The first packets leave nothing but packets out of place behind them.
LEMMA NextAhead ==
    ASSUME RouterInv, SequenceInv, [Next]_vars
    PROVE  /\ phase' = "handshake" => StrayBehind(Queue', 2)
           /\ phase' \in {"statusRequest", "allow", "loginStart"} => StrayBehind(Queue', 1)
           /\ phase' = "decide" => StrayBehind(Queue', 0)
<1>t. net \in Seq(Message) /\ buf \in Seq(Message) /\ NothingAhead
  BY DEF SequenceInv
<1>s. ASSUME phase' = phase, phase \in {"handshake", "statusRequest"} \cup Preparing
      PROVE  UNCHANGED <<buf, net>> \/ Fill \/ ClientStray
  BY <1>s, StillPhase, ReadsWhen DEF Preparing, Undecided
<1>k. /\ \A k \in Nat : UNCHANGED <<buf, net>> \/ Fill \/ ClientStray =>
                            (StrayBehind(Queue, k) => StrayBehind(Queue', k))
      /\ \A k \in Nat : buf # <<>> /\ Consume =>
                            (StrayBehind(Queue, k + 1) => StrayBehind(Queue', k))
  BY StrayBehindMoves
<1>d. phase = "decide" => StrayBehind(Queue, 0)
  BY <1>t, AllStray, NothingAheadIs DEF Queue
<1>1. ASSUME phase' = "handshake" PROVE StrayBehind(Queue', 2)
  BY <1>1, <1>s, <1>k, <1>t, Forward, NothingAheadIs
<1>2. ASSUME phase' \in {"statusRequest", "allow", "loginStart"} PROVE StrayBehind(Queue', 1)
  <2>1. CASE phase' = phase
    BY <1>2, <2>1, <1>s, <1>k, <1>t, NothingAheadIs DEF Preparing
  <2>2. CASE phase = "handshake" /\ buf # <<>> /\ Consume
    <3>1. StrayBehind(Queue, 1 + 1)
      BY <1>t, <2>2, NothingAheadIs
    <3> QED
      BY <2>2, <3>1, <1>k
  <2>3. CASE phase = "allow" /\ UNCHANGED <<buf, net>>
    BY <2>3, <1>k, <1>t, NothingAheadIs
  <2> QED
    BY <1>2, <2>1, <2>2, <2>3, Forward
<1>3. ASSUME phase' = "decide" PROVE StrayBehind(Queue', 0)
  <2>1. CASE phase' = phase
    BY <1>3, <2>1, <1>s, <1>k, <1>d DEF Preparing
  <2>2. CASE phase = "loginStart" /\ buf # <<>> /\ Consume
    <3>1. StrayBehind(Queue, 0 + 1)
      BY <1>t, <2>2, NothingAheadIs
    <3> QED
      BY <2>2, <3>1, <1>k
  <2> QED
    BY <1>3, <2>1, <2>2, Forward
<1> QED
  BY <1>1, <1>2, <1>3

\* The buffer of a reader that is given up holds packets out of place only.
LEMMA NextBuffer ==
    ASSUME RouterInv, SequenceInv, [Next]_vars,
           phase' \in {"verify", "dispatch"} \/ (phase' = "adapter" /\ ~Configures')
    PROVE  \A i \in DOMAIN buf' : buf'[i].name = "stray"
<1>t. /\ net \in Seq(Message) /\ buf \in Seq(Message) /\ NothingAhead /\ InSequence
      /\ steps \in Seq(StepSet)
  BY DEF SequenceInv, RouterInv
<1>0. \A i \in DOMAIN <<>> : <<>>[i].name = "stray"
  OBVIOUS
<1>1. ASSUME phase = "decide" PROVE \A i \in DOMAIN buf : buf[i].name = "stray"
  <2>1. \A i \in DOMAIN buf : i \in DOMAIN Queue /\ Queue[i] = buf[i]
    <3>1. /\ Len(buf) \in Nat /\ Len(net) \in Nat /\ DOMAIN buf = 1..Len(buf)
          /\ Queue \in Seq(Message) /\ Len(Queue) = Len(buf) + Len(net)
          /\ \A i \in 1..(Len(buf) + Len(net)) :
                 Queue[i] = IF i <= Len(buf) THEN buf[i] ELSE net[i - Len(buf)]
      BY <1>t, ConcatProperties DEF Queue
    <3> HIDE DEF Queue
    <3>2. DOMAIN Queue = 1..(Len(buf) + Len(net))
      BY <3>1
    <3> QED
      BY <3>1, <3>2
  <2> QED
    BY <1>1, <1>t, <2>1, NothingAheadIs
<1>2. CASE phase' = phase /\ phase \in {"verify", "dispatch"}
  <2>1. ~Fill
    BY <1>2 DEF Fill, Reads
  <2>2. buf' = buf
    BY <1>2, <2>1, StillPhase, Said, StraySaid DEF Undecided
  <2> QED
    BY <1>2, <1>t, <2>2, NothingAheadIs
<1>3. CASE phase' # phase
  <2>1. phase' = "adapter" => protocol' = protocol
    BY Enters
  <2>2. \/ buf' = <<>>
        \/ UNCHANGED buf /\ phase \in {"decide", "verify", "dispatch"}
    BY <1>3, Forward
  <2> QED
    BY <1>0, <1>1, <1>t, <2>2, NothingAheadIs
<1>4. CASE phase' = phase /\ phase = "adapter" /\ ~Configures'
  <2>1. ~Configures
    BY <1>4, Enters DEF Configures
  <2>2. ~Fill
    <3>1. ASSUME Fill PROVE FALSE
      <4>1. steps # <<>> /\ steps[1].do = "read"
        BY <1>4, <3>1 DEF Fill, Reads
      <4>2. /\ Adapter(protocol) # "none" /\ Done + 1 \in 1..Len(Steps(protocol))
            /\ steps[1] = Steps(protocol)[Done + 1]
        BY <1>4, <4>1, Advance
      <4> QED
        BY <2>1, <4>1, <4>2, PlanTurns DEF Configures
    <3> QED
      BY <3>1
  <2>3. \A i \in DOMAIN buf : buf[i].name = "stray"
    BY <1>4, <1>t, <2>1, NothingAheadIs
  <2>4. CASE buf # <<>> /\ Consume
    BY <1>t, <2>3, <2>4, QueueRead
  <2>5. CASE buf' = buf
    BY <2>3, <2>5
  <2> QED
    BY <1>4, <2>2, <2>4, <2>5, QueueMoves, Said, StraySaid
<1> QED
  BY <1>2, <1>3, <1>4

LEMMA NextNothingAhead == RouterInv /\ SequenceInv /\ [Next]_vars => NothingAhead'
<1> SUFFICES ASSUME RouterInv, SequenceInv, [Next]_vars PROVE NothingAhead'
  OBVIOUS
<1>1. net' \in Seq(Message) /\ buf' \in Seq(Message)
  BY NextQueue
<1>2. ASSUME phase' = "decide" PROVE \A i \in DOMAIN Queue' : Queue'[i].name = "stray"
  <2>1. StrayBehind(Queue', 0)
    BY <1>2, NextAhead
  <2>2. (\A i \in DOMAIN (buf' \o net') : (buf' \o net')[i].name = "stray")
            <=> StrayBehind(buf' \o net', 0)
    BY <1>1, AllStray
  <2> QED
    BY <2>1, <2>2 DEF Queue
<1>3. /\ phase' = "handshake" => StrayBehind(Queue', 2)
      /\ phase' \in {"statusRequest", "allow", "loginStart"} => StrayBehind(Queue', 1)
  BY NextAhead
<1>4. phase' = "answer" =>
          /\ seen' = 0 => \A i \in DOMAIN Queue' : Queue'[i].name = "stray"
          /\ \A i, j \in DOMAIN Queue' : i < j => "stray" \in {Queue'[i].name, Queue'[j].name}
  BY NextAnswer
<1>5. phase' \in {"verify", "dispatch"} \/ (phase' = "adapter" /\ ~Configures') =>
          \A i \in DOMAIN buf' : buf'[i].name = "stray"
  BY NextBuffer
<1> QED
  BY <1>2, <1>3, <1>4, <1>5 DEF NothingAhead, StrayBehind

LEMMA NextNothingLost == RouterInv /\ SequenceInv /\ [Next]_vars => NothingLost'
<1> SUFFICES ASSUME RouterInv, SequenceInv, [Next]_vars PROVE NothingLost'
  OBVIOUS
<1>t. /\ net \in Seq(Message) /\ buf \in Seq(Message) /\ NothingAhead
      /\ lost \subseteq {"stray"}
  BY DEF SequenceInv, NothingLost
<1>1. CASE UNCHANGED lost
  BY <1>1, <1>t DEF NothingLost
<1>2. CASE phase = "answer" /\ Next1("good") /\ FreshReader(Tail(buf))
  <2>1. buf # <<>> /\ buf[1].name = "good"
    BY <1>2 DEF Next1, Msg
  <2>2. \A i \in DOMAIN buf : i \in DOMAIN Queue /\ Queue[i] = buf[i]
    <3>1. /\ Len(buf) \in Nat /\ Len(net) \in Nat /\ DOMAIN buf = 1..Len(buf)
          /\ Queue \in Seq(Message) /\ Len(Queue) = Len(buf) + Len(net)
          /\ \A i \in 1..(Len(buf) + Len(net)) :
                 Queue[i] = IF i <= Len(buf) THEN buf[i] ELSE net[i - Len(buf)]
      BY <1>t, ConcatProperties DEF Queue
    <3> HIDE DEF Queue
    <3>2. DOMAIN Queue = 1..(Len(buf) + Len(net))
      BY <3>1
    <3> QED
      BY <3>1, <3>2
  <2>3. \A i, j \in DOMAIN Queue : i < j => "stray" \in {Queue[i].name, Queue[j].name}
    BY <1>2, <1>t, NothingAheadIs
  <2>4. ASSUME NEW i \in DOMAIN Tail(buf) PROVE Tail(buf)[i].name = "stray"
    <3>1. i + 1 \in DOMAIN buf /\ Tail(buf)[i] = buf[i + 1]
      BY <1>t, <2>1, <2>4, TakeFirst
    <3>2. 1 \in DOMAIN buf /\ i \in Nat \ {0}
      BY <1>t, <2>1, <2>4
    <3>3. 1 < i + 1
      BY <3>2
    <3>4. "stray" \in {buf[1].name, buf[i + 1].name}
      BY <2>2, <2>3, <3>1, <3>2, <3>3
    <3> QED
      BY <2>1, <3>1, <3>4
  <2> QED
    BY <1>2, <1>t, <2>4 DEF FreshReader, NothingLost
<1>3. CASE phase = "adapter" /\ ~Configures /\ FreshReader(buf)
  <2>1. \A i \in DOMAIN buf : buf[i].name = "stray"
    BY <1>3, <1>t, NothingAheadIs
  <2> QED
    BY <1>3, <1>t, <2>1 DEF FreshReader, NothingLost
<1> QED
  BY <1>1, <1>2, <1>3, QueueMoves, StraySaid, Said DEF Fill, Consume

LEMMA NextAdapterComplete == RouterInv /\ SequenceInv /\ [Next]_vars => AdapterComplete'
<1> SUFFICES ASSUME RouterInv, SequenceInv, [Next]_vars PROVE AdapterComplete'
  OBVIOUS
<1>1. phase # "missingPacket"
  BY DEF SequenceInv, AdapterComplete
<1>2. CASE out' = out
  BY <1>1, <1>2, Moves DEF Move, AdapterComplete
<1>3. CASE out' # out
  BY <1>3, Written1 DEF AdapterComplete
<1> QED
  BY <1>2, <1>3

-----------------------------------------------------------------------------
(***************************************************************************)
(* The invariant holds, and what it implies.                               *)
(***************************************************************************)

LEMMA InitSequence == Init => SequenceInv
<1> SUFFICES ASSUME Init PROVE SequenceInv
  OBVIOUS
<1>0. /\ phase = "handshake" /\ out = <<>> /\ seen = 0 /\ sealed = FALSE /\ ckey = FALSE
      /\ cstate = next /\ buf = <<>> /\ lost = {}
  BY DEF Init
<1>1. Names = {}
  BY <1>0 DEF Names
<1>2. Exchange
  BY <1>0, <1>1 DEF Exchange, Preparing, LoginPhases
<1>3. KeyFollows
  <2>1. ~Asked
    BY <1>1 DEF Asked
  <2>2. (Asked /\ seen > 0) = FALSE
    BY <2>1
  <2>3. \A i \in DOMAIN out : FALSE
    BY <1>0
  <2> QED
    BY <1>0, <2>2, <2>3 DEF KeyFollows, Undecided
<1>4. ClientFollows
  <2>1. {out[i].name : i \in 1..0} = {}
    OBVIOUS
  <2>2. StateAfter(0) = next
    BY <2>1 DEF StateAfter
  <2> QED
    BY <1>0, <2>2 DEF ClientFollows
<1>5. InSequence
  BY <1>0 DEF InSequence
<1> DEFINE m1 == Msg("handshake", FALSE)
           m2 == Msg(IF next = "status" THEN "status_request" ELSE "login_start", FALSE)
<1>6. /\ m1 \in Message /\ m2 \in Message
      /\ m1.name # "finish_configuration" /\ m2.name # "finish_configuration"
  BY DEF Msg, Message, MessageNames
<1>7. net = <<m1, m2>>
  BY DEF Init
<1> HIDE DEF m1, m2
<1>8. net \in Seq(Message) /\ buf \in Seq(Message) /\ Len(net) = 2 /\ DOMAIN net = 1..2
  BY <1>0, <1>6, <1>7
<1>9. Acknowledged
  <2>1. \A i \in DOMAIN net : net[i].name # "finish_configuration"
    BY <1>6, <1>7
  <2> QED
    BY <1>0, <2>1 DEF Acknowledged
<1>10. NothingAhead
  <2>1. Queue = net
    BY <1>0, <1>8, ConcatEmptySeq DEF Queue
  <2>2. \A i \in DOMAIN Queue : ~(i > 2)
    BY <1>8, <2>1
  <2> QED
    BY <1>0, <2>2 DEF NothingAhead
<1> QED
  BY <1>0, <1>2, <1>3, <1>4, <1>5, <1>8, <1>9, <1>10
  DEF SequenceInv, NothingLost, AdapterComplete

LEMMA NextSequence == RouterInv /\ SequenceInv /\ [Next]_vars => SequenceInv'
BY NextExchange, NextKeyFollows, NextFollows, NextInSequence, NextAcknowledged,
   NextNothingAhead, NextNothingLost, NextAdapterComplete, NextQueue DEF SequenceInv

LEMMA Sequence == Spec => [](RouterInv /\ SequenceInv)
<1>1. Init => RouterInv /\ SequenceInv
  BY InitRouter, InitSequence
<1>2. RouterInv /\ SequenceInv /\ [Next]_vars => (RouterInv /\ SequenceInv)'
  BY NextRouter, NextSequence
<1> QED
  BY <1>1, <1>2, PTL DEF Spec

LEMMA Agreement == RouterInv /\ SequenceInv => StatesAgree
<1> SUFFICES ASSUME RouterInv, SequenceInv, seen < Len(out), cstate # "gone"
             PROVE  LET f == out[seen + 1]
                    IN  /\ f.state = cstate
                        /\ f.sealed = ckey \/ (f.name = "disconnect" /\ ~sealed)
  BY DEF StatesAgree
<1>1. seen \in Nat /\ seen + 1 \in DOMAIN out /\ seen + 1 - 1 = seen /\ (seen + 1 > 1 <=> seen > 0)
  BY DEF RouterInv, TypeOK
<1>2. out[seen + 1].state = StateAfter(seen + 1 - 1) /\ cstate = StateAfter(seen)
  BY <1>1 DEF SequenceInv, ClientFollows
<1>3. /\ ckey = (Asked /\ seen > 0)
      /\ \/ out[seen + 1].sealed = (Asked /\ seen + 1 > 1)
         \/ out[seen + 1].name = "disconnect" /\ ~sealed
  BY <1>1 DEF SequenceInv, KeyFollows
<1> QED
  BY <1>1, <1>2, <1>3

LEMMA Joined == RouterInv /\ SequenceInv => JoinEventAfterSequence
<1> SUFFICES ASSUME RouterInv, SequenceInv, phase = "play"
             PROVE  /\ Precedes("success", "login")
                    /\ Precedes("login", "position")
                    /\ Precedes("position", "map_chunk")
                    /\ timed => /\ Precedes("position", "update_time")
                                /\ Precedes("update_time", "map_chunk")
                    /\ Configures => cstate \in {"play", "gone"}
  BY DEF JoinEventAfterSequence
<1> DEFINE P == Steps(protocol)
<1>1. InSequence /\ Acknowledged
  BY DEF SequenceInv
<1>2. Adapter(protocol) # "none" /\ steps = <<>>
  BY <1>1 DEF InSequence
<1>3. /\ Len(P) \in Nat /\ Len(P) >= 7 /\ P[1] = W("success")
      /\ Configures => Len(P) = 16
  BY <1>2, PlanTurns DEF Configures
<1>4. Done = Len(P)
  BY <1>2, <1>3 DEF Done
<1>5. \A i \in 1..Len(P) : \A j \in 1..(i - 1) :
          Certain(P[i]) /\ Certain(P[j]) => Precedes(P[j].name, P[i].name)
  BY <1>1, <1>4 DEF InSequence
<1>6. \E l, o, t, m \in 2..Len(P) :
          /\ l < o /\ o < t /\ t < m
          /\ P[l] = W("login") /\ P[o] = W("position")
          /\ P[t] = Time /\ P[m] = W("map_chunk")
  BY <1>2, PlanOrder
<1> HIDE DEF P
<1>7. PICK l \in 2..Len(P), o \in 2..Len(P), t \in 2..Len(P), m \in 2..Len(P) :
          /\ l < o /\ o < t /\ t < m
          /\ P[l] = W("login") /\ P[o] = W("position")
          /\ P[t] = Time /\ P[m] = W("map_chunk")
  BY <1>6
<1>8. /\ \A name : Certain(W(name)) /\ W(name).name = name
      /\ timed => Certain(Time)
      /\ Time.name = "update_time"
  BY DEF Certain, W, Time
<1>9. /\ 1 \in 1..(l - 1) /\ l \in 1..(o - 1) /\ o \in 1..(m - 1)
      /\ o \in 1..(t - 1) /\ t \in 1..(m - 1)
      /\ l \in 1..Len(P) /\ o \in 1..Len(P) /\ t \in 1..Len(P) /\ m \in 1..Len(P)
  BY <1>3, <1>7
<1>10. Precedes("success", "login") /\ Precedes("login", "position")
  BY <1>3, <1>5, <1>7, <1>8, <1>9
<1>11. Precedes("position", "map_chunk")
  BY <1>5, <1>7, <1>8, <1>9
<1>12. timed => Precedes("position", "update_time") /\ Precedes("update_time", "map_chunk")
  BY <1>5, <1>7, <1>8, <1>9
<1>13. Configures => cstate \in {"play", "gone"}
  BY <1>1, <1>3, <1>4 DEF Acknowledged
<1> QED
  BY <1>10, <1>11, <1>12, <1>13

\* Whatever the protocol, the login mode and the interleaving of the client's
\* reads with the server's writes, a packet reaches a client that is in the
\* packet's protocol state and decrypts exactly if it was encrypted: the
\* success packet behind encryption_begin, the adapter's packets behind the
\* client's acknowledgements (performOnlineSessionAuth, serveModernProtocol).
THEOREM BothEndsAgree == Spec => []StatesAgree
BY Sequence, Agreement, PTL

\* Whatever the adapter, when servePlayEvents hands out the join the client has
\* been sent all that puts it into the world, in order, and one that is
\* configured has acknowledged that.
THEOREM JoinAfterSequence == Spec => []JoinEventAfterSequence
BY Sequence, Joined, PTL

\* Whatever part of what the client sends a reader had taken when it was given
\* up (the plain connection's in performOnlineSessionAuth, the login's in
\* servePlayEvents), no packet sent in its place was in it.
THEOREM NoPacketLost == Spec => []NothingLost
<1>1. RouterInv /\ SequenceInv => NothingLost
  BY DEF SequenceInv
<1> QED
  BY <1>1, Sequence, PTL

\* Every packet an adapter needs is in the table of every protocol the adapter
\* serves, aliases included (adapterForProtocol, packetid.ClientboundID).
THEOREM AdaptersComplete == Spec => []AdapterComplete
<1>1. RouterInv /\ SequenceInv => AdapterComplete
  BY DEF SequenceInv
<1> QED
  BY <1>1, Sequence, PTL

=============================================================================
