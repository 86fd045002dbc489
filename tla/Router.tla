-------------------------------- MODULE Router --------------------------------
(***************************************************************************)
(* One connection in Router.ServeConn (router.go): status, or login with   *)
(* the session authentication of session_auth.go and the adapter's         *)
(* sequence of LoginSequence, up to the first callback of servePlayEvents. *)
(* On the other end a client that follows the protocol, except that it may *)
(* answer the encryption request in any way, send one packet out of place  *)
(* and leave.  The application's policies, verifier and resolvers return   *)
(* anything their interfaces allow; it may replace the registry data in    *)
(* its registrydata.Store at any time.                                     *)
(*                                                                         *)
(* A packet of the client reaches the server's socket (net), is taken from *)
(* there into the buffer of the bufio.Reader in use, in batches of any     *)
(* size, and is read from that buffer.  An adapter or the encrypted        *)
(* connection that starts a reader of its own leaves the old buffer behind.*)
(***************************************************************************)
EXTENDS LoginSequence

CONSTANTS Protocols,    \* protocol numbers clients may announce
          Modes,        \* login modes the application may choose
          Answers,      \* what a client may answer an encryption request with
          MaxVersion,   \* bound on the updates of the registry data
          MaxStray      \* bound on the packets sent out of place

ASSUME RouterAssumption ==
    /\ Protocols \subseteq Int
    /\ Modes \subseteq {"empty", "offline", "online", "hybrid", "unknown"}
    /\ Answers \subseteq {"good", "badToken", "undecodable", "badKey"}
    /\ MaxVersion \in Nat \ {0} /\ MaxStray \in Nat

VARIABLES
    protocol,   \* protocol number of the handshake
    next,       \* next state of the handshake
    timed,      \* the world the player joins has a time of its own
    phase,      \* control state of ServeConn
    mode,       \* loginDecision.Mode
    verdict,    \* what the verifier returned
    player,     \* the limbgo.Player: its identity and Verified
    sealed,     \* conn is the encryptedConn
    steps,      \* what the adapter still has to do
    store,      \* version of the registry data in the Store
    snapshot,   \* version this connection was given
    out,        \* packets written, oldest first
    net,        \* client packets not yet taken by a reader
    buf,        \* client packets in the buffer of the current reader
    lost,       \* client packets in buffers that were left behind
    cstate,     \* the client: protocol state,
    ckey,       \* whether it encrypts,
    seen,       \* number of packets it has read,
    stray       \* number of packets it has sent out of place

vars == <<protocol, next, timed, phase, mode, verdict, player, sealed, steps,
          store, snapshot, out, net, buf, lost, cstate, ckey, seen, stray>>

client == <<cstate, ckey, seen, stray>>
choice == <<protocol, next, timed>>
auth == <<mode, verdict, player, sealed>>
registry == <<store, snapshot>>

NoPlayer == [id |-> "none", verified |-> FALSE]

\* A client packet; key tells whether it was sent encrypted.
Msg(name, key) == [name |-> name, key |-> key]

\* The client sends the handshake and the next packet without waiting.
Init ==
    /\ protocol \in Protocols
    /\ next \in {"status", "login", "other"}
    /\ timed \in BOOLEAN
    /\ phase = "handshake"
    /\ mode = "none"
    /\ verdict = "none"
    /\ player = NoPlayer
    /\ sealed = FALSE
    /\ steps = <<>>
    /\ store = 1
    /\ snapshot = 0
    /\ out = <<>>
    /\ net = <<Msg("handshake", FALSE),
               Msg(IF next = "status" THEN "status_request" ELSE "login_start", FALSE)>>
    /\ buf = <<>>
    /\ lost = {}
    /\ cstate = next
    /\ ckey = FALSE
    /\ seen = 0
    /\ stray = 0

-----------------------------------------------------------------------------
(***************************************************************************)
(* Reading and writing.                                                    *)
(***************************************************************************)

\* The phases in which ServeConn waits for a packet.
Reads ==
    \/ phase \in {"handshake", "statusRequest", "ping", "loginStart", "answer", "play"}
    \/ phase = "adapter" /\ steps # <<>> /\ steps[1].do = "read"

\* The reader in use takes what the socket holds, any part of it.
Fill ==
    /\ Reads
    /\ buf = <<>>
    /\ \E n \in 1..Len(net) :
           /\ buf' = SubSeq(net, 1, n)
           /\ net' = SubSeq(net, n + 1, Len(net))
    /\ UNCHANGED <<choice, phase, auth, steps, registry, out, lost, client>>

\* wire.ReadPacket yields a packet of this name; the key must be the one in use.
Next1(name) == buf # <<>> /\ buf[1] = Msg(name, sealed)

\* The packet is consumed by the reader in use.
Consume == buf' = Tail(buf) /\ UNCHANGED <<net, lost>>

\* A reader of its own for what follows: what was buffered is left behind.
FreshReader(left) ==
    /\ lost' = lost \cup {left[i].name : i \in DOMAIN left}
    /\ buf' = <<>>

Frame(name, key, version) ==
    [name |-> name, state |-> StateOf(name), sealed |-> key, version |-> version]

Send(name, version) == out' = Append(out, Frame(name, sealed, version))

\* The connection ends: ServeConn returns, with an error or not.
Close == phase' = "closed"

\* A packet that is not the awaited one, or does not decode.
Unexpected(name) ==
    /\ buf # <<>>
    /\ ~Next1(name)
    /\ ~(phase = "adapter" /\ name = "finish_configuration"
         /\ buf[1].name \in Ignorable /\ buf[1].key = sealed)
    /\ Close
    /\ Consume
    /\ UNCHANGED <<choice, auth, steps, registry, out, client>>

\* A read or a write fails because the client is gone.
ConnError ==
    /\ cstate = "gone"
    /\ phase \notin {"closed", "missingPacket"}
    /\ Close
    /\ UNCHANGED <<choice, auth, steps, registry, out, net, buf, lost, client>>

-----------------------------------------------------------------------------
(***************************************************************************)
(* ServeConn and serveStatus.                                              *)
(***************************************************************************)

ReadHandshake ==
    /\ phase = "handshake"
    /\ \/ /\ Next1("handshake")
          /\ phase' = CASE next = "status" -> "statusRequest"
                        [] next = "login"  -> "allow"
                        [] next = "other"  -> "closed"
          /\ Consume
          /\ UNCHANGED <<choice, auth, steps, registry, out, client>>
       \/ Unexpected("handshake")

\* The rate limiter denies the request, the status provider fails, or the
\* status is written.
ReadStatusRequest ==
    /\ phase = "statusRequest"
    /\ \/ /\ Next1("status_request")
          /\ Consume
          /\ \/ phase' = "ping" /\ Send("status_response", 0)
             \/ Close /\ UNCHANGED out
          /\ UNCHANGED <<choice, auth, steps, registry, client>>
       \/ Unexpected("status_request")

ReadPing ==
    /\ phase = "ping"
    /\ \/ /\ Next1("ping")
          /\ Consume
          /\ Send("pong", 0)
          /\ Close
          /\ UNCHANGED <<choice, auth, steps, registry, client>>
       \/ Unexpected("ping")

-----------------------------------------------------------------------------
(***************************************************************************)
(* serveLogin up to the adapter.                                           *)
(***************************************************************************)

\* allowProtocol: admitted; rejected with a reason for the client; failed.
AllowProtocol ==
    /\ phase = "allow"
    /\ \/ phase' = "loginStart" /\ UNCHANGED out
       \/ Close /\ Send("disconnect", 0)
       \/ Close /\ UNCHANGED out
    /\ UNCHANGED <<choice, auth, steps, registry, net, buf, lost, client>>

\* login_start has no ID for a protocol without a packet table.
ReadLoginStart ==
    /\ phase = "loginStart"
    /\ \/ /\ Next1("login_start") /\ protocol \in Known
          /\ Consume
          /\ phase' = "decide"
          /\ UNCHANGED <<choice, auth, steps, registry, out, client>>
       \/ /\ Next1("login_start") /\ protocol \notin Known
          /\ Consume
          /\ Close
          /\ UNCHANGED <<choice, auth, steps, registry, out, client>>
       \/ Unexpected("login_start")

\* OfflineLoginPlayer and OfflineLoginPlayerWithProfile.
Offline(id) == [id |-> id, verified |-> FALSE]

\* Mutant: an empty mode stays empty.
KeepMode(m) == m

\* normalizeLoginDecision: an empty mode is offline,
NormalMode(m) == IF m = "empty" THEN "offline" ELSE m

\* and only an offline decision keeps its profile (a claimed identity otherwise).
OfflineID(m, override) == IF override /\ m = "offline" THEN "override" ELSE "claimed"

\* resolveLoginDecision: the policies or the configured mode decide, or fail.
\* For online and hybrid modes performOnlineSessionAuth starts.
Decide ==
    /\ phase = "decide"
    /\ \/ /\ Close
          /\ UNCHANGED <<mode, player, out>>
       \/ \E chosen \in Modes, override \in BOOLEAN :
            LET m == NormalMode(chosen)
            IN
              /\ mode' = m
              /\ player' = Offline(OfflineID(m, override))
              /\ \/ m = "offline" /\ phase' = "dispatch" /\ UNCHANGED out
                 \/ m \in {"online", "hybrid"} /\ phase' = "answer"
                    /\ Send("encryption_begin", 0)
                 \/ m \notin {"offline", "online", "hybrid"} /\ Close /\ UNCHANGED out
    /\ UNCHANGED <<choice, verdict, sealed, steps, registry, net, buf, lost, client>>

\* Mutant: hybrid mode falls back whatever the verifier's error was.
FallBackOnAnyError(err, authConn) == mode = "hybrid" /\ authConn

\* Hybrid mode goes on as an offline player only after ErrInvalidLogin from the
\* verifier, with the encrypted connection in place.
FallsBack(err, authConn) == mode = "hybrid" /\ err = "invalid" /\ authConn

\* Mutant: the reason goes to the connection serveLogin was called with.
PlainDisconnectConn(authConn) == FALSE

\* loginDisconnectConn: the encrypted connection if there is one.
loginDisconnectConn(authConn) == authConn

\* readEncryptionResponse and the comparison of the tokens: a wrong token is
\* ErrInvalidLogin, and "badToken" also stands for the other answer that is,
\* one with trailing bytes.
AnswerError(name) == IF name = "badToken" THEN "invalid" ELSE "other"

\* performOnlineSessionAuth has failed.
AuthFailed(err, authConn) ==
    IF FallsBack(err, authConn)
    THEN phase' = "dispatch" /\ UNCHANGED out
    ELSE /\ Close
         /\ out' = Append(out, Frame("disconnect", loginDisconnectConn(authConn), 0))

\* The encryption_begin response, named for what is in it: decrypted, compared
\* with the token, and the encrypted connection made.
ReadAnswer ==
    /\ phase = "answer"
    /\ \/ /\ Next1("good")
          /\ sealed' = TRUE
          /\ FreshReader(Tail(buf))
          /\ phase' = "verify"
          /\ UNCHANGED <<choice, mode, verdict, player, steps, registry, out, net, client>>
       \/ /\ buf # <<>> /\ ~Next1("good")
          /\ AuthFailed(IF buf[1].key THEN "other" ELSE AnswerError(buf[1].name), FALSE)
          /\ Consume
          /\ UNCHANGED <<choice, auth, steps, registry, client>>

\* What a verifier says: a profile, complete and verified or not; that the
\* session is invalid; or that it could not be asked.
Verdicts == {"ok", "incomplete", "invalid", "unavailable"}

\* VerifiedLoginPlayer.
Verified == [id |-> "profile", verified |-> TRUE]

\* VerifySession returns; an incomplete or unverified profile is invalid.
Verify ==
    /\ phase = "verify"
    /\ \E v \in Verdicts :
           /\ verdict' = v
           /\ \/ /\ v = "ok"
                 /\ player' = Verified
                 /\ phase' = "dispatch"
                 /\ UNCHANGED out
              \/ /\ v # "ok"
                 /\ AuthFailed(IF v = "unavailable" THEN "other" ELSE "invalid", TRUE)
                 /\ UNCHANGED player
    /\ UNCHANGED <<choice, mode, sealed, steps, registry, net, buf, lost, client>>

\* The adapter is chosen, the registry data taken (or not available), and the
\* join resolved (or refused by the application).
Dispatch ==
    /\ phase = "dispatch"
    /\ \/ /\ Adapter(protocol) = "none"
          /\ Close
          /\ Send("disconnect", 0)
          /\ UNCHANGED <<steps, snapshot>>
       \/ /\ Adapter(protocol) # "none"
          /\ phase' = "adapter"
          /\ steps' = Steps(protocol)
          /\ snapshot' = IF UsesRegistry(protocol) THEN store ELSE 0
          /\ UNCHANGED out
       \/ /\ Adapter(protocol) # "none"
          /\ Close
          /\ UNCHANGED <<steps, snapshot, out>>
    /\ UNCHANGED <<choice, auth, store, net, buf, lost, client>>

-----------------------------------------------------------------------------
(***************************************************************************)
(* The adapter.                                                            *)
(***************************************************************************)

\* Mutant: the registry data is looked up again for every packet.
CurrentVersion(name) == IF Carries(protocol, name) THEN store ELSE 0

\* The registry data a packet is made from: that of the connection's snapshot.
VersionFor(name) == IF Carries(protocol, name) THEN snapshot ELSE 0

Write ==
    /\ phase = "adapter" /\ steps # <<>> /\ steps[1].do \in {"write", "option", "time"}
    /\ LET s == steps[1]
           exists == Has(Written, protocol, s.name)
           skip == ~exists \/ (s.do = "time" /\ ~timed)
       IN  \/ /\ exists /\ ~skip
              /\ Send(s.name, VersionFor(s.name))
              /\ steps' = Tail(steps)
              /\ UNCHANGED phase
           \/ /\ s.do \in {"option", "time"} /\ skip
              /\ steps' = Tail(steps)
              /\ UNCHANGED <<phase, out>>
           \/ /\ s.do = "write" /\ ~exists
              /\ phase' = "missingPacket"
              /\ UNCHANGED <<steps, out>>
           \/ /\ MayFail(protocol, s.name)
              /\ Close
              /\ UNCHANGED <<steps, out>>
    /\ UNCHANGED <<choice, auth, registry, net, buf, lost, client>>

\* world.Chunk has the spawn chunk or not.
FindChunk ==
    /\ phase = "adapter" /\ steps # <<>> /\ steps[1].do = "chunk"
    /\ \/ steps' = Tail(steps) /\ UNCHANGED phase
       \/ Close /\ UNCHANGED steps
    /\ UNCHANGED <<choice, auth, registry, out, net, buf, lost, client>>

\* Mutant: the acknowledgement of the configuration is not awaited.
AwaitNothing == steps[1].name = "finish_configuration" \/ Next1(steps[1].name)

Awaited == Next1(steps[1].name)

\* login_acknowledged, or waitForFinishConfigurationModern, which skips what a
\* client may send while it is configured.
Await ==
    /\ phase = "adapter" /\ steps # <<>> /\ steps[1].do = "read"
    /\ \/ /\ Awaited
          /\ steps' = Tail(steps)
          /\ buf' = IF Next1(steps[1].name) THEN Tail(buf) ELSE buf
          /\ UNCHANGED <<choice, phase, auth, registry, out, net, lost, client>>
       \/ /\ steps[1].name = "finish_configuration"
          /\ buf # <<>> /\ buf[1].name \in Ignorable /\ buf[1].key = sealed
          /\ Consume
          /\ UNCHANGED <<choice, phase, auth, steps, registry, out, client>>
       \/ Unexpected(steps[1].name)

\* Mutant: every adapter starts a reader of its own.
AlwaysOwnReader == TRUE

\* All adapters but the newest give servePlayEvents a new reader.
OwnReader == Adapter(protocol) # "configuration"

\* The adapter is done: servePlayEvents, which returns at once if the
\* application has no handler.
Play ==
    /\ phase = "adapter" /\ steps = <<>>
    /\ phase' \in {"play", "closed"}
    /\ IF OwnReader THEN FreshReader(buf) ELSE UNCHANGED <<lost, buf>>
    /\ UNCHANGED <<choice, auth, steps, registry, out, net, client>>

\* A packet read in play; what becomes of it is PlaySession's subject.
ReadPlay ==
    /\ phase = "play"
    /\ buf # <<>>
    /\ Consume
    /\ UNCHANGED <<choice, phase, auth, steps, registry, out, client>>

-----------------------------------------------------------------------------
(***************************************************************************)
(* The client and the application around the connection.                   *)
(***************************************************************************)

Say(names) == net' = net \o [i \in DOMAIN names |-> Msg(names[i], ckey)]

server == <<choice, phase, auth, steps, registry, out, buf, lost, stray>>

\* The client reads the next packet and answers as the protocol has it.
ClientRead ==
    /\ cstate # "gone"
    /\ seen < Len(out)
    /\ seen' = seen + 1
    /\ LET name == out[seen + 1].name
       IN  \/ /\ name = "encryption_begin"
              /\ \E a \in Answers : net' = Append(net, Msg(a, FALSE))
              /\ ckey' = TRUE
              /\ UNCHANGED cstate
           \/ /\ name = "success"
              /\ \/ /\ Adapter(protocol) = "configuration"
                    /\ cstate' = "configuration"
                    /\ \/ Say(<<"login_acknowledged">>)
                       \/ Say(<<"login_acknowledged", "settings">>)
                 \/ /\ Adapter(protocol) # "configuration"
                    /\ cstate' = "play"
                    /\ Say(<<"chat">>)
              /\ UNCHANGED ckey
           \/ /\ name = "finish_configuration"
              /\ cstate' = "play"
              /\ Say(<<"finish_configuration", "chat">>)
              /\ UNCHANGED ckey
           \/ /\ name = "status_response"
              /\ Say(<<"ping">>)
              /\ UNCHANGED <<cstate, ckey>>
           \/ /\ name \in {"disconnect", "pong"}
              /\ cstate' = "gone"
              /\ UNCHANGED <<net, ckey>>
           \/ /\ name \notin {"encryption_begin", "success", "finish_configuration",
                              "status_response", "disconnect", "pong"}
              /\ UNCHANGED <<cstate, net, ckey>>
    /\ UNCHANGED server

\* A packet out of place: sent early, or of the wrong kind.
ClientStray ==
    /\ cstate # "gone"
    /\ stray < MaxStray
    /\ stray' = stray + 1
    /\ Say(<<"stray">>)
    /\ UNCHANGED <<choice, phase, auth, steps, registry, out, buf, lost, cstate, ckey, seen>>

ClientLeave ==
    /\ cstate # "gone"
    /\ cstate' = "gone"
    /\ UNCHANGED <<choice, phase, auth, steps, registry, out, net, buf, lost, ckey, seen, stray>>

\* Store.Update.
UpdateStore ==
    /\ store < MaxVersion
    /\ store' = store + 1
    /\ UNCHANGED <<choice, phase, auth, steps, snapshot, out, net, buf, lost, client>>

\* The connection has ended.
Terminated == phase \in {"closed", "missingPacket"} /\ UNCHANGED vars

-----------------------------------------------------------------------------

Server ==
    \/ Fill \/ ConnError
    \/ ReadHandshake \/ ReadStatusRequest \/ ReadPing
    \/ AllowProtocol \/ ReadLoginStart \/ Decide \/ ReadAnswer \/ Verify \/ Dispatch
    \/ Write \/ FindChunk \/ Await \/ Play \/ ReadPlay

Next == Server \/ ClientRead \/ ClientStray \/ ClientLeave \/ UpdateStore \/ Terminated

Spec == Init /\ [][Next]_vars

\* The handler goroutine runs, callbacks return, and the client reads what it
\* is sent unless it leaves.  Without a client that answers, the login waits
\* for ever: no read has a deadline.
FairSpec == Spec /\ WF_vars(Server) /\ WF_vars(ClientRead)

-----------------------------------------------------------------------------
(***************************************************************************)
(* Properties.                                                             *)
(***************************************************************************)

TypeOK ==
    /\ next \in {"status", "login", "other"}
    /\ phase \in {"handshake", "statusRequest", "ping", "allow", "loginStart",
                  "decide", "answer", "verify", "dispatch", "adapter", "play",
                  "closed", "missingPacket"}
    /\ mode \in {"none", "offline", "online", "hybrid", "unknown"}
    /\ verdict \in Verdicts \cup {"none"}
    /\ player \in [id : {"none", "claimed", "override", "profile"}, verified : BOOLEAN]
    /\ sealed \in BOOLEAN /\ ckey \in BOOLEAN
    /\ store \in 1..MaxVersion /\ snapshot \in 0..MaxVersion
    /\ seen \in 0..Len(out)

Names == {out[i].name : i \in DOMAIN out}

Precedes(a, b) ==
    \E i, j \in DOMAIN out : i < j /\ out[i].name = a /\ out[j].name = b

\* The client is configured between login and play.
Configures == Adapter(protocol) = "configuration"

\* Every packet reaches a client that is in the packet's protocol state and
\* decrypts exactly when the packet is encrypted, however reads, writes and
\* configuration cross on the way.  (A client whose answer was bad is past
\* help: the reason it is given is not encrypted.)
StatesAgree ==
    seen < Len(out) /\ cstate # "gone" =>
        LET f == out[seen + 1]
        IN  /\ f.state = cstate
            /\ f.sealed = ckey \/ (f.name = "disconnect" /\ ~sealed)

\* The identity the player has is one the login mode allows.
Admitted ==
    /\ player.verified => verdict = "ok" /\ sealed
    /\ ~player.verified =>
           \/ mode = "offline"
           \/ mode = "hybrid" /\ sealed /\ verdict \in {"invalid", "incomplete"}
    /\ player.id = "override" => mode = "offline"

\* Nobody is let in as verified without the verifier's word on a connection
\* whose client proved it holds the key, nobody is let in unverified in online
\* mode, and hybrid mode falls back only when the verifier said the session is
\* invalid, not when it could not be asked.
IdentityEstablished == "success" \in Names => Admitted

\* No adapter ever needs a packet that its protocol's table does not have.
AdapterComplete == phase # "missingPacket"

\* When the first callback may run, everything the client needs to be in the
\* world is on its way, in order, and the client itself has moved (or will on
\* what it has been sent) to the play state.
JoinEventAfterSequence ==
    phase = "play" =>
        /\ Precedes("success", "login")
        /\ Precedes("login", "position")
        /\ Precedes("position", "map_chunk")
        /\ timed => Precedes("position", "update_time") /\ Precedes("update_time", "map_chunk")
        /\ Configures => cstate \in {"play", "gone"}

\* A connection is configured from one version of the registry data, whenever
\* the Store is updated: "Existing connections keep the Data snapshot they
\* already received" (store.go).
OneSnapshot ==
    \A i, j \in DOMAIN out :
        out[i].version # 0 /\ out[j].version # 0 => out[i].version = out[j].version

\* Nothing that a client sends in its place is left in a reader that is given
\* up, neither when the connection becomes encrypted nor when the adapter's own
\* reader takes over.
NothingLost == lost \subseteq {"stray"}

\* A login or status exchange with a client that does what it is asked never
\* gets stuck: it ends in play or the connection ends.
LoginEnds == <>(phase \in {"play", "closed"})

-----------------------------------------------------------------------------
(***************************************************************************)
(* The inductive invariant behind IdentityEstablished and OneSnapshot.     *)
(***************************************************************************)

PacketNames ==
    {"status_response", "pong", "disconnect", "encryption_begin", "success",
     "login_acknowledged", "registry_data", "tags", "finish_configuration",
     "login", "spawn_position", "position", "update_time", "chunk", "map_chunk",
     "update_light", "update_view_distance", "simulation_distance",
     "update_view_position", "chunk_batch_start", "chunk_batch_finished"}

FrameSet == [name : PacketNames, state : {"status", "login", "configuration", "play"},
             sealed : BOOLEAN, version : Nat]

StepSet == [do : {"write", "option", "time", "chunk", "read"}, name : PacketNames]

\* Before the adapter is chosen.
Undecided == {"handshake", "statusRequest", "ping", "allow", "loginStart",
              "decide", "answer", "verify", "dispatch"}

\* Nothing of the adapter's is written while the identity is undecided, an
\* authentication under way is that of an unverified player in a mode that
\* asks for it, and whoever reaches the adapter may be admitted.
RouterInv ==
    /\ TypeOK
    /\ out \in Seq(FrameSet) /\ steps \in Seq(StepSet)
    /\ phase \in Undecided =>
           \A i \in DOMAIN out : out[i].name # "success" /\ out[i].version = 0
    /\ phase \in {"answer", "verify"} =>
           /\ mode \in {"online", "hybrid"}
           /\ player.id = "claimed" /\ ~player.verified
    /\ phase = "verify" => sealed
    /\ phase \in {"dispatch", "adapter", "play", "missingPacket"} => Admitted
    /\ IdentityEstablished
    /\ \A i \in DOMAIN out : out[i].version \in {0, snapshot}

-----------------------------------------------------------------------------
(***************************************************************************)
(* The inductive invariant behind StatesAgree, JoinEventAfterSequence,     *)
(* NothingLost and AdapterComplete.                                        *)
(***************************************************************************)

\* The phases of a login that go on.
Preparing == {"allow", "loginStart", "decide"}
LoginPhases == Preparing \cup {"answer", "verify", "dispatch", "adapter", "play"}

\* What has been written, and in which phase of which exchange.
Exchange ==
    /\ phase \in {"handshake", "statusRequest"} \cup Preparing => out = <<>>
    /\ phase \in {"statusRequest", "ping"} => next = "status"
    /\ phase \in LoginPhases => next = "login"
    /\ phase = "ping" => Names \subseteq {"status_response"}
    /\ phase \in {"answer", "verify"} => Names = {"encryption_begin"}
    /\ phase = "dispatch" => Names \subseteq {"encryption_begin"}

\* The client was asked to encrypt, with the first packet it was sent.
Asked == "encryption_begin" \in Names

\* Behind that packet everything is encrypted, except the reason for the end
\* of a login whose answer was bad.
KeyFollows ==
    /\ ckey = (Asked /\ seen > 0)
    /\ \A i \in DOMAIN out :
           /\ out[i].name = "encryption_begin" => i = 1
           /\ \/ out[i].sealed = (Asked /\ i > 1)
              \/ out[i].name = "disconnect" /\ ~sealed /\ phase = "closed"
    /\ sealed => Asked
    /\ phase \in {"verify", "dispatch", "adapter", "play"} => sealed = Asked
    /\ phase \in Undecided \ {"verify", "dispatch"} => ~sealed

\* The state of a client that has read the first n packets.
StateAfter(n) ==
    LET read == {out[i].name : i \in 1..n}
    IN  IF "finish_configuration" \in read \/ ("success" \in read /\ ~Configures) THEN "play"
        ELSE IF "success" \in read THEN "configuration" ELSE next

ClientFollows ==
    /\ cstate \in {"gone", StateAfter(seen)}
    /\ \A i \in DOMAIN out :
           out[i].state = StateAfter(i - 1) /\ out[i].state = StateOf(out[i].name)

\* What the adapter has done of its sequence.
Done == Len(Steps(protocol)) - Len(steps)

\* The state its client will be in after the first n steps.
Stage(p, n) ==
    IF n = 0 THEN "login"
    ELSE IF Adapter(p) = "configuration" /\ n < 5 THEN "configuration" ELSE "play"

\* A step that writes its packet whatever the protocol.
Certain(s) == s.do = "write" \/ (s.do = "time" /\ timed)

\* The adapter goes through its sequence, and what it wrote is in that order.
InSequence ==
    phase \in {"adapter", "play"} =>
        /\ Adapter(protocol) # "none"
        /\ Done >= 0
        /\ \A i \in DOMAIN steps : steps[i] = Steps(protocol)[Done + i]
        /\ StateAfter(Len(out)) = Stage(protocol, Done)
        /\ \A i \in 1..Done :
               LET s == Steps(protocol)[i]
               IN  Certain(s) =>
                       /\ s.name \in Names
                       /\ \A j \in 1..(i - 1) :
                              Certain(Steps(protocol)[j]) =>
                                  Precedes(Steps(protocol)[j].name, s.name)
        /\ phase = "play" => steps = <<>>

\* A client that has acknowledged its configuration has left it.
Acknowledged ==
    /\ \A i \in DOMAIN buf : buf[i].name = "finish_configuration" => cstate \in {"play", "gone"}
    /\ \A i \in DOMAIN net : net[i].name = "finish_configuration" => cstate \in {"play", "gone"}
    /\ phase \in {"adapter", "play"} /\ Configures /\ Done >= 6 => cstate \in {"play", "gone"}

\* What the server has not read yet, in the order it was sent.
Queue == buf \o net

\* A client runs ahead of the server with the first packets only, and a reader
\* that is given up holds nothing but packets out of place.
NothingAhead ==
    /\ phase = "handshake" => \A i \in DOMAIN Queue : i > 2 => Queue[i].name = "stray"
    /\ phase \in {"statusRequest", "allow", "loginStart"} =>
           \A i \in DOMAIN Queue : i > 1 => Queue[i].name = "stray"
    /\ phase = "decide" \/ (phase = "answer" /\ seen = 0) =>
           \A i \in DOMAIN Queue : Queue[i].name = "stray"
    /\ phase = "answer" =>
           \A i, j \in DOMAIN Queue : i < j => "stray" \in {Queue[i].name, Queue[j].name}
    /\ phase \in {"verify", "dispatch"} \/ (phase = "adapter" /\ ~Configures) =>
           \A i \in DOMAIN buf : buf[i].name = "stray"

MessageNames ==
    Answers \cup {"handshake", "status_request", "ping", "login_start", "login_acknowledged",
                  "settings", "finish_configuration", "chat", "stray"}

Message == [name : MessageNames, key : BOOLEAN]

SequenceInv ==
    /\ Exchange /\ KeyFollows /\ ClientFollows /\ InSequence /\ Acknowledged /\ NothingAhead
    /\ NothingLost /\ AdapterComplete
    /\ net \in Seq(Message) /\ buf \in Seq(Message)

=============================================================================
