----------------------------- MODULE PlaySession -----------------------------
(***************************************************************************)
(* One player in the world (play_events.go): the handler goroutine in      *)
(* servePlayEvents, its keep-alive goroutine, and application goroutines   *)
(* that keep the PlayerSession and call its methods at any time.  What an  *)
(* operation writes on this protocol comes from PlayPackets.               *)
(*                                                                         *)
(* Every method holds s.mu from its first statement to its return, and a   *)
(* write may block in it; a frame is one step, so other goroutines run     *)
(* between two frames of an operation.                                     *)
(***************************************************************************)
EXTENDS PlayPackets

CONSTANTS Protocol,     \* the protocol number of this client
          Apps,         \* application goroutines
          Handler,      \* the goroutine of servePlayEvents
          KeepAlive,    \* the goroutine of keepAliveLoop
          Nobody,       \* holder of a free mutex
          AppOps,       \* operations the application performs
          Packs,        \* resource pack IDs
          NoPack,       \* the empty resource pack ID
          Uuid,         \* resourcePackProtocolUUID of an ID
          Hash,         \* the hash of a pack, NoKey if it has none
          NoKey,        \* the empty string in place of a uuid or hash
          MaxOps,       \* bound on the operations of one goroutine
          MaxPackets    \* bound on the packets the client sends

Callers == Apps \cup {Handler}

\* The strings a response can name a pack by.
Keys == ({Uuid[p] : p \in Packs} \cup {Hash[p] : p \in Packs}) \ {NoKey}

ASSUME PlaySessionAssumption ==
    /\ Protocol \in PlayProtocols
    /\ AppOps \subseteq Ops
    /\ NoPack \notin Packs
    /\ DOMAIN Uuid = Packs /\ DOMAIN Hash = Packs
    /\ \A p \in Packs : Uuid[p] # NoKey
    /\ Handler # KeepAlive /\ Nobody \notin Apps \cup {Handler, KeepAlive}
    /\ Apps \cap {Handler, KeepAlive} = {}
    /\ MaxOps \in Nat /\ MaxPackets \in Nat

VARIABLES
    lock,       \* the holder of s.mu
    closed,     \* s.closed
    connOpen,   \* the server's end of the connection is not closed
    peerOpen,   \* the client has not gone away
    wire,       \* frames written, oldest first
    inbox,      \* client packets the server has received and not yet read
    sent,       \* number of packets the client has sent
    packs,      \* s.resourcePacks: the IDs remembered
    protocolIDs,\* s.resourcePackProtocolIDs; NoPack where it has no key
    lastPack,   \* s.lastResourcePackID
    call,       \* call[g]: the operation of caller g
    handler,    \* control state of servePlayEvents
    response,   \* the pack a response being handled is about
    keep,       \* control state of keepAliveLoop
    stopped,    \* keepAliveCtx is cancelled
    report      \* the last response reported to the application: the pack
                \* it is about and the ID it is reported under (history)

vars == <<lock, closed, connOpen, peerOpen, wire, inbox, sent, packs,
          protocolIDs, lastPack, call, handler, response, keep, stopped, report>>

connVars == <<connOpen, peerOpen, wire, inbox, sent>>
packVars == <<packs, protocolIDs, lastPack>>
loopVars == <<handler, response, keep, stopped, report>>

\* A caller outside any method, n operations done.
Idle(n) == [at |-> "idle", op |-> Op("SendMessage", {}), pack |-> NoPack,
            left |-> <<>>, n |-> n]

Init ==
    /\ lock = Nobody
    /\ closed = FALSE
    /\ connOpen = TRUE
    /\ peerOpen = TRUE
    /\ wire = <<>>
    /\ inbox = <<>>
    /\ sent = 0
    /\ packs = {}
    /\ protocolIDs = [k \in Keys |-> NoPack]
    /\ lastPack = NoPack
    /\ call = [g \in Callers |-> Idle(0)]
    /\ handler = "callback"         \* in HandleJoin
    /\ response = NoPack
    /\ keep = "waiting"
    /\ stopped = FALSE
    /\ report = <<NoPack, NoPack>>

-----------------------------------------------------------------------------
(***************************************************************************)
(* The methods of playSession.                                             *)
(***************************************************************************)

PackOps == {"AddResourcePack", "RemoveResourcePack"}

\* A goroutine calls a method; the handler does so from its callbacks.
Begin(g, op, pack) ==
    /\ call[g].at = "idle"
    /\ call[g].n < MaxOps
    /\ g = Handler => handler = "callback"
    /\ (op.kind \in PackOps) = (pack # NoPack)
    /\ call' = [call EXCEPT ![g] =
                    [at |-> "locking", op |-> op, pack |-> pack,
                     left |-> <<>>, n |-> @.n + 1]]
    /\ UNCHANGED <<lock, closed, connVars, packVars, loopVars>>

\* Mutant: a method that does not take s.mu.
FreeOrNot == TRUE

Free == lock = Nobody

\* s.mu.Lock.  The frames to write are those of Outcome; an operation that is
\* refused has none.
Acquire(g) ==
    /\ call[g].at = "locking"
    /\ Free
    /\ lock' = g
    /\ call' = [call EXCEPT ![g].at = "writing",
                            ![g].left = Outcome(Protocol, call[g].op).frames]
    /\ UNCHANGED <<closed, connVars, packVars, loopVars>>

\* One wire.WritePacket that succeeds: it needs a connection that is not closed
\* at this end (what a client that has left does not receive may be accepted).
Write(g) ==
    /\ call[g].at = "writing"
    /\ call[g].left # <<>>
    /\ connOpen
    /\ wire' = Append(wire, [by |-> g, n |-> call[g].n, pack |-> call[g].pack,
                             packet |-> Head(call[g].left).packet])
    /\ call' = [call EXCEPT ![g].left = Tail(@)]
    /\ UNCHANGED <<lock, closed, connOpen, peerOpen, inbox, sent, packVars, loopVars>>

\* The keys a pack is entered under: its uuid and its hash, if it has one.
KeysOf(id) == {Uuid[id], Hash[id]} \ {NoKey}

\* Mutant: the pack is remembered under its hash only.
RememberHashOnly(id) ==
    /\ packs' = packs \cup {id}
    /\ protocolIDs' = [k \in Keys |-> IF k = Hash[id] THEN id ELSE protocolIDs[k]]
    /\ lastPack' = id

\* rememberResourcePack.
Remember(id) ==
    /\ packs' = packs \cup {id}
    /\ protocolIDs' = [k \in Keys \cup KeysOf(id) |->
                        IF k \in KeysOf(id) THEN id ELSE protocolIDs[k]]
    /\ lastPack' = id

\* forgetResourcePack: the hash is known only of a pack that is remembered; the
\* last pack becomes any remaining one.
Forget(id) ==
    LET gone == IF id \in packs THEN KeysOf(id) ELSE {Uuid[id]}
    IN  /\ packs' = packs \ {id}
        /\ protocolIDs' = [k \in Keys |-> IF k \in gone THEN NoPack ELSE protocolIDs[k]]
        /\ IF packs' = {} THEN lastPack' = NoPack ELSE lastPack' \in packs'

\* What a method does when its writes have succeeded (ok) or failed.
AfterWrite(g, ok) ==
    CASE call[g].op.kind = "AddResourcePack" /\ ok -> Remember(call[g].pack)
      [] call[g].op.kind = "RemoveResourcePack" /\ ok -> Forget(call[g].pack)
      [] OTHER -> UNCHANGED packVars

\* Disconnect: the session is closed whatever became of the packet.
CloseIfDisconnect(g) ==
    IF call[g].op.kind = "Disconnect"
    THEN closed' = TRUE /\ connOpen' = FALSE
    ELSE UNCHANGED <<closed, connOpen>>

\* The end of a method and the deferred s.mu.Unlock: all frames are written and
\* the outcome is no error, or the operation is refused, or a write fails.
Finish(g) ==
    /\ call[g].at = "writing"
    /\ call[g].left = <<>> \/ ~connOpen \/ ~peerOpen
    /\ AfterWrite(g, call[g].left = <<>> /\ Outcome(Protocol, call[g].op).err = "none")
    /\ CloseIfDisconnect(g)
    /\ lock' = IF lock = g THEN Nobody ELSE lock
    /\ call' = [call EXCEPT ![g] = Idle(@.n)]
    /\ UNCHANGED <<peerOpen, wire, inbox, sent, loopVars>>

-----------------------------------------------------------------------------
(***************************************************************************)
(* servePlayEvents.                                                        *)
(***************************************************************************)

\* A callback returns nil, or an error that ends the session's handler.
CallbackReturn(failed) ==
    /\ handler = "callback"
    /\ call[Handler].at = "idle"
    /\ handler' = IF failed THEN "returned" ELSE "check"
    /\ UNCHANGED <<lock, closed, connVars, packVars, call, response, keep,
                   stopped, report>>

\* Mutant: the loop goes on, whether the session is closed or the read failed.
ReadNext == "read"

\* session.Closed() after a callback: the loop goes on or ends.
AfterClosed == IF closed THEN "returned" ELSE "read"

CheckClosed ==
    /\ handler = "check"
    /\ lock = Nobody
    /\ handler' = AfterClosed
    /\ UNCHANGED <<lock, closed, connVars, packVars, call, response, keep,
                   stopped, report>>

\* wire.ReadPacket returns a packet: handlePlayPacket report a response only
\* after it has looked the pack up, calls the application for other events, and
\* ignores everything else.  Data the reader has buffered can be read even
\* after the connection is closed.
Read ==
    /\ handler = "read"
    /\ inbox # <<>>
    /\ inbox' = Tail(inbox)
    /\ \/ /\ Head(inbox) \in Packs
          /\ handler' = "lookup"
          /\ response' = Head(inbox)
       \/ /\ Head(inbox) = "event"
          /\ handler' = "callback"
          /\ UNCHANGED response
       \/ /\ Head(inbox) = "other"
          /\ handler' = "check"
          /\ UNCHANGED response
    /\ UNCHANGED <<lock, closed, connOpen, peerOpen, wire, sent, packVars, call,
                   keep, stopped, report>>

\* isClosedPlayConnError tells a nil result from an error: both return.
AfterReadError == "returned"

\* wire.ReadPacket or a decoder fails, or the context is done.
ReadError ==
    /\ handler = "read"
    /\ handler' = AfterReadError
    /\ UNCHANGED <<lock, closed, connVars, packVars, call, response, keep,
                   stopped, report>>

\* What a response carries to name its pack.
Named(id) ==
    CASE PackIDMode(Protocol) = "hash" -> Hash[id]
      [] PackIDMode(Protocol) = "uuid" -> Uuid[id]
      [] PackIDMode(Protocol) = "none" -> NoKey

\* Mutant: a name that is not mapped falls back on the last pack.
ReportedLast(id) ==
    IF Named(id) = NoKey \/ protocolIDs[Named(id)] = NoPack
    THEN lastPack ELSE protocolIDs[Named(id)]

\* The ID a response is reported under: the one its name is mapped to (NoPack
\* stands for the bare name itself, when it is not mapped), the last pack if
\* there is no name.
ReportedPack(id) ==
    IF Named(id) = NoKey THEN lastPack ELSE protocolIDs[Named(id)]

\* The rest of readResourcePackResponse, under s.mu, and the callback (an
\* application without one behaves like a callback that returns nil).
Lookup ==
    /\ handler = "lookup"
    /\ lock = Nobody
    /\ handler' = "callback"
    /\ response' = NoPack
    /\ report' = <<response, ReportedPack(response)>>
    /\ UNCHANGED <<lock, closed, connVars, packVars, call, keep, stopped>>

\* The deferred stopKeepAlive, and untrackConn of the server: conn.Close.
HandlerReturn ==
    /\ handler = "returned"
    /\ handler' = "done"
    /\ stopped' = TRUE
    /\ connOpen' = FALSE
    /\ UNCHANGED <<lock, closed, peerOpen, wire, inbox, sent, packVars, call,
                   response, keep, report>>

-----------------------------------------------------------------------------
(***************************************************************************)
(* keepAliveLoop and sendKeepAlive.                                        *)
(***************************************************************************)

\* select: the context is done, or the ticker fires.
KeepStop ==
    /\ keep = "waiting"
    /\ stopped
    /\ keep' = "done"
    /\ UNCHANGED <<lock, closed, connVars, packVars, call, handler, response,
                   stopped, report>>

\* The ticker fires and session.Closed() is asked.
KeepTick ==
    /\ keep = "waiting"
    /\ lock = Nobody
    /\ keep' = IF closed THEN "done" ELSE "locking"
    /\ UNCHANGED <<lock, closed, connVars, packVars, call, handler, response,
                   stopped, report>>

\* sendKeepAlive takes s.mu; the session may have been closed since the tick.
KeepAcquire ==
    /\ keep = "locking"
    /\ lock = Nobody
    /\ IF closed THEN keep' = "waiting" /\ UNCHANGED lock
                 ELSE keep' = "writing" /\ lock' = KeepAlive
    /\ UNCHANGED <<closed, connVars, packVars, call, handler, response, stopped,
                   report>>

\* The packet is written; frames of the ticker are not counted in wire unless
\* they would follow a kick, so that their number does not matter.
KeepWrite ==
    /\ keep = "writing"
    /\ connOpen
    /\ keep' = "waiting"
    /\ lock' = Nobody
    /\ wire' = IF wire # <<>> /\ wire[Len(wire)].packet = "kick_disconnect"
               THEN Append(wire, [by |-> KeepAlive, n |-> 0, pack |-> NoPack,
                                  packet |-> writeKeepAlive(Protocol).frames[1].packet])
               ELSE wire
    /\ UNCHANGED <<closed, connOpen, peerOpen, inbox, sent, packVars, call,
                   handler, response, stopped, report>>

\* The write fails: the session is closed and the goroutine ends.
KeepFail ==
    /\ keep = "writing"
    /\ ~connOpen \/ ~peerOpen
    /\ keep' = "done"
    /\ lock' = Nobody
    /\ closed' = TRUE
    /\ connOpen' = FALSE
    /\ UNCHANGED <<peerOpen, wire, inbox, sent, packVars, call, handler,
                   response, stopped, report>>

-----------------------------------------------------------------------------
(***************************************************************************)
(* The outside: the client and the server's Shutdown.                      *)
(***************************************************************************)

\* The packs the client was offered and not told to remove, as it read them.
Offered(w) ==
    {p \in Packs : \E i \in DOMAIN w :
        /\ w[i].pack = p
        /\ w[i].packet \in {"add_resource_pack", "resource_pack_send"}
        /\ \A j \in (i + 1)..Len(w) :
               ~(w[j].pack = p /\ w[j].packet = "remove_resource_pack")}

\* The client sends a chat, a packet of no interest, or the status of a pack
\* it was offered.
ClientSend(packet) ==
    /\ connOpen /\ peerOpen
    /\ sent < MaxPackets
    /\ packet \in {"event", "other"} \cup Offered(wire)
    /\ inbox' = Append(inbox, packet)
    /\ sent' = sent + 1
    /\ UNCHANGED <<lock, closed, connOpen, peerOpen, wire, packVars, call, loopVars>>

ClientLeave ==
    /\ peerOpen
    /\ peerOpen' = FALSE
    /\ UNCHANGED <<lock, closed, connOpen, wire, inbox, sent, packVars, call, loopVars>>

\* The context Serve was given is cancelled, and with it keepAliveCtx.
ContextDone ==
    /\ ~stopped
    /\ stopped' = TRUE
    /\ UNCHANGED <<lock, closed, connVars, packVars, call, handler, response,
                   keep, report>>

\* Shutdown closes the connection under the session.
ServerClose ==
    /\ connOpen
    /\ connOpen' = FALSE
    /\ UNCHANGED <<lock, closed, peerOpen, wire, inbox, sent, packVars, call, loopVars>>

-----------------------------------------------------------------------------

\* A method call once it has begun.
Proceed(g) == Acquire(g) \/ Write(g) \/ Finish(g)

HandlerStep ==
    \/ \E failed \in BOOLEAN : CallbackReturn(failed)
    \/ CheckClosed \/ Read \/ ReadError \/ Lookup \/ HandlerReturn

KeepStep == KeepStop \/ KeepTick \/ KeepAcquire \/ KeepWrite \/ KeepFail

\* Nothing is left to do once the session has ended.
Ended ==
    /\ handler = "done"
    /\ keep = "done"
    /\ \A g \in Callers : call[g].at = "idle"

Terminated == Ended /\ UNCHANGED vars

Next ==
    \/ \E g \in Callers :
           \/ \E op \in AppOps, pack \in Packs \cup {NoPack} : Begin(g, op, pack)
           \/ Proceed(g)
    \/ HandlerStep
    \/ KeepStep
    \/ \E packet \in {"event", "other"} \cup Packs : ClientSend(packet)
    \/ ClientLeave
    \/ ContextDone
    \/ ServerClose
    \/ Terminated

Spec == Init /\ [][Next]_vars

\* Goroutines run: a method that can return does, callbacks return, the ticker
\* fires, and sync.Mutex lets nobody who waits for it starve (strong fairness
\* of the steps that lock).  A write to a client that does not read may block
\* for ever: only writes on a connection that is closed or gone are sure to
\* return.  The read of such a connection fails.
Fairness ==
    /\ \A g \in Callers : SF_vars(Acquire(g)) /\ WF_vars(Finish(g))
    /\ WF_vars(\E failed \in BOOLEAN : CallbackReturn(failed))
    /\ SF_vars(CheckClosed) /\ SF_vars(Lookup)
    /\ WF_vars((~connOpen \/ ~peerOpen) /\ ReadError)
    /\ WF_vars(HandlerReturn)
    /\ SF_vars(KeepStop \/ KeepTick) /\ SF_vars(KeepAcquire)
    /\ WF_vars(KeepFail)

FairSpec == Spec /\ Fairness

-----------------------------------------------------------------------------
(***************************************************************************)
(* Properties.                                                             *)
(***************************************************************************)

\* A packet on the wire, and the packet of a frame still to be written.
Frame == [by : Callers, n : 1..MaxOps, pack : Packs \cup {NoPack}, packet : DOMAIN ToClient]
Pending == [packet : DOMAIN ToClient, action : Int, form : {"nbt", "json", "none"}]

TypeOK ==
    /\ lock \in Callers \cup {KeepAlive, Nobody}
    /\ closed \in BOOLEAN /\ connOpen \in BOOLEAN /\ peerOpen \in BOOLEAN
    /\ wire \in Seq(Frame)
    /\ inbox \in Seq({"event", "other"} \cup Packs)
    /\ packs \subseteq Packs
    /\ protocolIDs \in [Keys -> Packs \cup {NoPack}]
    /\ lastPack \in Packs \cup {NoPack}
    /\ call \in [Callers -> [at : {"idle", "locking", "writing"}, op : Ops,
                             pack : Packs \cup {NoPack}, left : Seq(Pending), n : 0..MaxOps]]
    /\ handler \in {"callback", "check", "read", "lookup", "returned", "done"}
    /\ response \in Packs \cup {NoPack}
    /\ handler = "lookup" => response \in Packs
    /\ keep \in {"waiting", "locking", "writing", "done"}

\* The wire, the connection and the remembered packs as a serial session.
Serial == INSTANCE SerialSession WITH
    Frames   <- Frame,
    Offers   <- {"add_resource_pack", "resource_pack_send"},
    Removals <- {"remove_resource_pack"},
    Kicks    <- {"kick_disconnect"},
    sent     <- wire,
    ended    <- ~connOpen,
    offered  <- packs

\* The mutex makes a serial session of concurrent calls: the packets of an
\* operation, a title's above all, are never mixed with another goroutine's,
\* nothing follows a kick or the end of the connection (neither a keep-alive
\* whose tick came first nor a goroutine that waited for s.mu), and the packs
\* remembered change only to what the completed operations offered.
ImplementsSession == Serial!Spec

\* Whenever s.mu is free, the packs the session remembers are the ones it
\* offered over the wire and did not remove, however writes fail and goroutines
\* interleave, and each of them is found under its uuid.
PacksMatchWire ==
    lock = Nobody =>
        /\ packs = Offered(wire)
        /\ {k \in Keys : protocolIDs[k] # NoPack} \cap {Uuid[p] : p \in Packs}
               = {Uuid[p] : p \in packs}
        /\ lastPack \in packs \/ (packs = {} /\ lastPack = NoPack)

\* A response that names its pack is never reported under the ID of another
\* pack, whatever is added and removed between the client's sending it and the
\* handler's looking it up.
NeverAnotherPack ==
    report[1] # NoPack /\ Named(report[1]) # NoKey => report[2] \in {report[1], NoPack}

\* After the application has disconnected the player from inside a callback, no
\* packet that was already buffered reaches another callback.
NoCallbackAfterOwnKick ==
    [][handler # "callback" /\ handler' = "callback" =>
           \A i \in DOMAIN wire :
               ~(wire[i].by = Handler /\ wire[i].packet = "kick_disconnect")]_vars

\* Closing the connection, by whomever, or the client's leaving, ends the
\* session: the handler returns, the keep-alive goroutine ends, and every
\* method call returns, even one that was blocked in a write with s.mu held.
SessionEnds == (~connOpen \/ ~peerOpen) ~> Ended

-----------------------------------------------------------------------------
(***************************************************************************)
(* The inductive invariant behind the safety properties.                   *)
(***************************************************************************)

Writing(g) == call[g].at = "writing"
FramesOf(g) == Outcome(Protocol, call[g].op).frames

\* Who writes holds s.mu, and nobody else does.
WriterHoldsLock ==
    /\ \A g \in Callers : Writing(g) <=> lock = g
    /\ keep = "writing" <=> lock = KeepAlive

\* The handler's calls are made from its callbacks, and those about a pack, and
\* no others, name one.
CallsAreWellFormed ==
    /\ call[Handler].at # "idle" => handler = "callback"
    /\ \A g \in Callers :
           call[g].at # "idle" => /\ call[g].n > 0
                                 /\ (call[g].op.kind \in PackOps) = (call[g].pack # NoPack)

\* What is left to write is the end of the operation's frames.
LeftIsRest ==
    \A g \in Callers : Writing(g) =>
        /\ Len(call[g].left) <= Len(FramesOf(g))
        /\ \A i \in DOMAIN call[g].left :
               call[g].left[i] = FramesOf(g)[i + Len(FramesOf(g)) - Len(call[g].left)]

\* A caller's frames on the wire are those of its calls so far; the frames of a
\* call that is writing are the last ones.
FramesOwned ==
    \A i \in DOMAIN wire : LET g == wire[i].by IN
        /\ wire[i].n <= call[g].n
        /\ call[g].at = "locking" => wire[i].n < call[g].n
        /\ Writing(g) /\ wire[i].n = call[g].n =>
               wire[Len(wire)].by = g /\ wire[Len(wire)].n = call[g].n

\* A kick is the last frame of a Disconnect that is about to close the session,
\* or the session and the connection are closed.
KickCloses ==
    \A i \in DOMAIN wire : wire[i].packet = "kick_disconnect" =>
        \/ closed /\ ~connOpen
        \/ LET g == wire[i].by
           IN  Writing(g) /\ call[g].op.kind = "Disconnect" /\ call[g].left = <<>>

\* Once its own callback has kicked the player the handler is on its way out.
OwnKickEndsLoop ==
    (\E i \in DOMAIN wire : wire[i].by = Handler /\ wire[i].packet = "kick_disconnect")
        => handler \in {"callback", "check", "returned", "done"}

\* Offers on the wire name a pack.
OffersNamePacks ==
    \A i \in DOMAIN wire :
        wire[i].packet \in {"add_resource_pack", "resource_pack_send"} => wire[i].pack \in Packs

\* The packs remembered when the call of g is finished now.
Remembered(g) ==
    IF call[g].left # <<>> \/ FramesOf(g) = <<>> THEN packs
    ELSE IF call[g].op.kind = "AddResourcePack" THEN packs \cup {call[g].pack}
    ELSE IF call[g].op.kind = "RemoveResourcePack" THEN packs \ {call[g].pack}
    ELSE packs

\* The packs remembered are the ones on the wire, but for what the caller that
\* holds s.mu has written and not recorded yet.
WireIsRemembered ==
    /\ \A g \in Callers : Writing(g) => Offered(wire) = Remembered(g)
    /\ lock \notin Callers => Offered(wire) = packs

LastIsRemembered == lastPack \in packs \/ (packs = {} /\ lastPack = NoPack)

SessionInv ==
    /\ TypeOK
    /\ WriterHoldsLock /\ CallsAreWellFormed /\ LeftIsRest /\ FramesOwned
    /\ KickCloses /\ OwnKickEndsLoop /\ OffersNamePacks /\ WireIsRemembered
    /\ LastIsRemembered

\* No two packs share a uuid or a hash.  An application can break this: two
\* spellings of one uuid are two IDs, and one file offered under two IDs has one
\* hash.
DistinctNames == \A p, q \in Packs : p # q => KeysOf(p) \cap KeysOf(q) = {}

\* A name is mapped to its own pack; a uuid is, as long as the pack is remembered.
NamesAreOwn ==
    /\ \A p \in Packs : \A k \in KeysOf(p) : protocolIDs[k] \in {p, NoPack}
    /\ \A p \in Packs : protocolIDs[Uuid[p]] = p <=> p \in packs
    /\ report[1] \in Packs \cup {NoPack}
    /\ NeverAnotherPack

=============================================================================
