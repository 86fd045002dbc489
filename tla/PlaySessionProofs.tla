-------------------------- MODULE PlaySessionProofs --------------------------
(***************************************************************************)
(* Proofs about PlaySession, for any protocol that reaches play, any       *)
(* number of application goroutines and any operations.                    *)
(***************************************************************************)
EXTENDS PlaySession, SequenceTheorems, TLAPS

-----------------------------------------------------------------------------
(***************************************************************************)
(* The rest of a sequence.                                                 *)
(***************************************************************************)

IsRest(rest, whole) ==
    /\ Len(rest) <= Len(whole)
    /\ \A i \in DOMAIN rest : rest[i] = whole[i + Len(whole) - Len(rest)]

\* The head of a rest is an element of the whole, its tail a rest again.
LEMMA RestOfRest ==
    ASSUME NEW S, NEW rest \in Seq(S), NEW whole \in Seq(S), rest # <<>>,
           IsRest(rest, whole)
    PROVE  /\ \E i \in 1..Len(whole) : Head(rest) = whole[i]
           /\ Len(rest) = 1 => Tail(rest) = <<>>
           /\ Tail(rest) \in Seq(S) /\ IsRest(Tail(rest), whole)
<1> DEFINE m == Len(whole)
           n == Len(rest)
<1>1. m \in Nat /\ n \in Nat /\ n # 0 /\ n <= m /\ DOMAIN rest = 1..n
  BY EmptySeq DEF IsRest
<1>2. /\ Head(rest) = rest[1] /\ Tail(rest) \in Seq(S)
      /\ Len(Tail(rest)) = n - 1 /\ DOMAIN Tail(rest) = 1..(n - 1)
      /\ \A i \in 1..(n - 1) : Tail(rest)[i] = rest[i + 1]
  BY <1>1, HeadTailProperties
<1>3. \A i \in 1..n : rest[i] = whole[i + m - n]
  BY <1>1 DEF IsRest
<1> HIDE DEF m, n
<1>4. Head(rest) = whole[1 + m - n] /\ 1 + m - n \in 1..m
  BY <1>1, <1>2, <1>3
<1>5. n = 1 => Tail(rest) = <<>>
  BY <1>2, EmptySeq
<1>6. \A i \in 1..(n - 1) : Tail(rest)[i] = whole[i + m - (n - 1)]
  <2> SUFFICES ASSUME NEW i \in 1..(n - 1) PROVE Tail(rest)[i] = whole[i + m - (n - 1)]
    OBVIOUS
  <2>1. i + 1 \in 1..n /\ (i + 1) + m - n = i + m - (n - 1)
    BY <1>1
  <2>2. rest[i + 1] = whole[(i + 1) + m - n]
    BY <1>3, <2>1
  <2> QED
    BY <1>2, <2>1, <2>2
<1>7. IsRest(Tail(rest), whole)
  BY <1>1, <1>2, <1>6 DEF IsRest, m, n
<1> QED
  BY <1>2, <1>4, <1>5, <1>7 DEF m, n

-----------------------------------------------------------------------------
(***************************************************************************)
(* What the operations write.                                              *)
(***************************************************************************)

\* The packets the session's bookkeeping is about, and frames of no other.
Marked == {"add_resource_pack", "resource_pack_send", "remove_resource_pack",
           "kick_disconnect"}

Plain == [packet : DOMAIN ToClient \ Marked, action : Int, form : {"nbt", "json", "none"}]

Results(frame) == [frames : Seq(frame), err : {"none", "unsupported", "invalid", "plain"}]

LEMMA FailResult ==
    ASSUME NEW F, NEW err \in {"none", "unsupported", "invalid", "plain"}
    PROVE  Fail(err) \in Results(F)
  BY DEF Fail, Results

LEMMA PacketResult ==
    ASSUME NEW p, NEW name \in DOMAIN ToClient \ Marked, NEW action \in Int,
           NEW form \in {"nbt", "json", "none"}
    PROVE  Packet(p, name, action, form) \in Results(Plain)
<1> DEFINE f == [packet |-> name, action |-> action, form |-> form]
<1>1. f \in Plain
  BY DEF Plain
<1>2. <<f>> \in Seq(Plain)
  BY <1>1
<1> QED
  BY <1>2, FailResult DEF Packet, Results

LEMMA ThenResult ==
    ASSUME NEW first \in Results(Plain), NEW second \in Results(Plain)
    PROVE  Then(first, second) \in Results(Plain)
<1>1. first.frames \o second.frames \in Seq(Plain)
  BY DEF Results
<1> QED
  BY <1>1 DEF Then, Results

LEMMA FormResult ==
    ASSUME NEW p PROVE Form(p) \in {"nbt", "json", "none"}
  BY DEF Form

LEMMA PlainNames ==
    {"keep_alive", "system_chat", "chat", "action_bar", "title", "set_title_text",
     "set_title_subtitle", "set_title_time", "clear_titles", "show_dialog",
     "clear_dialog", "store_cookie", "transfer"} \subseteq DOMAIN ToClient \ Marked
  BY DEF ToClient, Marked

LEMMA TitleResult ==
    ASSUME NEW p, NEW parts PROVE writeTitle(p, parts) \in Results(Plain)
<1> DEFINE modern == Has(ToClient, p, "set_title_text")
           Part(part, name, action, form) ==
               IF part \notin parts THEN Nothing
               ELSE IF modern THEN Packet(p, name, -1, form)
               ELSE Packet(p, "title", action, form)
<1>1. ASSUME NEW part, NEW name \in DOMAIN ToClient \ Marked, NEW action \in Int,
             NEW form \in {"nbt", "json", "none"}
      PROVE  Part(part, name, action, form) \in Results(Plain)
  <2>1. Packet(p, name, -1, form) \in Results(Plain)
    BY PacketResult
  <2>2. Packet(p, "title", action, form) \in Results(Plain)
    BY PacketResult, PlainNames
  <2> QED
    BY <2>1, <2>2, FailResult DEF Nothing
<1>2. Part("times", "set_title_time", TimesAction(p), "none") \in Results(Plain)
  BY <1>1, PlainNames DEF TimesAction
<1>3. Part("title", "set_title_text", 0, Form(p)) \in Results(Plain)
  BY <1>1, PlainNames, FormResult
<1>4. Part("subtitle", "set_title_subtitle", 1, Form(p)) \in Results(Plain)
  BY <1>1, PlainNames, FormResult
<1> DEFINE whole == Then(Part("times", "set_title_time", TimesAction(p), "none"),
                    Then(Part("title", "set_title_text", 0, Form(p)),
                         Part("subtitle", "set_title_subtitle", 1, Form(p))))
<1>5. whole \in Results(Plain)
  <2> HIDE DEF Part
  <2> QED
    BY <1>2, <1>3, <1>4, ThenResult
<1>6. writeTitle(p, parts) \in {Fail("invalid"), Fail("unsupported"), whole}
  BY DEF writeTitle
<1> QED
  BY <1>5, <1>6, FailResult

\* Operations that are not about packs and do not disconnect write plain packets.
LEMMA PlainOutcome ==
    ASSUME NEW p, NEW op \in Ops, op.kind \notin PackOps, op.kind # "Disconnect"
    PROVE  Outcome(p, op) \in Results(Plain)
<1> USE FailResult, PacketResult, PlainNames, FormResult DEF Ops, Op
<1>1. CASE op.kind = "SendMessage"
  BY <1>1 DEF Outcome, writeSystemMessage
<1>2. CASE op.kind = "SendActionBar"
  BY <1>2 DEF Outcome, writeActionBar, writeLegacyTitleText
<1>3. CASE op.kind = "ShowTitle"
  BY <1>3, TitleResult DEF Outcome
<1>4. CASE op.kind = "ClearTitle"
  BY <1>4 DEF Outcome, writeClearTitle, ClearAction
<1>5. CASE op.kind = "ShowDialog"
  BY <1>5 DEF Outcome, writeShowDialog
<1>6. CASE op.kind = "ClearDialog"
  BY <1>6 DEF Outcome, writeClearDialog
<1>7. CASE op.kind = "StoreCookie"
  BY <1>7 DEF Outcome, writeStoreCookie
<1>8. CASE op.kind = "Transfer"
  BY <1>8 DEF Outcome, writeTransfer
<1> QED
  BY <1>1, <1>2, <1>3, <1>4, <1>5, <1>6, <1>7, <1>8 DEF PackOps

\* The packet an operation on packs, or Disconnect, consists of.
PacketsOf(kind) ==
    CASE kind = "AddResourcePack"    -> {"add_resource_pack", "resource_pack_send"}
      [] kind = "RemoveResourcePack" -> {"remove_resource_pack"}
      [] kind = "Disconnect"         -> {"kick_disconnect"}

LEMMA MarkedOutcome ==
    ASSUME NEW p, NEW op \in Ops, op.kind \in PackOps \cup {"Disconnect"}
    PROVE  \/ Outcome(p, op).frames = <<>> /\ Outcome(p, op).err # "none"
           \/ /\ Outcome(p, op).err = "none"
              /\ \E f \in Pending : /\ Outcome(p, op).frames = <<f>>
                                    /\ f.packet \in PacketsOf(op.kind)
<1>1. ASSUME NEW name \in DOMAIN ToClient, NEW form \in {"nbt", "json", "none"},
             Outcome(p, op) = Packet(p, name, -1, form), name \in PacketsOf(op.kind)
      PROVE  \/ Outcome(p, op).frames = <<>> /\ Outcome(p, op).err # "none"
             \/ /\ Outcome(p, op).err = "none"
                /\ \E f \in Pending : /\ Outcome(p, op).frames = <<f>>
                                      /\ f.packet \in PacketsOf(op.kind)
  <2> DEFINE f == [packet |-> name, action |-> -1, form |-> form]
  <2>1. f \in Pending /\ f.packet = name
    BY DEF Pending
  <2> QED
    BY <1>1, <2>1 DEF Packet, Fail
<1>2. ASSUME NEW err \in {"invalid"}, Outcome(p, op) = Fail(err)
      PROVE  Outcome(p, op).frames = <<>> /\ Outcome(p, op).err # "none"
  BY <1>2 DEF Fail
<1>3. /\ {"add_resource_pack", "resource_pack_send", "remove_resource_pack",
          "kick_disconnect"} \subseteq DOMAIN ToClient
      /\ PromptForm(p) \in {"nbt", "json", "none"}
  BY DEF ToClient, PromptForm
<1>4. CASE op.kind = "AddResourcePack"
  BY <1>1, <1>2, <1>3, <1>4 DEF Outcome, writeResourcePack, PacketsOf
<1>5. CASE op.kind = "RemoveResourcePack"
  BY <1>1, <1>2, <1>3, <1>5 DEF Outcome, writeRemoveResourcePack, PacketsOf
<1>6. CASE op.kind = "Disconnect"
  BY <1>1, <1>3, <1>6, FormResult DEF Outcome, writeKickDisconnect, PacketsOf
<1> QED
  BY <1>4, <1>5, <1>6 DEF PackOps

LEMMA FramesTyped ==
    ASSUME NEW p, NEW op \in Ops PROVE Outcome(p, op).frames \in Seq(Pending)
<1>1. CASE op.kind \in PackOps \cup {"Disconnect"}
  <2>1. CASE Outcome(p, op).frames = <<>>
    BY <2>1
  <2>2. ASSUME NEW f \in Pending, Outcome(p, op).frames = <<f>>
        PROVE  Outcome(p, op).frames \in Seq(Pending)
    BY <2>2
  <2> QED
    BY <1>1, <2>1, <2>2, MarkedOutcome
<1>2. CASE op.kind \notin PackOps \cup {"Disconnect"}
  <2>1. Outcome(p, op).frames \in Seq(Plain)
    BY <1>2, PlainOutcome DEF Results
  <2>2. Plain \subseteq Pending
    BY DEF Plain, Pending
  <2> QED
    BY <2>1, <2>2, SeqMonotonic
<1> QED
  BY <1>1, <1>2

-----------------------------------------------------------------------------
(***************************************************************************)
(* The packs on the wire.                                                  *)
(***************************************************************************)

Offer == {"add_resource_pack", "resource_pack_send"}

\* The next packet changes what is offered by the pack it is about.
LEMMA OfferedAppend ==
    ASSUME NEW w \in Seq(Frame), NEW f \in Frame, f.packet \in Offer => f.pack \in Packs
    PROVE  Offered(Append(w, f)) =
               IF f.packet \in Offer THEN Offered(w) \cup {f.pack}
               ELSE IF f.packet = "remove_resource_pack" THEN Offered(w) \ {f.pack}
               ELSE Offered(w)
<1> DEFINE v == Append(w, f)
           Taken(u, p, j) == u[j].pack = p /\ u[j].packet = "remove_resource_pack"
           Stands(u, p, i) == /\ u[i].pack = p
                              /\ u[i].packet \in Offer
                              /\ \A j \in (i + 1)..Len(u) : ~Taken(u, p, j)
<1>1. /\ Len(w) \in Nat /\ Len(v) = Len(w) + 1
      /\ DOMAIN w = 1..Len(w) /\ DOMAIN v = 1..(Len(w) + 1)
      /\ \A i \in 1..Len(w) : v[i] = w[i]
      /\ v[Len(w) + 1] = f
  OBVIOUS
<1>2. \A u, p : p \in Offered(u) <=> p \in Packs /\ \E i \in DOMAIN u : Stands(u, p, i)
  BY DEF Offered, Offer
<1>3. ASSUME NEW p, NEW i \in 1..Len(w)
      PROVE  Stands(v, p, i) <=>
                 Stands(w, p, i) /\ ~(f.pack = p /\ f.packet = "remove_resource_pack")
  <2>1. (\A j \in (i + 1)..Len(v) : ~Taken(v, p, j)) <=>
            /\ \A j \in (i + 1)..Len(w) : ~Taken(w, p, j)
            /\ ~Taken(v, p, Len(w) + 1)
    <3>1. (i + 1)..Len(v) = ((i + 1)..Len(w)) \cup {Len(w) + 1}
      BY <1>1
    <3>2. \A j \in (i + 1)..Len(w) : Taken(v, p, j) <=> Taken(w, p, j)
      BY <1>1
    <3> HIDE DEF Taken, v
    <3> QED
      BY <3>1, <3>2
  <2> QED
    BY <1>1, <2>1
<1>4. ASSUME NEW p
      PROVE  Stands(v, p, Len(w) + 1) <=> f.pack = p /\ f.packet \in Offer
  BY <1>1
<1>5. ASSUME NEW p
      PROVE  (\E i \in DOMAIN v : Stands(v, p, i)) <=>
                 \/ (\E i \in DOMAIN w : Stands(w, p, i))
                        /\ ~(f.pack = p /\ f.packet = "remove_resource_pack")
                 \/ f.pack = p /\ f.packet \in Offer
  <2>1. DOMAIN v = DOMAIN w \cup {Len(w) + 1}
    BY <1>1
  <2> HIDE DEF Stands, v
  <2> QED
    BY <1>1, <1>3, <1>4, <2>1
<1>6. ASSUME NEW p
      PROVE  p \in Offered(v) <=>
                 \/ p \in Offered(w) /\ ~(f.pack = p /\ f.packet = "remove_resource_pack")
                 \/ f.pack = p /\ f.packet \in Offer
  <2> HIDE DEF Stands, v
  <2> QED
    BY <1>2, <1>5
<1> HIDE DEF Stands, v
<1>7. f.packet \in Offer => Offered(v) = Offered(w) \cup {f.pack}
  BY <1>6 DEF Offer
<1>8. f.packet = "remove_resource_pack" => Offered(v) = Offered(w) \ {f.pack}
  BY <1>6 DEF Offer
<1>9. f.packet \notin Offer \cup {"remove_resource_pack"} => Offered(v) = Offered(w)
  BY <1>6
<1> QED
  BY <1>7, <1>8, <1>9 DEF v

\* What stands on the wire of a session is what the serial session promises.
LEMMA StandingIsOffered ==
    ASSUME wire \in Seq(Frame), OffersNamePacks PROVE Serial!Standing = Offered(wire)
  BY DEF Serial!Standing, Offered, OffersNamePacks

-----------------------------------------------------------------------------
(***************************************************************************)
(* The invariant of the session.                                           *)
(***************************************************************************)

LEMMA InitType == Init => TypeOK
<1> SUFFICES ASSUME Init PROVE TypeOK
  OBVIOUS
<1>1. Op("SendMessage", {}) \in Ops
  BY DEF Ops
<1>2. call \in [Callers -> [at : {"idle", "locking", "writing"}, op : Ops,
                           pack : Packs \cup {NoPack}, left : Seq(Pending), n : 0..MaxOps]]
  BY <1>1, PlaySessionAssumption DEF Init, Idle
<1>3. /\ wire \in Seq(Frame)
      /\ inbox \in Seq({"event", "other"} \cup Packs)
  BY DEF Init
<1> QED
  BY <1>2, <1>3 DEF Init, TypeOK

LEMMA InitSessionInv == Init => SessionInv
<1> SUFFICES ASSUME Init PROVE SessionInv
  OBVIOUS
<1>1. wire = <<>> /\ DOMAIN wire = {} /\ Offered(wire) = {}
  BY DEF Init, Offered
<1>2. \A g \in Callers : call[g] = Idle(0) /\ call[g].at = "idle"
  BY DEF Init, Idle
<1>3. Handler \in Callers /\ KeepAlive \notin Callers /\ Nobody \notin Callers \cup {KeepAlive}
  BY PlaySessionAssumption DEF Callers
<1>4. WriterHoldsLock /\ CallsAreWellFormed /\ LeftIsRest
  BY <1>2, <1>3 DEF Init, WriterHoldsLock, CallsAreWellFormed, LeftIsRest, Writing
<1>5. FramesOwned /\ KickCloses /\ OwnKickEndsLoop /\ OffersNamePacks
  BY <1>1 DEF FramesOwned, KickCloses, OwnKickEndsLoop, OffersNamePacks
<1>6. WireIsRemembered /\ LastIsRemembered
  BY <1>1, <1>2, <1>3 DEF Init, WireIsRemembered, LastIsRemembered, Writing
<1> QED
  BY <1>4, <1>5, <1>6, InitType DEF SessionInv

\* A keep-alive never follows a kick: its goroutine holds s.mu, so that nobody
\* else is between a kick and the closing of the connection.
LEMMA KeepWriteSilent == SessionInv /\ KeepWrite => wire' = wire
<1> SUFFICES ASSUME SessionInv, KeepWrite,
                    wire # <<>>, wire[Len(wire)].packet = "kick_disconnect"
             PROVE  FALSE
  BY DEF KeepWrite
<1>1. Len(wire) \in DOMAIN wire /\ wire[Len(wire)].by \in Callers
  <2>1. wire \in Seq(Frame)
    BY DEF SessionInv, TypeOK
  <2>2. Len(wire) \in 1..Len(wire) /\ DOMAIN wire = 1..Len(wire)
    BY <2>1
  <2>3. wire[Len(wire)] \in Frame
    BY <2>1, <2>2
  <2> QED
    BY <2>2, <2>3 DEF Frame
<1>2. lock = KeepAlive /\ connOpen
  BY DEF SessionInv, WriterHoldsLock, KeepWrite
<1>3. KeepAlive \notin Callers
  BY PlaySessionAssumption DEF Callers
<1> QED
  BY <1>1, <1>2, <1>3 DEF SessionInv, KickCloses, WriterHoldsLock

Call == [at : {"idle", "locking", "writing"}, op : Ops, pack : Packs \cup {NoPack},
         left : Seq(Pending), n : 0..MaxOps]

LEMMA NextType == SessionInv /\ [Next]_vars => TypeOK'
<1> SUFFICES ASSUME SessionInv, [Next]_vars PROVE TypeOK'
  OBVIOUS
<1>a. TypeOK /\ call \in [Callers -> Call]
  BY DEF SessionInv, TypeOK, Call
<1> USE <1>a DEF connVars, packVars, loopVars
<1>1. ASSUME NEW g \in Callers, NEW op \in AppOps, NEW pack \in Packs \cup {NoPack},
             Begin(g, op, pack)
      PROVE  TypeOK'
  <2>1. op \in Ops /\ call[g].n + 1 \in 0..MaxOps
    BY <1>1, PlaySessionAssumption DEF Begin, Call
  <2>2. call' \in [Callers -> Call]
    BY <1>1, <2>1 DEF Begin, Call
  <2> QED
    BY <1>1, <2>2 DEF Begin, TypeOK, Call
<1>2. ASSUME NEW g \in Callers, Acquire(g) PROVE TypeOK'
  <2>1. Outcome(Protocol, call[g].op).frames \in Seq(Pending)
    BY FramesTyped DEF Call
  <2>2. call' \in [Callers -> Call]
    BY <1>2, <2>1 DEF Acquire, Call
  <2> QED
    BY <1>2, <2>2 DEF Acquire, TypeOK, Call
<1>3. ASSUME NEW g \in Callers, Write(g), CallsAreWellFormed PROVE TypeOK'
  <2>1. /\ Head(call[g].left) \in Pending
        /\ Tail(call[g].left) \in Seq(Pending)
    BY <1>3 DEF Write, Call
  <2>2. [by |-> g, n |-> call[g].n, pack |-> call[g].pack,
         packet |-> Head(call[g].left).packet] \in Frame
    <3>0. call[g].n \in 0..MaxOps /\ call[g].n > 0 /\ call[g].pack \in Packs \cup {NoPack}
      BY <1>3 DEF Write, Call, CallsAreWellFormed
    <3>1. call[g].n \in 1..MaxOps /\ call[g].pack \in Packs \cup {NoPack}
      BY <3>0, PlaySessionAssumption
    <3>2. Head(call[g].left).packet \in DOMAIN ToClient
      BY <2>1 DEF Pending
    <3> QED
      BY <3>1, <3>2 DEF Frame
  <2>3. wire' \in Seq(Frame)
    BY <1>3, <2>2 DEF Write, TypeOK
  <2>4. call' \in [Callers -> Call]
    BY <1>3, <2>1 DEF Write, Call
  <2> QED
    BY <1>3, <2>3, <2>4 DEF Write, TypeOK, Call
<1>4. ASSUME NEW g \in Callers, Finish(g) PROVE TypeOK'
  <2>1. Op("SendMessage", {}) \in Ops
    BY DEF Ops
  <2>2. call' \in [Callers -> Call]
    BY <1>4, <2>1 DEF Finish, Call, Idle
  <2>3. packs' \subseteq Packs /\ lastPack' \in Packs \cup {NoPack}
        /\ protocolIDs' \in [Keys -> Packs \cup {NoPack}]
    <3>1. CASE UNCHANGED packVars
      BY <3>1 DEF TypeOK
    <3>2. CASE Remember(call[g].pack) /\ call[g].pack \in Packs
      <4>1. Keys \cup KeysOf(call[g].pack) = Keys
        BY <3>2 DEF Keys, KeysOf
      <4> QED
        BY <3>2, <4>1 DEF Remember, TypeOK
    <3>3. CASE Forget(call[g].pack)
      BY <3>3 DEF Forget, TypeOK
    <3>4. call[g].op.kind \in PackOps => call[g].pack \in Packs
      BY <1>4 DEF Finish, SessionInv, CallsAreWellFormed, Call
    <3> QED
      BY <1>4, <3>1, <3>2, <3>3, <3>4 DEF Finish, AfterWrite, PackOps
  <2> QED
    BY <1>4, <2>2, <2>3 DEF Finish, CloseIfDisconnect, TypeOK, Call
<1>5. CASE HandlerStep
  <2>1. CASE Read
    <3>1. Tail(inbox) \in Seq({"event", "other"} \cup Packs)
      BY <2>1 DEF Read, TypeOK
    <3> QED
      BY <2>1, <3>1 DEF Read, TypeOK
  <2> QED
    BY <1>5, <2>1
    DEF HandlerStep, CallbackReturn, CheckClosed, AfterClosed, ReadError, AfterReadError,
        Lookup, HandlerReturn, TypeOK
<1>6. CASE KeepStep
  <2>1. KeepWrite => wire' = wire
    BY KeepWriteSilent
  <2> QED
    BY <1>6, <2>1 DEF KeepStep, KeepStop, KeepTick, KeepAcquire, KeepWrite, KeepFail, TypeOK
<1>7. ASSUME NEW packet \in {"event", "other"} \cup Packs, ClientSend(packet) PROVE TypeOK'
  <2>1. Append(inbox, packet) \in Seq({"event", "other"} \cup Packs)
    BY DEF TypeOK
  <2> QED
    BY <1>7, <2>1 DEF ClientSend, TypeOK
<1>8. CASE ClientLeave \/ ContextDone \/ ServerClose
  BY <1>8 DEF ClientLeave, ContextDone, ServerClose, TypeOK
<1>9. CASE UNCHANGED vars
  BY <1>9 DEF vars, TypeOK
<1> QED
  BY <1>1, <1>2, <1>3, <1>4, <1>5, <1>6, <1>7, <1>8, <1>9
  DEF Next, Proceed, Terminated, SessionInv

\* A step that writes nothing and is not about a call keeps the invariant if it
\* opens nothing, hands s.mu to no caller and keeps the handler's place.
LEMMA QuietStep ==
    ASSUME SessionInv, TypeOK',
           UNCHANGED <<wire, call, packs, lastPack>>,
           closed => closed', connOpen' => connOpen,
           WriterHoldsLock', lock' \in Callers <=> lock \in Callers,
           call[Handler].at # "idle" => handler' = "callback",
           OwnKickEndsLoop'
    PROVE  SessionInv'
<1>1. CallsAreWellFormed' /\ LeftIsRest' /\ FramesOwned' /\ OffersNamePacks'
  BY DEF SessionInv, CallsAreWellFormed, LeftIsRest, FramesOwned, OffersNamePacks,
         Writing, FramesOf
<1>2. KickCloses'
  BY DEF SessionInv, KickCloses, TypeOK, Writing
<1>3. WireIsRemembered'
  <2>1. Offered(wire)' = Offered(wire)
    BY DEF Offered
  <2> QED
    BY <2>1 DEF SessionInv, WireIsRemembered, Remembered, Writing, FramesOf
<1>4. LastIsRemembered'
  BY DEF SessionInv, LastIsRemembered
<1> QED
  BY <1>1, <1>2, <1>3, <1>4 DEF SessionInv

\* The handler's own kick leaves the loop no way to its next read.
LEMMA HandlerStepInv == SessionInv /\ HandlerStep /\ TypeOK' => SessionInv'
<1> SUFFICES ASSUME SessionInv, HandlerStep, TypeOK' PROVE SessionInv'
  OBVIOUS
<1> USE DEF connVars, packVars, loopVars
<1>1. /\ UNCHANGED <<wire, call, packs, lastPack, lock, closed, keep>>
      /\ connOpen' => connOpen
  BY DEF HandlerStep, CallbackReturn, CheckClosed, Read, ReadError, Lookup, HandlerReturn,
         TypeOK
<1>2. WriterHoldsLock'
  BY <1>1 DEF SessionInv, WriterHoldsLock, Writing
<1>3. call[Handler].at # "idle" => handler' = "callback"
  BY DEF HandlerStep, CallbackReturn, CheckClosed, Read, ReadError, Lookup, HandlerReturn,
         SessionInv, CallsAreWellFormed
<1>4. ASSUME NEW i \in DOMAIN wire, wire[i].by = Handler, wire[i].packet = "kick_disconnect"
      PROVE  handler' \in {"callback", "check", "returned", "done"}
  <2>1. handler \in {"callback", "check", "returned", "done"}
    BY <1>4 DEF SessionInv, OwnKickEndsLoop
  <2>2. CASE handler = "check"
    <3>1. call[Handler].at = "idle"
      BY <2>2 DEF SessionInv, CallsAreWellFormed
    <3>2. closed
      BY <1>4, <3>1 DEF SessionInv, KickCloses, Writing
    <3> QED
      BY <2>2, <3>2 DEF HandlerStep, CallbackReturn, CheckClosed, AfterClosed, Read,
                       ReadError, Lookup, HandlerReturn
  <2> QED
    BY <2>1, <2>2 DEF HandlerStep, CallbackReturn, CheckClosed, Read, ReadError, Lookup,
                     HandlerReturn
<1>5. OwnKickEndsLoop'
  BY <1>1, <1>4 DEF OwnKickEndsLoop
<1> QED
  BY <1>1, <1>2, <1>3, <1>5, QuietStep

LEMMA KeepStepInv == SessionInv /\ KeepStep /\ TypeOK' => SessionInv'
<1> SUFFICES ASSUME SessionInv, KeepStep, TypeOK' PROVE SessionInv'
  OBVIOUS
<1> USE DEF connVars, packVars, loopVars
<1>1. wire' = wire
  BY KeepWriteSilent
  DEF KeepStep, KeepStop, KeepTick, KeepAcquire, KeepFail
<1>2. /\ UNCHANGED <<call, packs, lastPack, handler>>
      /\ closed => closed'
      /\ connOpen' => connOpen
  BY DEF KeepStep, KeepStop, KeepTick, KeepAcquire, KeepWrite, KeepFail
<1>3. KeepAlive \notin Callers /\ Nobody \notin Callers \cup {KeepAlive}
  BY PlaySessionAssumption DEF Callers
<1>4. WriterHoldsLock' /\ (lock' \in Callers <=> lock \in Callers)
  BY <1>2, <1>3
  DEF SessionInv, WriterHoldsLock, Writing, KeepStep, KeepStop, KeepTick, KeepAcquire,
      KeepWrite, KeepFail
<1>5. OwnKickEndsLoop' /\ (call[Handler].at # "idle" => handler' = "callback")
  BY <1>1, <1>2 DEF SessionInv, OwnKickEndsLoop, CallsAreWellFormed
<1> QED
  BY <1>1, <1>2, <1>4, <1>5, QuietStep

LEMMA OutsideStepInv ==
    ASSUME SessionInv, TypeOK',
           \/ \E packet \in {"event", "other"} \cup Packs : ClientSend(packet)
           \/ ClientLeave \/ ContextDone \/ ServerClose \/ UNCHANGED vars
    PROVE  SessionInv'
<1> USE DEF connVars, packVars, loopVars
<1>1. /\ UNCHANGED <<wire, call, packs, lastPack, lock, closed, keep, handler>>
      /\ connOpen' => connOpen
  BY DEF ClientSend, ClientLeave, ContextDone, ServerClose, vars
<1>2. WriterHoldsLock' /\ OwnKickEndsLoop'
  BY <1>1 DEF SessionInv, WriterHoldsLock, OwnKickEndsLoop, Writing
<1>3. call[Handler].at # "idle" => handler' = "callback"
  BY <1>1 DEF SessionInv, CallsAreWellFormed
<1> QED
  BY <1>1, <1>2, <1>3, QuietStep

-----------------------------------------------------------------------------
(***************************************************************************)
(* The steps of a method call.                                             *)
(***************************************************************************)

\* What the invariant says of one caller and of one frame on the wire.
LEMMA CallerFacts ==
    ASSUME SessionInv, NEW g \in Callers
    PROVE  /\ call[g] \in Call
           /\ FramesOf(g) \in Seq(Pending)
           /\ \A i \in DOMAIN wire : wire[i] \in Frame
           /\ wire \in Seq(Frame)
           /\ KeepAlive \notin Callers /\ Nobody \notin Callers
           /\ KeepAlive # Nobody /\ Handler \in Callers
<1>1. call \in [Callers -> Call] /\ wire \in Seq(Frame)
  BY DEF SessionInv, TypeOK, Call
<1>2. FramesOf(g) \in Seq(Pending)
  BY <1>1, FramesTyped DEF FramesOf, Call
<1>3. /\ KeepAlive \notin Callers /\ Nobody \notin Callers
      /\ KeepAlive # Nobody /\ Handler \in Callers
  BY PlaySessionAssumption DEF Callers
<1> QED
  BY <1>1, <1>2, <1>3

LEMMA BeginInv ==
    ASSUME SessionInv, TypeOK', NEW g \in Callers, NEW op \in AppOps,
           NEW pack \in Packs \cup {NoPack}, Begin(g, op, pack)
    PROVE  SessionInv'
<1> USE DEF connVars, packVars, loopVars
<1>1. /\ UNCHANGED <<wire, packs, lastPack, lock, closed, connOpen, keep, handler>>
      /\ \A h \in Callers \ {g} : call'[h] = call[h]
      /\ call[g].at = "idle" /\ call'[g].at = "locking"
      /\ call'[g].n = call[g].n + 1 /\ call'[g].op = op /\ call'[g].pack = pack
  BY DEF Begin, SessionInv, TypeOK
<1>2. call[g].n \in Nat
  BY CallerFacts DEF Call
<1>3. WriterHoldsLock'
  BY <1>1 DEF SessionInv, WriterHoldsLock, Writing
<1>4. CallsAreWellFormed'
  BY <1>1, <1>2 DEF Begin, SessionInv, CallsAreWellFormed
<1>5. LeftIsRest'
  BY <1>1 DEF SessionInv, LeftIsRest, Writing, FramesOf
<1>6. FramesOwned'
  <2> SUFFICES ASSUME NEW i \in DOMAIN wire
               PROVE  LET h == wire[i].by IN
                      /\ wire[i].n <= call'[h].n
                      /\ call'[h].at = "locking" => wire[i].n < call'[h].n
                      /\ call'[h].at = "writing" /\ wire[i].n = call'[h].n =>
                             wire[Len(wire)].by = h /\ wire[Len(wire)].n = call'[h].n
    BY <1>1 DEF FramesOwned, Writing
  <2>1. wire[i].by \in Callers /\ wire[i].n \in Nat
    BY CallerFacts DEF Frame
  <2>2. wire[i].n <= call[wire[i].by].n
    BY DEF SessionInv, FramesOwned
  <2>3. CASE wire[i].by = g
    BY <1>1, <1>2, <2>1, <2>2, <2>3
  <2>4. CASE wire[i].by # g
    BY <1>1, <2>1, <2>4 DEF SessionInv, FramesOwned, Writing
  <2> QED
    BY <2>3, <2>4
<1>7. KickCloses' /\ OwnKickEndsLoop' /\ OffersNamePacks'
  <2>1. \A i \in DOMAIN wire : wire[i].by \in Callers
    BY CallerFacts DEF Frame
  <2> QED
    BY <1>1, <2>1
    DEF SessionInv, KickCloses, OwnKickEndsLoop, OffersNamePacks, Writing
<1>8. WireIsRemembered' /\ LastIsRemembered'
  <2>1. Offered(wire)' = Offered(wire)
    BY <1>1 DEF Offered
  <2> QED
    BY <1>1, <2>1
    DEF SessionInv, WireIsRemembered, LastIsRemembered, Remembered, Writing, FramesOf
<1> QED
  BY <1>3, <1>4, <1>5, <1>6, <1>7, <1>8 DEF SessionInv

LEMMA AcquireInv ==
    ASSUME SessionInv, TypeOK', NEW g \in Callers, Acquire(g) PROVE SessionInv'
<1> USE DEF connVars, packVars, loopVars
<1>1. /\ UNCHANGED <<wire, packs, lastPack, closed, connOpen, keep, handler>>
      /\ \A h \in Callers \ {g} : call'[h] = call[h]
      /\ call[g].at = "locking" /\ call'[g].at = "writing"
      /\ call'[g].n = call[g].n /\ call'[g].op = call[g].op /\ call'[g].pack = call[g].pack
      /\ call'[g].left = FramesOf(g) /\ FramesOf(g)' = FramesOf(g)
      /\ lock = Nobody /\ lock' = g
  BY DEF Acquire, Free, SessionInv, TypeOK, FramesOf
<1>2. \A h \in Callers : ~Writing(h)
  BY <1>1, CallerFacts DEF SessionInv, WriterHoldsLock
<1>3. WriterHoldsLock'
  BY <1>1, <1>2, CallerFacts DEF SessionInv, WriterHoldsLock, Writing
<1>4. CallsAreWellFormed'
  BY <1>1, CallerFacts DEF SessionInv, CallsAreWellFormed
<1>5. LeftIsRest'
  <2>1. \A i \in DOMAIN FramesOf(g) : i + Len(FramesOf(g)) - Len(FramesOf(g)) = i
    BY CallerFacts
  <2>2. Len(FramesOf(g)) <= Len(FramesOf(g))
    BY CallerFacts
  <2> QED
    BY <1>1, <1>2, <2>1, <2>2 DEF LeftIsRest, Writing
<1>6. FramesOwned'
  <2> SUFFICES ASSUME NEW i \in DOMAIN wire
               PROVE  LET h == wire[i].by IN
                      /\ wire[i].n <= call'[h].n
                      /\ call'[h].at = "locking" => wire[i].n < call'[h].n
                      /\ call'[h].at = "writing" /\ wire[i].n = call'[h].n =>
                             wire[Len(wire)].by = h /\ wire[Len(wire)].n = call'[h].n
    BY <1>1 DEF FramesOwned, Writing
  <2>1. wire[i].by \in Callers /\ wire[i].n \in Nat
    BY CallerFacts DEF Frame
  <2>2. CASE wire[i].by = g
    <3>1. wire[i].n < call[g].n /\ call[g].n \in Nat
      BY <1>1, <2>2, CallerFacts DEF SessionInv, FramesOwned, Call
    <3> QED
      BY <1>1, <2>1, <2>2, <3>1
  <2>3. CASE wire[i].by # g
    BY <1>1, <2>1, <2>3 DEF SessionInv, FramesOwned, Writing
  <2> QED
    BY <2>2, <2>3
<1>7. KickCloses' /\ OwnKickEndsLoop' /\ OffersNamePacks'
  <2>1. \A i \in DOMAIN wire : wire[i].by \in Callers
    BY CallerFacts DEF Frame
  <2> QED
    BY <1>1, <1>2, <2>1
    DEF SessionInv, KickCloses, OwnKickEndsLoop, OffersNamePacks
<1>8. WireIsRemembered' /\ LastIsRemembered'
  <2>1. Offered(wire)' = Offered(wire) /\ Offered(wire) = packs
    BY <1>1, CallerFacts DEF Offered, SessionInv, WireIsRemembered
  <2>2. Remembered(g)' = packs
    BY <1>1 DEF Remembered
  <2> QED
    BY <1>1, <1>2, <2>1, <2>2
    DEF SessionInv, WireIsRemembered, LastIsRemembered, Writing
<1> QED
  BY <1>3, <1>4, <1>5, <1>6, <1>7, <1>8 DEF SessionInv

\* The frame a caller writes next.
NextFrame(g) == [by |-> g, n |-> call[g].n, pack |-> call[g].pack,
                 packet |-> Head(call[g].left).packet]

\* An operation on packs and Disconnect write their one packet at once; the
\* packets of all others are plain.
LEMMA NextFrameFacts ==
    ASSUME SessionInv, NEW g \in Callers, Writing(g), call[g].left # <<>>
    PROVE  /\ NextFrame(g) \in Frame
           /\ call[g].op.kind \in PackOps \cup {"Disconnect"} =>
                 /\ NextFrame(g).packet \in PacketsOf(call[g].op.kind)
                 /\ Tail(call[g].left) = <<>>
                 /\ FramesOf(g) # <<>>
           /\ call[g].op.kind \notin PackOps \cup {"Disconnect"} =>
                 NextFrame(g).packet \notin Marked
<1>1. call[g] \in Call /\ FramesOf(g) \in Seq(Pending)
  BY CallerFacts
<1>2. /\ call[g].left \in Seq(Pending) /\ IsRest(call[g].left, FramesOf(g))
      /\ Head(call[g].left) \in Pending
  BY <1>1 DEF SessionInv, LeftIsRest, IsRest, Call
<1>r. \E i \in 1..Len(FramesOf(g)) : Head(call[g].left) = FramesOf(g)[i]
  BY <1>1, <1>2, RestOfRest
<1>3. NextFrame(g) \in Frame
  <2>1. call[g].n \in 0..MaxOps /\ call[g].n > 0
    BY <1>1 DEF SessionInv, CallsAreWellFormed, Writing, Call
  <2>2. call[g].n \in 1..MaxOps /\ call[g].pack \in Packs \cup {NoPack}
    BY <1>1, <2>1, PlaySessionAssumption DEF Call
  <2>3. Head(call[g].left).packet \in DOMAIN ToClient
    BY <1>2 DEF Pending
  <2> QED
    BY <2>2, <2>3 DEF NextFrame, Frame
<1>4. ASSUME call[g].op.kind \in PackOps \cup {"Disconnect"}
      PROVE  /\ NextFrame(g).packet \in PacketsOf(call[g].op.kind)
             /\ Tail(call[g].left) = <<>>
             /\ FramesOf(g) # <<>>
  <2>0. FramesOf(g) # <<>> /\ call[g].op \in Ops
    BY <1>1, <1>r DEF Call
  <2>1. PICK f \in Pending : FramesOf(g) = <<f>> /\ f.packet \in PacketsOf(call[g].op.kind)
    BY <1>4, <2>0, MarkedOutcome DEF FramesOf
  <2>2. Len(FramesOf(g)) = 1 /\ FramesOf(g)[1] = f
    BY <2>1
  <2>3. Head(call[g].left) = f /\ Len(call[g].left) = 1
    <3>1. Len(call[g].left) \in Nat /\ Len(call[g].left) # 0
      BY <1>2, EmptySeq
    <3>2. Len(call[g].left) <= 1
      BY <1>2, <2>2 DEF IsRest
    <3>3. Head(call[g].left) = FramesOf(g)[1]
      BY <1>r, <2>2
    <3>4. \A n \in Nat : n # 0 /\ n <= 1 => n = 1
      OBVIOUS
    <3> QED
      BY <2>2, <3>1, <3>2, <3>3, <3>4
  <2>4. Tail(call[g].left) = <<>>
    BY <1>1, <1>2, <2>3, RestOfRest
  <2> QED
    BY <2>1, <2>3, <2>4 DEF NextFrame
<1>5. ASSUME call[g].op.kind \notin PackOps \cup {"Disconnect"}
      PROVE  NextFrame(g).packet \notin Marked
  <2>1. FramesOf(g) \in Seq(Plain)
    BY <1>1, <1>5, PlainOutcome DEF FramesOf, Call, Results
  <2>2. Head(call[g].left) \in Plain
    BY <1>r, <2>1
  <2> QED
    BY <2>2 DEF NextFrame, Plain
<1> QED
  BY <1>3, <1>4, <1>5

\* Nothing has been written after a kick.
LEMMA NoKickYet ==
    ASSUME SessionInv, NEW g \in Callers, Writing(g), call[g].left # <<>>, connOpen
    PROVE  \A i \in DOMAIN wire : wire[i].packet # "kick_disconnect"
<1> SUFFICES ASSUME NEW i \in DOMAIN wire, wire[i].packet = "kick_disconnect" PROVE FALSE
  OBVIOUS
<1>1. Writing(wire[i].by) /\ call[wire[i].by].left = <<>> /\ wire[i].by \in Callers
  BY CallerFacts DEF SessionInv, KickCloses, Frame
<1> QED
  BY <1>1 DEF SessionInv, WriterHoldsLock

LEMMA WriteInv ==
    ASSUME SessionInv, TypeOK', NEW g \in Callers, Write(g) PROVE SessionInv'
<1> USE DEF connVars, packVars, loopVars
<1> DEFINE f == NextFrame(g)
<1>1. /\ UNCHANGED <<packs, lastPack, lock, closed, connOpen, keep, handler>>
      /\ \A h \in Callers \ {g} : call'[h] = call[h]
      /\ call[g].at = "writing" /\ call'[g].at = "writing"
      /\ call'[g].n = call[g].n /\ call'[g].op = call[g].op /\ call'[g].pack = call[g].pack
      /\ call[g].left # <<>> /\ call'[g].left = Tail(call[g].left)
      /\ FramesOf(g)' = FramesOf(g)
      /\ wire' = Append(wire, f) /\ connOpen
  BY DEF Write, SessionInv, TypeOK, FramesOf, NextFrame
<1>2. /\ f \in Frame
      /\ call[g].op.kind \in PackOps \cup {"Disconnect"} =>
             f.packet \in PacketsOf(call[g].op.kind) /\ call'[g].left = <<>>
             /\ FramesOf(g) # <<>>
      /\ call[g].op.kind \notin PackOps \cup {"Disconnect"} => f.packet \notin Marked
  BY <1>1, NextFrameFacts DEF Writing
<1>3. /\ DOMAIN wire' = DOMAIN wire \cup {Len(wire')}
      /\ \A i \in DOMAIN wire : wire'[i] = wire[i]
      /\ wire'[Len(wire')] = f
  BY <1>1, <1>2, CallerFacts
<1>4. f.by = g /\ f.n = call[g].n /\ f.pack = call[g].pack
  BY DEF NextFrame
<1>o. \A h \in Callers \ {g} : ~Writing(h)
  BY <1>1 DEF SessionInv, WriterHoldsLock, Writing
<1> HIDE DEF f
<1>5. WriterHoldsLock' /\ CallsAreWellFormed'
  BY <1>1, CallerFacts DEF SessionInv, WriterHoldsLock, CallsAreWellFormed, Writing
<1>6. LeftIsRest'
  <2>1. /\ call[g].left \in Seq(Pending) /\ FramesOf(g) \in Seq(Pending)
        /\ IsRest(call[g].left, FramesOf(g))
    BY <1>1, CallerFacts DEF SessionInv, LeftIsRest, IsRest, Writing, Call
  <2>2. IsRest(Tail(call[g].left), FramesOf(g))
    BY <1>1, <2>1, RestOfRest
  <2> QED
    BY <1>1, <1>o, <2>2 DEF LeftIsRest, IsRest, Writing
<1>7. FramesOwned'
  <2> SUFFICES ASSUME NEW i \in DOMAIN wire'
               PROVE  LET h == wire'[i].by IN
                      /\ wire'[i].n <= call'[h].n
                      /\ call'[h].at = "locking" => wire'[i].n < call'[h].n
                      /\ call'[h].at = "writing" /\ wire'[i].n = call'[h].n =>
                             wire'[Len(wire')].by = h /\ wire'[Len(wire')].n = call'[h].n
    BY DEF FramesOwned, Writing
  <2>1. call[g].n \in Nat /\ call[g].n <= call[g].n
    BY CallerFacts DEF Call
  <2>2. CASE i = Len(wire')
    BY <1>1, <1>3, <1>4, <2>1, <2>2
  <2>3. CASE i \in DOMAIN wire
    <3>1. wire'[i] = wire[i] /\ wire[i].by \in Callers
      BY <1>3, <2>3, CallerFacts DEF Frame
    <3>2. CASE wire[i].by = g
      BY <1>1, <1>3, <1>4, <2>3, <3>1, <3>2 DEF SessionInv, FramesOwned
    <3>3. CASE wire[i].by # g
      BY <1>1, <1>o, <2>3, <3>1, <3>3 DEF SessionInv, FramesOwned, Writing
    <3> QED
      BY <3>2, <3>3
  <2> QED
    BY <1>3, <2>2, <2>3
<1>8. f.packet = "kick_disconnect" => call[g].op.kind = "Disconnect" /\ call'[g].left = <<>>
  BY <1>2 DEF Marked, PackOps, PacketsOf
<1>9. KickCloses'
  <2>1. \A i \in DOMAIN wire : wire[i].packet # "kick_disconnect"
    BY <1>1, NoKickYet DEF Writing
  <2> QED
    BY <1>1, <1>3, <1>4, <1>8, <2>1 DEF KickCloses, Writing
<1>10. OwnKickEndsLoop'
  <2>1. CASE g = Handler
    BY <1>1, <2>1 DEF SessionInv, CallsAreWellFormed, OwnKickEndsLoop
  <2>2. CASE g # Handler
    BY <1>1, <1>3, <1>4, <2>2 DEF SessionInv, OwnKickEndsLoop
  <2> QED
    BY <2>1, <2>2
<1>11. f.packet \in Offer =>
           call[g].op.kind = "AddResourcePack" /\ f.pack \in Packs
  <2>1. f.packet \in Offer => call[g].op.kind = "AddResourcePack"
    BY <1>2 DEF Offer, Marked, PackOps, PacketsOf
  <2>2. call[g].op.kind \in PackOps => call[g].pack \in Packs
    BY <1>1, CallerFacts DEF SessionInv, CallsAreWellFormed, Call
  <2> QED
    BY <1>4, <2>1, <2>2 DEF PackOps
<1>12. OffersNamePacks'
  BY <1>3, <1>11 DEF SessionInv, OffersNamePacks, Offer
<1>13. WireIsRemembered'
  <2>1. Offered(wire)' =
            IF f.packet \in Offer THEN Offered(wire) \cup {f.pack}
            ELSE IF f.packet = "remove_resource_pack" THEN Offered(wire) \ {f.pack}
            ELSE Offered(wire)
    <3>1. Offered(wire)' = Offered(Append(wire, f))
      BY <1>1 DEF Offered
    <3> QED
      BY <1>2, <1>11, <3>1, CallerFacts, OfferedAppend
  <2>2. Offered(wire) = packs
    BY <1>1 DEF SessionInv, WireIsRemembered, Remembered, Writing
  <2>3. Offered(wire)' = Remembered(g)'
    <3>1. CASE call[g].op.kind = "AddResourcePack"
      BY <1>1, <1>2, <1>4, <2>1, <2>2, <3>1 DEF Remembered, PacketsOf, PackOps, Offer
    <3>2. CASE call[g].op.kind = "RemoveResourcePack"
      BY <1>1, <1>2, <1>4, <2>1, <2>2, <3>2 DEF Remembered, PacketsOf, PackOps, Offer
    <3>3. CASE call[g].op.kind \notin PackOps
      <4>1. f.packet \notin Offer \cup {"remove_resource_pack"}
        BY <1>2, <3>3 DEF Marked, Offer, PacketsOf, PackOps
      <4> QED
        BY <1>1, <2>1, <2>2, <3>3, <4>1 DEF Remembered, PackOps
    <3> QED
      BY <3>1, <3>2, <3>3 DEF PackOps
  <2>4. lock' \in Callers
    BY <1>1 DEF SessionInv, WriterHoldsLock, Writing
  <2> QED
    BY <1>1, <1>o, <2>3, <2>4 DEF WireIsRemembered, Writing
<1>14. LastIsRemembered'
  BY <1>1 DEF SessionInv, LastIsRemembered
<1> QED
  BY <1>5, <1>6, <1>7, <1>9, <1>10, <1>12, <1>13, <1>14 DEF SessionInv

\* A method that ends records what it has written, no more and no less.
LEMMA FinishInv ==
    ASSUME SessionInv, TypeOK', NEW g \in Callers, Finish(g) PROVE SessionInv'
<1> USE DEF connVars, packVars, loopVars
<1>1. /\ UNCHANGED <<wire, keep, handler>>
      /\ \A h \in Callers \ {g} : call'[h] = call[h]
      /\ call[g].at = "writing" /\ call'[g].at = "idle" /\ call'[g].n = call[g].n
      /\ closed => closed'
      /\ connOpen' => connOpen
  BY DEF Finish, CloseIfDisconnect, SessionInv, TypeOK, Idle
<1>2. lock = g /\ lock' = Nobody /\ \A h \in Callers \ {g} : ~Writing(h)
  BY <1>1 DEF SessionInv, WriterHoldsLock, Writing, Finish
<1>3. WriterHoldsLock' /\ CallsAreWellFormed' /\ LeftIsRest'
  BY <1>1, <1>2, CallerFacts
  DEF SessionInv, WriterHoldsLock, CallsAreWellFormed, LeftIsRest, Writing
<1>4. FramesOwned'
  <2> SUFFICES ASSUME NEW i \in DOMAIN wire
               PROVE  LET h == wire[i].by IN
                      /\ wire[i].n <= call'[h].n
                      /\ call'[h].at = "locking" => wire[i].n < call'[h].n
                      /\ call'[h].at # "writing"
    BY <1>1 DEF FramesOwned, Writing
  <2>1. wire[i].by \in Callers
    BY CallerFacts DEF Frame
  <2>2. CASE wire[i].by = g
    BY <1>1, <2>1, <2>2 DEF SessionInv, FramesOwned
  <2>3. CASE wire[i].by # g
    BY <1>1, <1>2, <2>1, <2>3 DEF SessionInv, FramesOwned, Writing
  <2> QED
    BY <2>2, <2>3
<1>5. KickCloses'
  <2>1. \A i \in DOMAIN wire : wire[i].packet = "kick_disconnect" => wire[i].by \in Callers
    BY CallerFacts DEF Frame
  <2>2. call[g].op.kind = "Disconnect" => closed' = TRUE /\ connOpen' = FALSE
    BY DEF Finish, CloseIfDisconnect
  <2>3. closed \in BOOLEAN /\ connOpen \in BOOLEAN /\ closed' \in BOOLEAN /\ connOpen' \in BOOLEAN
    BY DEF SessionInv, TypeOK
  <2>4. ASSUME NEW i \in DOMAIN wire, wire[i].packet = "kick_disconnect"
        PROVE  closed' /\ ~connOpen'
    <3>1. CASE closed /\ ~connOpen
      BY <1>1, <2>3, <3>1
    <3>2. CASE Writing(wire[i].by) /\ call[wire[i].by].op.kind = "Disconnect"
      <4>1. wire[i].by = g
        BY <1>2, <2>1, <2>4, <3>2
      <4> QED
        BY <2>2, <3>2, <4>1
    <3> QED
      BY <2>4, <3>1, <3>2 DEF SessionInv, KickCloses
  <2> QED
    BY <1>1, <2>4 DEF KickCloses
<1>6. OwnKickEndsLoop' /\ OffersNamePacks'
  BY <1>1 DEF SessionInv, OwnKickEndsLoop, OffersNamePacks
<1>7. packs' = Remembered(g)
  <2>1. call[g].op \in Ops
    BY CallerFacts DEF Call
  <2>2. call[g].op.kind \in PackOps =>
            (Outcome(Protocol, call[g].op).err = "none" <=> FramesOf(g) # <<>>)
    <3> SUFFICES ASSUME call[g].op.kind \in PackOps
                 PROVE  Outcome(Protocol, call[g].op).err = "none" <=> FramesOf(g) # <<>>
      OBVIOUS
    <3>1. \/ FramesOf(g) = <<>> /\ Outcome(Protocol, call[g].op).err # "none"
          \/ /\ Outcome(Protocol, call[g].op).err = "none"
             /\ \E f \in Pending : FramesOf(g) = <<f>>
      BY <2>1, MarkedOutcome DEF FramesOf
    <3>2. \A f \in Pending : <<f>> # <<>>
      OBVIOUS
    <3> QED
      BY <3>1, <3>2
  <2>3. CASE call[g].op.kind = "AddResourcePack"
    BY <2>2, <2>3 DEF Finish, AfterWrite, Remember, Remembered, PackOps
  <2>4. CASE call[g].op.kind = "RemoveResourcePack"
    BY <2>2, <2>4 DEF Finish, AfterWrite, Forget, Remembered, PackOps
  <2>5. CASE call[g].op.kind \notin PackOps
    BY <2>5 DEF Finish, AfterWrite, Remembered, PackOps
  <2> QED
    BY <2>3, <2>4, <2>5 DEF PackOps
<1>8. WireIsRemembered'
  <2>1. Offered(wire)' = Offered(wire)
    BY <1>1 DEF Offered
  <2>2. Offered(wire) = Remembered(g)
    BY <1>1 DEF SessionInv, WireIsRemembered, Writing
  <2>3. \A h \in Callers : ~Writing(h)'
    BY <1>1, <1>2 DEF Writing
  <2> QED
    BY <1>7, <2>1, <2>2, <2>3 DEF WireIsRemembered
<1>9. LastIsRemembered'
  <2>1. CASE UNCHANGED packVars
    BY <2>1 DEF SessionInv, LastIsRemembered
  <2>2. CASE Remember(call[g].pack)
    BY <2>2 DEF Remember, LastIsRemembered
  <2>3. CASE Forget(call[g].pack)
    BY <2>3 DEF Forget, LastIsRemembered
  <2> QED
    BY <2>1, <2>2, <2>3 DEF Finish, AfterWrite
<1> QED
  BY <1>3, <1>4, <1>5, <1>6, <1>8, <1>9 DEF SessionInv

LEMMA NextSessionInv == SessionInv /\ [Next]_vars => SessionInv'
<1> SUFFICES ASSUME SessionInv, [Next]_vars PROVE SessionInv'
  OBVIOUS
<1>t. TypeOK'
  BY NextType
<1> QED
  BY <1>t, BeginInv, AcquireInv, WriteInv, FinishInv, HandlerStepInv, KeepStepInv,
     OutsideStepInv
  DEF Next, Proceed, Terminated

LEMMA SessionInvHolds == Spec => []SessionInv
  BY InitSessionInv, NextSessionInv, PTL DEF Spec

\* The session's state keeps its type, for any protocol and any number of callers.
THEOREM TypeCorrect == Spec => []TypeOK
<1>1. SessionInv => TypeOK
  BY DEF SessionInv
<1> QED
  BY <1>1, SessionInvHolds, PTL

-----------------------------------------------------------------------------
(***************************************************************************)
(* The serial session.                                                     *)
(***************************************************************************)

\* A frame that is written continues the operation in progress or begins one.
LEMMA WriteSends ==
    ASSUME SessionInv, NEW g \in Callers, Write(g) PROVE Serial!Next
<1> DEFINE f == NextFrame(g)
<1>1. /\ Writing(g) /\ call[g].left # <<>> /\ connOpen
      /\ wire' = Append(wire, f) /\ UNCHANGED <<connOpen, packs>>
  BY DEF Write, Writing, NextFrame, packVars
<1>2. f \in Frame /\ wire \in Seq(Frame)
  BY <1>1, NextFrameFacts, CallerFacts
<1>3. \A h \in Serial!Range(wire) : h.packet # "kick_disconnect"
  BY <1>1, NoKickYet DEF Serial!Range
<1>4. \A h \in Serial!Range(wire) :
          Serial!SameOperation(f, h) => Serial!SameOperation(f, Serial!Last(wire))
  BY <1>1 DEF Serial!Range, Serial!SameOperation, Serial!Last, NextFrame, SessionInv, FramesOwned
<1>5. Serial!Send(f)
  BY <1>1, <1>3, <1>4 DEF Serial!Send
<1>6. wire' # wire
  BY <1>1, <1>2
<1> QED
  BY <1>2, <1>5, <1>6 DEF Serial!Next

\* Every other step is invisible, ends the connection, or completes an operation.
LEMMA StepImplements ==
    ASSUME SessionInv, SessionInv', [Next]_vars PROVE [Serial!Next]_(Serial!vars)
<1> USE DEF connVars, packVars, loopVars
<1>1. ASSUME NEW g \in Callers, Finish(g) PROVE [Serial!Next]_(Serial!vars)
  <2>1. wire' = wire
    BY <1>1 DEF Finish
  <2>2. CASE call[g].op.kind = "Disconnect"
    BY <1>1, <2>1, <2>2
    DEF Finish, AfterWrite, CloseIfDisconnect, Serial!Next, Serial!End, Serial!vars
  <2>3. CASE call[g].op.kind # "Disconnect"
    <3>1. UNCHANGED connOpen
      BY <1>1, <2>3 DEF Finish, CloseIfDisconnect
    <3>2. lock' \notin Callers
      BY <1>1, CallerFacts DEF Finish, SessionInv, WriterHoldsLock, Writing
    <3>3. packs' = Offered(wire)
      BY <2>1, <3>2 DEF SessionInv, WireIsRemembered, Offered
    <3>4. Serial!Standing = Offered(wire)
      BY CallerFacts, StandingIsOffered DEF SessionInv
    <3> QED
      BY <2>1, <3>1, <3>3, <3>4 DEF Serial!Next, Serial!Settle
  <2> QED
    BY <2>2, <2>3
<1>2. ASSUME NEW g \in Callers, Write(g) PROVE [Serial!Next]_(Serial!vars)
  BY <1>2, WriteSends
<1>3. ASSUME UNCHANGED <<wire, packs>>, connOpen' = FALSE \/ UNCHANGED connOpen
      PROVE  [Serial!Next]_(Serial!vars)
  BY <1>3 DEF Serial!Next, Serial!End, Serial!vars
<1>4. CASE KeepStep
  <2>1. wire' = wire
    BY <1>4, KeepWriteSilent DEF KeepStep, KeepStop, KeepTick, KeepAcquire, KeepFail
  <2> QED
    BY <1>3, <1>4, <2>1 DEF KeepStep, KeepStop, KeepTick, KeepAcquire, KeepWrite, KeepFail
<1>5. CASE HandlerStep
  BY <1>3, <1>5
  DEF HandlerStep, CallbackReturn, CheckClosed, Read, ReadError, Lookup, HandlerReturn
<1>6. ASSUME NEW g \in Callers, NEW op \in AppOps, NEW pack \in Packs \cup {NoPack},
             Begin(g, op, pack) \/ Acquire(g)
      PROVE  [Serial!Next]_(Serial!vars)
  BY <1>3, <1>6 DEF Begin, Acquire
<1>a. ASSUME NEW g \in Callers, Acquire(g) PROVE [Serial!Next]_(Serial!vars)
  BY <1>3, <1>a DEF Acquire
<1>7. ASSUME NEW packet, ClientSend(packet) PROVE [Serial!Next]_(Serial!vars)
  BY <1>3, <1>7 DEF ClientSend
<1>8. CASE ClientLeave \/ ContextDone \/ ServerClose \/ UNCHANGED vars
  BY <1>3, <1>8 DEF ClientLeave, ContextDone, ServerClose, vars
<1> QED
  BY <1>1, <1>2, <1>4, <1>5, <1>6, <1>a, <1>7, <1>8 DEF Next, Proceed, Terminated

\* For any protocol, any number of concurrent callers and any operations, what
\* the client receives and the session remembers is that of operations made one
\* after another, with nothing after a kick or the end of the connection.
THEOREM Refinement == Spec => ImplementsSession
<1>1. Init => Serial!Init
  BY DEF Init, Serial!Init
<1> QED
  BY <1>1, SessionInvHolds, StepImplements, PTL DEF Spec, ImplementsSession, Serial!Spec

-----------------------------------------------------------------------------
(***************************************************************************)
(* Resource packs and their names.                                         *)
(***************************************************************************)

LEMMA PackFacts ==
    /\ NoPack \notin Packs
    /\ \A p \in Packs : Uuid[p] \in KeysOf(p) /\ KeysOf(p) \subseteq Keys
  BY PlaySessionAssumption DEF KeysOf, Keys

LEMMA NextNames ==
    ASSUME DistinctNames PROVE SessionInv /\ NamesAreOwn /\ [Next]_vars => NamesAreOwn'
<1> SUFFICES ASSUME SessionInv, NamesAreOwn, [Next]_vars PROVE NamesAreOwn'
  OBVIOUS
<1> USE PackFacts DEF connVars, packVars, loopVars
<1>1. ASSUME UNCHANGED <<packs, protocolIDs, report>> PROVE NamesAreOwn'
  BY <1>1 DEF NamesAreOwn, NeverAnotherPack
<1>2. ASSUME NEW id \in Packs, Remember(id), UNCHANGED report PROVE NamesAreOwn'
  <2>1. packs' = packs \cup {id}
    BY <1>2 DEF Remember
  <2>2. \A k \in Keys : protocolIDs'[k] = IF k \in KeysOf(id) THEN id ELSE protocolIDs[k]
    BY <1>2 DEF Remember
  <2>3. \A p \in Packs \ {id} : \A k \in KeysOf(p) : k \in Keys /\ k \notin KeysOf(id)
    BY DEF DistinctNames
  <2> QED
    BY <1>2, <2>1, <2>2, <2>3 DEF NamesAreOwn, NeverAnotherPack
<1>3. ASSUME NEW id \in Packs, Forget(id), UNCHANGED report PROVE NamesAreOwn'
  <2> DEFINE gone == IF id \in packs THEN KeysOf(id) ELSE {Uuid[id]}
  <2>1. packs' = packs \ {id}
    BY <1>3 DEF Forget
  <2>2. \A k \in Keys : protocolIDs'[k] = IF k \in gone THEN NoPack ELSE protocolIDs[k]
    BY <1>3 DEF Forget
  <2>3. gone \subseteq KeysOf(id) /\ Uuid[id] \in gone
    OBVIOUS
  <2>4. \A p \in Packs \ {id} : \A k \in KeysOf(p) : k \in Keys /\ k \notin KeysOf(id)
    BY DEF DistinctNames
  <2> HIDE DEF gone
  <2> QED
    BY <1>3, <2>1, <2>2, <2>3, <2>4 DEF NamesAreOwn, NeverAnotherPack
<1>4. ASSUME NEW g \in Callers, Finish(g) PROVE NamesAreOwn'
  <2>1. call[g].op.kind \in PackOps => call[g].pack \in Packs
    BY <1>4, CallerFacts DEF Finish, SessionInv, CallsAreWellFormed, Call
  <2> QED
    BY <1>1, <1>2, <1>3, <1>4, <2>1 DEF Finish, AfterWrite, PackOps
<1>5. CASE Lookup
  <2>1. response \in Packs /\ report' = <<response, ReportedPack(response)>>
    BY <1>5 DEF Lookup, SessionInv, TypeOK
  <2>2. Named(response) # NoKey => Named(response) \in KeysOf(response)
    BY <2>1 DEF Named, KeysOf, PackIDMode
  <2>3. Named(response) # NoKey => ReportedPack(response) \in {response, NoPack}
    BY <2>1, <2>2 DEF ReportedPack, NamesAreOwn
  <2>4. UNCHANGED <<packs, protocolIDs>>
    BY <1>5 DEF Lookup
  <2>5. report'[1] = response /\ report'[2] = ReportedPack(response)
    BY <2>1
  <2>6. NeverAnotherPack'
    BY <2>1, <2>3, <2>5 DEF NeverAnotherPack, Named
  <2> QED
    BY <2>1, <2>4, <2>5, <2>6 DEF NamesAreOwn
<1>6. CASE HandlerStep
  BY <1>1, <1>5, <1>6
  DEF HandlerStep, CallbackReturn, CheckClosed, Read, ReadError, HandlerReturn
<1>7. CASE KeepStep
  BY <1>1, <1>7 DEF KeepStep, KeepStop, KeepTick, KeepAcquire, KeepWrite, KeepFail
<1>8. ASSUME NEW g \in Callers, NEW op \in AppOps, NEW pack \in Packs \cup {NoPack},
             Begin(g, op, pack)
      PROVE  NamesAreOwn'
  BY <1>1, <1>8 DEF Begin
<1>9. ASSUME NEW g \in Callers, Acquire(g) \/ Write(g) PROVE NamesAreOwn'
  BY <1>1, <1>9 DEF Acquire, Write
<1>10. ASSUME NEW packet, ClientSend(packet) PROVE NamesAreOwn'
  BY <1>1, <1>10 DEF ClientSend
<1>11. CASE ClientLeave \/ ContextDone \/ ServerClose \/ UNCHANGED vars
  BY <1>1, <1>11 DEF ClientLeave, ContextDone, ServerClose, vars
<1> QED
  BY <1>4, <1>6, <1>7, <1>8, <1>9, <1>10, <1>11 DEF Next, Proceed, Terminated

LEMMA NamesAreOwnHolds ==
    ASSUME DistinctNames PROVE Spec => []NamesAreOwn
<1>1. Init => NamesAreOwn
  <2> SUFFICES ASSUME Init PROVE NamesAreOwn
    OBVIOUS
  <2>1. packs = {} /\ report[1] = NoPack /\ \A k \in Keys : protocolIDs[k] = NoPack
    BY DEF Init
  <2> QED
    BY <2>1, PackFacts DEF NamesAreOwn, NeverAnotherPack
<1>2. SessionInv /\ NamesAreOwn /\ [Next]_vars => NamesAreOwn'
  BY NextNames
<1> QED
  BY <1>1, <1>2, SessionInvHolds, PTL DEF Spec

\* As long as no two packs share a uuid or a hash, whatever is added, removed and
\* answered in whatever order, a response that names its pack is reported under
\* that pack's ID or under the name itself, on every protocol.
THEOREM OwnPackReported ==
    ASSUME DistinctNames PROVE Spec => []NeverAnotherPack
<1>1. NamesAreOwn => NeverAnotherPack
  BY DEF NamesAreOwn
<1> QED
  BY <1>1, NamesAreOwnHolds, PTL

\* As long as no two packs share a uuid or a hash, the session remembers exactly
\* the packs its client was offered, and finds each under its uuid, whenever
\* s.mu is free: neither failed writes nor concurrent calls make them differ.
THEOREM RememberedAsOffered ==
    ASSUME DistinctNames PROVE Spec => []PacksMatchWire
<1>1. SessionInv /\ NamesAreOwn => PacksMatchWire
  <2> SUFFICES ASSUME SessionInv, NamesAreOwn, lock = Nobody PROVE PacksMatchWire
    BY DEF PacksMatchWire
  <2>1. packs = Offered(wire)
    BY CallerFacts, PlaySessionAssumption DEF SessionInv, WireIsRemembered, Callers
  <2>2. packs \subseteq Packs
    BY DEF SessionInv, TypeOK
  <2>3. \A p \in Packs : protocolIDs[Uuid[p]] # NoPack <=> p \in packs
    BY PackFacts DEF NamesAreOwn
  <2>4. {k \in Keys : protocolIDs[k] # NoPack} \cap {Uuid[p] : p \in Packs}
            = {Uuid[p] : p \in packs}
    BY <2>2, <2>3, PackFacts
  <2> QED
    BY <2>1, <2>4 DEF PacksMatchWire, SessionInv, LastIsRemembered
<1> QED
  BY <1>1, SessionInvHolds, NamesAreOwnHolds, PTL

\* Once a callback has kicked its own player the handler enters no other
\* callback, whatever packets were buffered.
THEOREM NoCallbackAfterKick == Spec => NoCallbackAfterOwnKick
<1>1. SessionInv /\ [Next]_vars =>
          [handler # "callback" /\ handler' = "callback" =>
               \A i \in DOMAIN wire :
                   ~(wire[i].by = Handler /\ wire[i].packet = "kick_disconnect")]_vars
  <2> SUFFICES ASSUME SessionInv, [Next]_vars, handler # "callback", handler' = "callback"
               PROVE  handler \in {"read", "lookup"}
    BY DEF SessionInv, OwnKickEndsLoop
  <2> QED
    BY DEF Next, vars, Proceed, Begin, Acquire, Write, Finish, HandlerStep, CallbackReturn,
           CheckClosed, AfterClosed, Read, ReadError, AfterReadError, Lookup, HandlerReturn,
           KeepStep, KeepStop, KeepTick, KeepAcquire, KeepWrite, KeepFail, ClientSend,
           ClientLeave, ContextDone, ServerClose, Terminated, loopVars
<1> QED
  BY <1>1, SessionInvHolds, PTL DEF Spec, NoCallbackAfterOwnKick

=============================================================================
