----------------------------- MODULE PlayPackets -----------------------------
(***************************************************************************)
(* What each operation of a playSession writes, protocol by protocol       *)
(* (play_events.go): the packets, by name, in order, and the error it      *)
(* returns.  The packet tables are those of packetid_gen.go and            *)
(* packetid_775.go, reduced to the names this code looks up: every one of  *)
(* them is defined for one interval of protocol numbers.  Text is left     *)
(* out; what is kept of a payload is the form a text component is encoded  *)
(* in and the action number of the title packet.                           *)
(***************************************************************************)
EXTENDS Integers, Sequences

\* The protocols with a table of their own, and packetid.aliasProtocol.
Tables == {5, 47, 107, 109, 110, 210, 315, 335, 338, 340, 393, 401, 404, 477,
           480, 490, 498, 573, 575, 578, 735, 736, 751, 755, 756}
          \cup 757..775
Alias == [p \in {316, 753, 754} |-> IF p = 316 THEN 315 ELSE 751]

\* The protocols serveLogin dispatches to an adapter that reaches play.
PlayProtocols == (Tables \ {5}) \cup DOMAIN Alias

\* First and last protocol whose table holds a clientbound play packet.
ToClient ==
    [keep_alive |-> <<5, 775>>,          system_chat |-> <<759, 775>>,
     chat |-> <<5, 758>>,                action_bar |-> <<755, 775>>,
     title |-> <<47, 751>>,              set_title_text |-> <<755, 775>>,
     set_title_subtitle |-> <<755, 775>>, set_title_time |-> <<755, 775>>,
     clear_titles |-> <<755, 775>>,      show_dialog |-> <<771, 775>>,
     clear_dialog |-> <<771, 775>>,      add_resource_pack |-> <<765, 775>>,
     resource_pack_send |-> <<47, 764>>, remove_resource_pack |-> <<765, 775>>,
     store_cookie |-> <<766, 775>>,      transfer |-> <<766, 775>>,
     kick_disconnect |-> <<5, 775>>]

\* The same for the serverbound play packets handlePlayPacket knows.
ToServer ==
    [chat |-> <<5, 758>>,                chat_message |-> <<759, 775>>,
     chat_command |-> <<759, 775>>,      chat_command_signed |-> <<766, 774>>,
     custom_click_action |-> <<771, 775>>,
     resource_pack_receive |-> <<47, 775>>]

\* packetid.Lookup, then a search of the table: whether packetid.ID finds name.
Has(table, p, name) ==
    LET q == IF p \in Tables THEN p ELSE Alias[p]
    IN  table[name][1] <= q /\ q <= table[name][2]

-----------------------------------------------------------------------------
(***************************************************************************)
(* Outcomes of a write: the frames that reached the connection and the     *)
(* error.  "unsupported" wraps ErrUnsupportedCapability, "invalid" wraps   *)
(* ErrInvalidSessionControl, "plain" wraps neither.                        *)
(***************************************************************************)

Fail(err) == [frames |-> <<>>, err |-> err]

\* The next write, if the one before it succeeded.
Then(first, second) ==
    IF first.err = "none"
    THEN [frames |-> first.frames \o second.frames, err |-> second.err]
    ELSE first

Nothing == Fail("none")

\* writeComponentPayload: NBT from protocol 765 on, a JSON string before.
Form(p) == IF p >= 765 THEN "nbt" ELSE "json"

\* One packet, looked up by name; action is -1 where the packet has none.
Packet(p, name, action, form) ==
    IF Has(ToClient, p, name)
    THEN [frames |-> <<[packet |-> name, action |-> action, form |-> form]>>,
          err |-> "none"]
    ELSE Fail("unsupported")

writeKeepAlive(p) ==
    IF Has(ToClient, p, "keep_alive") THEN Packet(p, "keep_alive", -1, "none")
                                      ELSE Nothing

writeSystemMessage(p) ==
    IF p >= 765
    THEN IF Has(ToClient, p, "system_chat")
         THEN Packet(p, "system_chat", -1, "nbt") ELSE Fail("plain")
    ELSE IF Has(ToClient, p, "system_chat")
         THEN Packet(p, "system_chat", -1, "json")
    ELSE IF Has(ToClient, p, "chat")
         THEN Packet(p, "chat", -1, "json") ELSE Fail("plain")

writeLegacyTitleText(p, action) == Packet(p, "title", action, Form(p))

writeActionBar(p) ==
    IF Has(ToClient, p, "action_bar") THEN Packet(p, "action_bar", -1, Form(p))
    ELSE IF p >= 340 THEN writeLegacyTitleText(p, 2)
    ELSE Fail("unsupported")

\* The action number of the title packet that sets the times.
TimesAction(p) == IF p >= 340 THEN 3 ELSE 2

\* The parts of a title are written in the order times, title, subtitle, each
\* only if given; a title without any of them is refused.
writeTitle(p, parts) ==
    LET modern == Has(ToClient, p, "set_title_text")
        Part(part, name, action, form) ==
            IF part \notin parts THEN Nothing
            ELSE IF modern THEN Packet(p, name, -1, form)
            ELSE Packet(p, "title", action, form)
    IN  IF parts = {} THEN Fail("invalid")
        ELSE IF ~modern /\ ~Has(ToClient, p, "title") THEN Fail("unsupported")
        ELSE Then(Part("times", "set_title_time", TimesAction(p), "none"),
             Then(Part("title", "set_title_text", 0, Form(p)),
                  Part("subtitle", "set_title_subtitle", 1, Form(p))))

\* Mutant: the numbers of the old title packet on every protocol.
ClearActionOld(p, reset) == IF reset THEN 4 ELSE 3

ClearAction(p, reset) ==
    IF p >= 340 THEN (IF reset THEN 5 ELSE 4) ELSE (IF reset THEN 4 ELSE 3)

writeClearTitle(p, reset) ==
    IF Has(ToClient, p, "clear_titles")
    THEN Packet(p, "clear_titles", -1, "none")
    ELSE Packet(p, "title", ClearAction(p, reset), "none")

writeShowDialog(p, missing) ==
    IF ~Has(ToClient, p, "show_dialog") \/ missing
    THEN Fail("plain") ELSE Packet(p, "show_dialog", -1, "nbt")

writeClearDialog(p) ==
    IF ~Has(ToClient, p, "clear_dialog")
    THEN Fail("plain") ELSE Packet(p, "clear_dialog", -1, "none")

\* writeOptionalResourcePackPrompt and writeOptionalResourcePackPromptJSON:
\* before protocol 757 the old packet has no prompt.
PromptForm(p) ==
    IF Has(ToClient, p, "add_resource_pack") THEN "nbt"
    ELSE IF p >= 757 THEN "json" ELSE "none"

writeResourcePack(p, missing) ==
    IF missing THEN Fail("invalid")
    ELSE IF Has(ToClient, p, "add_resource_pack")
         THEN Packet(p, "add_resource_pack", -1, PromptForm(p))
         ELSE Packet(p, "resource_pack_send", -1, PromptForm(p))

writeRemoveResourcePack(p, missing) ==
    IF missing THEN Fail("invalid")
               ELSE Packet(p, "remove_resource_pack", -1, "none")

\* writeStoreCookie and writeTransfer look the packet up before they check
\* their arguments.
writeStoreCookie(p, missing) ==
    IF missing /\ Has(ToClient, p, "store_cookie")
    THEN Fail("invalid") ELSE Packet(p, "store_cookie", -1, "none")

writeTransfer(p, missing) ==
    IF missing /\ Has(ToClient, p, "transfer")
    THEN Fail("invalid") ELSE Packet(p, "transfer", -1, "none")

writeKickDisconnect(p) == Packet(p, "kick_disconnect", -1, Form(p))

-----------------------------------------------------------------------------
(***************************************************************************)
(* The operations of a session.  args names what the call carries: the     *)
(* parts of a title, "reset", or "missing" where a required argument is    *)
(* empty or out of range.                                                  *)
(***************************************************************************)

Op(kind, args) == [kind |-> kind, args |-> args]

Ops ==
    {Op("ShowTitle", parts) : parts \in SUBSET {"times", "title", "subtitle"}}
    \cup {Op("ClearTitle", args) : args \in {{}, {"reset"}}}
    \cup {Op(kind, args) : kind \in {"ShowDialog", "AddResourcePack",
                                     "RemoveResourcePack", "StoreCookie",
                                     "Transfer"},
                           args \in {{}, {"missing"}}}
    \cup {Op(kind, {}) : kind \in {"SendMessage", "SendActionBar",
                                   "ClearDialog", "Disconnect"}}

WellFormed(op) ==
    "missing" \notin op.args /\ (op.kind = "ShowTitle" => op.args # {})

\* What the method of that name writes and returns.
Outcome(p, op) ==
    LET missing == "missing" \in op.args
    IN  CASE op.kind = "SendMessage"        -> writeSystemMessage(p)
          [] op.kind = "SendActionBar"      -> writeActionBar(p)
          [] op.kind = "ShowTitle"          -> writeTitle(p, op.args)
          [] op.kind = "ClearTitle"         -> writeClearTitle(p, op.args # {})
          [] op.kind = "ShowDialog"         -> writeShowDialog(p, missing)
          [] op.kind = "ClearDialog"        -> writeClearDialog(p)
          [] op.kind = "AddResourcePack"    -> writeResourcePack(p, missing)
          [] op.kind = "RemoveResourcePack" -> writeRemoveResourcePack(p, missing)
          [] op.kind = "StoreCookie"        -> writeStoreCookie(p, missing)
          [] op.kind = "Transfer"           -> writeTransfer(p, missing)
          [] op.kind = "Disconnect"         -> writeKickDisconnect(p)

\* Mutant: the title capability without the old packet.
CapabilityNoOldTitle(p, kind) ==
    kind \in {"ShowTitle", "ClearTitle"} /\ Has(ToClient, p, "set_title_text")

\* sessionCapabilities: the flag that announces an operation.
Capability(p, kind) ==
    LET H(name) == Has(ToClient, p, name)
    IN  CASE kind = "SendMessage"        -> H("system_chat") \/ H("chat")
          [] kind = "SendActionBar"      -> H("action_bar") \/ (p >= 340 /\ H("title"))
          [] kind \in {"ShowTitle", "ClearTitle"} -> H("set_title_text") \/ H("title")
          [] kind \in {"ShowDialog", "ClearDialog"} -> H("show_dialog")
          [] kind = "AddResourcePack"    -> H("add_resource_pack") \/ H("resource_pack_send")
          [] kind = "RemoveResourcePack" -> H("remove_resource_pack")
          [] kind = "StoreCookie"        -> H("store_cookie")
          [] kind = "Transfer"           -> H("transfer")
          [] kind = "Disconnect"         -> H("kick_disconnect")

-----------------------------------------------------------------------------
(***************************************************************************)
(* Serverbound packets.                                                    *)
(***************************************************************************)

\* handlePlayPacket: the callback a well-formed packet leads to; slash tells
\* whether its text starts with "/".
EventOf(p, packet, slash) ==
    IF ~Has(ToServer, p, packet) THEN "none"
    ELSE CASE packet = "chat" -> IF slash THEN "Command" ELSE "Chat"
           [] packet = "chat_message" -> "Chat"
           [] packet \in {"chat_command", "chat_command_signed"} -> "Command"
           [] packet = "custom_click_action" -> "DialogClick"
           [] packet = "resource_pack_receive" -> "ResourcePackResponse"

\* readResourcePackResponse: how a response names its pack.
PackIDMode(p) ==
    IF p = 47 THEN "hash"
    ELSE IF Has(ToClient, p, "add_resource_pack") THEN "uuid" ELSE "none"

=============================================================================
