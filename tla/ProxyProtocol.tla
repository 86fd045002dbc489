---------------------------- MODULE ProxyProtocol ----------------------------
(***************************************************************************)
(* One accepted connection under proxyProtocolRuntime (proxy_protocol.go): *)
(* Serve wraps it, the handler calls Read, RemoteAddr and SetReadDeadline  *)
(* on it, the first Read or RemoteAddr reads the PROXY header under        *)
(* conn.once.  The peer is a proxy or a player who connects directly; its  *)
(* bytes arrive in pieces of any size.  Bytes are counted: a stream is the *)
(* length of its header, of its first packet, and what its first byte and  *)
(* its signature look like.                                                *)
(***************************************************************************)
EXTENDS Integers

CONSTANTS Proxies,      \* addresses TrustedProxies may list
          Peer,         \* the address the connection comes from
          PeerStreams,  \* streams the peer may send
          Configs       \* the ProxyProtocolConfigs considered

\* A stream: its first byte, whether the signature of that version follows, the
\* length of the header (0 if there is none), what its fields say, and the bytes
\* up to the end of the first packet.  A player's first byte is the length of
\* the handshake: 80 is "P" and 13 is "\r".
Stream == [first : {"P", "CR", "other"}, signed : BOOLEAN, header : Nat,
           fields : {"none", "UNKNOWN", "TCP4", "TCP6", "LOCAL", "UNSPEC", "malformed"},
           total : Nat]

Config == [enabled : BOOLEAN, required : BOOLEAN, restrict : BOOLEAN,
           list : SUBSET Proxies, timeout : BOOLEAN]

ASSUME ProxyAssumption ==
    /\ Configs \subseteq Config
    /\ PeerStreams \subseteq Stream
    /\ \A s \in PeerStreams :
           /\ s.signed => s.first # "other"
           /\ ~s.signed => s.header = 0
           /\ s.header < s.total

VARIABLES
    cfg,            \* the configuration
    stream,         \* what the peer sends
    arrived,        \* bytes that have reached the server's socket
    open,           \* neither end has closed the connection
    phase,          \* the connection: accepted, rejected, raw (not wrapped),
                    \* new (header not read), in readProxyHeader, or ready
    op,             \* the method the handler is in
    deadline,       \* read deadline of the underlying connection
    readDeadline,   \* conn.readDeadline
    headerErr,      \* conn.headerErr
    sourceAddr,     \* conn.sourceAddr is set
    consumed,       \* bytes taken off the reader before the router reads
    start,          \* where the router's first data began (history)
    reported        \* addresses RemoteAddr has returned (history)

vars == <<cfg, stream, arrived, open, phase, op, deadline, readDeadline,
          headerErr, sourceAddr, consumed, start, reported>>

given == <<cfg, stream>>
socket == <<arrived, open>>
history == <<start, reported>>

\* newProxyProtocolRuntime: Required implies Enabled.
Enabled == cfg.enabled \/ cfg.required
HasTrustedList == cfg.restrict \/ cfg.list # {}

\* trusts, and the test in wrap.
Trusted == ~HasTrustedList \/ Peer \in cfg.list

Init ==
    /\ cfg \in Configs
    /\ stream \in PeerStreams
    /\ arrived = 0
    /\ open = TRUE
    /\ phase = "accepted"
    /\ op = "none"
    /\ deadline = "none"
    /\ readDeadline = "none"
    /\ headerErr = "none"
    /\ sourceAddr = FALSE
    /\ consumed = 0
    /\ start = 0
    /\ reported = {}

\* wrap, as Serve calls it: a rejected connection is closed.
Wrap ==
    /\ phase = "accepted"
    /\ \/ ~Enabled /\ phase' = "raw" /\ UNCHANGED open
       \/ Enabled /\ cfg.required /\ ~Trusted /\ phase' = "rejected" /\ open' = FALSE
       \/ Enabled /\ ~(cfg.required /\ ~Trusted) /\ phase' = "new" /\ UNCHANGED open
    /\ UNCHANGED <<given, arrived, op, deadline, readDeadline, headerErr,
                   sourceAddr, consumed, history>>

-----------------------------------------------------------------------------
(***************************************************************************)
(* ensureHeader and readProxyHeader.                                       *)
(***************************************************************************)

\* Mutant: RemoteAddr does not wait for the header.
NeedsHeaderRead(method) == method = "Read"

\* Read and RemoteAddr both run ensureHeader.
NeedsHeader(method) == method \in {"Read", "RemoteAddr"}

\* conn.Conn.SetReadDeadline leaves conn.readDeadline alone.
Arm(limit) == deadline' = limit /\ UNCHANGED readDeadline

\* The handler calls a method; the first call that needs the header arms the
\* header's deadline.
Call(method) ==
    /\ phase \in {"raw", "new", "ready"}
    /\ op = "none"
    /\ op' = method
    /\ IF phase = "new" /\ NeedsHeader(method)
       THEN /\ phase' = "peek"
            /\ Arm(IF cfg.timeout THEN "header" ELSE deadline)
       ELSE UNCHANGED <<phase, deadline, readDeadline>>
    /\ UNCHANGED <<given, socket, headerErr, sourceAddr, consumed, history>>

\* Mutant: the header's deadline stays.
KeepDeadline == deadline

\* The deferred SetReadDeadline of readProxyHeader.
Restored == IF cfg.timeout THEN readDeadline ELSE deadline

\* readProxyHeader returns.
HeaderEnd(err, source) ==
    /\ phase' = "ready"
    /\ headerErr' = err
    /\ sourceAddr' = source
    /\ deadline' = Restored

\* Mutant: the whole fixed part of a v2 header is peeked at once.
SignatureBytesV2(first) == IF first = "P" THEN 6 ELSE 16

\* len("PROXY ") and len(proxyProtocolV2Signature).
SignatureBytes(first) == IF first = "P" THEN 6 ELSE 12

\* No header: an error only if one is required.
NoHeader == HeaderEnd(IF cfg.required THEN "noHeader" ELSE "none", FALSE)

\* readProxyProtocolHeader: the first byte tells which version it may be.
PeekFirst ==
    /\ phase = "peek"
    /\ arrived >= 1
    /\ IF stream.first = "other" THEN NoHeader
       ELSE phase' = "signature" /\ UNCHANGED <<headerErr, sourceAddr, deadline>>
    /\ UNCHANGED <<given, socket, op, readDeadline, consumed, history>>

\* Mutant: the signature is read, not peeked.
TakeSignature == consumed' = SignatureBytes(stream.first)

\* Peek leaves the bytes in the reader.
Peeked == UNCHANGED consumed

\* The signature of v1 or v2 follows, or this is a player's first packet.
PeekSignature ==
    /\ phase = "signature"
    /\ arrived >= SignatureBytes(stream.first)
    /\ IF ~stream.signed THEN NoHeader
       ELSE phase' = "fields" /\ UNCHANGED <<headerErr, sourceAddr, deadline>>
    /\ Peeked
    /\ UNCHANGED <<given, socket, op, readDeadline, history>>

\* readProxyProtocolV1Header behind the signature: a line of at most 107 bytes.
readProxyProtocolV1Header(s) ==
    [valid |-> s.header <= 107 /\ s.fields \in {"UNKNOWN", "TCP4", "TCP6"},
     names |-> s.fields \in {"TCP4", "TCP6"}]

\* readProxyProtocolV2Header: 16 bytes, then a payload that holds the addresses
\* unless the command is LOCAL or the family unspecified.
readProxyProtocolV2Header(s) ==
    LET payload == s.header - 16
    IN  [valid |-> \/ s.fields \in {"LOCAL", "UNSPEC"}
                   \/ s.fields = "TCP4" /\ payload >= 12
                   \/ s.fields = "TCP6" /\ payload >= 36,
         names |-> s.fields \in {"TCP4", "TCP6"}]

Header == IF stream.first = "P" THEN readProxyProtocolV1Header(stream)
          ELSE readProxyProtocolV2Header(stream)

\* Mutant: any header is believed.
BelieveAll == FALSE

Distrusted == ~Trusted

\* The rest of readProxyProtocolV1Header or V2Header and of readProxyHeader:
\* the fields are parsed, and a header from an upstream that is not trusted is
\* an error.
ReadFields ==
    /\ phase = "fields"
    /\ arrived >= stream.header
    /\ consumed' = stream.header
    /\ \/ ~Header.valid /\ HeaderEnd("malformed", FALSE)
       \/ Header.valid /\ Distrusted /\ HeaderEnd("untrusted", FALSE)
       \/ Header.valid /\ ~Distrusted /\ HeaderEnd("none", Header.names)
    /\ UNCHANGED <<given, socket, op, readDeadline, history>>

\* The reader fails: the deadline has passed or the connection is closed.
ReadFails == deadline # "none" \/ ~open

HeaderFails ==
    /\ phase \in {"peek", "signature", "fields"}
    /\ ReadFails
    /\ HeaderEnd("read", FALSE)
    /\ UNCHANGED <<given, socket, op, readDeadline, consumed, history>>

-----------------------------------------------------------------------------
(***************************************************************************)
(* The methods, once the header is settled.                                *)
(***************************************************************************)

Settled == phase \in {"raw", "ready"} \/ (phase = "new" /\ ~NeedsHeader(op))

\* Read returns the header's error, the underlying reader's, or data.
Read ==
    /\ op = "Read"
    /\ Settled
    /\ op' = "none"
    /\ \/ headerErr # "none" /\ UNCHANGED start
       \/ headerErr = "none" /\ ReadFails /\ UNCHANGED start
       \/ /\ headerErr = "none" /\ arrived > consumed
          /\ start' = IF start = 0 THEN consumed + 1 ELSE start
    /\ UNCHANGED <<given, socket, phase, deadline, readDeadline, headerErr,
                   sourceAddr, consumed, reported>>

\* RemoteAddr: the header's source if there was one, the peer's own otherwise.
RemoteAddr ==
    /\ op = "RemoteAddr"
    /\ Settled
    /\ op' = "none"
    /\ reported' = reported \cup {IF headerErr = "none" /\ sourceAddr
                                  THEN "source" ELSE "peer"}
    /\ UNCHANGED <<given, socket, phase, deadline, readDeadline, headerErr,
                   sourceAddr, consumed, start>>

\* SetReadDeadline or SetDeadline, by the router: a deadline or its removal.
SetReadDeadline ==
    /\ phase \in {"new", "ready"}
    /\ op = "none"
    /\ readDeadline' \in {"none", "router"}
    /\ deadline' = readDeadline'
    /\ UNCHANGED <<given, socket, phase, op, headerErr, sourceAddr, consumed, history>>

-----------------------------------------------------------------------------
(***************************************************************************)
(* The outside.                                                            *)
(***************************************************************************)

\* Bytes arrive, in pieces of any size.
Arrive ==
    /\ open
    /\ arrived' \in (arrived + 1)..stream.total
    /\ UNCHANGED <<given, open, phase, op, deadline, readDeadline, headerErr,
                   sourceAddr, consumed, history>>

\* The peer leaves, or Shutdown closes the connection.
Close ==
    /\ open
    /\ open' = FALSE
    /\ UNCHANGED <<given, arrived, phase, op, deadline, readDeadline, headerErr,
                   sourceAddr, consumed, history>>

Terminated == phase = "rejected" /\ UNCHANGED vars

HeaderStep == PeekFirst \/ PeekSignature \/ ReadFields

Next ==
    \/ Wrap
    \/ \E method \in {"Read", "RemoteAddr"} : Call(method)
    \/ HeaderStep \/ HeaderFails
    \/ Read \/ RemoteAddr \/ SetReadDeadline
    \/ Arrive \/ Close
    \/ Terminated

Spec == Init /\ [][Next]_vars

\* The handler runs and timers fire: a read whose data is there, whose
\* connection is closed or whose deadline is set returns.
Fairness == WF_vars(HeaderStep) /\ WF_vars(HeaderFails)

FairSpec == Spec /\ Fairness

-----------------------------------------------------------------------------
(***************************************************************************)
(* Properties.                                                             *)
(***************************************************************************)

TypeOK ==
    /\ cfg \in Config /\ stream \in PeerStreams
    /\ arrived \in Nat /\ consumed \in Nat /\ start \in Nat
    /\ open \in BOOLEAN /\ sourceAddr \in BOOLEAN
    /\ phase \in {"accepted", "rejected", "raw", "new", "peek", "signature",
                  "fields", "ready"}
    /\ op \in {"none", "Read", "RemoteAddr"}
    /\ deadline \in {"none", "header", "router"}
    /\ readDeadline \in {"none", "router"}
    /\ headerErr \in {"none", "noHeader", "malformed", "untrusted", "read"}
    /\ reported \subseteq {"source", "peer"}

\* A connection has one address for its whole life, whenever it is asked for it
\* and however the header's bytes trickle in: the server's join table and the
\* rate limiter are keyed by it.
AddressStable == reported # {"source", "peer"}

\* The address of a header is believed only if PROXY protocol is on and the
\* upstream is trusted, and a router that requires a header is given no data
\* without a valid one.
HeaderBelieved ==
    /\ "source" \in reported =>
           Enabled /\ (HasTrustedList => Peer \in cfg.list) /\ Header.names
    /\ start # 0 /\ cfg.required =>
           stream.signed /\ Header.valid /\ (HasTrustedList => Peer \in cfg.list)

\* The router's first byte is the first byte behind the header, or the very
\* first one of a player who sent none: looking for a header loses nothing.
NothingSwallowed == start # 0 /\ Enabled => start = stream.header + 1

\* The deadline for the header does not outlive it: reads of a session that is
\* idle for longer do not fail, and the router's own deadline is in force again.
HeaderDeadlineGone == phase \in {"new", "ready"} => deadline = readDeadline

\* Looking for a header comes to an end: a peer that sends nothing or half a
\* header holds its handler no longer than the timeout, and without a timeout a
\* player's first packet is enough to decide that there is no header, even if
\* its length byte is the first byte of a signature.
HeaderSettled ==
    phase \in {"peek", "signature", "fields"} /\ (cfg.timeout \/ arrived = stream.total)
        ~> phase = "ready"

-----------------------------------------------------------------------------
(***************************************************************************)
(* The inductive invariant behind the four safety properties.              *)
(***************************************************************************)

HeaderPhases == {"peek", "signature", "fields"}

\* Until the header is settled the router has seen nothing of the connection.
NothingBefore ==
    phase \notin {"raw", "ready"} =>
        /\ start = 0 /\ reported = {} /\ consumed = 0
        /\ headerErr = "none" /\ ~sourceAddr

\* A method waits for the header in the phases that read it only.
WaitsInHeader == phase \in {"accepted", "new"} => op = "none"

\* Fields are read behind a signature.
FieldsAreSigned == phase = "fields" => stream.signed

\* A connection that is not wrapped is as the peer made it.
RawUntouched == phase = "raw" => ~Enabled /\ headerErr = "none" /\ ~sourceAddr

\* A connection without an error is read from behind its header, and its header,
\* if it had to have one or gave an address, was a valid one of a trusted peer.
ReadyIsBelieved ==
    phase = "ready" /\ headerErr = "none" =>
        /\ consumed = stream.header
        /\ cfg.required \/ sourceAddr => stream.signed /\ Header.valid /\ Trusted
        /\ sourceAddr => Header.names

\* What was reported is what would be reported now.
ReportedIsCurrent ==
    reported \subseteq {IF headerErr = "none" /\ sourceAddr THEN "source" ELSE "peer"}

\* The router's data began behind what the header took.
StartBehindHeader == start # 0 => headerErr = "none" /\ start = consumed + 1

\* The underlying deadline is the router's, except while the header is read
\* under a deadline of its own.
DeadlineKept ==
    phase \in {"accepted", "new", "ready"} \/ (phase \in HeaderPhases /\ ~cfg.timeout) =>
        deadline = readDeadline

WrapInv ==
    /\ TypeOK
    /\ phase \in HeaderPhases \cup {"new", "ready"} => Enabled
    /\ NothingBefore /\ WaitsInHeader /\ FieldsAreSigned /\ RawUntouched
    /\ ReadyIsBelieved /\ ReportedIsCurrent /\ StartBehindHeader /\ DeadlineKept

=============================================================================
