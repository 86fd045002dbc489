------------------------- MODULE ProxyProtocolProofs -------------------------
(***************************************************************************)
(* Proofs about ProxyProtocol, for any configuration, any trusted proxies  *)
(* and any stream the peer may send.                                       *)
(***************************************************************************)
EXTENDS ProxyProtocol, TLAPS

LEMMA InitType == Init => TypeOK
<1> SUFFICES ASSUME Init PROVE TypeOK
  OBVIOUS
<1>1. cfg \in Config
  BY ProxyAssumption DEF Init
<1>2. reported \subseteq {"source", "peer"}
  BY DEF Init
<1> QED
  BY <1>1, <1>2 DEF Init, TypeOK

\* Either version's header is valid or not, and names an address or not.
LEMMA HeaderType == Header.valid \in BOOLEAN /\ Header.names \in BOOLEAN
<1>1. CASE stream.first = "P"
  BY <1>1 DEF Header, readProxyProtocolV1Header
<1>2. CASE stream.first # "P"
  BY <1>2 DEF Header, readProxyProtocolV2Header
<1> QED
  BY <1>1, <1>2

LEMMA NextType == TypeOK /\ [Next]_vars => TypeOK'
<1> SUFFICES ASSUME TypeOK, [Next]_vars PROVE TypeOK'
  OBVIOUS
<1> USE ProxyAssumption DEF TypeOK, Stream, given, socket, history
<1>1. CASE Wrap
  BY <1>1 DEF Wrap, Enabled
<1>2. ASSUME NEW method \in {"Read", "RemoteAddr"}, Call(method) PROVE TypeOK'
  BY <1>2 DEF Call, Arm, NeedsHeader
<1>3. CASE PeekFirst
  BY <1>3 DEF PeekFirst, NoHeader, HeaderEnd, Restored
<1>4. CASE PeekSignature
  BY <1>4 DEF PeekSignature, NoHeader, HeaderEnd, Restored, Peeked
<1>5. CASE ReadFields
  BY <1>5, HeaderType DEF ReadFields, HeaderEnd, Restored
<1>6. CASE HeaderFails
  BY <1>6 DEF HeaderFails, HeaderEnd, Restored
<1>7. CASE Read
  BY <1>7 DEF Read, Settled, NeedsHeader
<1>8. CASE RemoteAddr
  BY <1>8 DEF RemoteAddr, Settled, NeedsHeader
<1>9. CASE SetReadDeadline
  BY <1>9 DEF SetReadDeadline
<1>10. CASE Arrive
  BY <1>10 DEF Arrive
<1>11. CASE Close
  BY <1>11 DEF Close
<1>12. CASE UNCHANGED vars
  BY <1>12 DEF vars, given, socket, history
<1> QED
  BY <1>1, <1>2, <1>3, <1>4, <1>5, <1>6, <1>7, <1>8, <1>9, <1>10, <1>11, <1>12
  DEF Next, HeaderStep, Terminated

\* The wrapper's state keeps its type for every configuration and stream.
THEOREM TypeCorrect == Spec => []TypeOK
  BY InitType, NextType, PTL DEF Spec

-----------------------------------------------------------------------------

LEMMA InitWrapInv == Init => WrapInv
  BY InitType
  DEF Init, WrapInv, HeaderPhases, NothingBefore, WaitsInHeader, FieldsAreSigned,
      RawUntouched, ReadyIsBelieved, ReportedIsCurrent, StartBehindHeader, DeadlineKept

LEMMA NextWrapInv == WrapInv /\ [Next]_vars => WrapInv'
<1> SUFFICES ASSUME WrapInv, [Next]_vars PROVE WrapInv'
  OBVIOUS
<1>t. TypeOK /\ TypeOK'
  BY NextType DEF WrapInv
<1> USE <1>t, ProxyAssumption
    DEF TypeOK, Stream, given, socket, history, WrapInv, HeaderPhases, NothingBefore,
        WaitsInHeader, FieldsAreSigned, RawUntouched, ReadyIsBelieved,
        ReportedIsCurrent, StartBehindHeader, DeadlineKept, Enabled, Trusted, HasTrustedList,
        Header
<1>1. CASE Wrap
  BY <1>1 DEF Wrap
<1>2. ASSUME NEW method \in {"Read", "RemoteAddr"}, Call(method) PROVE WrapInv'
  BY <1>2 DEF Call, Arm, NeedsHeader
<1>3. CASE PeekFirst
  BY <1>3 DEF PeekFirst, NoHeader, HeaderEnd, Restored
<1>4. CASE PeekSignature
  BY <1>4 DEF PeekSignature, NoHeader, HeaderEnd, Restored, Peeked
<1>5. CASE ReadFields
  BY <1>5 DEF ReadFields, HeaderEnd, Restored, Distrusted
<1>6. CASE HeaderFails
  BY <1>6 DEF HeaderFails, HeaderEnd, Restored
<1>7. CASE Read
  BY <1>7 DEF Read, Settled, NeedsHeader
<1>8. CASE RemoteAddr
  BY <1>8 DEF RemoteAddr, Settled, NeedsHeader
<1>9. CASE SetReadDeadline
  BY <1>9 DEF SetReadDeadline
<1>10. CASE Arrive
  BY <1>10 DEF Arrive
<1>11. CASE Close
  BY <1>11 DEF Close
<1>12. CASE UNCHANGED vars
  BY <1>12 DEF vars
<1> QED
  BY <1>1, <1>2, <1>3, <1>4, <1>5, <1>6, <1>7, <1>8, <1>9, <1>10, <1>11, <1>12
  DEF Next, HeaderStep, Terminated

LEMMA WrapInvHolds == Spec => []WrapInv
  BY InitWrapInv, NextWrapInv, PTL DEF Spec

\* RemoteAddr answers the same for the whole life of a connection, for every
\* configuration, every header and every way its bytes trickle in.
THEOREM OneAddress == Spec => []AddressStable
<1>1. WrapInv => AddressStable
  BY DEF WrapInv, ReportedIsCurrent, AddressStable
<1> QED
  BY <1>1, WrapInvHolds, PTL

\* An address out of a header is believed only of a trusted peer, and where a
\* header is required no data reaches the router without a valid one.
THEOREM OnlyTrustedBelieved == Spec => []HeaderBelieved
<1>1. WrapInv => HeaderBelieved
  BY DEF WrapInv, NothingBefore, RawUntouched, ReadyIsBelieved, ReportedIsCurrent,
         StartBehindHeader, HeaderBelieved, Trusted, Enabled, TypeOK
<1> QED
  BY <1>1, WrapInvHolds, PTL

\* The router reads from the first byte behind the header, or from the very
\* first one of a player who sent none, however long the header.
THEOREM RouterReadsBehindHeader == Spec => []NothingSwallowed
<1>1. WrapInv => NothingSwallowed
  BY DEF WrapInv, NothingBefore, RawUntouched, ReadyIsBelieved, StartBehindHeader,
         NothingSwallowed, TypeOK
<1> QED
  BY <1>1, WrapInvHolds, PTL

\* The header's deadline is gone, and the router's own in force again, as soon
\* as the header is settled, whether that went well or not.
THEOREM DeadlineRestored == Spec => []HeaderDeadlineGone
<1>1. WrapInv => HeaderDeadlineGone
  BY DEF WrapInv, DeadlineKept, HeaderDeadlineGone
<1> QED
  BY <1>1, WrapInvHolds, PTL

=============================================================================
