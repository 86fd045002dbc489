---------------------------- MODULE ServerProofs ----------------------------
(***************************************************************************)
(* Proofs about Server, for any sets of connections, addresses and callers *)
(* of Shutdown.                                                            *)
(***************************************************************************)
EXTENDS Server, TLAPS

LEMMA InitType == Init => TypeOK
<1> SUFFICES ASSUME Init PROVE TypeOK
  OBVIOUS
<1>1. closed \in BOOLEAN /\ ctxDone \in BOOLEAN /\ waitDone \in BOOLEAN
  BY DEF Init
<1>2. /\ joins \in [Addrs -> Conns \cup {NoJoin}]
      /\ current \in Conns \cup {NoJoin}
      /\ taken \in [Conns -> Conns \cup {NoJoin}]
  BY DEF Init
<1>3. open \in [Conns -> BOOLEAN]
  BY DEF Init
<1>4. /\ handler \in [Conns -> HandlerStates]
      /\ caller \in [AllCallers -> CallerStates]
  BY DEF Init, HandlerStates, CallerStates
<1>5. releases \in [Conns -> Nat]
  BY DEF Init
<1> QED
  BY <1>1, <1>2, <1>3, <1>4, <1>5 DEF Init, TypeOK

LEMMA NextType == TypeOK /\ [Next]_vars => TypeOK'
<1> SUFFICES ASSUME TypeOK, [Next]_vars PROVE TypeOK'
  OBVIOUS
<1> USE ServerAssumption
    DEF TypeOK, HandlerStates, CallerStates, Returned
<1>1. CASE ServeStart
  BY <1>1 DEF ServeStart
<1>2. CASE AcceptError
  BY <1>2 DEF AcceptError
<1>3. ASSUME NEW c \in Conns, Accept(c) PROVE TypeOK'
  BY <1>3 DEF Accept
<1>4. ASSUME NEW c \in Conns, Reject(c) PROVE TypeOK'
  BY <1>4 DEF Reject
<1>5. ASSUME NEW c \in Conns, TrackConn(c) PROVE TypeOK'
  BY <1>5 DEF TrackConn, TrackOrClose
<1>6. ASSUME NEW c \in Conns, StartHandler(c) PROVE TypeOK'
  BY <1>6 DEF StartHandler
<1>7. ASSUME NEW c \in Conns, ReadLogin(c) PROVE TypeOK'
  BY <1>7 DEF ReadLogin
<1>8. ASSUME NEW c \in Conns, CallResolver(c) PROVE TypeOK'
  BY <1>8 DEF CallResolver
<1>9. ASSUME NEW c \in Conns, RegisterJoin(c) PROVE TypeOK'
  BY <1>9 DEF RegisterJoin, RecordJoin
<1>10. ASSUME NEW c \in Conns, ReturnServeConn(c) PROVE TypeOK'
  BY <1>10 DEF ReturnServeConn
<1>11. ASSUME NEW c \in Conns, UntrackClose(c) PROVE TypeOK'
  BY <1>11 DEF UntrackClose
<1>12. ASSUME NEW c \in Conns, TakeJoin(c) PROVE TypeOK'
  BY <1>12 DEF TakeJoin, HasJoin, DeleteJoin
<1>13. ASSUME NEW c \in Conns, CallReleaser(c) PROVE TypeOK'
    <3>1. releases' \in [Conns -> Nat]
      <4>1. \A d \in Conns : releases[d] \in Nat /\ releases[d] + 1 \in Nat
        OBVIOUS
      <4>2. releases' = [d \in Conns |-> IF d = taken[c] THEN releases[d] + 1
                                                        ELSE releases[d]]
      BY <1>13 DEF CallReleaser
      <4> QED
      BY <4>1, <4>2
    <3> QED
    BY <1>13, <3>1 DEF CallReleaser
<1>14. ASSUME NEW c \in Conns, UntrackDelete(c) PROVE TypeOK'
  BY <1>14 DEF UntrackDelete
<1>15. ASSUME NEW c \in Conns, WgDone(c) PROVE TypeOK'
  BY <1>15 DEF WgDone
<1>16. CASE CancelCtx
  BY <1>16 DEF CancelCtx
<1>17. ASSUME NEW p \in AllCallers, ShutdownLock(p) PROVE TypeOK'
  BY <1>17 DEF ShutdownLock
<1>18. ASSUME NEW p \in AllCallers, ShutdownListener(p) PROVE TypeOK'
  BY <1>18 DEF ShutdownListener, CloseListener
<1>19. ASSUME NEW p \in AllCallers, ShutdownWait(p) PROVE TypeOK'
  BY <1>19 DEF ShutdownWait
<1>20. ASSUME NEW p \in AllCallers, ShutdownReturn(p) PROVE TypeOK'
  BY <1>20 DEF ShutdownReturn
<1>21. ASSUME NEW p \in AllCallers, NEW c \in Conns, ShutdownConn(p, c)
        PROVE TypeOK'
  BY <1>21 DEF ShutdownConn, CloseCopied
<1>22. CASE WgWait
  BY <1>22 DEF WgWait, HandlersDone
<1>23. CASE UNCHANGED vars
  BY <1>23 DEF vars
<1> QED
  BY <1>1, <1>2, <1>3, <1>4, <1>5, <1>6, <1>7, <1>8, <1>9, <1>10, <1>11, <1>12,
     <1>13, <1>14, <1>15, <1>16, <1>17, <1>18, <1>19, <1>20, <1>21, <1>22, <1>23
  DEF Next, ServeStep, HandlerStep, ShutdownStep, Terminated

\* Every variable of the server keeps its type, for every set of connections,
\* addresses and Shutdown callers and whether or not addresses are shared.
THEOREM TypeCorrect == Spec => []TypeOK
  BY InitType, NextType, PTL DEF Spec

-----------------------------------------------------------------------------

LEMMA NextShutdownInv == ShutdownInv /\ [Next]_vars => ShutdownInv'
<1> SUFFICES ASSUME ShutdownInv, [Next]_vars PROVE ShutdownInv'
  OBVIOUS
<1>t. TypeOK'
  BY NextType DEF ShutdownInv
<1> USE <1>t, ServerAssumption
    DEF ShutdownInv, TypeOK, HandlerStates, Running, Closer, WgCounts,
        AcceptedIsCurrent, OpenIsReachable, Tracked, OneCloser,
        EntryHasHandler, QuietAfterWait
<1>1. CASE ServeStart
    BY <1>1 DEF ServeStart
<1>2. CASE AcceptError
    BY <1>2 DEF AcceptError
<1>3. ASSUME NEW c \in Conns, Accept(c) PROVE ShutdownInv'
    BY <1>3 DEF Accept
<1>4. ASSUME NEW c \in Conns, Reject(c) PROVE ShutdownInv'
    BY <1>4 DEF Reject
<1>5. ASSUME NEW c \in Conns, TrackConn(c) PROVE ShutdownInv'
    BY <1>5 DEF TrackConn, TrackOrClose
<1>6. ASSUME NEW c \in Conns, StartHandler(c) PROVE ShutdownInv'
    BY <1>6 DEF StartHandler
<1>7. ASSUME NEW c \in Conns, ReadLogin(c) PROVE ShutdownInv'
    BY <1>7 DEF ReadLogin
<1>8. ASSUME NEW c \in Conns, CallResolver(c) PROVE ShutdownInv'
    BY <1>8 DEF CallResolver
<1>9. ASSUME NEW c \in Conns, RegisterJoin(c) PROVE ShutdownInv'
    BY <1>9 DEF RegisterJoin, RecordJoin
<1>10. ASSUME NEW c \in Conns, ReturnServeConn(c) PROVE ShutdownInv'
    BY <1>10 DEF ReturnServeConn
<1>11. ASSUME NEW c \in Conns, UntrackClose(c) PROVE ShutdownInv'
    BY <1>11 DEF UntrackClose
<1>12. ASSUME NEW c \in Conns, TakeJoin(c) PROVE ShutdownInv'
    BY <1>12 DEF TakeJoin, HasJoin, DeleteJoin
<1>13. ASSUME NEW c \in Conns, CallReleaser(c) PROVE ShutdownInv'
    BY <1>13 DEF CallReleaser
<1>14. ASSUME NEW c \in Conns, UntrackDelete(c) PROVE ShutdownInv'
    BY <1>14 DEF UntrackDelete
<1>15. ASSUME NEW c \in Conns, WgDone(c) PROVE ShutdownInv'
    BY <1>15 DEF WgDone
<1>16. CASE CancelCtx
    BY <1>16 DEF CancelCtx
<1>17. ASSUME NEW p \in AllCallers, ShutdownLock(p) PROVE ShutdownInv'
    BY <1>17 DEF ShutdownLock
<1>18. ASSUME NEW p \in AllCallers, ShutdownListener(p) PROVE ShutdownInv'
    BY <1>18 DEF ShutdownListener, CloseListener
<1>19. ASSUME NEW p \in AllCallers, ShutdownWait(p) PROVE ShutdownInv'
    BY <1>19 DEF ShutdownWait
<1>20. ASSUME NEW p \in AllCallers, ShutdownReturn(p) PROVE ShutdownInv'
    BY <1>20 DEF ShutdownReturn
<1>21. ASSUME NEW p \in AllCallers, NEW c \in Conns, ShutdownConn(p, c)
        PROVE ShutdownInv'
    BY <1>21 DEF ShutdownConn, CloseCopied
<1>22. CASE WgWait
    BY <1>22 DEF WgWait, HandlersDone
<1>23. CASE UNCHANGED vars
    BY <1>23 DEF vars
<1> QED
    BY <1>1, <1>2, <1>3, <1>4, <1>5, <1>6, <1>7, <1>8, <1>9, <1>10, <1>11, <1>12,
     <1>13, <1>14, <1>15, <1>16, <1>17, <1>18, <1>19, <1>20, <1>21, <1>22, <1>23
    DEF Next, ServeStep, HandlerStep, ShutdownStep, Terminated

\* However the accept loop, the handlers and the callers of Shutdown
\* interleave, and whether or not addresses are shared, a Shutdown that returns
\* nil after its wait leaves no join active and no handler past its first read.
THEOREM ShutdownQuiet == Spec => []QuietAfterShutdown
<1>1. Init => ShutdownInv
  BY InitType, ServerAssumption
  DEF Init, ShutdownInv, Running, Closer, WgCounts, AcceptedIsCurrent,
      OpenIsReachable, Tracked, OneCloser, EntryHasHandler, QuietAfterWait
<1>2. ShutdownInv => QuietAfterShutdown
  BY DEF ShutdownInv, OneCloser, QuietAfterWait, QuietAfterShutdown
<1> QED
  BY <1>1, <1>2, NextShutdownInv, PTL DEF Spec

\* trackConn and the copy of s.conns between them miss no connection: after
\* Shutdown's loop every connection with a handler is closed.
THEOREM NoneLeftOpen == Spec => []NoOpenHandlerAfterClose
<1>1. Init => ShutdownInv
  BY InitType, ServerAssumption
  DEF Init, ShutdownInv, Running, Closer, WgCounts, AcceptedIsCurrent,
      OpenIsReachable, Tracked, OneCloser, EntryHasHandler, QuietAfterWait
<1>2. ShutdownInv => NoOpenHandlerAfterClose
  BY DEF ShutdownInv, OpenIsReachable, Tracked, NoOpenHandlerAfterClose
<1> QED
  BY <1>1, <1>2, NextShutdownInv, PTL DEF Spec

-----------------------------------------------------------------------------

LEMMA NextJoinInv ==
    ASSUME ExclusiveAddrs PROVE JoinInv /\ [Next]_vars => JoinInv'
<1> SUFFICES ASSUME JoinInv, [Next]_vars PROVE OwnInv'
  BY NextShutdownInv DEF JoinInv, OwnInv
<1>t. TypeOK' /\ TypeOK /\ EntryHasHandler /\ AcceptedIsCurrent /\ OwnInv
  BY NextType DEF JoinInv, ShutdownInv, OwnInv
<1> USE <1>t, ServerAssumption
    DEF OwnInv, TypeOK, EntryHasHandler, AcceptedIsCurrent, Live, Running,
        HandlerStates, LiveAddrsDiffer, TakesOwnJoin, ReleasedIsPast,
        JoinedIsRecorded
<1>1. CASE ServeStart
    BY <1>1 DEF ServeStart
<1>2. CASE AcceptError
    BY <1>2 DEF AcceptError
<1>3. ASSUME NEW c \in Conns, Accept(c) PROVE OwnInv'
    BY <1>3 DEF Accept
<1>4. ASSUME NEW c \in Conns, Reject(c) PROVE OwnInv'
    BY <1>4 DEF Reject
<1>5. ASSUME NEW c \in Conns, TrackConn(c) PROVE OwnInv'
    BY <1>5 DEF TrackConn, TrackOrClose
<1>6. ASSUME NEW c \in Conns, StartHandler(c) PROVE OwnInv'
    BY <1>6 DEF StartHandler
<1>7. ASSUME NEW c \in Conns, ReadLogin(c) PROVE OwnInv'
    BY <1>7 DEF ReadLogin
<1>8. ASSUME NEW c \in Conns, CallResolver(c) PROVE OwnInv'
    BY <1>8 DEF CallResolver
<1>9. ASSUME NEW c \in Conns, RegisterJoin(c) PROVE OwnInv'
    BY <1>9 DEF RegisterJoin, RecordJoin
<1>10. ASSUME NEW c \in Conns, ReturnServeConn(c) PROVE OwnInv'
    BY <1>10 DEF ReturnServeConn
<1>11. ASSUME NEW c \in Conns, UntrackClose(c) PROVE OwnInv'
    BY <1>11 DEF UntrackClose
<1>12. ASSUME NEW c \in Conns, TakeJoin(c) PROVE OwnInv'
    BY <1>12 DEF TakeJoin, HasJoin, DeleteJoin
<1>13. ASSUME NEW c \in Conns, CallReleaser(c) PROVE OwnInv'
    BY <1>13 DEF CallReleaser
<1>14. ASSUME NEW c \in Conns, UntrackDelete(c) PROVE OwnInv'
    BY <1>14 DEF UntrackDelete
<1>15. ASSUME NEW c \in Conns, WgDone(c) PROVE OwnInv'
    BY <1>15 DEF WgDone
<1>16. CASE CancelCtx
    BY <1>16 DEF CancelCtx
<1>17. ASSUME NEW p \in AllCallers, ShutdownLock(p) PROVE OwnInv'
    BY <1>17 DEF ShutdownLock
<1>18. ASSUME NEW p \in AllCallers, ShutdownListener(p) PROVE OwnInv'
    BY <1>18 DEF ShutdownListener, CloseListener
<1>19. ASSUME NEW p \in AllCallers, ShutdownWait(p) PROVE OwnInv'
    BY <1>19 DEF ShutdownWait
<1>20. ASSUME NEW p \in AllCallers, ShutdownReturn(p) PROVE OwnInv'
    BY <1>20 DEF ShutdownReturn
<1>21. ASSUME NEW p \in AllCallers, NEW c \in Conns, ShutdownConn(p, c)
        PROVE OwnInv'
    BY <1>21 DEF ShutdownConn, CloseCopied
<1>22. CASE WgWait
    BY <1>22 DEF WgWait, HandlersDone
<1>23. CASE UNCHANGED vars
    BY <1>23 DEF vars
<1> QED
    BY <1>1, <1>2, <1>3, <1>4, <1>5, <1>6, <1>7, <1>8, <1>9, <1>10, <1>11, <1>12,
     <1>13, <1>14, <1>15, <1>16, <1>17, <1>18, <1>19, <1>20, <1>21, <1>22, <1>23
    DEF Next, ServeStep, HandlerStep, ShutdownStep, Terminated

\* The steps other than the three that handle joins leave the table alone.
LEMMA JoinSteps ==
    [Next]_vars =>
        \/ \E c \in Conns : RegisterJoin(c) \/ TakeJoin(c) \/ CallReleaser(c)
        \/ UNCHANGED <<joins, taken, releases>>
  BY DEF Next, vars, ServeStep, HandlerStep, ShutdownStep, Terminated,
      ServeStart, AcceptError, Accept, Reject, TrackConn, StartHandler,
      ReadLogin, CallResolver, ReturnServeConn, UntrackClose, UntrackDelete,
      WgDone, CancelCtx, ShutdownLock, ShutdownListener, ShutdownWait,
      ShutdownReturn, ShutdownConn, WgWait

LEMMA JoinInvariant == ASSUME ExclusiveAddrs PROVE Spec => []JoinInv
<1>1. Init => JoinInv
  BY InitType, ServerAssumption
  DEF Init, JoinInv, OwnInv, ShutdownInv, Running, Closer, WgCounts,
      AcceptedIsCurrent, OpenIsReachable, Tracked, OneCloser, EntryHasHandler,
      QuietAfterWait, Live, LiveAddrsDiffer, TakesOwnJoin, ReleasedIsPast,
      JoinedIsRecorded
<1> QED
  BY <1>1, NextJoinInv, PTL DEF Spec

\* With addresses that live connections do not share, ReleaseJoin is called at
\* most once for a join and only after the player's connection is closed.
THEOREM ReleasedOnceAfterClose ==
    ASSUME ExclusiveAddrs PROVE Spec => []ReleaseAfterClose
<1>1. JoinInv => ReleaseAfterClose
  BY DEF JoinInv, OwnInv, ShutdownInv, TypeOK, OpenIsReachable, ReleasedIsPast,
         ReleaseAfterClose
<1> QED
  BY <1>1, JoinInvariant, PTL

\* With addresses that live connections do not share, the entry under a joined
\* player's address is that player's own.
THEOREM JoinedRecorded ==
    ASSUME ExclusiveAddrs PROVE Spec => []JoinedIsRecorded
<1>1. JoinInv => JoinedIsRecorded
  BY DEF JoinInv, OwnInv
<1> QED
  BY <1>1, JoinInvariant, PTL

\* With addresses that live connections do not share, a join leaves the table
\* only into the hands of its own connection's handler.
THEOREM NeverLost == ASSUME ExclusiveAddrs PROVE Spec => JoinNeverLost
<1>1. ASSUME JoinInv, JoinInv', [Next]_vars,
             NEW a \in Addrs, joins[a] # NoJoin, joins'[a] # joins[a]
      PROVE  handler'[joins[a]] = "releasing" /\ taken'[joins[a]] = joins[a]
  <2> USE <1>1, ServerAssumption
      DEF JoinInv, OwnInv, ShutdownInv, TypeOK, EntryHasHandler,
          LiveAddrsDiffer, Live, Running, TakesOwnJoin
  <2>1. ASSUME NEW c \in Conns, RegisterJoin(c) PROVE FALSE
    BY <2>1 DEF RegisterJoin, RecordJoin
  <2>2. ASSUME NEW c \in Conns, TakeJoin(c)
        PROVE  handler'[joins[a]] = "releasing" /\ taken'[joins[a]] = joins[a]
    BY <2>2 DEF TakeJoin, HasJoin, DeleteJoin
  <2>3. ASSUME NEW c \in Conns, CallReleaser(c) PROVE FALSE
    BY <2>3 DEF CallReleaser
  <2> QED
    BY <2>1, <2>2, <2>3, JoinSteps
<1>2. JoinInv /\ JoinInv' /\ [Next]_vars =>
        [\A a \in Addrs : joins[a] # NoJoin /\ joins'[a] # joins[a] =>
             /\ handler'[joins[a]] = "releasing"
             /\ taken'[joins[a]] = joins[a]]_vars
  BY <1>1
<1> QED
  BY <1>2, JoinInvariant, PTL DEF Spec, JoinNeverLost

-----------------------------------------------------------------------------

LEMMA PhaseDomain ==
    /\ JoinPhase = [c \in Conns |-> JoinPhase[c]]
    /\ JoinPhase' = [c \in Conns |-> JoinPhase'[c]]
  BY DEF JoinPhase

\* With addresses that live connections do not share, the server implements the
\* life cycle of a join: recorded at most once, active until released, released
\* once.
THEOREM Refinement == ASSUME ExclusiveAddrs PROVE Spec => ImplementsLifecycle
<1>1. Init => Lifecycle!Init
  BY ServerAssumption DEF Init, Lifecycle!Init, JoinPhase
<1>2. JoinInv /\ JoinInv' /\ [Next]_vars => [Lifecycle!Next]_JoinPhase
  <2> SUFFICES ASSUME JoinInv, JoinInv', [Next]_vars
               PROVE  Lifecycle!Next \/ JoinPhase' = JoinPhase
    OBVIOUS
  <2> USE ServerAssumption
      DEF JoinInv, OwnInv, ShutdownInv, TypeOK, EntryHasHandler, TakesOwnJoin,
          ReleasedIsPast, LiveAddrsDiffer, Live, Running, JoinPhase
  <2>1. ASSUME NEW c \in Conns, RegisterJoin(c)
        PROVE  Lifecycle!Register(c) \/ JoinPhase' = JoinPhase
    <3>1. CASE ~Releaser
      BY <2>1, <3>1 DEF RegisterJoin
    <3>2. CASE Releaser
      <4>1. joins[Addr[c]] = NoJoin /\ taken[c] = NoJoin /\ releases[c] = 0
        BY <2>1, <3>2 DEF RegisterJoin
      <4>2. JoinPhase[c] = "none"
        BY <4>1
      <4>3. /\ joins' = [joins EXCEPT ![Addr[c]] = c]
            /\ taken' = taken
            /\ releases' = releases
        BY <2>1, <3>2 DEF RegisterJoin, RecordJoin
      <4>4. JoinPhase'[c] = "active"
        BY <4>1, <4>3
      <4>5. \A d \in Conns : d # c => JoinPhase'[d] = JoinPhase[d]
        BY <4>1, <4>3
      <4>6. JoinPhase' = [JoinPhase EXCEPT ![c] = "active"]
        <5> HIDE DEF JoinPhase
        <5> QED
          BY <4>4, <4>5, PhaseDomain
      <4> QED
        BY <4>2, <4>6 DEF Lifecycle!Register
    <3> QED
      BY <3>1, <3>2
  <2>2. ASSUME NEW c \in Conns, TakeJoin(c) PROVE JoinPhase' = JoinPhase
    BY <2>2 DEF TakeJoin, HasJoin, DeleteJoin
  <2>3. ASSUME NEW c \in Conns, CallReleaser(c) PROVE Lifecycle!Release(c)
    <3>1. taken[c] = c /\ releases[c] = 0
      BY <2>3 DEF CallReleaser
    <3>2. JoinPhase[c] = "active"
      BY <3>1
    <3>3. /\ releases' = [releases EXCEPT ![c] = 1]
          /\ joins' = joins
          /\ taken' = taken
      BY <2>3, <3>1 DEF CallReleaser
    <3>4. JoinPhase'[c] = "released"
      BY <3>3
    <3>5. \A d \in Conns : d # c => JoinPhase'[d] = JoinPhase[d]
      BY <3>3
    <3>6. JoinPhase' = [JoinPhase EXCEPT ![c] = "released"]
      <4> HIDE DEF JoinPhase
      <4> QED
        BY <3>4, <3>5, PhaseDomain
    <3> QED
      BY <3>2, <3>6 DEF Lifecycle!Release
  <2>4. CASE UNCHANGED <<joins, taken, releases>>
    BY <2>4
  <2> QED
    BY <2>1, <2>2, <2>3, <2>4, JoinSteps DEF Lifecycle!Next
<1> QED
  BY <1>1, <1>2, JoinInvariant, PTL DEF Spec, ImplementsLifecycle, Lifecycle!Spec

=============================================================================
