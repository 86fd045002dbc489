------------------------------- MODULE Server -------------------------------
(***************************************************************************)
(* The embeddable server of server.go: the accept loop of Serve, one       *)
(* handler goroutine per connection, the callers of Shutdown, the          *)
(* goroutine that turns a cancelled context into a Shutdown, and the table *)
(* of active joins they share.                                             *)
(*                                                                         *)
(* Every region between s.mu.Lock and s.mu.Unlock is one step; everything  *)
(* between two such regions can interleave.  A client is named by its      *)
(* connection, Addr[c] is the text remoteAddrKey makes of its remote       *)
(* address, and an activeJoin is named by the connection whose player it   *)
(* belongs to.                                                             *)
(***************************************************************************)
EXTENDS Naturals

CONSTANTS Conns,          \* connections a client may open
          Addrs,          \* remote addresses, as remoteAddrKey prints them
          Addr,           \* Addr[c]: the remote address of connection c
          Callers,        \* application goroutines that call Shutdown
          CtxCaller,      \* the goroutine Serve starts: <-ctx.Done(), Shutdown
          NoJoin,         \* an address without an entry in s.joins
          Releaser,       \* whether the JoinResolver is also a JoinReleaser
          ExclusiveAddrs  \* whether two live connections never share an address

ASSUME ServerAssumption ==
    /\ Addr \in [Conns -> Addrs]
    /\ CtxCaller \notin Callers
    /\ NoJoin \notin Conns
    /\ Releaser \in BOOLEAN
    /\ ExclusiveAddrs \in BOOLEAN

AllCallers == Callers \cup {CtxCaller}

VARIABLES
    closed,     \* s.closed
    listener,   \* "unset": s.listener is nil; "open"; "closed"
    conns,      \* s.conns: the tracked connections
    joins,      \* s.joins: address -> connection whose join is active there
    wg,         \* s.wg: the handlers added and not yet done
    ctxDone,    \* whether the context given to Serve is cancelled
    serve,      \* control state of Serve
    current,    \* the connection Serve holds between Accept and go
    handler,    \* handler[c]: control state of connection c's goroutine
    taken,      \* taken[c]: the join that c's releaseJoin removed from s.joins
    open,       \* open[c]: the server's side of the socket is not closed
    caller,     \* caller[p]: control state of p's call of Shutdown
    snapshot,   \* the connections the closing Shutdown has still to close
    waitDone,   \* close(done) of the goroutine that runs s.wg.Wait
    releases    \* releases[c]: how often ReleaseJoin got c's join (history)

vars == <<closed, listener, conns, joins, wg, ctxDone, serve, current, handler,
          taken, open, caller, snapshot, waitDone, releases>>

\* The control states of a connection's goroutine.
HandlerStates ==
    {"absent",      \* not accepted
     "accepted",    \* held by the accept loop
     "rejected",    \* refused by the PROXY protocol wrapper
     "serving",     \* in ServeConn, before the login packets are read
     "login",       \* in ServeConn, the player is known
     "resolved",    \* in ResolveJoin, the application's resolver has returned
     "joined",      \* in ServeConn, after ResolveJoin
     "returned",    \* ServeConn returned, untrackConn not yet run
     "closing",     \* untrackConn: conn.Close done
     "releasing",   \* releaseJoin: entry taken, ReleaseJoin not yet called
     "released",    \* releaseJoin done, conn still in s.conns
     "untracked",   \* conn removed from s.conns
     "done"}        \* s.wg.Done

\* The states in which the goroutine runs, from go to s.wg.Done.
Running == {"serving", "login", "resolved", "joined", "returned", "closing",
            "releasing", "released", "untracked"}

\* The states in which a connection has no goroutine and will not get one.
Ended == {"absent", "rejected", "done"}

\* The control states of a call of Shutdown.
Returned == {"returnedNil",     \* nil from the select: the handlers are done
             "returnedErr",     \* the caller's context expired first
             "returnedEarly"}   \* nil because the server was already closed
CallerStates == {"idle", "locked", "closing", "waiting"} \cup Returned

Init ==
    /\ closed = FALSE
    /\ listener = "unset"
    /\ conns = {}
    /\ joins = [a \in Addrs |-> NoJoin]
    /\ wg = {}
    /\ ctxDone = FALSE
    /\ serve = "start"
    /\ current = NoJoin
    /\ handler = [c \in Conns |-> "absent"]
    /\ taken = [c \in Conns |-> NoJoin]
    /\ open = [c \in Conns |-> FALSE]
    /\ caller = [p \in AllCallers |-> "idle"]
    /\ snapshot = {}
    /\ waitDone = FALSE
    /\ releases = [c \in Conns |-> 0]

-----------------------------------------------------------------------------
(***************************************************************************)
(* Serve.                                                                  *)
(***************************************************************************)

\* The entry of Serve: a closed server closes the listener it was given and
\* returns net.ErrClosed, otherwise the listener is published.
ServeStart ==
    /\ serve = "start"
    /\ \/ /\ closed
          /\ serve' = "returned"
          /\ UNCHANGED listener
       \/ /\ ~closed
          /\ serve' = "accept"
          /\ listener' = "open"
    /\ UNCHANGED <<closed, conns, joins, wg, ctxDone, current, handler, taken,
                   open, caller, snapshot, waitDone, releases>>

\* The connections that still use an address: their goroutine has not finished.
\* The socket is closed shortly before, and the system could give the peer's
\* address away between the two; ExclusiveAddrs assumes it does not.
Live == {c \in Conns : handler[c] \in Running \cup {"accepted"}}

\* ln.Accept returns a connection.
Accept(c) ==
    /\ serve = "accept"
    /\ listener = "open"
    /\ handler[c] = "absent"
    /\ ExclusiveAddrs => \A d \in Live : Addr[d] # Addr[c]
    /\ serve' = "accepted"
    /\ current' = c
    /\ handler' = [handler EXCEPT ![c] = "accepted"]
    /\ open' = [open EXCEPT ![c] = TRUE]
    /\ UNCHANGED <<closed, listener, conns, joins, wg, ctxDone, taken, caller,
                   snapshot, waitDone, releases>>

\* ln.Accept fails: because the listener is closed, or for any other reason
\* (Serve then returns the error, or nil if the context is done).
AcceptError ==
    /\ serve = "accept"
    /\ serve' = "returned"
    /\ UNCHANGED <<closed, listener, conns, joins, wg, ctxDone, current,
                   handler, taken, open, caller, snapshot, waitDone, releases>>

\* The PROXY protocol wrapper refuses the connection: closed, next Accept.
Reject(c) ==
    /\ serve = "accepted"
    /\ current = c
    /\ serve' = "accept"
    /\ current' = NoJoin
    /\ handler' = [handler EXCEPT ![c] = "rejected"]
    /\ open' = [open EXCEPT ![c] = FALSE]
    /\ UNCHANGED <<closed, listener, conns, joins, wg, ctxDone, taken, caller,
                   snapshot, waitDone, releases>>

\* Mutant: trackConn without its test of s.closed.
TrackAlways(c) == conns' = conns \cup {c} /\ UNCHANGED open

\* The body of trackConn: a closed server closes the connection instead of
\* tracking it.
TrackOrClose(c) ==
    \/ /\ closed
       /\ open' = [open EXCEPT ![c] = FALSE]
       /\ UNCHANGED conns
    \/ /\ ~closed
       /\ conns' = conns \cup {c}
       /\ UNCHANGED open

\* Serve calls trackConn and goes on to start the handler in either case.
TrackConn(c) ==
    /\ serve = "accepted"
    /\ current = c
    /\ serve' = "tracked"
    /\ TrackOrClose(c)
    /\ UNCHANGED <<closed, listener, joins, wg, ctxDone, current, handler,
                   taken, caller, snapshot, waitDone, releases>>

\* s.wg.Add(1) and the go statement.
StartHandler(c) ==
    /\ serve = "tracked"
    /\ current = c
    /\ serve' = "accept"
    /\ current' = NoJoin
    /\ wg' = wg \cup {c}
    /\ handler' = [handler EXCEPT ![c] = "serving"]
    /\ UNCHANGED <<closed, listener, conns, joins, ctxDone, taken, open, caller,
                   snapshot, waitDone, releases>>

-----------------------------------------------------------------------------
(***************************************************************************)
(* The handler goroutine: ProtocolRouter.ServeConn, which calls ResolveJoin*)
(* at most once, then untrackConn and s.wg.Done.                           *)
(***************************************************************************)

\* The handler reads the login packets, which needs an open connection.
ReadLogin(c) ==
    /\ handler[c] = "serving"
    /\ open[c]
    /\ handler' = [handler EXCEPT ![c] = "login"]
    /\ UNCHANGED <<closed, listener, conns, joins, wg, ctxDone, serve, current,
                   taken, open, caller, snapshot, waitDone, releases>>

\* The application's resolver returns a target with a world, outside s.mu.
CallResolver(c) ==
    /\ handler[c] = "login"
    /\ handler' = [handler EXCEPT ![c] = "resolved"]
    /\ UNCHANGED <<closed, listener, conns, joins, wg, ctxDone, serve, current,
                   taken, open, caller, snapshot, waitDone, releases>>

\* Mutants: the table replaced by a new one; every player under one key.
RecordInNewMap(c) == [a \in {Addr[c]} |-> c]
RecordUnderOneKey(c) == [joins EXCEPT ![CHOOSE a \in Addrs : TRUE] = c]

\* s.joins[remoteAddrKey(player.RemoteAddr)] = activeJoin{player, target}.
RecordJoin(c) == [joins EXCEPT ![Addr[c]] = c]

\* ResolveJoin records the join if the resolver wants it released later.
RegisterJoin(c) ==
    /\ handler[c] = "resolved"
    /\ handler' = [handler EXCEPT ![c] = "joined"]
    /\ joins' = IF Releaser THEN RecordJoin(c) ELSE joins
    /\ UNCHANGED <<closed, listener, conns, wg, ctxDone, serve, current, taken,
                   open, caller, snapshot, waitDone, releases>>

\* ServeConn returns: the client left, the connection was closed under it, the
\* resolver failed or returned no world, or the protocol ended.
ReturnServeConn(c) ==
    /\ handler[c] \in {"serving", "login", "joined"}
    /\ handler' = [handler EXCEPT ![c] = "returned"]
    /\ UNCHANGED <<closed, listener, conns, joins, wg, ctxDone, serve, current,
                   taken, open, caller, snapshot, waitDone, releases>>

\* untrackConn, first statement: conn.Close.
UntrackClose(c) ==
    /\ handler[c] = "returned"
    /\ handler' = [handler EXCEPT ![c] = "closing"]
    /\ open' = [open EXCEPT ![c] = FALSE]
    /\ UNCHANGED <<closed, listener, conns, joins, wg, ctxDone, serve, current,
                   taken, caller, snapshot, waitDone, releases>>

\* Mutants: the entry is kept; the whole table is emptied.
KeepJoin(c) == joins
DeleteAllJoins(c) == [a \in Addrs |-> NoJoin]

\* delete(s.joins, key).
DeleteJoin(c) == [joins EXCEPT ![Addr[c]] = NoJoin]

\* Mutant: nothing is released once the server is closed.
HasJoinUnlessClosed(c) == ~closed /\ Releaser /\ joins[Addr[c]] # NoJoin

\* Whether releaseJoin finds a releaser and an entry under the address.
HasJoin(c) == Releaser /\ joins[Addr[c]] # NoJoin

\* releaseJoin, the locked part: the entry under the connection's address is
\* read and deleted, whichever player it belongs to.
TakeJoin(c) ==
    /\ handler[c] = "closing"
    /\ IF HasJoin(c)
       THEN /\ taken' = [taken EXCEPT ![c] = joins[Addr[c]]]
            /\ joins' = DeleteJoin(c)
            /\ handler' = [handler EXCEPT ![c] = "releasing"]
       ELSE /\ handler' = [handler EXCEPT ![c] = "released"]
            /\ UNCHANGED <<taken, joins>>
    /\ UNCHANGED <<closed, listener, conns, wg, ctxDone, serve, current, open,
                   caller, snapshot, waitDone, releases>>

\* releaseJoin, after the unlock: ReleaseJoin of the application; its error is
\* only logged.
CallReleaser(c) ==
    /\ handler[c] = "releasing"
    /\ handler' = [handler EXCEPT ![c] = "released"]
    /\ releases' = [releases EXCEPT ![taken[c]] = @ + 1]
    /\ UNCHANGED <<closed, listener, conns, joins, wg, ctxDone, serve, current,
                   taken, open, caller, snapshot, waitDone>>

\* untrackConn, last statement: the connection leaves s.conns.
UntrackDelete(c) ==
    /\ handler[c] = "released"
    /\ handler' = [handler EXCEPT ![c] = "untracked"]
    /\ conns' = conns \ {c}
    /\ UNCHANGED <<closed, listener, joins, wg, ctxDone, serve, current, taken,
                   open, caller, snapshot, waitDone, releases>>

\* The outer deferred call: s.wg.Done.
WgDone(c) ==
    /\ handler[c] = "untracked"
    /\ handler' = [handler EXCEPT ![c] = "done"]
    /\ wg' = wg \ {c}
    /\ UNCHANGED <<closed, listener, conns, joins, ctxDone, serve, current,
                   taken, open, caller, snapshot, waitDone, releases>>

-----------------------------------------------------------------------------
(***************************************************************************)
(* Shutdown and the cancelled context.                                     *)
(***************************************************************************)

\* The application cancels the context it gave to Serve.
CancelCtx ==
    /\ ~ctxDone
    /\ ctxDone' = TRUE
    /\ UNCHANGED <<closed, listener, conns, joins, wg, serve, current, handler,
                   taken, open, caller, snapshot, waitDone, releases>>

\* Shutdown up to s.mu.Unlock.  A second call returns nil at once; the first
\* one closes the server and copies s.conns.  The goroutine of Serve exists
\* once Serve has published its listener and calls when the context is done.
ShutdownLock(p) ==
    /\ caller[p] = "idle"
    /\ p = CtxCaller => ctxDone /\ listener # "unset"
    /\ \/ /\ closed
          /\ caller' = [caller EXCEPT ![p] = "returnedEarly"]
          /\ UNCHANGED <<closed, snapshot>>
       \/ /\ ~closed
          /\ closed' = TRUE
          /\ snapshot' = conns
          /\ caller' = [caller EXCEPT ![p] = "locked"]
    /\ UNCHANGED <<listener, conns, joins, wg, ctxDone, serve, current, handler,
                   taken, open, waitDone, releases>>

\* ln.Close, when s.listener is set.
CloseListener == IF listener = "unset" THEN "unset" ELSE "closed"

\* The step after the unlock: ln.Close, when s.listener was set at the time of the lock.
ShutdownListener(p) ==
    /\ caller[p] = "locked"
    /\ caller' = [caller EXCEPT ![p] = "closing"]
    /\ listener' = CloseListener
    /\ UNCHANGED <<closed, conns, joins, wg, ctxDone, serve, current, handler,
                   taken, open, snapshot, waitDone, releases>>

\* Mutant: the loop leaves the connections open.
LeaveOpen(c) == open

\* conn.Close on a copied connection.
CloseCopied(c) == [open EXCEPT ![c] = FALSE]

\* One iteration of the loop that closes the copied connections.
ShutdownConn(p, c) ==
    /\ caller[p] = "closing"
    /\ c \in snapshot
    /\ snapshot' = snapshot \ {c}
    /\ open' = CloseCopied(c)
    /\ UNCHANGED <<closed, listener, conns, joins, wg, ctxDone, serve, current,
                   handler, taken, caller, waitDone, releases>>

\* The loop is over: the goroutine that waits for the handlers starts.
ShutdownWait(p) ==
    /\ caller[p] = "closing"
    /\ snapshot = {}
    /\ caller' = [caller EXCEPT ![p] = "waiting"]
    /\ UNCHANGED <<closed, listener, conns, joins, wg, ctxDone, serve, current,
                   handler, taken, open, snapshot, waitDone, releases>>

\* Mutant: done is closed without waiting.
NoWait == TRUE

\* s.wg's counter is zero.
HandlersDone == wg = {}

\* s.wg.Wait returns in that goroutine and done is closed.
WgWait ==
    /\ \E p \in AllCallers : caller[p] \in {"waiting", "returnedErr"}
    /\ HandlersDone
    /\ ~waitDone
    /\ waitDone' = TRUE
    /\ UNCHANGED <<closed, listener, conns, joins, wg, ctxDone, serve, current,
                   handler, taken, open, caller, snapshot, releases>>

\* The select: nil when done is closed, the error of the caller's own context
\* when that expired.  Serve's goroutine passes context.Background.
ShutdownReturn(p) ==
    /\ caller[p] = "waiting"
    /\ \/ /\ waitDone
          /\ caller' = [caller EXCEPT ![p] = "returnedNil"]
       \/ /\ p # CtxCaller
          /\ caller' = [caller EXCEPT ![p] = "returnedErr"]
    /\ UNCHANGED <<closed, listener, conns, joins, wg, ctxDone, serve, current,
                   handler, taken, open, snapshot, waitDone, releases>>

-----------------------------------------------------------------------------

ServeStep == ServeStart \/ AcceptError \/ \E c \in Conns :
                 Accept(c) \/ Reject(c) \/ TrackConn(c) \/ StartHandler(c)

HandlerStep(c) ==
    \/ ReadLogin(c) \/ CallResolver(c) \/ RegisterJoin(c) \/ ReturnServeConn(c)
    \/ UntrackClose(c) \/ TakeJoin(c) \/ CallReleaser(c) \/ UntrackDelete(c)
    \/ WgDone(c)

ShutdownStep(p) ==
    \/ ShutdownLock(p) \/ ShutdownListener(p) \/ ShutdownWait(p)
    \/ ShutdownReturn(p) \/ \E c \in Conns : ShutdownConn(p, c)

\* Nothing is left to do: every call has returned and every goroutine ended.
Terminated ==
    /\ serve = "returned"
    /\ \A p \in AllCallers :
           \/ caller[p] \in Returned
           \/ p = CtxCaller /\ listener = "unset"
    /\ \A c \in Conns : handler[c] \in Ended
    /\ UNCHANGED vars

Next ==
    \/ ServeStep
    \/ \E c \in Conns : HandlerStep(c)
    \/ CancelCtx
    \/ \E p \in AllCallers : ShutdownStep(p)
    \/ WgWait
    \/ Terminated

Spec == Init /\ [][Next]_vars

\* What the code's scheduling guarantees.  Goroutines that can run do run: the
\* accept loop between Accept and go, a Shutdown that was called, the deferred
\* calls of a handler.  A handler whose connection is closed gets an error from
\* its next read or write and returns (application callbacks are taken to
\* return).  A closed listener fails Accept.  Nothing makes clients, the
\* application's cancel or its calls of Shutdown happen, and nothing ends a
\* handler whose connection stays open.
Fairness ==
    /\ WF_vars(ServeStart)
    /\ WF_vars(listener = "closed" /\ AcceptError)
    /\ WF_vars(\E c \in Conns : TrackConn(c) \/ StartHandler(c))
    /\ \A c \in Conns :
           /\ WF_vars(~open[c] /\ HandlerStep(c))
           /\ WF_vars(RegisterJoin(c) \/ UntrackClose(c))
    /\ WF_vars(ShutdownStep(CtxCaller))
    /\ \A p \in Callers : WF_vars(caller[p] # "idle" /\ ShutdownStep(p))
    /\ WF_vars(WgWait)

FairSpec == Spec /\ Fairness

-----------------------------------------------------------------------------
(***************************************************************************)
(* The promise to the application: JoinLifecycle.                          *)
(***************************************************************************)

\* How far c's join has come, as the application sees it.
JoinPhase == [c \in Conns |->
    IF releases[c] > 0 THEN "released"
    ELSE IF joins[Addr[c]] = c \/ taken[c] = c THEN "active"
    ELSE "none"]

Lifecycle == INSTANCE JoinLifecycle WITH phase <- JoinPhase

-----------------------------------------------------------------------------
(***************************************************************************)
(* Properties.                                                             *)
(***************************************************************************)

TypeOK ==
    /\ closed \in BOOLEAN
    /\ listener \in {"unset", "open", "closed"}
    /\ conns \subseteq Conns
    /\ joins \in [Addrs -> Conns \cup {NoJoin}]
    /\ wg \subseteq Conns
    /\ ctxDone \in BOOLEAN
    /\ serve \in {"start", "accept", "accepted", "tracked", "returned"}
    /\ current \in Conns \cup {NoJoin}
    /\ handler \in [Conns -> HandlerStates]
    /\ taken \in [Conns -> Conns \cup {NoJoin}]
    /\ open \in [Conns -> BOOLEAN]
    /\ caller \in [AllCallers -> CallerStates]
    /\ snapshot \subseteq Conns
    /\ waitDone \in BOOLEAN
    /\ releases \in [Conns -> Nat]

\* Shutdown that returned nil after its wait left nothing behind: no join is
\* active or being released, and no handler is past its first read, although
\* the accept loop may still start the handler of a connection it accepted
\* before the listener was closed (trackConn and s.wg.Add race with s.wg.Wait).
QuietAfterShutdown ==
    (\E p \in AllCallers : caller[p] = "returnedNil") =>
        /\ \A a \in Addrs : joins[a] = NoJoin
        /\ \A c \in Conns : handler[c] \notin
               {"login", "resolved", "joined", "releasing"}

\* Once the closing Shutdown has run its loop, every connection that has a
\* handler is closed: trackConn and the copy of s.conns miss none between them.
NoOpenHandlerAfterClose ==
    closed /\ snapshot = {} =>
        \A c \in Conns : handler[c] \in Running => ~open[c]

\* A join is released at most once, by the handler of its own connection, and
\* never while that connection is open ("clean them up after the connection
\* closes", JoinReleaser).  The table is keyed by address, so this needs
\* addresses that two live connections never share.
ReleaseAfterClose ==
    \A c \in Conns : releases[c] > 0 => releases[c] = 1 /\ ~open[c]

\* While a player is in the world its own join is the one recorded under its
\* address, so the release that follows will be of that join.
JoinedIsRecorded ==
    Releaser => \A c \in Conns : handler[c] = "joined" => joins[Addr[c]] = c

\* An active join leaves the table only into the hands of its own connection's
\* handler, which is about to call ReleaseJoin: it is never overwritten or
\* dropped.
JoinNeverLost ==
    [][\A a \in Addrs : joins[a] # NoJoin /\ joins'[a] # joins[a] =>
           /\ handler'[joins[a]] = "releasing"
           /\ taken'[joins[a]] = joins[a]]_vars

\* The server implements the life cycle: each join is recorded at most once,
\* then stays active until it is released, and nothing brings it back.  With
\* addresses shared by live connections this fails: ResolveJoin overwrites.
ImplementsLifecycle == Lifecycle!Spec

\* The accept loop has returned, no handler is left, nothing is tracked and no
\* join is active.
Stopped ==
    /\ serve = "returned"
    /\ \A c \in Conns : handler[c] \in Ended
    /\ conns = {}
    /\ \A a \in Addrs : joins[a] = NoJoin

\* Cancelling the context, or a Shutdown that is called, stops the server for
\* good: Serve returns, every handler ends and every join is released, even when
\* that Shutdown's own context expires during the wait or it found the server
\* already closed.
ShutdownStops ==
    (ctxDone \/ \E p \in Callers : caller[p] # "idle") ~> []Stopped

\* A player whose connection is closed has its join released in the end.
ClosedJoinReleased ==
    Releaser => \A c \in Conns :
        (handler[c] = "joined" /\ ~open[c]) ~> (releases[c] = 1)

\* Shutdown "closes the listener and active connections, then waits for
\* handlers": whenever a call returns nil, no handler is in a player's session.
ShutdownWaitsForHandlers ==
    \A p \in AllCallers : caller[p] \in {"returnedNil", "returnedEarly"} =>
        \A c \in Conns : handler[c] \notin {"login", "resolved", "joined"}

-----------------------------------------------------------------------------
(***************************************************************************)
(* The inductive invariant behind QuietAfterShutdown and                   *)
(* NoOpenHandlerAfterClose.                                                *)
(***************************************************************************)

\* The states of the one call of Shutdown that closed the server.
Closer == {"locked", "closing", "waiting", "returnedNil", "returnedErr"}

\* s.wg counts exactly the handlers that run.
WgCounts == wg = {c \in Conns : handler[c] \in Running}

\* The accept loop holds the one connection that is accepted and not started.
AcceptedIsCurrent ==
    /\ \A c \in Conns : handler[c] = "accepted" =>
           current = c /\ serve \in {"accepted", "tracked"}
    /\ serve \in {"accepted", "tracked"} =>
           current \in Conns /\ handler[current] = "accepted"

\* An open connection that was tracked is in s.conns or, after the server was
\* closed, still to be closed by Shutdown's loop; untrackConn closes before it
\* removes.
Tracked(c) == handler[c] \in Running \/ (current = c /\ serve = "tracked")
OpenIsReachable ==
    /\ \A c \in Conns : open[c] /\ Tracked(c) =>
           IF closed THEN c \in snapshot ELSE c \in conns
    /\ \A c \in Conns : open[c] => handler[c] \in
           {"accepted", "serving", "login", "resolved", "joined", "returned"}

\* One call of Shutdown closes the server; the wait starts with its loop over.
OneCloser ==
    /\ ~closed => \A p \in AllCallers : caller[p] = "idle"
    /\ \A p, q \in AllCallers :
           caller[p] \in Closer /\ caller[q] \in Closer => p = q
    /\ \A p \in AllCallers :
           caller[p] \in {"waiting", "returnedNil", "returnedErr"} => snapshot = {}
    /\ waitDone => closed /\ snapshot = {}
    /\ \A p \in AllCallers : caller[p] = "locked" => ~waitDone
    /\ \A p \in AllCallers : caller[p] = "returnedNil" => waitDone

\* An entry of the table belongs to a handler that has yet to take it.
EntryHasHandler ==
    \A a \in Addrs : joins[a] # NoJoin =>
        /\ Releaser
        /\ Addr[joins[a]] = a
        /\ handler[joins[a]] \in {"joined", "returned", "closing"}

\* After the wait no handler gets past its first read, and the table is empty.
QuietAfterWait ==
    waitDone =>
        /\ \A a \in Addrs : joins[a] = NoJoin
        /\ \A c \in Conns : handler[c] \notin
               {"login", "resolved", "joined", "releasing"}

ShutdownInv ==
    /\ TypeOK
    /\ WgCounts
    /\ AcceptedIsCurrent
    /\ OpenIsReachable
    /\ OneCloser
    /\ EntryHasHandler
    /\ QuietAfterWait

-----------------------------------------------------------------------------
(***************************************************************************)
(* The inductive invariant behind the join properties, for addresses that  *)
(* live connections do not share.                                          *)
(***************************************************************************)

\* Connections whose goroutine has not finished have different addresses.
LiveAddrsDiffer ==
    \A c, d \in Live : Addr[c] = Addr[d] => c = d

\* A handler only ever takes its own join out of the table.
TakesOwnJoin ==
    \A c \in Conns :
        /\ taken[c] \in {NoJoin, c}
        /\ handler[c] = "releasing" => taken[c] = c
        /\ taken[c] = c => handler[c] \in
               {"releasing", "released", "untracked", "done"}
        /\ taken[c] = c /\ handler[c] # "releasing" => releases[c] = 1

\* A released join belongs to a handler past releaseJoin.
ReleasedIsPast ==
    \A c \in Conns : releases[c] > 0 =>
        /\ releases[c] = 1
        /\ handler[c] \in {"released", "untracked", "done"}

OwnInv ==
    /\ LiveAddrsDiffer
    /\ TakesOwnJoin
    /\ ReleasedIsPast
    /\ JoinedIsRecorded

JoinInv == ShutdownInv /\ OwnInv

=============================================================================
