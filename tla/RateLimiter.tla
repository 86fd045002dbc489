----------------------------- MODULE RateLimiter -----------------------------
(***************************************************************************)
(* The fixed-window limiter of rate_limit.go, as the status handlers of    *)
(* several connections call it at the same time.  Allow reads the clock    *)
(* before it takes l.mu, so a caller may enter with a time stamp older     *)
(* than those of callers that entered before it.  A key is the host part   *)
(* rateLimitKey keeps of a remote address.                                 *)
(***************************************************************************)
EXTENDS Naturals, FiniteSets

CONSTANTS Procs,          \* connection handlers that call Allow
          Keys,           \* remote hosts
          Requests,       \* l.requests, after NewRateLimiter's default
          Window,         \* l.window, after NewRateLimiter's default
          CleanupFactor,  \* 32 in the source
          MaxTime         \* bound on the clock

ASSUME RateLimiterAssumption ==
    /\ Requests \in Nat \ {0}
    /\ Window \in Nat \ {0}
    /\ CleanupFactor \in Nat
    /\ MaxTime \in Nat

VARIABLES
    clock,      \* time.Now
    entries,    \* l.entries; NoEntry where the map has no key
    at,         \* at[p]: where p's call of Allow is, or what it returned
    key,        \* key[p]: the key of p's call
    now,        \* now[p]: the time stamp of p's call
    windowEnd,  \* windowEnd[k]: end of the window of k's last served request
    served      \* served[k]: requests of k served since then, by the clock
                \* (windowEnd and served are history)

vars == <<clock, entries, at, key, now, windowEnd, served>>

\* The zero rateLimitEntry that a missing key reads as: reset.IsZero().
NoEntry == [count |-> 0, reset |-> 0]

Entry == [count : Nat, reset : Nat]

Present(es) == {k \in Keys : es[k] # NoEntry}

Init ==
    /\ clock = 1
    /\ entries = [k \in Keys |-> NoEntry]
    /\ at = [p \in Procs |-> "outside"]
    /\ key \in [Procs -> Keys]
    /\ now = [p \in Procs |-> 0]
    /\ windowEnd = [k \in Keys |-> 0]
    /\ served = [k \in Keys |-> 0]

Tick ==
    /\ clock < MaxTime
    /\ clock' = clock + 1
    /\ UNCHANGED <<entries, at, key, now, windowEnd, served>>

\* Allow up to l.mu.Lock: the key and the time are read.
ReadClock(p, k) ==
    /\ at[p] # "waiting"
    /\ at' = [at EXCEPT ![p] = "waiting"]
    /\ key' = [key EXCEPT ![p] = k]
    /\ now' = [now EXCEPT ![p] = clock]
    /\ UNCHANGED <<clock, entries, windowEnd, served>>

\* entry.reset.IsZero() || !now.Before(entry.reset).
Expired(e, t) == e.reset = 0 \/ t >= e.reset

\* The entry the request is counted in: the stored one or a new window.
Current(k, t) ==
    IF Expired(entries[k], t) THEN [count |-> 0, reset |-> t + Window]
                              ELSE entries[k]

\* Mutant: one request too many.
OverBudget(e) == e.count > Requests

\* entry.count >= l.requests.
Exhausted(e) == e.count >= Requests

\* Mutants: cleanup drops what is still running; it drops nothing.
KeepExpired(es, t) == [k \in Keys |-> IF Expired(es[k], t) THEN es[k] ELSE NoEntry]
NoCleanup(es, t) == es

\* cleanup: entries whose window is over at t are deleted.
Cleanup(es, t) ==
    [k \in Keys |-> IF Expired(es[k], t) THEN NoEntry ELSE es[k]]

\* Allow under l.mu, request denied: the entry is stored unchanged.
Deny(p) ==
    LET e == Current(key[p], now[p])
    IN  /\ at[p] = "waiting"
        /\ Exhausted(e)
        /\ entries' = [entries EXCEPT ![key[p]] = e]
        /\ at' = [at EXCEPT ![p] = "denied"]
        /\ UNCHANGED <<clock, key, now, windowEnd, served>>

\* Allow under l.mu, request served: counted, stored, and a table that has
\* grown past requests*32 entries is cleaned up.
Grant(p) ==
    LET k  == key[p]
        e  == Current(k, now[p])
        es == [entries EXCEPT ![k] = [count |-> e.count + 1, reset |-> e.reset]]
    IN  /\ at[p] = "waiting"
        /\ ~Exhausted(e)
        /\ entries' = IF Cardinality(Present(es)) > Requests * CleanupFactor
                      THEN Cleanup(es, now[p]) ELSE es
        /\ at' = [at EXCEPT ![p] = "allowed"]
        /\ windowEnd' = [windowEnd EXCEPT ![k] = e.reset]
        /\ served' = [served EXCEPT ![k] =
                          IF clock >= windowEnd[k] THEN 1 ELSE @ + 1]
        /\ UNCHANGED <<clock, key, now>>

Next ==
    \/ Tick
    \/ \E p \in Procs :
           \/ \E k \in Keys : ReadClock(p, k)
           \/ Deny(p)
           \/ Grant(p)

Spec == Init /\ [][Next]_vars

-----------------------------------------------------------------------------

TypeOK ==
    /\ clock \in Nat
    /\ entries \in [Keys -> Entry]
    /\ at \in [Procs -> {"outside", "waiting", "allowed", "denied"}]
    /\ key \in [Procs -> Keys]
    /\ now \in [Procs -> Nat]
    /\ windowEnd \in [Keys -> Nat]
    /\ served \in [Keys -> Nat]

\* From the first request a host has served in a window until that window ends
\* by the clock, it is served at most l.requests times: callers that enter
\* l.mu with an old time stamp neither reopen the window nor let cleanup forget
\* it.
Budget == \A k \in Keys : served[k] <= Requests

\* While a window is running by the clock, its entry stays in the table, keeps
\* its end and never counts down, whoever's cleanup runs.
RunningWindowKept ==
    [][\A k \in Keys : clock < entries[k].reset =>
           /\ entries'[k].reset = entries[k].reset
           /\ entries'[k].count >= entries[k].count]_vars

\* A served request that leaves more than requests*32 entries behind leaves only
\* ones whose window is not over at its time stamp: dead hosts do not pile up.
TableCleaned ==
    [][\A p \in Procs :
           /\ at[p] = "waiting" /\ at'[p] = "allowed"
           /\ Cardinality(Present(entries')) > Requests * CleanupFactor
           => \A k \in Present(entries') : now[p] < entries'[k].reset]_vars

\* The inductive invariant behind Budget: stamps are never in the future, and a
\* window that is running by the clock is the one its entry records.
RateInv ==
    /\ TypeOK
    /\ clock >= 1
    /\ \A p \in Procs : now[p] <= clock
    /\ \A k \in Keys : entries[k].count <= Requests
    /\ \A k \in Keys : served[k] <= Requests
    /\ \A k \in Keys : clock < windowEnd[k] =>
           /\ entries[k].reset = windowEnd[k]
           /\ served[k] <= entries[k].count

=============================================================================
