------------------------- MODULE RateLimiterProofs -------------------------
(***************************************************************************)
(* Proofs about RateLimiter, for any number of callers and hosts, any      *)
(* limit and any window.                                                   *)
(***************************************************************************)
EXTENDS RateLimiter, TLAPS

LEMMA InitRate == Init => RateInv
  BY RateLimiterAssumption DEF Init, RateInv, TypeOK, Entry, NoEntry

\* The entry a request is counted in, seen from the table and the clock.
LEMMA CurrentEntry ==
    ASSUME RateInv, NEW p \in Procs
    PROVE  LET e == Current(key[p], now[p])
           IN  /\ e \in Entry
               /\ e.count <= Requests
               /\ clock < entries[key[p]].reset => e = entries[key[p]]
               /\ e = entries[key[p]] \/ e.count = 0
  BY RateLimiterAssumption
  DEF RateInv, TypeOK, Entry, Current, Expired

LEMMA NextRate == RateInv /\ [Next]_vars => RateInv'
<1> SUFFICES ASSUME RateInv, [Next]_vars PROVE RateInv'
  OBVIOUS
<1> USE RateLimiterAssumption
<1>1. CASE Tick
  BY <1>1 DEF Tick, RateInv, TypeOK, Entry
<1>2. ASSUME NEW p \in Procs, NEW k \in Keys, ReadClock(p, k) PROVE RateInv'
  BY <1>2 DEF ReadClock, RateInv, TypeOK, Entry
<1>3. ASSUME NEW p \in Procs, Deny(p) PROVE RateInv'
  BY <1>3, CurrentEntry DEF Deny, RateInv, TypeOK, Entry
<1>4. ASSUME NEW p \in Procs, Grant(p) PROVE RateInv'
  BY <1>4, CurrentEntry DEF Grant, Exhausted, Cleanup, Expired, NoEntry, RateInv, TypeOK, Entry
<1>5. CASE UNCHANGED vars
  BY <1>5 DEF vars, RateInv, TypeOK
<1> QED
  BY <1>1, <1>2, <1>3, <1>4, <1>5 DEF Next

\* The limiter's state keeps its type for any number of callers and hosts.
THEOREM TypeCorrect == Spec => []TypeOK
<1>1. RateInv => TypeOK
  BY DEF RateInv
<1> QED
  BY <1>1, InitRate, NextRate, PTL DEF Spec

\* However stale the time stamps of concurrent calls of Allow are, a host is
\* served at most l.requests times before its window ends by the clock.
THEOREM BudgetHolds == Spec => []Budget
<1>1. RateInv => Budget
  BY DEF RateInv, Budget
<1> QED
  BY <1>1, InitRate, NextRate, PTL DEF Spec

\* No call of Allow, and no cleanup, touches the entry of a window that is
\* still running by the clock, except to count up.
THEOREM WindowKept == Spec => RunningWindowKept
<1>1. ASSUME RateInv, [Next]_vars, NEW k \in Keys, clock < entries[k].reset
      PROVE  /\ entries'[k].reset = entries[k].reset
             /\ entries'[k].count >= entries[k].count
  <2> USE <1>1, RateLimiterAssumption DEF RateInv, TypeOK, Entry
  <2>1. CASE UNCHANGED entries
    BY <2>1
  <2>2. ASSUME NEW p \in Procs, Deny(p)
        PROVE  entries'[k] = entries[k]
    BY <2>2, CurrentEntry DEF Deny
  <2>3. ASSUME NEW p \in Procs, Grant(p)
        PROVE  /\ entries'[k].reset = entries[k].reset
               /\ entries'[k].count >= entries[k].count
    BY <2>3, CurrentEntry DEF Grant, Cleanup, Expired
  <2> QED
    BY <2>1, <2>2, <2>3 DEF Next, vars, Tick, ReadClock
<1>2. RateInv /\ [Next]_vars =>
        [\A k \in Keys : clock < entries[k].reset =>
             /\ entries'[k].reset = entries[k].reset
             /\ entries'[k].count >= entries[k].count]_vars
  BY <1>1
<1> QED
  BY <1>2, InitRate, NextRate, PTL DEF Spec, RunningWindowKept

\* A request served on a table that has grown past requests*32 entries leaves
\* none in it whose window is over at the request's time stamp.
THEOREM TableIsCleaned == Spec => TableCleaned
<1>1. ASSUME RateInv, [Next]_vars, NEW p \in Procs, at[p] = "waiting", at'[p] = "allowed",
             Cardinality(Present(entries')) > Requests * CleanupFactor,
             NEW k \in Present(entries')
      PROVE  now[p] < entries'[k].reset
  <2> USE <1>1 DEF RateInv, TypeOK, Entry
  <2>1. Grant(p)
    BY DEF Next, vars, Tick, ReadClock, Deny, Grant
  <2> DEFINE e  == Current(key[p], now[p])
             es == [entries EXCEPT ![key[p]] = [count |-> e.count + 1, reset |-> e.reset]]
  <2>2. e \in Entry
    BY CurrentEntry
  <2>3. es \in [Keys -> Entry]
    BY <2>2
  <2>4. k \in Keys /\ entries'[k] # NoEntry
    BY DEF Present
  <2>5. entries' = Cleanup(es, now[p]) \/ entries' = es
    BY <2>1 DEF Grant
  <2>6. CASE entries' = Cleanup(es, now[p])
    BY <2>3, <2>4, <2>6 DEF Cleanup, Expired
  <2>7. CASE entries' = es /\ entries' # Cleanup(es, now[p])
    BY <2>1, <2>7 DEF Grant
  <2> QED
    BY <2>5, <2>6, <2>7
<1>2. RateInv /\ [Next]_vars =>
        [\A p \in Procs :
             /\ at[p] = "waiting" /\ at'[p] = "allowed"
             /\ Cardinality(Present(entries')) > Requests * CleanupFactor
             => \A k \in Present(entries') : now[p] < entries'[k].reset]_vars
  BY <1>1
<1> QED
  BY <1>2, InitRate, NextRate, PTL DEF Spec, TableCleaned

=============================================================================
