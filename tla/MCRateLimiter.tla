--------------------------- MODULE MCRateLimiter ---------------------------
(***************************************************************************)
(* Three handlers, three hosts, two requests per window of two ticks; the  *)
(* table is cleaned up when it holds more than two hosts.                  *)
(***************************************************************************)
EXTENDS RateLimiter, TLC

CONSTANTS p1, p2, p3, k1, k2, k3

\* Neither callers nor hosts are told apart by the code.
Symmetry == Permutations({p1, p2, p3}) \cup Permutations({k1, k2, k3})

=============================================================================
