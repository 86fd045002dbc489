------------------------------ MODULE MCServer ------------------------------
(***************************************************************************)
(* Instances of Server for TLC: three connections over two addresses, so   *)
(* that an address is used again, one application goroutine that calls     *)
(* Shutdown besides the one Serve starts.                                  *)
(***************************************************************************)
EXTENDS Server, TLC

CONSTANTS c1, c2, c3, a1, a2

\* The third connection comes from the address of the first.
MCAddr == (c1 :> a1) @@ (c2 :> a2) @@ (c3 :> a1)

\* Two connections that come from different addresses.
MCAddrPair == (c1 :> a1) @@ (c2 :> a2)

=============================================================================
