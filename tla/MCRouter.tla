------------------------------ MODULE MCRouter ------------------------------
(***************************************************************************)
(* One connection: a client of every kind of protocol, of one with a       *)
(* packet table and no adapter, and of an unknown one; all login modes;    *)
(* one update of the registry data; one packet out of place.               *)
(***************************************************************************)
EXTENDS Router

\* All that the router asks of a protocol with an adapter: two protocols of
\* one kind have the same behaviours.
Kind(p) ==
    <<Adapter(p), Steps(p), {n \in DOMAIN Written : Has(Written, p, n)},
      {n \in DOMAIN Written : Carries(p, n)},
      {n \in DOMAIN Written : MayFail(p, n)}>>

\* The first protocol of each kind, one with a packet table only, an unknown one.
MCProtocols ==
    {p \in PlayProtocols : \A q \in PlayProtocols : q < p => Kind(q) # Kind(p)}
        \cup {5, 776}

=============================================================================
