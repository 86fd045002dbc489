-------------------------- MODULE MCProxyProtocol --------------------------
(***************************************************************************)
(* Every configuration with at most one proxy, and nine streams: players   *)
(* whose first byte begins no signature or one of the two, and headers of  *)
(* both versions that name an address, name none or are wrong.             *)
(***************************************************************************)
EXTENDS ProxyProtocol

CONSTANTS x1, x2

\* Lists with no entry, with the peer and without it.
OneProxyConfigs == {c \in Config : c.list \in {{}, {x1}, {x2}}}

Player(first, length) ==
    [first |-> first, signed |-> FALSE, header |-> 0, fields |-> "none", total |-> length]

\* A header, then a packet of 17 bytes.
Proxied(first, header, fields) ==
    [first |-> first, signed |-> TRUE, header |-> header, fields |-> fields,
     total |-> header + 17]

NineStreams ==
    {Player("other", 17), Player("P", 81), Player("CR", 14),
     Proxied("P", 44, "TCP4"), Proxied("P", 15, "UNKNOWN"), Proxied("P", 20, "malformed"),
     Proxied("CR", 28, "TCP4"), Proxied("CR", 16, "LOCAL"), Proxied("CR", 28, "TCP6")}

=============================================================================
