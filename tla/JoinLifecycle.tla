---------------------------- MODULE JoinLifecycle ----------------------------
(***************************************************************************)
(* What a JoinResolver that is also a JoinReleaser may rely on (types.go): *)
(* the target it resolved for a connection becomes active at most once,    *)
(* and an active target is only ever released, once.                       *)
(***************************************************************************)

CONSTANT Conns      \* connections, one player each

VARIABLE phase      \* phase[c]: how far the join of c's player has come

Init == phase = [c \in Conns |-> "none"]

\* ResolveJoin returned the target and the server keeps it.
Register(c) ==
    /\ phase[c] = "none"
    /\ phase' = [phase EXCEPT ![c] = "active"]

\* The server calls ReleaseJoin with the target.
Release(c) ==
    /\ phase[c] = "active"
    /\ phase' = [phase EXCEPT ![c] = "released"]

Next == \E c \in Conns : Register(c) \/ Release(c)

Spec == Init /\ [][Next]_phase

=============================================================================
