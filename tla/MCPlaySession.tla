---------------------------- MODULE MCPlaySession ----------------------------
(***************************************************************************)
(* A session of one client: the handler and two application goroutines,    *)
(* each calling one operation of none, one or two frames; two packs, one  *)
(* of them without a hash.                                                 *)
(***************************************************************************)
EXTENDS PlaySession, TLC

CONSTANTS a1, a2, r1, r2

MCOps == {Op("ShowTitle", {"title", "subtitle"}), Op("Disconnect", {}),
          Op("AddResourcePack", {}), Op("RemoveResourcePack", {})}

MCKickOps == {Op("ShowTitle", {"title", "subtitle"}), Op("Disconnect", {})}

MCUuid == [p \in Packs |-> IF p = r1 THEN "u1" ELSE "u2"]
MCHash == [p \in Packs |-> IF p = r1 THEN "h" ELSE NoKey]

\* Application goroutines are alike.
Symmetry == Permutations({a1, a2})

=============================================================================
