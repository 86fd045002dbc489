------------------------------ MODULE MCWorld ------------------------------
(***************************************************************************)
(* Sections of 2 x 2 x 2 blocks, indices of one bit: a third state in a    *)
(* section is what a seventeenth one is in the source.                     *)
(***************************************************************************)
EXTENDS World, TLC

MCSizes == {<<3, 2, 1>>, <<2, 3, 1>>, <<1, 2, 3>>, <<0, 1, 1>>}

\* Air first, air second, a gap, two names for one ID, a negative ID.
MCPalettes ==
    {"air" :> 0 @@ "stone" :> 1 @@ "dirt" :> 2,
     "air" :> 1 @@ "stone" :> 0,
     "air" :> 0 @@ "stone" :> 2,
     "air" :> 0 @@ "stone" :> 0 @@ "dirt" :> 1,
     "air" :> -1}

\* The plain numbers, 1 in two bytes, a number beyond every palette, a cut off
\* and an endless number.
MCVarInts ==
    {<<0>>, <<1>>, <<2>>, <<5, 0>>, <<4, 1>>, <<5>>, <<4, 4, 4, 4, 4, 0>>}

MCOptions ==
    {[named |-> FALSE, minY |-> 0, height |-> 0],
     [named |-> TRUE, minY |-> -2, height |-> 6],
     [named |-> TRUE, minY |-> -1, height |-> 4],
     [named |-> TRUE, minY |-> 0, height |-> 0]}

\* Where a world's sections begin, with as many, fewer or more of them.
MCCodecs == {[minY |-> 0, height |-> 2], [minY |-> -2, height |-> 4]}

\* -0.5, 0, 1.5 and 2.
MCSpawns == {<<0, 0>>, <<3, 0>>, <<4, 0>>, <<0, 4>>, <<-1, 0>>, <<0, -1>>}

\* A name the client does not know has state 0, as air has.
MCStateOf == "air" :> 0 @@ "stone" :> 5 @@ "dirt" :> 7

=============================================================================
