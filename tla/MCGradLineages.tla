--------------------------- MODULE MCGradLineages ---------------------------
(***************************************************************************)
(* Parallelizations of up to four ranks and three microbatches.            *)
(***************************************************************************)
EXTENDS GradLineages

MCWeights == {"w", "u"}

Sizes == {<<1, 1>>, <<1, 2>>, <<2, 1>>, <<2, 2>>}
OneWorld(size, mb, layout, reduced) ==
    [dp |-> size[1], tp |-> size[2], mb |-> mb, layout |-> layout, reduced |-> reduced]

\* Reducers sum what several ranks have a part of; experts have none.
NeedsReducer(size, layout) ==
    \/ layout \in {"split", "replica"} /\ size[1] > 1
    \/ layout = "partial" /\ size[1] * size[2] > 1

AllWorlds ==
    {OneWorld(size, mb, layout, {w \in MCWeights : NeedsReducer(size, layout[w])}) :
        size \in Sizes, mb \in 1..3, layout \in [MCWeights -> Layouts]}

\* Accumulation on one rank, which needs no reducer.
LocalWorlds == {x \in AllWorlds : x.mb = 2 /\ x.dp = 1 /\ x.tp = 1}
=============================================================================
