----------------------------- MODULE MCFrontEnd -----------------------------
(***************************************************************************)
(* What a verification does before its pool starts: it builds the graph    *)
(* (RankDataflow), infers the lineages (GradLineages) and cuts the stages  *)
(* (CutStages).  The three share no state: in a behaviour one of them      *)
(* works, on any of its instances, and the others stay as they begin.      *)
(***************************************************************************)
EXTENDS MCRankDataflow, MCGradLineages, MCCutStages

VARIABLE working        \* the part that works (fixed)

\* The instances of the parts that do not work.
SomeProgram == CHOOSE p \in Programs : TRUE
SomeWorld   == CHOOSE x \in Worlds : TRUE
SomeOrder   == CHOOSE o \in Orders : TRUE

Given(instances, one, part) == IF working = part THEN instances ELSE {one}

FrontEndInit ==
    /\ working \in {"dataflow", "lineages", "stages"}
    /\ prog \in Given(Programs, SomeProgram, "dataflow") /\ DataflowInit
    /\ world \in Given(Worlds, SomeWorld, "lineages") /\ LineagesInit
    /\ ordered \in Given(Orders, SomeOrder, "stages") /\ Init
    /\ working # "lineages" => lngs[1] = Aligned(CHOOSE x \in Weights : TRUE)
    /\ working # "stages" => truth = {l \in Lineages : IsInitialized(l)}

FrontEndNext ==
    /\ UNCHANGED working
    /\ \/ working = "dataflow" /\ DataflowNext /\ UNCHANGED <<lineagesVars, vars>>
       \/ working = "lineages" /\ LineagesNext /\ UNCHANGED <<dataflowVars, vars>>
       \/ working = "stages" /\ Next /\ UNCHANGED <<dataflowVars, lineagesVars>>

FrontEndSpec == FrontEndInit /\ [][FrontEndNext]_<<working, dataflowVars, lineagesVars, vars>>
=============================================================================
