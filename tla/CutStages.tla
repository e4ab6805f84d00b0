----------------------------- MODULE CutStages -----------------------------
(***************************************************************************)
(* Lineage-guided stage cutting (Verdict/verdict/stage/schedule.py) and    *)
(* the answer launch gives once the stages are checked.                    *)
(*                                                                         *)
(* A lineage claims that a tensor Ts of the single-device graph equals the *)
(* composition of tensors Tps of the parallel graph.  cut_stages walks the *)
(* lineages in the given order, forms for each a stage that derives it     *)
(* from lineages verified before, drops empty stages, merges stages with   *)
(* the same nodes and asserts that every input lineage is initialized or   *)
(* was established by an earlier stage.                                    *)
(*                                                                         *)
(* Both graphs are kept in one: their tensors and nodes are disjoint.      *)
(*                                                                         *)
(* Some definitions come in pairs (RecordedTensor, Recorded): the first is *)
(* what a plausible slip would make of the second.  No action uses it; it  *)
(* is there to show that the properties tell the two apart.                *)
(***************************************************************************)
EXTENDS Naturals, Sequences, FiniteSets

CONSTANTS
    Tensors, Nodes,
    In, Out,        \* [Nodes -> SUBSET Tensors]
    Initialized,    \* tensors for which DFG.is_initialized holds
    Lineages,
    Ts,             \* [Lineages -> Tensors]
    Tps,            \* [Lineages -> SUBSET Tensors]
    Sample,         \* [Lineages -> Tensors]: Tps[0], the smallest of the Tps
    Known,          \* lineages with is_stage_known
    KnownNodes,     \* [Known -> SUBSET Nodes]: snodes and pnodes of the hint
    Dependency,     \* [Known -> SUBSET Lineages]
    Orders          \* the lists get_ordered_lineages may return

IsInitialized(l) == Ts[l] \in Initialized /\ Tps[l] \subseteq Initialized

\* Lineages are equal when Ts and Tps are; the lists have no duplicates.
ASSUME CutAssumption ==
    /\ In \in [Nodes -> SUBSET Tensors] /\ Out \in [Nodes -> SUBSET Tensors]
    /\ Ts \in [Lineages -> Tensors] /\ Tps \in [Lineages -> SUBSET Tensors]
    /\ \A l \in Lineages : Sample[l] \in Tps[l]
    /\ \A l, m \in Lineages : Ts[l] = Ts[m] /\ Tps[l] = Tps[m] => l = m
    /\ Known \subseteq Lineages
    /\ KnownNodes \in [Known -> SUBSET Nodes]
    /\ Dependency \in [Known -> SUBSET Lineages]
    /\ Orders \subseteq Seq(Lineages)
    /\ \A o \in Orders : \A j, k \in DOMAIN o : o[j] = o[k] => j = k

VARIABLES
    ordered,    \* the list of lineages being worked on (fixed)
    truth,      \* the lineages of the list that really hold (fixed; nobody reads it)
    pc,         \* phase: cut, prune, check, pool, success or error
    pos,        \* position in the list of the phase
    verified,   \* keys of verified_Ts_lngs and Tp2lngs: lineages done so far
    cut,        \* the stages formed, before pruning
    stages,     \* the stages kept
    checked     \* verified_lineages of _check_input_equivs_validity

vars == <<ordered, truth, pc, pos, verified, cut, stages, checked>>

StageType == [nodes : SUBSET Nodes, ins : SUBSET Lineages, outs : SUBSET Lineages]

----------------------------------------------------------------------------
(* Graph slicing.                                                          *)

Producers(ts) == {n \in Nodes : Out[n] \cap ts # {}}

\* A tensor that nothing computes.
Unproduced(t) == Producers({t}) = {}

\* Of the graphs: a tensor that nothing computes is a leaf, and leaves are
\* initialized.  Of the hints: they name operators, and compute the tensors of
\* the lineage or find them in a lineage they depend on.
ASSUME GraphAssumption ==
    /\ IsFiniteSet(Nodes)
    /\ \A t \in Tensors : Unproduced(t) => t \in Initialized
    /\ \A l \in Known :
         /\ KnownNodes[l] # {}
         /\ \A t \in {Ts[l]} \cup Tps[l] :
              \/ \E m \in Dependency[l] : t \in {Ts[m]} \cup Tps[m]
              \/ Producers({t}) \subseteq KnownNodes[l]

\* Tensors within k operators upstream of ts, not looking beyond stop.
Upstream(ts, stop, k) ==
    LET U[d \in 0..k] ==
          IF d = 0 THEN ts
          ELSE LET near == U[d - 1]
               IN  near \cup UNION {In[n] : n \in Producers(near \ stop)}
    IN  U[k]

Depth == Cardinality(Nodes)

\* _bw_slice_with_terminable: where the walk back from t meets a stop tensor.
Frontier(t, stop) == Upstream({t}, stop, Depth) \cap stop

\* _slice_subgraph_w_barrier: operators between the targets and the barrier.
SubgraphNodes(targets, barrier) ==
    Producers(Upstream(targets, barrier, Depth) \ barrier)

\* Verified lineages of t that own a tensor within k operators of sample.
Reachable(t, sample, k) ==
    LET near == Upstream({sample}, {}, k)
    IN  {l \in verified : Ts[l] = t /\ Tps[l] \cap near # {}}

\* find_nearest_lng_for_each_Gs_src: breadth first from the sample; which of
\* the lineages met at the nearest level is taken depends on set iteration.
Nearest(t, sample) ==
    LET met == {k \in 0..Depth : Reachable(t, sample, k) # {}}
    IN  UNION {Reachable(t, sample, k) : k \in {m \in met : \A n \in met : m <= n}}

----------------------------------------------------------------------------
Init ==
    /\ ordered \in Orders
    /\ truth \in SUBSET {l \in Lineages :
                          IsInitialized(l) \/ \E k \in DOMAIN ordered : ordered[k] = l}
    /\ \A l \in Lineages : IsInitialized(l) => l \in truth
    /\ pc = "cut" /\ pos = 1
    /\ verified = {} /\ checked = {}
    /\ cut = <<>> /\ stages = <<>>

Target == ordered[pos]

\* Key under which a lineage that is dealt with is recorded.
RecordedTensor == Ts[Target]
Recorded       == Target

\* Common to every lineage that is dealt with: on to the next one.
Advance ==
    /\ verified' = verified \cup {Recorded}
    /\ pos' = pos + 1
    /\ UNCHANGED <<ordered, truth, pc, stages, checked>>

\* An initialized lineage needs no stage.
CutInitialized ==
    /\ pc = "cut" /\ pos <= Len(ordered) /\ IsInitialized(Target)
    /\ Advance
    /\ UNCHANGED cut

\* A lineage whose stage is known from node alignment.
CutKnown ==
    /\ pc = "cut" /\ pos <= Len(ordered) /\ ~IsInitialized(Target)
    /\ Target \in Known
    /\ cut' = Append(cut, [nodes |-> KnownNodes[Target],
                           ins |-> Dependency[Target], outs |-> {Target}])
    /\ Advance

\* The tensors of Gs a stage for Target would start from.
Sources == Frontier(Ts[Target], {Ts[l] : l \in verified})

\* The tensors of Gp a stage for Target has to compute.
GpTargetsSample == {Sample[Target]}
GpTargets       == Tps[Target]

\* A stage cut from the graphs between Target and the nearest lineage of each
\* source.
CutSliced ==
    /\ pc = "cut" /\ pos <= Len(ordered) /\ ~IsInitialized(Target)
    /\ Target \notin Known
    /\ \E near \in [Sources -> verified] :
        /\ \A t \in Sources : near[t] \in Nearest(t, Sample[Target])
        /\ LET ins == {near[t] : t \in Sources}
               barrier == UNION {Tps[l] : l \in ins}
               nodes == SubgraphNodes({Ts[Target]}, Sources)
                          \cup SubgraphNodes(GpTargets, barrier)
           IN  cut' = Append(cut, [nodes |-> nodes, ins |-> ins,
                                   outs |-> {Target}])
    /\ Advance

\* RuntimeError: no verified lineage of some source is reachable.
CutUnreachable ==
    /\ pc = "cut" /\ pos <= Len(ordered) /\ ~IsInitialized(Target)
    /\ Target \notin Known
    /\ \E t \in Sources : Nearest(t, Sample[Target]) = {}
    /\ pc' = "error"
    /\ UNCHANGED <<ordered, truth, pos, verified, cut, stages, checked>>

CutDone ==
    /\ pc = "cut" /\ pos > Len(ordered)
    /\ pc' = "prune" /\ pos' = 1
    /\ UNCHANGED <<ordered, truth, verified, cut, stages, checked>>

----------------------------------------------------------------------------
(* _prune_and_consolidate, one stage per step.                             *)

\* Kept stages with the same nodes as s (at most one: it would be merged).
SameNodes(s) == {k \in DOMAIN stages : stages[k].nodes = s.nodes}

\* Nothing is left to do in stage s.
EmptyCovered(s) == s.nodes \subseteq UNION {stages[k].nodes : k \in DOMAIN stages}
Empty(s)        == s.nodes = {}

\* A stage without nodes is dropped.
Prune ==
    /\ pc = "prune" /\ pos <= Len(cut) /\ Empty(cut[pos])
    /\ pos' = pos + 1
    /\ UNCHANGED <<ordered, truth, pc, verified, cut, stages, checked>>

Keep ==
    /\ pc = "prune" /\ pos <= Len(cut) /\ ~Empty(cut[pos])
    /\ SameNodes(cut[pos]) = {}
    /\ stages' = Append(stages, cut[pos])
    /\ pos' = pos + 1
    /\ UNCHANGED <<ordered, truth, pc, verified, cut, checked>>

\* The stages when cut[pos] joins the k-th.
MergedNothing(k) == stages
Merged(k)        == [stages EXCEPT ![k].outs = @ \cup cut[pos].outs]

\* The outputs of a stage with known nodes join those of the earlier stage.
Merge ==
    /\ pc = "prune" /\ pos <= Len(cut) /\ ~Empty(cut[pos])
    /\ \E k \in SameNodes(cut[pos]) :
        /\ stages[k].ins = cut[pos].ins
        /\ stages' = Merged(k)
    /\ pos' = pos + 1
    /\ UNCHANGED <<ordered, truth, pc, verified, cut, checked>>

\* The assertion that both lists of inputs are equal fails: other lineages,
\* or the same ones in another order, when one list was collected from a set.
MergeRefused ==
    /\ pc = "prune" /\ pos <= Len(cut) /\ ~Empty(cut[pos])
    /\ \E k \in SameNodes(cut[pos]) :
        \/ stages[k].ins # cut[pos].ins
        \/ /\ Cardinality(cut[pos].ins) > 1
           /\ ~(cut[pos].outs \cup stages[k].outs \subseteq Known)
    /\ pc' = "error"
    /\ UNCHANGED <<ordered, truth, pos, verified, cut, stages, checked>>

PruneDone ==
    /\ pc = "prune" /\ pos > Len(cut)
    /\ pc' = "check" /\ pos' = 1
    /\ UNCHANGED <<ordered, truth, verified, cut, stages, checked>>

----------------------------------------------------------------------------
(* _check_input_equivs_validity, one stage per step.                       *)

\* Every input lineage is initialized or established by an earlier stage.
InputsSeen(s)  == s.ins \subseteq verified
InputsValid(s) == \A l \in s.ins : l \in checked \/ IsInitialized(l)

CheckStage ==
    /\ pc = "check" /\ pos <= Len(stages) /\ InputsValid(stages[pos])
    /\ checked' = checked \cup stages[pos].ins \cup stages[pos].outs
    /\ pos' = pos + 1
    /\ UNCHANGED <<ordered, truth, pc, verified, cut, stages>>

CheckRefused ==
    /\ pc = "check" /\ pos <= Len(stages) /\ ~InputsValid(stages[pos])
    /\ pc' = "error"
    /\ UNCHANGED <<ordered, truth, pos, verified, cut, stages, checked>>

CheckDone ==
    /\ pc = "check" /\ pos > Len(stages)
    /\ pc' = "pool"
    /\ UNCHANGED <<ordered, truth, pos, verified, cut, stages, checked>>

----------------------------------------------------------------------------
(* The pool phase, by its abstract specification Verdict.                  *)

\* What run_stage decides: given its input lineages, its output ones hold.
StageSomeHold(s) == s.ins \subseteq truth => s.outs \cap truth # {}
StageHolds(s)    == s.ins \subseteq truth => s.outs \subseteq truth

PoolSucceeds ==
    /\ pc = "pool"
    /\ \A k \in DOMAIN stages : StageHolds(stages[k])
    /\ pc' = "success"
    /\ UNCHANGED <<ordered, truth, pos, verified, cut, stages, checked>>

PoolFails ==
    /\ pc = "pool"
    /\ pc' = "error"
    /\ UNCHANGED <<ordered, truth, pos, verified, cut, stages, checked>>

----------------------------------------------------------------------------
Done == pc \in {"success", "error"} /\ UNCHANGED vars

Next == \/ CutInitialized \/ CutKnown \/ CutSliced \/ CutUnreachable \/ CutDone
        \/ Prune \/ Keep \/ Merge \/ MergeRefused \/ PruneDone
        \/ CheckStage \/ CheckRefused \/ CheckDone
        \/ PoolSucceeds \/ PoolFails
        \/ Done

Spec == Init /\ [][Next]_vars

----------------------------------------------------------------------------
(* Properties.                                                             *)

TypeOK ==
    /\ ordered \in Orders
    /\ truth \in SUBSET Lineages
    /\ pc \in {"cut", "prune", "check", "pool", "success", "error"}
    /\ pos \in Nat \ {0}
    /\ verified \in SUBSET Lineages
    /\ cut \in Seq(StageType)
    /\ stages \in Seq(StageType)
    /\ checked \in SUBSET Lineages

\* Lineages that some kept stage establishes.
Established == UNION {stages[k].outs : k \in DOMAIN stages}

\* SUCCESS means that every lineage a stage was kept for really holds: the
\* chain of stages never argues in a circle (cut_stages, launch).
SuccessSound == pc = "success" => Established \subseteq truth

\* No lineage is lost between the list and the stages: at SUCCESS each one is
\* initialized, established by a stage, or (its stage was empty) only restates
\* another lineage of the same tensor (_prune_and_consolidate).
NothingDropped ==
    pc = "success" =>
      \A l \in {ordered[k] : k \in DOMAIN ordered} :
        \/ IsInitialized(l)
        \/ l \in Established
        \/ \E m \in verified \ {l} :
             Ts[m] = Ts[l] /\ \A t \in Tps[l] : t \in Tps[m] \/ Unproduced(t)

\* The stage that establishes a lineage contains whatever computes it: an
\* operator producing one of its tensors, unless that tensor is taken from an
\* input lineage (_slice_subgraph_w_barrier).
StageComputesOutputs ==
    pc = "success" =>
      \A k \in DOMAIN stages : \A l \in stages[k].outs :
        \A t \in {Ts[l]} \cup Tps[l] :
          \/ \E m \in stages[k].ins : t \in {Ts[m]} \cup Tps[m]
          \/ Producers({t}) \subseteq stages[k].nodes
=============================================================================
