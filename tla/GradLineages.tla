---------------------------- MODULE GradLineages ----------------------------
(***************************************************************************)
(* The lineages of weight gradients                                        *)
(* (Verdict/nnscaler_backend/build_lineage.py, get_ordered_lineages): what *)
(* the verifier is asked to show about each gradient of the single-device  *)
(* graph.  The backward operators give one lineage, the cross-rank weight  *)
(* reducers two more, and a gradient whose last lineage is not about the   *)
(* last versions is to get a final one.  The slice map of a lineage then   *)
(* says which tensors of the parallel graph have to be summed to give      *)
(* which slice of the gradient, and in how many equal copies.              *)
(*                                                                         *)
(* Some definitions come in pairs (CollectedNew, Collected): the first is  *)
(* what a plausible slip would make of the second.  No action uses it; it  *)
(* is there to show that the properties tell the two apart.                *)
(***************************************************************************)
EXTENDS Naturals, FiniteSets, Sequences, SequencesExt, FiniteSetsExt

CONSTANTS Weights,  \* the weights; a weight also names its gradient (Ts)
          Worlds    \* the parallelizations checked

\* How a weight lies on the tensor-parallel ranks: split, a copy each with the
\* same input (replica) or with a part of the input (partial), or disjoint
\* experts on every rank.
Layouts == {"split", "replica", "partial", "expert"}

\* dp data-parallel times tp tensor-parallel ranks, mb microbatches; reduced:
\* the weights that have weight reducers.
World == [dp : Nat \ {0}, tp : Nat \ {0}, mb : Nat \ {0},
          layout : [Weights -> Layouts], reduced : SUBSET Weights]

ASSUME LineageAssumption == IsFiniteSet(Weights) /\ Worlds \subseteq World

\* A weight has reducers where several ranks have different parts of the same
\* slice of its gradient, and not where every rank has experts of its own.
ASSUME ReducerAssumption ==
    \A x \in Worlds : \A w \in Weights :
        IF w \in x.reduced THEN x.layout[w] # "expert"
        ELSE /\ x.layout[w] \in {"split", "replica"} => x.dp = 1
             /\ x.layout[w] = "partial" => x.dp = 1 /\ x.tp = 1

VARIABLES world,   \* (fixed)
          doing,
          todo,    \* reducer nodes still to visit
          seen,    \* gradients in the order their first reducer is visited
          ins,     \* Gs_grad_to_unreduced_inputs
          outs,    \* Gs_grad_to_reduced_outputs
          lngs,    \* the lineages, in order
          final,   \* Gs_grad_to_lineage
          copies   \* slice maps set so far, for lngs[1], lngs[2], ...

lineagesVars == <<world, doing, todo, seen, ins, outs, lngs, final, copies>>

Ranks == (0..(world.dp - 1)) \X (0..(world.tp - 1))

----------------------------------------------------------------------------
(* Gradients of the parallel graph, versions as RankDataflow hands them    *)
(* out: the k-th backward operator puts out version 1, 2, 4, ..., the k-th *)
(* partial sum is 1, 3, 5, ..., and a reducer puts out one version more.   *)

Grad(w, r, v) == [w |-> w, rank |-> r, v |-> v]
BackwardVersion(k) == IF k = 1 THEN 1 ELSE 2 * (k - 1)
LocalVersion == 2 * world.mb - 1

\* _ranktid2maxv
MaxVersion(w) == IF w \in world.reduced THEN LocalVersion + 1 ELSE LocalVersion

Grads == {Grad(w, r, v) : w \in Weights, r \in Ranks, v \in 1..(LocalVersion + 1)}

\* The slice of the gradient that rank r has of w.
Slice(w, r) == CASE world.layout[w] = "split"  -> <<r[2]>>
                 [] world.layout[w] = "expert" -> r
                 [] OTHER -> <<>>

\* The ranks that reduce w together with r (_shared_tensor_list).
Reducers(w, r) == CASE world.layout[w] = "partial" -> Ranks
                    [] OTHER -> {q \in Ranks : q[2] = r[2]}

\* A lineage: tensor Ts and tensors Tps; src says where it is from.
Lineage(w, tps, src) == [Ts |-> w, Tps |-> tps, src |-> src]
Same(k, l) == k.Ts = l.Ts /\ k.Tps = l.Tps

----------------------------------------------------------------------------
(* _infer_lineages_from_alignable_ops: the counterparts of a backward      *)
(* operator on every rank, in every microbatch.                            *)

Aligned(w) ==
    Lineage(w, {Grad(w, r, BackwardVersion(k)) : r \in Ranks, k \in 1..world.mb}, "OP")

LineagesInit ==
    /\ world \in Worlds
    /\ doing = "reducers"
    /\ todo = world.reduced \X Ranks
    /\ seen = <<>>
    /\ ins = [w \in Weights |-> {}] /\ outs = [w \in Weights |-> {}]
    /\ \E order \in SetToSeqs(Weights) : lngs = [k \in DOMAIN order |-> Aligned(order[k])]
    /\ final = [w \in Weights |-> Aligned(w)]
    /\ copies = <<>>

----------------------------------------------------------------------------
(* _infer_lineages_from_wreds                                              *)

\* setdefault(Gs_grad, set()).update(...)
CollectedNew(old, new) == new
Collected(old, new)    == old \cup new

\* What the reducer of w on rank r puts out.
OutVersion == LocalVersion + 1

VisitReducer ==
    /\ doing = "reducers"
    /\ \E n \in todo :
          LET w == n[1]  r == n[2]
          IN  /\ ins' = [ins EXCEPT ![w] = Collected(@, {Grad(w, q, LocalVersion) : q \in Reducers(w, r)})]
              /\ outs' = [outs EXCEPT ![w] = Collected(@, {Grad(w, r, OutVersion)})]
              /\ seen' = IF Contains(seen, w) THEN seen ELSE Append(seen, w)
              /\ todo' = todo \ {n}
    /\ UNCHANGED <<world, doing, lngs, final, copies>>

\* The two lineages of a reduced gradient, in the order they are established.
ReducedSwapped(w) == <<Lineage(w, outs[w], "WRED"), Lineage(w, ins[w], "WRED")>>
ReducedPair(w)    == <<Lineage(w, ins[w], "WRED"), Lineage(w, outs[w], "WRED")>>

\* The lineages of the reducers follow; the output one is the last word on
\* its gradient.
EmitReduced ==
    /\ doing = "reducers" /\ todo = {}
    /\ lngs' = lngs \o [n \in 1..(2 * Len(seen)) |->
                           ReducedPair(seen[(n + 1) \div 2])[2 - (n % 2)]]
    /\ final' = [w \in Weights |->
                    IF Contains(seen, w) THEN Lineage(w, outs[w], "WRED") ELSE final[w]]
    /\ doing' = "final"
    /\ UNCHANGED <<world, todo, seen, ins, outs, copies>>

----------------------------------------------------------------------------
(* _explore_final_lineages                                                 *)

IsFinal(l) == \A x \in l.Tps : x.v = MaxVersion(x.w)

NothingToExplore ==
    /\ doing = "final" /\ \A w \in Weights : IsFinal(final[w])
    /\ doing' = "slices"
    /\ UNCHANGED <<world, todo, seen, ins, outs, lngs, final, copies>>

\* The final versions are built with four of the five fields a tensor has
\* (TypeError).
ExploreRaises ==
    /\ doing = "final" /\ \E w \in Weights : ~IsFinal(final[w])
    /\ doing' = "raised"
    /\ UNCHANGED <<world, todo, seen, ins, outs, lngs, final, copies>>

----------------------------------------------------------------------------
(* _get_lng_slcmap, for weight gradients ("BW ATTRS")                      *)

\* The tensors of xs that have x's communication group; ranks without one
\* stand alone.
AllTogether(x, xs) == xs
Together(x, xs) ==
    {y \in xs : IF x.w \in world.reduced
                THEN y.rank \in Reducers(x.w, x.rank) ELSE y.rank = x.rank}

\* The equal copies of one slice, each a set of tensors to be summed: what a
\* reducer puts out is a copy by itself; anything else is summed over the
\* microbatches of the ranks that are reduced together.
Copies(l, xs) ==
    IF l.src = "WRED" /\ IsFinal([l EXCEPT !.Tps = xs])
    THEN {{x} : x \in xs}
    ELSE {Together(x, xs) : x \in xs}

SliceMap(l) ==
    [s \in {Slice(x.w, x.rank) : x \in l.Tps} |->
        Copies(l, {x \in l.Tps : Slice(x.w, x.rank) = s})]

SetSliceMap ==
    /\ doing = "slices" /\ Len(copies) < Len(lngs)
    /\ copies' = Append(copies, SliceMap(lngs[Len(copies) + 1]))
    /\ UNCHANGED <<world, doing, todo, seen, ins, outs, lngs, final>>

----------------------------------------------------------------------------
(* The end of get_ordered_lineages                                         *)

\* _dim_cover_check
Covers(k) == DOMAIN copies[k] = {Slice(lngs[k].Ts, r) : r \in Ranks}

\* The loop over the gradients checks the lineage that the loop before it left
\* in l, which is the last one.
CoverCheck ==
    /\ doing = "slices" /\ Len(copies) = Len(lngs)
    /\ doing' = IF Covers(Len(lngs)) THEN "done" ELSE "raised"
    /\ UNCHANGED <<world, todo, seen, ins, outs, lngs, final, copies>>

\* The lineages returned: of equal ones, the first.
Kept == {k \in DOMAIN lngs : ~\E j \in 1..(k - 1) : Same(lngs[j], lngs[k])}

LineagesDone == doing \in {"done", "raised"} /\ UNCHANGED lineagesVars

LineagesNext == \/ VisitReducer \/ EmitReduced \/ NothingToExplore \/ ExploreRaises
                \/ SetSliceMap \/ CoverCheck \/ LineagesDone

LineagesSpec == LineagesInit /\ [][LineagesNext]_lineagesVars

----------------------------------------------------------------------------
(* Properties.                                                             *)

\* What is really summed up in a tensor: parts of the gradient of w, each from
\* a microbatch of a data-parallel rank, and of a tensor-parallel rank unless
\* these all compute the same.
Part(w, r, k) == IF world.layout[w] = "replica" THEN <<r[1], k>> ELSE <<r[1], r[2], k>>
LocalParts(x) ==
    IF x.v > 1 /\ x.v % 2 = 0 THEN {Part(x.w, x.rank, x.v \div 2 + 1)}
    ELSE {Part(x.w, x.rank, k) : k \in 1..((x.v + 1) \div 2)}
Parts(x) ==
    IF x.v > LocalVersion
    THEN UNION {LocalParts(Grad(x.w, q, LocalVersion)) : q \in Reducers(x.w, x.rank)}
    ELSE LocalParts(x)

\* Slice s of the gradient of w is the sum of these.
Whole(w, s) ==
    {Part(w, r, k) : r \in {q \in Ranks : Slice(w, q) = s}, k \in 1..world.mb}

\* Each copy in each slice map is the slice: its tensors together sum up every
\* part of it, and none twice.  A lineage that claims anything else could not be
\* verified in a correct parallelization (or, worse, could be in a wrong one).
ClaimsHold ==
    doing = "done" => \A k \in Kept : \A s \in DOMAIN copies[k] : \A c \in copies[k][s] :
        /\ UNION {Parts(x) : x \in c} = Whole(lngs[k].Ts, s)
        /\ \A x, y \in c : x # y => Parts(x) \cap Parts(y) = {}

\* Every gradient has a lineage about the last version on every rank.
FinalsThere ==
    \A w \in Weights : \E k \in DOMAIN lngs :
        lngs[k].Ts = w /\ lngs[k].Tps = {Grad(w, r, MaxVersion(w)) : r \in Ranks}

\* Lineages are never returned without the final ones: the reducers' outputs,
\* collected one rank at a time, end up in one lineage (_infer_lineages_from_wreds,
\* _explore_final_lineages).
FinalsDiscovered == doing \in {"slices", "done"} => FinalsThere

\* "Enforce all the weight gradients are finalized": the exploration also finds
\* the final lineages of gradients that no reducer finalizes
\* (_explore_final_lineages).
LocalFinalsDiscovered == doing \in {"slices", "done", "raised"} => FinalsThere

\* Lineages are returned "in visiting order of node execution": where one is
\* about the results of reducers, one about all they reduce comes before it.
\* (cut_stages walks the graph backwards from a lineage to earlier ones.)
ReducedAfterInputs ==
    doing = "done" => \A k \in Kept :
        (lngs[k].src = "WRED" /\ IsFinal(lngs[k])) =>
            \E j \in Kept : /\ j < k /\ lngs[j].Ts = lngs[k].Ts
                            /\ \A x \in lngs[k].Tps : \A q \in Reducers(x.w, x.rank) :
                                   Grad(x.w, q, LocalVersion) \in lngs[j].Tps
=============================================================================
