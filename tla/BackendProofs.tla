--------------------------- MODULE BackendProofs ---------------------------
(***************************************************************************)
(* Theorems of the nnscaler backend, for graphs of any size.               *)
(*                                                                         *)
(* GradLineages, for any number of ranks, microbatches and weights, any    *)
(* layout of each weight and any order of reducers: each lineage that is   *)
(* ever listed is one of three, the backward operators', the reducers'     *)
(* inputs', the reducers' outputs' (Listed).  That is so because a         *)
(* dictionary's entry grows by one reducer at a time and is read when all  *)
(* have been visited (Gathered).  What remains is that each of the three   *)
(* sums up its slice, which is arithmetic of versions.                     *)
(*                                                                         *)
(* RankDataflow, for any list of cells: two outputs never clash, because   *)
(* the version pass hands out 1 and even versions only (First), sums odd   *)
(* ones above 2 (Summed), and a reducer one above all there were           *)
(* (ReducedOnce).                                                          *)
(***************************************************************************)
EXTENDS GradLineages, RankDataflow, FiniteSetTheorems, WellFoundedInduction, NaturalsInduction, TLAPS

(***************************************************************************)
(* The three lineages.                                                     *)
(***************************************************************************)
OfInputs(w)  == Lineage(w, {Grad(w, r, LocalVersion) : r \in Ranks}, "WRED")
OfOutputs(w) == Lineage(w, {Grad(w, r, OutVersion) : r \in Ranks}, "WRED")

\* The ranks whose reducer of w has been visited.
Visited(w) == {r \in Ranks : w \in world.reduced /\ <<w, r>> \notin todo}

(***************************************************************************)
(* The invariant.                                                          *)
(***************************************************************************)
Lineages == [Ts : Weights, Tps : SUBSET Grads, src : {"OP", "WRED"}]

TypeOK ==
    /\ world \in Worlds
    /\ doing \in {"reducers", "final", "slices", "done", "raised"}
    /\ todo \subseteq world.reduced \X Ranks
    /\ seen \in Seq(Weights)
    /\ ins \in [Weights -> SUBSET Grads] /\ outs \in [Weights -> SUBSET Grads]
    /\ lngs \in Seq(Lineages)
    /\ final \in [Weights -> Lineages]
    /\ copies \in Seq({SliceMap(l) : l \in Lineages})

\* The dictionaries hold what the visited reducers take in and put out.
Gathered ==
    \A w \in Weights :
        /\ ins[w] = UNION {{Grad(w, q, LocalVersion) : q \in Reducers(w, r)} : r \in Visited(w)}
        /\ outs[w] = {Grad(w, r, OutVersion) : r \in Visited(w)}
        /\ Contains(seen, w) <=> Visited(w) # {}

\* Before the reducers' lineages follow, and after.
Listed ==
    /\ \A w \in Weights : \E k \in DOMAIN lngs : lngs[k] = Aligned(w)
    /\ doing = "reducers" =>
         /\ \A k \in DOMAIN lngs : \E w \in Weights : lngs[k] = Aligned(w)
         /\ \A w \in Weights : final[w] = Aligned(w)
    /\ doing # "reducers" =>
         /\ \A k \in DOMAIN lngs :
              \/ \E w \in Weights : lngs[k] = Aligned(w)
              \/ \E w \in world.reduced :
                   \/ lngs[k] = OfInputs(w)
                   \/ lngs[k] = OfOutputs(w) /\ \E j \in 1..(k - 1) : lngs[j] = OfInputs(w)
         /\ \A w \in world.reduced : \E k \in DOMAIN lngs : lngs[k] = OfOutputs(w)
         /\ \A w \in Weights : final[w] = IF w \in world.reduced THEN OfOutputs(w) ELSE Aligned(w)

\* Every gradient's last lineage is final once slices are set.
Finalized == doing \in {"slices", "done"} => \A w \in Weights : IsFinal(final[w])

Mapped ==
    /\ doing \in {"reducers", "final"} => copies = <<>>
    /\ Len(copies) <= Len(lngs)
    /\ doing = "done" => Len(copies) = Len(lngs)
    /\ \A k \in DOMAIN copies : copies[k] = SliceMap(lngs[k])

IInv == TypeOK /\ Gathered /\ Listed /\ Finalized /\ Mapped

(***************************************************************************)
(* Versions and ranks.                                                     *)
(***************************************************************************)
LEMMA WorldIs ==
    ASSUME world \in Worlds
    PROVE  /\ world.mb \in Nat \ {0} /\ world.dp \in Nat \ {0} /\ world.tp \in Nat \ {0}
           /\ \A w \in Weights : world.layout[w] \in Layouts
           /\ world.reduced \subseteq Weights
           /\ \A r \in Ranks : r[1] \in Nat /\ r[2] \in Nat /\ r = <<r[1], r[2]>>
           /\ LocalVersion \in Nat \ {0} /\ OutVersion = LocalVersion + 1
<1>1. world \in World
  BY LineageAssumption
<1>2. /\ world.mb \in Nat \ {0} /\ world.dp \in Nat \ {0} /\ world.tp \in Nat \ {0}
      /\ \A w \in Weights : world.layout[w] \in Layouts
      /\ world.reduced \subseteq Weights
  BY <1>1 DEF World
<1>3. \A r \in Ranks : r[1] \in Nat /\ r[2] \in Nat /\ r = <<r[1], r[2]>>
  BY <1>2 DEF Ranks
<1> QED BY <1>2, <1>3 DEF LocalVersion, OutVersion

\* The backward operators put out different versions, none above LocalVersion.
LEMMA Versions ==
    ASSUME world \in Worlds, NEW k \in 1..world.mb
    PROVE  /\ BackwardVersion(k) \in 1..LocalVersion
           /\ \A j \in 1..world.mb : BackwardVersion(j) = BackwardVersion(k) => j = k
BY WorldIs DEF BackwardVersion, LocalVersion

\* Where a world does not change, nothing that is said of it does.
LEMMA Fixed ==
    ASSUME world' = world
    PROVE  /\ Ranks' = Ranks /\ Grads' = Grads /\ Lineages' = Lineages
           /\ LocalVersion' = LocalVersion /\ OutVersion' = OutVersion
           /\ \A w : /\ Aligned(w)' = Aligned(w) /\ OfInputs(w)' = OfInputs(w) /\ OfOutputs(w)' = OfOutputs(w)
                     /\ \A r : Reducers(w, r)' = Reducers(w, r)
           /\ \A l : IsFinal(l)' = IsFinal(l) /\ SliceMap(l)' = SliceMap(l)
<1>1. Ranks' = Ranks /\ LocalVersion' = LocalVersion /\ OutVersion' = OutVersion
  BY DEF Ranks, LocalVersion, OutVersion
<1>2. Grads' = Grads
  BY <1>1 DEF Grads
<1>3. \A w : MaxVersion(w)' = MaxVersion(w) /\ \A r : Slice(w, r)' = Slice(w, r)
  BY <1>1 DEF MaxVersion, Slice
<1>4. \A w, r : Reducers(w, r)' = Reducers(w, r)
  BY <1>1 DEF Reducers
<1>5. \A l : IsFinal(l)' = IsFinal(l)
  BY <1>3 DEF IsFinal
<1>6. \A x, xs : Together(x, xs)' = Together(x, xs)
  BY <1>4 DEF Together
<1>7. \A l, xs : Copies(l, xs)' = Copies(l, xs)
  BY <1>5, <1>6 DEF Copies
<1>8. \A l : SliceMap(l)' = SliceMap(l)
  BY <1>3, <1>7 DEF SliceMap
<1>9. \A w : Aligned(w)' = Aligned(w) /\ OfInputs(w)' = OfInputs(w) /\ OfOutputs(w)' = OfOutputs(w)
  BY <1>1 DEF Aligned, OfInputs, OfOutputs
<1> QED BY <1>1, <1>2, <1>4, <1>5, <1>8, <1>9 DEF Lineages

LEMMA TheyAreLineages ==
    ASSUME world \in Worlds, NEW w \in Weights
    PROVE  Aligned(w) \in Lineages /\ OfInputs(w) \in Lineages /\ OfOutputs(w) \in Lineages
<1>1. \A r \in Ranks, v \in 1..(LocalVersion + 1) : Grad(w, r, v) \in Grads
  BY DEF Grads
<1>2. \A r \in Ranks, k \in 1..world.mb : Grad(w, r, BackwardVersion(k)) \in Grads
  BY <1>1, WorldIs, Versions
<1>3. \A r \in Ranks : Grad(w, r, LocalVersion) \in Grads /\ Grad(w, r, OutVersion) \in Grads
  BY <1>1, WorldIs
<1> QED BY <1>2, <1>3 DEF Lineages, Aligned, OfInputs, OfOutputs, Lineage

(***************************************************************************)
(* The invariant holds.                                                    *)
(***************************************************************************)
LEMMA Begins == LineagesInit => IInv
<1> SUFFICES ASSUME LineagesInit PROVE IInv
  OBVIOUS
<1>1. world \in Worlds /\ doing = "reducers" /\ todo = world.reduced \X Ranks /\ seen = <<>> /\ copies = <<>>
      /\ ins = [w \in Weights |-> {}] /\ outs = [w \in Weights |-> {}] /\ final = [w \in Weights |-> Aligned(w)]
  BY DEF LineagesInit
<1>2. PICK order \in SetToSeqs(Weights) : lngs = [k \in DOMAIN order |-> Aligned(order[k])]
  BY DEF LineagesInit
<1>3. PICK n \in Nat : n = Cardinality(Weights)
  BY LineageAssumption, FS_CardinalityType
<1>4. /\ order \in [1..n -> Weights]
      /\ \A w \in Weights : \E k \in 1..n : order[k] = w
  <2>1. order \in [1..n -> Weights] /\ \A k, j \in 1..n : k # j => order[k] # order[j]
    BY <1>3 DEF SetToSeqs
  <2>2. order \in Injection(1..n, Weights)
    BY <2>1 DEF Injection, IsInjective
  <2>3. IsFiniteSet(1..n) /\ Cardinality(1..n) = n
    BY FS_Interval
  <2>4. order \in Surjection(1..n, Weights)
    BY <1>3, <2>2, <2>3, FS_Injection, LineageAssumption
  <2> QED BY <2>1, <2>4 DEF Surjection
<1>5. lngs \in Seq(Lineages) /\ DOMAIN lngs = 1..n /\ \A k \in 1..n : lngs[k] = Aligned(order[k])
  <2>1. DOMAIN lngs = 1..n /\ \A k \in 1..n : lngs[k] = Aligned(order[k]) /\ lngs[k] \in Lineages
    BY <1>1, <1>2, <1>4, TheyAreLineages
  <2>2. lngs = [k \in 1..n |-> Aligned(order[k])]
    BY <1>2, <1>4
  <2> QED BY <2>1, <2>2
<1>6. TypeOK
  <2>1. final \in [Weights -> Lineages]
    BY <1>1, TheyAreLineages
  <2> QED BY <1>1, <1>5, <2>1 DEF TypeOK
<1>7. Gathered
  <2>1. \A w : Visited(w) = {}
    BY <1>1 DEF Visited
  <2> QED BY <1>1, <2>1 DEF Gathered, Contains
<1>8. Listed
  BY <1>1, <1>4, <1>5 DEF Listed
<1>9. Finalized /\ Mapped
  BY <1>1, <1>5 DEF Finalized, Mapped
<1> QED BY <1>6, <1>7, <1>8, <1>9 DEF IInv

LEMMA VisitReducerStep == ASSUME IInv, VisitReducer PROVE IInv'
<1>1. /\ doing = "reducers" /\ doing' = doing /\ world' = world /\ lngs' = lngs /\ final' = final /\ copies' = copies
      /\ world \in Worlds
  BY DEF VisitReducer, IInv, TypeOK
<1>2. PICK n \in todo :
        /\ ins' = [ins EXCEPT ![n[1]] = Collected(@, {Grad(n[1], q, LocalVersion) : q \in Reducers(n[1], n[2])})]
        /\ outs' = [outs EXCEPT ![n[1]] = Collected(@, {Grad(n[1], n[2], OutVersion)})]
        /\ seen' = (IF Contains(seen, n[1]) THEN seen ELSE Append(seen, n[1]))
        /\ todo' = todo \ {n}
  BY DEF VisitReducer
<1>3. PICK w \in world.reduced, r \in Ranks : n = <<w, r>> /\ w \in Weights
  BY <1>1, WorldIs DEF IInv, TypeOK
<1>4. Reducers(w, r) \subseteq Ranks
  BY DEF Reducers
<1>5. /\ Visited(w)' = Visited(w) \cup {r} /\ \A u : u # w => Visited(u)' = Visited(u)
  BY <1>1, <1>2, <1>3, Fixed DEF Visited
<1>6. TypeOK'
  <2>1. {Grad(w, q, LocalVersion) : q \in Reducers(w, r)} \subseteq Grads /\ Grad(w, r, OutVersion) \in Grads
    BY <1>1, <1>3, <1>4, WorldIs DEF Grads
  <2>2. ins' \in [Weights -> SUBSET Grads] /\ outs' \in [Weights -> SUBSET Grads]
    BY <1>2, <1>3, <2>1 DEF IInv, TypeOK, Collected
  <2>3. seen' \in Seq(Weights) /\ todo' \subseteq world.reduced \X Ranks
    BY <1>2, <1>3 DEF IInv, TypeOK
  <2>4. {SliceMap(l) : l \in Lineages}' = {SliceMap(l) : l \in Lineages}
    BY <1>1, Fixed
  <2> QED BY <1>1, <2>2, <2>3, <2>4, Fixed DEF IInv, TypeOK
<1>7. Gathered'
  <2> SUFFICES ASSUME NEW u \in Weights
               PROVE  /\ ins'[u] = UNION {{Grad(u, q, LocalVersion) : q \in Reducers(u, s)} : s \in Visited(u)'}
                      /\ outs'[u] = {Grad(u, s, OutVersion) : s \in Visited(u)'}
                      /\ Contains(seen', u) <=> Visited(u)' # {}
    BY <1>1, Fixed DEF Gathered
  <2>1. /\ ins[u] = UNION {{Grad(u, q, LocalVersion) : q \in Reducers(u, s)} : s \in Visited(u)}
        /\ outs[u] = {Grad(u, s, OutVersion) : s \in Visited(u)}
        /\ Contains(seen, u) <=> Visited(u) # {}
    BY DEF IInv, Gathered
  <2>2. seen \in Seq(Weights)
    BY DEF IInv, TypeOK
  <2>3. CASE u # w
    <3>1. ins'[u] = ins[u] /\ outs'[u] = outs[u]
      BY <1>2, <1>3, <2>3 DEF IInv, TypeOK
    <3>2. Contains(seen', u) <=> Contains(seen, u)
      BY <1>2, <1>3, <2>2, <2>3 DEF Contains
    <3> QED BY <1>5, <2>1, <2>3, <3>1, <3>2
  <2>4. CASE u = w
    <3>1. ins'[u] = ins[u] \cup {Grad(u, q, LocalVersion) : q \in Reducers(u, r)}
          /\ outs'[u] = outs[u] \cup {Grad(u, r, OutVersion)}
      BY <1>2, <1>3, <2>4 DEF IInv, TypeOK, Collected
    <3>2. Contains(seen', u)
      BY <1>2, <1>3, <2>2, <2>4 DEF Contains
    <3>3. ins'[u] = UNION {{Grad(u, q, LocalVersion) : q \in Reducers(u, s)} : s \in Visited(u)'}
      BY <1>5, <2>1, <2>4, <3>1
    <3>4. outs'[u] = {Grad(u, s, OutVersion) : s \in Visited(u)'}
      BY <1>5, <2>1, <2>4, <3>1
    <3> QED BY <1>5, <2>4, <3>2, <3>3, <3>4
  <2> QED BY <2>3, <2>4
<1>8. Listed'
  BY <1>1, Fixed DEF IInv, Listed
<1>9. Finalized' /\ Mapped'
  BY <1>1, Fixed DEF IInv, Finalized, Mapped
<1> QED BY <1>6, <1>7, <1>8, <1>9 DEF IInv

\* When all reducers have been visited, the dictionaries are complete.
LEMMA AllGathered ==
    ASSUME IInv, todo = {}, NEW w \in Weights
    PROVE  /\ Contains(seen, w) <=> w \in world.reduced
           /\ w \in world.reduced => /\ Lineage(w, ins[w], "WRED") = OfInputs(w)
                                     /\ Lineage(w, outs[w], "WRED") = OfOutputs(w)
<1>1. world \in Worlds
  BY DEF IInv, TypeOK
<1>2. Ranks # {}
  <2>1. <<0, 0>> \in Ranks
    BY <1>1, WorldIs DEF Ranks
  <2> QED BY <2>1
<1>3. Visited(w) = IF w \in world.reduced THEN Ranks ELSE {}
  BY DEF Visited
<1>4. \A r \in Ranks : Reducers(w, r) \subseteq Ranks /\ r \in Reducers(w, r)
  BY DEF Reducers
<1>5. w \in world.reduced => /\ ins[w] = {Grad(w, r, LocalVersion) : r \in Ranks}
                             /\ outs[w] = {Grad(w, r, OutVersion) : r \in Ranks}
  BY <1>3, <1>4 DEF IInv, Gathered
<1> QED BY <1>2, <1>3, <1>5 DEF OfInputs, OfOutputs, IInv, Gathered

\* What touches no dictionary.
LEMMA GatheredRests ==
    ASSUME IInv, UNCHANGED <<world, todo, seen, ins, outs>>
    PROVE  Gathered'
<1>1. \A w : Visited(w)' = Visited(w)
  BY Fixed DEF Visited
<1> QED BY <1>1, Fixed DEF IInv, Gathered

LEMMA EmitReducedStep == ASSUME IInv, EmitReduced PROVE IInv'
<1>1. /\ doing = "reducers" /\ doing' = "final" /\ todo = {} /\ UNCHANGED <<world, todo, seen, ins, outs, copies>>
      /\ world \in Worlds /\ copies = <<>>
  BY DEF EmitReduced, IInv, TypeOK, Mapped
<1>2. PICK m \in Nat : m = Len(seen)
  BY DEF IInv, TypeOK
<1>3. seen \in Seq(Weights) /\ DOMAIN seen = 1..m /\ lngs \in Seq(Lineages)
  BY <1>2 DEF IInv, TypeOK
<1>4. PICK new : /\ new = [n \in 1..(2 * m) |-> ReducedPair(seen[(n + 1) \div 2])[2 - (n % 2)]]
                 /\ lngs' = lngs \o new
  BY <1>2 DEF EmitReduced
<1>5. \A k \in 1..m : seen[k] \in world.reduced /\ seen[k] \in Weights
  <2> TAKE k \in 1..m
  <2>1. seen[k] \in Weights /\ Contains(seen, seen[k])
    BY <1>2, <1>3 DEF Contains
  <2> QED BY <1>1, <2>1, AllGathered
<1>6. \A k \in 1..m : new[2 * k - 1] = OfInputs(seen[k]) /\ new[2 * k] = OfOutputs(seen[k])
  <2> TAKE k \in 1..m
  <2>1. /\ 2 * k - 1 \in 1..(2 * m) /\ ((2 * k - 1) + 1) \div 2 = k /\ 2 - ((2 * k - 1) % 2) = 1
        /\ 2 * k \in 1..(2 * m) /\ (2 * k + 1) \div 2 = k /\ 2 - ((2 * k) % 2) = 2
    OBVIOUS
  <2>2. ReducedPair(seen[k])[1] = OfInputs(seen[k]) /\ ReducedPair(seen[k])[2] = OfOutputs(seen[k])
    BY <1>1, <1>5, AllGathered DEF ReducedPair
  <2> QED BY <1>4, <2>1, <2>2
<1>7. \A n \in 1..(2 * m) : \E k \in 1..m : n = 2 * k - 1 \/ n = 2 * k
  <2> TAKE n \in 1..(2 * m)
  <2>1. (n + 1) \div 2 \in 1..m /\ (n = 2 * ((n + 1) \div 2) - 1 \/ n = 2 * ((n + 1) \div 2))
    OBVIOUS
  <2> QED BY <2>1
<1>8. new \in Seq(Lineages) /\ Len(new) = 2 * m
  <2>1. \A n \in 1..(2 * m) : new[n] \in Lineages
    BY <1>1, <1>5, <1>6, <1>7, TheyAreLineages
  <2>2. new = [n \in 1..(2 * m) |-> new[n]]
    BY <1>4
  <2> QED BY <2>1, <2>2
<1>9. PICK L \in Nat : L = Len(lngs)
  BY <1>3
<1>10. /\ lngs' \in Seq(Lineages) /\ Len(lngs') = L + 2 * m
       /\ \A k \in 1..L : lngs'[k] = lngs[k]
       /\ \A n \in 1..(2 * m) : lngs'[L + n] = new[n]
  BY <1>3, <1>4, <1>8, <1>9
<1>11. final' = [w \in Weights |-> IF w \in world.reduced THEN OfOutputs(w) ELSE Aligned(w)]
  <2>1. final' = [w \in Weights |-> IF Contains(seen, w) THEN Lineage(w, outs[w], "WRED") ELSE final[w]]
    BY DEF EmitReduced
  <2>2. \A w \in Weights : final[w] = Aligned(w)
    BY <1>1 DEF IInv, Listed
  <2>3. \A w \in Weights : (IF Contains(seen, w) THEN Lineage(w, outs[w], "WRED") ELSE final[w])
                         = (IF w \in world.reduced THEN OfOutputs(w) ELSE Aligned(w))
    BY <1>1, <2>2, AllGathered
  <2> QED BY <2>1, <2>3
<1>12. TypeOK'
  <2>1. final' \in [Weights -> Lineages]
    BY <1>1, <1>11, TheyAreLineages
  <2>2. copies' = <<>>
    BY <1>1
  <2> QED BY <1>1, <1>10, <2>1, <2>2, Fixed DEF IInv, TypeOK
<1>13. Gathered'
  BY <1>1, GatheredRests
<1>14. Listed'
  <2>1. DOMAIN lngs = 1..L /\ DOMAIN lngs' = 1..(L + 2 * m)
    BY <1>3, <1>9, <1>10
  <2>2. \A w \in Weights : \E k \in DOMAIN lngs' : lngs'[k] = Aligned(w)
    BY <1>10, <2>1 DEF IInv, Listed
  <2>3. \A k \in 1..L : \E w \in Weights : lngs'[k] = Aligned(w)
    BY <1>1, <1>10, <2>1 DEF IInv, Listed
  <2>4. ASSUME NEW k \in 1..m
        PROVE  /\ lngs'[L + (2 * k - 1)] = OfInputs(seen[k]) /\ lngs'[L + 2 * k] = OfOutputs(seen[k])
               /\ L + (2 * k - 1) \in 1..((L + 2 * k) - 1)
               /\ L + 2 * k \in DOMAIN lngs'
    <3>1. PICK a \in 1..(2 * m), b \in 1..(2 * m) : a = 2 * k - 1 /\ b = 2 * k
      OBVIOUS
    <3>2. lngs'[L + a] = OfInputs(seen[k]) /\ lngs'[L + b] = OfOutputs(seen[k])
      BY <1>6, <1>10, <3>1
    <3>3. L + a \in 1..((L + b) - 1) /\ L + b \in DOMAIN lngs'
      BY <2>1, <3>1
    <3> QED BY <3>1, <3>2, <3>3
  <2>5. \A n \in 1..(2 * m) : \E w \in world.reduced :
          \/ lngs'[L + n] = OfInputs(w)
          \/ lngs'[L + n] = OfOutputs(w) /\ \E j \in 1..((L + n) - 1) : lngs'[j] = OfInputs(w)
    <3> TAKE n \in 1..(2 * m)
    <3>1. PICK k \in 1..m : n = 2 * k - 1 \/ n = 2 * k
      BY <1>7
    <3> QED BY <1>5, <2>4, <3>1
  <2>6. \A k \in DOMAIN lngs' : k \in 1..L \/ \E n \in 1..(2 * m) : k = L + n
    <3> TAKE k \in DOMAIN lngs'
    <3>1. k \in 1..L \/ (k - L \in 1..(2 * m) /\ k = L + (k - L))
      BY <2>1
    <3> QED BY <3>1
  <2>7. \A w \in world.reduced : \E k \in DOMAIN lngs' : lngs'[k] = OfOutputs(w)
    <3> TAKE w \in world.reduced
    <3>1. PICK k \in 1..m : seen[k] = w
      BY <1>1, <1>2, <1>3, AllGathered, WorldIs DEF Contains
    <3> QED BY <2>4, <3>1
  <2> QED BY <1>1, <1>11, <2>2, <2>3, <2>5, <2>6, <2>7, Fixed DEF Listed
<1>15. Finalized' /\ Mapped'
  BY <1>1, <1>10 DEF Finalized, Mapped
<1> QED BY <1>12, <1>13, <1>14, <1>15 DEF IInv

\* What does not touch the dictionaries or the list.
LEMMA Rests ==
    ASSUME IInv, UNCHANGED <<world, todo, seen, ins, outs, lngs, final>>, doing # "reducers", doing' # "reducers"
    PROVE  Gathered' /\ Listed'
<1>1. Gathered'
  BY GatheredRests
<1>2. Listed'
  BY Fixed DEF IInv, Listed
<1> QED BY <1>1, <1>2

LEMMA ExploreStep == ASSUME IInv, NothingToExplore \/ ExploreRaises PROVE IInv'
<1>1. /\ doing = "final" /\ doing' \in {"slices", "raised"} /\ UNCHANGED <<world, todo, seen, ins, outs, lngs, final, copies>>
      /\ doing' = "slices" => \A w \in Weights : IsFinal(final[w])
  BY DEF NothingToExplore, ExploreRaises
<1>2. TypeOK'
  BY <1>1, Fixed DEF IInv, TypeOK
<1>3. Finalized' /\ Mapped'
  BY <1>1, Fixed DEF IInv, Finalized, Mapped
<1> QED BY <1>1, <1>2, <1>3, Rests DEF IInv

LEMMA SetSliceMapStep == ASSUME IInv, SetSliceMap PROVE IInv'
<1>1. /\ doing = "slices" /\ UNCHANGED <<world, doing, todo, seen, ins, outs, lngs, final>>
      /\ lngs \in Seq(Lineages) /\ copies \in Seq({SliceMap(l) : l \in Lineages})
      /\ Len(copies) < Len(lngs)
  BY DEF SetSliceMap, IInv, TypeOK
<1>2. PICK n \in 1..Len(lngs) : n = Len(copies) + 1
  BY <1>1
<1>3. /\ copies' = Append(copies, SliceMap(lngs[n])) /\ lngs[n] \in Lineages
      /\ copies' \in Seq({SliceMap(l) : l \in Lineages}) /\ Len(copies') = n
  BY <1>1, <1>2 DEF SetSliceMap
<1>4. TypeOK'
  BY <1>1, <1>3, Fixed DEF IInv, TypeOK
<1>5. Mapped'
  <2>1. DOMAIN copies = 1..(n - 1) /\ DOMAIN copies' = 1..n
    BY <1>1, <1>2, <1>3
  <2>2. copies'[n] = SliceMap(lngs[n]) /\ \A k \in 1..(n - 1) : copies'[k] = copies[k]
    BY <1>1, <1>2, <1>3
  <2>3. \A k \in 1..n : copies'[k] = SliceMap(lngs[k])
    BY <2>1, <2>2 DEF IInv, Mapped
  <2> QED BY <1>1, <1>2, <1>3, <2>1, <2>3, Fixed DEF Mapped
<1>6. Finalized'
  BY <1>1, Fixed DEF IInv, Finalized
<1> QED BY <1>1, <1>4, <1>5, <1>6, Rests DEF IInv

LEMMA CoverCheckStep == ASSUME IInv, CoverCheck PROVE IInv'
<1>1. /\ doing = "slices" /\ doing' \in {"done", "raised"} /\ UNCHANGED <<world, todo, seen, ins, outs, lngs, final, copies>>
      /\ Len(copies) = Len(lngs)
  BY DEF CoverCheck
<1>2. TypeOK'
  BY <1>1, Fixed DEF IInv, TypeOK
<1>3. Finalized' /\ Mapped'
  BY <1>1, Fixed DEF IInv, Finalized, Mapped
<1> QED BY <1>1, <1>2, <1>3, Rests DEF IInv

LEMMA Stutters == ASSUME IInv, UNCHANGED lineagesVars PROVE IInv'
<1>1. UNCHANGED <<world, doing, todo, seen, ins, outs, lngs, final, copies>>
  BY DEF lineagesVars
<1>2. TypeOK'
  BY <1>1, Fixed DEF IInv, TypeOK
<1>3. Gathered'
  BY <1>1, GatheredRests
<1>4. Listed'
  BY <1>1, Fixed DEF IInv, Listed
<1>5. Finalized' /\ Mapped'
  BY <1>1, Fixed DEF IInv, Finalized, Mapped
<1> QED BY <1>2, <1>3, <1>4, <1>5 DEF IInv

LEMMA Preserved == IInv /\ [LineagesNext]_lineagesVars => IInv'
<1> SUFFICES ASSUME IInv, [LineagesNext]_lineagesVars PROVE IInv'
  OBVIOUS
<1>1. CASE VisitReducer
  BY <1>1, VisitReducerStep
<1>2. CASE EmitReduced
  BY <1>2, EmitReducedStep
<1>3. CASE NothingToExplore \/ ExploreRaises
  BY <1>3, ExploreStep
<1>4. CASE SetSliceMap
  BY <1>4, SetSliceMapStep
<1>5. CASE CoverCheck
  BY <1>5, CoverCheckStep
<1>6. CASE LineagesDone \/ UNCHANGED lineagesVars
  BY <1>6, Stutters DEF LineagesDone
<1> QED BY <1>1, <1>2, <1>3, <1>4, <1>5, <1>6 DEF LineagesNext

(***************************************************************************)
(* What the tensors sum up.                                                *)
(***************************************************************************)
LEMMA GradIs == ASSUME NEW w, NEW r, NEW v
                PROVE  Grad(w, r, v).w = w /\ Grad(w, r, v).rank = r /\ Grad(w, r, v).v = v
BY DEF Grad

\* The k-th backward operator puts out the k-th microbatch's part, the last sum
\* has those of all, and a reducer's output those of the ranks it reduces.
LEMMA PartsAre ==
    ASSUME world \in Worlds, NEW w \in Weights, NEW r \in Ranks
    PROVE  /\ \A k \in 1..world.mb : Parts(Grad(w, r, BackwardVersion(k))) = {Part(w, r, k)}
           /\ Parts(Grad(w, r, LocalVersion)) = {Part(w, r, k) : k \in 1..world.mb}
           /\ Parts(Grad(w, r, OutVersion)) = UNION {{Part(w, q, k) : k \in 1..world.mb} : q \in Reducers(w, r)}
<1>1. PICK m \in Nat \ {0} : m = world.mb /\ LocalVersion = 2 * m - 1 /\ OutVersion = 2 * m
  BY WorldIs DEF LocalVersion
<1>2. \A q \in Ranks : LocalParts(Grad(w, q, LocalVersion)) = {Part(w, q, k) : k \in 1..m}
  <2> TAKE q \in Ranks
  <2>1. LocalVersion % 2 = 1 /\ (LocalVersion + 1) \div 2 = m
    BY <1>1
  <2> QED BY <2>1, GradIs DEF LocalParts
<1>3. ASSUME NEW k \in 1..m PROVE Parts(Grad(w, r, BackwardVersion(k))) = {Part(w, r, k)}
  <2>1. BackwardVersion(k) \in 1..LocalVersion
    BY <1>1, Versions
  <2>2. Parts(Grad(w, r, BackwardVersion(k))) = LocalParts(Grad(w, r, BackwardVersion(k)))
    BY <1>1, <2>1, GradIs DEF Parts
  <2>3. CASE k = 1
    <3>1. BackwardVersion(k) = 1 /\ (1 + 1) \div 2 = 1
      BY <2>3 DEF BackwardVersion
    <3>2. LocalParts(Grad(w, r, 1)) = {Part(w, r, j) : j \in 1..1}
      BY <3>1, GradIs DEF LocalParts
    <3> QED BY <2>2, <2>3, <3>1, <3>2
  <2>4. CASE k # 1
    <3>1. PICK v \in Nat : v = BackwardVersion(k) /\ v = 2 * (k - 1)
      BY <2>1, <2>4 DEF BackwardVersion
    <3>2. v > 1 /\ v % 2 = 0 /\ (v \div 2) + 1 = k
      BY <2>4, <3>1
    <3>3. LocalParts(Grad(w, r, v)) = {Part(w, r, (v \div 2) + 1)}
      BY <3>2, GradIs DEF LocalParts
    <3> QED BY <2>2, <3>1, <3>2, <3>3
  <2> QED BY <2>3, <2>4
<1>4. Parts(Grad(w, r, LocalVersion)) = {Part(w, r, k) : k \in 1..m}
  BY <1>1, <1>2, GradIs DEF Parts
<1>5. Parts(Grad(w, r, OutVersion)) = UNION {{Part(w, q, k) : k \in 1..m} : q \in Reducers(w, r)}
  <2>1. OutVersion > LocalVersion
    BY <1>1
  <2>2. Parts(Grad(w, r, OutVersion)) = UNION {LocalParts(Grad(w, q, LocalVersion)) : q \in Reducers(w, r)}
    BY <2>1, GradIs DEF Parts
  <2>3. \A q \in Reducers(w, r) : q \in Ranks
    BY DEF Reducers
  <2> QED BY <1>2, <2>2, <2>3
<1> QED BY <1>1, <1>3, <1>4, <1>5

\* The ranks whose parts are summed with those of r: what it is reduced with, or
\* itself.
Peers(w, r) == IF w \in world.reduced THEN Reducers(w, r) ELSE {r}

\* They make up the slice that r has, and have different parts of it.
LEMMA PeersMakeWhole ==
    ASSUME world \in Worlds, NEW w \in Weights, NEW r \in Ranks
    PROVE  /\ r \in Peers(w, r) /\ Peers(w, r) \subseteq Ranks
           /\ \A q \in Peers(w, r) : Slice(w, q) = Slice(w, r)
           /\ UNION {{Part(w, q, k) : k \in 1..world.mb} : q \in Peers(w, r)} = Whole(w, Slice(w, r))
           /\ \A p, q \in Peers(w, r) : \A j, k \in 1..world.mb : Part(w, p, j) = Part(w, q, k) => p = q /\ j = k
<1>1. /\ world.layout[w] \in {"split", "replica", "partial", "expert"}
      /\ IF w \in world.reduced THEN world.layout[w] # "expert"
         ELSE /\ world.layout[w] \in {"split", "replica"} => world.dp = 1
              /\ world.layout[w] = "partial" => world.dp = 1 /\ world.tp = 1
  BY WorldIs, ReducerAssumption DEF Layouts
<1>2. Peers(w, r) = CASE w \notin world.reduced -> {r}
                      [] w \in world.reduced /\ world.layout[w] = "partial" -> Ranks
                      [] OTHER -> {q \in Ranks : q[2] = r[2]}
  BY DEF Peers, Reducers
<1>3. r \in Peers(w, r) /\ Peers(w, r) \subseteq Ranks
  BY <1>2
<1>4. \A q \in Peers(w, r) : Slice(w, q) = Slice(w, r)
  BY <1>1, <1>2 DEF Slice
<1>5. world.dp = 1 => \A q \in Ranks : q[1] = 0
  BY DEF Ranks
<1>6. world.tp = 1 => \A q \in Ranks : q[2] = 0
  BY DEF Ranks
<1>7. \A p, q \in Ranks : p[1] = q[1] /\ p[2] = q[2] => p = q
  BY WorldIs
<1>8. \A q \in Ranks : <<q[1], r[2]>> \in Ranks
  BY DEF Ranks
<1>9. ASSUME NEW q \in Ranks, Slice(w, q) = Slice(w, r), NEW k \in 1..world.mb
      PROVE  \E p \in Peers(w, r) : Part(w, p, k) = Part(w, q, k)
  <2>1. CASE world.layout[w] = "split"
    <3>1. q[2] = r[2]
      BY <1>9, <2>1 DEF Slice
    <3>2. q \in Peers(w, r)
      BY <1>1, <1>2, <1>5, <1>7, <2>1, <3>1
    <3> QED BY <3>2
  <2>2. CASE world.layout[w] = "replica"
    <3>1. CASE w \in world.reduced
      <4>1. <<q[1], r[2]>> \in Peers(w, r)
        BY <1>2, <1>8, <2>2, <3>1
      <4> QED BY <2>2, <4>1 DEF Part
    <3>2. CASE w \notin world.reduced
      BY <1>1, <1>3, <1>5, <2>2, <3>2 DEF Part
    <3> QED BY <3>1, <3>2
  <2>3. CASE world.layout[w] = "partial"
    BY <1>1, <1>2, <1>5, <1>6, <1>7, <2>3
  <2>4. CASE world.layout[w] = "expert"
    BY <1>3, <1>9, <2>4 DEF Slice
  <2> QED BY <1>1, <2>1, <2>2, <2>3, <2>4
<1>10. UNION {{Part(w, q, k) : k \in 1..world.mb} : q \in Peers(w, r)} = Whole(w, Slice(w, r))
  BY <1>3, <1>4, <1>9 DEF Whole
<1>11. \A p, q \in Peers(w, r) : \A j, k \in 1..world.mb : Part(w, p, j) = Part(w, q, k) => p = q /\ j = k
  <2> TAKE p, q \in Peers(w, r)
  <2> TAKE j, k \in 1..world.mb
  <2> HAVE Part(w, p, j) = Part(w, q, k)
  <2>1. CASE world.layout[w] = "replica"
    <3>1. p[1] = q[1] /\ j = k
      BY <2>1 DEF Part
    <3>2. w \in world.reduced => p[2] = q[2]
      BY <1>2, <2>1
    <3> QED BY <1>2, <1>3, <1>7, <3>1, <3>2
  <2>2. CASE world.layout[w] # "replica"
    <3>1. p[1] = q[1] /\ p[2] = q[2] /\ j = k
      BY <2>2 DEF Part
    <3> QED BY <1>3, <1>7, <3>1
  <2> QED BY <2>1, <2>2
<1> QED BY <1>3, <1>4, <1>10, <1>11

\* The copies c of slice s sum up each part of it once.
Exact(w, s, c) ==
    /\ UNION {Parts(x) : x \in c} = Whole(w, s)
    /\ \A x, y \in c : x # y => Parts(x) \cap Parts(y) = {}

\* Tps are the tensors of w with versions V on every rank, of which version v has
\* the parts of the microbatches P[v]: of all of them, and each once.
Sums(w, V, P, Tps) ==
    /\ \A y : y \in Tps <=> \E r \in Ranks, v \in V : y = Grad(w, r, v)
    /\ \A r \in Ranks, v \in V : Parts(Grad(w, r, v)) = {Part(w, r, k) : k \in P[v]}
    /\ \A v \in V : P[v] \subseteq 1..world.mb
    /\ \A u, v \in V : u # v => P[u] \cap P[v] = {}
    /\ \A k \in 1..world.mb : \E v \in V : k \in P[v]

Those(Tps, s) == {y \in Tps : Slice(y.w, y.rank) = s}

LEMMA SummedTogether ==
    ASSUME world \in Worlds, NEW w \in Weights, NEW V, NEW P, NEW Tps, Sums(w, V, P, Tps),
           NEW s, NEW x \in Those(Tps, s)
    PROVE  Exact(w, s, Together(x, Those(Tps, s)))
<1> USE DEF Sums
<1> DEFINE xs == Those(Tps, s)
<1>1. \A y : y \in xs <=> y \in Tps /\ Slice(y.w, y.rank) = s
  BY DEF Those
<1> HIDE DEF xs
<1> DEFINE c == Together(x, xs)
<1>2. PICK r \in Ranks, v \in V : x = Grad(w, r, v)
  BY DEF Those
<1>3. x.w = w /\ x.rank = r /\ Slice(w, r) = s
  BY <1>2, GradIs DEF Those
<1>4. \A y \in Tps : y.w = w /\ y.rank \in Ranks
  BY GradIs
<1>5. c = {y \in Tps : y.rank \in Peers(w, r)}
  <2>1. c = {y \in xs : y.rank \in Peers(w, r)}
    BY <1>1, <1>3, <1>4 DEF Together, Peers
  <2>2. \A y \in Tps : y.rank \in Peers(w, r) => Slice(y.w, y.rank) = s
    BY <1>3, <1>4, PeersMakeWhole
  <2> HIDE DEF c
  <2> QED BY <1>1, <2>1, <2>2
<1>6. c = {Grad(w, q, u) : q \in Peers(w, r), u \in V}
  BY <1>5, PeersMakeWhole, GradIs
<1> HIDE DEF c
<1>7. ASSUME NEW q \in Peers(w, r), NEW u \in V
      PROVE  Parts(Grad(w, q, u)) = {Part(w, q, k) : k \in P[u]}
  BY PeersMakeWhole
<1>8. UNION {Parts(y) : y \in c} = UNION {{Part(w, q, k) : k \in 1..world.mb} : q \in Peers(w, r)}
  <2>1. ASSUME NEW y \in c, NEW z \in Parts(y)
        PROVE  \E q \in Peers(w, r) : \E k \in 1..world.mb : z = Part(w, q, k)
    <3>1. PICK q \in Peers(w, r), u \in V : y = Grad(w, q, u)
      BY <1>6
    <3>2. PICK k \in P[u] : z = Part(w, q, k)
      BY <1>7, <3>1
    <3>3. k \in 1..world.mb
      OBVIOUS
    <3> QED BY <3>2, <3>3
  <2>2. ASSUME NEW q \in Peers(w, r), NEW k \in 1..world.mb
        PROVE  \E y \in c : Part(w, q, k) \in Parts(y)
    <3>1. PICK u \in V : k \in P[u]
      OBVIOUS
    <3>2. Part(w, q, k) \in Parts(Grad(w, q, u))
      BY <1>7, <3>1
    <3>3. Grad(w, q, u) \in c
      BY <1>6
    <3> QED BY <3>2, <3>3
  <2> QED BY <2>1, <2>2
<1>9. \A y, z \in c : y # z => Parts(y) \cap Parts(z) = {}
  <2> SUFFICES ASSUME NEW y \in c, NEW z \in c, y # z, NEW e \in Parts(y), e \in Parts(z) PROVE FALSE
    OBVIOUS
  <2>1. PICK p \in Peers(w, r), u \in V : y = Grad(w, p, u)
    BY <1>6
  <2>2. PICK q \in Peers(w, r), t \in V : z = Grad(w, q, t)
    BY <1>6
  <2>3. PICK j \in P[u] : e = Part(w, p, j)
    BY <1>7, <2>1
  <2>4. PICK k \in P[t] : e = Part(w, q, k)
    BY <1>7, <2>2
  <2>5. j \in 1..world.mb /\ k \in 1..world.mb /\ Part(w, p, j) = Part(w, q, k)
    BY <2>3, <2>4
  <2>6. p = q /\ j = k
    BY <2>5, PeersMakeWhole
  <2> QED BY <2>1, <2>2, <2>6
<1>10. Exact(w, s, c)
  <2>1. UNION {{Part(w, q, k) : k \in 1..world.mb} : q \in Peers(w, r)} = Whole(w, Slice(w, r))
    BY PeersMakeWhole
  <2>2. UNION {Parts(y) : y \in c} = Whole(w, s)
    BY <1>3, <1>8, <2>1
  <2> QED BY <1>9, <2>2 DEF Exact
<1> QED BY <1>10 DEF c, xs

LEMMA AlignedClaims ==
    ASSUME world \in Worlds, NEW w \in Weights,
           NEW s \in DOMAIN SliceMap(Aligned(w)), NEW c \in SliceMap(Aligned(w))[s]
    PROVE  Exact(w, s, c)
<1>1. PICK V : V = {BackwardVersion(k) : k \in 1..world.mb}
  OBVIOUS
<1>2. PICK P : P = [v \in V |-> {k \in 1..world.mb : BackwardVersion(k) = v}]
  OBVIOUS
<1>3. PICK Tps : Tps = Aligned(w).Tps
  OBVIOUS
<1>4. \A y : y \in Tps <=> \E r \in Ranks, v \in V : y = Grad(w, r, v)
  <2>1. \A y \in Tps : \E r \in Ranks, k \in 1..world.mb : y = Grad(w, r, BackwardVersion(k))
    BY <1>3 DEF Aligned, Lineage
  <2>2. \A r \in Ranks, k \in 1..world.mb : Grad(w, r, BackwardVersion(k)) \in Tps
    BY <1>3 DEF Aligned, Lineage
  <2>3. \A v \in V : \E k \in 1..world.mb : v = BackwardVersion(k)
    BY <1>1
  <2>4. \A k \in 1..world.mb : BackwardVersion(k) \in V
    BY <1>1
  <2> QED BY <2>1, <2>2, <2>3, <2>4
<1>5. PICK xs : xs = Those(Tps, s)
  OBVIOUS
<1>6. PICK x \in xs : c = Together(x, xs)
  <2>1. SliceMap(Aligned(w))[s] = Copies(Aligned(w), xs)
    BY <1>3, <1>5 DEF SliceMap, Those
  <2>2. Aligned(w).src # "WRED"
    BY DEF Aligned, Lineage
  <2> QED BY <2>1, <2>2 DEF Copies
<1>7. \A r \in Ranks, v \in V : Parts(Grad(w, r, v)) = {Part(w, r, k) : k \in P[v]}
  <2> TAKE r \in Ranks, v \in V
  <2>1. PICK k \in 1..world.mb : v = BackwardVersion(k)
    BY <1>1
  <2>2. P[v] = {k}
    BY <1>2, <2>1, Versions
  <2>3. Parts(Grad(w, r, v)) = {Part(w, r, k)}
    BY <2>1, PartsAre
  <2> QED BY <2>2, <2>3
<1>8. \A v \in V : P[v] \subseteq 1..world.mb
  BY <1>2
<1>9. \A u, v \in V : u # v => P[u] \cap P[v] = {}
  BY <1>2
<1>10. \A k \in 1..world.mb : \E v \in V : k \in P[v]
  BY <1>1, <1>2
<1>11. Sums(w, V, P, Tps)
  BY <1>4, <1>7, <1>8, <1>9, <1>10 DEF Sums
<1> QED BY <1>5, <1>6, <1>11, SummedTogether

LEMMA InputClaims ==
    ASSUME world \in Worlds, NEW w \in Weights, w \in world.reduced,
           NEW s \in DOMAIN SliceMap(OfInputs(w)), NEW c \in SliceMap(OfInputs(w))[s]
    PROVE  Exact(w, s, c)
<1>1. PICK V : V = {LocalVersion}
  OBVIOUS
<1>2. PICK P : P = [v \in V |-> 1..world.mb]
  OBVIOUS
<1>3. PICK Tps : Tps = OfInputs(w).Tps
  OBVIOUS
<1>4. \A y : y \in Tps <=> \E r \in Ranks, v \in V : y = Grad(w, r, v)
  BY <1>1, <1>3 DEF OfInputs, Lineage
<1>5. PICK xs : xs = Those(Tps, s)
  OBVIOUS
<1>6. s \in {Slice(x.w, x.rank) : x \in Tps} /\ SliceMap(OfInputs(w))[s] = Copies(OfInputs(w), xs)
  BY <1>3, <1>5 DEF SliceMap, Those
<1>7. ~IsFinal([OfInputs(w) EXCEPT !.Tps = xs])
  <2>1. PICK x \in xs : x \in Tps
    BY <1>5, <1>6 DEF Those
  <2>2. x.v = LocalVersion /\ x.w = w
    BY <1>1, <1>4, <2>1, GradIs
  <2>3. MaxVersion(w) # LocalVersion
    BY WorldIs DEF MaxVersion
  <2>4. [OfInputs(w) EXCEPT !.Tps = xs].Tps = xs
    BY DEF OfInputs, Lineage
  <2> QED BY <2>1, <2>2, <2>3, <2>4 DEF IsFinal
<1>8. PICK x \in xs : c = Together(x, xs)
  BY <1>6, <1>7 DEF Copies
<1>9. \A r \in Ranks, v \in V : Parts(Grad(w, r, v)) = {Part(w, r, k) : k \in P[v]}
  <2> TAKE r \in Ranks, v \in V
  <2>1. v = LocalVersion /\ P[v] = 1..world.mb
    BY <1>1, <1>2
  <2>2. Parts(Grad(w, r, LocalVersion)) = {Part(w, r, k) : k \in 1..world.mb}
    BY PartsAre
  <2> QED BY <2>1, <2>2
<1>10. \A v \in V : P[v] \subseteq 1..world.mb
  BY <1>2
<1>11. \A u, v \in V : u # v => P[u] \cap P[v] = {}
  BY <1>1
<1>12. \A k \in 1..world.mb : \E v \in V : k \in P[v]
  BY <1>1, <1>2
<1>13. Sums(w, V, P, Tps)
  BY <1>4, <1>9, <1>10, <1>11, <1>12 DEF Sums
<1> QED BY <1>5, <1>8, <1>13, SummedTogether

LEMMA OutputClaims ==
    ASSUME world \in Worlds, NEW w \in Weights, w \in world.reduced,
           NEW s \in DOMAIN SliceMap(OfOutputs(w)), NEW c \in SliceMap(OfOutputs(w))[s]
    PROVE  Exact(w, s, c)
<1>1. PICK Tps : Tps = {Grad(w, r, OutVersion) : r \in Ranks}
  OBVIOUS
<1>2. OfOutputs(w).Tps = Tps /\ OfOutputs(w).src = "WRED"
  BY <1>1 DEF OfOutputs, Lineage
<1>3. PICK xs : xs = Those(Tps, s)
  OBVIOUS
<1>4. SliceMap(OfOutputs(w))[s] = Copies(OfOutputs(w), xs)
  BY <1>2, <1>3 DEF SliceMap, Those
<1>5. IsFinal([OfOutputs(w) EXCEPT !.Tps = xs])
  <2>1. \A x \in xs : x.v = MaxVersion(x.w)
    BY <1>1, <1>3, GradIs, WorldIs DEF MaxVersion, Those
  <2>2. [OfOutputs(w) EXCEPT !.Tps = xs].Tps = xs
    BY DEF OfOutputs, Lineage
  <2> QED BY <2>1, <2>2 DEF IsFinal
<1>6. PICK x \in xs : c = {x}
  BY <1>2, <1>4, <1>5 DEF Copies
<1>7. PICK r \in Ranks : x = Grad(w, r, OutVersion) /\ s = Slice(w, r)
  BY <1>1, <1>3, GradIs DEF Those
<1>8. Parts(x) = Whole(w, s)
  <2>1. Parts(x) = UNION {{Part(w, q, k) : k \in 1..world.mb} : q \in Reducers(w, r)}
    BY <1>7, PartsAre
  <2>2. UNION {{Part(w, q, k) : k \in 1..world.mb} : q \in Peers(w, r)} = Whole(w, Slice(w, r))
    BY PeersMakeWhole
  <2>3. Peers(w, r) = Reducers(w, r)
    BY DEF Peers
  <2> QED BY <1>7, <2>1, <2>2, <2>3
<1> QED BY <1>6, <1>8 DEF Exact

(***************************************************************************)
(* The theorems.                                                           *)
(***************************************************************************)
\* The variables keep their types.
THEOREM TypeCorrect == LineagesSpec => []TypeOK
<1>1. IInv => TypeOK
  BY DEF IInv
<1> QED BY <1>1, Begins, Preserved, PTL DEF LineagesSpec

\* get_ordered_lineages: when the slice maps are set (_get_lng_slcmap), each copy
\* in each of them sums up every part of its slice exactly once.
THEOREM ClaimsAreTrue == LineagesSpec => []ClaimsHold
<1>1. IInv => ClaimsHold
  <2> SUFFICES ASSUME IInv, doing = "done", NEW k \in Kept, NEW s \in DOMAIN copies[k], NEW c \in copies[k][s]
               PROVE  Exact(lngs[k].Ts, s, c)
    BY DEF ClaimsHold, Exact
  <2>1. world \in Worlds /\ world.reduced \subseteq Weights
    BY WorldIs DEF IInv, TypeOK
  <2>2. k \in DOMAIN lngs
    BY DEF Kept
  <2>3. copies[k] = SliceMap(lngs[k])
    BY <2>2 DEF IInv, Mapped, TypeOK
  <2>4. PICK w \in Weights :
          \/ lngs[k] = Aligned(w)
          \/ w \in world.reduced /\ (lngs[k] = OfInputs(w) \/ lngs[k] = OfOutputs(w))
    BY <2>1, <2>2 DEF IInv, Listed
  <2>5. lngs[k].Ts = w
    BY <2>4 DEF Aligned, OfInputs, OfOutputs, Lineage
  <2>6. CASE lngs[k] = Aligned(w)
    BY <2>1, <2>3, <2>5, <2>6, AlignedClaims
  <2>7. CASE w \in world.reduced /\ lngs[k] = OfInputs(w)
    BY <2>1, <2>3, <2>5, <2>7, InputClaims
  <2>8. CASE w \in world.reduced /\ lngs[k] = OfOutputs(w)
    BY <2>1, <2>3, <2>5, <2>8, OutputClaims
  <2> QED BY <2>4, <2>6, <2>7, <2>8
<1> QED BY <1>1, Begins, Preserved, PTL DEF LineagesSpec

\* Where lineages are returned, each gradient has one about the last version on
\* every rank (_infer_lineages_from_wreds, _explore_final_lineages).
THEOREM FinalsAreDiscovered == LineagesSpec => []FinalsDiscovered
<1>1. IInv => FinalsDiscovered
  <2> SUFFICES ASSUME IInv, doing \in {"slices", "done"}, NEW w \in Weights
               PROVE  \E k \in DOMAIN lngs :
                        lngs[k].Ts = w /\ lngs[k].Tps = {Grad(w, r, MaxVersion(w)) : r \in Ranks}
    BY DEF FinalsDiscovered, FinalsThere
  <2>1. world \in Worlds
    BY DEF IInv, TypeOK
  <2>2. CASE w \in world.reduced
    <3>1. PICK k \in DOMAIN lngs : lngs[k] = OfOutputs(w)
      BY <2>2 DEF IInv, Listed
    <3>2. MaxVersion(w) = OutVersion
      BY <2>2 DEF MaxVersion, OutVersion
    <3> QED BY <3>1, <3>2 DEF OfOutputs, Lineage
  <2>3. CASE w \notin world.reduced
    <3>1. final[w] = Aligned(w) /\ IsFinal(final[w])
      BY <2>3 DEF IInv, Listed, Finalized
    <3>2. \A r \in Ranks, k \in 1..world.mb : BackwardVersion(k) = LocalVersion
      <4> TAKE r \in Ranks, k \in 1..world.mb
      <4>1. Grad(w, r, BackwardVersion(k)) \in Aligned(w).Tps
        BY DEF Aligned, Lineage
      <4> QED BY <2>3, <3>1, <4>1, GradIs DEF IsFinal, MaxVersion
    <3>3. 1 \in 1..world.mb
      BY <2>1, WorldIs
    <3>4. Aligned(w).Ts = w /\ Aligned(w).Tps = {Grad(w, r, MaxVersion(w)) : r \in Ranks}
      <4>1. \A r \in Ranks, k \in 1..world.mb : Grad(w, r, BackwardVersion(k)) = Grad(w, r, MaxVersion(w))
        BY <2>3, <3>2 DEF MaxVersion
      <4> QED BY <3>3, <4>1 DEF Aligned, Lineage
    <3>5. PICK k \in DOMAIN lngs : lngs[k] = Aligned(w)
      BY DEF IInv, Listed
    <3> QED BY <3>4, <3>5
  <2> QED BY <2>2, <2>3
<1> QED BY <1>1, Begins, Preserved, PTL DEF LineagesSpec

\* Of the indices of a list that are equal to the j-th there is a first.
LEMMA FirstOfSame ==
    ASSUME IInv, NEW j \in DOMAIN lngs
    PROVE  \E k \in Kept : k <= j /\ Same(lngs[k], lngs[j])
<1> DEFINE S == {k \in DOMAIN lngs : Same(lngs[k], lngs[j])}
<1>1. DOMAIN lngs \in SUBSET Nat /\ DOMAIN lngs = 1..Len(lngs)
  BY DEF IInv, TypeOK
<1>2. j \in S /\ S \in SUBSET Nat
  BY <1>1 DEF Same
<1>3. PICK k \in S : \A h \in S : ~(<<h, k>> \in OpToRel(<, Nat))
  BY <1>2, NatLessThanWellFounded, WFMin
<1>4. \A h \in S : ~(h < k) /\ k \in Nat /\ h \in Nat
  BY <1>2, <1>3 DEF OpToRel
<1>5. ~\E h \in 1..(k - 1) : Same(lngs[h], lngs[k])
  <2> SUFFICES ASSUME NEW h \in 1..(k - 1), Same(lngs[h], lngs[k]) PROVE FALSE
    OBVIOUS
  <2>1. h \in DOMAIN lngs /\ h < k
    BY <1>1, <1>4
  <2>2. Same(lngs[h], lngs[j])
    BY <1>3 DEF Same
  <2> QED BY <1>4, <2>1, <2>2
<1> QED BY <1>2, <1>4, <1>5 DEF Kept

\* "In visiting order of node execution": a lineage about what reducers put out
\* comes after one about all that they take in (_infer_lineages_from_wreds).
THEOREM InputsComeFirst == LineagesSpec => []ReducedAfterInputs
<1>1. IInv => ReducedAfterInputs
  <2> SUFFICES ASSUME IInv, doing = "done", NEW k \in Kept, lngs[k].src = "WRED", IsFinal(lngs[k])
               PROVE  \E j \in Kept : /\ j < k /\ lngs[j].Ts = lngs[k].Ts
                                      /\ \A x \in lngs[k].Tps : \A q \in Reducers(x.w, x.rank) :
                                           Grad(x.w, q, LocalVersion) \in lngs[j].Tps
    BY DEF ReducedAfterInputs
  <2>1. world \in Worlds /\ world.reduced \subseteq Weights /\ k \in DOMAIN lngs /\ DOMAIN lngs = 1..Len(lngs)
    BY WorldIs DEF IInv, TypeOK, Kept
  <2>2. \A w : Aligned(w).src = "OP"
    BY DEF Aligned, Lineage
  <2>3. PICK w \in world.reduced :
          \/ lngs[k] = OfInputs(w)
          \/ lngs[k] = OfOutputs(w) /\ \E j \in 1..(k - 1) : lngs[j] = OfInputs(w)
    BY <2>1, <2>2 DEF IInv, Listed
  <2>4. lngs[k] # OfInputs(w)
    <3>1. <<0, 0>> \in Ranks
      BY <2>1, WorldIs DEF Ranks
    <3>2. Grad(w, <<0, 0>>, LocalVersion) \in OfInputs(w).Tps
      BY <3>1 DEF OfInputs, Lineage
    <3>3. MaxVersion(w) # LocalVersion
      BY <2>1, WorldIs DEF MaxVersion
    <3>4. ~IsFinal(OfInputs(w))
      BY <3>2, <3>3, GradIs DEF IsFinal
    <3> QED BY <3>4
  <2>5. PICK h \in DOMAIN lngs : h < k /\ lngs[h] = OfInputs(w) /\ lngs[k] = OfOutputs(w)
    BY <2>1, <2>3, <2>4
  <2>6. PICK j \in Kept : j <= h /\ Same(lngs[j], lngs[h])
    BY FirstOfSame
  <2>7. j < k /\ lngs[j].Ts = lngs[k].Ts
    BY <2>1, <2>5, <2>6 DEF Same, Kept, OfInputs, OfOutputs, Lineage
  <2>8. ASSUME NEW x \in lngs[k].Tps, NEW q \in Reducers(x.w, x.rank)
        PROVE  Grad(x.w, q, LocalVersion) \in lngs[j].Tps
    <3>1. x.w = w
      BY <2>5, <2>8, GradIs DEF OfOutputs, Lineage
    <3>2. q \in Ranks
      BY DEF Reducers
    <3> QED BY <2>5, <2>6, <3>1, <3>2 DEF Same, OfInputs, Lineage
  <2> QED BY <2>7, <2>8
<1> QED BY <1>1, Begins, Preserved, PTL DEF LineagesSpec

(***************************************************************************)
(* The passes of RankDataflow: the invariant.                              *)
(***************************************************************************)
\* Types; tensors that have a count have no version yet.
DataflowTypeOK ==
    /\ prog \in Programs
    /\ pass \in 1..7 /\ i \in 1..(Len(cells) + 1)
    /\ cells \in Seq(Cell) /\ ret \in Seq(Cell)
    /\ latest \in [Unversioned -> Nat]
    /\ grads \in [WeightIds -> Seq(Ids)]
    /\ maxv \in [Ids -> Nat]
    /\ raised \in BOOLEAN

\* What the first n cells of list put out.
Outputs(list, n) == UNION {Range(list[k].outs) : k \in 1..n}

\* No two outputs of list are the same tensor, but in flight.
Once(list) ==
    \A k, m \in 1..Len(list) :
       \A j \in 1..Len(list[k].outs) : \A l \in 1..Len(list[m].outs) :
          ~list[k].outs[j].fly /\ list[k].outs[j] = list[m].outs[l] => k = m /\ j = l

\* A cell as it is before the versions: what a sender puts out, and nothing else, is in
\* flight.
Fresh(c) == /\ c.ins \in Seq(Unversioned) /\ c.outs \in Seq(Unversioned)
            /\ \A k \in 1..Len(c.outs) : c.outs[k].fly <=> c.op = "send"

\* Before the versions: what is read is plain, what is built Fresh.
Early ==
    /\ pass = 1 => \A k \in 1..Len(cells) : /\ cells[k].ins \in Seq({Plain(t) : t \in Ids})
                                            /\ cells[k].outs \in Seq({Plain(t) : t \in Ids})
    /\ pass \in {2, 3} => \A k \in 1..Len(cells) : Fresh(cells[k])
    /\ pass \in {1, 2} => \A k \in 1..Len(ret) : Fresh(ret[k])

\* Reducers come last, each weight in one of them.
Behind(c, d) == c.op = "wred" => d.op = "wred" /\ Reduces(c) \cap Reduces(d) = {}
\* A reducer puts out nothing and names weights, each of them once.
Bucketed(c) ==
    c.op = "wred" =>
      /\ c.outs = <<>> /\ Reduces(c) \subseteq WeightIds
      /\ \A n, m \in 1..Len(c.ins) : n # m => c.ins[n].id # c.ins[m].id
\* Reducers come last in list and share no weight.
InOrder(list) == /\ \A k, m \in 1..Len(list) : k < m => Behind(list[k], list[m])
                 /\ \A k \in 1..Len(list) : Bucketed(list[k])
\* This order holds of what is read until the reducers are split, and of what is
\* built together with what is still to be read.
Ordered ==
    /\ pass <= 5 => InOrder(cells)
    /\ pass <= 4 => /\ InOrder(ret)
                    /\ \A k \in 1..Len(ret) : \A m \in i..Len(cells) : Behind(ret[k], cells[m])

\* 2n + 1: the count of a tensor that was produced n + 1 times.
Odd(v) == v % 2 = 1
\* The versions that the version pass hands out.
First(x) == IF x.fly THEN x.v = 0 ELSE x.v = 1 \/ (x.v > 0 /\ ~Odd(x.v))

\* The version pass: counts are 0 or odd, what is built has versions up to the
\* counts, each tensor once; the next pass reads just that.
Numbered ==
    /\ pass <= 3 => \A t \in Ids : latest[Plain(t)] = 0 \/ Odd(latest[Plain(t)])
    /\ pass = 3 => /\ Once(ret)
                   /\ \A x \in Outputs(ret, Len(ret)) :
                        First(x) /\ (~x.fly => x.v <= latest[Plain(x.id)])
    /\ pass = 4 => Once(cells) /\ \A x \in Outputs(cells, Len(cells)) : First(x)

\* The accumulation pass: what is built is what was read, and for each version read,
\* an even one, at most one sum, the odd version after it.
Summed ==
    pass = 4 =>
      /\ Once(ret)
      /\ \A x \in Outputs(ret, Len(ret)) : ~x.fly =>
           \/ x \in Outputs(cells, i - 1)
           \/ x.v > 2 /\ Odd(x.v) /\ Before(x) \in Outputs(cells, i - 1)

\* A gradient is registered for one weight.
Apart == \A w1, w2 \in WeightIds : w1 # w2 => Range(grads[w1]) \cap Range(grads[w2]) = {}

\* From the reduce pass on, tensors are put out once: a new version is above all
\* versions read, unless it is of a gradient that a reducer before it put out, and then
\* the two reducers are of one weight, which InOrder excludes.
ReducedOnce ==
    /\ pass \in {5, 6, 7} => Once(cells)
    /\ pass \in {5, 6} => Once(ret)
    /\ pass = 5 =>
         /\ \A x \in Outputs(cells, i - 1) : x.v <= maxv[x.id]
         /\ \A x \in Outputs(ret, Len(ret)) : ~x.fly =>
              \/ x \in Outputs(cells, i - 1)
              \/ \E m \in 1..(i - 1) : /\ cells[m].op = "wred"
                                       /\ \E w1 \in Reduces(cells[m]) : x.id \in Range(grads[w1])
    /\ pass = 6 => Len(ret) = i - 1 /\ \A k \in 1..Len(ret) : ret[k].outs = cells[k].outs

\* The inductive invariant.
DataflowIInv == /\ DataflowTypeOK /\ Early /\ Ordered /\ Numbered /\ Summed /\ Apart /\ ReducedOnce

(***************************************************************************)
(* Sequences built by recursion: what Above, Counts and Registered give.   *)
(***************************************************************************)
\* A set of natural numbers has a least element.
LEMMA LeastNumber ==
    ASSUME NEW T \in SUBSET Nat, T # {}
    PROVE  \E x \in T : \A y \in T : ~(y < x)
<1>1. \E x \in T : \A y \in T : ~(<<y, x>> \in OpToRel(<, Nat))
  BY WFMin, NatLessThanWellFounded, Zenon
<1> QED BY <1>1, Zenon DEF OpToRel

\* Induction, for a set of numbers.
LEMMA Inductive ==
    ASSUME NEW S, 0 \in S, \A n \in Nat : n \in S => n + 1 \in S
    PROVE  Nat \subseteq S
<1> SUFFICES ASSUME Nat \ S # {} PROVE FALSE
  OBVIOUS
<1>1. PICK k \in Nat \ S : \A j \in Nat \ S : ~(j < k)
  BY LeastNumber
<1>2. k # 0 /\ k - 1 \in Nat /\ k - 1 < k /\ k - 1 + 1 = k
  BY <1>1
<1>3. k - 1 \in S
  BY <1>1, <1>2
<1> QED BY <1>1, <1>2, <1>3

\* f runs through n steps of Step, from s.
Runs(f, n, s, Step) == f[0] = s /\ \A k \in 1..n : f[k] = Step[<<k, f[k - 1]>>]

\* A run can go one step further.
LEMMA OneMore ==
    ASSUME NEW S, NEW s \in S, NEW n \in Nat, NEW Step \in [(1..n) \X S -> S],
           NEW m \in Nat, m + 1 <= n, NEW g \in [0..m -> S], Runs(g, m, s, Step)
    PROVE  \E f \in [0..(m + 1) -> S] : Runs(f, m + 1, s, Step)
<1>1. <<m + 1, g[m]>> \in (1..n) \X S
  OBVIOUS
<1>2. PICK z \in S : z = Step[<<m + 1, g[m]>>]
  BY <1>1
<1>3. PICK f : f = [k \in 0..(m + 1) |-> IF k = m + 1 THEN z ELSE g[k]]
  OBVIOUS
<1>4. f \in [0..(m + 1) -> S]
  BY <1>3
<1>5. f[m + 1] = z /\ \A k \in 0..m : f[k] = g[k]
  BY <1>3
<1>6. f[0] = s
  BY <1>5 DEF Runs
<1>7. ASSUME NEW k \in 1..m PROVE f[k] = Step[<<k, f[k - 1]>>]
  <2>1. k \in 0..m /\ k - 1 \in 0..m
    OBVIOUS
  <2>2. g[k] = Step[<<k, g[k - 1]>>]
    BY DEF Runs
  <2> QED BY <2>1, <2>2, <1>5
<1>8. f[m + 1] = Step[<<m + 1, f[m + 1 - 1]>>]
  <2>1. m + 1 - 1 = m /\ m \in 0..m
    OBVIOUS
  <2> QED BY <2>1, <1>2, <1>5
<1>9. \A k \in 1..(m + 1) : k \in 1..m \/ k = m + 1
  OBVIOUS
<1>10. Runs(f, m + 1, s, Step)
  <2>1. ASSUME NEW k \in 1..(m + 1) PROVE f[k] = Step[<<k, f[k - 1]>>]
    <3>1. CASE k \in 1..m
      BY <1>7, <3>1
    <3>2. CASE k = m + 1
      <4>1. k - 1 = m + 1 - 1
        BY <3>2
      <4> QED BY <1>8, <3>2, <4>1, Zenon
    <3> QED BY <1>9, <3>1, <3>2
  <2> QED BY <1>6, <2>1 DEF Runs
<1> QED BY <1>4, <1>10

\* There is a run of n steps: recursion over a number gives a function.
LEMMA Iterated ==
    ASSUME NEW S, NEW s \in S, NEW n \in Nat, NEW Step \in [(1..n) \X S -> S]
    PROVE  \E f \in [0..n -> S] : Runs(f, n, s, Step)
<1>1. \E T : \A m : m \in T <=> m \in Nat /\ (m <= n => \E f \in [0..m -> S] : Runs(f, m, s, Step))
  <2>1. \E T : T = {m \in Nat : m <= n => \E f \in [0..m -> S] : Runs(f, m, s, Step)}
    OBVIOUS
  <2> QED BY <2>1, Zenon
<1>2. PICK T : \A m : m \in T <=> m \in Nat /\ (m <= n => \E f \in [0..m -> S] : Runs(f, m, s, Step))
  BY <1>1
<1>3. 0 \in T
  <2>1. PICK f : f = [k \in 0..0 |-> s]
    OBVIOUS
  <2>2. f \in [0..0 -> S]
    BY <2>1
  <2>3. Runs(f, 0, s, Step)
    BY <2>1 DEF Runs
  <2> QED BY <1>2, <2>2, <2>3
<1>4. ASSUME NEW m \in Nat, m \in T PROVE m + 1 \in T
  <2> SUFFICES ASSUME m + 1 <= n PROVE \E f \in [0..(m + 1) -> S] : Runs(f, m + 1, s, Step)
    BY <1>2
  <2>1. m <= n
    OBVIOUS
  <2>2. PICK g \in [0..m -> S] : Runs(g, m, s, Step)
    BY <1>2, <1>4, <2>1, Zenon
  <2> QED BY <2>2, OneMore
<1>5. n \in T
  BY <1>3, <1>4, Inductive
<1> QED BY <1>2, <1>5

\* a is picked, in order, from the first m tensors of s, those with a version
\* above v.
Picked(a, s, m, v) ==
    \E at \in [1..Len(a) -> 1..m] :
       /\ \A k \in 1..Len(a) : a[k] = s[at[k]] /\ s[at[k]].v > v
       /\ \A k, l \in 1..Len(a) : k < l => at[k] < at[l]

\* Above picks, in order, tensors with versions above v.
LEMMA AboveIs ==
    ASSUME NEW S, NEW s \in Seq(S), NEW v
    PROVE  Above(s, v) \in Seq(S) /\ Picked(Above(s, v), s, Len(s), v)
<1> PICK n \in Nat : n = Len(s)
  OBVIOUS
<1>1. \E f : f = [k \in 0..Len(s) |-> IF k = 0 THEN <<>>
                    ELSE IF s[k].v > v THEN Append(f[k - 1], s[k]) ELSE f[k - 1]]
  <2>1. PICK Q : Q = Seq(S)
    OBVIOUS
  <2>2. PICK Step \in [(1..n) \X Q -> Q] :
           Step = [x \in (1..n) \X Q |-> IF s[x[1]].v > v THEN Append(x[2], s[x[1]]) ELSE x[2]]
    <3>1. \E Step : Step = [x \in (1..n) \X Q |-> IF s[x[1]].v > v THEN Append(x[2], s[x[1]]) ELSE x[2]]
      OBVIOUS
    <3>2. \A x \in (1..n) \X Q : (IF s[x[1]].v > v THEN Append(x[2], s[x[1]]) ELSE x[2]) \in Q
      BY <2>1
    <3> QED BY <3>1, <3>2
  <2>3. <<>> \in Q
    BY <2>1
  <2>4. PICK f \in [0..n -> Q] : Runs(f, n, <<>>, Step)
    BY <2>2, <2>3, Iterated
  <2>5. ASSUME NEW k \in 1..n
        PROVE  f[k] = IF s[k].v > v THEN Append(f[k - 1], s[k]) ELSE f[k - 1]
    <3>1. PICK q \in Q : q = f[k - 1]
      BY <2>4
    <3>2. Step[<<k, q>>] = IF s[k].v > v THEN Append(q, s[k]) ELSE q
      BY <2>2
    <3>3. f[k] = Step[<<k, q>>]
      BY <3>1, <2>4 DEF Runs
    <3> QED BY <3>1, <3>2, <3>3
  <2>6. \A k \in 0..n : f[k] = IF k = 0 THEN <<>>
                    ELSE IF s[k].v > v THEN Append(f[k - 1], s[k]) ELSE f[k - 1]
    <3>1. \A k \in 0..n : k = 0 \/ k \in 1..n
      OBVIOUS
    <3>2. f[0] = <<>>
      BY <2>4 DEF Runs
    <3>3. \A k \in 1..n : k # 0
      OBVIOUS
    <3> QED BY <3>1, <3>2, <3>3, <2>5, Zenon
  <2>7. f = [k \in 0..n |-> f[k]]
    BY <2>4
  <2> QED BY <2>6, <2>7
<1>2. PICK f : /\ f = [k \in 0..Len(s) |-> IF k = 0 THEN <<>>
                    ELSE IF s[k].v > v THEN Append(f[k - 1], s[k]) ELSE f[k - 1]]
               /\ Above(s, v) = f[Len(s)]
  BY <1>1, Zenon DEF Above
<1>3. /\ f[0] = <<>>
      /\ \A k \in 1..n : f[k] = IF s[k].v > v THEN Append(f[k - 1], s[k]) ELSE f[k - 1]
  <2>1. \A k \in 0..Len(s) : f[k] = IF k = 0 THEN <<>>
                    ELSE IF s[k].v > v THEN Append(f[k - 1], s[k]) ELSE f[k - 1]
    BY <1>2, Zenon
  <2>2. 0 \in 0..Len(s) /\ \A k \in 1..n : k \in 0..Len(s) /\ k # 0
    OBVIOUS
  <2> QED BY <2>1, <2>2, Zenon
<1> DEFINE Good(m) == f[m] \in Seq(S) /\ Picked(f[m], s, m, v)
<1>4. PICK T : \A m : m \in T <=> m \in Nat /\ (m <= n => Good(m))
  <2>1. \E T : T = {m \in Nat : m <= n => Good(m)}
    OBVIOUS
  <2> QED BY <2>1
<1>5. Good(0)
  <2>1. Len(f[0]) = 0 /\ f[0] \in Seq(S) /\ 1..0 = {}
    BY <1>3
  <2>2. [k \in 1..0 |-> 1] \in [1..0 -> 1..0]
    OBVIOUS
  <2> QED BY <2>1, <2>2 DEF Picked
<1>6. ASSUME NEW m \in Nat, m \in T PROVE m + 1 \in T
  <2> SUFFICES ASSUME m + 1 <= n PROVE Good(m + 1)
    BY <1>4
  <2>1. f[m] \in Seq(S)
    BY <1>4, <1>6
  <2>2. PICK at \in [1..Len(f[m]) -> 1..m] :
            /\ \A k \in 1..Len(f[m]) : f[m][k] = s[at[k]] /\ s[at[k]].v > v
            /\ \A k, l \in 1..Len(f[m]) : k < l => at[k] < at[l]
    BY <1>4, <1>6 DEF Picked
  <2>3. m + 1 \in 1..n /\ (m + 1) - 1 = m /\ s[m + 1] \in S
    OBVIOUS
  <2>4. CASE s[m + 1].v > v
    <3>1. f[m + 1] = Append(f[m], s[m + 1])
      BY <1>3, <2>3, <2>4
    <3>2. PICK g \in Seq(S) : g = f[m]
      BY <2>1
    <3>3. /\ f[m + 1] \in Seq(S) /\ Len(f[m + 1]) = Len(g) + 1
          /\ f[m + 1][Len(g) + 1] = s[m + 1]
          /\ \A k \in 1..Len(g) : f[m + 1][k] = g[k]
      BY <3>1, <3>2, <2>3
    <3>4. PICK next : next = [k \in 1..(Len(g) + 1) |-> IF k = Len(g) + 1 THEN m + 1 ELSE at[k]]
      OBVIOUS
    <3>a. PICK h \in Nat : h = Len(g)
      BY <3>2
    <3>b. at \in [1..h -> 1..m]
      BY <2>2, <3>2, <3>a
    <3>5. next \in [1..(Len(g) + 1) -> 1..(m + 1)]
      <4>1. ASSUME NEW k \in 1..(h + 1) PROVE (IF k = h + 1 THEN m + 1 ELSE at[k]) \in 1..(m + 1)
        <5>1. CASE k = h + 1
          BY <5>1
        <5>2. CASE k # h + 1
          <6>1. k \in 1..h
            BY <5>2
          <6>2. at[k] \in 1..m
            BY <3>b, <6>1
          <6> QED BY <5>2, <6>2
        <5> QED BY <5>1, <5>2
      <4> QED BY <3>4, <3>a, <4>1
    <3>6. \A k \in 1..(Len(g) + 1) : f[m + 1][k] = s[next[k]] /\ s[next[k]].v > v
      BY <3>4, <3>3, <3>2, <2>2, <2>4
    <3>7. ASSUME NEW k \in 1..(Len(g) + 1), NEW l \in 1..(Len(g) + 1), k < l
          PROVE  next[k] < next[l]
      <4>1. k \in 1..Len(g) /\ next[k] = at[k] /\ at[k] \in 1..m
        <5>1. k \in 1..h /\ k # h + 1
          BY <3>7, <3>a
        <5>2. next[k] = IF k = h + 1 THEN m + 1 ELSE at[k]
          BY <3>4, <3>a
        <5>3. at[k] \in 1..m
          BY <3>b, <5>1
        <5> QED BY <3>a, <5>1, <5>2, <5>3
      <4>2. next[l] = m + 1 \/ (l \in 1..Len(g) /\ next[l] = at[l])
        BY <3>4
      <4>3. l \in 1..Len(g) => at[k] < at[l]
        BY <4>1, <2>2, <3>2, <3>7
      <4>4. at[k] < m + 1
        BY <4>1
      <4>5. CASE next[l] = m + 1
        BY <4>1, <4>4, <4>5
      <4>6. CASE l \in 1..Len(g) /\ next[l] = at[l]
        BY <4>1, <4>3, <4>6
      <4> QED BY <4>2, <4>5, <4>6
    <3> QED BY <3>3, <3>5, <3>6, <3>7 DEF Picked
  <2>5. CASE ~(s[m + 1].v > v)
    <3>1. f[m + 1] = f[m]
      BY <1>3, <2>3, <2>5
    <3>2. at \in [1..Len(f[m]) -> 1..(m + 1)]
      BY <2>2
    <3> QED BY <3>1, <3>2, <2>1, <2>2 DEF Picked
  <2> QED BY <2>4, <2>5
<1>7. n \in T
  <2>1. 0 \in T
    BY <1>4, <1>5
  <2> QED BY <2>1, <1>6, Inductive
<1>8. Good(n)
  BY <1>4, <1>7
<1> QED BY <1>2, <1>8, Zenon

\* The counts after each output of a cell: one more step of ReadNext each.
Counted(f, produced) ==
    /\ f \in [0..Len(produced) -> [Unversioned -> Nat]] /\ f[0] = latest
    /\ \A k \in 1..Len(produced) : f[k] = [f[k - 1] EXCEPT ![produced[k]] = ReadNext(@)]

\* The counts of the version pass are what their recursion says.
LEMMA CountsAre ==
    ASSUME NEW c, c.outs \in Seq(Unversioned), latest \in [Unversioned -> Nat]
    PROVE  Counted(Counts(c), c.outs)
<1> PICK n \in Nat : n = Len(c.outs)
  OBVIOUS
<1>0. PICK U : U = [Unversioned -> Nat]
  OBVIOUS
<1>1. \E f : f = [k \in 0..Len(c.outs) |-> IF k = 0 THEN latest
                    ELSE [f[k - 1] EXCEPT ![c.outs[k]] = ReadNext(@)]]
  <2>1. PICK Step \in [(1..n) \X U -> U] :
           Step = [x \in (1..n) \X U |-> [x[2] EXCEPT ![c.outs[x[1]]] = ReadNext(@)]]
    <3>1. \E Step : Step = [x \in (1..n) \X U |-> [x[2] EXCEPT ![c.outs[x[1]]] = ReadNext(@)]]
      OBVIOUS
    <3>2. \A x \in (1..n) \X U : [x[2] EXCEPT ![c.outs[x[1]]] = ReadNext(@)] \in U
      BY <1>0 DEF ReadNext
    <3> QED BY <3>1, <3>2
  <2>2. PICK f \in [0..n -> U] : Runs(f, n, latest, Step)
    BY <2>1, <1>0, Iterated
  <2>3. ASSUME NEW k \in 1..n
        PROVE  f[k] = [f[k - 1] EXCEPT ![c.outs[k]] = ReadNext(@)]
    <3>0. k - 1 \in 0..n
      OBVIOUS
    <3>1. PICK q \in U : q = f[k - 1]
      BY <2>2, <3>0
    <3>2. Step[<<k, q>>] = [q EXCEPT ![c.outs[k]] = ReadNext(@)]
      BY <2>1
    <3>3. f[k] = Step[<<k, q>>]
      BY <3>1, <2>2 DEF Runs
    <3> QED BY <3>1, <3>2, <3>3
  <2>4. \A k \in 0..n : f[k] = IF k = 0 THEN latest
                    ELSE [f[k - 1] EXCEPT ![c.outs[k]] = ReadNext(@)]
    <3>1. \A k \in 0..n : k = 0 \/ k \in 1..n
      OBVIOUS
    <3>2. f[0] = latest
      BY <2>2 DEF Runs
    <3>3. \A k \in 1..n : k # 0
      OBVIOUS
    <3> QED BY <3>1, <3>2, <3>3, <2>3, Zenon
  <2>5. PICK h : h = [k \in 0..Len(c.outs) |-> IF k = 0 THEN latest
                    ELSE [f[k - 1] EXCEPT ![c.outs[k]] = ReadNext(@)]]
    OBVIOUS
  <2>6. \A k \in 0..n : f[k] = h[k]
    BY <2>4, <2>5, Zenon
  <2>7. f = h
    <3>1. h = [k \in 0..n |-> h[k]]
      BY <2>5, Zenon
    <3>2. f = [k \in 0..n |-> f[k]]
      BY <2>2
    <3> QED BY <3>1, <3>2, <2>6
  <2> QED BY <2>5, <2>7, Zenon
<1>2. PICK f : /\ f = [k \in 0..Len(c.outs) |-> IF k = 0 THEN latest
                    ELSE [f[k - 1] EXCEPT ![c.outs[k]] = ReadNext(@)]]
               /\ Counts(c) = f
  BY <1>1, Zenon DEF Counts
<1>3. /\ f[0] = latest
      /\ \A k \in 1..n : f[k] = [f[k - 1] EXCEPT ![c.outs[k]] = ReadNext(@)]
  <2>1. \A k \in 0..Len(c.outs) : f[k] = IF k = 0 THEN latest
                    ELSE [f[k - 1] EXCEPT ![c.outs[k]] = ReadNext(@)]
    BY <1>2, Zenon
  <2>2. 0 \in 0..Len(c.outs) /\ \A k \in 1..n : k \in 0..Len(c.outs) /\ k # 0
    OBVIOUS
  <2> QED BY <2>1, <2>2, Zenon
<1>4. PICK T : \A m : m \in T <=> m \in Nat /\ (m <= n => f[m] \in U)
  <2>1. \E T : T = {m \in Nat : m <= n => f[m] \in U}
    OBVIOUS
  <2> QED BY <2>1
<1>5. 0 \in T
  BY <1>0, <1>3, <1>4
<1>6. ASSUME NEW m \in Nat, m \in T PROVE m + 1 \in T
  <2> SUFFICES ASSUME m + 1 <= n PROVE f[m + 1] \in U
    BY <1>4
  <2>1. PICK q \in U : q = f[m]
    BY <1>4, <1>6
  <2>2. m + 1 \in 1..n /\ (m + 1) - 1 = m
    OBVIOUS
  <2>3. f[m + 1] = [q EXCEPT ![c.outs[m + 1]] = ReadNext(@)]
    BY <1>3, <2>1, <2>2
  <2>4. \A x \in Unversioned : q[x] \in Nat /\ ReadNext(q[x]) \in Nat
    <3>1. \A x \in Unversioned : q[x] \in Nat
      BY <1>0
    <3> QED BY <3>1 DEF ReadNext
  <2>5. q \in [Unversioned -> Nat]
    BY <1>0
  <2>6. [q EXCEPT ![c.outs[m + 1]] = ReadNext(@)] \in [Unversioned -> Nat]
    BY <2>4, <2>5
  <2> QED BY <1>0, <2>3, <2>6, Zenon
<1>7. \A m \in 0..n : f[m] \in U
  <2>1. Nat \subseteq T
    BY <1>5, <1>6, Inductive
  <2>2. \A m \in 0..n : m \in Nat /\ m <= n
    OBVIOUS
  <2> QED BY <2>1, <2>2, <1>4, Zenon
<1>8. f = [k \in 0..n |-> f[k]]
  BY <1>2
<1>9. f \in [0..n -> U]
  BY <1>7, <1>8
<1> QED BY <1>0, <1>2, <1>3, <1>9 DEF Counted

\* Counts never fall, and rise with each output.
LEMMA CountsGrow ==
    ASSUME NEW produced \in Seq(Unversioned), NEW f, Counted(f, produced)
    PROVE  /\ \A k \in 1..Len(produced) : f[k - 1][produced[k]] + 1 <= f[k][produced[k]]
           /\ \A k, l \in 0..Len(produced) : k <= l => \A x \in Unversioned : f[k][x] <= f[l][x]
<1> PICK n \in Nat : n = Len(produced)
  OBVIOUS
<1>1. \A k \in 0..n : f[k] \in [Unversioned -> Nat]
  BY DEF Counted
<1>2. ASSUME NEW k \in 1..n
      PROVE  /\ f[k - 1][produced[k]] + 1 <= f[k][produced[k]]
             /\ \A x \in Unversioned : f[k - 1][x] <= f[k][x]
  <2>1. PICK g \in [Unversioned -> Nat] : g = f[k - 1]
    BY <1>1
  <2>2. f[k] = [g EXCEPT ![produced[k]] = ReadNext(g[produced[k]])]
    BY <2>1 DEF Counted
  <2>3. produced[k] \in Unversioned
    OBVIOUS
  <2> QED BY <2>1, <2>2, <2>3 DEF ReadNext
<1>3. ASSUME NEW k \in 0..n, NEW x \in Unversioned
      PROVE  \A l \in k..n : f[k][x] <= f[l][x]
  <2>1. PICK T : \A m : m \in T <=> m \in Nat /\ (k + m <= n => f[k][x] <= f[k + m][x])
    <3>1. \E T : T = {m \in Nat : k + m <= n => f[k][x] <= f[k + m][x]}
      OBVIOUS
    <3> QED BY <3>1
  <2>2. 0 \in T
    BY <1>1, <2>1
  <2>3. ASSUME NEW m \in Nat, m \in T PROVE m + 1 \in T
    <3> SUFFICES ASSUME k + (m + 1) <= n PROVE f[k][x] <= f[k + (m + 1)][x]
      BY <2>1
    <3>1. f[k][x] <= f[k + m][x]
      BY <2>1, <2>3
    <3>2. PICK j \in 1..n : j = k + (m + 1)
      OBVIOUS
    <3>3. f[j - 1][x] <= f[j][x] /\ j - 1 = k + m
      BY <1>2, <3>2
    <3>4. f[k][x] \in Nat /\ f[j - 1][x] \in Nat /\ f[j][x] \in Nat
      <4>1. k \in 0..n /\ j - 1 \in 0..n /\ j \in 0..n
        OBVIOUS
      <4> QED BY <1>1, <4>1
    <3> QED BY <3>1, <3>2, <3>3, <3>4
  <2>4. ASSUME NEW l \in k..n PROVE f[k][x] <= f[l][x]
    <3>1. l - k \in Nat /\ k + (l - k) = l /\ l - k \in T
      BY <2>2, <2>3, Inductive
    <3> QED BY <3>1, <2>1
  <2> QED BY <2>4
<1> QED BY <1>2, <1>3


\* A count that is 0 or odd stays so.
LEMMA CountsOdd ==
    ASSUME NEW produced \in Seq(Unversioned), NEW f, Counted(f, produced), NEW x \in Unversioned,
           latest[x] = 0 \/ Odd(latest[x])
    PROVE  \A k \in 0..Len(produced) : f[k][x] = 0 \/ Odd(f[k][x])
<1> PICK n \in Nat : n = Len(produced)
  OBVIOUS
<1>1. PICK T : \A m : m \in T <=> m \in Nat /\ (m <= n => f[m][x] = 0 \/ Odd(f[m][x]))
  <2>1. \E T : T = {m \in Nat : m <= n => f[m][x] = 0 \/ Odd(f[m][x])}
    OBVIOUS
  <2> QED BY <2>1
<1>2. 0 \in T
  BY <1>1 DEF Counted
<1>3. ASSUME NEW m \in Nat, m \in T PROVE m + 1 \in T
  <2> SUFFICES ASSUME m + 1 <= n PROVE f[m + 1][x] = 0 \/ Odd(f[m + 1][x])
    BY <1>1
  <2>1. PICK g \in [Unversioned -> Nat] : g = f[m]
    <3>1. m \in 0..Len(produced)
      OBVIOUS
    <3> QED BY <3>1 DEF Counted
  <2>2. m + 1 \in 1..n /\ (m + 1) - 1 = m
    OBVIOUS
  <2>3. f[m + 1] = [g EXCEPT ![produced[m + 1]] = ReadNext(g[produced[m + 1]])]
    BY <2>1, <2>2 DEF Counted
  <2>4. g[x] = 0 \/ Odd(g[x])
    BY <2>1, <1>1, <1>3
  <2>5. g[x] \in Nat /\ (f[m + 1][x] = g[x] \/ f[m + 1][x] = ReadNext(g[x]))
    BY <2>3
  <2>6. g[x] = 0 => Odd(ReadNext(g[x]))
    BY DEF ReadNext, Odd
  <2>7. g[x] # 0 /\ Odd(g[x]) => Odd(ReadNext(g[x]))
    BY <2>5 DEF ReadNext, Odd
  <2> QED BY <2>4, <2>5, <2>6, <2>7
<1> QED BY <1>1, <1>2, <1>3, Inductive

\* What is registered for w when cell c has been seen: what was, or what c says.
RegisteredFor(a, c, w) ==
    \A k \in 1..Len(a) : \/ a[k] \in Range(grads[w])
                         \/ \E n \in 1..Len(c.regs) : c.regs[n] = <<w, a[k]>>

\* A weight's gradients grow by what the cell says of that weight.
LEMMA RegisteredAre ==
    ASSUME grads \in [WeightIds -> Seq(Ids)], NEW c, c.regs \in Seq(WeightIds \X Ids),
           NEW w \in WeightIds
    PROVE  Registered(c, w) \in Seq(Ids) /\ RegisteredFor(Registered(c, w), c, w)
<1> PICK n \in Nat : n = Len(c.regs)
  OBVIOUS
<1>0. PICK Q : Q = Seq(Ids)
  OBVIOUS
<1>1. \A k \in 1..n : c.regs[k] \in WeightIds \X Ids
  OBVIOUS
<1>2. \E f : f = [k \in 0..Len(c.regs) |-> IF k = 0 THEN grads[w]
                    ELSE IF c.regs[k][1] # w \/ Contains(f[k - 1], c.regs[k][2]) THEN f[k - 1]
                    ELSE Append(f[k - 1], c.regs[k][2])]
  <2>1. PICK Step \in [(1..n) \X Q -> Q] :
           Step = [x \in (1..n) \X Q |->
                     IF c.regs[x[1]][1] # w \/ Contains(x[2], c.regs[x[1]][2]) THEN x[2]
                     ELSE Append(x[2], c.regs[x[1]][2])]
    <3>1. \E Step : Step = [x \in (1..n) \X Q |->
                     IF c.regs[x[1]][1] # w \/ Contains(x[2], c.regs[x[1]][2]) THEN x[2]
                     ELSE Append(x[2], c.regs[x[1]][2])]
      OBVIOUS
    <3>2. \A x \in (1..n) \X Q :
             (IF c.regs[x[1]][1] # w \/ Contains(x[2], c.regs[x[1]][2]) THEN x[2]
                     ELSE Append(x[2], c.regs[x[1]][2])) \in Q
      BY <1>0, <1>1
    <3> QED BY <3>1, <3>2
  <2>2. PICK f \in [0..n -> Q] : Runs(f, n, grads[w], Step)
    <3>1. grads[w] \in Q
      BY <1>0
    <3> QED BY <2>1, <3>1, Iterated
  <2>3. ASSUME NEW k \in 1..n
        PROVE  f[k] = IF c.regs[k][1] # w \/ Contains(f[k - 1], c.regs[k][2]) THEN f[k - 1]
                      ELSE Append(f[k - 1], c.regs[k][2])
    <3>0. k - 1 \in 0..n
      OBVIOUS
    <3>1. PICK q \in Q : q = f[k - 1]
      BY <2>2, <3>0
    <3>2. Step[<<k, q>>] = IF c.regs[k][1] # w \/ Contains(q, c.regs[k][2]) THEN q
                           ELSE Append(q, c.regs[k][2])
      BY <2>1
    <3>3. f[k] = Step[<<k, q>>]
      BY <3>1, <2>2 DEF Runs
    <3> QED BY <3>1, <3>2, <3>3, Zenon
  <2>4. \A k \in 0..n : f[k] = IF k = 0 THEN grads[w]
                    ELSE IF c.regs[k][1] # w \/ Contains(f[k - 1], c.regs[k][2]) THEN f[k - 1]
                    ELSE Append(f[k - 1], c.regs[k][2])
    <3>1. \A k \in 0..n : k = 0 \/ k \in 1..n
      OBVIOUS
    <3>2. f[0] = grads[w]
      BY <2>2 DEF Runs
    <3>3. \A k \in 1..n : k # 0
      OBVIOUS
    <3> QED BY <3>1, <3>2, <3>3, <2>3, Zenon
  <2>5. PICK h : h = [k \in 0..Len(c.regs) |-> IF k = 0 THEN grads[w]
                    ELSE IF c.regs[k][1] # w \/ Contains(f[k - 1], c.regs[k][2]) THEN f[k - 1]
                    ELSE Append(f[k - 1], c.regs[k][2])]
    OBVIOUS
  <2>6. \A k \in 0..n : f[k] = h[k]
    BY <2>4, <2>5, Zenon
  <2>7. f = h
    <3>1. h = [k \in 0..n |-> h[k]]
      BY <2>5, Zenon
    <3>2. f = [k \in 0..n |-> f[k]]
      BY <2>2
    <3> QED BY <3>1, <3>2, <2>6
  <2> QED BY <2>5, <2>7, Zenon
<1>3. PICK f : /\ f = [k \in 0..Len(c.regs) |-> IF k = 0 THEN grads[w]
                    ELSE IF c.regs[k][1] # w \/ Contains(f[k - 1], c.regs[k][2]) THEN f[k - 1]
                    ELSE Append(f[k - 1], c.regs[k][2])]
               /\ Registered(c, w) = f[Len(c.regs)]
  BY <1>2, Zenon DEF Registered
<1>4. /\ f[0] = grads[w]
      /\ \A k \in 1..n : f[k] = IF c.regs[k][1] # w \/ Contains(f[k - 1], c.regs[k][2]) THEN f[k - 1]
                                ELSE Append(f[k - 1], c.regs[k][2])
  <2>1. \A k \in 0..Len(c.regs) : f[k] = IF k = 0 THEN grads[w]
                    ELSE IF c.regs[k][1] # w \/ Contains(f[k - 1], c.regs[k][2]) THEN f[k - 1]
                    ELSE Append(f[k - 1], c.regs[k][2])
    BY <1>3, Zenon
  <2>2. 0 \in 0..Len(c.regs) /\ \A k \in 1..n : k \in 0..Len(c.regs) /\ k # 0
    OBVIOUS
  <2> QED BY <2>1, <2>2, Zenon
<1> DEFINE Good(m) == f[m] \in Q /\ RegisteredFor(f[m], c, w)
<1>5. PICK T : \A m : m \in T <=> m \in Nat /\ (m <= n => Good(m))
  <2>1. \E T : T = {m \in Nat : m <= n => Good(m)}
    OBVIOUS
  <2> QED BY <2>1
<1>6. Good(0)
  BY <1>0, <1>4 DEF RegisteredFor, Range
<1>7. ASSUME NEW m \in Nat, m \in T PROVE m + 1 \in T
  <2> SUFFICES ASSUME m + 1 <= n PROVE Good(m + 1)
    BY <1>5
  <2>1. PICK q \in Seq(Ids) : q = f[m] /\ RegisteredFor(q, c, w)
    BY <1>0, <1>5, <1>7
  <2>2. m + 1 \in 1..n /\ (m + 1) - 1 = m
    OBVIOUS
  <2>3. PICK x \in WeightIds \X Ids : x = c.regs[m + 1]
    BY <1>1, <2>2
  <2>4. \/ f[m + 1] = q
        \/ x[1] = w /\ f[m + 1] = Append(q, x[2])
    BY <1>4, <2>1, <2>2, <2>3
  <2>5. CASE f[m + 1] = q
    BY <2>1, <2>5, <1>0
  <2>6. CASE x[1] = w /\ f[m + 1] = Append(q, x[2])
    <3>0. x[2] \in Ids
      BY <2>3
    <3>1. PICK a \in Seq(Ids) : a = f[m + 1] /\ a = Append(q, x[2])
      <4>1. PICK g \in Ids : g = x[2]
        BY <3>0
      <4>2. Append(q, g) \in Seq(Ids)
        OBVIOUS
      <4> QED BY <2>6, <4>1, <4>2, Zenon
    <3>2. Len(a) = Len(q) + 1 /\ a[Len(q) + 1] = x[2] /\ \A k \in 1..Len(q) : a[k] = q[k]
      BY <3>1
    <3>3. c.regs[m + 1] = <<w, a[Len(q) + 1]>>
      BY <2>3, <2>6, <3>2
    <3>4. ASSUME NEW k \in 1..Len(a)
          PROVE  a[k] \in Range(grads[w]) \/ \E l \in 1..Len(c.regs) : c.regs[l] = <<w, a[k]>>
      <4>1. k = Len(q) + 1 \/ k \in 1..Len(q)
        BY <3>2
      <4>2. CASE k = Len(q) + 1
        BY <3>3, <4>2, <2>2
      <4>3. CASE k \in 1..Len(q)
        <5>1. a[k] = q[k]
          BY <3>2, <4>3
        <5> QED BY <5>1, <2>1, <4>3, Zenon DEF RegisteredFor
      <4> QED BY <4>1, <4>2, <4>3
    <3>5. RegisteredFor(a, c, w)
      BY <3>4, Zenon DEF RegisteredFor
    <3> QED BY <3>1, <3>5, <1>0
  <2> QED BY <2>4, <2>5, <2>6
<1>8. n \in T
  <2>1. 0 \in T
    BY <1>5, <1>6
  <2> QED BY <2>1, <1>7, Inductive
<1>9. Good(n)
  BY <1>5, <1>8
<1> QED BY <1>0, <1>3, <1>9, Zenon

(***************************************************************************)
(* What lists of cells put out.                                            *)
(***************************************************************************)
\* The outputs of a list, by their places.
LEMMA OutputsAre ==
    ASSUME NEW list, NEW n, NEW x
    PROVE  x \in Outputs(list, n) <=> \E k \in 1..n : \E j \in DOMAIN list[k].outs : x = list[k].outs[j]
BY DEF Outputs, Range

\* The output at a place is an output.
LEMMA OutputAt ==
    ASSUME NEW list, NEW n, NEW k \in 1..n, NEW j \in DOMAIN list[k].outs
    PROVE  list[k].outs[j] \in Outputs(list, n)
BY OutputsAre

\* One more cell adds its outputs.
LEMMA OneMoreCell ==
    ASSUME NEW list, NEW n \in Nat
    PROVE  Outputs(list, n + 1) = Outputs(list, n) \cup Range(list[n + 1].outs)
<1>1. \A k : k \in 1..(n + 1) <=> k \in 1..n \/ k = n + 1
  OBVIOUS
<1> QED BY <1>1 DEF Outputs

\* Outputs are tensors.
LEMMA OutputsTyped ==
    ASSUME NEW list \in Seq(Cell), NEW n \in 0..Len(list), NEW x \in Outputs(list, n)
    PROVE  x \in Tensor
<1>1. PICK k \in 1..n : \E j \in DOMAIN list[k].outs : x = list[k].outs[j]
  BY OutputsAre
<1>2. list[k] \in Cell
  OBVIOUS
<1>3. list[k].outs \in Seq(Tensor)
  BY <1>2 DEF Cell
<1> QED BY <1>1, <1>3

\* Where the elements of two sequences are in their concatenation.
LEMMA Joined ==
    ASSUME NEW S, NEW a \in Seq(S), NEW b \in Seq(S)
    PROVE  /\ a \o b \in Seq(S) /\ Len(a \o b) = Len(a) + Len(b)
           /\ \A k \in 1..Len(a) : (a \o b)[k] = a[k]
           /\ \A k \in 1..Len(b) : (a \o b)[Len(a) + k] = b[k]
           /\ \A k \in 1..(Len(a) + Len(b)) : k \in 1..Len(a) \/ \E j \in 1..Len(b) : k = Len(a) + j
<1>1. \A k \in 1..(Len(a) + Len(b)) : k \notin 1..Len(a) => k - Len(a) \in 1..Len(b) /\ k = Len(a) + (k - Len(a))
  OBVIOUS
<1>2. \A k \in 1..(Len(a) + Len(b)) : k \in 1..Len(a) \/ \E j \in 1..Len(b) : k = Len(a) + j
  BY <1>1
<1>3. /\ a \o b \in Seq(S) /\ Len(a \o b) = Len(a) + Len(b)
      /\ \A k \in 1..Len(a) : (a \o b)[k] = a[k]
      /\ \A k \in 1..Len(b) : (a \o b)[Len(a) + k] = b[k]
  OBVIOUS
<1> QED BY <1>2, <1>3

\* Two lists put out, together, what each puts out.
LEMMA OutputsJoined ==
    ASSUME NEW a \in Seq(Cell), NEW b \in Seq(Cell)
    PROVE  \A x : x \in Outputs(a \o b, Len(a \o b)) <=>
                     x \in Outputs(a, Len(a)) \/ x \in Outputs(b, Len(b))
<1> PICK n \in Nat, m \in Nat : n = Len(a) /\ m = Len(b)
  OBVIOUS
<1> PICK c : c = a \o b
  OBVIOUS
<1>1. /\ Len(c) = n + m /\ \A k \in 1..n : c[k] = a[k]
      /\ \A k \in 1..m : c[n + k] = b[k]
      /\ \A k \in 1..(n + m) : k \in 1..n \/ \E j \in 1..m : k = n + j
  BY Joined
<1>2. \A k \in 1..n : k \in 1..(n + m)
  OBVIOUS
<1>3. \A k \in 1..m : n + k \in 1..(n + m)
  OBVIOUS
<1> TAKE x
<1>4. x \in Outputs(c, n + m) => x \in Outputs(a, n) \/ x \in Outputs(b, m)
  <2> SUFFICES ASSUME x \in Outputs(c, n + m) PROVE x \in Outputs(a, n) \/ x \in Outputs(b, m)
    OBVIOUS
  <2>1. PICK k \in 1..(n + m) : x \in Range(c[k].outs)
    BY DEF Outputs
  <2>2. CASE k \in 1..n
    BY <2>1, <2>2, <1>1 DEF Outputs
  <2>3. CASE \E j \in 1..m : k = n + j
    BY <2>1, <2>3, <1>1 DEF Outputs
  <2> QED BY <1>1, <2>2, <2>3
<1>5. x \in Outputs(a, n) => x \in Outputs(c, n + m)
  <2> SUFFICES ASSUME x \in Outputs(a, n) PROVE x \in Outputs(c, n + m)
    OBVIOUS
  <2>1. PICK k \in 1..n : x \in Range(a[k].outs)
    BY DEF Outputs
  <2> QED BY <2>1, <1>1, <1>2 DEF Outputs
<1>6. x \in Outputs(b, m) => x \in Outputs(c, n + m)
  <2> SUFFICES ASSUME x \in Outputs(b, m) PROVE x \in Outputs(c, n + m)
    OBVIOUS
  <2>1. PICK k \in 1..m : x \in Range(b[k].outs)
    BY DEF Outputs
  <2> QED BY <2>1, <1>1, <1>3 DEF Outputs
<1> QED BY <1>1, <1>4, <1>5, <1>6

\* Once, used at two places.
LEMMA OnceMeans ==
    ASSUME NEW c, Once(c), NEW p \in 1..Len(c), NEW q \in 1..Len(c),
           NEW j \in 1..Len(c[p].outs), NEW l \in 1..Len(c[q].outs),
           ~c[p].outs[j].fly, c[p].outs[j] = c[q].outs[l]
    PROVE  p = q /\ j = l
BY Zenon DEF Once

\* Once, from two places.
LEMMA OnceIf ==
    ASSUME NEW c,
           ASSUME NEW p \in 1..Len(c), NEW q \in 1..Len(c),
                  NEW j \in 1..Len(c[p].outs), NEW l \in 1..Len(c[q].outs),
                  ~c[p].outs[j].fly, c[p].outs[j] = c[q].outs[l]
           PROVE  p = q /\ j = l
    PROVE  Once(c)
BY DEF Once

\* Two lists that share no output but in flight put out each tensor once; the
\* concatenation is given by its elements.
LEMMA OnceOf ==
    ASSUME NEW a \in Seq(Cell), NEW b \in Seq(Cell), Once(a), Once(b),
           \A x : x \in Outputs(a, Len(a)) /\ x \in Outputs(b, Len(b)) => x.fly,
           NEW c, Len(c) = Len(a) + Len(b),
           \A k \in 1..Len(a) : c[k] = a[k],
           \A k \in 1..Len(b) : c[Len(a) + k] = b[k],
           \A k \in 1..(Len(a) + Len(b)) : k \in 1..Len(a) \/ \E j \in 1..Len(b) : k = Len(a) + j
    PROVE  Once(c)
<1> PICK n \in Nat, m \in Nat : n = Len(a) /\ m = Len(b)
  OBVIOUS
<1>1. /\ Len(c) = n + m /\ \A k \in 1..n : c[k] = a[k]
      /\ \A k \in 1..m : c[n + k] = b[k]
      /\ \A k \in 1..(n + m) : k \in 1..n \/ \E j \in 1..m : k = n + j
  OBVIOUS
<1>2. ASSUME NEW p \in 1..Len(c), NEW q \in 1..Len(c), NEW j \in 1..Len(c[p].outs), NEW l \in 1..Len(c[q].outs),
             ~c[p].outs[j].fly, c[p].outs[j] = c[q].outs[l]
      PROVE  p = q /\ j = l
  <2>1. CASE p \in 1..n /\ q \in 1..n
    BY <1>1, <1>2, <2>1 DEF Once
  <2>2. ASSUME NEW p1 \in 1..m, NEW q1 \in 1..m, p = n + p1, q = n + q1 PROVE p = q /\ j = l
    <3>1. c[p] = b[p1] /\ c[q] = b[q1]
      BY <1>1, <2>2
    <3>2. p1 \in 1..Len(b) /\ q1 \in 1..Len(b)
      OBVIOUS
    <3>3. /\ j \in 1..Len(b[p1].outs) /\ l \in 1..Len(b[q1].outs)
          /\ ~b[p1].outs[j].fly /\ b[p1].outs[j] = b[q1].outs[l]
      BY <3>1, <1>2
    <3>4. p1 = q1 /\ j = l
      BY <3>2, <3>3 DEF Once
    <3> QED BY <3>4, <2>2
  <2>3. ASSUME NEW k1 \in 1..n, NEW k2 \in 1..m,
               NEW j1 \in 1..Len(a[k1].outs), NEW j2 \in 1..Len(b[k2].outs),
               a[k1].outs[j1] = b[k2].outs[j2]
        PROVE  a[k1].outs[j1].fly
    <3>0. a[k1].outs \in Seq(Tensor) /\ b[k2].outs \in Seq(Tensor)
      <4>1. a[k1] \in Cell /\ b[k2] \in Cell
        OBVIOUS
      <4> QED BY <4>1 DEF Cell
    <3>d. j1 \in DOMAIN a[k1].outs /\ j2 \in DOMAIN b[k2].outs
      <4>1. DOMAIN a[k1].outs = 1..Len(a[k1].outs)
        BY <3>0
      <4>2. DOMAIN b[k2].outs = 1..Len(b[k2].outs)
        BY <3>0
      <4> QED BY <4>1, <4>2, Zenon
    <3>1. a[k1].outs[j1] \in Outputs(a, n)
      BY <3>d, OutputAt, Zenon
    <3>2. b[k2].outs[j2] \in Outputs(b, m)
      BY <3>d, OutputAt, Zenon
    <3> QED BY <3>1, <3>2, <2>3
  <2>4. ASSUME p \in 1..n, NEW q1 \in 1..m, q = n + q1 PROVE FALSE
    <3>1. c[p] = a[p] /\ c[q] = b[q1]
      BY <1>1, <2>4
    <3> QED BY <3>1, <1>2, <2>3, <2>4
  <2>5. ASSUME q \in 1..n, NEW p1 \in 1..m, p = n + p1 PROVE FALSE
    <3>1. c[q] = a[q] /\ c[p] = b[p1]
      BY <1>1, <2>5
    <3> QED BY <3>1, <1>2, <2>3, <2>5
  <2>6. p \in 1..n \/ \E p1 \in 1..m : p = n + p1
    BY <1>1, Zenon
  <2>7. q \in 1..n \/ \E q1 \in 1..m : q = n + q1
    BY <1>1, Zenon
  <2>8. CASE p \in 1..n
    BY <2>8, <2>7, <2>1, <2>4, Zenon
  <2>9. CASE \E p1 \in 1..m : p = n + p1
    BY <2>9, <2>7, <2>2, <2>5, Zenon
  <2> QED BY <2>6, <2>8, <2>9
<1> QED BY <1>2, OnceIf, Zenon

\* The same, of the concatenation itself.
LEMMA OnceJoined ==
    ASSUME NEW a \in Seq(Cell), NEW b \in Seq(Cell), Once(a), Once(b),
           \A x : x \in Outputs(a, Len(a)) /\ x \in Outputs(b, Len(b)) => x.fly
    PROVE  Once(a \o b)
<1> PICK c : c = a \o b
  OBVIOUS
<1>1. /\ Len(c) = Len(a) + Len(b)
      /\ \A k \in 1..Len(a) : c[k] = a[k]
      /\ \A k \in 1..Len(b) : c[Len(a) + k] = b[k]
      /\ \A k \in 1..(Len(a) + Len(b)) : k \in 1..Len(a) \/ \E j \in 1..Len(b) : k = Len(a) + j
  BY Joined
<1>2. Once(c)
  BY <1>1, OnceOf, Zenon
<1> QED BY <1>2, Zenon

\* The cell of a list that comes next puts out nothing that cells before it did.
LEMMA NextIsNew ==
    ASSUME NEW list \in Seq(Cell), Once(list), NEW n \in 1..Len(list)
    PROVE  /\ \A j \in 1..Len(list[n].outs) :
                ~list[n].outs[j].fly => list[n].outs[j] \notin Outputs(list, n - 1)
           /\ Once(<<list[n]>>)
<1>0. \A k \in 1..Len(list) : list[k].outs \in Seq(Tensor)
  <2>1. \A k \in 1..Len(list) : list[k] \in Cell
    OBVIOUS
  <2> QED BY <2>1 DEF Cell
<1>1. ASSUME NEW j \in 1..Len(list[n].outs), ~list[n].outs[j].fly, list[n].outs[j] \in Outputs(list, n - 1)
      PROVE  FALSE
  <2>1. PICK k \in 1..(n - 1) : \E l \in DOMAIN list[k].outs : list[n].outs[j] = list[k].outs[l]
    BY <1>1, OutputsAre
  <2>2. k \in 1..Len(list) /\ k # n /\ DOMAIN list[k].outs = 1..Len(list[k].outs)
    BY <1>0
  <2> QED BY <1>1, <2>1, <2>2 DEF Once
<1>2. Once(<<list[n]>>)
  <2>1. Len(<<list[n]>>) = 1 /\ <<list[n]>>[1] = list[n]
    OBVIOUS
  <2>2. \A j, l \in 1..Len(list[n].outs) : ~list[n].outs[j].fly /\ list[n].outs[j] = list[n].outs[l] => j = l
    BY DEF Once
  <2> QED BY <2>1, <2>2 DEF Once
<1> QED BY <1>1, <1>2

\* What an action of a pass does to the lists.
LEMMA Emitted ==
    ASSUME DataflowTypeOK, i <= Len(cells), NEW new \in Seq(Cell), Emit(new)
    PROVE  /\ ret' = ret \o new /\ ret' \in Seq(Cell) /\ i' = i + 1 /\ i' \in 1..(Len(cells') + 1)
           /\ UNCHANGED <<prog, pass, cells, raised>>
           /\ i \in 1..Len(cells) /\ cells[i] \in Cell /\ ret \in Seq(Cell)
           /\ Len(ret') = Len(ret) + Len(new)
           /\ \A k \in 1..Len(ret) : ret'[k] = ret[k]
           /\ \A k \in 1..Len(new) : ret'[Len(ret) + k] = new[k]
           /\ \A k \in 1..(Len(ret) + Len(new)) : k \in 1..Len(ret) \/ \E j \in 1..Len(new) : k = Len(ret) + j
<1>1. ret \in Seq(Cell) /\ cells \in Seq(Cell) /\ i \in 1..(Len(cells) + 1)
  BY DEF DataflowTypeOK
<1>2. ret' = ret \o new /\ i' = i + 1 /\ UNCHANGED <<prog, pass, cells, raised>>
  BY DEF Emit
<1>3. ret \o new \in Seq(Cell)
  BY <1>1
<1>4. i \in 1..Len(cells)
  BY <1>1
<1>5. PICK c : c = ret \o new
  OBVIOUS
<1>6. /\ Len(c) = Len(ret) + Len(new)
      /\ \A k \in 1..Len(ret) : c[k] = ret[k]
      /\ \A k \in 1..Len(new) : c[Len(ret) + k] = new[k]
      /\ \A k \in 1..(Len(ret) + Len(new)) : k \in 1..Len(ret) \/ \E j \in 1..Len(new) : k = Len(ret) + j
  BY <1>1, <1>5, Joined
<1>7. ret' = c
  BY <1>2, <1>5, Zenon
<1>8. /\ i' \in 1..(Len(cells') + 1) /\ cells[i] \in Cell
  BY <1>1, <1>2, <1>4
<1>9. ret' \in Seq(Cell)
  BY <1>2, <1>3, Zenon
<1> QED BY <1>1, <1>2, <1>4, <1>6, <1>7, <1>8, <1>9, Zenon

\* The number of each pass.
LEMMA PassIs ==
    ASSUME DataflowTypeOK
    PROVE  /\ At("dataflow") => pass = 1
           /\ At("filter") => pass = 2
           /\ At("version") => pass = 3
           /\ At("accum") => pass = 4
           /\ At("reduce") => pass = 5
           /\ At("bypass") => pass = 6
           /\ Len(Passes) = 7
           /\ Finished => pass = 7
BY DEF DataflowTypeOK, At, Passes, Finished

\* The types of the cell that is read.
LEMMA CellIs ==
    ASSUME DataflowTypeOK, i <= Len(cells)
    PROVE  /\ i \in 1..Len(cells) /\ cells[i] \in Cell
           /\ cells[i].op \in Ops /\ cells[i].ins \in Seq(Tensor) /\ cells[i].outs \in Seq(Tensor)
           /\ cells[i].regs \in Seq(WeightIds \X Ids)
<1>1. cells \in Seq(Cell) /\ i \in 1..Len(cells)
  BY DEF DataflowTypeOK
<1>2. cells[i] \in Cell
  BY <1>1
<1> QED BY <1>1, <1>2 DEF Cell

\* A bounded set of numbers has a largest one.
LEMMA Largest ==
    ASSUME NEW T \in SUBSET Nat, T # {}, NEW b \in Nat, \A y \in T : y <= b
    PROVE  Max(T) \in T /\ \A y \in T : y <= Max(T)
<1>1. PICK U \in SUBSET Nat : \A x : x \in U <=> x \in Nat /\ \A y \in T : y <= x
  <2>1. \E U : U = {x \in Nat : \A y \in T : y <= x}
    OBVIOUS
  <2> QED BY <2>1
<1>2. U # {}
  BY <1>1
<1>3. PICK u \in U : \A x \in U : ~(x < u)
  BY <1>2, LeastNumber
<1>4. u \in T
  <2> SUFFICES ASSUME u \notin T PROVE FALSE
    OBVIOUS
  <2>1. \A y \in T : y \in Nat /\ y <= u /\ y # u
    BY <1>1, <1>3
  <2>2. PICK y \in T : TRUE
    OBVIOUS
  <2>3. u \in Nat /\ u # 0
    BY <1>1, <1>3, <2>1, <2>2
  <2>4. u - 1 \in U
    BY <2>1, <2>3, <1>1
  <2> QED BY <2>3, <2>4, <1>3
<1>5. \E x \in T : \A y \in T : x >= y
  BY <1>1, <1>4
<1>6. Max(T) \in T /\ \A y \in T : Max(T) >= y
  BY <1>5, Zenon DEF Max
<1> QED BY <1>6

\* The versions in a sequence of tensors are bounded.
AtMost(s, m, b) == \A k \in 1..m : s[k].v <= b

\* The versions in a sequence of tensors are bounded.
LEMMA Bounded ==
    ASSUME NEW s \in Seq(Tensor)
    PROVE  \E b \in Nat : AtMost(s, Len(s), b)
<1> PICK n \in Nat : n = Len(s)
  OBVIOUS
<1>0. \A k \in 1..n : s[k].v \in Nat
  <2>1. \A k \in 1..n : s[k] \in Tensor
    OBVIOUS
  <2> QED BY <2>1 DEF Tensor
<1>1. \E T : T = {m \in Nat : m <= n => \E b \in Nat : AtMost(s, m, b)}
  OBVIOUS
<1>2. PICK T : \A m : m \in T <=> m \in Nat /\ (m <= n => \E b \in Nat : AtMost(s, m, b))
  BY <1>1, Zenon
<1>3. 0 \in T
  <2>1. AtMost(s, 0, 0)
    BY DEF AtMost
  <2> QED BY <2>1, <1>2
<1>4. ASSUME NEW m \in Nat, m \in T PROVE m + 1 \in T
  <2> SUFFICES ASSUME m + 1 <= n PROVE \E b \in Nat : AtMost(s, m + 1, b)
    BY <1>2
  <2>1. m <= n /\ m + 1 \in 1..n
    OBVIOUS
  <2>2. PICK a \in Nat : AtMost(s, m, a)
    BY <1>2, <1>4, <2>1, Zenon
  <2>3. PICK v \in Nat : v = s[m + 1].v
    BY <1>0, <2>1
  <2>4. \A k \in 1..(m + 1) : k \in 1..m \/ k = m + 1
    OBVIOUS
  <2>5. \A k \in 1..m : s[k].v <= a /\ s[k].v \in Nat
    BY <1>0, <2>2, <2>1 DEF AtMost
  <2>6. AtMost(s, m + 1, a + v)
    BY <2>3, <2>4, <2>5 DEF AtMost
  <2> QED BY <2>6
<1>5. n \in T
  BY <1>3, <1>4, Inductive
<1> QED BY <1>2, <1>5

\* The largest versions never fall, and cover what the cell puts out.
LEMMA MaxSeenIs ==
    ASSUME maxv \in [Ids -> Nat], NEW c, c.ins \in Seq(Tensor), c.outs \in Seq(Tensor)
    PROVE  /\ MaxSeen(c) \in [Ids -> Nat]
           /\ \A t \in Ids : maxv[t] <= MaxSeen(c)[t]
           /\ \A k \in 1..Len(c.outs) : c.outs[k].v <= MaxSeen(c)[c.outs[k].id]
<1>1. PICK s \in Seq(Tensor) : /\ s = c.ins \o c.outs
                               /\ \A k \in 1..Len(c.outs) : \E n \in 1..Len(s) : s[n] = c.outs[k]
  <2>1. PICK a \in Seq(Tensor), b \in Seq(Tensor) : a = c.ins /\ b = c.outs
    OBVIOUS
  <2>2. PICK s : s = a \o b
    OBVIOUS
  <2>3. s \in Seq(Tensor) /\ Len(s) = Len(a) + Len(b) /\ \A k \in 1..Len(b) : s[Len(a) + k] = b[k]
    BY <2>2, Joined
  <2>4. \A k \in 1..Len(b) : Len(a) + k \in 1..(Len(a) + Len(b))
    OBVIOUS
  <2>5. \A k \in 1..Len(b) : \E n \in 1..Len(s) : s[n] = b[k]
    BY <2>3, <2>4
  <2> QED BY <2>1, <2>2, <2>3, <2>5
<1>2. PICK b \in Nat : \A k \in 1..Len(s) : s[k].v <= b
  BY Bounded DEF AtMost
<1>3. ASSUME NEW t \in Ids
      PROVE  /\ MaxSeen(c)[t] \in Nat /\ maxv[t] <= MaxSeen(c)[t]
             /\ \A k \in 1..Len(s) : s[k].id = t => s[k].v <= MaxSeen(c)[t]
  <2>1. PICK T : T = {maxv[t]} \cup {x.v : x \in {y \in Range(s) : y.id = t}}
    OBVIOUS
  <2>2. \A y : y \in T <=> y = maxv[t] \/ \E k \in 1..Len(s) : s[k].id = t /\ y = s[k].v
    BY <2>1 DEF Range
  <2>3. \A k \in 1..Len(s) : s[k].v \in Nat
    <3>1. \A k \in 1..Len(s) : s[k] \in Tensor
      OBVIOUS
    <3> QED BY <3>1 DEF Tensor
  <2>4. T \in SUBSET Nat /\ T # {} /\ maxv[t] \in Nat
    <3>1. maxv[t] \in Nat
      OBVIOUS
    <3>2. \A y \in T : y \in Nat
      BY <2>2, <2>3, <3>1
    <3>3. maxv[t] \in T
      BY <2>2, Zenon
    <3> QED BY <3>1, <3>2, <3>3
  <2>5. b + maxv[t] \in Nat /\ \A y \in T : y <= b + maxv[t]
    BY <1>2, <2>2, <2>3, <2>4
  <2>6. Max(T) \in T /\ \A y \in T : y <= Max(T)
    BY <2>4, <2>5, Largest
  <2>7. MaxSeen(c)[t] = Max(T)
    BY <1>1, <2>1, Zenon DEF MaxSeen
  <2> QED BY <2>2, <2>4, <2>6, <2>7
<1>4. MaxSeen(c) = [t \in Ids |-> MaxSeen(c)[t]]
  BY DEF MaxSeen
<1>5. \A k \in 1..Len(c.outs) : c.outs[k].id \in Ids
  <2>1. \A k \in 1..Len(c.outs) : c.outs[k] \in Tensor
    OBVIOUS
  <2> QED BY <2>1 DEF Tensor
<1>6. ASSUME NEW k \in 1..Len(c.outs) PROVE c.outs[k].v <= MaxSeen(c)[c.outs[k].id]
  <2>1. PICK n \in 1..Len(s) : s[n] = c.outs[k]
    BY <1>1
  <2> QED BY <2>1, <1>3, <1>5
<1>7. MaxSeen(c) \in [Ids -> Nat]
  BY <1>3, <1>4
<1> QED BY <1>3, <1>6, <1>7

(***************************************************************************)
(* The start, and the order of the reducers.                               *)
(***************************************************************************)
\* Of an empty list.
LEMMA Nothing == /\ \A x : x \notin Outputs(<<>>, 0)
                 /\ \A list : \A x : x \notin Outputs(list, 0)
                 /\ Once(<<>>) /\ InOrder(<<>>) /\ Len(<<>>) = 0 /\ <<>> \in Seq(Cell)
<1>1. 1..0 = {} /\ Len(<<>>) = 0 /\ <<>> \in Seq(Cell)
  OBVIOUS
<1>2. \A list : \A x : x \notin Outputs(list, 0)
  BY <1>1 DEF Outputs
<1> QED BY <1>1, <1>2 DEF Once, InOrder

\* What ProgramAssumption says of one cell.
LEMMA ProgramIs ==
    ASSUME NEW p \in Programs, NEW list, list = p.cells, NEW k \in DOMAIN list
    PROVE  /\ list[k].ins \in Seq({Plain(t) : t \in Ids}) /\ list[k].outs \in Seq({Plain(t) : t \in Ids})
           /\ list[k].op = "wred" =>
                /\ list[k].outs = <<>> /\ Reduces(list[k]) \subseteq WeightIds
                /\ \A n, m \in DOMAIN list[k].ins : n # m => list[k].ins[n].id # list[k].ins[m].id
                /\ \A m \in DOMAIN list : m > k =>
                     /\ list[m].op = "wred"
                     /\ Reduces(list[k]) \cap Reduces(list[m]) = {}
<1>1. LET c == p.cells[k]
      IN  /\ c.ins \in Seq({Plain(t) : t \in Ids}) /\ c.outs \in Seq({Plain(t) : t \in Ids})
          /\ c.op = "wred" =>
               /\ c.outs = <<>> /\ Reduces(c) \subseteq WeightIds
               /\ \A n, m \in DOMAIN c.ins : n # m => c.ins[n].id # c.ins[m].id
               /\ \A m \in DOMAIN p.cells : m > k =>
                    /\ p.cells[m].op = "wred"
                    /\ Reduces(c) \cap Reduces(p.cells[m]) = {}
  BY ProgramAssumption, Zenon
<1> QED BY <1>1, Zenon

\* Bucketed, from the form ProgramAssumption has.
LEMMA BucketedIf ==
    ASSUME NEW c, DOMAIN c.ins = 1..Len(c.ins),
           c.op = "wred" =>
             /\ c.outs = <<>> /\ Reduces(c) \subseteq WeightIds
             /\ \A n, m \in DOMAIN c.ins : n # m => c.ins[n].id # c.ins[m].id
    PROVE  Bucketed(c)
BY DEF Bucketed

\* The invariant holds at the start.
LEMMA DataflowBegins == DataflowInit => DataflowIInv
<1> SUFFICES ASSUME DataflowInit PROVE DataflowIInv
  OBVIOUS
<1> USE DEF DataflowInit
<1>0. /\ prog \in Programs /\ prog \in [pp : Nat, cells : Seq(Cell)]
      /\ cells = prog.cells /\ cells \in Seq(Cell) /\ DOMAIN cells = 1..Len(cells)
      /\ pass = 1 /\ i = 1 /\ ret = <<>>
  <2>1. prog \in [pp : Nat, cells : Seq(Cell)]
    BY DataflowAssumption
  <2>2. prog.cells \in Seq(Cell)
    BY <2>1
  <2> QED BY <2>1, <2>2
<1>1. DataflowTypeOK
  <2>1. 1 \in 1..(Len(cells) + 1)
    BY <1>0
  <2>2. latest \in [Unversioned -> Nat] /\ grads \in [WeightIds -> Seq(Ids)] /\ maxv \in [Ids -> Nat]
    OBVIOUS
  <2>3. ret \in Seq(Cell) /\ pass \in 1..7 /\ raised \in BOOLEAN /\ i \in 1..(Len(cells) + 1)
    <3>1. ret \in Seq(Cell)
      BY <1>0
    <3>2. pass \in 1..7
      BY <1>0
    <3>3. raised \in BOOLEAN
      BY Zenon
    <3> QED BY <1>0, <2>1, <3>1, <3>2, <3>3
  <2> QED BY <1>0, <2>2, <2>3 DEF DataflowTypeOK
<1>2. ASSUME NEW k \in 1..Len(cells)
      PROVE  /\ cells[k].ins \in Seq({Plain(t) : t \in Ids}) /\ cells[k].outs \in Seq({Plain(t) : t \in Ids})
             /\ cells[k].op = "wred" =>
                  /\ cells[k].outs = <<>> /\ Reduces(cells[k]) \subseteq WeightIds
                  /\ \A n, m \in DOMAIN cells[k].ins : n # m => cells[k].ins[n].id # cells[k].ins[m].id
                  /\ \A m \in DOMAIN cells : m > k =>
                       /\ cells[m].op = "wred"
                       /\ Reduces(cells[k]) \cap Reduces(cells[m]) = {}
  BY <1>0, ProgramIs
<1>3. Early
  BY <1>0, <1>2, Nothing DEF Early
<1>4. InOrder(cells)
  <2>1. ASSUME NEW k \in 1..Len(cells), NEW m \in 1..Len(cells), k < m PROVE Behind(cells[k], cells[m])
    <3>1. m \in DOMAIN cells /\ m > k
      BY <1>0, <2>1
    <3> QED BY <1>2, <3>1 DEF Behind
  <2>2. ASSUME NEW k \in 1..Len(cells) PROVE Bucketed(cells[k])
    <3>1. DOMAIN cells[k].ins = 1..Len(cells[k].ins)
      BY <1>2
    <3>2. cells[k].op = "wred" =>
            /\ cells[k].outs = <<>> /\ Reduces(cells[k]) \subseteq WeightIds
            /\ \A n, m \in DOMAIN cells[k].ins : n # m => cells[k].ins[n].id # cells[k].ins[m].id
      BY <1>2, Zenon
    <3> QED BY <3>1, <3>2, BucketedIf, Zenon
  <2> QED BY <2>1, <2>2 DEF InOrder
<1>5. Ordered
  BY <1>0, <1>4, Nothing DEF Ordered
<1>6. Numbered
  <2>1. \A t \in Ids : Plain(t) \in Unversioned
    BY DEF Plain, Unversioned
  <2>2. \A t \in Ids : latest[Plain(t)] = 0
    BY <2>1
  <2> QED BY <1>0, <2>2 DEF Numbered
<1>7. Summed
  BY <1>0 DEF Summed
<1>8. Apart
  BY DEF Apart, Range
<1>9. ReducedOnce
  BY <1>0 DEF ReducedOnce
<1> QED BY <1>1, <1>3, <1>5, <1>6, <1>7, <1>8, <1>9 DEF DataflowIInv

\* What a pass makes of a cell c: a reducer stays one, of the same weights, and
\* nothing else becomes one.
Keeps(d, c) ==
    /\ d.op = "wred" <=> c.op = "wred"
    /\ c.op = "wred" => /\ d.outs = <<>> /\ Len(d.ins) = Len(c.ins)
                        /\ \A k \in 1..Len(c.ins) : d.ins[k].id = c.ins[k].id

\* The weights of a reducer, by their places.
LEMMA ReducesAre ==
    ASSUME NEW c, NEW n, DOMAIN c.ins = 1..n, NEW x
    PROVE  x \in Reduces(c) <=> \E k \in 1..n : x = c.ins[k].id
BY DEF Reduces, Range

\* What a pass keeps has the same weights.
LEMMA SameWeights ==
    ASSUME NEW c \in Cell, NEW d \in Cell, Keeps(d, c), c.op = "wred"
    PROVE  Reduces(d) = Reduces(c)
<1>1. DOMAIN d.ins = 1..Len(c.ins) /\ DOMAIN c.ins = 1..Len(c.ins)
  BY DEF Keeps, Cell
<1>2. \A k \in 1..Len(c.ins) : d.ins[k].id = c.ins[k].id
  BY DEF Keeps
<1>3. \A x : x \in Reduces(d) <=> \E k \in 1..Len(c.ins) : x = d.ins[k].id
  BY <1>1, ReducesAre
<1>4. \A x : x \in Reduces(c) <=> \E k \in 1..Len(c.ins) : x = c.ins[k].id
  BY <1>1, ReducesAre
<1>5. ASSUME NEW x PROVE x \in Reduces(d) <=> x \in Reduces(c)
  <2>1. x \in Reduces(d) <=> \E k \in 1..Len(c.ins) : x = d.ins[k].id
    BY <1>3, Zenon
  <2>2. x \in Reduces(c) <=> \E k \in 1..Len(c.ins) : x = c.ins[k].id
    BY <1>4, Zenon
  <2> QED BY <1>2, <2>1, <2>2, Zenon
<1> QED BY <1>5 DEF Reduces

\* What a pass keeps stays in order.
LEMMA KeptBehind ==
    ASSUME NEW c \in Cell, NEW d \in Cell, Keeps(d, c)
    PROVE  /\ \A b : Behind(b, c) => Behind(b, d)
           /\ \A e : Behind(c, e) => Behind(d, e)
           /\ Bucketed(c) => Bucketed(d)
<1>1. CASE c.op = "wred"
  <2>1. Reduces(d) = Reduces(c) /\ d.op = "wred"
    BY <1>1, SameWeights DEF Keeps
  <2>2. Bucketed(c) => Bucketed(d)
    BY <1>1, <2>1 DEF Bucketed, Keeps
  <2>3. \A b : Behind(b, c) => Behind(b, d)
    BY <1>1, <2>1, Zenon DEF Behind
  <2>4. \A e : Behind(c, e) => Behind(d, e)
    BY <1>1, <2>1, Zenon DEF Behind
  <2> QED BY <2>2, <2>3, <2>4
<1>2. CASE c.op # "wred"
  <2>1. d.op # "wred"
    BY <1>2 DEF Keeps
  <2> QED BY <1>2, <2>1 DEF Behind, Bucketed
<1> QED BY <1>1, <1>2

\* A pass before the reducers are split keeps the order.
LEMMA OrderedStep ==
    ASSUME DataflowIInv, pass <= 4, i <= Len(cells), NEW new \in Seq(Cell), Emit(new),
           \A j \in 1..Len(new) : Keeps(new[j], cells[i]),
           cells[i].op = "wred" => Len(new) <= 1
    PROVE  Ordered'
<1>0. DataflowTypeOK /\ InOrder(cells) /\ InOrder(ret)
      /\ \A k \in 1..Len(ret) : \A m \in i..Len(cells) : Behind(ret[k], cells[m])
  BY DEF DataflowIInv, Ordered, DataflowTypeOK
<1>1. /\ ret' = ret \o new /\ ret' \in Seq(Cell) /\ i' = i + 1
      /\ UNCHANGED <<prog, pass, cells, raised>> /\ i \in 1..Len(cells) /\ cells[i] \in Cell
  BY <1>0, Emitted
<1>2. /\ ret \in Seq(Cell) /\ Len(ret') = Len(ret) + Len(new)
      /\ \A k \in 1..Len(ret) : ret'[k] = ret[k]
      /\ \A k \in 1..Len(new) : ret'[Len(ret) + k] = new[k]
      /\ \A k \in 1..(Len(ret) + Len(new)) : k \in 1..Len(ret) \/ \E j \in 1..Len(new) : k = Len(ret) + j
  BY <1>0, Emitted
<1>3. \A j \in 1..Len(new) : new[j] \in Cell
  OBVIOUS
<1>4. \A j \in 1..Len(new) :
         /\ \A b : Behind(b, cells[i]) => Behind(b, new[j])
         /\ \A e : Behind(cells[i], e) => Behind(new[j], e)
         /\ Bucketed(new[j])
  BY <1>0, <1>1, <1>3, KeptBehind DEF InOrder
<1>5. ASSUME NEW k \in 1..Len(ret'), NEW m \in 1..Len(ret'), k < m PROVE Behind(ret'[k], ret'[m])
  <2>1. k \in 1..Len(ret) \/ \E j \in 1..Len(new) : k = Len(ret) + j
    BY <1>2
  <2>2. m \in 1..Len(ret) \/ \E j \in 1..Len(new) : m = Len(ret) + j
    BY <1>2
  <2>3. CASE k \in 1..Len(ret) /\ m \in 1..Len(ret)
    BY <1>0, <1>2, <1>5, <2>3 DEF InOrder
  <2>4. ASSUME k \in 1..Len(ret), NEW j \in 1..Len(new), m = Len(ret) + j PROVE Behind(ret'[k], ret'[m])
    <3>1. i \in i..Len(cells)
      BY <1>1
    <3>2. Behind(ret[k], cells[i])
      BY <1>0, <2>4, <3>1
    <3> QED BY <1>2, <1>4, <2>4, <3>2
  <2>5. ASSUME NEW p \in 1..Len(new), NEW j \in 1..Len(new), k = Len(ret) + p, m = Len(ret) + j
        PROVE  Behind(ret'[k], ret'[m])
    <3>1. Len(new) > 1
      BY <1>5, <2>5, <1>2
    <3>2. new[p].op # "wred"
      BY <3>1 DEF Keeps
    <3> QED BY <1>2, <2>5, <3>2 DEF Behind
  <2>6. ASSUME NEW p \in 1..Len(new), k = Len(ret) + p, m \in 1..Len(ret) PROVE FALSE
    BY <1>2, <1>5, <2>6
  <2>7. CASE k \in 1..Len(ret)
    BY <2>2, <2>3, <2>4, <2>7, Zenon
  <2>8. CASE \E j \in 1..Len(new) : k = Len(ret) + j
    BY <2>2, <2>5, <2>6, <2>8, Zenon
  <2> QED BY <2>1, <2>7, <2>8, Zenon
<1>6. ASSUME NEW k \in 1..Len(ret') PROVE Bucketed(ret'[k])
  <2>1. k \in 1..Len(ret) => Bucketed(ret[k])
    BY <1>0 DEF InOrder
  <2>2. k \in 1..Len(ret) \/ \E j \in 1..Len(new) : k = Len(ret) + j
    BY <1>2
  <2> QED BY <1>2, <1>4, <2>1, <2>2, Zenon
<1>7. InOrder(ret')
  BY <1>5, <1>6 DEF InOrder
<1>8. ASSUME NEW k \in 1..Len(ret'), NEW m \in (i + 1)..Len(cells) PROVE Behind(ret'[k], cells[m])
  <2>1. m \in 1..Len(cells) /\ i < m /\ m \in i..Len(cells)
    BY <1>1
  <2>2. CASE k \in 1..Len(ret)
    BY <1>0, <1>2, <2>1, <2>2
  <2>3. ASSUME NEW j \in 1..Len(new), k = Len(ret) + j PROVE Behind(ret'[k], cells[m])
    <3>1. Behind(cells[i], cells[m])
      BY <1>0, <1>1, <2>1 DEF InOrder
    <3> QED BY <1>2, <1>4, <2>3, <3>1
  <2> QED BY <1>2, <2>2, <2>3
<1>9. InOrder(cells')
  BY <1>0, <1>1
<1>10. \A k \in 1..Len(ret') : \A m \in i'..Len(cells') : Behind(ret'[k], cells'[m])
  BY <1>1, <1>8
<1> QED BY <1>7, <1>9, <1>10 DEF Ordered

(***************************************************************************)
(* The passes, one after another: the dataflow and filter passes.          *)
(***************************************************************************)
\* A pass keeps the types.
LEMMA EmittedTypes ==
    ASSUME DataflowTypeOK, i <= Len(cells), NEW new \in Seq(Cell), Emit(new),
           latest' \in [Unversioned -> Nat], grads' \in [WeightIds -> Seq(Ids)], maxv' \in [Ids -> Nat]
    PROVE  DataflowTypeOK'
<1>1. /\ ret' \in Seq(Cell) /\ i' \in 1..(Len(cells') + 1)
      /\ UNCHANGED <<prog, pass, cells, raised>>
  BY Emitted
<1>2. prog \in Programs /\ pass \in 1..7 /\ cells \in Seq(Cell) /\ raised \in BOOLEAN
  BY DEF DataflowTypeOK
<1>3. prog' \in Programs /\ pass' \in 1..7 /\ cells' \in Seq(Cell) /\ raised' \in BOOLEAN
  BY <1>1, <1>2
<1> QED BY <1>1, <1>3 DEF DataflowTypeOK

\* The two passes before the versions.
LEMMA EarlyStep ==
    ASSUME DataflowIInv, pass <= 2, i <= Len(cells), NEW new \in Seq(Cell), Emit(new),
           \A j \in 1..Len(new) : Keeps(new[j], cells[i]) /\ Fresh(new[j]), Len(new) <= 1,
           UNCHANGED <<latest, grads, maxv>>
    PROVE  DataflowIInv'
<1>0. DataflowTypeOK /\ pass \in 1..2
  BY DEF DataflowIInv, DataflowTypeOK
<1>1. /\ ret' = ret \o new /\ UNCHANGED <<prog, pass, cells, raised>>
  BY <1>0, Emitted
<1>2. DataflowTypeOK'
  BY <1>0, EmittedTypes DEF DataflowTypeOK
<1>3. Ordered'
  BY <1>0, OrderedStep
<1>4. Early'
  <2>1. ret \in Seq(Cell) /\ \A k \in 1..Len(ret) : Fresh(ret[k])
    BY <1>0 DEF DataflowIInv, Early, DataflowTypeOK
  <2>2. /\ Len(ret') = Len(ret) + Len(new)
        /\ \A k \in 1..Len(ret) : ret'[k] = ret[k]
        /\ \A k \in 1..Len(new) : ret'[Len(ret) + k] = new[k]
        /\ \A k \in 1..(Len(ret) + Len(new)) : k \in 1..Len(ret) \/ \E j \in 1..Len(new) : k = Len(ret) + j
    BY <1>0, Emitted
  <2>6. ASSUME NEW k \in 1..Len(ret') PROVE Fresh(ret'[k])
    <3>1. k \in 1..Len(ret) \/ \E j \in 1..Len(new) : k = Len(ret) + j
      BY <2>2
    <3> QED BY <2>1, <2>2, <3>1
  <2> QED BY <1>0, <1>1, <2>6 DEF DataflowIInv, Early
<1>5. /\ pass' \in 1..2 /\ UNCHANGED <<latest, grads, maxv>>
      /\ \A t \in Ids : latest[Plain(t)] = 0 \/ Odd(latest[Plain(t)])
  BY <1>0, <1>1 DEF DataflowIInv, Numbered
<1>6. Numbered'
  BY <1>5 DEF Numbered
<1>7. Summed' /\ ReducedOnce'
  BY <1>5 DEF Summed, ReducedOnce
<1>8. Apart'
  BY <1>5 DEF DataflowIInv, Apart
<1> QED BY <1>2, <1>3, <1>4, <1>6, <1>7, <1>8 DEF DataflowIInv

\* A function on 1..n is a sequence of length n.
LEMMA IsSeq ==
    ASSUME NEW S, NEW n \in Nat, NEW f \in [1..n -> S]
    PROVE  f \in Seq(S) /\ Len(f) = n /\ DOMAIN f = 1..n
OBVIOUS

\* A plain tensor and its copy in flight.
LEMMA FlyIs ==
    ASSUME NEW t \in Ids
    PROVE  /\ Plain(t) \in Unversioned /\ ~Plain(t).fly
           /\ Fly(Plain(t)) \in Unversioned /\ Fly(Plain(t)).fly
BY DEF Plain, Fly, Unversioned

\* Plain tensors, and their copies in flight, have no versions.
LEMMA PlainAre ==
    ASSUME NEW s \in Seq({Plain(t) : t \in Ids})
    PROVE  /\ s \in Seq(Unversioned) /\ \A k \in 1..Len(s) : ~s[k].fly
           /\ [k \in DOMAIN s |-> Fly(s[k])] \in Seq(Unversioned)
           /\ Len([k \in DOMAIN s |-> Fly(s[k])]) = Len(s)
           /\ \A k \in 1..Len(s) : [n \in DOMAIN s |-> Fly(s[n])][k].fly
<1> PICK n \in Nat : n = Len(s)
  OBVIOUS
<1>1. ASSUME NEW k \in 1..n
      PROVE s[k] \in Unversioned /\ ~s[k].fly /\ Fly(s[k]) \in Unversioned /\ Fly(s[k]).fly
  <2>1. s[k] \in {Plain(t) : t \in Ids}
    OBVIOUS
  <2>2. PICK t \in Ids : s[k] = Plain(t)
    BY <2>1
  <2> QED BY <2>2, FlyIs, Zenon
<1>2. s \in Seq(Unversioned)
  <2>1. s = [k \in 1..n |-> s[k]]
    OBVIOUS
  <2>2. \A k \in 1..n : s[k] \in Unversioned
    BY <1>1
  <2>3. [k \in 1..n |-> s[k]] \in [1..n -> Unversioned]
    BY <2>2
  <2> QED BY <2>1, <2>3, IsSeq, Zenon
<1>3. DOMAIN s = 1..n
  OBVIOUS
<1>4. PICK f : f = [k \in 1..n |-> Fly(s[k])]
  OBVIOUS
<1>5. f \in Seq(Unversioned) /\ Len(f) = n /\ \A k \in 1..n : f[k].fly
  BY <1>1, <1>4
<1> QED BY <1>1, <1>2, <1>3, <1>4, <1>5, Zenon

\* A tensor without a version is one.
LEMMA UnversionedAre == Unversioned \subseteq Tensor /\ Seq(Unversioned) \subseteq Seq(Tensor)
<1>1. Unversioned \subseteq Tensor
  BY DEF Unversioned, Tensor
<1> QED BY <1>1

\* A move gets its tensor in flight.
LEMMA SetDataflowStep == ASSUME DataflowIInv, SetDataflow PROVE DataflowIInv'
<1>0. DataflowTypeOK /\ pass = 1 /\ i <= Len(cells)
  BY PassIs DEF DataflowIInv, SetDataflow, At
<1>1. PICK c \in Cell : c = cells[i]
  BY <1>0, CellIs
<1>2. /\ c.ins \in Seq({Plain(t) : t \in Ids}) /\ c.outs \in Seq({Plain(t) : t \in Ids})
      /\ c.op = "wred" => c.outs = <<>>
  <2>1. i \in 1..Len(cells) /\ InOrder(cells)
    BY <1>0, CellIs DEF DataflowIInv, Ordered
  <2> QED BY <1>0, <1>1, <2>1 DEF DataflowIInv, Early, InOrder, Bucketed
<1>3. PICK flown, received : /\ flown = [k \in DOMAIN c.ins |-> Fly(c.ins[k])]
                             /\ received = [k \in DOMAIN c.outs |-> Fly(c.outs[k])]
  OBVIOUS
<1>4. /\ flown \in Seq(Unversioned) /\ received \in Seq(Unversioned)
      /\ \A k \in 1..Len(flown) : flown[k].fly
      /\ c.ins \in Seq(Unversioned) /\ c.outs \in Seq(Unversioned)
      /\ \A k \in 1..Len(c.outs) : ~c.outs[k].fly
  BY <1>2, <1>3, PlainAre
<1>5. PICK d : d = CASE c.op = "send" -> [c EXCEPT !.outs = flown]
                     [] c.op = "recv" -> [c EXCEPT !.ins = received]
                     [] OTHER -> c
  OBVIOUS
<1>6. Emit(<<d>>) /\ UNCHANGED <<latest, grads, maxv>>
  BY <1>1, <1>3, <1>5, Zenon DEF SetDataflow
<1>7. d \in Cell /\ Keeps(d, c) /\ Fresh(d)
  <2>1. CASE c.op = "send"
    <3>1. d = [c EXCEPT !.outs = flown]
      BY <1>5, <2>1
    <3> QED BY <3>1, <2>1, <1>4, UnversionedAre DEF Cell, Keeps, Fresh
  <2>2. CASE c.op = "recv"
    <3>1. d = [c EXCEPT !.ins = received]
      BY <1>5, <2>2
    <3> QED BY <3>1, <2>2, <1>4, UnversionedAre DEF Cell, Keeps, Fresh
  <2>3. CASE c.op # "send" /\ c.op # "recv"
    <3>1. d = c
      BY <1>5, <2>3
    <3> QED BY <3>1, <2>3, <1>2, <1>4, UnversionedAre DEF Cell, Keeps, Fresh
  <2> QED BY <2>1, <2>2, <2>3
<1>8. /\ <<d>> \in Seq(Cell) /\ Len(<<d>>) <= 1
      /\ \A j \in 1..Len(<<d>>) : Keeps(<<d>>[j], cells[i]) /\ Fresh(<<d>>[j])
  BY <1>1, <1>7
<1>9. pass <= 2
  BY <1>0
<1> QED BY <1>0, <1>6, <1>8, <1>9, EarlyStep, Zenon

\* A useless cell goes.
LEMMA FilterStep == ASSUME DataflowIInv, Filter PROVE DataflowIInv'
<1>0. DataflowTypeOK /\ pass = 2 /\ i <= Len(cells)
  BY PassIs DEF DataflowIInv, Filter, At
<1>1. PICK c \in Cell : c = cells[i]
  BY <1>0, CellIs
<1>2. Fresh(c) /\ (c.op = "wred" => c.outs = <<>>)
  <2>1. i \in 1..Len(cells) /\ InOrder(cells)
    BY <1>0, CellIs DEF DataflowIInv, Ordered
  <2> QED BY <1>0, <1>1, <2>1 DEF DataflowIInv, Early, InOrder, Bucketed
<1>3. PICK new : new = IF Redundant(c) THEN <<>> ELSE <<c>>
  OBVIOUS
<1>4. Emit(new) /\ UNCHANGED <<latest, grads, maxv>>
  BY <1>1, <1>3, Zenon DEF Filter
<1>5. Keeps(c, c)
  BY <1>2 DEF Keeps
<1>6. new = <<>> \/ new = <<c>>
  BY <1>3
<1>7. /\ new \in Seq(Cell) /\ Len(new) <= 1
      /\ \A j \in 1..Len(new) : Keeps(new[j], cells[i]) /\ Fresh(new[j])
  <2>1. CASE new = <<>>
    BY <2>1
  <2>2. CASE new = <<c>>
    BY <1>1, <1>2, <1>5, <2>2
  <2> QED BY <1>6, <2>1, <2>2
<1> QED BY <1>0, <1>4, <1>7, EarlyStep

(***************************************************************************)
(* The version pass.                                                       *)
(***************************************************************************)
\* A tensor with its version set to v.
LEMMA VersionedIs ==
    ASSUME NEW x \in Tensor, NEW v \in Nat
    PROVE  /\ Versioned(x, v) \in Tensor
           /\ Versioned(x, v).id = x.id /\ Versioned(x, v).fly = x.fly /\ Versioned(x, v).v = v
BY DEF Versioned, Tensor

\* Tensors that are not in flight are plain.
LEMMA PlainIs ==
    /\ \A t \in Ids : Plain(t) \in Unversioned
    /\ \A x \in Unversioned : x \in Tensor /\ x.id \in Ids /\ (~x.fly => x = Plain(x.id))
    /\ \A x \in Tensor : x.id \in Ids /\ x.v \in Nat /\ x.fly \in BOOLEAN
BY DEF Plain, Unversioned, Tensor

\* The version pass: what is new has versions above all there are.
LEMMA VersionPassStep ==
    ASSUME DataflowIInv, pass = 3, i <= Len(cells), NEW new \in Seq(Cell), Emit(new),
           \A j \in 1..Len(new) : Keeps(new[j], cells[i]), Len(new) <= 1, Once(new),
           latest' \in [Unversioned -> Nat],
           \A t \in Ids : /\ latest[Plain(t)] <= latest'[Plain(t)]
                          /\ latest'[Plain(t)] = 0 \/ Odd(latest'[Plain(t)]),
           \A x \in Outputs(new, Len(new)) :
              First(x) /\ (~x.fly => latest[Plain(x.id)] < x.v /\ x.v <= latest'[Plain(x.id)]),
           UNCHANGED <<grads, maxv>>
    PROVE  DataflowIInv'
<1>0. DataflowTypeOK
  BY DEF DataflowIInv
<1>1. /\ ret' = ret \o new /\ ret \in Seq(Cell) /\ ret' \in Seq(Cell)
      /\ UNCHANGED <<prog, pass, cells, raised>>
  BY <1>0, Emitted
<1>2. DataflowTypeOK'
  BY <1>0, EmittedTypes DEF DataflowTypeOK
<1>3. Ordered'
  BY OrderedStep
<1>4. Early' /\ Summed' /\ ReducedOnce'
  BY <1>1 DEF DataflowIInv, Early, Summed, ReducedOnce
<1>5. Apart'
  BY DEF DataflowIInv, Apart
<1>6. /\ Once(ret)
      /\ \A x \in Outputs(ret, Len(ret)) : First(x) /\ (~x.fly => x.v <= latest[Plain(x.id)])
  BY DEF DataflowIInv, Numbered
<1>7. /\ \A x \in Outputs(ret, Len(ret)) : x \in Tensor
      /\ \A x \in Outputs(new, Len(new)) : x \in Tensor
  <2>1. Len(ret) \in 0..Len(ret) /\ Len(new) \in 0..Len(new)
    BY <1>1
  <2> QED BY <1>1, <2>1, OutputsTyped
<1>8. ASSUME NEW x, x \in Outputs(ret, Len(ret)), x \in Outputs(new, Len(new)) PROVE x.fly
  <2>1. x \in Tensor /\ Plain(x.id) \in Unversioned /\ x.v \in Nat
    BY <1>7, <1>8, PlainIs
  <2>2. latest[Plain(x.id)] \in Nat
    BY <1>0, <2>1 DEF DataflowTypeOK
  <2> QED BY <1>6, <1>8, <2>1, <2>2
<1>9. Once(ret')
  BY <1>1, <1>6, <1>8, OnceJoined
<1>10. ASSUME NEW x \in Outputs(ret', Len(ret'))
       PROVE  First(x) /\ (~x.fly => x.v <= latest'[Plain(x.id)])
  <2>1. x \in Outputs(ret, Len(ret)) \/ x \in Outputs(new, Len(new))
    BY <1>1, OutputsJoined
  <2>2. CASE x \in Outputs(new, Len(new))
    BY <2>2
  <2>3. CASE x \in Outputs(ret, Len(ret))
    <3>1. x.id \in Ids /\ x.v \in Nat /\ Plain(x.id) \in Unversioned
      BY <1>7, <2>3, PlainIs
    <3>2. latest[Plain(x.id)] <= latest'[Plain(x.id)] /\ latest[Plain(x.id)] \in Nat
          /\ latest'[Plain(x.id)] \in Nat
      BY <1>0, <3>1 DEF DataflowTypeOK
    <3> QED BY <1>6, <2>3, <3>1, <3>2
  <2> QED BY <2>1, <2>2, <2>3
<1>11. Numbered'
  BY <1>1, <1>9, <1>10 DEF Numbered
<1> QED BY <1>2, <1>3, <1>4, <1>5, <1>11 DEF DataflowIInv

\* The inputs of a cell of the version pass.
LEMMA InputsVersioned ==
    ASSUME latest \in [Unversioned -> Nat], NEW s \in Seq(Unversioned)
    PROVE  /\ [k \in DOMAIN s |-> Versioned(s[k], latest[s[k]])] \in Seq(Tensor)
           /\ Len([k \in DOMAIN s |-> Versioned(s[k], latest[s[k]])]) = Len(s)
           /\ \A k \in 1..Len(s) : [n \in DOMAIN s |-> Versioned(s[n], latest[s[n]])][k].id = s[k].id
<1> PICK n \in Nat : n = Len(s)
  OBVIOUS
<1>1. DOMAIN s = 1..n
  OBVIOUS
<1>2. PICK f : f = [k \in 1..n |-> Versioned(s[k], latest[s[k]])]
  OBVIOUS
<1>3. \A k \in 1..n : f[k] \in Tensor /\ f[k].id = s[k].id
  <2>1. \A k \in 1..n : s[k] \in Unversioned
    OBVIOUS
  <2>2. \A k \in 1..n : s[k] \in Tensor /\ latest[s[k]] \in Nat
    BY <2>1, PlainIs
  <2> QED BY <1>2, <2>2, VersionedIs
<1>4. f \in [1..n -> Tensor]
  BY <1>2, <1>3
<1>5. f \in Seq(Tensor) /\ Len(f) = n
  BY <1>4, IsSeq
<1> QED BY <1>1, <1>2, <1>3, <1>5, Zenon

\* A list of one cell.
LEMMA OneCell ==
    ASSUME NEW d \in Cell
    PROVE  /\ <<d>> \in Seq(Cell) /\ Len(<<d>>) = 1 /\ <<d>>[1] = d
           /\ \A x : x \in Outputs(<<d>>, Len(<<d>>)) <=> \E k \in 1..Len(d.outs) : x = d.outs[k]
<1>1. <<d>> \in Seq(Cell) /\ Len(<<d>>) = 1 /\ <<d>>[1] = d
  OBVIOUS
<1>2. DOMAIN d.outs = 1..Len(d.outs)
  BY DEF Cell
<1>3. \A k : k \in 1..1 <=> k = 1
  OBVIOUS
<1>4. ASSUME NEW x PROVE x \in Outputs(<<d>>, 1) <=> \E k \in 1..Len(d.outs) : x = d.outs[k]
  <2>1. x \in Outputs(<<d>>, 1) <=> \E k \in 1..1 : \E j \in DOMAIN <<d>>[k].outs : x = <<d>>[k].outs[j]
    BY OutputsAre
  <2> QED BY <2>1, <1>1, <1>2, <1>3
<1> QED BY <1>1, <1>4

\* Once, of a list of one cell: the outputs of the cell differ.
LEMMA OnceOne ==
    ASSUME NEW a, Len(a) = 1,
           ASSUME NEW j \in 1..Len(a[1].outs), NEW l \in 1..Len(a[1].outs),
                  ~a[1].outs[j].fly, a[1].outs[j] = a[1].outs[l]
           PROVE  j = l
    PROVE  Once(a)
<1>1. ASSUME NEW p \in 1..Len(a), NEW q \in 1..Len(a),
             NEW j \in 1..Len(a[p].outs), NEW l \in 1..Len(a[q].outs),
             ~a[p].outs[j].fly, a[p].outs[j] = a[q].outs[l]
      PROVE  p = q /\ j = l
  <2>1. p = 1 /\ q = 1
    OBVIOUS
  <2> QED BY <1>1, <2>1
<1> QED BY <1>1, OnceIf, Zenon

\* The same, of the list <<d>>.
LEMMA OnceCell ==
    ASSUME NEW d \in Cell,
           \A j, l \in 1..Len(d.outs) : ~d.outs[j].fly /\ d.outs[j] = d.outs[l] => j = l
    PROVE  Once(<<d>>)
<1> PICK a : a = <<d>>
  OBVIOUS
<1>1. Len(a) = 1 /\ a[1] = d
  OBVIOUS
<1>2. Once(a)
  BY <1>1, OnceOne
<1> QED BY <1>2, Zenon

\* The outputs of a cell of the version pass: each is a version up from the count
\* it is produced at.
Produced(produced, plain, f) ==
    produced = [k \in DOMAIN plain |-> Versioned(plain[k], f[k - 1][plain[k]] + 1)]

\* Produced, by the elements.
LEMMA ProducedAre ==
    ASSUME NEW plain \in Seq(Unversioned), NEW f, NEW produced, Produced(produced, plain, f)
    PROVE  /\ produced = [k \in 1..Len(plain) |-> produced[k]]
           /\ \A k \in 1..Len(plain) : produced[k] = Versioned(plain[k], f[k - 1][plain[k]] + 1)
<1>1. DOMAIN plain = 1..Len(plain)
  OBVIOUS
<1>2. PICK g : g = [k \in 1..Len(plain) |-> Versioned(plain[k], f[k - 1][plain[k]] + 1)]
  OBVIOUS
<1>3. /\ g = [k \in 1..Len(plain) |-> g[k]]
      /\ \A k \in 1..Len(plain) : g[k] = Versioned(plain[k], f[k - 1][plain[k]] + 1)
  BY <1>2
<1>4. produced = g
  BY <1>1, <1>2, Zenon DEF Produced
<1> QED BY <1>3, <1>4, Zenon

\* The k-th output: one version up from a count a, and the next count is at
\* least as high.
Rises(out, plain, f, k) ==
    \E t \in Ids, a \in Nat, b \in Nat :
       /\ plain = Plain(t) /\ f[k - 1][Plain(t)] = a /\ f[k][Plain(t)] = b
       /\ a + 1 <= b /\ out \in Tensor /\ out.id = t /\ out.v = a + 1 /\ ~out.fly
       /\ a = 0 \/ Odd(a) => First(out)

\* From a count that is 0 or odd, a version of the version pass.
LEMMA FirstProduced ==
    ASSUME NEW t \in Ids, NEW a \in Nat, NEW y, y = Versioned(Plain(t), a + 1)
    PROVE  /\ y \in Tensor /\ y.id = t /\ y.v = a + 1 /\ ~y.fly
           /\ a = 0 \/ Odd(a) => First(y)
<1> PICK x \in Tensor : x = Plain(t) /\ x.id = t /\ ~x.fly
  <2>1. Plain(t).id = t
    BY DEF Plain
  <2> QED BY <2>1, FlyIs, UnversionedAre
<1> PICK m \in Nat : m = a + 1
  OBVIOUS
<1>1. y \in Tensor /\ y.id = t /\ ~y.fly /\ y.v = m
  <2>1. y = Versioned(x, m)
    OBVIOUS
  <2> QED BY <2>1, VersionedIs
<1>2. a = 0 \/ Odd(a) => m = 1 \/ (m > 0 /\ ~Odd(m))
  BY DEF Odd
<1>3. a = 0 \/ Odd(a) => First(y)
  BY <1>1, <1>2 DEF First
<1> QED BY <1>1, <1>3

\* Each output rises.
LEMMA ProducedAt ==
    ASSUME NEW plain \in Seq(Unversioned), NEW f, Counted(f, plain),
           \A k \in 1..Len(plain) : ~plain[k].fly,
           NEW produced, Produced(produced, plain, f), NEW k \in 1..Len(plain)
    PROVE  Rises(produced[k], plain[k], f, k)
<1>1. PICK t \in Ids : plain[k] = Plain(t)
  <2>1. plain[k] \in Unversioned /\ ~plain[k].fly
    OBVIOUS
  <2> QED BY <2>1, PlainIs
<1> PICK x \in Unversioned : x = Plain(t)
  BY PlainIs
<1>2. k - 1 \in 0..Len(plain) /\ k \in 0..Len(plain)
  OBVIOUS
<1>3. f[k - 1] \in [Unversioned -> Nat] /\ f[k] \in [Unversioned -> Nat]
  BY <1>2 DEF Counted
<1>4. PICK a \in Nat, b \in Nat : a = f[k - 1][x] /\ b = f[k][x]
  BY <1>3
<1>5. a + 1 <= b
  <2>1. f[k - 1][plain[k]] + 1 <= f[k][plain[k]]
    BY CountsGrow
  <2> QED BY <2>1, <1>1, <1>4
<1>6. produced[k] = Versioned(Plain(t), a + 1)
  <2>1. produced[k] = Versioned(plain[k], f[k - 1][plain[k]] + 1)
    BY ProducedAre
  <2> QED BY <2>1, <1>1, <1>4
<1>7. /\ produced[k] \in Tensor /\ produced[k].id = t /\ produced[k].v = a + 1 /\ ~produced[k].fly
      /\ a = 0 \/ Odd(a) => First(produced[k])
  BY <1>6, FirstProduced, Zenon
<1> QED BY <1>1, <1>4, <1>5, <1>7 DEF Rises

\* The outputs of a cell get versions of the version pass, all above the counts
\* before the cell and up to those after it; one put out twice gets two.
LEMMA OutputsVersioned ==
    ASSUME latest \in [Unversioned -> Nat], NEW plain \in Seq(Unversioned), NEW f, Counted(f, plain),
           \A k \in 1..Len(plain) : ~plain[k].fly,
           \A t \in Ids : latest[Plain(t)] = 0 \/ Odd(latest[Plain(t)]),
           NEW produced, Produced(produced, plain, f)
    PROVE  /\ produced \in Seq(Tensor) /\ Len(produced) = Len(plain)
           /\ \A k \in 1..Len(produced) :
                /\ First(produced[k]) /\ ~produced[k].fly /\ produced[k].id \in Ids
                /\ latest[Plain(produced[k].id)] < produced[k].v
                /\ produced[k].v <= f[Len(produced)][Plain(produced[k].id)]
           /\ \A k, l \in 1..Len(produced) : produced[k] = produced[l] => k = l
<1> PICK n \in Nat : n = Len(plain)
  OBVIOUS
<1>1. produced \in Seq(Tensor) /\ Len(produced) = n
  <2>1. produced = [k \in 1..n |-> produced[k]] /\ \A k \in 1..n : produced[k] \in Tensor
    <3>1. \A k \in 1..n : produced[k] \in Tensor
      <4> SUFFICES ASSUME NEW k \in 1..n PROVE produced[k] \in Tensor
        OBVIOUS
      <4>1. Rises(produced[k], plain[k], f, k)
        BY ProducedAt
      <4> QED BY <4>1 DEF Rises
    <3> QED BY <3>1, ProducedAre
  <2>2. produced \in [1..n -> Tensor]
    BY <2>1
  <2> QED BY <2>2, IsSeq
<1>2. /\ f[0] = latest
      /\ \A k, l \in 0..n : k <= l => \A x \in Unversioned : f[k][x] <= f[l][x]
      /\ \A k \in 0..n : f[k] \in [Unversioned -> Nat]
  BY CountsGrow DEF Counted
<1>3. ASSUME NEW k \in 1..n
      PROVE  /\ First(produced[k]) /\ latest[Plain(produced[k].id)] < produced[k].v
             /\ produced[k].v <= f[n][Plain(produced[k].id)] /\ ~produced[k].fly /\ produced[k].id \in Ids
  <2>1. PICK t \in Ids, a \in Nat, b \in Nat :
            /\ f[k - 1][Plain(t)] = a /\ f[k][Plain(t)] = b
            /\ a + 1 <= b /\ produced[k].id = t /\ produced[k].v = a + 1 /\ ~produced[k].fly
            /\ a = 0 \/ Odd(a) => First(produced[k])
    <3>1. Rises(produced[k], plain[k], f, k)
      BY ProducedAt
    <3> QED BY <3>1 DEF Rises
  <2>2. PICK x \in Unversioned : x = Plain(t)
    BY PlainIs
  <2>3. /\ produced[k].id = t /\ produced[k].v = a + 1 /\ ~produced[k].fly
        /\ a = 0 \/ Odd(a) => First(produced[k])
    BY <2>1
  <2>4. 0 \in 0..n /\ k - 1 \in 0..n /\ k \in 0..n /\ n \in 0..n /\ 0 <= k - 1 /\ k <= n
    OBVIOUS
  <2>5. latest[x] <= a /\ b <= f[n][x]
    <3>1. f[0][x] <= f[k - 1][x] /\ f[k][x] <= f[n][x]
      BY <1>2, <2>4
    <3> QED BY <3>1, <1>2, <2>1, <2>2
  <2>6. latest[x] \in Nat /\ f[n][x] \in Nat
    BY <1>2, <2>4
  <2>7. latest[x] = 0 \/ Odd(latest[x])
    BY <2>2
  <2>8. a = 0 \/ Odd(a)
    <3>1. \A j \in 0..n : f[j][x] = 0 \/ Odd(f[j][x])
      BY <2>7, CountsOdd
    <3> QED BY <3>1, <2>1, <2>2, <2>4
  <2>9. latest[x] < a + 1 /\ a + 1 <= f[n][x]
    BY <2>1, <2>5, <2>6
  <2> QED BY <2>2, <2>3, <2>8, <2>9
<1>4. ASSUME NEW k \in 1..n, NEW l \in 1..n, k < l, produced[k] = produced[l] PROVE FALSE
  <2>1. PICK t \in Ids, a \in Nat, b \in Nat :
            /\ f[k - 1][Plain(t)] = a /\ f[k][Plain(t)] = b
            /\ a + 1 <= b /\ produced[k].id = t /\ produced[k].v = a + 1 /\ ~produced[k].fly
            /\ a = 0 \/ Odd(a) => First(produced[k])
    <3>1. Rises(produced[k], plain[k], f, k)
      BY ProducedAt
    <3> QED BY <3>1 DEF Rises
  <2>2. PICK u \in Ids, c \in Nat, d \in Nat :
            /\ f[l - 1][Plain(u)] = c /\ f[l][Plain(u)] = d
            /\ c + 1 <= d /\ produced[l].id = u /\ produced[l].v = c + 1
    <3>1. Rises(produced[l], plain[l], f, l)
      BY ProducedAt
    <3> QED BY <3>1 DEF Rises
  <2>3. t = u /\ a = c
    BY <1>4, <2>1, <2>2
  <2>4. k \in 0..n /\ l - 1 \in 0..n /\ k <= l - 1
    BY <1>4
  <2>5. PICK x \in Unversioned : x = Plain(t)
    BY PlainIs
  <2>6. f[k][x] <= f[l - 1][x]
    BY <1>2, <2>4
  <2> QED BY <2>1, <2>2, <2>3, <2>5, <2>6
<1>5. \A k, l \in 1..n : produced[k] = produced[l] => k = l
  <2> SUFFICES ASSUME NEW k \in 1..n, NEW l \in 1..n, produced[k] = produced[l] PROVE k = l
    OBVIOUS
  <2>1. ~(k < l) /\ ~(l < k)
    BY <1>4
  <2> QED BY <2>1
<1> QED BY <1>1, <1>3, <1>5

\* The counts after all outputs of a cell.
LEMMA CountsAfter ==
    ASSUME latest \in [Unversioned -> Nat], NEW plain \in Seq(Unversioned), NEW f, Counted(f, plain),
           \A t \in Ids : latest[Plain(t)] = 0 \/ Odd(latest[Plain(t)])
    PROVE  /\ f[Len(plain)] \in [Unversioned -> Nat]
           /\ \A t \in Ids : /\ latest[Plain(t)] <= f[Len(plain)][Plain(t)]
                             /\ f[Len(plain)][Plain(t)] = 0 \/ Odd(f[Len(plain)][Plain(t)])
<1> PICK n \in Nat : n = Len(plain)
  OBVIOUS
<1>1. 0 \in 0..n /\ n \in 0..n /\ 0 <= n
  OBVIOUS
<1>2. f[n] \in [Unversioned -> Nat] /\ f[0] = latest
  BY <1>1 DEF Counted
<1>3. ASSUME NEW t \in Ids
      PROVE  latest[Plain(t)] <= f[n][Plain(t)] /\ (f[n][Plain(t)] = 0 \/ Odd(f[n][Plain(t)]))
  <2>1. PICK x \in Unversioned : x = Plain(t)
    BY PlainIs
  <2>2. f[0][x] <= f[n][x]
    BY <1>1, CountsGrow
  <2>3. latest[x] = 0 \/ Odd(latest[x])
    BY <2>1
  <2>4. f[n][x] = 0 \/ Odd(f[n][x])
    BY <1>1, <2>3, CountsOdd
  <2> QED BY <1>2, <2>1, <2>2, <2>4
<1> QED BY <1>2, <1>3

\* A cell gets its versions.
LEMMA VersionCellStep == ASSUME DataflowIInv, VersionCell PROVE DataflowIInv'
<1>0. DataflowTypeOK /\ pass = 3 /\ i <= Len(cells)
  BY PassIs DEF DataflowIInv, VersionCell, At
<1>1. PICK c \in Cell : c = cells[i]
  BY <1>0, CellIs
<1>2. Fresh(c) /\ (c.op = "wred" => c.outs = <<>>)
  <2>1. i \in 1..Len(cells) /\ InOrder(cells)
    BY <1>0, CellIs DEF DataflowIInv, Ordered
  <2> QED BY <1>0, <1>1, <2>1 DEF DataflowIInv, Early, InOrder, Bucketed
<1>3. PICK read : read = [k \in DOMAIN c.ins |-> Versioned(c.ins[k], latest[c.ins[k]])]
  OBVIOUS
<1>4. latest \in [Unversioned -> Nat] /\ \A t \in Ids : latest[Plain(t)] = 0 \/ Odd(latest[Plain(t)])
  BY <1>0 DEF DataflowIInv, DataflowTypeOK, Numbered
<1>5. /\ read \in Seq(Tensor) /\ Len(read) = Len(c.ins)
      /\ \A k \in 1..Len(c.ins) : read[k].id = c.ins[k].id
  BY <1>2, <1>3, <1>4, InputsVersioned, Zenon DEF Fresh
<1>6. PICK f : f = Counts(c)
  OBVIOUS
<1>7. Counted(f, c.outs) /\ c.outs \in Seq(Unversioned)
  BY <1>2, <1>4, <1>6, CountsAre DEF Fresh
<1>8. PICK made : Produced(made, c.outs, f)
  BY DEF Produced
<1>9. /\ \/ c.op = "send" /\ Emit(<<[c EXCEPT !.ins = read]>>) /\ latest' = latest
         \/ /\ c.op # "send" /\ Emit(<<[c EXCEPT !.ins = read, !.outs = made]>>)
            /\ latest' = f[Len(c.outs)]
      /\ UNCHANGED <<grads, maxv>>
  BY <1>1, <1>3, <1>6, <1>8, Zenon DEF VersionCell, Produced
<1>10. CASE c.op = "send" /\ Emit(<<[c EXCEPT !.ins = read]>>) /\ latest' = latest
  <2>1. PICK d : d = [c EXCEPT !.ins = read]
    OBVIOUS
  <2>2. d \in Cell /\ d.op = c.op /\ d.outs = c.outs /\ d.ins = read
    BY <1>5, <2>1 DEF Cell
  <2>3. Keeps(d, c)
    BY <1>5, <1>10, <2>2 DEF Keeps
  <2>4. \A k \in 1..Len(d.outs) : d.outs[k].fly /\ First(d.outs[k])
    <3>1. \A k \in 1..Len(d.outs) : d.outs[k].fly /\ d.outs[k] \in Unversioned
      BY <1>2, <1>7, <1>10, <2>2 DEF Fresh
    <3>2. \A k \in 1..Len(d.outs) : d.outs[k].v = 0
      BY <3>1 DEF Unversioned
    <3> QED BY <3>1, <3>2 DEF First
  <2>5. Once(<<d>>)
    BY <2>2, <2>4, OnceCell
  <2>6. PICK new \in Seq(Cell) : new = <<d>>
    BY <2>2, OneCell, Zenon
  <2>7. /\ Len(new) <= 1 /\ \A j \in 1..Len(new) : Keeps(new[j], cells[i])
    BY <1>1, <2>3, <2>6
  <2>8. \A x \in Outputs(new, Len(new)) : x.fly /\ First(x)
    <3>1. \A x : x \in Outputs(<<d>>, Len(<<d>>)) <=> \E k \in 1..Len(d.outs) : x = d.outs[k]
      BY <2>2, OneCell, Zenon
    <3> QED BY <2>4, <2>6, <3>1
  <2>9. \A t \in Ids : /\ latest[Plain(t)] <= latest'[Plain(t)]
                       /\ latest'[Plain(t)] = 0 \/ Odd(latest'[Plain(t)])
    <3>1. \A t \in Ids : latest[Plain(t)] \in Nat
      BY <1>4, PlainIs
    <3> QED BY <1>4, <1>10, <3>1
  <2>10. Emit(new) /\ Once(new) /\ latest' \in [Unversioned -> Nat]
    BY <1>4, <1>10, <2>1, <2>5, <2>6
  <2> QED BY <1>0, <1>9, <2>7, <2>8, <2>9, <2>10, VersionPassStep
<1>11. CASE /\ c.op # "send" /\ Emit(<<[c EXCEPT !.ins = read, !.outs = made]>>)
            /\ latest' = f[Len(c.outs)]
  <2>0. \A k \in 1..Len(c.outs) : ~c.outs[k].fly
    BY <1>2, <1>11 DEF Fresh
  <2>1. PICK d : d = [c EXCEPT !.ins = read, !.outs = made]
    OBVIOUS
  <2>2. /\ made \in Seq(Tensor) /\ Len(made) = Len(c.outs)
        /\ \A k \in 1..Len(made) :
                /\ First(made[k]) /\ ~made[k].fly /\ made[k].id \in Ids
                /\ latest[Plain(made[k].id)] < made[k].v
                /\ made[k].v <= f[Len(made)][Plain(made[k].id)]
        /\ \A k, l \in 1..Len(made) : made[k] = made[l] => k = l
    BY <1>4, <1>7, <1>8, <2>0, OutputsVersioned
  <2>3. d \in Cell /\ d.op = c.op /\ d.outs = made /\ d.ins = read
    BY <1>5, <2>1, <2>2 DEF Cell
  <2>4. c.op = "wred" => made = <<>>
    BY <1>2, <2>2
  <2>5. Keeps(d, c)
    BY <1>5, <2>3, <2>4 DEF Keeps
  <2>6. Once(<<d>>)
    BY <2>2, <2>3, OnceCell
  <2>7. PICK new \in Seq(Cell) : new = <<d>>
    BY <2>3, OneCell, Zenon
  <2>8. Len(new) <= 1 /\ \A j \in 1..Len(new) : Keeps(new[j], cells[i])
    BY <1>1, <2>5, <2>7
  <2>9. \A x \in Outputs(new, Len(new)) :
           First(x) /\ (~x.fly => latest[Plain(x.id)] < x.v /\ x.v <= latest'[Plain(x.id)])
    <3>1. \A x : x \in Outputs(<<d>>, Len(<<d>>)) <=> \E k \in 1..Len(d.outs) : x = d.outs[k]
      BY <2>3, OneCell, Zenon
    <3>2. latest' = f[Len(made)]
      BY <1>11, <2>2
    <3>3. \A k \in 1..Len(made) :
             First(made[k]) /\ latest[Plain(made[k].id)] < made[k].v /\ made[k].v <= latest'[Plain(made[k].id)]
      BY <2>2, <3>2
    <3> QED BY <2>3, <2>7, <3>1, <3>3
  <2>10. /\ latest' \in [Unversioned -> Nat]
         /\ \A t \in Ids : /\ latest[Plain(t)] <= latest'[Plain(t)]
                           /\ latest'[Plain(t)] = 0 \/ Odd(latest'[Plain(t)])
    BY <1>4, <1>7, <1>11, CountsAfter, Zenon
  <2>11. Emit(new) /\ Once(new)
    BY <1>11, <2>1, <2>6, <2>7
  <2> QED BY <1>0, <1>9, <2>8, <2>9, <2>10, <2>11, VersionPassStep
<1> QED BY <1>9, <1>10, <1>11

\* A chunk that is there already goes.
LEMMA DiscardChunkStep == ASSUME DataflowIInv, DiscardChunk PROVE DataflowIInv'
<1>0. DataflowTypeOK /\ pass = 3 /\ i <= Len(cells)
  BY PassIs DEF DataflowIInv, DiscardChunk, At
<1>1. PICK new \in Seq(Cell) : new = <<>>
  BY Nothing
<1>2. Len(new) = 0 /\ Once(new) /\ \A x : x \notin Outputs(new, Len(new))
  BY <1>1, Nothing
<1>3. Emit(new) /\ UNCHANGED <<latest, grads, maxv>>
  BY <1>1 DEF DiscardChunk
<1>4. \A j \in 1..Len(new) : Keeps(new[j], cells[i])
  BY <1>2
<1>5. latest' \in [Unversioned -> Nat]
  BY <1>0, <1>3 DEF DataflowTypeOK
<1>6. \A t \in Ids : /\ latest[Plain(t)] <= latest'[Plain(t)]
                     /\ latest'[Plain(t)] = 0 \/ Odd(latest'[Plain(t)])
  <2>1. \A t \in Ids : latest[Plain(t)] = 0 \/ Odd(latest[Plain(t)])
    BY <1>0 DEF DataflowIInv, Numbered
  <2>2. \A t \in Ids : latest'[Plain(t)] = latest[Plain(t)] /\ latest'[Plain(t)] \in Nat
    BY <1>3, <1>5, PlainIs
  <2> QED BY <2>1, <2>2
<1>7. /\ Len(new) <= 1 /\ UNCHANGED <<grads, maxv>>
      /\ \A x \in Outputs(new, Len(new)) :
           First(x) /\ (~x.fly => latest[Plain(x.id)] < x.v /\ x.v <= latest'[Plain(x.id)])
  BY <1>2, <1>3
<1> QED BY <1>0, <1>2, <1>3, <1>4, <1>5, <1>6, <1>7, VersionPassStep

(***************************************************************************)
(* Accumulations.                                                          *)
(***************************************************************************)
\* The sum y is the version after x.
Adds(y, x) == y \in Tensor /\ ~y.fly /\ y.v > 2 /\ Odd(y.v) /\ Before(y) = x /\ x.fly = y.fly

\* A tensor is its name, its flight and its version.
LEMMA SameTensor ==
    ASSUME NEW x \in Tensor, NEW y \in Tensor, x.id = y.id, x.fly = y.fly, x.v = y.v
    PROVE  x = y
BY DEF Tensor

\* An accumulation puts out the version after x.
LEMMA AccumIs ==
    ASSUME NEW x \in Tensor, x.v > 1, First(x), NEW a, a = Accum(x)
    PROVE  a \in Cell /\ a.op = "accum" /\ Len(a.outs) = 1 /\ Adds(a.outs[1], x)
<1>1. x.v \in Nat /\ ~x.fly /\ ~Odd(x.v)
  <2>1. x.v \in Nat /\ x.v # 0 /\ x.v # 1
    BY PlainIs
  <2> QED BY <2>1 DEF First
<1>2. PICK n \in Nat, m \in Nat : n = x.v + 1 /\ m = x.v - 1
  BY <1>1
<1>3. n > 2 /\ Odd(n) /\ n - 1 = x.v
  BY <1>1, <1>2 DEF Odd
<1>4. PICK y \in Tensor : y = Versioned(x, n) /\ y.id = x.id /\ y.fly = x.fly /\ y.v = n
  BY VersionedIs
<1>5. PICK z \in Tensor : z = Versioned(x, m)
  BY VersionedIs
<1>6. Before(y) = x
  <2>1. Before(y) = Versioned(y, x.v)
    BY <1>3, <1>4 DEF Before
  <2>2. PICK b \in Tensor : b = Versioned(y, x.v) /\ b.id = y.id /\ b.fly = y.fly /\ b.v = x.v
    BY <1>1, VersionedIs
  <2>3. b = x
    BY <1>4, <2>2, SameTensor
  <2> QED BY <2>1, <2>2, <2>3
<1>7. a = [op |-> "accum", regs |-> <<>>, ins |-> <<z, x>>, outs |-> <<y>>]
  <2>1. z = Before(x) /\ y = Versioned(x, x.v + 1)
    BY <1>2, <1>4, <1>5 DEF Before
  <2> QED BY <2>1, Zenon DEF Accum
<1>8. <<z, x>> \in Seq(Tensor) /\ <<y>> \in Seq(Tensor) /\ <<>> \in Seq(WeightIds \X Ids)
  OBVIOUS
<1>9. a \in Cell /\ a.op = "accum" /\ a.outs = <<y>>
  BY <1>7, <1>8 DEF Cell, Ops
<1>10. Len(<<y>>) = 1 /\ <<y>>[1] = y
  OBVIOUS
<1> QED BY <1>1, <1>3, <1>4, <1>6, <1>9, <1>10 DEF Adds

\* Accumulations of different outputs put out different tensors.
LEMMA OnceSums ==
    ASSUME NEW list, NEW again,
           \A k \in 1..Len(list) : Len(list[k].outs) = 1 /\ Adds(list[k].outs[1], again[k]),
           \A k, l \in 1..Len(list) : ~again[k].fly /\ again[k] = again[l] => k = l
    PROVE  Once(list)
<1>1. ASSUME NEW p \in 1..Len(list), NEW q \in 1..Len(list),
             NEW j \in 1..Len(list[p].outs), NEW l \in 1..Len(list[q].outs),
             ~list[p].outs[j].fly, list[p].outs[j] = list[q].outs[l]
      PROVE  p = q /\ j = l
  <2>1. j = 1 /\ l = 1
    <3>1. Len(list[p].outs) = 1 /\ Len(list[q].outs) = 1
      OBVIOUS
    <3> QED BY <3>1
  <2>2. /\ Before(list[p].outs[1]) = again[p] /\ Before(list[q].outs[1]) = again[q]
        /\ again[p].fly = list[p].outs[1].fly
    BY DEF Adds
  <2>3. again[p] = again[q] /\ ~again[p].fly
    BY <1>1, <2>1, <2>2
  <2> QED BY <2>1, <2>3
<1> QED BY <1>1, OnceIf, Zenon

\* More cells have more outputs.
LEMMA OutputsGrow ==
    ASSUME NEW list, NEW n, NEW m, \A k \in 1..n : k \in 1..m, NEW x \in Outputs(list, n)
    PROVE  x \in Outputs(list, m)
BY DEF Outputs

\* The accumulations that follow a cell.
LEMMA AccumsAre ==
    ASSUME NEW c \in Cell, \A k \in 1..Len(c.outs) : First(c.outs[k]),
           \A j, l \in 1..Len(c.outs) : ~c.outs[j].fly /\ c.outs[j] = c.outs[l] => j = l,
           NEW accs, NEW again, again = Repeated(c), accs = [k \in DOMAIN again |-> Accum(again[k])]
    PROVE  /\ accs \in Seq(Cell) /\ \A k \in 1..Len(accs) : accs[k].op = "accum"
           /\ \A x : x \in Outputs(accs, Len(accs)) => \E j \in 1..Len(c.outs) : Adds(x, c.outs[j])
           /\ Once(accs)
           /\ c.outs = <<>> => Len(accs) = 0
<1>1. PICK produced \in Seq(Tensor) : produced = c.outs
  BY DEF Cell
<1>2. again \in Seq(Tensor) /\ Picked(again, produced, Len(produced), 1)
  BY <1>1, AboveIs, Zenon DEF Repeated
<1>3. PICK n \in Nat : n = Len(again)
  BY <1>2
<1>4. PICK m \in Nat : m = Len(produced)
  OBVIOUS
<1>5. PICK at \in [1..n -> 1..m] : /\ \A k \in 1..n : again[k] = produced[at[k]] /\ produced[at[k]].v > 1
                                   /\ \A k, l \in 1..n : k < l => at[k] < at[l]
  BY <1>2, <1>3, <1>4, Zenon DEF Picked
<1>6. ASSUME NEW k \in 1..n PROVE again[k] \in Tensor /\ again[k].v > 1 /\ First(again[k])
  <2>1. PICK u \in 1..m : again[k] = produced[u] /\ produced[u].v > 1
    BY <1>5
  <2>2. produced[u] \in Tensor
    BY <1>4
  <2>3. First(produced[u])
    BY <1>1, <1>4
  <2> QED BY <2>1, <2>2, <2>3, Zenon
<1>7. accs = [k \in 1..n |-> Accum(again[k])]
  BY <1>2, <1>3
<1>8. \A k \in 1..n : accs[k] = Accum(again[k])
  BY <1>7
<1>9. \A k \in 1..n : /\ accs[k] \in Cell /\ accs[k].op = "accum" /\ Len(accs[k].outs) = 1
                      /\ Adds(accs[k].outs[1], again[k])
  BY <1>6, <1>8, AccumIs
<1>10. accs \in Seq(Cell) /\ Len(accs) = n
  <2>1. accs \in [1..n -> Cell]
    BY <1>7, <1>8, <1>9
  <2> QED BY <2>1, IsSeq
<1>11. ASSUME NEW x, x \in Outputs(accs, n) PROVE \E j \in 1..m : Adds(x, produced[j])
  <2>1. PICK k \in 1..n : \E j \in DOMAIN accs[k].outs : x = accs[k].outs[j]
    BY <1>11, OutputsAre
  <2>2. DOMAIN accs[k].outs = 1..1
    <3>1. accs[k].outs \in Seq(Tensor)
      BY <1>9 DEF Cell
    <3> QED BY <1>9, <3>1
  <2>3. x = accs[k].outs[1]
    BY <2>1, <2>2
  <2>4. Adds(x, produced[at[k]]) /\ at[k] \in 1..m
    BY <1>5, <1>9, <2>3
  <2> QED BY <2>4, Zenon
<1>12. Once(accs)
  <2>1. ASSUME NEW p \in 1..n, NEW q \in 1..n, ~again[p].fly, again[p] = again[q] PROVE p = q
    <3>1. PICK u \in 1..m, w \in 1..m : u = at[p] /\ w = at[q]
      BY <1>5
    <3>2. u = w
      <4>1. produced[u] = produced[w] /\ ~produced[u].fly
        BY <1>5, <2>1, <3>1
      <4> QED BY <1>1, <1>4, <4>1
    <3>3. (p < q => u < w) /\ (q < p => w < u)
      BY <1>5, <3>1
    <3> QED BY <3>2, <3>3
  <2>2. PICK list : list = accs
    OBVIOUS
  <2>3. /\ \A k \in 1..Len(list) : Len(list[k].outs) = 1 /\ Adds(list[k].outs[1], again[k])
        /\ \A k, l \in 1..Len(list) : ~again[k].fly /\ again[k] = again[l] => k = l
    <3>1. \A k \in 1..n : Len(list[k].outs) = 1 /\ Adds(list[k].outs[1], again[k])
      BY <1>9, <2>2, Zenon
    <3>2. Len(list) = n
      BY <1>10, <2>2
    <3>3. \A k, l \in 1..n : ~again[k].fly /\ again[k] = again[l] => k = l
      BY <2>1, Zenon
    <3> QED BY <3>1, <3>2, <3>3, Zenon
  <2>4. Once(list)
    BY <2>3, OnceSums
  <2> QED BY <2>2, <2>4, Zenon
<1>13. c.outs = <<>> => n = 0
  <2>1. c.outs = <<>> => m = 0
    BY <1>1, <1>4
  <2>2. m = 0 /\ n # 0 => 1 \in 1..n /\ at[1] \in 1..0
    BY <1>5
  <2> QED BY <2>1, <2>2
<1>14. \A k \in 1..Len(accs) : accs[k].op = "accum"
  BY <1>9, <1>10
<1> QED BY <1>1, <1>4, <1>10, <1>11, <1>12, <1>13, <1>14, Zenon

\* A sum has an odd version above 2, so no version of the version pass, and the one
\* before it tells whose sum it is.
LEMMA InjectAccumStep == ASSUME DataflowIInv, InjectAccum PROVE DataflowIInv'
<1>0. DataflowTypeOK /\ pass = 4 /\ i <= Len(cells)
  BY PassIs DEF DataflowIInv, InjectAccum, At
<1>1. PICK c \in Cell : c = cells[i]
  BY <1>0, CellIs
<1>2. i \in 1..Len(cells) /\ cells \in Seq(Cell) /\ (c.op = "wred" => c.outs = <<>>)
  <2>1. i \in 1..Len(cells) /\ InOrder(cells)
    BY <1>0, CellIs DEF DataflowIInv, Ordered
  <2> QED BY <1>0, <1>1, <2>1 DEF DataflowTypeOK, InOrder, Bucketed
<1>3. Once(cells) /\ \A x \in Outputs(cells, Len(cells)) : First(x)
  BY <1>0 DEF DataflowIInv, Numbered
<1>4. /\ \A j \in 1..Len(c.outs) : ~c.outs[j].fly => c.outs[j] \notin Outputs(cells, i - 1)
      /\ Once(<<c>>)
  BY <1>1, <1>2, <1>3, NextIsNew
<1>5. /\ <<c>> \in Seq(Cell) /\ Len(<<c>>) = 1 /\ <<c>>[1] = c
      /\ \A x : x \in Outputs(<<c>>, 1) <=> \E k \in 1..Len(c.outs) : x = c.outs[k]
  <2>1. /\ <<c>> \in Seq(Cell) /\ Len(<<c>>) = 1 /\ <<c>>[1] = c
        /\ \A x : x \in Outputs(<<c>>, Len(<<c>>)) <=> \E k \in 1..Len(c.outs) : x = c.outs[k]
    BY OneCell, Zenon
  <2> QED BY <2>1
<1>6. DOMAIN c.outs = 1..Len(c.outs)
  BY DEF Cell
<1>7. /\ \A k \in 1..Len(c.outs) : c.outs[k] \in Outputs(cells, i)
      /\ \A x : x \in Outputs(cells, i - 1) => x \in Outputs(cells, i)
      /\ \A x : x \in Outputs(cells, i) => x \in Outputs(cells, Len(cells))
  <2>1. \A m \in 1..(i - 1) : m \in 1..i
    BY <1>2
  <2>2. \A m \in 1..i : m \in 1..Len(cells)
    BY <1>2
  <2>3. i \in 1..i
    BY <1>2
  <2>4. \A k \in 1..Len(c.outs) : c.outs[k] \in Outputs(cells, i)
    BY <1>1, <1>6, <2>3, OutputsAre
  <2>5. \A x : x \in Outputs(cells, i - 1) => x \in Outputs(cells, i)
    BY <2>1, OutputsGrow
  <2>6. \A x : x \in Outputs(cells, i) => x \in Outputs(cells, Len(cells))
    BY <2>2, OutputsGrow
  <2> QED BY <2>4, <2>5, <2>6
<1>8. \A k \in 1..Len(c.outs) : First(c.outs[k])
  BY <1>3, <1>7
<1>9. \A j, l \in 1..Len(c.outs) : ~c.outs[j].fly /\ c.outs[j] = c.outs[l] => j = l
  <2>1. 1 \in 1..Len(<<c>>)
    BY <1>5
  <2> QED BY <1>4, <1>5, <2>1 DEF Once
<1>10. PICK again, accs : again = Repeated(c) /\ accs = [k \in DOMAIN again |-> Accum(again[k])]
  OBVIOUS
<1>11. /\ accs \in Seq(Cell) /\ \A k \in 1..Len(accs) : accs[k].op = "accum"
       /\ \A x : x \in Outputs(accs, Len(accs)) => \E j \in 1..Len(c.outs) : Adds(x, c.outs[j])
       /\ Once(accs)
       /\ c.outs = <<>> => Len(accs) = 0
  BY <1>8, <1>9, <1>10, AccumsAre
<1>12. Emit(<<c>> \o accs) /\ UNCHANGED <<latest, grads, maxv>>
  BY <1>1, <1>10, Zenon DEF InjectAccum
<1>13. PICK new : new = <<c>> \o accs
  OBVIOUS
<1>14. /\ new \in Seq(Cell) /\ Len(new) = 1 + Len(accs)
       /\ \A k \in 1..Len(new) : new[k] = c \/ new[k].op = "accum"
       /\ \A x : x \in Outputs(new, Len(new)) <=> x \in Outputs(<<c>>, 1) \/ x \in Outputs(accs, Len(accs))
  <2>1. /\ new \in Seq(Cell) /\ Len(new) = 1 + Len(accs)
        /\ \A k \in 1..1 : new[k] = c
        /\ \A k \in 1..Len(accs) : new[1 + k] = accs[k]
        /\ \A k \in 1..(1 + Len(accs)) : k \in 1..1 \/ \E j \in 1..Len(accs) : k = 1 + j
    BY <1>5, <1>11, <1>13, Joined
  <2>2. ASSUME NEW k \in 1..Len(new) PROVE new[k] = c \/ new[k].op = "accum"
    <3>1. k \in 1..1 \/ \E j \in 1..Len(accs) : k = 1 + j
      BY <2>1
    <3> QED BY <1>11, <2>1, <3>1, Zenon
  <2>3. \A x : x \in Outputs(new, Len(new)) <=> x \in Outputs(<<c>>, Len(<<c>>)) \/ x \in Outputs(accs, Len(accs))
    BY <1>5, <1>11, <1>13, OutputsJoined, Zenon
  <2> QED BY <1>5, <2>1, <2>2, <2>3
<1>15. \A x : x \in Outputs(new, Len(new)) =>
          \/ \E j \in 1..Len(c.outs) : x = c.outs[j]
          \/ \E j \in 1..Len(c.outs) : Adds(x, c.outs[j])
  BY <1>5, <1>11, <1>14, Zenon
<1>16. \A x, y : Adds(x, y) => ~First(x) /\ ~x.fly /\ ~y.fly /\ x.v > 2 /\ Odd(x.v) /\ Before(x) = y
  <2> SUFFICES ASSUME NEW x, NEW y, Adds(x, y)
               PROVE  ~First(x) /\ ~x.fly /\ ~y.fly /\ x.v > 2 /\ Odd(x.v) /\ Before(x) = y
    OBVIOUS
  <2>1. x \in Tensor /\ ~x.fly /\ ~y.fly /\ x.v > 2 /\ Odd(x.v) /\ Before(x) = y
    BY DEF Adds
  <2>2. x.v # 1
    BY <2>1, PlainIs
  <2> QED BY <2>1, <2>2 DEF First
<1>17. Once(new)
  <2>1. \A x : x \in Outputs(<<c>>, Len(<<c>>)) /\ x \in Outputs(accs, Len(accs)) => x.fly
    BY <1>5, <1>8, <1>11, <1>16
  <2> QED BY <1>4, <1>5, <1>11, <1>13, <2>1, OnceJoined
<1>18. /\ Once(ret) /\ ret \in Seq(Cell)
       /\ \A x \in Outputs(ret, Len(ret)) : ~x.fly =>
           \/ x \in Outputs(cells, i - 1)
           \/ x.v > 2 /\ Odd(x.v) /\ Before(x) \in Outputs(cells, i - 1)
  BY <1>0 DEF DataflowIInv, Summed, DataflowTypeOK
<1>19. Emit(new)
  BY <1>12, <1>13
<1>20. /\ ret' = ret \o new /\ ret' \in Seq(Cell) /\ i' = i + 1
       /\ UNCHANGED <<prog, pass, cells, raised>>
  BY <1>0, <1>14, <1>19, Emitted
<1>21. ASSUME NEW x, x \in Outputs(ret, Len(ret)), x \in Outputs(new, Len(new)), ~x.fly PROVE FALSE
  <2>1. CASE \E j \in 1..Len(c.outs) : x = c.outs[j]
    <3>1. x \notin Outputs(cells, i - 1) /\ First(x)
      BY <1>4, <1>8, <1>21, <2>1
    <3>2. x.v > 2 /\ Odd(x.v)
      BY <1>18, <1>21, <3>1
    <3>3. x.v = 1 \/ (x.v > 0 /\ ~Odd(x.v))
      BY <1>21, <3>1 DEF First
    <3>4. x.v = 1
      BY <3>2, <3>3
    <3> QED BY <3>2, <3>4
  <2>2. CASE \E j \in 1..Len(c.outs) : Adds(x, c.outs[j])
    <3>1. PICK j \in 1..Len(c.outs) : Adds(x, c.outs[j])
      BY <2>2
    <3>2. ~First(x) /\ Before(x) = c.outs[j] /\ ~c.outs[j].fly
      BY <1>16, <3>1
    <3>3. x \notin Outputs(cells, i - 1)
      BY <1>3, <1>7, <3>2
    <3> QED BY <1>4, <1>18, <1>21, <3>2, <3>3
  <2> QED BY <1>15, <1>21, <2>1, <2>2
<1>22. Once(ret')
  BY <1>14, <1>17, <1>18, <1>20, <1>21, OnceJoined
<1>23. ASSUME NEW x \in Outputs(ret', Len(ret')), ~x.fly
       PROVE  \/ x \in Outputs(cells, i)
              \/ x.v > 2 /\ Odd(x.v) /\ Before(x) \in Outputs(cells, i)
  <2>1. x \in Outputs(ret, Len(ret)) \/ x \in Outputs(new, Len(new))
    BY <1>14, <1>18, <1>20, OutputsJoined
  <2>2. CASE x \in Outputs(ret, Len(ret))
    BY <1>7, <1>18, <1>23, <2>2
  <2>3. CASE x \in Outputs(new, Len(new))
    BY <1>7, <1>15, <1>16, <2>3
  <2> QED BY <2>1, <2>2, <2>3
<1>24. Summed'
  <2>1. i' - 1 = i /\ cells' = cells
    BY <1>2, <1>20
  <2> QED BY <1>22, <1>23, <2>1 DEF Summed
<1>25. \A j \in 1..Len(new) : Keeps(new[j], cells[i])
  <2>1. c.op = "wred" => Len(new) = 1
    BY <1>2, <1>11, <1>14
  <2>2. new[1] = c
    BY <1>5, <1>11, <1>13, Joined
  <2>3. Keeps(c, c)
    BY <1>2 DEF Keeps
  <2>4. CASE c.op = "wred"
    <3>1. \A j \in 1..Len(new) : j = 1
      <4>1. PICK k : k = Len(new)
        OBVIOUS
      <4>2. k = 1
        BY <2>1, <2>4, <4>1
      <4>3. \A j \in 1..k : j = 1
        BY <4>2
      <4> QED BY <4>1, <4>3, Zenon
    <3>2. Keeps(new[1], cells[i])
      BY <1>1, <2>2, <2>3
    <3> QED BY <3>1, <3>2
  <2>5. CASE c.op # "wred"
    <3>1. \A j \in 1..Len(new) : new[j].op # "wred"
      BY <1>14, <2>5
    <3> QED BY <1>1, <2>5, <3>1 DEF Keeps
  <2> QED BY <2>4, <2>5
<1>26. Ordered'
  <2>1. cells[i].op = "wred" => Len(new) <= 1
    BY <1>1, <1>2, <1>11, <1>14
  <2> QED BY <1>0, <1>14, <1>19, <1>25, <2>1, OrderedStep
<1>27. DataflowTypeOK'
  BY <1>0, <1>12, <1>14, <1>19, EmittedTypes DEF DataflowTypeOK
<1>28. Early' /\ ReducedOnce' /\ Numbered'
  BY <1>0, <1>3, <1>20 DEF Early, ReducedOnce, Numbered
<1>29. Apart'
  BY <1>12 DEF DataflowIInv, Apart
<1> QED BY <1>24, <1>26, <1>27, <1>28, <1>29 DEF DataflowIInv

(***************************************************************************)
(* The reduce pass.                                                        *)
(***************************************************************************)
\* Contains, by the range.
LEMMA ContainsIs ==
    ASSUME NEW S, NEW s \in Seq(S), NEW e
    PROVE  Contains(s, e) <=> e \in Range(s)
BY DEF Contains, Range

\* A reducer has only reducers behind it, of other weights.
LEMMA ReducersBefore ==
    ASSUME DataflowIInv, pass = 5, i \in 1..Len(cells), NEW m \in 1..(i - 1), cells[m].op = "wred"
    PROVE  /\ cells[i].op = "wred" /\ Reduces(cells[m]) \cap Reduces(cells[i]) = {}
           /\ Reduces(cells[m]) \subseteq WeightIds
<1>1. InOrder(cells)
  BY DEF DataflowIInv, Ordered
<1>2. m \in 1..Len(cells) /\ m < i
  OBVIOUS
<1>3. Behind(cells[m], cells[i]) /\ Bucketed(cells[m])
  BY <1>1, <1>2 DEF InOrder
<1> QED BY <1>3, Zenon DEF Behind, Bucketed

\* The reduce pass, whatever it makes of a cell.
LEMMA ReducePassStep ==
    ASSUME DataflowIInv, pass = 5, i <= Len(cells), NEW new \in Seq(Cell), Emit(new), Once(new),
           grads' \in [WeightIds -> Seq(Ids)], maxv' = MaxSeen(cells[i]), UNCHANGED latest, Apart',
           \A x : x \in Outputs(ret, Len(ret)) /\ x \in Outputs(new, Len(new)) => x.fly,
           \A x \in Outputs(ret', Len(ret')) : ~x.fly =>
              \/ x \in Outputs(cells, i)
              \/ \E m \in 1..i : /\ cells[m].op = "wred"
                                 /\ \E w1 \in Reduces(cells[m]) : x.id \in Range(grads'[w1])
    PROVE  DataflowIInv'
<1>0. DataflowTypeOK /\ Once(cells) /\ Once(ret) /\ InOrder(cells)
      /\ \A x \in Outputs(cells, i - 1) : x.v <= maxv[x.id]
  BY DEF DataflowIInv, ReducedOnce, Ordered
<1>1. PICK c \in Cell : c = cells[i]
  BY <1>0, CellIs
<1>2. /\ ret' = ret \o new /\ ret' \in Seq(Cell) /\ ret \in Seq(Cell) /\ i' = i + 1
      /\ UNCHANGED <<prog, pass, cells, raised>> /\ i \in 1..Len(cells) /\ cells \in Seq(Cell)
  BY <1>0, Emitted DEF DataflowTypeOK
<1>3. /\ maxv' \in [Ids -> Nat] /\ \A t \in Ids : maxv[t] <= maxv'[t]
      /\ \A k \in 1..Len(c.outs) : c.outs[k].v <= maxv'[c.outs[k].id]
  <2>1. c.ins \in Seq(Tensor) /\ c.outs \in Seq(Tensor)
    BY DEF Cell
  <2>2. maxv \in [Ids -> Nat]
    BY <1>0 DEF DataflowTypeOK
  <2> QED BY <1>1, <2>1, <2>2, MaxSeenIs
<1>4. DataflowTypeOK'
  BY <1>0, <1>3, EmittedTypes DEF DataflowTypeOK
<1>5. Once(ret')
  BY <1>0, <1>2, OnceJoined
<1>6. ASSUME NEW x \in Outputs(cells, i) PROVE x.v <= maxv'[x.id]
  <2>1. x \in Outputs(cells, i - 1) \/ \E k \in 1..Len(c.outs) : x = c.outs[k]
    <3>1. PICK n \in Nat : n = i - 1
      BY <1>2
    <3>2. i = n + 1
      BY <1>2, <3>1
    <3>3. x \in Outputs(cells, n) \/ x \in Range(cells[n + 1].outs)
      BY <1>6, <3>2, OneMoreCell
    <3>4. DOMAIN c.outs = 1..Len(c.outs)
      BY DEF Cell
    <3>5. x \in Range(c.outs) => \E k \in 1..Len(c.outs) : x = c.outs[k]
      BY <3>4 DEF Range
    <3> QED BY <1>1, <3>1, <3>2, <3>3, <3>5
  <2>2. CASE x \in Outputs(cells, i - 1)
    <3>1. i - 1 \in 0..Len(cells)
      BY <1>2
    <3>2. x \in Tensor
      BY <1>2, <2>2, <3>1, OutputsTyped
    <3>3. x.id \in Ids /\ x.v \in Nat
      BY <3>2, PlainIs
    <3>4. maxv[x.id] \in Nat /\ maxv'[x.id] \in Nat
      BY <1>0, <1>3, <3>3 DEF DataflowTypeOK
    <3> QED BY <1>0, <1>3, <2>2, <3>3, <3>4
  <2> QED BY <1>3, <2>1, <2>2
<1>7. ReducedOnce'
  <2>1. i' - 1 = i /\ cells' = cells /\ pass' = 5
    BY <1>2
  <2> QED BY <1>0, <1>5, <1>6, <2>1 DEF ReducedOnce
<1>8. Early' /\ Summed' /\ Numbered' /\ Ordered'
  <2>1. pass' = 5 /\ cells' = cells
    BY <1>2
  <2> QED BY <1>0, <2>1 DEF Early, Summed, Numbered, Ordered
<1> QED BY <1>4, <1>7, <1>8 DEF DataflowIInv

\* Gradients stay registered for one weight each.
LEMMA ApartStep ==
    ASSUME DataflowTypeOK, Apart, NEW c \in Cell, c.op = "fw", Registrable(c),
           NEW w1 \in WeightIds, NEW w2 \in WeightIds, w1 # w2, NEW g,
           g \in Range(Registered(c, w1)), g \in Range(Registered(c, w2))
    PROVE  FALSE
<1>1. grads \in [WeightIds -> Seq(Ids)] /\ c.regs \in Seq(WeightIds \X Ids)
  BY DEF DataflowTypeOK, Cell
<1>2. PICK a \in Seq(Ids), b \in Seq(Ids) : a = Registered(c, w1) /\ b = Registered(c, w2)
  BY <1>1, RegisteredAre
<1>3. RegisteredFor(a, c, w1) /\ RegisteredFor(b, c, w2)
  BY <1>1, <1>2, RegisteredAre, Zenon
<1>4. g \in Range(grads[w1]) \/ \E n \in 1..Len(c.regs) : c.regs[n] = <<w1, g>>
  <2>1. PICK k \in DOMAIN a : a[k] = g
    BY <1>2 DEF Range
  <2>2. k \in 1..Len(a)
    BY <2>1
  <2> QED BY <1>3, <2>1, <2>2, Zenon DEF RegisteredFor
<1>5. g \in Range(grads[w2]) \/ \E n \in 1..Len(c.regs) : c.regs[n] = <<w2, g>>
  <2>1. PICK k \in DOMAIN b : b[k] = g
    BY <1>2 DEF Range
  <2>2. k \in 1..Len(b)
    BY <2>1
  <2> QED BY <1>3, <2>1, <2>2, Zenon DEF RegisteredFor
<1>6. Contains(a, g) /\ Contains(b, g)
  BY <1>2, ContainsIs, Zenon
<1>7. DOMAIN c.regs = 1..Len(c.regs)
  BY <1>1
<1>8. \A k \in 1..Len(c.regs) : \A w \in WeightIds \ {c.regs[k][1]} : ~Contains(Registered(c, w), c.regs[k][2])
  BY <1>7, Zenon DEF Registrable
<1>9. \A n \in 1..Len(c.regs) : c.regs[n] # <<w1, g>>
  <2> SUFFICES ASSUME NEW n \in 1..Len(c.regs), c.regs[n] = <<w1, g>> PROVE FALSE
    OBVIOUS
  <2>1. c.regs[n][1] = w1 /\ c.regs[n][2] = g
    OBVIOUS
  <2>2. w2 \in WeightIds \ {c.regs[n][1]}
    BY <2>1
  <2>3. ~Contains(Registered(c, w2), c.regs[n][2])
    BY <1>8, <2>2, Zenon
  <2> QED BY <1>2, <1>6, <2>1, <2>3, Zenon
<1>10. \A n \in 1..Len(c.regs) : c.regs[n] # <<w2, g>>
  <2> SUFFICES ASSUME NEW n \in 1..Len(c.regs), c.regs[n] = <<w2, g>> PROVE FALSE
    OBVIOUS
  <2>1. c.regs[n][1] = w2 /\ c.regs[n][2] = g
    OBVIOUS
  <2>2. w1 \in WeightIds \ {c.regs[n][1]}
    BY <2>1
  <2>3. ~Contains(Registered(c, w1), c.regs[n][2])
    BY <1>8, <2>2, Zenon
  <2> QED BY <1>2, <1>6, <2>1, <2>3, Zenon
<1>11. g \in Range(grads[w1]) /\ g \in Range(grads[w2])
  BY <1>4, <1>5, <1>9, <1>10, Zenon
<1> QED BY <1>11, Zenon DEF Apart

\* A cell that is no reducer stays as it is; its gradients are registered.
LEMMA RegisterStep == ASSUME DataflowIInv, Register PROVE DataflowIInv'
<1>0. DataflowTypeOK /\ pass = 5 /\ i <= Len(cells) /\ Apart
  BY PassIs DEF DataflowIInv, Register, At
<1>1. PICK c \in Cell : c = cells[i] /\ c.op # "wred" /\ Registrable(c)
  BY <1>0, CellIs DEF Register
<1>2. i \in 1..Len(cells) /\ cells \in Seq(Cell) /\ Once(cells) /\ ret \in Seq(Cell)
  BY <1>0, CellIs DEF DataflowTypeOK, DataflowIInv, ReducedOnce
<1>3. /\ grads' = IF c.op = "fw" THEN [w \in WeightIds |-> Registered(c, w)] ELSE grads
      /\ maxv' = MaxSeen(c) /\ Emit(<<c>>) /\ UNCHANGED latest
  BY <1>1, Zenon DEF Register
<1>4. grads' \in [WeightIds -> Seq(Ids)] /\ Apart'
  <2>1. CASE c.op # "fw"
    <3>1. grads' = grads
      BY <1>3, <2>1
    <3> QED BY <1>0, <3>1 DEF DataflowTypeOK, Apart
  <2>2. CASE c.op = "fw"
    <3>1. grads' = [w \in WeightIds |-> Registered(c, w)]
      BY <1>3, <2>2
    <3>2. \A w \in WeightIds : Registered(c, w) \in Seq(Ids)
      BY <1>0, RegisteredAre DEF DataflowTypeOK, Cell
    <3>3. grads' \in [WeightIds -> Seq(Ids)]
      BY <3>1, <3>2
    <3>4. \A w \in WeightIds : grads'[w] = Registered(c, w)
      BY <3>1
    <3>5. ASSUME NEW w1 \in WeightIds, NEW w2 \in WeightIds, w1 # w2
          PROVE  Range(grads'[w1]) \cap Range(grads'[w2]) = {}
      <4>1. \A g : g \in Range(Registered(c, w1)) => g \notin Range(Registered(c, w2))
        BY <1>0, <1>1, <2>2, <3>5, ApartStep
      <4> QED BY <3>4, <4>1
    <3> QED BY <3>3, <3>5 DEF Apart
  <2> QED BY <2>1, <2>2
<1>5. /\ \A j \in 1..Len(c.outs) : ~c.outs[j].fly => c.outs[j] \notin Outputs(cells, i - 1)
      /\ Once(<<c>>)
  BY <1>1, <1>2, NextIsNew
<1>6. PICK new \in Seq(Cell) : new = <<c>>
  BY OneCell, Zenon
<1>7. \A x : x \in Outputs(new, Len(new)) <=> \E k \in 1..Len(c.outs) : x = c.outs[k]
  BY <1>6, OneCell
<1>8. ~\E m \in 1..(i - 1) : cells[m].op = "wred"
  BY <1>0, <1>1, <1>2, ReducersBefore
<1>9. \A x \in Outputs(ret, Len(ret)) : ~x.fly => x \in Outputs(cells, i - 1)
  BY <1>0, <1>8 DEF DataflowIInv, ReducedOnce
<1>10. \A x : x \in Outputs(ret, Len(ret)) /\ x \in Outputs(new, Len(new)) => x.fly
  BY <1>5, <1>7, <1>9
<1>11. Emit(new) /\ Once(new)
  BY <1>3, <1>5, <1>6
<1>12. ASSUME NEW x \in Outputs(ret', Len(ret')), ~x.fly PROVE x \in Outputs(cells, i)
  <2>1. x \in Outputs(ret, Len(ret)) \/ x \in Outputs(new, Len(new))
    <3>1. ret' = ret \o new
      BY <1>0, <1>11, Emitted
    <3> QED BY <1>2, <3>1, OutputsJoined
  <2>2. \A k \in 1..(i - 1) : k \in 1..i
    BY <1>2
  <2>3. CASE x \in Outputs(ret, Len(ret))
    BY <1>9, <1>12, <2>2, <2>3, OutputsGrow
  <2>4. CASE x \in Outputs(new, Len(new))
    <3>1. PICK k \in 1..Len(c.outs) : x = c.outs[k]
      BY <1>7, <2>4
    <3>2. DOMAIN c.outs = 1..Len(c.outs) /\ i \in 1..i
      BY <1>2 DEF Cell
    <3> QED BY <1>1, <3>1, <3>2, OutputsAre
  <2> QED BY <2>1, <2>3, <2>4
<1> QED BY <1>0, <1>1, <1>3, <1>4, <1>10, <1>11, <1>12, ReducePassStep

\* Nothing but raised changes.
LEMMA RaiseStep == ASSUME DataflowIInv, Raise PROVE DataflowIInv'
<1>1. UNCHANGED <<prog, pass, cells, i, ret, latest, grads, maxv>> /\ raised' = TRUE
  BY DEF Raise
<1>2. DataflowTypeOK'
  BY <1>1 DEF DataflowIInv, DataflowTypeOK
<1>3. Early' /\ Ordered' /\ Numbered'
  BY <1>1 DEF DataflowIInv, Early, Ordered, Numbered
<1>4. Summed' /\ Apart' /\ ReducedOnce'
  BY <1>1 DEF DataflowIInv, Summed, Apart, ReducedOnce
<1> QED BY <1>2, <1>3, <1>4 DEF DataflowIInv

\* What a split reducer puts out.
Reduction(y, g) == y \in Tensor /\ ~y.fly /\ y.id = g /\ y.v = maxv[g] + 1

\* A gradient at its next version.
LEMMA NextVersion ==
    ASSUME NEW g \in Ids, NEW n \in Nat
    PROVE  \E y \in Tensor : y = Versioned(Plain(g), n + 1) /\ y.id = g /\ ~y.fly /\ y.v = n + 1
<1> PICK y : y = Versioned(Plain(g), n + 1)
  OBVIOUS
<1>1. y \in Tensor /\ y.id = g /\ ~y.fly /\ y.v = n + 1
  BY FirstProduced
<1> QED BY <1>1

\* The reducer of a weight puts out the next version of one of its gradients.
LEMMA ReducerIs ==
    ASSUME DataflowTypeOK, NEW w \in WeightIds, grads[w] # <<>>, NEW d, d = Reducer(w)
    PROVE  /\ d \in Cell /\ Len(d.outs) = 1
           /\ \E g \in Range(grads[w]) : g \in Ids /\ Reduction(d.outs[1], g)
<1>1. PICK s \in Seq(Ids) : s = grads[w]
  BY DEF DataflowTypeOK
<1>2. PICK g \in Ids : g = Reduced(w) /\ g \in Range(s)
  <2>1. Len(s) \in 1..Len(s) /\ DOMAIN s = 1..Len(s)
    BY <1>1
  <2>2. s[Len(s)] \in Ids /\ s[Len(s)] \in Range(s)
    BY <2>1 DEF Range
  <2>3. Reduced(w) = s[Len(s)]
    BY <1>1 DEF Reduced, Last
  <2> QED BY <2>2, <2>3
<1>3. PICK n \in Nat : n = maxv[g]
  BY DEF DataflowTypeOK
<1>4. PICK y \in Tensor : y = Versioned(Plain(g), n + 1) /\ y.id = g /\ ~y.fly /\ y.v = n + 1
  BY NextVersion, Zenon
<1>5. \E x \in Tensor : x = Versioned(Plain(g), n)
  <2>2. Plain(g) \in Tensor
    BY FlyIs, UnversionedAre
  <2>3. Versioned(Plain(g), n) \in Tensor
    <3>1. PICK p \in Tensor : p = Plain(g)
      BY <2>2
    <3>2. Versioned(p, n) \in Tensor
      BY VersionedIs
    <3> QED BY <3>1, <3>2
  <2> QED BY <2>3
<1> PICK x \in Tensor : x = Versioned(Plain(g), n)
  BY <1>5
<1>6. d = [op |-> "wred", regs |-> <<<<w, g>>>>, ins |-> <<x>>, outs |-> <<y>>]
  <2>1. d = [op |-> "wred", regs |-> <<<<w, g>>>>,
             ins |-> <<Versioned(Plain(g), maxv[g])>>, outs |-> <<Versioned(Plain(g), maxv[g] + 1)>>]
    BY <1>2, Zenon DEF Reducer, Final
  <2> QED BY <1>3, <1>4, <2>1, Zenon
<1>7. <<x>> \in Seq(Tensor) /\ <<y>> \in Seq(Tensor) /\ <<<<w, g>>>> \in Seq(WeightIds \X Ids)
  <2>1. PICK e \in WeightIds \X Ids : e = <<w, g>>
    OBVIOUS
  <2>2. <<e>> \in Seq(WeightIds \X Ids)
    OBVIOUS
  <2>3. <<x>> \in Seq(Tensor) /\ <<y>> \in Seq(Tensor)
    BY <1>4
  <2> QED BY <2>1, <2>2, <2>3, Zenon
<1>8. d \in Cell /\ d.outs = <<y>>
  BY <1>6, <1>7 DEF Cell, Ops
<1>9. Len(<<y>>) = 1 /\ <<y>>[1] = y
  OBVIOUS
<1>10. Reduction(y, g)
  BY <1>3, <1>4 DEF Reduction
<1> QED BY <1>1, <1>2, <1>8, <1>9, <1>10

\* Each reducer of a split puts out a gradient of its weight.
Splits(list, reads, n) ==
    \A k \in 1..n :
       /\ list[k] \in Cell /\ Len(list[k].outs) = 1
       /\ \E g \in Range(grads[reads[k].id]) : g \in Ids /\ Reduction(list[k].outs[1], g)

\* The reducers of a split are of different weights, so of different gradients.
LEMMA SplitOnce ==
    ASSUME Apart, NEW list, NEW reads, Splits(list, reads, Len(list)),
           \A k \in 1..Len(list) : reads[k].id \in WeightIds,
           \A k, l \in 1..Len(list) : k # l => reads[k].id # reads[l].id
    PROVE  Once(list)
<1>1. ASSUME NEW p \in 1..Len(list), NEW q \in 1..Len(list),
             NEW j \in 1..Len(list[p].outs), NEW l \in 1..Len(list[q].outs),
             ~list[p].outs[j].fly, list[p].outs[j] = list[q].outs[l]
      PROVE  p = q /\ j = l
  <2>1. j = 1 /\ l = 1
    <3>1. Len(list[p].outs) = 1 /\ Len(list[q].outs) = 1
      BY DEF Splits
    <3> QED BY <3>1
  <2>2. PICK g \in Range(grads[reads[p].id]) : list[p].outs[1].id = g
    BY DEF Splits, Reduction
  <2>3. PICK h \in Range(grads[reads[q].id]) : list[q].outs[1].id = h
    BY DEF Splits, Reduction
  <2>4. g = h
    BY <1>1, <2>1, <2>2, <2>3
  <2>5. PICK w1 \in WeightIds, w2 \in WeightIds : w1 = reads[p].id /\ w2 = reads[q].id
    OBVIOUS
  <2>6. w1 = w2
    <3>1. g \in Range(grads[w1]) /\ g \in Range(grads[w2])
      BY <2>4, <2>5
    <3> QED BY <3>1 DEF Apart
  <2> QED BY <2>1, <2>5, <2>6
<1> QED BY <1>1, OnceIf, Zenon

\* A split reducer puts out versions above all there were, or comes after a reducer
\* of the same weight, which there is none of.
LEMMA SplitReducerStep == ASSUME DataflowIInv, SplitReducer PROVE DataflowIInv'
<1>0. DataflowTypeOK /\ pass = 5 /\ i <= Len(cells) /\ Apart
  BY PassIs DEF DataflowIInv, SplitReducer, At
<1>1. PICK c \in Cell : c = cells[i] /\ c.op = "wred" /\ Registrable(c)
  BY <1>0, CellIs DEF SplitReducer
<1>2. i \in 1..Len(cells) /\ cells \in Seq(Cell) /\ ret \in Seq(Cell) /\ InOrder(cells)
  BY <1>0, CellIs DEF DataflowTypeOK, DataflowIInv, Ordered
<1>3. PICK reads \in Seq(Tensor) : reads = c.ins
  BY DEF Cell
<1>4. PICK n \in Nat : n = Len(reads)
  OBVIOUS
<1>5. DOMAIN reads = 1..n
  BY <1>4
<1>6. /\ \A k \in 1..n : reads[k].id \in Reduces(c)
      /\ \A w \in Reduces(c) : w \in WeightIds
      /\ \A k, l \in 1..n : k # l => reads[k].id # reads[l].id
  <2>1. Bucketed(c)
    BY <1>1, <1>2 DEF InOrder
  <2>2. /\ \A w \in Reduces(c) : w \in WeightIds
        /\ \A k, l \in 1..n : k # l => reads[k].id # reads[l].id
    BY <1>1, <1>3, <1>4, <2>1 DEF Bucketed
  <2>3. \A k \in 1..n : reads[k].id \in Reduces(c)
    BY <1>3, <1>5 DEF Reduces, Range
  <2> QED BY <2>2, <2>3
<1>7. \A k \in 1..n : grads[reads[k].id] # <<>>
  BY <1>1, <1>3, <1>5, Zenon DEF Registrable
<1>8. PICK new : new = [k \in 1..n |-> Reducer(reads[k].id)]
  OBVIOUS
<1>9. Emit(new) /\ maxv' = MaxSeen(c) /\ UNCHANGED <<latest, grads>>
  BY <1>1, <1>3, <1>5, <1>8, Zenon DEF SplitReducer
<1>10. Splits(new, reads, n)
  <2>1. ASSUME NEW k \in 1..n
        PROVE  /\ new[k] \in Cell /\ Len(new[k].outs) = 1
               /\ \E g \in Range(grads[reads[k].id]) : g \in Ids /\ Reduction(new[k].outs[1], g)
    <3>1. PICK w \in WeightIds : w = reads[k].id /\ grads[w] # <<>>
      BY <1>6, <1>7
    <3>2. new[k] = Reducer(w)
      BY <1>8, <3>1
    <3>3. /\ new[k] \in Cell /\ Len(new[k].outs) = 1
          /\ \E g \in Range(grads[w]) : g \in Ids /\ Reduction(new[k].outs[1], g)
      BY <1>0, <3>1, <3>2, ReducerIs
    <3> QED BY <3>1, <3>3
  <2> QED BY <2>1, Zenon DEF Splits
<1>11. new \in Seq(Cell) /\ Len(new) = n
  <2>1. \A k \in 1..n : new[k] \in Cell
    BY <1>10 DEF Splits
  <2>2. new \in [1..n -> Cell]
    BY <1>8, <2>1
  <2> QED BY <2>2, IsSeq
<1>12. Once(new)
  <2>1. \A k \in 1..Len(new) : reads[k].id \in WeightIds
    BY <1>6, <1>11
  <2>2. \A k, l \in 1..Len(new) : k # l => reads[k].id # reads[l].id
    BY <1>6, <1>11
  <2>3. Splits(new, reads, Len(new))
    BY <1>10, <1>11, Zenon
  <2> QED BY <1>0, <2>1, <2>2, <2>3, SplitOnce
\* What the reducers put out: gradients of the cell's weights, at a new version.
<1>13. ASSUME NEW x \in Outputs(new, Len(new))
       PROVE  \E w \in Reduces(c) : \E g \in Range(grads[w]) : g \in Ids /\ Reduction(x, g)
  <2>1. PICK k \in 1..n : \E j \in DOMAIN new[k].outs : x = new[k].outs[j]
    BY <1>11, <1>13, OutputsAre
  <2>2. /\ new[k] \in Cell /\ Len(new[k].outs) = 1
        /\ \E g \in Range(grads[reads[k].id]) : g \in Ids /\ Reduction(new[k].outs[1], g)
    BY <1>10, Zenon DEF Splits
  <2>3. x = new[k].outs[1]
    <3>1. new[k].outs \in Seq(Tensor)
      BY <2>2 DEF Cell
    <3>2. DOMAIN new[k].outs = 1..1
      BY <2>2, <3>1
    <3> QED BY <2>1, <3>2
  <2> QED BY <1>6, <2>2, <2>3, Zenon
<1>14. ASSUME NEW x, x \in Outputs(ret, Len(ret)), x \in Outputs(new, Len(new)), ~x.fly PROVE FALSE
  <2>1. PICK w \in Reduces(c) : \E g \in Range(grads[w]) : g \in Ids /\ Reduction(x, g)
    BY <1>13, <1>14
  <2>2. PICK g \in Range(grads[w]) : g \in Ids /\ Reduction(x, g)
    BY <2>1
  <2>3. x.id = g /\ x.v = maxv[g] + 1 /\ maxv[g] \in Nat
    BY <1>0, <2>2 DEF Reduction, DataflowTypeOK
  <2>4. x \notin Outputs(cells, i - 1)
    <3>1. \A y \in Outputs(cells, i - 1) : y.v <= maxv[y.id]
      BY <1>0 DEF DataflowIInv, ReducedOnce
    <3>2. ~(x.v <= maxv[x.id])
      BY <2>3
    <3> QED BY <3>1, <3>2
  <2>5. PICK m \in 1..(i - 1) : /\ cells[m].op = "wred"
                                /\ \E w1 \in Reduces(cells[m]) : x.id \in Range(grads[w1])
    BY <1>0, <1>14, <2>4 DEF DataflowIInv, ReducedOnce
  <2>6. PICK w1 \in Reduces(cells[m]) : x.id \in Range(grads[w1])
    BY <2>5
  <2>7. Reduces(cells[m]) \cap Reduces(c) = {} /\ Reduces(cells[m]) \subseteq WeightIds
    BY <1>0, <1>1, <1>2, <2>5, ReducersBefore
  <2>8. w1 # w /\ w1 \in WeightIds /\ w \in WeightIds
    BY <1>6, <2>7
  <2>9. g \in Range(grads[w1]) /\ g \in Range(grads[w])
    BY <2>3, <2>6
  <2> QED BY <1>0, <2>8, <2>9 DEF Apart
<1>15. ASSUME NEW x \in Outputs(ret', Len(ret')), ~x.fly
       PROVE  \/ x \in Outputs(cells, i)
              \/ \E m \in 1..i : /\ cells[m].op = "wred"
                                 /\ \E w1 \in Reduces(cells[m]) : x.id \in Range(grads'[w1])
  <2>1. x \in Outputs(ret, Len(ret)) \/ x \in Outputs(new, Len(new))
    <3>1. ret' = ret \o new
      BY <1>0, <1>9, <1>11, Emitted
    <3> QED BY <1>2, <1>11, <3>1, OutputsJoined
  <2>2. \A k \in 1..(i - 1) : k \in 1..i
    BY <1>2
  <2>3. CASE x \in Outputs(ret, Len(ret))
    <3>1. \/ x \in Outputs(cells, i - 1)
          \/ \E m \in 1..(i - 1) : /\ cells[m].op = "wred"
                                   /\ \E w1 \in Reduces(cells[m]) : x.id \in Range(grads[w1])
      BY <1>0, <1>15, <2>3 DEF DataflowIInv, ReducedOnce
    <3>2. x \in Outputs(cells, i - 1) => x \in Outputs(cells, i)
      BY <2>2, OutputsGrow
    <3> QED BY <1>9, <2>2, <3>1, <3>2
  <2>4. CASE x \in Outputs(new, Len(new))
    <3>1. PICK w \in Reduces(c) : \E g \in Range(grads[w]) : g \in Ids /\ Reduction(x, g)
      BY <1>13, <2>4
    <3>2. x.id \in Range(grads'[w])
      BY <1>9, <3>1 DEF Reduction
    <3>3. i \in 1..i
      BY <1>2
    <3> QED BY <1>1, <3>1, <3>2, <3>3
  <2> QED BY <2>1, <2>3, <2>4
<1>16. grads' \in [WeightIds -> Seq(Ids)] /\ Apart'
  BY <1>0, <1>9 DEF DataflowTypeOK, Apart
<1>17. maxv' = MaxSeen(cells[i]) /\ UNCHANGED latest
  BY <1>1, <1>9
<1>18. \A x : x \in Outputs(ret, Len(ret)) /\ x \in Outputs(new, Len(new)) => x.fly
  BY <1>14
<1> QED BY <1>0, <1>9, <1>11, <1>12, <1>15, <1>16, <1>17, <1>18, ReducePassStep

(***************************************************************************)
(* The bypass, the next pass, and the theorems.                            *)
(***************************************************************************)
\* A backward multiref loses inputs only.
LEMMA BypassStep == ASSUME DataflowIInv, Bypass PROVE DataflowIInv'
<1>0. DataflowTypeOK /\ pass = 6 /\ i <= Len(cells)
  BY PassIs DEF DataflowIInv, Bypass, At
<1>1. PICK c \in Cell : c = cells[i]
  BY <1>0, CellIs
<1>2. PICK computed \in Seq(Tensor) : computed = Computed(c)
  <2>1. c.ins \in Seq(Tensor)
    BY DEF Cell
  <2> QED BY <2>1, AboveIs DEF Computed
<1>3. PICK d : d = IF c.op = "mref" THEN [c EXCEPT !.ins = computed] ELSE c
  OBVIOUS
<1>4. d \in Cell /\ d.outs = c.outs
  <2>1. CASE c.op = "mref"
    <3>1. d = [c EXCEPT !.ins = computed]
      BY <1>3, <2>1
    <3> QED BY <1>2, <3>1 DEF Cell
  <2>2. CASE c.op # "mref"
    <3>1. d = c
      BY <1>3, <2>2
    <3> QED BY <3>1
  <2> QED BY <2>1, <2>2
<1>5. Emit(<<d>>) /\ UNCHANGED <<latest, grads, maxv>>
  BY <1>1, <1>2, <1>3, Zenon DEF Bypass
<1>6. PICK new \in Seq(Cell) : new = <<d>> /\ Len(new) = 1 /\ new[1] = d
  BY <1>4, OneCell, Zenon
<1>7. Emit(new)
  BY <1>5, <1>6
<1>8. /\ i' = i + 1 /\ i \in 1..Len(cells) /\ ret' \in Seq(Cell) /\ Len(ret') = Len(ret) + 1
      /\ UNCHANGED <<prog, pass, cells, raised>>
      /\ \A k \in 1..Len(ret) : ret'[k] = ret[k]
      /\ ret'[Len(ret) + 1] = d
      /\ \A k \in 1..(Len(ret) + 1) : k \in 1..Len(ret) \/ k = Len(ret) + 1
  <2>1. 1 \in 1..Len(new) /\ \A j \in 1..Len(new) : j = 1
    BY <1>6
  <2>2. /\ i' = i + 1 /\ i \in 1..Len(cells) /\ ret' \in Seq(Cell) /\ Len(ret') = Len(ret) + Len(new)
        /\ UNCHANGED <<prog, pass, cells, raised>>
        /\ \A k \in 1..Len(ret) : ret'[k] = ret[k]
        /\ \A k \in 1..Len(new) : ret'[Len(ret) + k] = new[k]
        /\ \A k \in 1..(Len(ret) + Len(new)) : k \in 1..Len(ret) \/ \E j \in 1..Len(new) : k = Len(ret) + j
    BY <1>0, <1>7, Emitted
  <2>3. ret'[Len(ret) + 1] = d
    BY <1>6, <2>1, <2>2, Zenon
  <2>4. \A k \in 1..(Len(ret) + 1) : k \in 1..Len(ret) \/ k = Len(ret) + 1
    BY <1>6, <2>1, <2>2
  <2> QED BY <1>6, <2>2, <2>3, <2>4, Zenon
<1>9. Once(cells) /\ Len(ret) = i - 1 /\ \A k \in 1..Len(ret) : ret[k].outs = cells[k].outs
  BY <1>0 DEF DataflowIInv, ReducedOnce
<1>10. Len(ret') = i /\ \A k \in 1..i : ret'[k].outs = cells[k].outs
  <2>1. Len(ret) + 1 = i
    BY <1>8, <1>9
  <2>2. ASSUME NEW k \in 1..i PROVE ret'[k].outs = cells[k].outs
    <3>1. k \in 1..Len(ret) \/ k = i
      BY <1>8, <2>1
    <3>2. CASE k \in 1..Len(ret)
      BY <1>8, <1>9, <3>2
    <3>3. CASE k = i
      BY <1>1, <1>4, <1>8, <2>1, <3>3
    <3> QED BY <3>1, <3>2, <3>3
  <2> QED BY <1>8, <2>1, <2>2
<1>11. Once(ret')
  <2>1. ASSUME NEW p \in 1..Len(ret'), NEW q \in 1..Len(ret'),
               NEW j \in 1..Len(ret'[p].outs), NEW l \in 1..Len(ret'[q].outs),
               ~ret'[p].outs[j].fly, ret'[p].outs[j] = ret'[q].outs[l]
        PROVE  p = q /\ j = l
    <3>1. p \in 1..Len(cells) /\ q \in 1..Len(cells) /\ p \in 1..i /\ q \in 1..i
      BY <1>8, <1>10
    <3>2. ret'[p].outs = cells[p].outs /\ ret'[q].outs = cells[q].outs
      BY <1>10, <3>1
    <3>3. j \in 1..Len(cells[p].outs) /\ l \in 1..Len(cells[q].outs)
      BY <3>2
    <3>4. ~cells[p].outs[j].fly /\ cells[p].outs[j] = cells[q].outs[l]
      BY <2>1, <3>2
    <3>5. Once(cells)
      BY <1>9
    <3> QED BY <3>1, <3>3, <3>4, <3>5, OnceMeans
  <2>2. PICK list : list = ret'
    OBVIOUS
  <2>3. ASSUME NEW p \in 1..Len(list), NEW q \in 1..Len(list),
               NEW j \in 1..Len(list[p].outs), NEW l \in 1..Len(list[q].outs),
               ~list[p].outs[j].fly, list[p].outs[j] = list[q].outs[l]
        PROVE  p = q /\ j = l
    BY <2>1, <2>2, <2>3
  <2>4. Once(list)
    BY <2>3, OnceIf
  <2> QED BY <2>2, <2>4
<1>12. ReducedOnce'
  <2>1. i' - 1 = i /\ cells' = cells /\ pass' = 6
    BY <1>0, <1>8
  <2> QED BY <1>9, <1>10, <1>11, <2>1 DEF ReducedOnce
<1>13. DataflowTypeOK'
  BY <1>0, <1>5, <1>7, EmittedTypes DEF DataflowTypeOK
<1>14. Early' /\ Summed' /\ Numbered' /\ Ordered'
  <2>1. pass' = 6
    BY <1>0, <1>8
  <2> QED BY <2>1 DEF Early, Summed, Numbered, Ordered
<1>15. Apart'
  BY <1>5 DEF DataflowIInv, Apart
<1> QED BY <1>12, <1>13, <1>14, <1>15 DEF DataflowIInv

\* What one pass has built is what the next one may read.
LEMMA NextPassStep == ASSUME DataflowIInv, NextPass PROVE DataflowIInv'
<1>0. DataflowTypeOK /\ Early /\ Ordered /\ Numbered /\ Summed /\ Apart /\ ReducedOnce
  BY DEF DataflowIInv
<1>1. /\ pass \in 1..6 /\ pass' = pass + 1 /\ cells' = ret /\ i' = 1 /\ ret' = <<>>
      /\ UNCHANGED <<prog, latest, grads, maxv, raised>>
  <2>1. pass < 7 /\ pass \in 1..7
    BY <1>0, PassIs DEF NextPass, DataflowTypeOK
  <2>2. /\ pass' = pass + 1 /\ cells' = ret /\ i' = 1 /\ ret' = <<>>
        /\ UNCHANGED <<prog, latest, grads, maxv, raised>>
    BY DEF NextPass
  <2> QED BY <2>1, <2>2
<1>2. /\ \A x : x \notin Outputs(ret', Len(ret'))
      /\ \A x : x \notin Outputs(cells', i' - 1)
      /\ Once(ret') /\ InOrder(ret') /\ Len(ret') = 0 /\ ret' \in Seq(Cell)
  <2>1. Len(ret') = 0 /\ Once(ret') /\ InOrder(ret') /\ ret' \in Seq(Cell)
    BY <1>1, Nothing
  <2>2. i' - 1 = 0
    BY <1>1
  <2> QED BY <1>1, <2>1, <2>2, Nothing
<1>3. DataflowTypeOK'
  <2>1. 1 \in 1..(Len(ret) + 1)
    BY <1>0 DEF DataflowTypeOK
  <2> QED BY <1>0, <1>1, <1>2, <2>1 DEF DataflowTypeOK
<1>4. Early'
  <2>1. pass' # 1 /\ (pass' \in {2, 3} => pass \in {1, 2})
    BY <1>1
  <2>2. pass' \in {2, 3} => \A k \in 1..Len(cells') : Fresh(cells'[k])
    BY <1>0, <1>1, <2>1 DEF Early
  <2>3. \A k \in 1..Len(ret') : Fresh(ret'[k])
    BY <1>2
  <2> QED BY <2>1, <2>2, <2>3 DEF Early
<1>5. Ordered'
  <2>1. pass' <= 5 => pass <= 4
    BY <1>1
  <2>2. pass' <= 5 => InOrder(cells')
    BY <1>0, <1>1, <2>1 DEF Ordered
  <2>3. \A k \in 1..Len(ret') : \A m \in i'..Len(cells') : Behind(ret'[k], cells'[m])
    BY <1>2
  <2> QED BY <1>2, <2>2, <2>3 DEF Ordered
<1>6. Numbered'
  <2>1. (pass' <= 3 => pass <= 3) /\ (pass' = 4 => pass = 3)
    BY <1>1
  <2>2. pass' = 4 => Once(cells') /\ \A x \in Outputs(cells', Len(cells')) : First(x)
    BY <1>0, <1>1, <2>1 DEF Numbered
  <2>3. pass' <= 3 => \A t \in Ids : latest'[Plain(t)] = 0 \/ Odd(latest'[Plain(t)])
    BY <1>0, <1>1, <2>1 DEF Numbered
  <2> QED BY <1>2, <2>2, <2>3 DEF Numbered
<1>7. Summed'
  BY <1>2 DEF Summed
<1>8. Apart'
  BY <1>0, <1>1 DEF Apart
<1>9. ReducedOnce'
  <2>1. pass' \in {5, 6, 7} => pass \in {4, 5, 6}
    BY <1>1
  <2>2. pass' \in {5, 6, 7} => Once(cells')
    BY <1>0, <1>1, <2>1 DEF Summed, ReducedOnce
  <2>3. Len(ret') = i' - 1 /\ \A k \in 1..Len(ret') : ret'[k].outs = cells'[k].outs
    BY <1>1, <1>2
  <2> QED BY <1>2, <2>2, <2>3 DEF ReducedOnce
<1> QED BY <1>3, <1>4, <1>5, <1>6, <1>7, <1>8, <1>9 DEF DataflowIInv

\* Nothing changes.
LEMMA DataflowStutters == ASSUME DataflowIInv, UNCHANGED dataflowVars PROVE DataflowIInv'
<1>1. UNCHANGED <<prog, pass, cells, i, ret, latest, grads, maxv, raised>>
  BY DEF dataflowVars
<1>2. DataflowTypeOK'
  BY <1>1 DEF DataflowIInv, DataflowTypeOK
<1>3. Early' /\ Ordered' /\ Numbered'
  BY <1>1 DEF DataflowIInv, Early, Ordered, Numbered
<1>4. Summed' /\ Apart' /\ ReducedOnce'
  BY <1>1 DEF DataflowIInv, Summed, Apart, ReducedOnce
<1> QED BY <1>2, <1>3, <1>4 DEF DataflowIInv

\* Every action preserves the invariant.
LEMMA DataflowPreserved == DataflowIInv /\ [DataflowNext]_dataflowVars => DataflowIInv'
<1> SUFFICES ASSUME DataflowIInv, [DataflowNext]_dataflowVars PROVE DataflowIInv'
  OBVIOUS
<1>1. CASE SetDataflow \/ Filter
  BY <1>1, SetDataflowStep, FilterStep
<1>2. CASE VersionCell \/ DiscardChunk
  BY <1>2, VersionCellStep, DiscardChunkStep
<1>3. CASE InjectAccum
  BY <1>3, InjectAccumStep
<1>4. CASE Register \/ Raise \/ SplitReducer
  BY <1>4, RegisterStep, RaiseStep, SplitReducerStep
<1>5. CASE Bypass \/ NextPass
  BY <1>5, BypassStep, NextPassStep
<1>6. CASE DataflowDone \/ UNCHANGED dataflowVars
  BY <1>6, DataflowStutters DEF DataflowDone
<1> QED BY <1>1, <1>2, <1>3, <1>4, <1>5, <1>6 DEF DataflowNext

\* At the end, the invariant is what SingleAssignment asks.
LEMMA AssignsOnce == DataflowIInv => SingleAssignment
<1> SUFFICES ASSUME DataflowIInv, Finished,
                    NEW k \in DOMAIN cells, NEW j \in DOMAIN cells[k].outs, ~cells[k].outs[j].fly
             PROVE  Writers(cells, cells[k].outs[j]) = {<<k, j>>}
  BY DEF SingleAssignment
<1>1. DataflowTypeOK /\ Once(cells)
  <2>1. pass = 7 /\ DataflowTypeOK
    BY PassIs DEF DataflowIInv
  <2> QED BY <2>1 DEF DataflowIInv, ReducedOnce
<1>2. /\ DOMAIN cells = 1..Len(cells)
      /\ \A m \in 1..Len(cells) : DOMAIN cells[m].outs = 1..Len(cells[m].outs)
  <2>1. cells \in Seq(Cell)
    BY <1>1 DEF DataflowTypeOK
  <2> QED BY <2>1 DEF Cell
<1>3. ASSUME NEW m \in DOMAIN cells, NEW l \in DOMAIN cells[m].outs, cells[m].outs[l] = cells[k].outs[j]
      PROVE  m = k /\ l = j
  <2>1. k \in 1..Len(cells) /\ m \in 1..Len(cells)
    BY <1>2
  <2>2. j \in 1..Len(cells[k].outs) /\ l \in 1..Len(cells[m].outs)
    BY <1>2, <2>1, Zenon
  <2>3. ~cells[m].outs[l].fly
    BY <1>3
  <2> QED BY <1>1, <1>3, <2>1, <2>2, <2>3, OnceMeans
<1>4. ASSUME NEW w \in Writers(cells, cells[k].outs[j]) PROVE w = <<k, j>>
  <2>1. PICK m \in DOMAIN cells : w \in {m} \X DOMAIN cells[m].outs
    BY DEF Writers
  <2>2. PICK l \in DOMAIN cells[m].outs : w = <<m, l>>
    BY <2>1
  <2>3. cells[m].outs[l] = cells[k].outs[j]
    <3>1. cells[w[1]].outs[w[2]] = cells[k].outs[j]
      BY <1>4 DEF Writers
    <3>2. w[1] = m /\ w[2] = l
      BY <2>2
    <3> QED BY <3>1, <3>2, Zenon
  <2> QED BY <1>3, <2>2, <2>3
<1>5. <<k, j>> \in Writers(cells, cells[k].outs[j])
  <2>1. PICK w : w = <<k, j>>
    OBVIOUS
  <2>2. w[1] = k /\ w[2] = j /\ w \in {k} \X DOMAIN cells[k].outs
    BY <2>1
  <2>3. w \in Writers(cells, cells[k].outs[j])
    BY <2>2, Zenon DEF Writers
  <2> QED BY <2>1, <2>3
<1> QED BY <1>4, <1>5

\* The passes of _prepare_rank_cells keep to the types: whatever the cells of the rank's
\* schedule, each pass leaves a list of well-formed cells, counts and versions are numbers
\* and every registered gradient is a tensor of the rank.
THEOREM DataflowTypeCorrect == DataflowSpec => []DataflowTypeOK
<1>1. DataflowIInv => DataflowTypeOK
  BY DEF DataflowIInv
<1> QED BY <1>1, DataflowBegins, DataflowPreserved, PTL DEF DataflowSpec

\* The dataflow that _prepare_rank_cells builds assigns each version of a tensor once
\* ("ensuring SSA for nodes and tensors"): the versions that
\* _set_tensor_version_to_enforce_SSA hands out in one pass clash neither with the sums of
\* _inject_grad_accum nor with the reducers of _set_wred_local_grads, for any list of
\* cells, any number of microbatches and any order of them.
THEOREM AssignedOnce == DataflowSpec => []SingleAssignment
BY DataflowBegins, DataflowPreserved, AssignsOnce, PTL DEF DataflowSpec
=============================================================================
