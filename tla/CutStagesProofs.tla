-------------------------- MODULE CutStagesProofs --------------------------
(***************************************************************************)
(* Theorems of CutStages for all graphs, lineages and lineage orders.      *)
(***************************************************************************)
EXTENDS CutStages, FiniteSetTheorems, WellFoundedInduction, NaturalsInduction, TLAPS

\* The stages among the first k are all established by their checks.
HoldUpTo(k) == \A j \in DOMAIN stages : j <= k => StageHolds(stages[j])

\* Initialized lineages hold by assumption.
Assumed == \A l \in Lineages : IsInitialized(l) => l \in truth

\* What _check_input_equivs_validity has established when it is at stage pos.
ChainSound ==
    /\ pc \in {"cut", "prune"} => checked = {}
    /\ pc = "check" => /\ HoldUpTo(pos - 1) => checked \subseteq truth
                       /\ \A j \in DOMAIN stages : j < pos => stages[j].outs \subseteq checked
    /\ pc = "pool" => /\ HoldUpTo(Len(stages)) => checked \subseteq truth
                      /\ \A j \in DOMAIN stages : stages[j].outs \subseteq checked
    /\ pc = "success" => \A j \in DOMAIN stages : stages[j].outs \subseteq truth

IInv == TypeOK /\ Assumed /\ ChainSound

\* Stage s computes lineage l from its inputs.
Explains(s, l) ==
    \A t \in {Ts[l]} \cup Tps[l] :
      \/ \E m \in s.ins : t \in {Ts[m]} \cup Tps[m]
      \/ Producers({t}) \subseteq s.nodes

\* Lineage l adds nothing to another one of its tensor.
Restated(l) ==
    \E m \in verified \ {l} :
       Ts[m] = Ts[l] /\ \A t \in Tps[l] : t \in Tps[m] \/ Unproduced(t)

\* The list has been worked through up to pos.
Behind ==
    /\ pc = "cut" => verified = {ordered[k] : k \in {j \in DOMAIN ordered : j < pos}}
    /\ pc \in {"prune", "check", "pool", "success"} =>
         \A k \in DOMAIN ordered : ordered[k] \in verified

\* Each lineage behind us has its stage, and a stage that is empty restates.
Formed ==
    \A l \in verified :
      \/ IsInitialized(l)
      \/ \E k \in DOMAIN cut : l \in cut[k].outs /\ (cut[k].nodes = {} => Restated(l))

Explained ==
    /\ \A k \in DOMAIN cut : \A l \in cut[k].outs : Explains(cut[k], l)
    /\ \A k \in DOMAIN stages : \A l \in stages[k].outs : Explains(stages[k], l)

\* Pruning leaves out empty stages only.
Gone(k) == cut[k].nodes = {} \/ cut[k].outs \subseteq Established
Pruned ==
    /\ pc = "prune" => \A k \in DOMAIN cut : k < pos => Gone(k)
    /\ pc \in {"check", "pool", "success"} => \A k \in DOMAIN cut : Gone(k)

CInv == IInv /\ Behind /\ Formed /\ Explained /\ Pruned

----------------------------------------------------------------------------
LEMMA InitInv == Init => IInv
<1> SUFFICES ASSUME Init PROVE IInv
  OBVIOUS
<1>1. cut \in Seq(StageType) /\ stages \in Seq(StageType)
  BY DEF Init
<1>2. TypeOK
  BY <1>1 DEF Init, TypeOK
<1> QED BY <1>2 DEF Init, IInv, Assumed, ChainSound

\* Slicing yields operators of the graphs.
LEMMA SubgraphType ==
  ASSUME NEW targets, NEW barrier
  PROVE  SubgraphNodes(targets, barrier) \subseteq Nodes
  BY DEF SubgraphNodes, Producers

\* While stages are being cut, each step appends at most one stage.
LEMMA CutInv ==
  ASSUME IInv, CutInitialized \/ CutKnown \/ CutSliced \/ CutUnreachable \/ CutDone
  PROVE  IInv'
<1> USE CutAssumption
<1>1. pc = "cut" /\ pos \in Nat \ {0} /\ checked = {}
  BY DEF IInv, TypeOK, ChainSound, CutInitialized, CutKnown, CutSliced,
         CutUnreachable, CutDone
<1>2. pos <= Len(ordered) => Target \in Lineages
  <2>1. ordered \in Seq(Lineages)
    BY DEF IInv, TypeOK
  <2> QED BY <1>1, <2>1 DEF Target
<1>3. cut' \in Seq(StageType)
  <2>1. cut \in Seq(StageType)
    BY DEF IInv, TypeOK
  <2>2. ASSUME CutKnown PROVE cut' \in Seq(StageType)
    <3> DEFINE s == [nodes |-> KnownNodes[Target], ins |-> Dependency[Target],
                     outs |-> {Target}]
    <3>1. s \in StageType
      BY <1>2, <2>2 DEF CutKnown, StageType
    <3>2. cut' = Append(cut, s)
      BY <2>2 DEF CutKnown
    <3> HIDE DEF s
    <3> QED BY <2>1, <3>1, <3>2
  <2>3. ASSUME CutSliced PROVE cut' \in Seq(StageType)
    <3>1. PICK near \in [Sources -> verified] :
            LET ins == {near[t] : t \in Sources}
                barrier == UNION {Tps[l] : l \in ins}
                nodes == SubgraphNodes({Ts[Target]}, Sources)
                           \cup SubgraphNodes(GpTargets, barrier)
            IN  cut' = Append(cut, [nodes |-> nodes, ins |-> ins,
                                    outs |-> {Target}])
      BY <2>3 DEF CutSliced
    <3> DEFINE ins == {near[t] : t \in Sources}
               barrier == UNION {Tps[l] : l \in ins}
               nodes == SubgraphNodes({Ts[Target]}, Sources)
                          \cup SubgraphNodes(GpTargets, barrier)
               s == [nodes |-> nodes, ins |-> ins, outs |-> {Target}]
    <3>2. ins \subseteq Lineages
      BY DEF IInv, TypeOK
    <3>3. nodes \subseteq Nodes
      BY SubgraphType
    <3>4. {Target} \subseteq Lineages
      BY <1>2, <2>3 DEF CutSliced
    <3>5. cut' = Append(cut, s)
      BY <3>1
    <3> HIDE DEF ins, nodes
    <3>6. s \in StageType
      BY <3>2, <3>3, <3>4 DEF StageType
    <3> HIDE DEF s
    <3> QED BY <2>1, <3>5, <3>6
  <2> QED BY <2>1, <2>2, <2>3 DEF CutInitialized, CutUnreachable, CutDone
<1>4. TypeOK'
  BY <1>1, <1>2, <1>3 DEF IInv, TypeOK, CutInitialized, CutKnown, CutSliced,
     CutUnreachable, CutDone, Advance, Recorded
<1>5. Assumed' /\ ChainSound'
  BY <1>1 DEF IInv, Assumed, ChainSound, CutInitialized, CutKnown,
     CutSliced, CutUnreachable, CutDone, Advance
<1> QED BY <1>4, <1>5 DEF IInv

\* Pruning keeps, merges or drops one stage at a time.
LEMMA PruneInv ==
  ASSUME IInv, Prune \/ Keep \/ Merge \/ MergeRefused \/ PruneDone
  PROVE  IInv'
<1>1. pc = "prune" /\ pos \in Nat \ {0} /\ checked = {}
  BY DEF IInv, TypeOK, ChainSound, Prune, Empty, Keep, Merge, Merged, MergeRefused, PruneDone
<1>2. cut \in Seq(StageType) /\ stages \in Seq(StageType)
  BY DEF IInv, TypeOK
<1>3. pos <= Len(cut) => cut[pos] \in StageType
  BY <1>1, <1>2
<1>4. stages' \in Seq(StageType)
  <2>1. ASSUME Keep PROVE stages' \in Seq(StageType)
    BY <1>2, <1>3, <2>1 DEF Keep, Empty
  <2>2. ASSUME Merge PROVE stages' \in Seq(StageType)
    <3>1. PICK k \in DOMAIN stages :
            stages' = [stages EXCEPT ![k].outs = @ \cup cut[pos].outs]
      BY <2>2 DEF Merge, Empty, Merged, SameNodes
    <3>2. stages[k] \in StageType /\ cut[pos] \in StageType
      BY <1>2, <1>3, <2>2 DEF Merge, Empty, Merged
    <3> DEFINE s == [stages[k] EXCEPT !.outs = @ \cup cut[pos].outs]
    <3>3. s \in StageType
      BY <3>2 DEF StageType
    <3>4. stages' = [stages EXCEPT ![k] = s]
      BY <3>1
    <3> HIDE DEF s
    <3> QED BY <1>2, <3>3, <3>4
  <2> QED BY <1>2, <2>1, <2>2 DEF Prune, Empty, Keep, Merge, Merged, MergeRefused, PruneDone
<1>5. TypeOK'
  BY <1>1, <1>4 DEF IInv, TypeOK, Prune, Empty, Keep, Merge, Merged, MergeRefused, PruneDone
<1>6. Assumed'
  BY DEF IInv, Assumed, Prune, Empty, Keep, Merge, Merged, MergeRefused, PruneDone
<1>7. ChainSound'
  <2>1. ASSUME PruneDone PROVE ChainSound'
    BY <1>1, <1>2, <2>1 DEF PruneDone, ChainSound
  <2>2. ASSUME ~PruneDone PROVE ChainSound'
    BY <1>1, <2>2 DEF ChainSound, Prune, Empty, Keep, Merge, Merged, MergeRefused
  <2> QED BY <2>1, <2>2
<1> QED BY <1>5, <1>6, <1>7 DEF IInv

\* The check accepts a stage only over lineages that hold already.
LEMMA CheckInv ==
  ASSUME IInv, CheckStage \/ CheckRefused \/ CheckDone
  PROVE  IInv'
<1>1. pc = "check" /\ pos \in Nat \ {0} /\ stages \in Seq(StageType)
  BY DEF IInv, TypeOK, CheckStage, CheckRefused, CheckDone
<1>2. ASSUME CheckStage PROVE IInv'
  <2>1. /\ pos \in DOMAIN stages /\ stages[pos] \in StageType
        /\ UNCHANGED <<ordered, truth, pc, verified, cut, stages>>
        /\ checked' = checked \cup stages[pos].ins \cup stages[pos].outs
        /\ pos' = pos + 1
        /\ InputsValid(stages[pos])
    BY <1>1, <1>2 DEF CheckStage
  <2>2. TypeOK'
    BY <2>1 DEF IInv, TypeOK, StageType
  <2>4. HoldUpTo(pos - 1)' => HoldUpTo(pos - 1) /\ StageHolds(stages[pos])
    BY <1>1, <2>1 DEF HoldUpTo, StageHolds
  <2>5. HoldUpTo(pos - 1)' => checked' \subseteq truth
    <3> SUFFICES ASSUME HoldUpTo(pos - 1)' PROVE checked' \subseteq truth
      OBVIOUS
    <3>1. checked \subseteq truth
      BY <1>1, <2>4 DEF IInv, ChainSound
    <3>2. stages[pos].ins \subseteq truth
      BY <2>1, <3>1 DEF InputsValid, IInv, Assumed, StageType
    <3>3. stages[pos].outs \subseteq truth
      BY <2>4, <3>2 DEF StageHolds
    <3> QED BY <2>1, <3>1, <3>2, <3>3
  <2>6. \A j \in DOMAIN stages' : j < pos' => stages'[j].outs \subseteq checked'
    <3> SUFFICES ASSUME NEW j \in DOMAIN stages, j < pos + 1
                 PROVE  stages[j].outs \subseteq checked'
      BY <2>1
    <3>1. CASE j = pos
      BY <2>1, <3>1
    <3>2. CASE j < pos
      BY <1>1, <2>1, <3>2 DEF IInv, ChainSound
    <3> QED BY <1>1, <3>1, <3>2
  <2>7. ChainSound'
    BY <1>1, <2>1, <2>5, <2>6 DEF ChainSound
  <2> QED BY <2>1, <2>2, <2>7 DEF IInv, Assumed
<1>3. ASSUME CheckRefused PROVE IInv'
  BY <1>3 DEF CheckRefused, IInv, TypeOK, Assumed, ChainSound
<1>4. ASSUME CheckDone PROVE IInv'
  <2>1. pos > Len(stages) /\ UNCHANGED <<ordered, truth, pos, verified, cut, stages, checked>>
        /\ pc' = "pool"
    BY <1>4 DEF CheckDone
  <2>2. HoldUpTo(Len(stages)) => HoldUpTo(pos - 1)
    BY <1>1 DEF HoldUpTo
  <2>3. \A j \in DOMAIN stages : j < pos
    BY <1>1, <2>1
  <2>4. HoldUpTo(Len(stages))' => HoldUpTo(Len(stages))
    BY <2>1 DEF HoldUpTo, StageHolds
  <2>5. ChainSound'
    BY <1>1, <2>1, <2>2, <2>3, <2>4 DEF IInv, ChainSound
  <2> QED BY <2>1, <2>5 DEF IInv, TypeOK, Assumed
<1> QED BY <1>2, <1>3, <1>4

LEMMA PoolInv ==
  ASSUME IInv, PoolSucceeds \/ PoolFails
  PROVE  IInv'
<1>1. TypeOK' /\ Assumed'
  BY DEF IInv, TypeOK, Assumed, PoolSucceeds, PoolFails
<1>2. ASSUME PoolSucceeds PROVE ChainSound'
  <2>1. HoldUpTo(Len(stages)) /\ pc = "pool"
    BY <1>2 DEF PoolSucceeds, HoldUpTo
  <2> QED BY <1>2, <2>1 DEF PoolSucceeds, IInv, ChainSound
<1>3. ASSUME PoolFails PROVE ChainSound'
  BY <1>3 DEF PoolFails, ChainSound
<1> QED BY <1>1, <1>2, <1>3 DEF IInv

LEMMA StepInv == IInv /\ [Next]_vars => IInv'
<1>1. ASSUME IInv, UNCHANGED vars PROVE IInv'
  BY <1>1 DEF vars, IInv, TypeOK, Assumed, ChainSound, HoldUpTo, StageHolds
<1> QED BY <1>1, CutInv, PruneInv, CheckInv, PoolInv DEF Next, Done

(***************************************************************************)
(* Walking upstream.                                                       *)
(***************************************************************************)

\* A set of natural numbers has a least element: induction by the least
\* counterexample.
LEMMA Least ==
    ASSUME NEW T \in SUBSET Nat, T # {}
    PROVE  \E x \in T : \A y \in T : ~(y < x)
<1>1. \E x \in T : \A y \in T : ~(<<y, x>> \in OpToRel(<, Nat))
  BY WFMin, NatLessThanWellFounded, Zenon
<1> QED BY <1>1, Zenon DEF OpToRel

\* One level upstream of S, and the levels of a walk.
Level(S, stop) == S \cup UNION {In[n] : n \in Producers(S \ stop)}
Walk(u, ts, stop, k) == u = [d \in 0..k |-> IF d = 0 THEN ts ELSE Level(u[d - 1], stop)]

LEMMA WalkExists ==
    ASSUME NEW ts, NEW stop, NEW k \in Nat
    PROVE  \E u : Walk(u, ts, stop, k)
<1> DEFINE T == {m \in Nat : ~\E u : Walk(u, ts, stop, m)}
<1> SUFFICES ASSUME T # {} PROVE FALSE
  OBVIOUS
<1>1. PICK m \in T : \A y \in T : ~(y < m)
  BY Least
<1>2. CASE m = 0
  <2> DEFINE u == [d \in 0..0 |-> ts]
  <2>1. Walk(u, ts, stop, 0)
    BY DEF Walk
  <2> QED BY <1>2, <2>1
<1>3. CASE m # 0
  <2>1. m - 1 \in Nat /\ m - 1 < m /\ m \in Nat
    BY <1>3
  <2>2. PICK v : Walk(v, ts, stop, m - 1)
    BY <1>1, <2>1
  <2> DEFINE u == [d \in 0..m |-> IF d < m THEN v[d] ELSE Level(v[m - 1], stop)]
  <2>3. ASSUME NEW d \in 0..m PROVE u[d] = IF d = 0 THEN ts ELSE Level(u[d - 1], stop)
    <3>1. CASE d = 0
      BY <1>3, <2>1, <2>2, <3>1 DEF Walk
    <3>2. CASE d # 0 /\ d < m
      <4>1. d - 1 \in 0..(m - 1) /\ d \in 0..(m - 1) /\ d - 1 \in 0..m /\ d - 1 < m
        BY <2>1, <3>2
      <4> QED BY <2>2, <3>2, <4>1 DEF Walk
    <3>3. CASE d = m
      BY <1>3, <2>1, <3>3
    <3> QED BY <2>1, <3>1, <3>2, <3>3
  <2>4. Walk(u, ts, stop, m)
    <3> DEFINE w == [d \in 0..m |-> IF d = 0 THEN ts ELSE Level(u[d - 1], stop)]
    <3>1. u = w
      BY <2>3
    <3> QED BY <3>1 DEF Walk
  <2> QED BY <2>4
<1> QED BY <1>2, <1>3

\* Upstream is the last level of such a walk.
LEMMA UpstreamWalks ==
    ASSUME NEW ts, NEW stop, NEW k \in Nat
    PROVE  \E u : Walk(u, ts, stop, k) /\ Upstream(ts, stop, k) = u[k]
<1> DEFINE u == CHOOSE u : Walk(u, ts, stop, k)
<1>1. Walk(u, ts, stop, k)
  BY WalkExists
<1>2. Upstream(ts, stop, k) = u[k]
  BY Zenon DEF Upstream, Walk, Level
<1> QED BY <1>1, <1>2

\* A walk never leaves its start behind.
LEMMA StartIsUpstream ==
    ASSUME NEW ts, NEW stop, NEW k \in Nat
    PROVE  ts \subseteq Upstream(ts, stop, k)
<1> PICK u : Walk(u, ts, stop, k) /\ Upstream(ts, stop, k) = u[k]
  BY UpstreamWalks
<1> DEFINE T == {m \in 0..k : ~(ts \subseteq u[m])}
<1> SUFFICES ASSUME T # {} PROVE FALSE
  OBVIOUS
<1>1. PICK m \in T : \A y \in T : ~(y < m)
  <2>1. T \in SUBSET Nat
    OBVIOUS
  <2> QED BY <2>1, Least
<1>2. CASE m = 0
  BY <1>2 DEF Walk
<1>3. CASE m # 0
  <2>1. m - 1 \in 0..k /\ m - 1 < m
    BY <1>3
  <2>2. ts \subseteq u[m - 1] /\ u[m] = Level(u[m - 1], stop)
    BY <1>1, <1>3, <2>1 DEF Walk
  <2> QED BY <2>2 DEF Level
<1> QED BY <1>2, <1>3

\* A walk ends where it begins at a tensor that it must not look beyond or that
\* nothing computes.
LEMMA NothingUpstream ==
    ASSUME NEW t, NEW stop, NEW k \in Nat, Producers({t} \ stop) = {}
    PROVE  Upstream({t}, stop, k) = {t}
<1> PICK u : Walk(u, {t}, stop, k) /\ Upstream({t}, stop, k) = u[k]
  BY UpstreamWalks
<1> DEFINE T == {m \in 0..k : u[m] # {t}}
<1> SUFFICES ASSUME T # {} PROVE FALSE
  OBVIOUS
<1>1. PICK m \in T : \A y \in T : ~(y < m)
  <2>1. T \in SUBSET Nat
    OBVIOUS
  <2> QED BY <2>1, Least
<1>2. CASE m = 0
  BY <1>2 DEF Walk
<1>3. CASE m # 0
  <2>1. m - 1 \in 0..k /\ m - 1 < m
    BY <1>3
  <2>2. u[m - 1] = {t} /\ u[m] = Level(u[m - 1], stop)
    BY <1>1, <1>3, <2>1 DEF Walk
  <2> QED BY <2>2 DEF Level
<1> QED BY <1>2, <1>3

\* A subgraph has all operators that compute a target outside the barrier.
LEMMA TargetsComputed ==
    ASSUME NEW targets, NEW barrier, NEW t \in targets, t \notin barrier
    PROVE  Producers({t}) \subseteq SubgraphNodes(targets, barrier)
<1>1. Depth \in Nat
  BY GraphAssumption, FS_CardinalityType DEF Depth
<1>2. t \in Upstream(targets, barrier, Depth) \ barrier
  BY <1>1, StartIsUpstream
<1> QED BY <1>2 DEF SubgraphNodes, Producers

(***************************************************************************)
(* The stage that is sliced for a lineage.                                 *)
(***************************************************************************)

\* Sources are tensors of verified lineages; the target itself only when it is one.
LEMMA SourcesAre ==
    ASSUME IInv, pc = "cut", pos <= Len(ordered)
    PROVE  /\ Sources \subseteq {Ts[l] : l \in verified}
           /\ Ts[Target] \in Sources \/ Unproduced(Ts[Target]) => Sources \subseteq {Ts[Target]}
<1> DEFINE t == Ts[Target]
           stop == {Ts[l] : l \in verified}
<1>1. Depth \in Nat
  BY GraphAssumption, FS_CardinalityType DEF Depth
<1>2. Sources = Upstream({t}, stop, Depth) \cap stop
  BY DEF Sources, Frontier
<1>3. ASSUME t \in stop \/ Unproduced(t) PROVE Sources \subseteq {t}
  <2>1. Producers({t} \ stop) = {}
    BY <1>3 DEF Unproduced, Producers
  <2> QED BY <1>1, <1>2, <2>1, NothingUpstream
<1> QED BY <1>2, <1>3

LEMMA SlicedStage ==
    ASSUME IInv, pc = "cut", pos <= Len(ordered), Target \in Lineages,
           ~IsInitialized(Target), Target \notin verified,
           NEW near \in [Sources -> verified],
           \A t \in Sources : near[t] \in Nearest(t, Sample[Target]),
           NEW ins, ins = {near[t] : t \in Sources},
           NEW barrier, barrier = UNION {Tps[l] : l \in ins},
           NEW nodes, nodes = SubgraphNodes({Ts[Target]}, Sources)
                                \cup SubgraphNodes(GpTargets, barrier),
           NEW s, s = [nodes |-> nodes, ins |-> ins, outs |-> {Target}]
    PROVE  Explains(s, Target) /\ (nodes = {} => Restated(Target))
<1>1. s.nodes = nodes /\ s.ins = ins
  OBVIOUS
<1>2. \A t \in Sources : near[t] \in ins /\ near[t] \in verified /\ Ts[near[t]] = t
  BY DEF Nearest, Reachable
<1>3. Ts[Target] \notin Sources => Producers({Ts[Target]}) \subseteq nodes
  BY TargetsComputed
<1>4. \A t \in Tps[Target] : t \notin barrier => Producers({t}) \subseteq nodes
  BY TargetsComputed DEF GpTargets
<1>5. Explains(s, Target)
  <2>1. Ts[Target] \in Sources => \E m \in ins : Ts[Target] \in {Ts[m]} \cup Tps[m]
    BY <1>2
  <2>2. \A t \in barrier : \E m \in ins : t \in {Ts[m]} \cup Tps[m]
    OBVIOUS
  <2> SUFFICES ASSUME NEW t \in {Ts[Target]} \cup Tps[Target],
                      ~(Producers({t}) \subseteq nodes)
               PROVE  \E m \in ins : t \in {Ts[m]} \cup Tps[m]
    BY <1>1 DEF Explains
  <2>3. CASE t = Ts[Target]
    BY <1>3, <2>1, <2>3
  <2>4. CASE t \in Tps[Target]
    BY <1>4, <2>2, <2>4
  <2> QED BY <2>3, <2>4
<1>6. ASSUME nodes = {} PROVE Restated(Target)
  <2>1. CASE Ts[Target] \in Sources
    <3> DEFINE m == near[Ts[Target]]
    <3>1. m \in verified \ {Target} /\ Ts[m] = Ts[Target]
      BY <1>2, <2>1
    <3>2. Sources = {Ts[Target]}
      BY <2>1, SourcesAre
    <3>3. barrier = Tps[m]
      BY <3>2
    <3> QED BY <1>4, <1>6, <3>1, <3>3 DEF Restated, Unproduced
  <2>2. CASE Ts[Target] \notin Sources
    <3>1. Unproduced(Ts[Target])
      BY <1>3, <1>6, <2>2 DEF Unproduced
    <3>2. barrier = {}
      BY <2>2, <3>1, SourcesAre
    <3>3. \A t \in Tps[Target] : Unproduced(t)
      BY <1>4, <1>6, <3>2 DEF Unproduced
    <3>4. IsInitialized(Target)
      BY <3>1, <3>3, CutAssumption, GraphAssumption DEF IsInitialized
    <3> QED BY <3>4
  <2> QED BY <2>1, <2>2
<1> QED BY <1>5, <1>6

(***************************************************************************)
(* No lineage is lost, and every stage computes its lineages.              *)
(***************************************************************************)
LEMMA InitCovers == Init => CInv
<1> SUFFICES ASSUME Init PROVE CInv
  OBVIOUS
<1>1. IInv
  BY InitInv
<1>2. verified = {ordered[k] : k \in {j \in DOMAIN ordered : j < pos}}
  BY <1>1, CutAssumption DEF Init, IInv, TypeOK
<1> QED BY <1>1, <1>2 DEF Init, CInv, Behind, Formed, Explained, Pruned

\* What holds of the stages formed so far outlives a step that forms no stage.
LEMMA CutDealt ==
    ASSUME CInv, Advance, pc = "cut", pos <= Len(ordered),
           \/ IsInitialized(Target) /\ cut' = cut
           \/ \E s \in StageType : /\ cut' = Append(cut, s) /\ s.outs = {Target}
                                   /\ Explains(s, Target)
                                   /\ s.nodes = {} => Restated(Target)
    PROVE  Behind' /\ Formed' /\ Explained' /\ Pruned'
<1>1. /\ ordered \in Seq(Lineages) /\ pos \in Nat \ {0} /\ pos \in DOMAIN ordered
      /\ cut \in Seq(StageType) /\ stages \in Seq(StageType)
      /\ verified \subseteq Lineages /\ Target \in Lineages
  BY CutAssumption DEF CInv, IInv, TypeOK, Target
<1>2. /\ verified' = verified \cup {Target} /\ pos' = pos + 1 /\ pc' = "cut"
      /\ ordered' = ordered /\ stages' = stages
  BY DEF Advance, Recorded
<1>3. Behind'
  <2>1. verified = {ordered[k] : k \in {j \in DOMAIN ordered : j < pos}}
    BY DEF CInv, Behind
  <2>2. \A j \in DOMAIN ordered : j < pos + 1 <=> j < pos \/ j = pos
    BY <1>1
  <2>3. verified' = {ordered[k] : k \in {j \in DOMAIN ordered : j < pos + 1}}
    BY <1>1, <1>2, <2>1, <2>2 DEF Target
  <2> QED BY <1>2, <2>3 DEF Behind
<1>4. \A l : Restated(l) => Restated(l)'
  BY <1>2 DEF Restated
<1>5. CASE IsInitialized(Target) /\ cut' = cut
  <2>1. Formed'
    BY <1>2, <1>4, <1>5 DEF CInv, Formed
  <2> QED BY <1>2, <1>3, <1>5, <2>1 DEF CInv, Explained, Pruned
<1>6. CASE ~(IsInitialized(Target) /\ cut' = cut)
  <2> PICK s \in StageType : /\ cut' = Append(cut, s) /\ s.outs = {Target}
                             /\ Explains(s, Target)
                             /\ s.nodes = {} => Restated(Target)
    BY <1>6
  <2> PICK n \in Nat : n = Len(cut)
    BY <1>1
  <2>1. /\ cut'[n + 1] = s /\ n + 1 \in DOMAIN cut'
        /\ \A k \in DOMAIN cut : k \in DOMAIN cut' /\ cut'[k] = cut[k]
        /\ \A k \in DOMAIN cut' : k = n + 1 \/ k \in DOMAIN cut
    BY <1>1
  <2>2. Formed'
    <3> SUFFICES ASSUME NEW l \in verified', ~IsInitialized(l)
                 PROVE  \E k \in DOMAIN cut' : /\ l \in cut'[k].outs
                                               /\ cut'[k].nodes = {} => Restated(l)'
      BY DEF Formed
    <3>1. CASE l = Target
      BY <1>4, <2>1, <3>1
    <3>2. CASE l # Target
      <4>1. PICK k \in DOMAIN cut : l \in cut[k].outs /\ (cut[k].nodes = {} => Restated(l))
        BY <1>2, <3>2 DEF CInv, Formed
      <4>2. k \in DOMAIN cut' /\ cut'[k] = cut[k]
        BY <2>1
      <4> QED BY <1>4, <4>1, <4>2
    <3> QED BY <3>1, <3>2
  <2>3. Explained'
    <3>1. ASSUME NEW k \in DOMAIN cut', NEW l \in cut'[k].outs PROVE Explains(cut'[k], l)
      <4>1. CASE k = n + 1
        BY <2>1, <3>1, <4>1
      <4>2. CASE k # n + 1
        <5>1. k \in DOMAIN cut /\ cut'[k] = cut[k]
          BY <2>1, <4>2
        <5> QED BY <3>1, <5>1 DEF CInv, Explained
      <4> QED BY <4>1, <4>2
    <3> QED BY <1>2, <3>1 DEF CInv, Explained, Explains
  <2>4. Pruned'
    BY <1>2 DEF Pruned
  <2> QED BY <1>3, <2>2, <2>3, <2>4
<1> QED BY <1>5, <1>6

LEMMA CutCovers ==
    ASSUME CInv, CutInitialized \/ CutKnown \/ CutSliced \/ CutUnreachable \/ CutDone
    PROVE  CInv'
<1>1. IInv' /\ IInv /\ pc = "cut"
  BY CutInv DEF CInv, CutInitialized, CutKnown, CutSliced, CutUnreachable, CutDone
<1>2. ordered \in Seq(Lineages) /\ pos \in Nat \ {0}
  BY CutAssumption DEF CInv, IInv, TypeOK
<1>3. ASSUME NEW s, cut' = Append(cut, s) PROVE s \in StageType
  <2>1. cut \in Seq(StageType) /\ cut' \in Seq(StageType)
    BY <1>1 DEF IInv, TypeOK
  <2> PICK n \in Nat : n = Len(cut)
    BY <2>1
  <2>2. cut'[n + 1] = s /\ n + 1 \in 1..Len(cut')
    BY <1>3, <2>1
  <2> QED BY <2>1, <2>2
<1>4. ASSUME pos <= Len(ordered) PROVE Target \in Lineages \ verified
  <2>1. pos \in DOMAIN ordered /\ Target \in Lineages
    BY <1>2, <1>4 DEF Target
  <2>2. \A j \in DOMAIN ordered : j < pos => ordered[j] # ordered[pos]
    BY <1>2, <2>1, CutAssumption DEF CInv, IInv, TypeOK
  <2> QED BY <1>1, <2>1, <2>2 DEF CInv, Behind, Target
<1>5. ASSUME CutInitialized PROVE Behind' /\ Formed' /\ Explained' /\ Pruned'
  BY <1>5, CutDealt DEF CutInitialized
<1>6. ASSUME CutKnown PROVE Behind' /\ Formed' /\ Explained' /\ Pruned'
  <2> DEFINE s == [nodes |-> KnownNodes[Target], ins |-> Dependency[Target], outs |-> {Target}]
  <2>1. s.nodes = KnownNodes[Target] /\ s.ins = Dependency[Target] /\ s.outs = {Target}
    OBVIOUS
  <2>2. Target \in Known /\ cut' = Append(cut, s) /\ Advance /\ pos <= Len(ordered)
    BY <1>6 DEF CutKnown
  <2>3. s \in StageType
    BY <1>3, <2>2
  <2> HIDE DEF s
  <2>4. Explains(s, Target) /\ s.nodes # {}
    BY <2>1, <2>2, GraphAssumption DEF Explains
  <2> QED BY <1>1, <2>1, <2>2, <2>3, <2>4, CutDealt
<1>7. ASSUME CutSliced PROVE Behind' /\ Formed' /\ Explained' /\ Pruned'
  <2>1. pos <= Len(ordered) /\ ~IsInitialized(Target) /\ Advance /\ Target \in Lineages \ verified
    BY <1>4, <1>7 DEF CutSliced
  <2>2. PICK near \in [Sources -> verified] :
          /\ \A t \in Sources : near[t] \in Nearest(t, Sample[Target])
          /\ LET ins == {near[t] : t \in Sources}
                 barrier == UNION {Tps[l] : l \in ins}
                 nodes == SubgraphNodes({Ts[Target]}, Sources)
                            \cup SubgraphNodes(GpTargets, barrier)
             IN  cut' = Append(cut, [nodes |-> nodes, ins |-> ins, outs |-> {Target}])
    BY <1>7 DEF CutSliced
  <2> DEFINE ins == {near[t] : t \in Sources}
             barrier == UNION {Tps[l] : l \in ins}
             nodes == SubgraphNodes({Ts[Target]}, Sources)
                        \cup SubgraphNodes(GpTargets, barrier)
             s == [nodes |-> nodes, ins |-> ins, outs |-> {Target}]
  <2>3. cut' = Append(cut, s) /\ s.outs = {Target} /\ s.nodes = nodes
    BY <2>2
  <2>4. s \in StageType
    BY <1>3, <2>3
  <2>5. Explains(s, Target) /\ (nodes = {} => Restated(Target))
    <3> HIDE DEF s, nodes
    <3> QED BY <1>1, <2>1, <2>2, SlicedStage DEF nodes, s
  <2> HIDE DEF s, nodes
  <2> QED BY <1>1, <2>1, <2>3, <2>4, <2>5, CutDealt
<1>8. ASSUME CutUnreachable PROVE Behind' /\ Formed' /\ Explained' /\ Pruned'
  BY <1>8 DEF CutUnreachable, CInv, Behind, Formed, Restated, Explained, Pruned
<1>9. ASSUME CutDone PROVE Behind' /\ Formed' /\ Explained' /\ Pruned'
  <2>1. \A k \in DOMAIN ordered : k < pos
    BY <1>2, <1>9 DEF CutDone
  <2>2. pc' = "prune" /\ pos' = 1 /\ UNCHANGED <<ordered, verified, cut, stages>>
    BY <1>9 DEF CutDone
  <2>3. Behind'
    BY <1>1, <2>1, <2>2 DEF CInv, Behind
  <2>4. Formed' /\ Explained'
    BY <2>2 DEF CInv, Formed, Restated, Explained
  <2>5. cut \in Seq(StageType)
    BY <1>1 DEF IInv, TypeOK
  <2>6. Pruned'
    BY <2>2, <2>5 DEF Pruned
  <2> QED BY <2>3, <2>4, <2>6
<1> QED BY <1>1, <1>5, <1>6, <1>7, <1>8, <1>9 DEF CInv

\* Stages stay established and explained while others are kept or merged.
LEMMA PruneCovers ==
    ASSUME CInv, Prune \/ Keep \/ Merge \/ MergeRefused \/ PruneDone
    PROVE  CInv'
<1>1. /\ IInv' /\ IInv /\ pc = "prune" /\ UNCHANGED <<ordered, verified, cut>>
      /\ cut \in Seq(StageType) /\ stages \in Seq(StageType) /\ pos \in Nat \ {0}
  BY PruneInv DEF CInv, IInv, TypeOK, Prune, Keep, Merge, MergeRefused, PruneDone
<1>2. Behind' /\ Formed'
  BY <1>1 DEF CInv, Behind, Formed, Restated, Prune, Keep, Merge, MergeRefused, PruneDone
<1>3. ASSUME NEW k \in DOMAIN stages PROVE stages[k].outs \subseteq Established
  BY DEF Established
<1>4. ASSUME Prune PROVE Explained' /\ Pruned'
  <2>1. pc' = "prune" /\ pos' = pos + 1 /\ stages' = stages /\ cut[pos].nodes = {}
    BY <1>1, <1>4 DEF Prune, Empty
  <2>2. \A k \in DOMAIN cut : k < pos + 1 => k < pos \/ k = pos
    BY <1>1
  <2> QED BY <1>1, <2>1, <2>2 DEF CInv, Explained, Pruned, Gone, Established
<1>5. ASSUME Keep PROVE Explained' /\ Pruned'
  <2>1. /\ pc' = "prune" /\ pos' = pos + 1 /\ stages' = Append(stages, cut[pos])
        /\ pos \in DOMAIN cut
    BY <1>1, <1>5 DEF Keep
  <2> PICK n \in Nat : n = Len(stages)
    BY <1>1
  <2>2. /\ stages'[n + 1] = cut[pos] /\ n + 1 \in DOMAIN stages'
        /\ \A k \in DOMAIN stages : k \in DOMAIN stages' /\ stages'[k] = stages[k]
        /\ \A k \in DOMAIN stages' : k = n + 1 \/ k \in DOMAIN stages
    BY <1>1, <2>1
  <2>3. Explained'
    <3>1. \A k \in DOMAIN cut : \A l \in cut[k].outs : Explains(cut[k], l)
      BY DEF CInv, Explained
    <3>2. \A k \in DOMAIN stages : \A l \in stages[k].outs : Explains(stages[k], l)
      BY DEF CInv, Explained
    <3>3. ASSUME NEW k \in DOMAIN stages', NEW l \in stages'[k].outs PROVE Explains(stages'[k], l)
      <4>1. CASE k = n + 1
        BY <2>1, <2>2, <3>1, <3>3, <4>1
      <4>2. CASE k \in DOMAIN stages
        BY <2>2, <3>2, <3>3, <4>2
      <4> QED BY <2>2, <4>1, <4>2
    <3> QED BY <1>1, <3>1, <3>3 DEF Explained, Explains
  <2>4. Established \subseteq Established' /\ cut[pos].outs \subseteq Established'
    BY <2>2 DEF Established
  <2>5. \A k \in DOMAIN cut : k < pos + 1 => k < pos \/ k = pos
    BY <1>1
  <2> QED BY <1>1, <2>1, <2>3, <2>4, <2>5 DEF CInv, Pruned, Gone
<1>6. ASSUME Merge PROVE Explained' /\ Pruned'
  <2>1. PICK k \in DOMAIN stages : /\ stages[k].nodes = cut[pos].nodes
                                   /\ stages[k].ins = cut[pos].ins
                                   /\ stages' = [stages EXCEPT ![k].outs = @ \cup cut[pos].outs]
    BY <1>6 DEF Merge, SameNodes, Merged
  <2>2. pc' = "prune" /\ pos' = pos + 1 /\ pos \in DOMAIN cut
    BY <1>1, <1>6 DEF Merge
  <2>3. stages[k] \in StageType
    BY <1>1
  <2>4. /\ stages'[k].outs = stages[k].outs \cup cut[pos].outs
        /\ stages'[k].nodes = cut[pos].nodes /\ stages'[k].ins = cut[pos].ins
        /\ \A j \in DOMAIN stages : j # k => stages'[j] = stages[j]
        /\ DOMAIN stages' = DOMAIN stages
    BY <1>1, <2>1, <2>3 DEF StageType
  <2>5. Explained'
    <3>1. \A l \in cut[pos].outs : Explains(cut[pos], l)
      BY <2>2 DEF CInv, Explained
    <3>2. \A j \in DOMAIN stages : \A l \in stages[j].outs : Explains(stages[j], l)
      BY DEF CInv, Explained
    <3>3. ASSUME NEW j \in DOMAIN stages', NEW l \in stages'[j].outs
          PROVE  Explains(stages'[j], l)
      <4>1. CASE j # k
        BY <2>4, <3>2, <3>3, <4>1
      <4>2. CASE j = k /\ l \in cut[pos].outs
        BY <2>4, <3>1, <4>2 DEF Explains
      <4>3. CASE j = k /\ l \in stages[k].outs
        BY <2>1, <2>4, <3>2, <4>3 DEF Explains
      <4> QED BY <2>4, <3>3, <4>1, <4>2, <4>3
    <3> QED BY <1>1, <3>3 DEF CInv, Explained, Explains
  <2>6. Established \subseteq Established' /\ cut[pos].outs \subseteq Established'
    BY <2>4 DEF Established
  <2>7. \A j \in DOMAIN cut : j < pos + 1 => j < pos \/ j = pos
    BY <1>1
  <2> QED BY <1>1, <2>2, <2>5, <2>6, <2>7 DEF CInv, Pruned, Gone
<1>7. ASSUME MergeRefused PROVE Explained' /\ Pruned'
  BY <1>7 DEF MergeRefused, CInv, Explained, Pruned
<1>8. ASSUME PruneDone PROVE Explained' /\ Pruned'
  <2>1. \A k \in DOMAIN cut : k < pos
    BY <1>1, <1>8 DEF PruneDone
  <2> QED BY <1>1, <1>8, <2>1 DEF PruneDone, CInv, Explained, Pruned, Gone, Established
<1> QED BY <1>1, <1>2, <1>4, <1>5, <1>6, <1>7, <1>8 DEF CInv

\* The later phases leave the stages alone.
LEMMA LaterCovers ==
    ASSUME CInv, \/ CheckStage \/ CheckRefused \/ CheckDone \/ PoolSucceeds \/ PoolFails
                 \/ UNCHANGED vars
    PROVE  CInv'
<1>1. IInv' /\ IInv
  BY StepInv DEF CInv, Next
<1>2. UNCHANGED <<ordered, verified, cut, stages>>
  BY DEF CheckStage, CheckRefused, CheckDone, PoolSucceeds, PoolFails, vars
<1>3. Formed' /\ Explained' /\ Established' = Established
  BY <1>2 DEF CInv, Formed, Restated, Explained, Established
<1>4. \/ pc' = "error"
      \/ /\ pc' \in {"check", "pool", "success"}
         /\ pc \in {"check", "pool", "success"}
      \/ pc' = pc /\ pos' = pos
  BY DEF CheckStage, CheckRefused, CheckDone, PoolSucceeds, PoolFails, vars
<1>5. Behind' /\ Pruned'
  BY <1>2, <1>3, <1>4 DEF CInv, Behind, Pruned, Gone
<1> QED BY <1>1, <1>3, <1>5 DEF CInv

LEMMA StepCovers == CInv /\ [Next]_vars => CInv'
  BY CutCovers, PruneCovers, LaterCovers DEF Next, Done

(***************************************************************************)
(* The theorems.                                                           *)
(***************************************************************************)
\* Every variable of the scheduler keeps its type.
THEOREM TypeCorrect == Spec => []TypeOK
<1>1. IInv => TypeOK
  BY DEF IInv
<1> QED BY <1>1, InitInv, StepInv, PTL DEF Spec

\* SUCCESS implies every lineage a stage was kept for, for all graphs and
\* every order of lineages, whatever lineages the slicing picked as inputs.
THEOREM SuccessIsSound == Spec => []SuccessSound
<1>1. IInv => SuccessSound
  BY DEF IInv, ChainSound, SuccessSound, Established
<1> QED BY <1>1, InitInv, StepInv, PTL DEF Spec

\* At SUCCESS each lineage of the list is initialized, established by a stage
\* that was kept, or restates another one, for all graphs and all orders.
THEOREM NothingIsDropped == Spec => []NothingDropped
<1>1. ASSUME CInv PROVE NothingDropped
  <2> SUFFICES ASSUME pc = "success", NEW j \in DOMAIN ordered,
                      ~IsInitialized(ordered[j]), ordered[j] \notin Established
               PROVE  Restated(ordered[j])
    BY DEF NothingDropped, Restated
  <2>1. ordered[j] \in verified
    BY <1>1 DEF CInv, Behind
  <2>2. PICK k \in DOMAIN cut : /\ ordered[j] \in cut[k].outs
                                /\ cut[k].nodes = {} => Restated(ordered[j])
    BY <1>1, <2>1 DEF CInv, Formed
  <2>3. Gone(k)
    BY <1>1 DEF CInv, Pruned
  <2> QED BY <2>2, <2>3 DEF Gone
<1> QED BY <1>1, InitCovers, StepCovers, PTL DEF Spec

\* The stage that establishes a lineage has the operators that compute it, for
\* all graphs, whatever lineages the slicing picked as inputs.
THEOREM StagesCompute == Spec => []StageComputesOutputs
<1>1. CInv => StageComputesOutputs
  BY DEF CInv, Explained, Explains, StageComputesOutputs
<1> QED BY <1>1, InitCovers, StepCovers, PTL DEF Spec
=============================================================================
