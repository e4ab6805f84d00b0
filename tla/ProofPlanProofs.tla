--------------------------- MODULE ProofPlanProofs ---------------------------
(***************************************************************************)
(* Theorems of ProofPlan for all registries and all goals.                 *)
(***************************************************************************)
EXTENDS ProofPlan, FiniteSetTheorems, SequenceTheorems, WellFoundedInduction, NaturalsInduction, TLAPS

Phases == {"relation", "rules", "writers", "pieces", "cycles", "visit", "done"}
Codes == {"none", "lineage", "rule", "duplicate", "cycle", "missing", "shape"}
KeyType == Side \X Nat \X Nat
FrameType == [node : Nat, out : Nat, next : Nat, deps : SUBSET KeyType, ext : SUBSET Tid]
StepType == [id : KeyType, deps : SUBSET KeyType, ext : SUBSET Tid]

TypeOK ==
    /\ goal \in Goal
    /\ phase \in Phases /\ side \in Side /\ at \in Nat \ {0}
    /\ phase \in {"rules", "writers", "cycles"} => at <= Len(Nodes(side))
    /\ writers \in [Side -> [Tid -> Seq(Nat \X Nat)]]
    /\ stack \in Seq(FrameType)
    /\ closed \in SUBSET Nat
    /\ steps \in Seq(StepType)
    /\ targets \in Seq(KeyType)
    /\ diag \in Codes /\ (phase # "done" => diag = "none")

(***************************************************************************)
(* What the nodes of a goal say by themselves.                             *)
(***************************************************************************)
Writes(s, j, t) == t \in Elements(Nodes(s)[j].outs)

\* The output of node j that is tensor t.
Slot(s, j, t) == CHOOSE o \in 1..Len(Nodes(s)[j].outs) : Nodes(s)[j].outs[o] = t

\* Nobody before node i writes t; node j is the last one to do so.
Unwritten(s, t, i) == \A j \in 1..(i - 1) : ~Writes(s, j, t)
Latest(s, t, i, j) ==
    /\ j \in 1..(i - 1) /\ Writes(s, j, t)
    /\ \A k \in (j + 1)..(i - 1) : ~Writes(s, k, t)

(***************************************************************************)
(* The inductive invariant.                                                *)
(***************************************************************************)
\* The lists of writers are those of the first n nodes, in their order.
Listed(s, n, t) ==
    LET ws == writers[s][t]
    IN /\ \A m \in 1..Len(ws) : \E j \in 1..n : Writes(s, j, t) /\ ws[m] = <<j, Slot(s, j, t)>>
       /\ \A j \in 1..n : Writes(s, j, t) =>
            \E m \in 1..Len(ws) : ws[m] = <<j, Slot(s, j, t)>>
       /\ \A m, k \in 1..Len(ws) : m < k => ws[m][1] < ws[k][1]
Indexed(s, n) == \A t \in Tid : Listed(s, n, t)

Behind(s) ==
    CASE phase \in {"relation", "rules"} -> 0
      [] phase = "writers" /\ s = side -> at - 1
      [] phase = "writers" /\ s # side -> IF s = "sm" THEN Len(Nodes(s)) ELSE 0
      [] OTHER -> Len(Nodes(s))
Written == phase # "done" => \A s \in Side : \A n \in {Behind(s)} : Indexed(s, n)

Ids == {steps[i].id : i \in 1..Len(steps)}

\* Inputs K of node n are served by deps and ext, which hold nothing else.
Served(s, n, K, deps, ext) ==
    LET ins == Nodes(s)[n].ins
        By(k, d) == \E j \in 1..(n - 1) : Latest(s, ins[k], n, j) /\ d = <<s, j, Slot(s, j, ins[k])>>
    IN /\ \A k \in K : \/ Unwritten(s, ins[k], n) /\ ins[k] \in ext
                       \/ \E d \in deps : By(k, d)
       /\ \A t \in ext : t \in goal.inits[s] /\ Unwritten(s, t, n)
       /\ \A d \in deps : \E k \in 1..Len(ins) : By(k, d)

\* id names an output of a node of the goal.
Named(id) ==
    /\ id \in KeyType
    /\ id[2] \in 1..Len(Nodes(id[1]))
    /\ id[3] \in 1..Len(NodeOf(id).outs) /\ id[3] = Slot(id[1], id[2], Output(id))

\* The step of a frame is still to come and all its inputs before next are
\* resolved; a frame reads from the one above it, hence from a later node.
Open ==
    phase = "visit" =>
      \A m \in 1..Len(stack) :
        LET f == stack[m]
            id == <<side, f.node, f.out>>
        IN /\ Named(id) /\ id \notin Ids
           /\ f.next \in 1..(Len(NodeOf(id).ins) + 1)
           /\ Served(side, f.node, 1..(f.next - 1), f.deps, f.ext)
           /\ f.deps \subseteq Ids
           /\ \A k \in 1..Len(stack) : m < k => stack[k].node < f.node

\* A step has all its inputs, from steps before it.
Ordered ==
    \A i \in 1..Len(steps) :
      LET id == steps[i].id
      IN /\ Named(id)
         /\ Served(id[1], id[2], 1..Len(NodeOf(id).ins), steps[i].deps, steps[i].ext)
         /\ steps[i].deps \subseteq {steps[j].id : j \in 1..(i - 1)}
         /\ \A j \in 1..(i - 1) : steps[j].id # id

\* The targets met so far have the steps of their last writers.
AimedAt(k) ==
    LET s == Targets[k][1]
        t == Targets[k][2]
    IN /\ targets[k] \in Ids
       /\ \E j \in 1..Len(Nodes(s)) : /\ Latest(s, t, Len(Nodes(s)) + 1, j)
                                      /\ targets[k] = <<s, j, Slot(s, j, t)>>
Aimed ==
    /\ phase = "visit" => Len(targets) = at - 1 /\ at <= Len(Targets) + 1
    /\ phase = "done" /\ diag \in {"none", "shape"} => Len(targets) = Len(Targets)
    /\ Len(targets) <= Len(Targets)
    /\ \A k \in 1..Len(targets) : AimedAt(k)

Fresh ==
    phase \in {"relation", "rules", "writers", "pieces", "cycles"} =>
      /\ steps = <<>> /\ targets = <<>>
      /\ phase # "cycles" => stack = <<>> /\ closed = {}
      /\ phase \in {"relation", "pieces"} => side = "sm" /\ at = 1

IInv == TypeOK /\ Written /\ Open /\ Ordered /\ Aimed /\ Fresh

(***************************************************************************)
(* The search for cycles.                                                  *)
(***************************************************************************)
\* The nodes in C only read from nodes in C, of a lower rank.
Ranked(s, C) ==
    \E b \in Nat : \E f \in [C -> 0..b] :
       \A i \in C : \A j \in Reads(s, i) : j \in C /\ f[j] < f[i]
Acyclic(s) == Ranked(s, 1..Len(Nodes(s)))

\* A way along reads back to where it starts.
Looped(s) ==
    \E k \in 1..Len(Nodes(s)) : \E p \in [0..k -> 1..Len(Nodes(s))] :
       p[0] = p[k] /\ \A m \in 0..(k - 1) : p[m + 1] \in Reads(s, p[m])

\* A frame reads from the one above it, and from nodes in C at the inputs already
\* followed; the stack does not come back to a node.
Trail(s, C, fs, m) ==
    LET f == fs[m]
    IN /\ f.node \in (1..Len(Nodes(s))) \ C
       /\ f.next \in 1..(Len(Nodes(s)[f.node].ins) + 1)
       /\ \A k \in 1..(f.next - 1) :
            \A j \in ReadsFrom(s, f.node, Nodes(s)[f.node].ins[k]) :
              j \in C \/ (m < Len(fs) /\ j = fs[m + 1].node)
       /\ m < Len(fs) => fs[m + 1].node \in Reads(s, f.node)
       /\ \A l \in 1..Len(fs) : l # m => fs[l].node # f.node

\* The closed nodes are ranked.
Searched ==
    /\ phase = "cycles" =>
         /\ closed \subseteq 1..Len(Nodes(side)) /\ 1..(at - 1) \subseteq closed
         /\ Ranked(side, closed)
         /\ side = "pm" => Acyclic("sm")
         /\ \A m \in 1..Len(stack) : Trail(side, closed, stack, m)
    /\ phase = "visit" \/ (phase = "done" /\ diag \in {"none", "missing", "shape"}) =>
         Acyclic("sm") /\ Acyclic("pm")
    /\ diag = "cycle" => \E s \in Side : Looped(s)

\* A read or a target that nobody serves.
Unserved ==
    \/ \E k \in 1..Len(Targets) : FinalWriter(Targets[k][1], Targets[k][2]) = <<>>
    \/ \E s \in Side : \E i \in 1..Len(Nodes(s)) :
         \E t \in Elements(Nodes(s)[i].ins) \ goal.inits[s] :
           \A j \in 1..(i - 1) : t \notin Elements(Nodes(s)[j].outs)

CInv == IInv /\ Searched /\ (diag = "missing" => Unserved)

----------------------------------------------------------------------------
(***************************************************************************)
(* Numbers.                                                                *)
(***************************************************************************)
\* A set of natural numbers has a least element: induction by the least
\* counterexample.
LEMMA Least ==
    ASSUME NEW T \in SUBSET Nat, T # {}
    PROVE  \E x \in T : \A y \in T : ~(y < x)
<1>1. \E x \in T : \A y \in T : ~(<<y, x>> \in OpToRel(<, Nat))
  BY WFMin, NatLessThanWellFounded, Zenon
<1> QED BY <1>1, Zenon DEF OpToRel

LEMMA Greatest ==
    ASSUME NEW n \in Nat, NEW T \in SUBSET (1..n), T # {}
    PROVE  \E x \in T : \A y \in T : y <= x
<1> DEFINE U == {n - y : y \in T}
<1>0. \A y \in T : n - y \in Nat /\ y \in 1..n
  OBVIOUS
<1>1. U \in SUBSET Nat /\ U # {}
  BY <1>0
<1>2. PICK u \in U : \A v \in U : ~(v < u)
  BY <1>1, Least
<1>3. PICK x \in T : u = n - x
  BY <1>2
<1>4. \A y \in T : n - y \in U
  OBVIOUS
<1>5. ASSUME NEW y \in T PROVE y <= x
  <2>1. ~(n - y < n - x)
    BY <1>2, <1>3, <1>4
  <2> QED BY <1>0, <2>1
<1> QED BY <1>5

(***************************************************************************)
(* Nodes and their writers.                                                *)
(***************************************************************************)
\* A step leaves the goal as it is, and so all that follows from it.
LEMMA Rigid ==
    ASSUME goal' = goal
    PROVE  /\ \A s : Nodes(s)' = Nodes(s)
           /\ Targets' = Targets
           /\ \A s, j, t : Writes(s, j, t)' <=> Writes(s, j, t)
           /\ \A s, j, t : Slot(s, j, t)' = Slot(s, j, t)
           /\ \A id : NodeOf(id)' = NodeOf(id) /\ Output(id)' = Output(id)
<1> QED BY DEF Nodes, Targets, Writes, Slot, NodeOf, Output

LEMMA RigidRelations ==
    ASSUME goal' = goal
    PROVE  /\ \A s, t, i : Unwritten(s, t, i)' <=> Unwritten(s, t, i)
           /\ \A s, t, i, j : Latest(s, t, i, j)' <=> Latest(s, t, i, j)
           /\ \A id : Named(id)' <=> Named(id)
           /\ \A s, n, K, deps, ext : Served(s, n, K, deps, ext)' <=> Served(s, n, K, deps, ext)
<1>1. \A s, t, i : Unwritten(s, t, i)' <=> Unwritten(s, t, i)
  BY Rigid DEF Unwritten
<1>2. \A s, t, i, j : Latest(s, t, i, j)' <=> Latest(s, t, i, j)
  BY Rigid DEF Latest
<1>3. \A id : Named(id)' <=> Named(id)
  BY Rigid DEF Named
<1>4. ASSUME NEW s, NEW n, NEW K, NEW deps, NEW ext
      PROVE  Served(s, n, K, deps, ext)' <=> Served(s, n, K, deps, ext)
  BY Rigid, <1>1, <1>2 DEF Served
<1> QED BY <1>1, <1>2, <1>3, <1>4

LEMMA SlotHolds ==
    ASSUME NEW s, NEW j, NEW t, Writes(s, j, t)
    PROVE  Slot(s, j, t) \in 1..Len(Nodes(s)[j].outs) /\ Nodes(s)[j].outs[Slot(s, j, t)] = t
<1>1. \E o \in 1..Len(Nodes(s)[j].outs) : Nodes(s)[j].outs[o] = t
  BY DEF Writes, Elements
<1> QED BY <1>1 DEF Slot

LEMMA TargetsAre ==
    ASSUME TypeOK
    PROVE  /\ Len(Targets) \in Nat
           /\ \A k \in 1..Len(Targets) : Targets[k][1] \in Side /\ Targets[k][2] \in Tid
<1>1. /\ goal.target \in Tid /\ Len(goal.pieces) \in Nat
      /\ \A i \in 1..Len(goal.pieces) : goal.pieces[i].tid \in Tid
  BY ProofPlanAssumption DEF TypeOK
<1> DEFINE p == [i \in 1..Len(goal.pieces) |-> <<"pm", goal.pieces[i].tid>>]
<1>2. p \in Seq(Side \X Tid)
  BY <1>1 DEF Side
<1>3. <<<<"sm", goal.target>>>> \in Seq(Side \X Tid)
  BY <1>1 DEF Side
<1>4. Targets = <<<<"sm", goal.target>>>> \o p
  BY DEF Targets
<1> HIDE DEF p
<1>5. Targets \in Seq(Side \X Tid)
  BY <1>2, <1>3, <1>4
<1> QED BY <1>5

\* producer_before finds the last writer.
LEMMA ProducerIs ==
    ASSUME TypeOK, NEW s \in Side, NEW t \in Tid, NEW n \in Nat, Indexed(s, n),
           NEW i \in 1..(n + 1)
    PROVE  \/ ProducerBefore(s, t, i) = <<>> /\ Unwritten(s, t, i)
           \/ \E j \in 1..(i - 1) : /\ Latest(s, t, i, j)
                                    /\ ProducerBefore(s, t, i) = <<j, Slot(s, j, t)>>
<1> DEFINE ws == writers[s][t]
           E == Eligible(s, t, i)
<1>0. ws \in Seq(Nat \X Nat) /\ Len(ws) \in Nat
  BY DEF TypeOK
<1>1. /\ \A m \in 1..Len(ws) : \E j \in 1..n : Writes(s, j, t) /\ ws[m] = <<j, Slot(s, j, t)>>
      /\ \A j \in 1..n : Writes(s, j, t) => \E m \in 1..Len(ws) : ws[m] = <<j, Slot(s, j, t)>>
      /\ \A m, k \in 1..Len(ws) : m < k => ws[m][1] < ws[k][1]
  BY DEF Indexed, Listed
<1>2. E = {m \in 1..Len(ws) : ws[m][1] < i}
  BY DEF Eligible
<1> HIDE DEF ws, E
<1>3. CASE E = {}
  <2>1. ASSUME NEW j \in 1..(i - 1), Writes(s, j, t) PROVE FALSE
    <3>1. PICK m \in 1..Len(ws) : ws[m] = <<j, Slot(s, j, t)>>
      BY <1>1, <2>1
    <3> QED BY <1>2, <1>3, <3>1
  <2> QED BY <1>3, <2>1 DEF E, ProducerBefore, Unwritten
<1>4. CASE E # {}
  <2> DEFINE m == CHOOSE m \in E : \A k \in E : k <= m
  <2>1. m \in E /\ \A k \in E : k <= m
    BY <1>0, <1>2, <1>4, Greatest
  <2>2. ProducerBefore(s, t, i) = ws[m]
    BY <1>4 DEF ProducerBefore, E, ws
  <2> HIDE DEF m
  <2>3. PICK j \in 1..n : Writes(s, j, t) /\ ws[m] = <<j, Slot(s, j, t)>>
    BY <1>1, <1>2, <2>1
  <2>4. j \in 1..(i - 1)
    BY <1>2, <2>1, <2>3
  <2>5. ASSUME NEW k \in (j + 1)..(i - 1), Writes(s, k, t) PROVE FALSE
    <3>1. PICK l \in 1..Len(ws) : ws[l] = <<k, Slot(s, k, t)>>
      <4>1. k \in 1..n
        BY <2>4
      <4> QED BY <1>1, <2>5, <4>1
    <3>2. l \in E
      BY <1>2, <3>1
    <3>3. m \in 1..Len(ws) /\ (l = m \/ l < m)
      BY <1>0, <1>2, <2>1, <3>2
    <3>4. ws[m][1] = j /\ ws[l][1] = k /\ j < k
      BY <2>3, <2>4, <3>1
    <3>5. ~(k < j) /\ k # j
      BY <2>4, <3>4
    <3> QED BY <1>1, <3>3, <3>4, <3>5
  <2> QED BY <2>2, <2>3, <2>4, <2>5 DEF Latest
<1> QED BY <1>3, <1>4

(***************************************************************************)
(* The invariant is kept by the loops before visit.                        *)
(***************************************************************************)
LEMMA NodesAre ==
    ASSUME TypeOK, NEW s \in Side
    PROVE  /\ Len(Nodes(s)) \in Nat \ {0}
           /\ goal.inits[s] \subseteq Tid
           /\ \A i \in 1..Len(Nodes(s)) : Nodes(s)[i].ins \in Seq(Tid) /\ Nodes(s)[i].outs \in Seq(Tid)
  BY ProofPlanAssumption DEF TypeOK, Nodes

LEMMA InitInv == Init => IInv
<1> SUFFICES ASSUME Init PROVE IInv
  OBVIOUS
<1>1. TypeOK
  <2>1. writers \in [Side -> [Tid -> Seq(Nat \X Nat)]]
    <3>1. <<>> \in Seq(Nat \X Nat)
      OBVIOUS
    <3> QED BY <3>1 DEF Init
  <2> QED BY <2>1 DEF Init, TypeOK, Phases, Codes, Side
<1>2. ASSUME NEW s \in Side PROVE Indexed(s, 0)
  BY DEF Init, Indexed, Listed
<1>3. Behind("sm") = 0 /\ Behind("pm") = 0
  BY DEF Init, Behind
<1>4. Written
  BY <1>2, <1>3 DEF Written, Side
<1>5. Len(steps) = 0 /\ Len(targets) = 0
  BY DEF Init
<1>6. Len(Targets) \in Nat
  BY <1>1, TargetsAre
<1>7. Open /\ Ordered /\ Fresh
  BY <1>5 DEF Init, Open, Ordered, Fresh
<1>8. Aimed
  BY <1>5, <1>6 DEF Init, Aimed
<1> QED BY <1>1, <1>4, <1>7, <1>8 DEF IInv

\* Ordered and Aimed look at the goal, the steps and the targets alone.
LEMMA Kept ==
    ASSUME IInv, UNCHANGED <<goal, steps, targets>>
    PROVE  /\ Ids' = Ids /\ Ordered'
           /\ Len(targets') <= Len(Targets')
           /\ \A k \in 1..Len(targets') : AimedAt(k)'
<1>1. Ids' = Ids
  BY DEF Ids
<1>2. Ordered'
  BY Rigid, RigidRelations DEF IInv, Ordered
<1>3. Targets' = Targets /\ targets' = targets
  BY Rigid
<1>4. Len(targets') <= Len(Targets')
  BY <1>3 DEF IInv, Aimed
<1>5. ASSUME NEW k \in 1..Len(targets) PROVE AimedAt(k)'
  <2> DEFINE s == Targets[k][1]
             t == Targets[k][2]
  <2>1. PICK j \in 1..Len(Nodes(s)) : /\ Latest(s, t, Len(Nodes(s)) + 1, j)
                                      /\ targets[k] = <<s, j, Slot(s, j, t)>>
    BY <1>5 DEF IInv, Aimed, AimedAt
  <2>2. targets[k] \in Ids
    BY <1>5 DEF IInv, Aimed, AimedAt
  <2> QED BY <1>1, <1>3, <2>1, <2>2, Rigid, RigidRelations DEF AimedAt
<1> QED BY <1>1, <1>2, <1>3, <1>4, <1>5

LEMMA RejectInv ==
    ASSUME IInv, phase # "done", NEW code \in Codes \ {"none", "shape"}, Reject(code)
    PROVE  IInv'
<1>1. /\ UNCHANGED <<goal, side, at, writers, stack, closed, steps, targets>>
      /\ phase' = "done" /\ diag' = code
  BY DEF Reject
<1>2. TypeOK'
  BY <1>1 DEF IInv, TypeOK, Phases
<1>3. Ordered' /\ Aimed'
  BY <1>1, Kept DEF Aimed
<1>4. Written' /\ Open' /\ Fresh'
  BY <1>1 DEF Written, Open, Fresh
<1> QED BY <1>2, <1>3, <1>4 DEF IInv

LEMMA IndexedKept ==
    ASSUME UNCHANGED <<goal, writers>>, NEW s, NEW n, Indexed(s, n)
    PROVE  Indexed(s, n)'
<1> SUFFICES ASSUME NEW t \in Tid PROVE Listed(s, n, t)'
  BY DEF Indexed
<1>1. Listed(s, n, t) /\ writers' = writers
  BY DEF Indexed
<1>2. /\ \A j : Writes(s, j, t)' <=> Writes(s, j, t)
      /\ \A j : Slot(s, j, t)' = Slot(s, j, t)
  BY Rigid
<1> QED BY <1>1, <1>2, Zenon DEF Listed

\* To the next node, the next side or the next loop.
LEMMA Advances ==
    ASSUME TypeOK, phase \in {"rules", "writers", "cycles"}, NEW next, Advance(next)
    PROVE  /\ at' \in Nat \ {0} /\ side' \in Side
           /\ \/ at < Len(Nodes(side)) /\ at' = at + 1 /\ side' = side /\ phase' = phase
              \/ at = Len(Nodes(side)) /\ at' = 1 /\ side = "sm" /\ side' = "pm" /\ phase' = phase
              \/ at = Len(Nodes(side)) /\ at' = 1 /\ side = "pm" /\ side' = "sm" /\ phase' = next
<1>1. Len(Nodes(side)) \in Nat \ {0} /\ at \in Nat \ {0} /\ at <= Len(Nodes(side)) /\ side \in Side
  BY NodesAre DEF TypeOK
<1>2. CASE at < Len(Nodes(side))
  BY <1>1, <1>2 DEF Advance
<1>3. CASE ~(at < Len(Nodes(side)))
  <2>1. at = Len(Nodes(side))
    BY <1>1, <1>3
  <2> QED BY <1>1, <1>3, <2>1 DEF Advance, Side
<1> QED BY <1>2, <1>3

LEMMA EarlyInv ==
    ASSUME IInv, TypeOK', Written',
           phase \in {"relation", "rules", "writers", "pieces", "cycles"},
           phase' \in {"relation", "rules", "writers", "pieces", "cycles", "visit"},
           UNCHANGED <<goal, steps, targets>>,
           phase' \notin {"cycles", "visit"} => stack' = <<>> /\ closed' = {},
           phase' \in {"relation", "pieces"} => side' = "sm" /\ at' = 1,
           phase' = "visit" => stack' = <<>> /\ at' = 1
    PROVE  IInv'
<1>1. Ordered' /\ Fresh'
  BY Kept DEF IInv, Fresh
<1>2. phase' = "visit" => Len(stack') = 0
  OBVIOUS
<1>3. Open'
  BY <1>2 DEF Open
<1>4. Len(targets') = 0 /\ Len(Targets') \in Nat /\ phase' # "done"
  <2>1. Len(Targets) \in Nat /\ Targets' = Targets
    BY TargetsAre, Rigid DEF IInv
  <2> QED BY <2>1 DEF IInv, Fresh
<1>5. phase' = "visit" => Len(targets') = at' - 1 /\ at' <= Len(Targets') + 1
  BY <1>4
<1>6. Aimed'
  BY <1>4, <1>5 DEF Aimed
<1> QED BY <1>1, <1>3, <1>6 DEF IInv

LEMMA RelationInv ==
    ASSUME IInv, CheckRelation \/ RefuseRelation
    PROVE  IInv'
<1>1. ASSUME CheckRelation PROVE IInv'
  <2>1. /\ phase = "relation" /\ phase' = "rules"
        /\ UNCHANGED <<goal, side, at, writers, stack, closed, steps, targets, diag>>
    BY <1>1 DEF CheckRelation
  <2>2. \A s : Behind(s)' = 0 /\ Behind(s) = 0
    BY <2>1 DEF Behind
  <2>3. Written'
    BY <2>1, <2>2, IndexedKept DEF IInv, Written
  <2>4. at <= Len(Nodes(side))
    BY <2>1, NodesAre DEF IInv, TypeOK, Fresh
  <2>5. TypeOK'
    BY <2>1, <2>4 DEF IInv, TypeOK, Phases, Nodes
  <2> QED BY <2>1, <2>3, <2>5, EarlyInv DEF IInv, Fresh
<1>2. ASSUME RefuseRelation PROVE IInv'
  BY <1>2, RejectInv DEF RefuseRelation, Codes
<1> QED BY <1>1, <1>2

LEMMA RulesInv ==
    ASSUME IInv, CheckRule \/ RefuseRule
    PROVE  IInv'
<1>1. ASSUME CheckRule PROVE IInv'
  <2>1. /\ phase = "rules" /\ Advance("writers")
        /\ UNCHANGED <<goal, writers, stack, closed, steps, targets, diag>>
    BY <1>1 DEF CheckRule
  <2>2. /\ at' \in Nat \ {0} /\ side' \in Side
        /\ \/ at < Len(Nodes(side)) /\ at' = at + 1 /\ side' = side /\ phase' = "rules"
           \/ at' = 1 /\ side' = "pm" /\ phase' = "rules"
           \/ at' = 1 /\ side' = "sm" /\ phase' = "writers"
    BY <2>1, Advances DEF IInv
  <2>3. \A s \in Side : Behind(s)' = 0 /\ Behind(s) = 0
    BY <2>1, <2>2 DEF Behind, Side
  <2>4. Written'
    BY <2>1, <2>3, IndexedKept DEF IInv, Written
  <2>5. at' <= Len(Nodes(side)')
    BY <2>1, <2>2, NodesAre, Rigid DEF IInv, TypeOK, Side
  <2>6. TypeOK'
    BY <2>1, <2>2, <2>5 DEF IInv, TypeOK, Phases
  <2> QED BY <2>1, <2>2, <2>4, <2>6, EarlyInv DEF IInv, Fresh
<1>2. ASSUME RefuseRule PROVE IInv'
  BY <1>2, RejectInv DEF RefuseRule, Codes
<1> QED BY <1>1, <1>2

\* The node at the cursor joins the lists of its outputs, at their ends.
LEMMA IndexNode ==
    ASSUME IInv, IndexWriter
    PROVE  /\ writers' \in [Side -> [Tid -> Seq(Nat \X Nat)]]
           /\ \A s, n : s = side /\ n = at => Indexed(s, n)'
           /\ \A s \in Side \ {side} : writers'[s] = writers[s]
<1> DEFINE n == at - 1
           outs == Nodes(side)[at].outs
           o(t) == CHOOSE o \in 1..Len(outs) : outs[o] = t
<1>1. /\ phase = "writers" /\ goal' = goal /\ side \in Side /\ at \in 1..Len(Nodes(side))
      /\ writers \in [Side -> [Tid -> Seq(Nat \X Nat)]]
      /\ writers' = [writers EXCEPT ![side] = [t \in Tid |->
             IF t \in Elements(outs) THEN Append(@[t], <<at, o(t)>>) ELSE @[t]]]
  BY NodesAre DEF IndexWriter, IInv, TypeOK
<1>2. \A t : o(t) = Slot(side, at, t)
  BY DEF Slot
<1>3. \A t \in Elements(outs) : Slot(side, at, t) \in Nat /\ Writes(side, at, t)
  <2>1. outs \in Seq(Tid)
    BY <1>1, NodesAre DEF IInv
  <2> QED BY <2>1, SlotHolds DEF Writes
<1> HIDE DEF o
<1>4. \A t \in Tid : writers'[side][t] = IF Writes(side, at, t)
                                         THEN Append(writers[side][t], <<at, Slot(side, at, t)>>)
                                         ELSE writers[side][t]
  BY <1>1, <1>2 DEF Writes
<1>5. writers' \in [Side -> [Tid -> Seq(Nat \X Nat)]]
  <2>1. ASSUME NEW t \in Tid PROVE writers'[side][t] \in Seq(Nat \X Nat)
    <3>1. writers[side][t] \in Seq(Nat \X Nat)
      BY <1>1
    <3>2. CASE Writes(side, at, t)
      <4>1. <<at, Slot(side, at, t)>> \in Nat \X Nat
        BY <1>1, <1>3, <3>2 DEF Writes
      <4>2. writers'[side][t] = Append(writers[side][t], <<at, Slot(side, at, t)>>)
        BY <1>4, <3>2
      <4> QED BY <3>1, <4>1, <4>2
    <3> QED BY <1>4, <3>1, <3>2
  <2>2. /\ DOMAIN writers' = Side /\ DOMAIN writers'[side] = Tid
        /\ \A s \in Side \ {side} : writers'[s] = writers[s]
        /\ writers' = [s \in Side |-> writers'[s]]
        /\ writers'[side] = [t \in Tid |-> writers'[side][t]]
    BY <1>1
  <2>3. writers'[side] \in [Tid -> Seq(Nat \X Nat)]
    BY <2>1, <2>2
  <2>4. \A s \in Side : writers'[s] \in [Tid -> Seq(Nat \X Nat)]
    BY <1>1, <2>2, <2>3
  <2> QED BY <2>2, <2>4
<1>6. Indexed(side, n)
  BY <1>1 DEF IInv, Written, Behind
<1>7. ASSUME NEW t \in Tid
      PROVE  LET ws == writers'[side][t]
             IN /\ \A m \in 1..Len(ws) : \E j \in 1..at : /\ Writes(side, j, t)
                                                          /\ ws[m] = <<j, Slot(side, j, t)>>
                /\ \A j \in 1..at : Writes(side, j, t) =>
                     \E m \in 1..Len(ws) : ws[m] = <<j, Slot(side, j, t)>>
                /\ \A m, k \in 1..Len(ws) : m < k => ws[m][1] < ws[k][1]
  <2> DEFINE ws == writers'[side][t]
             vs == writers[side][t]
  <2>0. vs \in Seq(Nat \X Nat) /\ n \in Nat /\ at = n + 1
    BY <1>1
  <2>1. /\ \A m \in 1..Len(vs) : \E j \in 1..n : Writes(side, j, t) /\ vs[m] = <<j, Slot(side, j, t)>>
        /\ \A j \in 1..n : Writes(side, j, t) => \E m \in 1..Len(vs) : vs[m] = <<j, Slot(side, j, t)>>
        /\ \A m, k \in 1..Len(vs) : m < k => vs[m][1] < vs[k][1]
    BY <1>6 DEF Indexed, Listed
  <2>2. ws = IF Writes(side, at, t) THEN Append(vs, <<at, Slot(side, at, t)>>) ELSE vs
    BY <1>4
  <2> HIDE DEF ws, vs, n
  <2>3. CASE ~Writes(side, at, t)
    <3>1. \A j \in 1..at : Writes(side, j, t) => j \in 1..n
      BY <2>0, <2>3
    <3>2. \A j \in 1..n : j \in 1..at
      BY <2>0
    <3>3. ws = vs
      BY <2>2, <2>3
    <3> QED BY <2>1, <3>1, <3>2, <3>3 DEF ws
  <2>4. CASE Writes(side, at, t)
    <3> DEFINE l == Len(vs) + 1
               x == <<at, Slot(side, at, t)>>
    <3>1. /\ ws = Append(vs, x) /\ Len(ws) = l /\ ws[l] = x /\ l \in 1..Len(ws)
          /\ \A m \in 1..Len(vs) : m \in 1..Len(ws) /\ ws[m] = vs[m] /\ m < l
          /\ \A m \in 1..Len(ws) : m = l \/ m \in 1..Len(vs)
      BY <2>0, <2>2, <2>4
    <3> HIDE DEF l, x
    <3>2. \A m \in 1..Len(ws) : \E j \in 1..at : Writes(side, j, t) /\ ws[m] = <<j, Slot(side, j, t)>>
      <4>1. at \in 1..at /\ \A j \in 1..n : j \in 1..at
        BY <2>0
      <4>2. ws[l] = <<at, Slot(side, at, t)>>
        BY <3>1 DEF x
      <4>3. ASSUME NEW m \in 1..Len(ws)
            PROVE  \E j \in 1..at : Writes(side, j, t) /\ ws[m] = <<j, Slot(side, j, t)>>
        <5>1. CASE m = l
          BY <2>4, <4>1, <4>2, <5>1
        <5>2. CASE m \in 1..Len(vs)
          <6>1. \E j \in 1..n : Writes(side, j, t) /\ vs[m] = <<j, Slot(side, j, t)>>
            BY <2>1, <5>2
          <6>2. ws[m] = vs[m]
            BY <3>1, <5>2
          <6> QED BY <4>1, <6>1, <6>2
        <5> QED BY <3>1, <5>1, <5>2
      <4> QED BY <4>3
    <3>3. \A j \in 1..at : Writes(side, j, t) => \E m \in 1..Len(ws) : ws[m] = <<j, Slot(side, j, t)>>
      <4>1. \A j \in 1..at : j = at \/ j \in 1..n
        BY <2>0
      <4> QED BY <2>1, <3>1, <4>1 DEF x
    <3>4. ASSUME NEW m \in 1..Len(ws), NEW k \in 1..Len(ws), m < k PROVE ws[m][1] < ws[k][1]
      <4>1. m \in 1..Len(vs)
        <5>1. m # l
          BY <2>0, <3>1, <3>4 DEF l
        <5> QED BY <3>1, <5>1
      <4>2. CASE k \in 1..Len(vs)
        BY <2>1, <3>1, <3>4, <4>1, <4>2
      <4>3. CASE k = l
        <5>1. PICK j \in 1..n : vs[m] = <<j, Slot(side, j, t)>>
          BY <2>1, <4>1
        <5>2. ws[m][1] = j /\ ws[k][1] = at
          BY <3>1, <4>1, <4>3, <5>1 DEF x
        <5> QED BY <2>0, <5>2
      <4> QED BY <3>1, <4>2, <4>3
    <3> QED BY <3>2, <3>3, <3>4 DEF ws
  <2> QED BY <2>3, <2>4
<1>8. ASSUME NEW s, s = side, NEW l, l = at PROVE Indexed(s, l)'
  <2> SUFFICES ASSUME NEW t \in Tid PROVE Listed(s, l, t)'
    BY DEF Indexed
  <2>1. /\ \A j : Writes(s, j, t)' <=> Writes(s, j, t)
        /\ \A j : Slot(s, j, t)' = Slot(s, j, t)
    BY <1>1, Rigid
  <2>2. LET ws == writers'[s][t]
        IN /\ \A m \in 1..Len(ws) : \E j \in 1..l : Writes(s, j, t) /\ ws[m] = <<j, Slot(s, j, t)>>
           /\ \A j \in 1..l : Writes(s, j, t) => \E m \in 1..Len(ws) : ws[m] = <<j, Slot(s, j, t)>>
           /\ \A m, k \in 1..Len(ws) : m < k => ws[m][1] < ws[k][1]
    BY <1>7, <1>8, Zenon
  <2> QED BY <2>1, <2>2, Zenon DEF Listed
<1> QED BY <1>1, <1>5, <1>8

LEMMA WritersInv ==
    ASSUME IInv, IndexWriter \/ RefuseWriter
    PROVE  IInv'
<1>1. ASSUME IndexWriter PROVE IInv'
  <2>1. /\ phase = "writers" /\ Advance("pieces")
        /\ UNCHANGED <<goal, stack, closed, steps, targets, diag>>
    BY <1>1 DEF IndexWriter
  <2>2. /\ at' \in Nat \ {0} /\ side' \in Side
        /\ \/ at < Len(Nodes(side)) /\ at' = at + 1 /\ side' = side /\ phase' = "writers"
           \/ at = Len(Nodes(side)) /\ at' = 1 /\ side = "sm" /\ side' = "pm" /\ phase' = "writers"
           \/ at = Len(Nodes(side)) /\ at' = 1 /\ side = "pm" /\ side' = "sm" /\ phase' = "pieces"
    BY <2>1, Advances DEF IInv
  <2>3. /\ writers' \in [Side -> [Tid -> Seq(Nat \X Nat)]]
        /\ \A s, n : s = side /\ n = at => Indexed(s, n)'
        /\ \A s \in Side \ {side} : writers'[s] = writers[s]
    BY <1>1, IndexNode
  <2>4. at' <= Len(Nodes(side)') \/ phase' = "pieces"
    <3>1. at \in Nat \ {0} /\ side \in Side /\ Len(Nodes(side)) \in Nat
      BY NodesAre DEF IInv, TypeOK
    <3>2. Len(Nodes(side)') \in Nat \ {0}
      BY <2>1, <2>2, NodesAre DEF IInv, Nodes
    <3>4. CASE at' = 1
      BY <3>2, <3>4
    <3>5. CASE at' = at + 1 /\ side' = side /\ at < Len(Nodes(side))
      <4>1. Nodes(side)' = Nodes(side)
        BY <2>1, <3>5 DEF Nodes
      <4> QED BY <3>1, <3>2, <3>5, <4>1
    <3> QED BY <2>2, <3>4, <3>5
  <2>5. TypeOK'
    BY <2>1, <2>2, <2>3, <2>4 DEF IInv, TypeOK, Phases
  <2>6. Written'
    <3> SUFFICES ASSUME NEW s \in Side, NEW n, n = Behind(s)' PROVE Indexed(s, n)'
      BY DEF Written
    <3>1. at \in Nat \ {0} /\ side \in Side /\ Nodes(s)' = Nodes(s)
      BY <2>1, Rigid DEF IInv, TypeOK
    <3>2. CASE s = side
      <4>1. n = at
        BY <2>1, <2>2, <3>1, <3>2 DEF Behind
      <4> QED BY <2>3, <3>2, <4>1
    <3>3. CASE s # side
      <4>1. n = Behind(s)
        BY <2>1, <2>2, <3>1, <3>3 DEF Behind, Side
      <4>2. Indexed(s, n)
        BY <2>1, <4>1 DEF IInv, Written
      <4>3. writers'[s] = writers[s]
        BY <2>3, <3>3
      <4> SUFFICES ASSUME NEW t \in Tid PROVE Listed(s, n, t)'
        BY DEF Indexed
      <4>4. Listed(s, n, t) /\ writers'[s][t] = writers[s][t]
        BY <4>2, <4>3 DEF Indexed
      <4>5. /\ \A j : Writes(s, j, t)' <=> Writes(s, j, t)
            /\ \A j : Slot(s, j, t)' = Slot(s, j, t)
        BY <2>1, Rigid
      <4> QED BY <4>4, <4>5, Zenon DEF Listed
    <3> QED BY <3>2, <3>3
  <2> QED BY <2>1, <2>2, <2>5, <2>6, EarlyInv DEF IInv, Fresh
<1>2. ASSUME RefuseWriter PROVE IInv'
  BY <1>2, RejectInv DEF RefuseWriter, Codes
<1> QED BY <1>1, <1>2

LEMMA PiecesInv ==
    ASSUME IInv, CheckPieces \/ RefusePieces
    PROVE  IInv'
<1>1. ASSUME CheckPieces PROVE IInv'
  <2>1. /\ phase = "pieces" /\ phase' = "cycles"
        /\ UNCHANGED <<goal, side, at, writers, stack, closed, steps, targets, diag>>
    BY <1>1 DEF CheckPieces
  <2>2. \A s \in Side : Behind(s)' = Behind(s)
    BY <2>1, Rigid DEF Behind
  <2>3. Written'
    BY <2>1, <2>2, IndexedKept DEF IInv, Written
  <2>4. at <= Len(Nodes(side)')
    BY <2>1, NodesAre, Rigid DEF IInv, TypeOK, Fresh
  <2>5. TypeOK'
    BY <2>1, <2>4 DEF IInv, TypeOK, Phases
  <2> QED BY <2>1, <2>3, <2>5, EarlyInv
<1>2. ASSUME RefusePieces PROVE IInv'
  BY <1>2, RejectInv DEF RefusePieces, Codes
<1> QED BY <1>1, <1>2

(***************************************************************************)
(* Stacks.                                                                 *)
(***************************************************************************)
LEMMA StackIs ==
    ASSUME stack \in Seq(FrameType), stack # <<>>
    PROVE  /\ Len(stack) \in Nat \ {0} /\ Top = stack[Len(stack)] /\ Top \in FrameType
           /\ \A m \in 1..Len(stack) : stack[m] \in FrameType
           /\ Pop \in Seq(FrameType) /\ Len(Pop) = Len(stack) - 1
           /\ \A m \in 1..Len(Pop) : Pop[m] = stack[m] /\ m \in 1..Len(stack) /\ m # Len(stack)
<1>1. Len(stack) \in Nat \ {0}
  OBVIOUS
<1>2. \A m \in 1..Len(stack) : stack[m] \in FrameType
  OBVIOUS
<1>3. Top = stack[Len(stack)]
  BY DEF Top, LastOf
<1>4. /\ Pop \in Seq(FrameType) /\ Len(Pop) = Len(stack) - 1
      /\ \A m \in 1..(Len(stack) - 1) : Pop[m] = stack[m]
  <2> DEFINE n == Len(stack) - 1
  <2>1. n \in Int /\ 1 \in Int /\ n \in Nat
    BY <1>1
  <2>2. \A i \in 1..n : stack[i] \in FrameType
    BY <1>1, <1>2
  <2> HIDE DEF n
  <2>3. /\ SubSeq(stack, 1, n) \in Seq(FrameType)
        /\ Len(SubSeq(stack, 1, n)) = IF 1 <= n THEN n - 1 + 1 ELSE 0
        /\ \A i \in 1..(n - 1 + 1) : SubSeq(stack, 1, n)[i] = stack[1 + i - 1]
    BY <2>1, <2>2, SubSeqProperties
  <2>4. Len(SubSeq(stack, 1, n)) = n
    BY <2>1, <2>3
  <2>5. \A i \in 1..n : SubSeq(stack, 1, n)[i] = stack[i]
    BY <2>1, <2>3
  <2> QED BY <2>3, <2>4, <2>5 DEF Pop, n
<1> QED BY <1>1, <1>2, <1>3, <1>4

LEMMA SameFrame ==
    ASSUME NEW q \in FrameType, NEW r \in FrameType, q.node = r.node, q.out = r.out,
           q.next = r.next, q.deps = r.deps, q.ext = r.ext
    PROVE  q = r
<1>1. /\ q = [node |-> q.node, out |-> q.out, next |-> q.next, deps |-> q.deps, ext |-> q.ext]
      /\ r = [node |-> r.node, out |-> r.out, next |-> r.next, deps |-> r.deps, ext |-> r.ext]
  BY DEF FrameType
<1> QED BY <1>1

\* The frame at the top moves on to its next input, with more deps or ext.
Next1(deps, ext) == [node |-> Top.node, out |-> Top.out, next |-> Top.next + 1,
                     deps |-> deps, ext |-> ext]
MovedTo(fs, f) ==
    /\ fs \in Seq(FrameType) /\ Len(fs) = Len(stack) /\ fs[Len(stack)] = f
    /\ \A m \in 1..Len(stack) : m # Len(stack) => fs[m] = stack[m]

LEMMA Moved ==
    ASSUME stack \in Seq(FrameType), stack # <<>>
    PROVE  /\ MovedTo(NextInput, Next1(Top.deps, Top.ext))
           /\ \A t \in Tid : MovedTo([NextInput EXCEPT ![Len(stack)].ext = @ \cup {t}],
                                     Next1(Top.deps, Top.ext \cup {t}))
           /\ \A d \in KeyType : MovedTo([NextInput EXCEPT ![Len(stack)].deps = @ \cup {d}],
                                         Next1(Top.deps \cup {d}, Top.ext))
<1> DEFINE n == Len(stack)
<1>1. n \in Nat \ {0} /\ Top = stack[n] /\ Top \in FrameType
  BY StackIs
<1>2. ASSUME NEW f \in FrameType PROVE MovedTo([stack EXCEPT ![n] = f], f)
  BY <1>1 DEF MovedTo
<1>3. NextInput = [stack EXCEPT ![n] = Next1(Top.deps, Top.ext)]
  <2>1. NextInput = [stack EXCEPT ![n] = [Top EXCEPT !.next = @ + 1]]
    BY <1>1 DEF NextInput
  <2>2. [Top EXCEPT !.next = @ + 1] = Next1(Top.deps, Top.ext)
    BY <1>1, SMTT(30) DEF FrameType, Next1
  <2> QED BY <2>1, <2>2
<1>4. Next1(Top.deps, Top.ext) \in FrameType
  BY <1>1 DEF FrameType, Next1
<1>5. NextInput[n] = Next1(Top.deps, Top.ext)
  BY <1>1, <1>3
<1>6. ASSUME NEW t \in Tid
      PROVE  MovedTo([NextInput EXCEPT ![n].ext = @ \cup {t}], Next1(Top.deps, Top.ext \cup {t}))
  <2> DEFINE g == Next1(Top.deps, Top.ext \cup {t})
  <2>1. g \in FrameType
    BY <1>1 DEF FrameType, Next1
  <2>2. [Next1(Top.deps, Top.ext) EXCEPT !.ext = @ \cup {t}] = g
    <3> DEFINE r == Next1(Top.deps, Top.ext)
    <3>1. /\ r \in FrameType /\ r.node = Top.node /\ r.out = Top.out /\ r.next = Top.next + 1
          /\ r.deps = Top.deps /\ r.ext = Top.ext
      BY <1>4 DEF Next1
    <3> HIDE DEF r
    <3> DEFINE q == [r EXCEPT !.ext = @ \cup {t}]
    <3>2. q \in FrameType
      BY <3>1 DEF FrameType
    <3>3. /\ q.node = r.node /\ q.out = r.out /\ q.next = r.next
          /\ q.deps = r.deps /\ q.ext = r.ext \cup {t}
      BY <3>1 DEF FrameType
    <3>4. /\ g.node = r.node /\ g.out = r.out /\ g.next = r.next
          /\ g.deps = r.deps /\ g.ext = r.ext \cup {t}
      BY <3>1 DEF Next1
    <3> HIDE DEF q, g
    <3>5. q = g
      BY <2>1, <3>2, <3>3, <3>4, SameFrame
    <3> QED BY <3>5 DEF q, r
  <2> HIDE DEF g
  <2>3. [NextInput EXCEPT ![n].ext = @ \cup {t}] = [NextInput EXCEPT ![n] = g]
    BY <1>5, <2>2
  <2>4. [NextInput EXCEPT ![n] = g] = [stack EXCEPT ![n] = g]
    BY <1>1, <1>3
  <2> QED BY <1>2, <2>1, <2>3, <2>4 DEF g
<1>7. ASSUME NEW d \in KeyType
      PROVE  MovedTo([NextInput EXCEPT ![n].deps = @ \cup {d}], Next1(Top.deps \cup {d}, Top.ext))
  <2> DEFINE g == Next1(Top.deps \cup {d}, Top.ext)
  <2>1. g \in FrameType
    BY <1>1 DEF FrameType, Next1
  <2>2. [Next1(Top.deps, Top.ext) EXCEPT !.deps = @ \cup {d}] = g
    <3> DEFINE r == Next1(Top.deps, Top.ext)
    <3>1. /\ r \in FrameType /\ r.node = Top.node /\ r.out = Top.out /\ r.next = Top.next + 1
          /\ r.deps = Top.deps /\ r.ext = Top.ext
      BY <1>4 DEF Next1
    <3> HIDE DEF r
    <3> DEFINE q == [r EXCEPT !.deps = @ \cup {d}]
    <3>2. q \in FrameType
      BY <3>1 DEF FrameType
    <3>3. /\ q.node = r.node /\ q.out = r.out /\ q.next = r.next
          /\ q.ext = r.ext /\ q.deps = r.deps \cup {d}
      BY <3>1 DEF FrameType
    <3>4. /\ g.node = r.node /\ g.out = r.out /\ g.next = r.next
          /\ g.ext = r.ext /\ g.deps = r.deps \cup {d}
      BY <3>1 DEF Next1
    <3> HIDE DEF q, g
    <3>5. q = g
      BY <2>1, <3>2, <3>3, <3>4, SameFrame
    <3> QED BY <3>5 DEF q, r
  <2> HIDE DEF g
  <2>3. [NextInput EXCEPT ![n].deps = @ \cup {d}] = [NextInput EXCEPT ![n] = g]
    BY <1>5, <2>2
  <2>4. [NextInput EXCEPT ![n] = g] = [stack EXCEPT ![n] = g]
    BY <1>1, <1>3
  <2> QED BY <1>2, <2>1, <2>3, <2>4 DEF g
<1> QED BY <1>2, <1>3, <1>4, <1>6, <1>7

\* A frame for writer w goes on top.
LEMMA Pushed ==
    ASSUME NEW fs \in Seq(FrameType), NEW w \in Nat \X Nat
    PROVE  /\ Push(fs, w) \in Seq(FrameType) /\ Len(Push(fs, w)) = Len(fs) + 1
           /\ \A m \in 1..Len(fs) : Push(fs, w)[m] = fs[m]
           /\ Push(fs, w)[Len(fs) + 1] = [node |-> w[1], out |-> w[2], next |-> 1, deps |-> {}, ext |-> {}]
           /\ \A m \in 1..Len(Push(fs, w)) : m \in 1..Len(fs) \/ m = Len(fs) + 1
<1>1. Frame(w) \in FrameType
  BY DEF Frame, FrameType
<1>2. Push(fs, w) = Append(fs, Frame(w))
  BY DEF Push
<1>3. /\ Push(fs, w) \in Seq(FrameType) /\ Len(Push(fs, w)) = Len(fs) + 1
      /\ \A m \in 1..Len(fs) : Push(fs, w)[m] = fs[m]
      /\ Push(fs, w)[Len(fs) + 1] = Frame(w)
  BY <1>1, <1>2
<1> QED BY <1>3 DEF Frame

\* The first frame of an empty stack.
LEMMA PushedFirst ==
    ASSUME NEW w \in Nat \X Nat
    PROVE  /\ Push(<<>>, w) \in Seq(FrameType) /\ Len(Push(<<>>, w)) = 1
           /\ Push(<<>>, w)[1] = [node |-> w[1], out |-> w[2], next |-> 1, deps |-> {}, ext |-> {}]
<1>1. ASSUME NEW fs \in Seq(FrameType), Len(fs) = 0
      PROVE  /\ Push(fs, w) \in Seq(FrameType) /\ Len(Push(fs, w)) = 1
             /\ Push(fs, w)[1] = [node |-> w[1], out |-> w[2], next |-> 1, deps |-> {}, ext |-> {}]
  <2>1. Len(fs) + 1 = 1
    BY <1>1
  <2>2. /\ Push(fs, w) \in Seq(FrameType) /\ Len(Push(fs, w)) = Len(fs) + 1
        /\ Push(fs, w)[Len(fs) + 1] = [node |-> w[1], out |-> w[2], next |-> 1, deps |-> {}, ext |-> {}]
    BY Pushed, Zenon
  <2> QED BY <2>1, <2>2, Zenon
<1>2. <<>> \in Seq(FrameType) /\ Len(<<>>) = 0
  OBVIOUS
<1> QED BY <1>1, <1>2

(***************************************************************************)
(* The search for cycles keeps the invariant.                              *)
(***************************************************************************)
LEMMA PairIsNotEmpty == \A a, b : <<a, b>> # <<>>
<1> SUFFICES ASSUME NEW a, NEW b PROVE <<a, b>> # <<>>
  OBVIOUS
<1>1. Len(<<a, b>>) = 2 /\ Len(<<>>) = 0
  OBVIOUS
<1> QED BY <1>1

LEMMA InputIs ==
    ASSUME TypeOK, NEW s \in Side, NEW i \in 1..Len(Nodes(s)), NEW k \in 1..Len(Nodes(s)[i].ins)
    PROVE  Nodes(s)[i].ins[k] \in Tid /\ Nodes(s)[i].ins[k] \in Elements(Nodes(s)[i].ins)
<1>1. Nodes(s)[i].ins \in Seq(Tid)
  BY NodesAre
<1> QED BY <1>1 DEF Elements

LEMMA FollowIs ==
    ASSUME TypeOK, NEW s \in Side, Indexed(s, Len(Nodes(s))),
           NEW i \in 1..Len(Nodes(s)), NEW k \in 1..Len(Nodes(s)[i].ins)
    PROVE  \/ Follow(s, i, k) = <<>> /\ ReadsFrom(s, i, Nodes(s)[i].ins[k]) = {}
           \/ /\ Follow(s, i, k) # <<>> /\ Follow(s, i, k) \in Nat \X Nat
              /\ Follow(s, i, k)[1] \in 1..Len(Nodes(s))
              /\ ReadsFrom(s, i, Nodes(s)[i].ins[k]) = {Follow(s, i, k)[1]}
<1> DEFINE t == Nodes(s)[i].ins[k]
           n == Len(Nodes(s))
           ws == writers[s][t]
           all == {j \in 1..n : Writes(s, j, t)}
           earlier == {j \in all : j < i}
           R == ReadsFrom(s, i, t)
<1>1. t \in Tid /\ n \in Nat \ {0} /\ i \in 1..(n + 1) /\ i \in 1..n
  BY InputIs, NodesAre
<1>2. R = IF earlier # {} THEN {j \in earlier : \A l \in earlier : l <= j}
          ELSE IF t \in goal.inits[s] THEN {} ELSE {j \in all : \A l \in all : j <= l}
  BY DEF ReadsFrom, Writes
<1>3. ASSUME NEW j \in all PROVE Slot(s, j, t) \in Nat
  <2>1. Nodes(s)[j].outs \in Seq(Tid) /\ Writes(s, j, t)
    BY NodesAre
  <2> QED BY <2>1, SlotHolds
<1>4. Producer(s, i, k) = ProducerBefore(s, t, i)
  BY DEF Producer
<1>5. /\ ws \in Seq(Nat \X Nat)
      /\ \A m \in 1..Len(ws) : \E j \in 1..n : Writes(s, j, t) /\ ws[m] = <<j, Slot(s, j, t)>>
      /\ \A j \in 1..n : Writes(s, j, t) => \E m \in 1..Len(ws) : ws[m] = <<j, Slot(s, j, t)>>
      /\ \A m, l \in 1..Len(ws) : m < l => ws[m][1] < ws[l][1]
  <2>1. Listed(s, n, t)
    BY <1>1 DEF Indexed
  <2> QED BY <1>1, <2>1 DEF Listed, TypeOK
<1>6. Follow(s, i, k) = IF Producer(s, i, k) # <<>> THEN Producer(s, i, k)
                        ELSE IF t \in goal.inits[s] \/ ws = <<>> THEN <<>> ELSE ws[1]
  BY DEF Follow
<1>7. \/ ProducerBefore(s, t, i) = <<>> /\ Unwritten(s, t, i)
      \/ \E j \in 1..(i - 1) : /\ Latest(s, t, i, j)
                               /\ ProducerBefore(s, t, i) = <<j, Slot(s, j, t)>>
  BY <1>1, ProducerIs
<1> HIDE DEF t, ws, R
<1>8. CASE \E j \in 1..(i - 1) : Latest(s, t, i, j) /\ ProducerBefore(s, t, i) = <<j, Slot(s, j, t)>>
  <2> PICK j \in 1..(i - 1) : Latest(s, t, i, j) /\ ProducerBefore(s, t, i) = <<j, Slot(s, j, t)>>
    BY <1>8
  <2>1. j \in earlier /\ \A l \in earlier : l <= j
    BY <1>1 DEF Latest
  <2>2. R = {j}
    <3>1. \A l \in earlier : (\A h \in earlier : h <= l) <=> l = j
      BY <2>1, <1>1
    <3> QED BY <1>2, <2>1, <3>1
  <2>3. Follow(s, i, k) = <<j, Slot(s, j, t)>>
    BY <1>4, <1>6, PairIsNotEmpty
  <2> QED BY <1>3, <2>1, <2>2, <2>3, PairIsNotEmpty DEF R, t
<1>9. CASE ProducerBefore(s, t, i) = <<>> /\ Unwritten(s, t, i)
  <2>1. earlier = {}
    BY <1>1, <1>9 DEF Unwritten
  <2>2. CASE t \in goal.inits[s] \/ ws = <<>>
    <3>1. all = {} \/ t \in goal.inits[s]
      BY <1>5, <2>2
    <3>2. R = {}
      BY <1>2, <2>1, <3>1
    <3> QED BY <1>4, <1>6, <1>9, <2>2, <3>2 DEF R, t
  <2>3. CASE ~(t \in goal.inits[s] \/ ws = <<>>)
    <3>1. 1 \in 1..Len(ws)
      BY <1>5, <2>3
    <3>2. PICK j \in 1..n : Writes(s, j, t) /\ ws[1] = <<j, Slot(s, j, t)>>
      BY <1>5, <3>1
    <3>3. ASSUME NEW l \in all PROVE j <= l
      <4>1. PICK m \in 1..Len(ws) : ws[m] = <<l, Slot(s, l, t)>>
        BY <1>5
      <4>2. m = 1 \/ 1 < m
        BY <1>5
      <4>3. CASE m = 1
        BY <3>2, <4>1, <4>3
      <4>4. CASE 1 < m
        <5>1. ws[1][1] < ws[m][1]
          BY <1>5, <3>1, <4>4
        <5> QED BY <3>2, <4>1, <5>1
      <4> QED BY <4>2, <4>3, <4>4
    <3>4. R = {j}
      <4>1. \A l \in all : (\A h \in all : l <= h) <=> l = j
        BY <1>1, <3>2, <3>3
      <4> QED BY <1>2, <2>1, <2>3, <3>2, <4>1
    <3>5. Follow(s, i, k) = <<j, Slot(s, j, t)>>
      BY <1>4, <1>6, <1>9, <2>3, <3>2
    <3> QED BY <1>3, <3>2, <3>4, <3>5, PairIsNotEmpty DEF R, t
  <2> QED BY <2>2, <2>3
<1> QED BY <1>7, <1>8, <1>9

LEMMA RigidReads ==
    ASSUME goal' = goal
    PROVE  /\ \A s, i, t : ReadsFrom(s, i, t)' = ReadsFrom(s, i, t)
           /\ \A s, i : Reads(s, i)' = Reads(s, i)
           /\ \A s, C : Ranked(s, C)' <=> Ranked(s, C)
           /\ \A s : Acyclic(s)' <=> Acyclic(s)
           /\ \A s : Looped(s)' <=> Looped(s)
<1>1. \A s : Nodes(s)' = Nodes(s)
  BY Rigid
<1>2. \A s, i, t : ReadsFrom(s, i, t)' = ReadsFrom(s, i, t)
  <2> SUFFICES ASSUME NEW s, NEW i, NEW t PROVE ReadsFrom(s, i, t)' = ReadsFrom(s, i, t)
    OBVIOUS
  <2> DEFINE all == {j \in 1..Len(Nodes(s)) : t \in Elements(Nodes(s)[j].outs)}
             earlier == {j \in all : j < i}
             none == {j \in all : \A k \in all : j <= k}
             some == {j \in earlier : \A k \in earlier : k <= j}
  <2>1. all' = all
    BY <1>1
  <2>2. ReadsFrom(s, i, t) = IF earlier # {} THEN some ELSE IF t \in goal.inits[s] THEN {} ELSE none
    BY DEF ReadsFrom
  <2>3. ReadsFrom(s, i, t)' = IF earlier' # {} THEN some'
                              ELSE IF t \in goal'.inits[s] THEN {} ELSE none'
    BY DEF ReadsFrom
  <2> HIDE DEF all
  <2>4. earlier' = earlier /\ some' = some /\ none' = none
    BY <2>1
  <2> QED BY <2>2, <2>3, <2>4
<1>3. \A s, i : Reads(s, i)' = Reads(s, i)
  BY <1>1, <1>2 DEF Reads
<1>4. \A s, C : Ranked(s, C)' <=> Ranked(s, C)
  BY <1>3 DEF Ranked
<1>5. \A s : Acyclic(s)' <=> Acyclic(s)
  BY <1>1, <1>3, Zenon DEF Acyclic, Ranked
<1>6. \A s : Looped(s)' <=> Looped(s)
  BY <1>1, <1>3 DEF Looped
<1> QED BY <1>2, <1>3, <1>4, <1>5, <1>6

\* The loops before the search do not touch what it is about.
LEMMA UnsearchedKept ==
    ASSUME CInv, phase \in {"relation", "rules", "writers", "pieces"}, goal' = goal,
           \/ phase' \in {"relation", "rules", "writers", "pieces"} /\ diag' = diag
           \/ phase' = "done" /\ diag' \in {"lineage", "rule", "duplicate"}
    PROVE  Searched' /\ diag' # "missing"
<1>1. diag = "none"
  BY DEF CInv, IInv, TypeOK
<1> QED BY <1>1 DEF Searched

LEMMA EarlyCovers ==
    ASSUME CInv, \/ CheckRelation \/ RefuseRelation \/ CheckRule \/ RefuseRule
                 \/ IndexWriter \/ RefuseWriter \/ RefusePieces
    PROVE  CInv'
<1>1. IInv'
  BY RelationInv, RulesInv, WritersInv, PiecesInv DEF CInv
<1>2. /\ phase \in {"relation", "rules", "writers", "pieces"} /\ goal' = goal
      /\ \/ phase' \in {"relation", "rules", "writers", "pieces"} /\ diag' = diag
         \/ phase' = "done" /\ diag' \in {"lineage", "rule", "duplicate"}
  BY DEF CheckRelation, RefuseRelation, CheckRule, RefuseRule, IndexWriter, RefuseWriter,
         RefusePieces, Reject, Advance
<1> QED BY <1>1, <1>2, UnsearchedKept DEF CInv

LEMMA RankedEmpty == \A s : Ranked(s, {})
<1> SUFFICES ASSUME NEW s PROVE Ranked(s, {})
  OBVIOUS
<1> DEFINE f == [i \in {} |-> 0]
<1>1. f \in [{} -> 0..0]
  OBVIOUS
<1> QED BY <1>1 DEF Ranked

LEMMA PiecesCovers ==
    ASSUME CInv, CheckPieces
    PROVE  CInv'
<1>1. IInv'
  BY PiecesInv DEF CInv
<1>2. /\ phase = "pieces" /\ phase' = "cycles"
      /\ UNCHANGED <<goal, side, at, writers, stack, closed, steps, targets, diag>>
  BY DEF CheckPieces
<1>3. side = "sm" /\ at = 1 /\ stack = <<>> /\ closed = {} /\ diag = "none"
  BY <1>2 DEF CInv, IInv, Fresh, TypeOK
<1>4. Len(stack) = 0 /\ 1..(at - 1) = {}
  BY <1>3
<1>5. Ranked(side, closed)'
  BY <1>2, <1>3, RankedEmpty, RigidReads DEF Ranked
<1>6. Searched'
  BY <1>2, <1>3, <1>4, <1>5 DEF Searched
<1> QED BY <1>1, <1>2, <1>3, <1>6 DEF CInv

LEMMA CycleRootCovers ==
    ASSUME CInv, CycleRoot
    PROVE  CInv'
<1> DEFINE n == Len(Nodes(side))
<1>1. /\ phase = "cycles" /\ stack = <<>> /\ UNCHANGED <<goal, writers, steps, targets, diag>>
      /\ IInv /\ TypeOK /\ diag = "none" /\ side \in Side /\ at \in 1..n /\ n \in Nat \ {0}
      /\ \A s : Nodes(s)' = Nodes(s)
  BY NodesAre, Rigid DEF CInv, IInv, TypeOK, CycleRoot
<1>2. /\ closed \subseteq 1..n /\ 1..(at - 1) \subseteq closed /\ Ranked(side, closed)
      /\ side = "pm" => Acyclic("sm")
  BY <1>1 DEF CInv, Searched
<1>3. Indexed("sm", Len(Nodes("sm"))) /\ Indexed("pm", Len(Nodes("pm")))
  BY <1>1 DEF IInv, Written, Behind, Side
<1>4. ASSUME phase' \in {"cycles", "visit"} PROVE Written'
  BY <1>1, <1>3, <1>4, IndexedKept DEF Written, Behind, Side
<1>5. CASE at \notin closed
  <2>1. /\ stack' = Push(<<>>, <<at, 1>>) /\ UNCHANGED <<side, phase, at, closed>>
    BY <1>5 DEF CycleRoot
  <2>2. <<>> \in Seq(FrameType) /\ Len(<<>>) = 0 /\ <<at, 1>> \in Nat \X Nat
    BY <1>1
  <2>3. /\ stack' \in Seq(FrameType) /\ Len(stack') = 1
        /\ stack'[1] = [node |-> at, out |-> 1, next |-> 1, deps |-> {}, ext |-> {}]
    <3> DEFINE w == <<at, 1>>
    <3>1. w \in Nat \X Nat /\ w[1] = at /\ w[2] = 1
      BY <2>2
    <3> HIDE DEF w
    <3>2. /\ Push(<<>>, w) \in Seq(FrameType) /\ Len(Push(<<>>, w)) = 1
          /\ Push(<<>>, w)[1] = [node |-> w[1], out |-> w[2], next |-> 1, deps |-> {}, ext |-> {}]
      BY <3>1, PushedFirst
    <3> QED BY <2>1, <3>1, <3>2 DEF w
  <2>4. TypeOK'
    BY <1>1, <2>1, <2>3 DEF TypeOK
  <2>5. IInv'
    BY <1>1, <1>4, <2>1, <2>4, EarlyInv
  <2>6. Len(Nodes(side)[at].ins) \in Nat
    BY <1>1, NodesAre
  <2>7. Ranked(side, closed)' /\ (side' = "pm" => Acyclic("sm")')
    <3>1. /\ Ranked(side, closed) /\ side' = side /\ closed' = closed
          /\ \A s, i : Reads(s, i)' = Reads(s, i)
      BY <1>1, <1>2, <2>1, RigidReads
    <3>2. Ranked(side, closed)'
      BY <3>1, Zenon DEF Ranked
    <3> QED BY <1>1, <1>2, <2>1, <3>2, RigidReads
  <2>8. Searched'
    BY <1>1, <1>2, <1>5, <2>1, <2>3, <2>6, <2>7 DEF Searched, Trail
  <2> QED BY <1>1, <2>5, <2>8 DEF CInv
<1>6. CASE at \in closed
  <2>1. /\ Advance("visit") /\ UNCHANGED stack
        /\ closed' = IF at < n THEN closed ELSE {}
    BY <1>6 DEF CycleRoot
  <2>2. /\ at' \in Nat \ {0} /\ side' \in Side
        /\ \/ at < n /\ at' = at + 1 /\ side' = side /\ phase' = "cycles"
           \/ at = n /\ at' = 1 /\ side = "sm" /\ side' = "pm" /\ phase' = "cycles"
           \/ at = n /\ at' = 1 /\ side = "pm" /\ side' = "sm" /\ phase' = "visit"
    BY <1>1, <2>1, Advances
  <2>3. \A s \in Side : Len(Nodes(s)) \in Nat \ {0}
    BY <1>1, NodesAre
  <2>4. Len(Nodes(side)') \in Nat \ {0}
    BY <1>1, <2>2, <2>3 DEF Nodes
  <2>5. at' <= Len(Nodes(side)')
    <3>1. CASE at' = 1
      BY <2>4, <3>1
    <3>2. CASE at < n /\ at' = at + 1 /\ side' = side
      <4>1. Nodes(side)' = Nodes(side)
        BY <1>1, <3>2 DEF Nodes
      <4> QED BY <1>1, <3>2, <4>1
    <3> QED BY <2>2, <3>1, <3>2
  <2>6. TypeOK'
    BY <1>1, <2>1, <2>2, <2>5 DEF TypeOK, Phases
  <2>7. IInv'
    BY <1>1, <1>4, <2>1, <2>2, <2>6, EarlyInv
  <2>8. at = n => Acyclic(side)
    <3> SUFFICES ASSUME at = n PROVE closed = 1..n
      BY <1>2 DEF Acyclic
    <3>1. \A i \in 1..n : i = at \/ i \in 1..(at - 1)
      BY <1>1
    <3> QED BY <1>2, <1>6, <3>1
  <2>9. Len(stack') = 0
    BY <1>1, <2>1
  <2>10. Searched'
    <3>1. CASE at < n /\ at' = at + 1 /\ side' = side /\ phase' = "cycles"
      <4>1. closed' = closed /\ Nodes(side)' = Nodes(side)
        BY <1>1, <2>1, <3>1 DEF Nodes
      <4>2. \A i \in 1..(at' - 1) : i = at \/ i \in 1..(at - 1)
        BY <1>1, <3>1
      <4>3. Ranked(side, closed)' /\ (side' = "pm" => Acyclic("sm")')
        <5>1. /\ Ranked(side, closed) /\ side' = side /\ closed' = closed
              /\ \A s, i : Reads(s, i)' = Reads(s, i)
          BY <1>1, <1>2, <3>1, <4>1, RigidReads
        <5>2. Ranked(side, closed)'
          BY <5>1, Zenon DEF Ranked
        <5> QED BY <1>1, <1>2, <3>1, <5>2, RigidReads
      <4> QED BY <1>1, <1>2, <1>6, <2>9, <3>1, <4>1, <4>2, <4>3 DEF Searched
    <3>2. CASE at = n /\ at' = 1 /\ side = "sm" /\ side' = "pm" /\ phase' = "cycles"
      <4>1. closed' = {} /\ 1..(at' - 1) = {}
        BY <1>1, <2>1, <3>2
      <4>2. Ranked(side, closed)' /\ Acyclic("sm")'
        BY <1>1, <2>8, <3>2, <4>1, RankedEmpty, RigidReads DEF Ranked
      <4> QED BY <1>1, <2>9, <3>2, <4>1, <4>2 DEF Searched
    <3>3. CASE at = n /\ at' = 1 /\ side = "pm" /\ side' = "sm" /\ phase' = "visit"
      BY <1>1, <1>2, <2>8, <3>3, RigidReads DEF Searched
    <3> QED BY <2>2, <3>1, <3>2, <3>3
  <2> QED BY <1>1, <2>7, <2>10 DEF CInv
<1> QED BY <1>5, <1>6

LEMMA TrailNext ==
    ASSUME goal' = goal, NEW s, s = side', NEW C, C = closed', NEW fs, fs = stack', NEW m,
           Trail(s, C, fs, m)
    PROVE  Trail(side, closed, stack, m)'
<1>1. /\ Nodes(s)' = Nodes(s)
      /\ \A i, t : ReadsFrom(s, i, t)' = ReadsFrom(s, i, t)
      /\ \A i : Reads(s, i)' = Reads(s, i)
  BY Rigid, RigidReads
<1>2. Nodes(side)' = Nodes(s)
  BY DEF Nodes
<1>3. \A i, t : ReadsFrom(side, i, t)' = ReadsFrom(s, i, t)
  BY <1>1
<1>4. \A i : Reads(side, i)' = Reads(s, i)
  BY <1>1
<1>5. fs = stack' /\ C = closed'
  OBVIOUS
<1> QED BY <1>2, <1>3, <1>4, <1>5 DEF Trail

\* A step of the search that keeps to its side.
LEMMA SearchStep ==
    ASSUME CInv, phase = "cycles", UNCHANGED <<goal, phase, side, at, writers, steps, targets, diag>>,
           NEW fs \in Seq(FrameType), stack' = fs,
           NEW C, closed' = C, closed \subseteq C, C \subseteq 1..Len(Nodes(side)), Ranked(side, C),
           \A m \in 1..Len(fs) : Trail(side, C, fs, m)
    PROVE  CInv'
<1>1. /\ IInv /\ TypeOK /\ Written /\ diag = "none" /\ side \in Side /\ phase' = phase
      /\ \A s : Nodes(s)' = Nodes(s)
  BY Rigid DEF CInv, IInv, TypeOK
<1>2. Written'
  BY <1>1, IndexedKept, Rigid DEF Written, Behind
<1>3. Len(Nodes(side)) \in Nat
  BY <1>1, NodesAre
<1>4. TypeOK'
  BY <1>1, <1>3 DEF TypeOK
<1>5. IInv'
  BY <1>1, <1>2, <1>4, EarlyInv
<1>6. \A m \in 1..Len(stack') : Trail(side, closed, stack, m)'
  BY TrailNext
<1>7. Ranked(side, closed)'
  <2>1. Ranked(side, C) /\ side' = side /\ closed' = C /\ \A s, i : Reads(s, i)' = Reads(s, i)
    BY RigidReads
  <2> QED BY <2>1, Zenon DEF Ranked
<1>8. Searched'
  BY <1>1, <1>6, <1>7, RigidReads DEF CInv, Searched
<1> QED BY <1>1, <1>5, <1>8 DEF CInv

LEMMA CycleInputCovers ==
    ASSUME CInv, CycleInput
    PROVE  CInv'
<1> DEFINE n == Len(stack)
           f == Top
           w == Follow(side, f.node, f.next)
           ins == Nodes(side)[f.node].ins
           moved == [node |-> f.node, out |-> f.out, next |-> f.next + 1, deps |-> f.deps, ext |-> f.ext]
<1>1. /\ phase = "cycles" /\ stack # <<>> /\ f.next <= Len(ins)
      /\ UNCHANGED <<goal, phase, side, at, writers, closed, steps, targets, diag>>
      /\ \/ (w = <<>> \/ (w # <<>> /\ w[1] \in closed)) /\ stack' = NextInput
         \/ /\ w # <<>> /\ w[1] \notin closed /\ ~OnStack(w[1])
            /\ stack' = Push(NextInput, w)
  BY DEF CycleInput
<1>2. /\ stack \in Seq(FrameType) /\ side \in Side /\ TypeOK
      /\ \A m \in 1..n : Trail(side, closed, stack, m)
      /\ closed \subseteq 1..Len(Nodes(side)) /\ Ranked(side, closed)
      /\ Indexed(side, Len(Nodes(side)))
  BY <1>1 DEF CInv, IInv, TypeOK, Searched, Written, Behind
<1>3. n \in Nat \ {0} /\ f = stack[n] /\ f \in FrameType /\ \A m \in 1..n : stack[m] \in FrameType
  BY <1>1, <1>2, StackIs
<1>4. /\ NextInput \in Seq(FrameType) /\ Len(NextInput) = n /\ NextInput[n] = moved
      /\ \A m \in 1..n : m # n => NextInput[m] = stack[m]
  BY <1>1, <1>2, Moved DEF MovedTo, Next1
<1>5. f.node \in 1..Len(Nodes(side)) /\ f.next \in 1..Len(ins)
  BY <1>1, <1>2, <1>3 DEF Trail, FrameType
<1>6. \/ w = <<>> /\ ReadsFrom(side, f.node, ins[f.next]) = {}
      \/ /\ w # <<>> /\ w \in Nat \X Nat
         /\ w[1] \in 1..Len(Nodes(side)) /\ ReadsFrom(side, f.node, ins[f.next]) = {w[1]}
  BY <1>2, <1>5, FollowIs
<1>7. ASSUME NEW m \in 1..n
      PROVE  /\ stack[m].node \in (1..Len(Nodes(side))) \ closed
             /\ stack[m].next \in 1..(Len(Nodes(side)[stack[m].node].ins) + 1)
             /\ \A k \in 1..(stack[m].next - 1) :
                  \A j \in ReadsFrom(side, stack[m].node, Nodes(side)[stack[m].node].ins[k]) :
                    j \in closed \/ (m < n /\ j = stack[m + 1].node)
             /\ m < n => stack[m + 1].node \in Reads(side, stack[m].node)
             /\ \A l \in 1..n : l # m => stack[l].node # stack[m].node
  BY <1>2, Zenon DEF Trail
<1>8. Len(ins) \in Nat /\ f.next \in Nat /\ ins[f.next] \in Elements(ins)
  BY <1>2, <1>5, NodesAre, InputIs
<1>9. ASSUME NEW fs \in Seq(FrameType), n <= Len(fs), fs[n] = moved,
             \A m \in 1..n : m # n => fs[m] = stack[m],
             \A j \in ReadsFrom(side, f.node, ins[f.next]) :
               j \in closed \/ (n < Len(fs) /\ j = fs[n + 1].node),
             n < Len(fs) => fs[n + 1].node \in Reads(side, f.node),
             \A l \in 1..Len(fs) : l > n => \A m \in 1..n : fs[l].node # stack[m].node,
             NEW m \in 1..n
      PROVE  Trail(side, closed, fs, m)
  <2>1. fs[m].node = stack[m].node /\ \A l \in 1..n : fs[l].node = stack[l].node
    BY <1>3, <1>9
  <2>2. \A l \in 1..Len(fs) : l # m => fs[l].node # fs[m].node
    <3> SUFFICES ASSUME NEW l \in 1..Len(fs), l # m PROVE fs[l].node # fs[m].node
      OBVIOUS
    <3>1. CASE l \in 1..n
      BY <1>7, <2>1, <3>1
    <3>2. CASE l > n
      BY <1>9, <2>1, <3>2
    <3> QED BY <1>3, <3>1, <3>2
  <2>3. CASE m = n
    <3>1. fs[m].next = f.next + 1 /\ fs[m].node = f.node
      BY <1>9, <2>3
    <3>2. ASSUME NEW k \in 1..f.next, NEW j \in ReadsFrom(side, f.node, ins[k])
          PROVE  j \in closed \/ (m < Len(fs) /\ j = fs[m + 1].node)
      <4>1. CASE k = f.next
        BY <1>9, <2>3, <3>2, <4>1
      <4>2. CASE k # f.next
        <5>1. k \in 1..(f.next - 1) /\ ~(n < n)
          BY <1>3, <1>8, <4>2
        <5> QED BY <1>3, <1>7, <2>3, <3>2, <5>1
      <4> QED BY <4>1, <4>2
    <3>3. f.next + 1 \in 1..(Len(ins) + 1) /\ f.next + 1 - 1 = f.next
      BY <1>5, <1>8
    <3> QED BY <1>3, <1>7, <1>9, <2>2, <2>3, <3>1, <3>2, <3>3, SMTT(30) DEF Trail
  <2>4. CASE m # n
    <3>1. fs[m] = stack[m] /\ m < n /\ m < Len(fs) /\ m + 1 \in 1..n
      BY <1>3, <1>9, <2>4
    <3>2. fs[m + 1].node = stack[m + 1].node
      BY <2>1, <3>1
    <3> QED BY <1>7, <2>2, <3>1, <3>2 DEF Trail
  <2> QED BY <2>3, <2>4
<1> HIDE DEF moved, w, f, ins, n
<1>10. CASE (w = <<>> \/ (w # <<>> /\ w[1] \in closed)) /\ stack' = NextInput
  <2>1. \A m \in 1..n : Trail(side, closed, NextInput, m)
    <3>1. \A j \in ReadsFrom(side, f.node, ins[f.next]) : j \in closed
      BY <1>6, <1>10
    <3>2. n <= n /\ ~(n < n) /\ \A l \in 1..n : ~(l > n)
      BY <1>3
    <3> QED BY <1>4, <1>9, <3>1, <3>2
  <2> QED BY <1>1, <1>2, <1>4, <1>10, <2>1, SearchStep
<1>11. CASE w # <<>> /\ w[1] \notin closed /\ ~OnStack(w[1]) /\ stack' = Push(NextInput, w)
  <2> DEFINE fs == Push(NextInput, w)
  <2>1. /\ fs \in Seq(FrameType) /\ Len(fs) = n + 1 /\ \A m \in 1..n : fs[m] = NextInput[m]
        /\ fs[n + 1] = [node |-> w[1], out |-> w[2], next |-> 1, deps |-> {}, ext |-> {}]
    BY <1>4, <1>6, <1>11, Pushed
  <2>2. fs[n + 1].node = w[1] /\ fs[n + 1].next = 1
    BY <2>1
  <2> HIDE DEF fs
  <2>3. \A m \in 1..n : stack[m].node # w[1]
    BY <1>11 DEF OnStack, Elements, n
  <2>4. ASSUME NEW m \in 1..n PROVE Trail(side, closed, fs, m)
    <3>1. w[1] \in Reads(side, f.node)
      BY <1>6, <1>8, <1>11 DEF Reads, ins
    <3>2. n <= Len(fs) /\ n < Len(fs) /\ \A l \in 1..Len(fs) : l > n => l = n + 1
      BY <1>3, <2>1
    <3>3. fs[n] = moved /\ \A l \in 1..n : l # n => fs[l] = stack[l]
      BY <1>3, <1>4, <2>1
    <3>4. \A l \in 1..Len(fs) : l > n => \A h \in 1..n : fs[l].node # stack[h].node
      BY <2>2, <2>3, <3>2
    <3>5. \A j \in ReadsFrom(side, f.node, ins[f.next]) : n < Len(fs) /\ j = fs[n + 1].node
      BY <1>6, <1>11, <2>2, <3>2
    <3> QED BY <1>9, <2>1, <2>2, <3>1, <3>2, <3>3, <3>4, <3>5
  <2>5. Trail(side, closed, fs, n + 1)
    <3>1. w[1] \in (1..Len(Nodes(side))) \ closed
      BY <1>6, <1>11
    <3>2. Len(Nodes(side)[w[1]].ins) \in Nat
      BY <1>2, <3>1, NodesAre
    <3>3. ASSUME NEW l \in 1..Len(fs), l # n + 1 PROVE fs[l].node # w[1]
      <4>1. l \in 1..n
        BY <1>3, <2>1, <3>3
      <4>2. fs[l].node = stack[l].node
        <5>1. CASE l = n
          BY <1>3, <1>4, <2>1, <4>1, <5>1 DEF moved
        <5>2. CASE l # n
          BY <1>4, <2>1, <4>1, <5>2
        <5> QED BY <5>1, <5>2
      <4> QED BY <2>3, <4>1, <4>2
    <3>4. ~(n + 1 < Len(fs)) /\ 1..(1 - 1) = {}
      BY <1>3, <2>1
    <3> QED BY <2>2, <3>1, <3>2, <3>3, <3>4 DEF Trail
  <2>6. \A m \in 1..Len(fs) : m \in 1..n \/ m = n + 1
    BY <1>3, <2>1
  <2>7. \A m \in 1..Len(fs) : Trail(side, closed, fs, m)
    BY <2>4, <2>5, <2>6
  <2>8. stack' = fs
    BY <1>11 DEF fs
  <2> QED BY <1>1, <1>2, <2>1, <2>7, <2>8, SearchStep
<1> QED BY <1>1, <1>10, <1>11 DEF w, f, ins, n

LEMMA CycleLeaveCovers ==
    ASSUME CInv, CycleLeave
    PROVE  CInv'
<1> DEFINE n == Len(stack)
           x == Top.node
           ins == Nodes(side)[x].ins
           C == closed \cup {x}
<1>1. /\ phase = "cycles" /\ stack # <<>> /\ Top.next > Len(ins)
      /\ stack' = Pop /\ closed' = C
      /\ UNCHANGED <<goal, phase, side, at, writers, steps, targets, diag>>
  BY DEF CycleLeave
<1>2. /\ stack \in Seq(FrameType) /\ side \in Side /\ TypeOK
      /\ \A m \in 1..n : Trail(side, closed, stack, m)
      /\ closed \subseteq 1..Len(Nodes(side)) /\ Ranked(side, closed)
  BY <1>1 DEF CInv, IInv, TypeOK, Searched
<1>3. /\ n \in Nat \ {0} /\ Top = stack[n] /\ Top \in FrameType
      /\ Pop \in Seq(FrameType) /\ Len(Pop) = n - 1
      /\ \A m \in 1..Len(Pop) : Pop[m] = stack[m] /\ m \in 1..n /\ m # n
  BY <1>1, <1>2, StackIs
<1>4. ASSUME NEW m \in 1..n
      PROVE  /\ stack[m].node \in (1..Len(Nodes(side))) \ closed
             /\ stack[m].next \in 1..(Len(Nodes(side)[stack[m].node].ins) + 1)
             /\ \A k \in 1..(stack[m].next - 1) :
                  \A j \in ReadsFrom(side, stack[m].node, Nodes(side)[stack[m].node].ins[k]) :
                    j \in closed \/ (m < n /\ j = stack[m + 1].node)
             /\ m < n => stack[m + 1].node \in Reads(side, stack[m].node)
             /\ \A l \in 1..n : l # m => stack[l].node # stack[m].node
  BY <1>2, Zenon DEF Trail
<1>5. /\ x \in (1..Len(Nodes(side))) \ closed /\ x = stack[n].node
      /\ \A k \in 1..Len(ins) : \A j \in ReadsFrom(side, x, ins[k]) : j \in closed
  <2>1. n \in 1..n /\ ~(n < n)
    BY <1>3
  <2>2. x \in (1..Len(Nodes(side))) \ closed /\ x = stack[n].node
    BY <1>3, <1>4, <2>1
  <2>3. Top.next - 1 = Len(ins)
    <3>1. Top.next \in 1..(Len(ins) + 1) /\ Len(ins) \in Nat
      BY <1>2, <1>3, <1>4, <2>1, <2>2, NodesAre
    <3> QED BY <1>1, <3>1
  <2> QED BY <1>3, <1>4, <2>1, <2>2, <2>3
<1>6. \A j \in Reads(side, x) : j \in closed
  BY <1>5 DEF Reads, Elements
<1> HIDE DEF n, x, ins, C
<1>7. Ranked(side, C)
  <2>1. PICK b \in Nat : \E f \in [closed -> 0..b] :
                           \A i \in closed : \A j \in Reads(side, i) : j \in closed /\ f[j] < f[i]
    BY <1>2 DEF Ranked
  <2>2. PICK f \in [closed -> 0..b] :
               \A i \in closed : \A j \in Reads(side, i) : j \in closed /\ f[j] < f[i]
    BY <2>1
  <2> DEFINE g == [i \in C |-> IF i = x THEN b + 1 ELSE f[i]]
  <2>3. g \in [C -> 0..(b + 1)]
    BY <2>2 DEF C
  <2>4. ASSUME NEW i \in C, NEW j \in Reads(side, i) PROVE j \in C /\ g[j] < g[i]
    <3>1. CASE i = x
      <4>1. j \in closed /\ j # x
        BY <1>5, <1>6, <2>4, <3>1
      <4> QED BY <2>2, <3>1, <4>1 DEF C
    <3>2. CASE i # x
      <4>1. i \in closed /\ j \in closed /\ j # x /\ f[j] < f[i]
        BY <1>5, <2>2, <2>4, <3>2 DEF C
      <4> QED BY <3>2, <4>1 DEF C
    <3> QED BY <3>1, <3>2
  <2>5. b + 1 \in Nat
    OBVIOUS
  <2> HIDE DEF g
  <2> QED BY <2>3, <2>4, <2>5 DEF Ranked
<1>8. ASSUME NEW m \in 1..Len(Pop) PROVE Trail(side, C, Pop, m)
  <2>1. Pop[m] = stack[m] /\ m \in 1..n /\ m # n /\ n \in 1..n
    BY <1>3
  <2>2. Pop[m].node \in (1..Len(Nodes(side))) \ C
    BY <1>4, <1>5, <2>1 DEF C
  <2>3. m < Len(Pop) => Pop[m + 1].node = stack[m + 1].node /\ m < n
    BY <1>3
  <2>4. ASSUME NEW k \in 1..(stack[m].next - 1),
               NEW j \in ReadsFrom(side, stack[m].node, Nodes(side)[stack[m].node].ins[k])
        PROVE  j \in C \/ (m < Len(Pop) /\ j = Pop[m + 1].node)
    <3>1. j \in closed \/ (m < n /\ j = stack[m + 1].node)
      BY <1>4, <2>1, <2>4
    <3>2. m < n /\ ~(m < Len(Pop)) => m + 1 = n
      BY <1>3
    <3> QED BY <1>5, <2>3, <3>1, <3>2 DEF C
  <2>5. \A l \in 1..Len(Pop) : l # m => Pop[l].node # Pop[m].node
    BY <1>3, <1>4, <2>1
  <2> QED BY <1>4, <2>1, <2>2, <2>3, <2>4, <2>5 DEF Trail
<1>9. C \subseteq 1..Len(Nodes(side)) /\ closed \subseteq C
  BY <1>2, <1>5 DEF C
<1> QED BY <1>1, <1>3, <1>7, <1>8, <1>9, SearchStep

\* The stack from the node that was met again: a way back to that node.
LEMMA CycleFoundCovers ==
    ASSUME CInv, CycleFound
    PROVE  CInv'
<1> DEFINE n == Len(stack)
           N == Len(Nodes(side))
           ins == Nodes(side)[Top.node].ins
           w == Follow(side, Top.node, Top.next)
<1>1. /\ phase = "cycles" /\ stack # <<>> /\ Top.next <= Len(ins)
      /\ w # <<>> /\ OnStack(w[1]) /\ Reject("cycle")
  BY DEF CycleFound
<1>2. /\ stack \in Seq(FrameType) /\ side \in Side /\ TypeOK
      /\ \A m \in 1..n : Trail(side, closed, stack, m)
      /\ Indexed(side, N) /\ N \in Nat
  BY <1>1, NodesAre DEF CInv, IInv, TypeOK, Searched, Written, Behind
<1>3. n \in Nat \ {0} /\ Top = stack[n] /\ Top \in FrameType
  BY <1>1, <1>2, StackIs
<1>4. /\ \A m \in 1..n : stack[m].node \in 1..N
      /\ \A m \in 1..n : m < n => stack[m + 1].node \in Reads(side, stack[m].node)
      /\ \A m, l \in 1..n : l # m => stack[l].node # stack[m].node
      /\ Top.next \in 1..(Len(ins) + 1)
  <2>1. ASSUME NEW m \in 1..n
        PROVE  /\ stack[m].node \in 1..N
               /\ stack[m].next \in 1..(Len(Nodes(side)[stack[m].node].ins) + 1)
               /\ m < n => stack[m + 1].node \in Reads(side, stack[m].node)
               /\ \A l \in 1..n : l # m => stack[l].node # stack[m].node
    <3>1. stack[m].node \in (1..N) \ closed
      BY <1>2, Zenon DEF Trail
    <3> QED BY <1>2, <3>1, Zenon DEF Trail
  <2>2. n \in 1..n
    BY <1>3
  <2> QED BY <1>3, <2>1, <2>2
<1>5. PICK m \in 1..n : stack[m].node = w[1]
  BY <1>1 DEF OnStack, Elements
<1>6. w[1] \in Reads(side, stack[n].node)
  <2>1. Top.node \in 1..N /\ Top.next \in 1..Len(ins)
    BY <1>1, <1>3, <1>4 DEF FrameType
  <2>2. \/ w = <<>> /\ ReadsFrom(side, Top.node, ins[Top.next]) = {}
        \/ w # <<>> /\ ReadsFrom(side, Top.node, ins[Top.next]) = {w[1]}
    BY <1>2, <2>1, FollowIs
  <2>3. ins[Top.next] \in Elements(ins)
    BY <1>2, <2>1, InputIs
  <2> QED BY <1>1, <1>3, <2>2, <2>3 DEF Reads
<1>7. n <= N
  <2> DEFINE h == [l \in 1..n |-> stack[l].node]
  <2>1. h \in Injection(1..n, 1..N)
    BY <1>4 DEF Injection, IsInjective
  <2>2. \A l \in Nat : IsFiniteSet(1..l) /\ Cardinality(1..l) = l
    <3> SUFFICES ASSUME NEW l \in Nat PROVE IsFiniteSet(1..l) /\ Cardinality(1..l) = l
      OBVIOUS
    <3>1. IsFiniteSet(1..l) /\ Cardinality(1..l) = IF 1 > l THEN 0 ELSE l - 1 + 1
      BY FS_Interval
    <3> QED BY <3>1
  <2> HIDE DEF h
  <2>3. Cardinality(1..n) <= Cardinality(1..N)
    BY <1>2, <2>1, <2>2, FS_Injection
  <2> QED BY <1>2, <1>3, <2>2, <2>3
<1> HIDE DEF n, N, ins, w
<1>8. Looped(side)
  <2> DEFINE k == n - m + 1
             p == [d \in 0..k |-> IF d = k THEN w[1] ELSE stack[m + d].node]
  <2>1. k \in 1..N /\ \A d \in 0..k : d # k => m + d \in 1..n
    BY <1>2, <1>3, <1>7
  <2>2. p \in [0..k -> 1..N]
    BY <1>4, <1>5, <2>1
  <2>3. p[0] = p[k]
    BY <1>3, <1>5, <2>1
  <2>4. ASSUME NEW d \in 0..(k - 1) PROVE p[d + 1] \in Reads(side, p[d])
    <3>1. d \in 0..k /\ d + 1 \in 0..k /\ d # k /\ p[d] = stack[m + d].node
      BY <2>1
    <3>2. CASE d + 1 = k
      <4>1. m + d = n
        BY <1>3, <3>2
      <4> QED BY <1>6, <3>1, <3>2, <4>1
    <3>3. CASE d + 1 # k
      <4>1. p[d + 1] = stack[(m + d) + 1].node
        BY <3>1, <3>3
      <4>2. m + d < n /\ m + d \in 1..n
        BY <1>3, <2>1, <3>1, <3>3
      <4> QED BY <1>4, <3>1, <4>1, <4>2
    <3> QED BY <3>2, <3>3
  <2> HIDE DEF k, p
  <2> QED BY <2>1, <2>2, <2>3, <2>4 DEF Looped, N
<1>9. IInv' /\ goal' = goal /\ phase' = "done" /\ diag' = "cycle"
  BY <1>1, RejectInv DEF CInv, Codes, Reject
<1>10. \E s \in Side : Looped(s)'
  BY <1>2, <1>8, <1>9, RigidReads
<1>11. Searched'
  BY <1>9, <1>10 DEF Searched
<1> QED BY <1>9, <1>11 DEF CInv

(***************************************************************************)
(* visit keeps the invariant.                                              *)
(***************************************************************************)
LEMMA VisitKept ==
    ASSUME CInv, phase = "visit", UNCHANGED <<goal, phase, writers, diag>>
    PROVE  /\ Written' /\ Fresh' /\ Searched'
           /\ diag' # "missing"
<1>1. diag = "none"
  BY DEF CInv, IInv, TypeOK
<1>2. Written'
  BY IndexedKept, Rigid DEF CInv, IInv, Written, Behind
<1>3. Searched'
  BY <1>1, RigidReads DEF CInv, Searched
<1> QED BY <1>1, <1>2, <1>3 DEF Fresh

LEMMA AimedKept ==
    ASSUME goal' = goal, Ids \subseteq Ids', NEW k, targets'[k] = targets[k], AimedAt(k)
    PROVE  AimedAt(k)'
<1> DEFINE s == Targets[k][1]
           t == Targets[k][2]
<1>1. PICK j \in 1..Len(Nodes(s)) : /\ Latest(s, t, Len(Nodes(s)) + 1, j)
                                    /\ targets[k] = <<s, j, Slot(s, j, t)>>
  BY DEF AimedAt
<1>2. targets[k] \in Ids /\ Targets' = Targets
  BY Rigid DEF AimedAt
<1> QED BY <1>1, <1>2, Rigid, RigidRelations DEF AimedAt

LEMMA OrderedKept ==
    ASSUME Ordered, UNCHANGED <<goal, steps>>
    PROVE  Ids' = Ids /\ Ordered'
  BY Rigid, RigidRelations DEF Ids, Ordered

\* The last writer of t before node i, as a key.
LEMMA WriterIs ==
    ASSUME TypeOK, NEW s \in Side, NEW t \in Tid, NEW i \in Nat, NEW j \in 1..(i - 1),
           i <= Len(Nodes(s)) + 1, Latest(s, t, i, j)
    PROVE  /\ Named(<<s, j, Slot(s, j, t)>>)
           /\ <<j, Slot(s, j, t)>> \in Nat \X Nat
           /\ Len(Nodes(s)[j].ins) \in Nat
<1> DEFINE id == <<s, j, Slot(s, j, t)>>
<1>1. j \in 1..Len(Nodes(s)) /\ Writes(s, j, t)
  BY NodesAre DEF Latest
<1>2. Slot(s, j, t) \in 1..Len(Nodes(s)[j].outs) /\ Nodes(s)[j].outs[Slot(s, j, t)] = t
  BY <1>1, SlotHolds
<1>3. Nodes(s)[j].outs \in Seq(Tid) /\ Len(Nodes(s)[j].ins) \in Nat
  BY <1>1, NodesAre
<1>4. id[1] = s /\ id[2] = j /\ id[3] = Slot(s, j, t)
  OBVIOUS
<1>5. Slot(s, j, t) \in Nat /\ j \in Nat
  BY <1>1, <1>2, <1>3
<1>6. id \in KeyType
  BY <1>5 DEF KeyType
<1> HIDE DEF id
<1>7. NodeOf(id) = Nodes(s)[j] /\ Output(id) = t
  BY <1>2, <1>4 DEF NodeOf, Output
<1>8. Named(id)
  BY <1>1, <1>2, <1>4, <1>6, <1>7 DEF Named
<1> QED BY <1>3, <1>5, <1>8 DEF id

\* A frame that has just been pushed.
LEMMA NewFrame ==
    ASSUME NEW s, NEW n
    PROVE  Served(s, n, 1..0, {}, {})
  BY DEF Served

\* Open, with the state it is about as parameters.
OpenAt(s, fs, ids, m) ==
    LET f == fs[m]
        id == <<s, f.node, f.out>>
    IN /\ Named(id) /\ id \notin ids
       /\ f.next \in 1..(Len(NodeOf(id).ins) + 1)
       /\ Served(s, f.node, 1..(f.next - 1), f.deps, f.ext)
       /\ f.deps \subseteq ids
       /\ \A k \in 1..Len(fs) : m < k => fs[k].node < f.node

LEMMA OpenIs ==
    /\ Open /\ phase = "visit" => \A m \in 1..Len(stack) : OpenAt(side, stack, Ids, m)
    /\ \A s, fs, ids : (/\ goal' = goal /\ s = side' /\ fs = stack' /\ ids = Ids'
                        /\ \A m \in 1..Len(fs) : OpenAt(s, fs, ids, m)) => Open'
<1>1. Open /\ phase = "visit" => \A m \in 1..Len(stack) : OpenAt(side, stack, Ids, m)
  BY Zenon DEF Open, OpenAt
<1>2. ASSUME NEW s, NEW fs, NEW ids, goal' = goal, s = side', fs = stack', ids = Ids',
             \A m \in 1..Len(fs) : OpenAt(s, fs, ids, m)
      PROVE  Open'
  <2>1. /\ \A id : Named(id)' <=> Named(id)
        /\ \A id : NodeOf(id)' = NodeOf(id)
        /\ \A r, n, K, deps, ext : Served(r, n, K, deps, ext)' <=> Served(r, n, K, deps, ext)
    BY <1>2, Rigid, RigidRelations
  <2>2. ASSUME NEW m \in 1..Len(fs)
        PROVE  LET f == fs[m]
                   id == <<s, f.node, f.out>>
               IN /\ Named(id)' /\ id \notin ids
                  /\ f.next \in 1..(Len(NodeOf(id)'.ins) + 1)
                  /\ Served(s, f.node, 1..(f.next - 1), f.deps, f.ext)'
                  /\ f.deps \subseteq ids
                  /\ \A k \in 1..Len(fs) : m < k => fs[k].node < f.node
    BY <1>2, <2>1, Zenon DEF OpenAt
  <2> QED BY <1>2, <2>2, Zenon DEF Open
<1> QED BY <1>1, <1>2

\* visit changes its stack alone.
LEMMA VisitStack ==
    ASSUME CInv, phase = "visit",
           UNCHANGED <<goal, phase, side, at, writers, closed, steps, targets, diag>>,
           NEW fs \in Seq(FrameType), stack' = fs,
           \A m \in 1..Len(fs) : OpenAt(side, fs, Ids, m)
    PROVE  CInv'
<1>1. TypeOK'
  BY DEF CInv, IInv, TypeOK
<1>2. Ordered' /\ Aimed' /\ Ids' = Ids
  <2>1. IInv
    BY DEF CInv
  <2>2. Len(targets) = at - 1 /\ at <= Len(Targets) + 1 /\ Targets' = Targets
    BY <2>1, Rigid DEF IInv, Aimed
  <2> QED BY <2>1, <2>2, Kept DEF Aimed
<1>3. Open'
  BY <1>2, OpenIs
<1> QED BY <1>1, <1>2, <1>3, VisitKept DEF CInv, IInv

LEMMA VisitFacts ==
    ASSUME CInv, phase = "visit"
    PROVE  /\ IInv /\ TypeOK /\ diag = "none" /\ side \in Side /\ at \in Nat \ {0}
           /\ \A s \in Side : Indexed(s, Len(Nodes(s))) /\ Len(Nodes(s)) \in Nat
           /\ Len(targets) = at - 1 /\ at <= Len(Targets) + 1 /\ Len(Targets) \in Nat
           /\ \A k \in 1..Len(targets) : AimedAt(k)
           /\ \A m \in 1..Len(stack) : OpenAt(side, stack, Ids, m)
           /\ Ids = {steps[i].id : i \in 1..Len(steps)}
           /\ steps \in Seq(StepType) /\ Len(steps) \in Nat
<1>1. IInv /\ TypeOK
  BY DEF CInv, IInv
<1>2. \A s \in Side : Indexed(s, Len(Nodes(s)))
  BY <1>1 DEF IInv, Written, Behind
<1>3. Len(Targets) \in Nat
  BY <1>1, TargetsAre
<1>4. \A m \in 1..Len(stack) : OpenAt(side, stack, Ids, m)
  BY <1>1, OpenIs DEF IInv
<1>5. \A s \in Side : Len(Nodes(s)) \in Nat
  BY <1>1, NodesAre
<1>6. Ids = {steps[i].id : i \in 1..Len(steps)}
  BY DEF Ids
<1>7. steps \in Seq(StepType) /\ Len(steps) \in Nat /\ diag = "none" /\ side \in Side /\ at \in Nat \ {0}
  BY <1>1 DEF TypeOK
<1>8. Len(targets) = at - 1 /\ at <= Len(Targets) + 1 /\ \A k \in 1..Len(targets) : AimedAt(k)
  BY <1>1 DEF IInv, Aimed
<1> QED BY <1>1, <1>2, <1>3, <1>4, <1>5, <1>6, <1>7, <1>8

LEMMA EmittedIs == \A k : Emitted(k) <=> k \in Ids
  BY DEF Emitted, Ids

\* The last writer of the tensor of target k.
LEMMA FinalIs ==
    ASSUME CInv, phase = "visit", NEW k \in 1..Len(Targets),
           NEW s, s = Targets[k][1], NEW t, t = Targets[k][2]
    PROVE  /\ s \in Side /\ t \in Tid
           /\ \/ FinalWriter(s, t) = <<>>
              \/ \E j \in 1..Len(Nodes(s)) : /\ Latest(s, t, Len(Nodes(s)) + 1, j)
                                             /\ FinalWriter(s, t) = <<j, Slot(s, j, t)>>
<1>1. TypeOK /\ s \in Side /\ t \in Tid
  BY VisitFacts, TargetsAre
<1> DEFINE n == Len(Nodes(s))
<1>2. n \in Nat /\ Indexed(s, n) /\ n + 1 \in 1..(n + 1) /\ n + 1 - 1 = n
  BY <1>1, VisitFacts
<1>3. \/ ProducerBefore(s, t, n + 1) = <<>> /\ Unwritten(s, t, n + 1)
      \/ \E j \in 1..(n + 1 - 1) : /\ Latest(s, t, n + 1, j)
                                   /\ ProducerBefore(s, t, n + 1) = <<j, Slot(s, j, t)>>
  BY <1>1, <1>2, ProducerIs
<1> QED BY <1>1, <1>2, <1>3 DEF FinalWriter

LEMMA AimedNow ==
    ASSUME goal' = goal, NEW k, NEW s, s = Targets[k][1], NEW t, t = Targets[k][2],
           NEW j \in 1..Len(Nodes(s)), Latest(s, t, Len(Nodes(s)) + 1, j),
           targets'[k] = <<s, j, Slot(s, j, t)>>, targets'[k] \in Ids'
    PROVE  AimedAt(k)'
  BY Rigid, RigidRelations DEF AimedAt

LEMMA VisitTargetCovers ==
    ASSUME CInv, VisitTarget
    PROVE  CInv'
<1>1. /\ phase = "visit" /\ stack = <<>> /\ at <= Len(Targets)
      /\ UNCHANGED <<goal, phase, writers, closed, steps, diag>>
  BY DEF VisitTarget
<1>2. PICK k \in 1..Len(Targets) : k = at
  BY <1>1, VisitFacts
<1> DEFINE s == Targets[k][1]
           t == Targets[k][2]
           n == Len(Nodes(s))
           w == FinalWriter(s, t)
<1>3. /\ w # <<>> /\ side' = s
      /\ \/ /\ Emitted(Key(s, w)) /\ at' = k + 1
            /\ targets' = Append(targets, Key(s, w)) /\ UNCHANGED stack
         \/ ~Emitted(Key(s, w)) /\ stack' = Push(<<>>, w) /\ UNCHANGED <<at, targets>>
  BY <1>2 DEF VisitTarget
<1>4. s \in Side /\ t \in Tid
  BY <1>1, <1>2, FinalIs
<1>5. PICK j \in 1..n : Latest(s, t, n + 1, j) /\ w = <<j, Slot(s, j, t)>>
  BY <1>1, <1>2, <1>3, FinalIs
<1>6. /\ IInv /\ TypeOK /\ n \in Nat /\ Len(targets) = k - 1
      /\ Len(Targets) \in Nat /\ \A l \in 1..Len(targets) : AimedAt(l)
  BY <1>1, <1>2, <1>4, VisitFacts
<1> DEFINE id == <<s, j, Slot(s, j, t)>>
<1>7. Named(id) /\ w \in Nat \X Nat /\ Len(Nodes(s)[j].ins) \in Nat
  <2>1. n + 1 \in Nat /\ n + 1 - 1 = n
    BY <1>6
  <2> QED BY <1>4, <1>5, <1>6, <2>1, WriterIs, SMTT(30)
<1>8. Key(s, w) = id /\ id \in KeyType
  BY <1>5, <1>7 DEF Key, Named
<1>9. /\ Written' /\ Fresh' /\ Searched' /\ diag' # "missing" /\ phase' = "visit"
      /\ Ids' = Ids /\ Ordered' /\ Targets' = Targets
  BY <1>1, <1>6, VisitKept, OrderedKept, Rigid DEF IInv
<1>10. ASSUME Emitted(Key(s, w)), at' = k + 1, targets' = Append(targets, Key(s, w)), UNCHANGED stack
       PROVE  CInv'
  <2>1. id \in Ids
    BY <1>8, <1>10, EmittedIs
  <2>2. TypeOK'
    <3>1. targets' \in Seq(KeyType)
      BY <1>6, <1>8, <1>10 DEF TypeOK
    <3>2. at' \in Nat \ {0}
      BY <1>2, <1>10
    <3> QED BY <1>1, <1>3, <1>4, <1>6, <1>9, <1>10, <3>1, <3>2 DEF TypeOK
  <2>3. Open'
    <3>1. Len(stack') = 0
      BY <1>1, <1>10
    <3> QED BY <3>1 DEF Open
  <2>4. /\ Len(targets') = k /\ targets'[k] = id
        /\ \A l \in 1..Len(targets) : targets'[l] = targets[l]
        /\ \A l \in 1..k : l = k \/ l \in 1..Len(targets)
    BY <1>2, <1>6, <1>8, <1>10 DEF TypeOK
  <2>5. AimedAt(k)'
    BY <1>1, <1>5, <1>9, <2>1, <2>4, AimedNow
  <2>6. \A l \in 1..Len(targets) : AimedAt(l)'
    BY <1>1, <1>6, <1>9, <2>4, AimedKept
  <2>7. Aimed'
    <3>1. \A l \in 1..Len(targets') : AimedAt(l)'
      BY <2>4, <2>5, <2>6
    <3>2. Len(targets') = at' - 1 /\ at' <= Len(Targets') + 1 /\ Len(targets') <= Len(Targets')
      BY <1>2, <1>6, <1>9, <1>10, <2>4
    <3> QED BY <1>9, <3>1, <3>2 DEF Aimed
  <2> QED BY <1>9, <2>2, <2>3, <2>7 DEF CInv, IInv
<1>11. ASSUME ~Emitted(Key(s, w)), stack' = Push(<<>>, w), UNCHANGED <<at, targets>>
       PROVE  CInv'
  <2> DEFINE fs == Push(<<>>, w)
  <2>1. w \in Nat \X Nat
    BY <1>7
  <2>2. /\ fs \in Seq(FrameType) /\ Len(fs) = 1
        /\ fs[1] = [node |-> w[1], out |-> w[2], next |-> 1, deps |-> {}, ext |-> {}]
    BY <2>1, PushedFirst
  <2>3. fs[1] = [node |-> j, out |-> Slot(s, j, t), next |-> 1, deps |-> {}, ext |-> {}]
    BY <1>5, <2>2
  <2> HIDE DEF fs
  <2>4. OpenAt(s, fs, Ids, 1)
    <3>1. id \notin Ids
      BY <1>8, <1>11, EmittedIs
    <3>2. NodeOf(id) = Nodes(s)[j] /\ 1 \in 1..(Len(Nodes(s)[j].ins) + 1) /\ 1 - 1 = 0
      BY <1>7 DEF NodeOf
    <3>3. fs[1].node = j /\ fs[1].out = Slot(s, j, t) /\ fs[1].next = 1 /\ fs[1].deps = {} /\ fs[1].ext = {}
      BY <2>3
    <3>4. \A l \in 1..Len(fs) : ~(1 < l)
      BY <2>2
    <3> QED BY <1>7, <3>1, <3>2, <3>3, <3>4, NewFrame DEF OpenAt
  <2>5. \A m \in 1..Len(fs) : OpenAt(s, fs, Ids, m)
    BY <2>2, <2>4
  <2>6. Open'
    BY <1>1, <1>3, <1>9, <1>11, <2>5, OpenIs DEF fs
  <2>7. TypeOK'
    BY <1>1, <1>3, <1>4, <1>6, <1>9, <1>11, <2>2 DEF TypeOK, fs
  <2>8. Aimed'
    <3>1. targets' = targets /\ at' = at /\ IInv
      BY <1>6, <1>11
    <3> QED BY <1>1, <1>9, <3>1, Kept DEF Aimed, IInv
  <2> QED BY <1>9, <2>6, <2>7, <2>8 DEF CInv, IInv
<1> HIDE DEF s, t, n, w, id
<1> QED BY <1>3, <1>10, <1>11

LEMMA UnservedKept ==
    ASSUME Unserved, UNCHANGED <<goal, writers>>
    PROVE  Unserved'
<1>1. \A s, t, i : ProducerBefore(s, t, i)' = ProducerBefore(s, t, i)
  BY DEF ProducerBefore, Eligible
<1>2. \A s, t : FinalWriter(s, t)' = FinalWriter(s, t)
  BY <1>1, Zenon DEF FinalWriter, Nodes
<1>3. Targets' = Targets /\ \A s : Nodes(s)' = Nodes(s)
  BY Rigid
<1>4. CASE \E k \in 1..Len(Targets) : FinalWriter(Targets[k][1], Targets[k][2]) = <<>>
  <2>1. PICK k \in 1..Len(Targets) : FinalWriter(Targets[k][1], Targets[k][2]) = <<>>
    BY <1>4
  <2>2. PICK s, t : s = Targets[k][1] /\ t = Targets[k][2]
    OBVIOUS
  <2>3. FinalWriter(s, t)' = <<>> /\ s = Targets'[k][1] /\ t = Targets'[k][2]
    BY <1>2, <1>3, <2>1, <2>2
  <2>4. FinalWriter(Targets[k][1], Targets[k][2])' = <<>>
    BY <2>3
  <2> QED BY <1>3, <2>4 DEF Unserved
<1>5. CASE \E s \in Side : \E i \in 1..Len(Nodes(s)) :
             \E t \in Elements(Nodes(s)[i].ins) \ goal.inits[s] :
               \A j \in 1..(i - 1) : t \notin Elements(Nodes(s)[j].outs)
  BY <1>3, <1>5 DEF Unserved
<1> QED BY <1>4, <1>5 DEF Unserved

LEMMA MissingCovers ==
    ASSUME CInv, Reject("missing"), phase = "visit", Unserved
    PROVE  CInv'
<1>1. IInv' /\ phase' = "done" /\ diag' = "missing" /\ UNCHANGED <<goal, writers>>
  BY RejectInv DEF Reject, Codes, CInv
<1>2. Searched'
  BY <1>1, RigidReads DEF CInv, Searched
<1>3. Unserved'
  BY <1>1, UnservedKept
<1> QED BY <1>1, <1>2, <1>3 DEF CInv

LEMMA TargetMissingCovers ==
    ASSUME CInv, TargetMissing
    PROVE  CInv'
<1>1. /\ phase = "visit" /\ at <= Len(Targets) /\ Reject("missing")
      /\ FinalWriter(Targets[at][1], Targets[at][2]) = <<>>
  BY DEF TargetMissing
<1>2. at \in 1..Len(Targets)
  BY <1>1, VisitFacts
<1>3. Unserved
  BY <1>1, <1>2 DEF Unserved
<1> QED BY <1>1, <1>3, MissingCovers

LEMMA ServedMore ==
    ASSUME NEW s, NEW n, NEW k \in Nat \ {0}, k <= Len(Nodes(s)[n].ins), Len(Nodes(s)[n].ins) \in Nat,
           NEW deps, NEW ext, Served(s, n, 1..(k - 1), deps, ext), NEW t, t = Nodes(s)[n].ins[k]
    PROVE  /\ t \in goal.inits[s] /\ Unwritten(s, t, n) => Served(s, n, 1..k, deps, ext \cup {t})
           /\ \A j \in 1..(n - 1) : Latest(s, t, n, j) =>
                Served(s, n, 1..k, deps \cup {<<s, j, Slot(s, j, t)>>}, ext)
<1> DEFINE ins == Nodes(s)[n].ins
           By(l, d) == \E j \in 1..(n - 1) : Latest(s, ins[l], n, j) /\ d = <<s, j, Slot(s, j, ins[l])>>
<1>1. /\ \A l \in 1..(k - 1) : \/ Unwritten(s, ins[l], n) /\ ins[l] \in ext
                               \/ \E d \in deps : By(l, d)
      /\ \A x \in ext : x \in goal.inits[s] /\ Unwritten(s, x, n)
      /\ \A d \in deps : \E l \in 1..Len(ins) : By(l, d)
  BY DEF Served
<1>2. k \in 1..Len(ins) /\ \A l \in 1..k : l = k \/ l \in 1..(k - 1)
  OBVIOUS
<1> HIDE DEF By
<1>3. ASSUME t \in goal.inits[s], Unwritten(s, t, n) PROVE Served(s, n, 1..k, deps, ext \cup {t})
  <2>1. /\ \A l \in 1..k : \/ Unwritten(s, ins[l], n) /\ ins[l] \in ext \cup {t}
                           \/ \E d \in deps : By(l, d)
        /\ \A x \in ext \cup {t} : x \in goal.inits[s] /\ Unwritten(s, x, n)
        /\ \A d \in deps : \E l \in 1..Len(ins) : By(l, d)
    BY <1>1, <1>2, <1>3
  <2> QED BY <2>1 DEF Served, By
<1>4. ASSUME NEW j \in 1..(n - 1), Latest(s, t, n, j)
      PROVE  Served(s, n, 1..k, deps \cup {<<s, j, Slot(s, j, t)>>}, ext)
  <2> DEFINE c == <<s, j, Slot(s, j, t)>>
  <2>1. By(k, c)
    BY <1>4 DEF By
  <2> HIDE DEF c
  <2>2. /\ \A l \in 1..k : \/ Unwritten(s, ins[l], n) /\ ins[l] \in ext
                           \/ \E d \in deps \cup {c} : By(l, d)
        /\ \A x \in ext : x \in goal.inits[s] /\ Unwritten(s, x, n)
        /\ \A d \in deps \cup {c} : \E l \in 1..Len(ins) : By(l, d)
    BY <1>1, <1>2, <2>1
  <2>3. Served(s, n, 1..k, deps \cup {c}, ext)
    BY <2>2 DEF Served, By
  <2> QED BY <2>3 DEF c
<1> QED BY <1>3, <1>4

\* What visit knows at its top frame, and what a read of it finds.
LEMMA TopIs ==
    ASSUME CInv, phase = "visit", stack # <<>>
    PROVE  LET n == Len(stack)
               id == <<side, Top.node, Top.out>>
           IN /\ n \in Nat \ {0} /\ Top = stack[n] /\ Top \in FrameType /\ Named(id) /\ id \notin Ids
              /\ Top.node \in 1..Len(Nodes(side)) /\ Len(Nodes(side)[Top.node].ins) \in Nat
              /\ Top.next \in 1..(Len(Nodes(side)[Top.node].ins) + 1)
              /\ Served(side, Top.node, 1..(Top.next - 1), Top.deps, Top.ext)
              /\ Top.deps \subseteq Ids /\ Top.deps \subseteq KeyType /\ Top.ext \subseteq Tid
<1>1. /\ stack \in Seq(FrameType) /\ side \in Side /\ TypeOK
      /\ \A m \in 1..Len(stack) : OpenAt(side, stack, Ids, m)
  BY VisitFacts DEF TypeOK
<1>2. Len(stack) \in Nat \ {0} /\ Top = stack[Len(stack)] /\ Top \in FrameType
  BY <1>1, StackIs
<1>3. OpenAt(side, stack, Ids, Len(stack))
  BY <1>1, <1>2
<1> DEFINE id == <<side, Top.node, Top.out>>
<1>4. /\ Named(id) /\ id \notin Ids /\ Top.next \in 1..(Len(NodeOf(id).ins) + 1)
      /\ Served(side, Top.node, 1..(Top.next - 1), Top.deps, Top.ext) /\ Top.deps \subseteq Ids
  BY <1>2, <1>3 DEF OpenAt
<1>5. NodeOf(id) = Nodes(side)[Top.node] /\ Top.node \in 1..Len(Nodes(side))
  BY <1>4 DEF NodeOf, Named
<1>6. Len(Nodes(side)[Top.node].ins) \in Nat
  BY <1>1, <1>5, NodesAre
<1> QED BY <1>2, <1>4, <1>5, <1>6 DEF FrameType

LEMMA ReadIs ==
    ASSUME CInv, phase = "visit", stack # <<>>, Unresolved,
           NEW t, t = Nodes(side)[Top.node].ins[Top.next],
           NEW w, w = Producer(side, Top.node, Top.next)
    PROVE  /\ t \in Tid /\ t \in Elements(Nodes(side)[Top.node].ins)
           /\ \/ w = <<>> /\ Unwritten(side, t, Top.node)
              \/ \E j \in 1..(Top.node - 1) : Latest(side, t, Top.node, j) /\ w = <<j, Slot(side, j, t)>>
<1> DEFINE n == Len(Nodes(side))
           i == Top.node
<1>1. TypeOK /\ side \in Side /\ Indexed(side, n) /\ n \in Nat
  BY VisitFacts
<1>2. i \in 1..n /\ Top.next \in 1..Len(Nodes(side)[i].ins)
  BY TopIs DEF Unresolved
<1>3. t \in Tid /\ t \in Elements(Nodes(side)[i].ins)
  BY <1>1, <1>2, InputIs
<1>4. w = ProducerBefore(side, t, i)
  BY DEF Producer
<1>5. i \in 1..(n + 1)
  BY <1>1, <1>2
<1> HIDE DEF n, i
<1>6. \/ ProducerBefore(side, t, i) = <<>> /\ Unwritten(side, t, i)
      \/ \E j \in 1..(i - 1) : Latest(side, t, i, j) /\ ProducerBefore(side, t, i) = <<j, Slot(side, j, t)>>
  BY <1>1, <1>3, <1>5, ProducerIs
<1> QED BY <1>3, <1>4, <1>6 DEF i

LEMMA MovedOpen ==
    ASSUME CInv, phase = "visit", stack # <<>>, Unresolved, NEW deps, NEW ext, NEW fs,
           MovedTo(fs, Next1(deps, ext)), deps \subseteq Ids,
           Served(side, Top.node, 1..Top.next, deps, ext)
    PROVE  fs \in Seq(FrameType) /\ \A m \in 1..Len(fs) : OpenAt(side, fs, Ids, m)
<1> DEFINE n == Len(stack)
           id == <<side, Top.node, Top.out>>
<1>1. /\ fs \in Seq(FrameType) /\ Len(fs) = n /\ \A m \in 1..n : m # n => fs[m] = stack[m]
      /\ fs[n] = Next1(deps, ext)
  BY DEF MovedTo
<1>2. /\ fs[n].node = Top.node /\ fs[n].out = Top.out /\ fs[n].next = Top.next + 1
      /\ fs[n].deps = deps /\ fs[n].ext = ext
  BY <1>1 DEF Next1
<1>3. /\ n \in Nat \ {0} /\ Top = stack[n] /\ Named(id) /\ id \notin Ids
      /\ Len(Nodes(side)[Top.node].ins) \in Nat
      /\ Top.next \in 1..(Len(Nodes(side)[Top.node].ins) + 1)
  BY TopIs
<1>4. Top.next + 1 \in 1..(Len(Nodes(side)[Top.node].ins) + 1) /\ Top.next + 1 - 1 = Top.next
  BY <1>3 DEF Unresolved
<1>5. \A m \in 1..n : OpenAt(side, stack, Ids, m)
  BY VisitFacts
<1>6. NodeOf(id) = Nodes(side)[Top.node]
  BY DEF NodeOf
<1>7. ASSUME NEW m \in 1..n PROVE OpenAt(side, fs, Ids, m)
  <2>1. \A k \in 1..n : fs[k].node = stack[k].node
    BY <1>1, <1>2, <1>3
  <2>2. \A k \in 1..n : m < k => stack[k].node < stack[m].node
    BY <1>5 DEF OpenAt
  <2>3. CASE m # n
    <3>1. fs[m] = stack[m] /\ OpenAt(side, stack, Ids, m)
      BY <1>1, <1>5, <2>3
    <3> QED BY <1>1, <2>1, <2>2, <3>1 DEF OpenAt
  <2>4. CASE m = n
    <3>1. \A k \in 1..Len(fs) : ~(m < k)
      BY <1>1, <1>3, <2>4
    <3> QED BY <1>2, <1>3, <1>4, <1>6, <2>4, <3>1, SMTT(30) DEF OpenAt
  <2> QED BY <2>3, <2>4
<1> QED BY <1>1, <1>7

LEMMA VisitInputCovers ==
    ASSUME CInv, VisitInput
    PROVE  CInv'
<1> DEFINE n == Len(stack)
           t == Nodes(side)[Top.node].ins[Top.next]
           w == Producer(side, Top.node, Top.next)
<1>1. /\ phase = "visit" /\ stack # <<>> /\ Unresolved
      /\ UNCHANGED <<goal, phase, side, at, writers, closed, steps, targets, diag>>
      /\ \/ /\ w = <<>> /\ t \in goal.inits[side]
            /\ stack' = [NextInput EXCEPT ![n].ext = @ \cup {t}]
         \/ /\ w # <<>> /\ Emitted(Key(side, w))
            /\ stack' = [NextInput EXCEPT ![n].deps = @ \cup {Key(side, w)}]
         \/ w # <<>> /\ ~Emitted(Key(side, w)) /\ stack' = Push(stack, w)
  BY DEF VisitInput
<1>2. /\ stack \in Seq(FrameType) /\ side \in Side /\ TypeOK
      /\ \A m \in 1..n : OpenAt(side, stack, Ids, m)
  BY <1>1, VisitFacts DEF TypeOK
<1>3. /\ t \in Tid
      /\ \/ w = <<>> /\ Unwritten(side, t, Top.node)
         \/ \E j \in 1..(Top.node - 1) : Latest(side, t, Top.node, j) /\ w = <<j, Slot(side, j, t)>>
  BY <1>1, ReadIs
<1>4. /\ n \in Nat \ {0} /\ Top = stack[n] /\ Top \in FrameType
      /\ Top.node \in 1..Len(Nodes(side)) /\ Len(Nodes(side)[Top.node].ins) \in Nat
      /\ Top.next \in Nat \ {0} /\ Top.next <= Len(Nodes(side)[Top.node].ins)
      /\ Served(side, Top.node, 1..(Top.next - 1), Top.deps, Top.ext)
      /\ Top.deps \subseteq Ids
  BY <1>1, TopIs DEF Unresolved
<1>5. /\ \A x \in Tid : MovedTo([NextInput EXCEPT ![n].ext = @ \cup {x}], Next1(Top.deps, Top.ext \cup {x}))
      /\ \A d \in KeyType : MovedTo([NextInput EXCEPT ![n].deps = @ \cup {d}], Next1(Top.deps \cup {d}, Top.ext))
  BY <1>1, <1>2, Moved
<1> HIDE DEF t, w
<1>6. ASSUME w = <<>>, t \in goal.inits[side], stack' = [NextInput EXCEPT ![n].ext = @ \cup {t}]
      PROVE  CInv'
  <2> DEFINE fs == [NextInput EXCEPT ![n].ext = @ \cup {t}]
  <2>1. MovedTo(fs, Next1(Top.deps, Top.ext \cup {t}))
    BY <1>3, <1>5
  <2> HIDE DEF fs
  <2>2. Unwritten(side, t, Top.node)
    BY <1>3, <1>6, PairIsNotEmpty
  <2>3. Served(side, Top.node, 1..Top.next, Top.deps, Top.ext \cup {t})
    BY <1>4, <1>6, <2>2, ServedMore DEF t
  <2>4. fs \in Seq(FrameType) /\ \A m \in 1..Len(fs) : OpenAt(side, fs, Ids, m)
    BY <1>1, <1>4, <2>1, <2>3, MovedOpen
  <2>5. stack' = fs
    BY <1>6 DEF fs
  <2> QED BY <1>1, <2>4, <2>5, VisitStack
<1>7. ASSUME w # <<>>
      PROVE  \E j \in 1..(Top.node - 1) :
               /\ Latest(side, t, Top.node, j) /\ w = <<j, Slot(side, j, t)>>
               /\ Key(side, w) = <<side, j, Slot(side, j, t)>>
               /\ Named(<<side, j, Slot(side, j, t)>>) /\ w \in Nat \X Nat
               /\ Len(Nodes(side)[j].ins) \in Nat
  <2>1. PICK j \in 1..(Top.node - 1) : Latest(side, t, Top.node, j) /\ w = <<j, Slot(side, j, t)>>
    BY <1>3, <1>7
  <2>2. Top.node \in Nat /\ Top.node <= Len(Nodes(side)) + 1
    BY <1>2, <1>4, NodesAre
  <2> QED BY <1>2, <1>3, <2>1, <2>2, WriterIs DEF Key
<1>8. ASSUME w # <<>>, Emitted(Key(side, w)), stack' = [NextInput EXCEPT ![n].deps = @ \cup {Key(side, w)}]
      PROVE  CInv'
  <2> DEFINE d == Key(side, w)
             fs == [NextInput EXCEPT ![n].deps = @ \cup {d}]
  <2>1. PICK j \in 1..(Top.node - 1) :
               /\ Latest(side, t, Top.node, j) /\ d = <<side, j, Slot(side, j, t)>>
               /\ Named(<<side, j, Slot(side, j, t)>>)
    BY <1>7, <1>8
  <2>2. d \in KeyType /\ d \in Ids
    BY <1>8, <2>1, EmittedIs DEF Named
  <2>3. stack' = fs
    BY <1>8
  <2> HIDE DEF d
  <2>4. MovedTo(fs, Next1(Top.deps \cup {d}, Top.ext))
    BY <1>5, <2>2
  <2> HIDE DEF fs
  <2>5. Served(side, Top.node, 1..Top.next, Top.deps \cup {d}, Top.ext)
    BY <1>4, <2>1, ServedMore DEF t
  <2>6. Top.deps \cup {d} \subseteq Ids
    BY <1>4, <2>2
  <2>7. fs \in Seq(FrameType) /\ \A m \in 1..Len(fs) : OpenAt(side, fs, Ids, m)
    BY <1>1, <2>4, <2>5, <2>6, MovedOpen
  <2> QED BY <1>1, <2>3, <2>7, VisitStack
<1>9. ASSUME w # <<>>, ~Emitted(Key(side, w)), stack' = Push(stack, w)
      PROVE  CInv'
  <2> DEFINE fs == Push(stack, w)
  <2>1. PICK j \in 1..(Top.node - 1) :
               /\ Latest(side, t, Top.node, j) /\ w = <<j, Slot(side, j, t)>>
               /\ Key(side, w) = <<side, j, Slot(side, j, t)>>
               /\ Named(<<side, j, Slot(side, j, t)>>) /\ w \in Nat \X Nat
               /\ Len(Nodes(side)[j].ins) \in Nat
    BY <1>7, <1>9
  <2> DEFINE id == <<side, j, Slot(side, j, t)>>
  <2>2. /\ fs \in Seq(FrameType) /\ Len(fs) = n + 1 /\ \A m \in 1..n : fs[m] = stack[m]
        /\ fs[n + 1] = [node |-> w[1], out |-> w[2], next |-> 1, deps |-> {}, ext |-> {}]
    BY <1>2, <2>1, Pushed
  <2>3. fs[n + 1] = [node |-> j, out |-> Slot(side, j, t), next |-> 1, deps |-> {}, ext |-> {}]
    BY <2>1, <2>2
  <2>4. stack' = fs
    BY <1>9
  <2> HIDE DEF fs
  <2>5. /\ fs[n + 1].node = j /\ fs[n + 1].out = Slot(side, j, t) /\ fs[n + 1].next = 1
        /\ fs[n + 1].deps = {} /\ fs[n + 1].ext = {}
    BY <2>3
  <2>6. OpenAt(side, fs, Ids, n + 1)
    <3>1. id \notin Ids
      BY <1>9, <2>1, EmittedIs
    <3>2. NodeOf(id) = Nodes(side)[j] /\ 1 \in 1..(Len(Nodes(side)[j].ins) + 1) /\ 1 - 1 = 0
      BY <2>1 DEF NodeOf
    <3>3. \A l \in 1..Len(fs) : ~(n + 1 < l)
      BY <1>4, <2>2
    <3> QED BY <2>1, <2>5, <3>1, <3>2, <3>3, NewFrame DEF OpenAt
  <2>7. ASSUME NEW m \in 1..n PROVE OpenAt(side, fs, Ids, m)
    <3>1. OpenAt(side, stack, Ids, m) /\ fs[m] = stack[m]
      BY <1>2, <2>2
    <3>2. ASSUME NEW k \in 1..Len(fs), m < k PROVE fs[k].node < fs[m].node
      <4>1. \A l \in 1..n : m < l => stack[l].node < stack[m].node
        BY <3>1 DEF OpenAt
      <4>2. k \in 1..n \/ k = n + 1
        BY <1>4, <2>2
      <4>3. CASE k \in 1..n
        BY <2>2, <3>1, <3>2, <4>1, <4>3
      <4>4. CASE k = n + 1
        <5>1. n \in Nat \ {0} /\ n \in 1..n /\ m \in 1..n
          <6>1. n \in Nat \ {0}
            BY <1>4, Zenon
          <6> QED BY <6>1
        <5>2. m = n \/ stack[n].node < stack[m].node
          <6>1. m = n \/ m < n
            BY <5>1
          <6> QED BY <4>1, <5>1, <6>1
        <5>3. j < stack[n].node /\ stack[n].node \in Nat /\ stack[m].node \in Nat
          <6>1. \A l \in 1..n : stack[l] \in FrameType
            BY <1>1, <1>2, StackIs
          <6>2. \A l \in 1..n : stack[l].node \in Nat
            BY <6>1 DEF FrameType
          <6>3. Top = stack[n] /\ stack[n].node \in Nat /\ stack[m].node \in Nat
            BY <1>4, <5>1, <6>2, Zenon
          <6>4. \A a \in Nat : j \in 1..(a - 1) => j < a
            OBVIOUS
          <6> QED BY <6>3, <6>4
        <5> QED BY <2>1, <2>5, <3>1, <4>4, <5>2, <5>3
      <4> QED BY <4>2, <4>3, <4>4
    <3> QED BY <3>1, <3>2 DEF OpenAt
  <2>8. \A m \in 1..Len(fs) : OpenAt(side, fs, Ids, m)
    <3>1. \A m \in 1..Len(fs) : m \in 1..n \/ m = n + 1
      BY <1>4, <2>2
    <3> QED BY <2>6, <2>7, <3>1
  <2> QED BY <1>1, <2>2, <2>4, <2>8, VisitStack
<1> QED BY <1>1, <1>6, <1>8, <1>9

LEMMA InputMissingCovers ==
    ASSUME CInv, InputMissing
    PROVE  CInv'
<1> DEFINE t == Nodes(side)[Top.node].ins[Top.next]
           w == Producer(side, Top.node, Top.next)
           i == Top.node
<1>1. /\ phase = "visit" /\ stack # <<>> /\ Unresolved
      /\ w = <<>> /\ t \notin goal.inits[side] /\ Reject("missing")
  BY DEF InputMissing
<1>2. /\ t \in Tid /\ t \in Elements(Nodes(side)[i].ins)
      /\ \/ w = <<>> /\ Unwritten(side, t, i)
         \/ \E j \in 1..(i - 1) : Latest(side, t, i, j) /\ w = <<j, Slot(side, j, t)>>
  BY <1>1, ReadIs
<1>3. i \in 1..Len(Nodes(side)) /\ side \in Side
  BY <1>1, TopIs, VisitFacts
<1> HIDE DEF t, w, i
<1>4. Unwritten(side, t, i)
  BY <1>1, <1>2, PairIsNotEmpty
<1>5. Unserved
  BY <1>1, <1>2, <1>3, <1>4 DEF Unserved, Unwritten, Writes
<1> QED BY <1>1, <1>5, MissingCovers

LEMMA FinishCovers ==
    ASSUME CInv, Finish
    PROVE  CInv'
<1>1. /\ phase = "visit" /\ stack = <<>> /\ at > Len(Targets)
      /\ phase' = "done" /\ diag' = IF goal.shapesAgree THEN "none" ELSE "shape"
      /\ UNCHANGED <<goal, side, at, writers, stack, closed, steps, targets>>
  BY DEF Finish
<1>2. /\ IInv /\ TypeOK /\ Len(targets) = at - 1 /\ at <= Len(Targets) + 1
      /\ Len(Targets) \in Nat /\ at \in Nat \ {0}
  BY <1>1, VisitFacts
<1>3. diag' \in {"none", "shape"}
  BY <1>1
<1>4. TypeOK'
  BY <1>1, <1>2, <1>3 DEF TypeOK, Phases, Codes
<1>5. Ordered' /\ Targets' = Targets /\ \A k \in 1..Len(targets') : AimedAt(k)'
  BY <1>1, <1>2, Kept, Rigid
<1>6. Aimed'
  BY <1>1, <1>2, <1>3, <1>5 DEF Aimed
<1>7. Written' /\ Open' /\ Fresh'
  BY <1>1 DEF Written, Open, Fresh
<1>8. Searched'
  BY <1>1, <1>3, RigidReads DEF CInv, Searched
<1> QED BY <1>3, <1>4, <1>5, <1>6, <1>7, <1>8 DEF CInv, IInv

LEMMA VisitEmitCovers ==
    ASSUME CInv, VisitEmit
    PROVE  CInv'
<1> DEFINE n == Len(stack)
           l == Len(steps)
           id == <<side, Top.node, Top.out>>
           e == [id |-> id, deps |-> Top.deps, ext |-> Top.ext]
<1>1. /\ phase = "visit" /\ stack # <<>> /\ ~Unresolved
      /\ steps' = Append(steps, e) /\ stack' = Pop
      /\ UNCHANGED <<goal, phase, side, at, writers, closed, targets, diag>>
  BY DEF VisitEmit, Key
<1>2. /\ IInv /\ TypeOK /\ side \in Side /\ steps \in Seq(StepType) /\ l \in Nat
      /\ \A m \in 1..n : OpenAt(side, stack, Ids, m)
      /\ \A k \in 1..Len(targets) : AimedAt(k)
      /\ Len(targets) = at - 1 /\ at <= Len(Targets) + 1
      /\ stack \in Seq(FrameType)
  BY <1>1, VisitFacts DEF TypeOK
<1>3. /\ n \in Nat \ {0} /\ Top = stack[n] /\ Named(id) /\ id \notin Ids
      /\ Len(Nodes(side)[Top.node].ins) \in Nat
      /\ Top.next \in 1..(Len(Nodes(side)[Top.node].ins) + 1)
      /\ Served(side, Top.node, 1..(Top.next - 1), Top.deps, Top.ext)
      /\ Top.deps \subseteq Ids /\ Top.deps \subseteq KeyType /\ Top.ext \subseteq Tid
  BY <1>1, TopIs
<1>4. /\ Pop \in Seq(FrameType) /\ Len(Pop) = n - 1
      /\ \A m \in 1..Len(Pop) : Pop[m] = stack[m] /\ m \in 1..n /\ m # n
  BY <1>1, <1>2, StackIs
<1>5. e \in StepType /\ e.id = id /\ e.deps = Top.deps /\ e.ext = Top.ext
  BY <1>3 DEF StepType, Named
<1>6. Top.next - 1 = Len(Nodes(side)[Top.node].ins)
  <2>1. ~(Top.next <= Len(Nodes(side)[Top.node].ins))
    BY <1>1 DEF Unresolved
  <2> QED BY <1>3, <2>1
<1>7. id[1] = side /\ id[2] = Top.node
  OBVIOUS
<1> HIDE DEF id, e, l
<1>8. /\ steps' \in Seq(StepType) /\ Len(steps') = l + 1 /\ steps'[l + 1] = e
      /\ \A i \in 1..l : steps'[i] = steps[i]
      /\ \A i \in 1..(l + 1) : i = l + 1 \/ i \in 1..l
      /\ \A i \in 1..l : i \in 1..(l + 1)
  BY <1>1, <1>2, <1>5 DEF l
<1>9. Ids' = Ids \cup {id}
  <2>1. Ids' = {steps'[i].id : i \in 1..(l + 1)}
    BY <1>8 DEF Ids
  <2>2. Ids = {steps[i].id : i \in 1..l}
    BY DEF Ids, l
  <2>3. l + 1 \in 1..(l + 1)
    BY <1>2
  <2> QED BY <1>5, <1>8, <2>1, <2>2, <2>3
<1>10. TypeOK'
  BY <1>1, <1>2, <1>4, <1>8 DEF TypeOK
<1>11. Open'
  <2>1. \E i : i = id
    OBVIOUS
  <2>2. ASSUME NEW ids, ids = Ids' PROVE Open'
    <3>1. ASSUME NEW m \in 1..Len(Pop) PROVE OpenAt(side, Pop, ids, m)
      <4>1. n \in Nat \ {0} /\ n \in 1..n
        <5>1. n \in Nat \ {0}
          BY <1>3, Zenon
        <5> QED BY <5>1
      <4>2. Pop[m] = stack[m] /\ m \in 1..n /\ m # n
        BY <1>4, Zenon
      <4>3. OpenAt(side, stack, Ids, m) /\ Pop[m] = stack[m] /\ m < n
        <5>1. OpenAt(side, stack, Ids, m)
          BY <1>2, <4>2, Zenon
        <5> QED BY <4>1, <4>2, <5>1
      <4>4. stack[n].node < stack[m].node
        BY <1>3, <4>3 DEF OpenAt
      <4>5. <<side, stack[m].node, stack[m].out>> # id
        <5>1. stack[m].node # Top.node
          <6>1. \A k \in 1..n : stack[k] \in FrameType
            BY <1>1, <1>2, StackIs
          <6>2. \A k \in 1..n : stack[k].node \in Nat
            BY <6>1 DEF FrameType
          <6>3. n \in 1..n /\ m \in 1..n /\ Top = stack[n]
            BY <1>3, <4>1, <4>2, Zenon
          <6>4. stack[n].node \in Nat /\ stack[m].node \in Nat
            BY <6>2, <6>3, Zenon
          <6> QED BY <4>4, <6>3, <6>4
        <5> QED BY <5>1 DEF id
      <4> QED BY <1>4, <1>9, <2>2, <4>3, <4>5 DEF OpenAt
    <3> QED BY <1>1, <2>2, <3>1, OpenIs
  <2> QED BY <2>2
<1>12. Ordered'
  <2>1. ASSUME NEW i \in 1..(l + 1)
        PROVE  LET d == steps'[i].id
               IN /\ Named(d)
                  /\ Served(d[1], d[2], 1..Len(NodeOf(d).ins), steps'[i].deps, steps'[i].ext)
                  /\ steps'[i].deps \subseteq {steps'[j].id : j \in 1..(i - 1)}
                  /\ \A j \in 1..(i - 1) : steps'[j].id # d
    <3>1. CASE i \in 1..l
      <4>1. /\ Named(steps[i].id)
            /\ Served(steps[i].id[1], steps[i].id[2], 1..Len(NodeOf(steps[i].id).ins),
                      steps[i].deps, steps[i].ext)
            /\ steps[i].deps \subseteq {steps[j].id : j \in 1..(i - 1)}
            /\ \A j \in 1..(i - 1) : steps[j].id # steps[i].id
        BY <1>2, <3>1 DEF IInv, Ordered, l
      <4>2. steps'[i] = steps[i] /\ \A j \in 1..(i - 1) : steps'[j] = steps[j]
        BY <1>2, <1>8, <3>1
      <4>3. {steps'[j].id : j \in 1..(i - 1)} = {steps[j].id : j \in 1..(i - 1)}
        BY <4>2
      <4> QED BY <4>1, <4>2, <4>3
    <3>2. CASE i = l + 1
      <4>1. i - 1 = l
        BY <1>2, <3>2
      <4>2. {steps'[j].id : j \in 1..l} = Ids
        BY <1>8 DEF Ids, l
      <4>3. NodeOf(id) = Nodes(side)[Top.node]
        BY <1>7 DEF NodeOf
      <4>4. Served(id[1], id[2], 1..Len(NodeOf(id).ins), Top.deps, Top.ext)
        BY <1>3, <1>6, <1>7, <4>3
      <4>5. steps'[i].id = id /\ steps'[i].deps = Top.deps /\ steps'[i].ext = Top.ext
        BY <1>5, <1>8, <3>2
      <4>6. \A j \in 1..l : steps'[j].id # id
        BY <1>3, <4>2
      <4> QED BY <1>3, <4>1, <4>2, <4>4, <4>5, <4>6
    <3> QED BY <1>8, <3>1, <3>2
  <2>2. /\ \A d : Named(d)' <=> Named(d)
        /\ \A d : NodeOf(d)' = NodeOf(d)
        /\ \A s, k, K, deps, ext : Served(s, k, K, deps, ext)' <=> Served(s, k, K, deps, ext)
    BY <1>1, Rigid, RigidRelations
  <2> QED BY <1>8, <2>1, <2>2, Zenon DEF Ordered
<1>13. Aimed'
  <2>1. \A k \in 1..Len(targets) : AimedAt(k)'
    BY <1>1, <1>2, <1>9, AimedKept
  <2>2. Targets' = Targets /\ Len(targets) <= Len(Targets)
    BY <1>1, <1>2, Rigid DEF IInv, Aimed
  <2> QED BY <1>1, <1>2, <2>1, <2>2 DEF Aimed
<1>14. Written' /\ Fresh' /\ Searched' /\ diag' # "missing"
  BY <1>1, VisitKept
<1> QED BY <1>10, <1>11, <1>12, <1>13, <1>14 DEF CInv, IInv

LEMMA InitCovers == Init => CInv
<1> SUFFICES ASSUME Init PROVE CInv
  OBVIOUS
<1>1. IInv
  BY InitInv
<1>2. Searched /\ diag # "missing"
  BY DEF Init, Searched
<1> QED BY <1>1, <1>2 DEF CInv

LEMMA StepCovers == CInv /\ [Next]_vars => CInv'
<1> SUFFICES ASSUME CInv, [Next]_vars PROVE CInv'
  OBVIOUS
<1>1. ASSUME UNCHANGED vars PROVE CInv'
  <2>1. UNCHANGED <<goal, phase, side, at, writers, stack, closed, steps, targets, diag>>
    BY <1>1 DEF vars
  <2>2. IInv /\ TypeOK' /\ Fresh'
    BY <2>1 DEF CInv, IInv, TypeOK, Fresh, Nodes
  <2>3. Written'
    BY <2>1, <2>2, IndexedKept, Rigid DEF IInv, Written, Behind
  <2>4. Open'
    <3>1. Ids' = Ids
      BY <2>1 DEF Ids
    <3>2. CASE phase = "visit"
      <4>1. \A m \in 1..Len(stack) : OpenAt(side, stack, Ids, m)
        BY <2>2, <3>2, OpenIs DEF IInv
      <4> QED BY <2>1, <3>1, <4>1, OpenIs
    <3>3. CASE phase # "visit"
      BY <2>1, <3>3 DEF Open
    <3> QED BY <3>2, <3>3
  <2>5. Ordered' /\ Aimed'
    <3>1. /\ phase = "visit" => Len(targets) = at - 1 /\ at <= Len(Targets) + 1
          /\ phase = "done" /\ diag \in {"none", "shape"} => Len(targets) = Len(Targets)
          /\ Targets' = Targets
      BY <2>1, <2>2, Rigid DEF IInv, Aimed
    <3> QED BY <2>1, <2>2, <3>1, Kept DEF Aimed
  <2>6. Searched'
    <3>1. CASE phase = "cycles"
      <4>1. stack \in Seq(FrameType) /\ Searched
        BY <2>2 DEF CInv, IInv, TypeOK
      <4>2. closed \subseteq 1..Len(Nodes(side)) /\ Ranked(side, closed)
        BY <3>1, <4>1 DEF Searched
      <4>3. \A m \in 1..Len(stack) : Trail(side, closed, stack, m)
        BY <3>1, <4>1 DEF Searched
      <4>4. CInv'
        BY <2>1, <3>1, <4>1, <4>2, <4>3, SearchStep
      <4> QED BY <4>4 DEF CInv
    <3>2. CASE phase # "cycles"
      BY <2>1, <3>2, RigidReads DEF CInv, Searched
    <3> QED BY <3>1, <3>2
  <2>7. diag' = "missing" => Unserved'
    BY <2>1, UnservedKept DEF CInv
  <2> QED BY <2>2, <2>3, <2>4, <2>5, <2>6, <2>7 DEF CInv, IInv
<1>2. CASE CheckRelation \/ RefuseRelation \/ CheckRule \/ RefuseRule
           \/ IndexWriter \/ RefuseWriter \/ RefusePieces
  BY <1>2, EarlyCovers
<1>3. CASE CheckPieces
  BY <1>3, PiecesCovers
<1>4. CASE CycleRoot
  BY <1>4, CycleRootCovers
<1>5. CASE CycleInput
  BY <1>5, CycleInputCovers
<1>6. CASE CycleFound
  BY <1>6, CycleFoundCovers
<1>7. CASE CycleLeave
  BY <1>7, CycleLeaveCovers
<1>8. CASE VisitTarget
  BY <1>8, VisitTargetCovers
<1>9. CASE TargetMissing
  BY <1>9, TargetMissingCovers
<1>10. CASE VisitInput
  BY <1>10, VisitInputCovers
<1>11. CASE InputMissing
  BY <1>11, InputMissingCovers
<1>12. CASE VisitEmit
  BY <1>12, VisitEmitCovers
<1>13. CASE Finish
  BY <1>13, FinishCovers
<1>14. CASE Done
  BY <1>1, <1>14 DEF Done
<1> QED BY <1>1, <1>2, <1>3, <1>4, <1>5, <1>6, <1>7, <1>8, <1>9, <1>10, <1>11, <1>12, <1>13, <1>14
        DEF Next

(***************************************************************************)
(* Cycles.                                                                 *)
(***************************************************************************)
\* A set that a number is in if all smaller ones are has all numbers.
LEMMA AllOf ==
    ASSUME NEW n \in Nat, NEW T,
           \A k \in 0..n : (\A m \in 0..n : m < k => m \in T) => k \in T
    PROVE  0..n \subseteq T
<1> DEFINE U == (0..n) \ T
<1> SUFFICES ASSUME U # {} PROVE FALSE
  OBVIOUS
<1>1. U \in SUBSET Nat
  OBVIOUS
<1> HIDE DEF U
<1>2. PICK k \in U : \A m \in U : ~(m < k)
  BY <1>1, Least
<1> QED BY <1>2 DEF U

\* Reached, as a sequence of sets.
Reach(s, i, r, n) ==
    r = [k \in 1..n |-> IF k = 1 THEN Reads(s, i) ELSE r[k - 1] \cup AllReads(s, r[k - 1])]

LEMMA ReachExists ==
    ASSUME NEW s, NEW i, NEW n \in Nat
    PROVE  \E r : Reach(s, i, r, n)
<1> DEFINE T == {k \in 0..n : \E r : Reach(s, i, r, k)}
<1>1. ASSUME NEW k \in 0..n, \A m \in 0..n : m < k => m \in T PROVE k \in T
  <2>1. CASE k = 0
    <3> DEFINE r == [m \in 1..0 |-> {}]
    <3>1. Reach(s, i, r, 0)
      BY DEF Reach
    <3> QED BY <2>1, <3>1
  <2>2. CASE k # 0
    <3>1. k - 1 \in T
      BY <1>1, <2>2
    <3>2. PICK q : Reach(s, i, q, k - 1)
      BY <3>1
    <3>3. \A m \in 1..(k - 1) : q[m] = IF m = 1 THEN Reads(s, i)
                                       ELSE q[m - 1] \cup AllReads(s, q[m - 1])
      BY <3>2, Zenon DEF Reach
    <3> DEFINE r == [m \in 1..k |-> IF m = k
                       THEN IF m = 1 THEN Reads(s, i) ELSE q[m - 1] \cup AllReads(s, q[m - 1])
                       ELSE q[m]]
               Next2(m) == IF m = 1 THEN Reads(s, i) ELSE r[m - 1] \cup AllReads(s, r[m - 1])
    <3>4. \A m \in 1..k : m # 1 => r[m - 1] = q[m - 1]
      OBVIOUS
    <3>5. \A m \in 1..k : r[m] = Next2(m)
      <4> SUFFICES ASSUME NEW m \in 1..k PROVE r[m] = Next2(m)
        OBVIOUS
      <4>1. CASE m = k
        BY <3>4, <4>1
      <4>2. CASE m # k
        <5>1. m \in 1..(k - 1) /\ r[m] = q[m]
          BY <4>2
        <5> HIDE DEF r
        <5> QED BY <3>3, <3>4, <5>1
      <4> QED BY <4>1, <4>2
    <3>6. r = [m \in 1..k |-> r[m]]
      OBVIOUS
    <3> HIDE DEF r
    <3>7. Reach(s, i, r, k)
      BY <3>5, <3>6 DEF Reach
    <3> QED BY <3>7
  <2> QED BY <2>1, <2>2
<1> HIDE DEF T
<1>2. 0..n \subseteq T
  BY <1>1, AllOf
<1> QED BY <1>2 DEF T

LEMMA ReachSteps ==
    ASSUME NEW s, NEW i, NEW n \in Nat, NEW r, Reach(s, i, r, n)
    PROVE  /\ n # 0 => r[1] = Reads(s, i)
           /\ \A m \in 1..n : m # 1 => r[m] = r[m - 1] \cup AllReads(s, r[m - 1])
<1>1. \A m \in 1..n : r[m] = IF m = 1 THEN Reads(s, i) ELSE r[m - 1] \cup AllReads(s, r[m - 1])
  BY Zenon DEF Reach
<1>2. n # 0 => 1 \in 1..n
  OBVIOUS
<1>3. n # 0 => r[1] = Reads(s, i)
  BY <1>1, <1>2
<1>4. ASSUME NEW m \in 1..n, m # 1 PROVE r[m] = r[m - 1] \cup AllReads(s, r[m - 1])
  BY <1>1, <1>4, Zenon
<1> QED BY <1>3, <1>4

LEMMA ReachedIs ==
    ASSUME NEW s, NEW i, Len(Nodes(s)) \in Nat
    PROVE  \E r : Reached(s, i) = r /\ Reach(s, i, r, Len(Nodes(s)))
<1> DEFINE r == CHOOSE r : Reach(s, i, r, Len(Nodes(s)))
<1>1. Reach(s, i, r, Len(Nodes(s)))
  BY ReachExists
<1>2. Reached(s, i) = r
  BY Zenon DEF Reached, Reach
<1> QED BY <1>1, <1>2

LEMMA LoopedIsCyclic ==
    ASSUME TypeOK, NEW s \in Side, Looped(s)
    PROVE  Cyclic
<1> DEFINE n == Len(Nodes(s))
<1>1. n \in Nat
  BY NodesAre
<1>2. PICK k \in 1..n : \E p \in [0..k -> 1..n] :
                          p[0] = p[k] /\ \A m \in 0..(k - 1) : p[m + 1] \in Reads(s, p[m])
  BY DEF Looped
<1>3. PICK p \in [0..k -> 1..n] : p[0] = p[k] /\ \A m \in 0..(k - 1) : p[m + 1] \in Reads(s, p[m])
  BY <1>2
<1> DEFINE i == p[0]
<1>4. PICK r : Reached(s, i) = r /\ Reach(s, i, r, n)
  BY <1>1, ReachedIs
<1>5. /\ n # 0 => r[1] = Reads(s, i)
      /\ \A m \in 1..n : m # 1 => r[m] = r[m - 1] \cup AllReads(s, r[m - 1])
  BY <1>1, <1>4, ReachSteps
<1>6. i \in 1..n
  BY <1>1, <1>3
<1> HIDE DEF i
\* On the way, then at its end.
<1> DEFINE T == {m \in 0..n : m # 0 => IF m <= k THEN p[m] \in r[m] ELSE i \in r[m]}
<1>7. ASSUME NEW m \in 0..n, \A l \in 0..n : l < m => l \in T PROVE m \in T
  <2>1. CASE m = 0
    BY <2>1
  <2>2. CASE m = 1
    <3>1. p[0 + 1] \in Reads(s, p[0]) /\ 0 + 1 = 1 /\ 1 <= k
      BY <1>1, <1>2, <1>3
    <3> QED BY <1>5, <2>2, <3>1 DEF i
  <2>3. CASE m > 1
    <3>1. m - 1 \in T /\ m - 1 # 0 /\ m \in 1..n
      BY <1>1, <1>7, <2>3
    <3>2. r[m] = r[m - 1] \cup AllReads(s, r[m - 1])
      BY <1>5, <2>3, <3>1
    <3>3. CASE m <= k
      <4>1. p[m - 1] \in r[m - 1]
        BY <1>1, <3>1, <3>3
      <4>2. p[(m - 1) + 1] \in Reads(s, p[m - 1]) /\ (m - 1) + 1 = m
        BY <1>1, <1>2, <1>3, <2>3, <3>3
      <4> QED BY <3>2, <3>3, <4>1, <4>2 DEF AllReads
    <3>4. CASE ~(m <= k)
      <4>1. i \in r[m - 1]
        <5>1. CASE m - 1 <= k
          <6>1. m - 1 = k
            BY <1>1, <1>2, <3>4, <5>1
          <6> QED BY <1>3, <3>1, <5>1, <6>1 DEF i
        <5>2. CASE ~(m - 1 <= k)
          BY <3>1, <5>2
        <5> QED BY <5>1, <5>2
      <4> QED BY <3>2, <3>4, <4>1
    <3> QED BY <3>3, <3>4
  <2> QED BY <1>1, <2>1, <2>2, <2>3
<1> HIDE DEF T
<1>8. 0..n \subseteq T
  BY <1>1, <1>7, AllOf
<1>9. n \in T /\ n # 0
  BY <1>1, <1>2, <1>8
<1>10. i \in r[n]
  BY <1>1, <1>2, <1>3, <1>9 DEF T, i
<1> QED BY <1>4, <1>6, <1>10 DEF Cyclic

\* Along reads the rank goes down.
LEMMA AcyclicIsNotCyclic ==
    ASSUME TypeOK, Acyclic("sm"), Acyclic("pm")
    PROVE  ~Cyclic
<1> SUFFICES ASSUME Cyclic PROVE FALSE
  OBVIOUS
<1>1. PICK s \in Side : \E i \in 1..Len(Nodes(s)) : i \in Reached(s, i)[Len(Nodes(s))]
  BY DEF Cyclic
<1> DEFINE n == Len(Nodes(s))
<1>2. PICK i \in 1..n : i \in Reached(s, i)[n]
  BY <1>1
<1>3. n \in Nat /\ Ranked(s, 1..n)
  BY NodesAre DEF Acyclic, Side
<1>4. PICK b \in Nat : \E f \in [1..n -> 0..b] :
                          \A j \in 1..n : \A h \in Reads(s, j) : h \in 1..n /\ f[h] < f[j]
  BY <1>3 DEF Ranked
<1>5. PICK f \in [1..n -> 0..b] : \A j \in 1..n : \A h \in Reads(s, j) : h \in 1..n /\ f[h] < f[j]
  BY <1>4
<1>6. PICK r : Reached(s, i) = r /\ Reach(s, i, r, n)
  BY <1>3, ReachedIs
<1>7. /\ n # 0 => r[1] = Reads(s, i)
      /\ \A m \in 1..n : m # 1 => r[m] = r[m - 1] \cup AllReads(s, r[m - 1])
  BY <1>3, <1>6, ReachSteps
<1> DEFINE T == {m \in 0..n : m # 0 => \A h \in r[m] : h \in 1..n /\ f[h] < f[i]}
<1>8. ASSUME NEW m \in 0..n, \A l \in 0..n : l < m => l \in T PROVE m \in T
  <2>1. CASE m = 0
    BY <2>1
  <2>2. CASE m = 1
    <3>1. r[1] = Reads(s, i) /\ \A h \in Reads(s, i) : h \in 1..n /\ f[h] < f[i]
      BY <1>2, <1>3, <1>5, <1>7
    <3> QED BY <2>2, <3>1
  <2>3. CASE m > 1
    <3>1. m - 1 \in T /\ m - 1 # 0 /\ m \in 1..n
      BY <1>3, <1>8, <2>3
    <3>2. r[m] = r[m - 1] \cup AllReads(s, r[m - 1])
      BY <1>7, <2>3, <3>1
    <3>3. ASSUME NEW h \in r[m] PROVE h \in 1..n /\ f[h] < f[i]
      <4>1. CASE h \in r[m - 1]
        BY <3>1, <4>1
      <4>2. CASE h \in AllReads(s, r[m - 1])
        <5>1. PICK j \in r[m - 1] : h \in Reads(s, j)
          BY <4>2 DEF AllReads
        <5>2. j \in 1..n /\ f[j] < f[i] /\ h \in 1..n /\ f[h] < f[j]
          BY <1>5, <3>1, <5>1
        <5>3. f[h] \in Nat /\ f[j] \in Nat /\ f[i] \in Nat
          BY <1>5, <5>2
        <5> QED BY <5>2, <5>3
      <4> QED BY <3>2, <4>1, <4>2
    <3> QED BY <3>3
  <2> QED BY <1>3, <2>1, <2>2, <2>3
<1> HIDE DEF T
<1>9. 0..n \subseteq T
  BY <1>3, <1>8, AllOf
<1>10. n \in T /\ n # 0
  BY <1>2, <1>3, <1>9
<1>11. f[i] < f[i] /\ f[i] \in Nat
  BY <1>2, <1>5, <1>6, <1>10 DEF T
<1> QED BY <1>11

(***************************************************************************)
(* What the steps stand for.                                               *)
(***************************************************************************)
Fold(s, e, n) == e = [i \in 0..n |-> IF i = 0 THEN Inputs ELSE After(Nodes(s)[i], e[i - 1])]

LEMMA FoldSteps ==
    ASSUME NEW s, NEW e, NEW n \in Nat, Fold(s, e, n)
    PROVE  e[0] = Inputs /\ \A i \in 1..n : e[i] = After(Nodes(s)[i], e[i - 1])
<1>1. \A i \in 0..n : e[i] = IF i = 0 THEN Inputs ELSE After(Nodes(s)[i], e[i - 1])
  BY Zenon DEF Fold
<1>2. 0 \in 0..n /\ \A i \in 1..n : i \in 0..n /\ i # 0
  OBVIOUS
<1>3. ASSUME NEW i \in 1..n PROVE e[i] = After(Nodes(s)[i], e[i - 1])
  BY <1>1, <1>2, <1>3, Zenon
<1> QED BY <1>1, <1>2, <1>3

LEMMA FoldExists ==
    ASSUME NEW s, NEW n \in Nat
    PROVE  \E e : Fold(s, e, n)
<1> DEFINE T == {k \in 0..n : \E e : Fold(s, e, k)}
<1>1. ASSUME NEW k \in 0..n, \A m \in 0..n : m < k => m \in T PROVE k \in T
  <2>1. CASE k = 0
    <3> DEFINE e == [m \in 0..0 |-> Inputs]
    <3>1. Fold(s, e, 0)
      BY DEF Fold
    <3> QED BY <2>1, <3>1
  <2>2. CASE k # 0
    <3>1. k - 1 \in T /\ k - 1 \in Nat
      BY <1>1, <2>2
    <3>2. PICK q : Fold(s, q, k - 1)
      BY <3>1
    <3>3. q[0] = Inputs /\ \A m \in 1..(k - 1) : q[m] = After(Nodes(s)[m], q[m - 1])
      BY <3>1, <3>2, FoldSteps
    <3> DEFINE e == [m \in 0..k |-> IF m = k THEN After(Nodes(s)[k], q[k - 1]) ELSE q[m]]
               Value(m) == IF m = 0 THEN Inputs ELSE After(Nodes(s)[m], e[m - 1])
    <3>4. /\ \A m \in 0..k : m # k => e[m] = q[m]
          /\ e[k] = After(Nodes(s)[k], q[k - 1])
      OBVIOUS
    <3>5. e = [m \in 0..k |-> e[m]]
      OBVIOUS
    <3> HIDE DEF e
    <3>6. \A m \in 0..k : e[m] = Value(m)
      <4> SUFFICES ASSUME NEW m \in 0..k PROVE e[m] = Value(m)
        OBVIOUS
      <4>1. CASE m = k
        <5>1. e[k - 1] = q[k - 1]
          BY <2>2, <3>4
        <5> QED BY <2>2, <3>4, <4>1, <5>1
      <4>2. CASE m = 0
        BY <2>2, <3>3, <3>4, <4>2
      <4>3. CASE m # k /\ m # 0
        <5>1. m \in 1..(k - 1) /\ e[m] = q[m] /\ e[m - 1] = q[m - 1]
          BY <3>4, <4>3
        <5> QED BY <3>3, <4>3, <5>1
      <4> QED BY <4>1, <4>2, <4>3
    <3>7. Fold(s, e, k)
      BY <3>5, <3>6 DEF Fold
    <3> QED BY <3>7
  <2> QED BY <2>1, <2>2
<1> HIDE DEF T
<1>2. 0..n \subseteq T
  BY <1>1, AllOf
<1> QED BY <1>2 DEF T

LEMMA EnvIs ==
    ASSUME NEW s, NEW n \in Nat, n = Len(Nodes(s))
    PROVE  Env(s)[0] = Inputs /\ \A i \in 1..n : Env(s)[i] = After(Nodes(s)[i], Env(s)[i - 1])
<1> DEFINE e == CHOOSE e : Fold(s, e, Len(Nodes(s)))
<1>1. Fold(s, e, Len(Nodes(s)))
  BY FoldExists
<1>2. Env(s) = e
  BY Zenon DEF Env, Fold
<1> HIDE DEF e
<1> QED BY <1>1, <1>2, FoldSteps

\* A tensor keeps its value until the next node that writes it.
LEMMA ValueKept ==
    ASSUME TypeOK, NEW s \in Side, NEW t \in Tid, NEW n \in Nat, n = Len(Nodes(s)),
           NEW b \in 0..n, NEW c \in 0..n, b <= c,
           \A k \in (b + 1)..c : ~Writes(s, k, t)
    PROVE  Env(s)[c][t] = Env(s)[b][t]
<1> DEFINE e == Env(s)
           T == {k \in 0..c : k >= b => e[k][t] = e[b][t]}
<1>1. \A i \in 1..n : e[i] = After(Nodes(s)[i], e[i - 1])
  BY EnvIs
<1> HIDE DEF e
<1>2. ASSUME NEW k \in 0..c, \A m \in 0..c : m < k => m \in T PROVE k \in T
  <2>1. CASE k <= b
    BY <2>1
  <2>2. CASE k > b
    <3>1. k - 1 \in T /\ k - 1 >= b /\ k \in 1..n /\ k \in (b + 1)..c
      BY <1>2, <2>2
    <3>2. e[k] = After(Nodes(s)[k], e[k - 1]) /\ ~Writes(s, k, t)
      BY <1>1, <3>1
    <3>3. e[k][t] = e[k - 1][t]
      BY <3>2 DEF After, Writes
    <3> QED BY <3>1, <3>3
  <2> QED BY <2>1, <2>2
<1>3. c \in Nat
  OBVIOUS
<1> HIDE DEF T
<1>4. 0..c \subseteq T
  BY <1>2, <1>3, AllOf
<1>5. c \in T
  BY <1>3, <1>4
<1> QED BY <1>5 DEF T, e

\* The value of an output after its node.
LEMMA ValueWritten ==
    ASSUME TypeOK, NEW s \in Side, NEW t \in Tid, NEW i \in 1..Len(Nodes(s)), Writes(s, i, t)
    PROVE  LET n == Nodes(s)[i]
           IN Env(s)[i][t] = <<n.op, IF Rule[n.op].sensitive THEN n.rank ELSE 0, Slot(s, i, t),
                               [k \in 1..Len(n.ins) |-> Env(s)[i - 1][n.ins[k]]]>>
<1>1. Len(Nodes(s)) \in Nat
  BY NodesAre
<1>2. Env(s)[i] = After(Nodes(s)[i], Env(s)[i - 1])
  BY <1>1, EnvIs
<1> QED BY <1>2 DEF After, Writes, Slot

LEMMA LatestIsOne ==
    ASSUME NEW s, NEW t, NEW n \in Nat, NEW i, NEW j, Latest(s, t, n, i), Latest(s, t, n, j)
    PROVE  i = j
<1>1. i \in 1..(n - 1) /\ j \in 1..(n - 1) /\ Writes(s, i, t) /\ Writes(s, j, t)
  BY DEF Latest
<1>2. ~(i < j)
  BY <1>1 DEF Latest
<1>3. ~(j < i)
  BY <1>1 DEF Latest
<1> QED BY <1>1, <1>2, <1>3

LEMMA OutputIs ==
    ASSUME NEW s, NEW j, NEW t, Writes(s, j, t)
    PROVE  Output(<<s, j, Slot(s, j, t)>>) = t
<1> DEFINE id == <<s, j, Slot(s, j, t)>>
<1>1. id[1] = s /\ id[2] = j /\ id[3] = Slot(s, j, t)
  OBVIOUS
<1> HIDE DEF id
<1>2. Output(id) = Nodes(s)[j].outs[Slot(s, j, t)]
  BY <1>1 DEF Output, NodeOf
<1> QED BY <1>2, SlotHolds DEF id

\* The facts about step i.
LEMMA StepIs ==
    ASSUME IInv, NEW i \in 1..Len(steps), NEW id, id = steps[i].id, NEW s, s = id[1], NEW n, n = id[2]
    PROVE  /\ TypeOK /\ Len(steps) \in Nat /\ s \in Side /\ n \in 1..Len(Nodes(s)) /\ n \in Nat
           /\ NodeOf(id) = Nodes(s)[n] /\ Nodes(s)[n].ins \in Seq(Tid)
           /\ Len(Nodes(s)) \in Nat
           /\ id[3] = Slot(s, n, Output(id)) /\ Writes(s, n, Output(id)) /\ Output(id) \in Tid
           /\ Served(s, n, 1..Len(Nodes(s)[n].ins), steps[i].deps, steps[i].ext)
           /\ steps[i].deps \subseteq {steps[j].id : j \in 1..(i - 1)}
           /\ steps[i].ext \subseteq goal.inits[s]
<1>1. TypeOK /\ Len(steps) \in Nat
  BY DEF IInv, TypeOK
<1>2. /\ Named(id)
      /\ Served(s, n, 1..Len(NodeOf(id).ins), steps[i].deps, steps[i].ext)
      /\ steps[i].deps \subseteq {steps[j].id : j \in 1..(i - 1)}
  BY DEF IInv, Ordered
<1>3. s \in Side /\ n \in 1..Len(Nodes(s)) /\ NodeOf(id) = Nodes(s)[n]
  BY <1>2 DEF Named, KeyType, NodeOf
<1>4. /\ Nodes(s)[n].ins \in Seq(Tid) /\ Nodes(s)[n].outs \in Seq(Tid)
      /\ Len(Nodes(s)) \in Nat
  BY <1>1, <1>3, NodesAre
<1>5. id[3] \in 1..Len(Nodes(s)[n].outs) /\ id[3] = Slot(s, n, Output(id))
  BY <1>2, <1>3 DEF Named
<1>6. Output(id) = Nodes(s)[n].outs[id[3]]
  BY <1>3 DEF Output
<1>7. Writes(s, n, Output(id)) /\ Output(id) \in Tid
  <2> DEFINE outs == Nodes(s)[n].outs
             o == id[3]
  <2>1. outs \in Seq(Tid) /\ o \in 1..Len(outs)
    BY <1>4, <1>5
  <2> HIDE DEF outs, o
  <2>2. outs[o] \in Tid /\ outs[o] \in Elements(outs)
    BY <2>1 DEF Elements
  <2>3. Output(id) = outs[o]
    BY <1>6 DEF outs, o
  <2>4. Output(id) \in Elements(Nodes(s)[n].outs)
    BY <2>2, <2>3, Zenon DEF outs
  <2> QED BY <2>2, <2>3, <2>4, Zenon DEF Writes
<1>8. steps[i].ext \subseteq goal.inits[s]
  BY <1>2 DEF Served
<1>9. n \in Nat
  BY <1>3, <1>4
<1>10. Served(s, n, 1..Len(Nodes(s)[n].ins), steps[i].deps, steps[i].ext)
  BY <1>2, <1>3, Zenon
<1> QED BY <1>1, <1>2, <1>3, <1>4, <1>5, <1>7, <1>8, <1>9, <1>10, Zenon

\* The one step that step i reads t from is that of its last writer before node n.
SourceOf(i, s, n, t) ==
    \E l \in 1..(i - 1) : \E j \in 1..(n - 1) :
       /\ Latest(s, t, n, j) /\ steps[l].id = <<s, j, Slot(s, j, t)>>
       /\ Sources(i, t) = {l}

LEMMA SourceIs ==
    ASSUME IInv, NEW i \in 1..Len(steps), NEW s, s = steps[i].id[1], NEW n, n = steps[i].id[2],
           NEW t \in Elements(Nodes(s)[n].ins), t \notin steps[i].ext
    PROVE  SourceOf(i, s, n, t)
<1> DEFINE ins == Nodes(s)[n].ins
           ids == {steps[j].id : j \in 1..(i - 1)}
<1>0. PICK k \in 1..Len(ins) : t = ins[k]
  BY DEF Elements
<1>1. /\ Len(steps) \in Nat /\ n \in Nat
      /\ Served(s, n, 1..Len(ins), steps[i].deps, steps[i].ext)
      /\ steps[i].deps \subseteq ids
  BY StepIs
<1>2. PICK d \in steps[i].deps : \E j \in 1..(n - 1) : Latest(s, t, n, j) /\ d = <<s, j, Slot(s, j, t)>>
  <2>1. \A h \in 1..Len(ins) :
          \/ Unwritten(s, ins[h], n) /\ ins[h] \in steps[i].ext
          \/ \E d \in steps[i].deps : \E j \in 1..(n - 1) :
               Latest(s, ins[h], n, j) /\ d = <<s, j, Slot(s, j, ins[h])>>
    BY <1>1, Zenon DEF Served
  <2> QED BY <1>0, <2>1
<1>3. PICK j \in 1..(n - 1) : Latest(s, t, n, j) /\ d = <<s, j, Slot(s, j, t)>>
  BY <1>2
<1>4. PICK l \in 1..(i - 1) : steps[l].id = d
  BY <1>1
<1>5. ASSUME NEW m \in 1..(i - 1)
      PROVE  steps[m].id \in steps[i].deps /\ Output(steps[m].id) = t <=> m = l
  <2>1. ASSUME m = l PROVE steps[m].id \in steps[i].deps /\ Output(steps[m].id) = t
    <3>1. Output(<<s, j, Slot(s, j, t)>>) = t
      BY <1>3, OutputIs DEF Latest
    <3> QED BY <1>3, <1>4, <2>1, <3>1
  <2>2. ASSUME steps[m].id \in steps[i].deps, Output(steps[m].id) = t PROVE m = l
    <3> DEFINE c == steps[m].id
    <3>1. PICK h \in 1..Len(ins) : \E j2 \in 1..(n - 1) : /\ Latest(s, ins[h], n, j2)
                                                          /\ c = <<s, j2, Slot(s, j2, ins[h])>>
      BY <1>1, <2>2 DEF Served
    <3>2. PICK j2 \in 1..(n - 1) : Latest(s, ins[h], n, j2) /\ c = <<s, j2, Slot(s, j2, ins[h])>>
      BY <3>1
    <3>3. Output(c) = ins[h]
      <4>1. Writes(s, j2, ins[h])
        BY <3>2 DEF Latest
      <4>2. Output(<<s, j2, Slot(s, j2, ins[h])>>) = ins[h]
        BY <4>1, OutputIs
      <4> QED BY <3>2, <4>2
    <3>4. ins[h] = t /\ c = <<s, j2, Slot(s, j2, t)>>
      BY <2>2, <3>2, <3>3
    <3>5. j2 = j
      BY <1>1, <1>3, <3>2, <3>4, LatestIsOne
    <3>6. steps[m].id = steps[l].id
      BY <1>3, <1>4, <3>4, <3>5
    <3>7. \A a, b \in 1..Len(steps) : b < a => steps[b].id # steps[a].id
      <4> SUFFICES ASSUME NEW a \in 1..Len(steps), NEW b \in 1..Len(steps), b < a
                   PROVE  steps[b].id # steps[a].id
        OBVIOUS
      <4>1. b \in 1..(a - 1)
        BY <1>1
      <4> QED BY <4>1 DEF IInv, Ordered
    <3>8. m \in 1..Len(steps) /\ l \in 1..Len(steps)
      BY <1>1
    <3>9. m < l \/ l < m \/ m = l
      BY <1>1
    <3> QED BY <3>6, <3>7, <3>8, <3>9, Zenon
  <2> QED BY <2>1, <2>2
<1>6. Sources(i, t) = {l}
  BY <1>5 DEF Sources
<1> QED BY <1>3, <1>4, <1>6 DEF SourceOf

(***************************************************************************)
(* Denoted, as a function of the steps so far.                             *)
(***************************************************************************)
Term(d, i) ==
    LET n == NodeOf(steps[i].id)
    IN <<n.op, IF Rule[n.op].sensitive THEN n.rank ELSE 0, steps[i].id[3],
         [k \in 1..Len(n.ins) |->
            IF n.ins[k] \in steps[i].ext THEN <<"input", 0, n.ins[k], <<>>>>
            ELSE d[CHOOSE j \in Sources(i, n.ins[k]) : TRUE]]>>
Stands(d, n) == d = [i \in 1..n |-> Term(d, i)]

\* A step only looks at those before it.
LEMMA TermLooksBack ==
    ASSUME IInv, NEW i \in 1..Len(steps), NEW d, NEW e, \A j \in 1..(i - 1) : d[j] = e[j]
    PROVE  Term(d, i) = Term(e, i)
<1> DEFINE id == steps[i].id
           n == NodeOf(id)
           In(f, k) == IF n.ins[k] \in steps[i].ext THEN <<"input", 0, n.ins[k], <<>>>>
                       ELSE f[CHOOSE j \in Sources(i, n.ins[k]) : TRUE]
<1>1. n = Nodes(id[1])[id[2]]
  BY DEF NodeOf
<1>2. ASSUME NEW k \in 1..Len(n.ins) PROVE In(d, k) = In(e, k)
  <2>1. CASE n.ins[k] \in steps[i].ext
    BY <2>1
  <2>2. CASE n.ins[k] \notin steps[i].ext
    <3>1. PICK l \in 1..(i - 1) : Sources(i, n.ins[k]) = {l}
      <4>1. PICK s, h, t : s = id[1] /\ h = id[2] /\ t = n.ins[k]
        OBVIOUS
      <4>2. n = Nodes(s)[h]
        BY <1>1, <4>1
      <4> HIDE DEF n
      <4>3. t \in Elements(Nodes(s)[h].ins) /\ t \notin steps[i].ext
        BY <2>2, <4>1, <4>2 DEF Elements
      <4>4. \E l \in 1..(i - 1) : Sources(i, t) = {l}
        <5>1. s = steps[i].id[1] /\ h = steps[i].id[2]
          BY <4>1
        <5>2. SourceOf(i, s, h, t)
          BY <4>3, <5>1, SourceIs
        <5> QED BY <5>2 DEF SourceOf
      <4> QED BY <4>1, <4>4
    <3>2. (CHOOSE j \in Sources(i, n.ins[k]) : TRUE) = l
      BY <3>1
    <3> QED BY <2>2, <3>2
  <2> QED BY <2>1, <2>2
<1>3. [k \in 1..Len(n.ins) |-> In(d, k)] = [k \in 1..Len(n.ins) |-> In(e, k)]
  BY <1>2
<1> QED BY <1>3 DEF Term

LEMMA StandsExists ==
    ASSUME IInv
    PROVE  \E d : Stands(d, Len(steps))
<1> DEFINE n == Len(steps)
           T == {k \in 0..n : \E d : Stands(d, k)}
<1>1. n \in Nat
  BY DEF IInv, TypeOK
<1>2. ASSUME NEW k \in 0..n, \A m \in 0..n : m < k => m \in T PROVE k \in T
  <2>1. CASE k = 0
    <3> DEFINE d == [m \in 1..0 |-> 0]
    <3>1. Stands(d, 0)
      BY DEF Stands
    <3> QED BY <2>1, <3>1
  <2>2. CASE k # 0
    <3>1. k - 1 \in T /\ k - 1 \in Nat
      BY <1>1, <1>2, <2>2
    <3>2. PICK q : Stands(q, k - 1)
      BY <3>1
    <3>3. \A m \in 1..(k - 1) : q[m] = Term(q, m)
      BY <3>2, Zenon DEF Stands
    <3> DEFINE d == [m \in 1..k |-> IF m = k THEN Term(q, k) ELSE q[m]]
    <3>4. /\ \A m \in 1..(k - 1) : d[m] = q[m]
          /\ d[k] = Term(q, k) /\ d = [m \in 1..k |-> d[m]]
      BY <1>1, <2>2
    <3> HIDE DEF d
    <3>5. ASSUME NEW m \in 1..k PROVE d[m] = Term(d, m)
      <4>0. \A j \in 1..(m - 1) : j \in 1..(k - 1)
        BY <1>1
      <4>1. \A j \in 1..(m - 1) : d[j] = q[j]
        BY <3>4, <4>0
      <4>2. m \in 1..Len(steps)
        BY <1>1
      <4>3. Term(d, m) = Term(q, m)
        BY <4>1, <4>2, TermLooksBack
      <4>4. m = k \/ m \in 1..(k - 1)
        BY <1>1
      <4> QED BY <3>3, <3>4, <4>3, <4>4
    <3>6. Stands(d, k)
      <4>1. [m \in 1..k |-> d[m]] = [m \in 1..k |-> Term(d, m)]
        BY <3>5
      <4> QED BY <3>4, <4>1, Zenon DEF Stands
    <3> QED BY <3>6
  <2> QED BY <2>1, <2>2
<1> HIDE DEF T
<1>3. 0..n \subseteq T
  BY <1>1, <1>2, AllOf
<1> QED BY <1>1, <1>3 DEF T

LEMMA DenotedIs ==
    ASSUME IInv
    PROVE  \A i \in 1..Len(steps) : Denoted[i] = Term(Denoted, i)
<1> DEFINE d == CHOOSE d : Stands(d, Len(steps))
<1>1. Stands(d, Len(steps))
  BY StandsExists
<1>2. Denoted = d
  BY Zenon DEF Denoted, Stands, Term
<1> HIDE DEF d
<1> QED BY <1>1, <1>2, Zenon DEF Stands

\* Step i stands for the value of its tensor after its node.
Meant(i) == LET id == steps[i].id IN Denoted[i] = Env(id[1])[id[2]][Output(id)]

LEMMA StepMeans ==
    ASSUME IInv, NEW i \in 1..Len(steps), \A l \in 1..(i - 1) : Meant(l)
    PROVE  Meant(i)
<1> DEFINE id == steps[i].id
<1>1. PICK s, n, t : s = id[1] /\ n = id[2] /\ t = Output(id)
  OBVIOUS
<1> DEFINE m == NodeOf(id)
           Value(k) == IF m.ins[k] \in steps[i].ext THEN <<"input", 0, m.ins[k], <<>>>>
                       ELSE Denoted[CHOOSE j \in Sources(i, m.ins[k]) : TRUE]
<1>2. /\ TypeOK /\ Len(steps) \in Nat /\ s \in Side /\ n \in 1..Len(Nodes(s)) /\ n \in Nat
      /\ m = Nodes(s)[n] /\ m.ins \in Seq(Tid) /\ Len(Nodes(s)) \in Nat
      /\ id[3] = Slot(s, n, t) /\ Writes(s, n, t) /\ t \in Tid
      /\ Served(s, n, 1..Len(m.ins), steps[i].deps, steps[i].ext)
  BY <1>1, StepIs
<1>3. /\ n - 1 \in 0..Len(Nodes(s)) /\ n - 1 \in Nat /\ 0 \in 0..Len(Nodes(s))
  BY <1>2
<1>4. \A x \in steps[i].ext : Unwritten(s, x, n)
  BY <1>2, Zenon DEF Served
<1>5. ASSUME NEW k \in 1..Len(m.ins) PROVE Value(k) = Env(s)[n - 1][m.ins[k]]
  <2>1. PICK x \in Tid : x = m.ins[k]
    BY <1>2
  <2>2. CASE x \in steps[i].ext
    <3>1. \A h \in (0 + 1)..(n - 1) : ~Writes(s, h, x)
      BY <1>4, <2>2 DEF Unwritten
    <3>2. Env(s)[n - 1][x] = Env(s)[0][x]
      BY <1>2, <1>3, <3>1, ValueKept
    <3>3. Env(s)[0][x] = <<"input", 0, x, <<>>>>
      <4>1. Env(s)[0] = Inputs
        BY <1>2, EnvIs
      <4> QED BY <4>1 DEF Inputs
    <3> QED BY <2>1, <2>2, <3>2, <3>3
  <2>3. CASE x \notin steps[i].ext
    <3>1. SourceOf(i, s, n, x)
      <4>1. x \in Elements(Nodes(s)[n].ins)
        BY <1>2, <2>1 DEF Elements
      <4> QED BY <1>1, <2>3, <4>1, SourceIs
    <3>2. PICK l \in 1..(i - 1) : \E j \in 1..(n - 1) :
             /\ Latest(s, x, n, j) /\ steps[l].id = <<s, j, Slot(s, j, x)>>
             /\ Sources(i, x) = {l}
      BY <3>1 DEF SourceOf
    <3>3. PICK j \in 1..(n - 1) : /\ Latest(s, x, n, j) /\ steps[l].id = <<s, j, Slot(s, j, x)>>
                                  /\ Sources(i, x) = {l}
      BY <3>2
    <3>4. (CHOOSE h \in Sources(i, x) : TRUE) = l
      BY <3>3
    <3>5. Denoted[l] = Env(s)[j][x]
      <4> DEFINE c == steps[l].id
      <4>1. Output(<<s, j, Slot(s, j, x)>>) = x
        BY <3>3, OutputIs DEF Latest
      <4>2. c[1] = s /\ c[2] = j /\ Output(c) = x
        BY <3>3, <4>1
      <4>3. Denoted[l] = Env(c[1])[c[2]][Output(c)]
        BY DEF Meant
      <4> HIDE DEF c
      <4> QED BY <4>2, <4>3
    <3>6. Env(s)[n - 1][x] = Env(s)[j][x]
      <4>1. j \in 0..Len(Nodes(s)) /\ j <= n - 1
        BY <1>2
      <4>2. \A h \in (j + 1)..(n - 1) : ~Writes(s, h, x)
        BY <3>3 DEF Latest
      <4> QED BY <1>2, <1>3, <4>1, <4>2, ValueKept
    <3> QED BY <2>1, <2>3, <3>4, <3>5, <3>6
  <2> QED BY <2>2, <2>3
<1>6. [k \in 1..Len(m.ins) |-> Value(k)] = [k \in 1..Len(m.ins) |-> Env(s)[n - 1][m.ins[k]]]
  BY <1>5
<1>7. Denoted[i] = <<m.op, IF Rule[m.op].sensitive THEN m.rank ELSE 0, id[3],
                     [k \in 1..Len(m.ins) |-> Value(k)]>>
  <2>1. Denoted[i] = Term(Denoted, i)
    BY DenotedIs
  <2> QED BY <2>1, Zenon DEF Term
<1>8. Env(s)[n][t] = <<m.op, IF Rule[m.op].sensitive THEN m.rank ELSE 0, Slot(s, n, t),
                       [k \in 1..Len(m.ins) |-> Env(s)[n - 1][m.ins[k]]]>>
  BY <1>2, ValueWritten
<1> HIDE DEF m, Value
<1>9. Denoted[i] = Env(s)[n][t]
  BY <1>2, <1>6, <1>7, <1>8
<1> QED BY <1>1, <1>9 DEF Meant

LEMMA StepsMean ==
    ASSUME IInv
    PROVE  \A i \in 1..Len(steps) : Meant(i)
<1> DEFINE n == Len(steps)
           T == {i \in 0..n : i # 0 => Meant(i)}
<1>1. n \in Nat
  BY DEF IInv, TypeOK
<1>2. ASSUME NEW k \in 0..n, \A m \in 0..n : m < k => m \in T PROVE k \in T
  <2>1. ASSUME k # 0 PROVE Meant(k)
    <3>1. \A l \in 1..(k - 1) : l \in 0..n /\ l < k /\ l # 0
      BY <1>1
    <3>2. \A l \in 1..(k - 1) : Meant(l)
      BY <1>2, <3>1
    <3>3. k \in 1..Len(steps)
      BY <1>1, <2>1
    <3> QED BY <3>2, <3>3, StepMeans
  <2> QED BY <2>1
<1> HIDE DEF T
<1>3. 0..n \subseteq T
  BY <1>1, <1>2, AllOf
<1>4. \A i \in 1..n : i \in T /\ i # 0
  BY <1>1, <1>3
<1> QED BY <1>4 DEF T

LEMMA Denotes == IInv => PlanDenotesGoal
<1> SUFFICES ASSUME IInv PROVE PlanDenotesGoal
  OBVIOUS
<1>1. ASSUME NEW i \in 1..Len(steps)
      PROVE  LET id == steps[i].id
             IN /\ \A t \in Elements(NodeOf(id).ins) \ steps[i].ext : Cardinality(Sources(i, t)) = 1
                /\ steps[i].ext \subseteq goal.inits[id[1]]
                /\ Denoted[i] = Env(id[1])[id[2]][Output(id)]
  <2> DEFINE id == steps[i].id
  <2>1. PICK s, n : s = id[1] /\ n = id[2]
    OBVIOUS
  <2>2. NodeOf(id) = Nodes(s)[n] /\ steps[i].ext \subseteq goal.inits[s]
    BY <2>1, StepIs
  <2>3. Meant(i)
    BY StepsMean
  <2>4. ASSUME NEW t \in Elements(Nodes(s)[n].ins), t \notin steps[i].ext
        PROVE  Cardinality(Sources(i, t)) = 1
    <3>1. SourceOf(i, s, n, t)
      BY <2>1, <2>4, SourceIs
    <3> QED BY <3>1, FS_Singleton DEF SourceOf
  <2> QED BY <2>1, <2>2, <2>3, <2>4 DEF Meant
<1>2. StepsDenote
  BY <1>1, Zenon DEF StepsDenote
<1>3. ASSUME phase = "done", diag \in {"none", "shape"} PROVE
        /\ Len(targets) = Len(Targets)
        /\ \A k \in 1..Len(targets) :
             \E i \in 1..Len(steps) :
               /\ steps[i].id = targets[k]
               /\ Denoted[i] = LET s == Targets[k][1] IN Env(s)[Len(Nodes(s))][Targets[k][2]]
  <2>1. Len(targets) = Len(Targets) /\ \A k \in 1..Len(targets) : AimedAt(k)
    BY <1>3 DEF IInv, Aimed
  <2>2. ASSUME NEW k \in 1..Len(targets)
        PROVE  \E i \in 1..Len(steps) :
                 /\ steps[i].id = targets[k]
                 /\ Denoted[i] = LET s == Targets[k][1] IN Env(s)[Len(Nodes(s))][Targets[k][2]]
    <3>1. PICK s, t : s = Targets[k][1] /\ t = Targets[k][2]
      OBVIOUS
    <3> DEFINE n == Len(Nodes(s))
    <3>2. TypeOK /\ s \in Side /\ t \in Tid
      BY <2>1, <3>1, TargetsAre DEF IInv
    <3>3. n \in Nat
      BY <3>2, NodesAre
    <3>4. targets[k] \in Ids /\ \E j \in 1..n : Latest(s, t, n + 1, j) /\ targets[k] = <<s, j, Slot(s, j, t)>>
      BY <2>1, <3>1, Zenon DEF AimedAt
    <3>5. PICK j \in 1..n : Latest(s, t, n + 1, j) /\ targets[k] = <<s, j, Slot(s, j, t)>>
      BY <3>4
    <3>6. PICK i \in 1..Len(steps) : steps[i].id = targets[k]
      BY <3>4 DEF Ids
    <3>7. Denoted[i] = Env(s)[j][t]
      <4> DEFINE c == steps[i].id
      <4>1. Output(<<s, j, Slot(s, j, t)>>) = t
        BY <3>5, OutputIs DEF Latest
      <4>2. c[1] = s /\ c[2] = j /\ Output(c) = t
        BY <3>5, <3>6, <4>1
      <4>3. Meant(i)
        BY StepsMean
      <4>4. Denoted[i] = Env(c[1])[c[2]][Output(c)]
        BY <4>3 DEF Meant
      <4> HIDE DEF c
      <4> QED BY <4>2, <4>4
    <3>8. Env(s)[n][t] = Env(s)[j][t]
      <4>1. j \in 0..n /\ n \in 0..n /\ j <= n
        BY <3>3
      <4>2. \A h \in (j + 1)..n : ~Writes(s, h, t)
        <5>1. n + 1 - 1 = n
          BY <3>3
        <5> QED BY <3>5, <5>1 DEF Latest
      <4> QED BY <3>2, <3>3, <4>1, <4>2, ValueKept
    <3> QED BY <3>1, <3>6, <3>7, <3>8
  <2> QED BY <2>1, <2>2
<1>4. TargetsDenote
  BY <1>3, Zenon DEF TargetsDenote
<1> QED BY <1>2, <1>4 DEF PlanDenotesGoal

(***************************************************************************)
(* The certificate.                                                        *)
(***************************************************************************)
Accepted == IF answer = "supported" THEN targets ELSE <<>>

LEMMA PlanAdds ==
    ASSUME CInv, VisitEmit
    PROVE  Certificate!Add
<1> DEFINE l == Len(steps)
           id == <<side, Top.node, Top.out>>
           e == [id |-> id, deps |-> Top.deps, ext |-> Top.ext]
<1>1. /\ phase = "visit" /\ phase' = phase /\ stack # <<>> /\ steps' = Append(steps, e)
      /\ diag' = diag /\ targets' = targets
  BY DEF VisitEmit, Key
<1>2. steps \in Seq(StepType) /\ l \in Nat /\ Ids = {steps[i].id : i \in 1..l}
  BY <1>1, VisitFacts
<1>3. Named(id) /\ id \notin Ids /\ Top.deps \subseteq Ids /\ Top.deps \subseteq KeyType /\ Top.ext \subseteq Tid
  BY <1>1, TopIs
<1>4. e \in StepType /\ e.id = id /\ e.deps = Top.deps
  BY <1>3 DEF StepType, Named
<1> HIDE DEF id, e
<1>5. /\ Len(steps') = Len(steps) + 1 /\ \A i \in 1..Len(steps) : steps'[i] = steps[i]
      /\ steps'[Len(steps')] = e
  BY <1>1, <1>2, <1>4
<1>6. answer = "open" /\ answer' = "open"
  BY <1>1 DEF answer
<1>7. Certificate!Ids = Ids
  BY DEF Certificate!Ids, Ids
<1>8. UNCHANGED <<Accepted, answer>>
  BY <1>1, <1>6 DEF Accepted
<1> QED BY <1>3, <1>4, <1>5, <1>6, <1>7, <1>8 DEF Certificate!Add, Accepted

LEMMA PlanAnswers ==
    ASSUME CInv, phase # "done", phase' = "done", steps' = steps, targets' = targets,
           diag' = "none" => Finish
    PROVE  Certificate!Accept \/ Certificate!Reject
<1>1. answer = "open" /\ Accepted = <<>>
  BY DEF answer, Accepted
<1>2. CASE diag' # "none"
  <2>1. answer' = "rejected" /\ Accepted' = <<>>
    BY <1>2 DEF answer, Accepted
  <2> QED BY <1>1, <2>1 DEF Certificate!Reject, Accepted
<1>3. CASE diag' = "none"
  <2>1. answer' = "supported" /\ Accepted' = targets
    BY <1>3 DEF answer, Accepted
  <2>2. phase = "visit"
    BY <1>3 DEF Finish
  <2>3. \A k \in 1..Len(targets) : targets[k] \in Ids
    BY <2>2, VisitFacts DEF AimedAt
  <2>4. Certificate!Ids = Ids
    BY DEF Certificate!Ids, Ids
  <2> QED BY <1>1, <2>1, <2>3, <2>4 DEF Certificate!Accept, Accepted
<1> QED BY <1>2, <1>3

LEMMA PlanSteps ==
    ASSUME CInv, [Next]_vars
    PROVE  Certificate!Next \/ UNCHANGED <<steps, Accepted, answer>>
<1>1. ASSUME phase' # "done", phase # "done", steps' = steps
      PROVE  UNCHANGED <<steps, Accepted, answer>>
  BY <1>1 DEF answer, Accepted
<1>2. CASE \/ RefuseRelation \/ RefuseRule \/ RefuseWriter \/ RefusePieces
           \/ CycleFound \/ TargetMissing \/ InputMissing
  <2>1. /\ phase # "done" /\ phase' = "done" /\ steps' = steps /\ targets' = targets /\ diag' # "none"
    BY <1>2 DEF RefuseRelation, RefuseRule, RefuseWriter, RefusePieces, CycleFound,
                TargetMissing, InputMissing, Reject
  <2> QED BY <2>1, PlanAnswers DEF Certificate!Next
<1>3. CASE Finish
  <2>1. phase # "done" /\ phase' = "done" /\ steps' = steps /\ targets' = targets
    BY <1>3 DEF Finish
  <2> QED BY <1>3, <2>1, PlanAnswers DEF Certificate!Next
<1>4. CASE VisitEmit
  BY <1>4, PlanAdds DEF Certificate!Next
<1>5. CASE \/ CheckRelation \/ CheckRule \/ IndexWriter \/ CheckPieces
           \/ CycleRoot \/ CycleInput \/ CycleLeave \/ VisitTarget \/ VisitInput
  <2>1. phase # "done" /\ phase' # "done" /\ steps' = steps
    BY <1>5 DEF CheckRelation, CheckRule, IndexWriter, CheckPieces, CycleRoot, CycleInput,
                CycleLeave, VisitTarget, VisitInput, Advance
  <2> QED BY <1>1, <2>1
<1>6. CASE Done \/ UNCHANGED vars
  BY <1>6 DEF Done, vars, Accepted, answer
<1> QED BY <1>2, <1>3, <1>4, <1>5, <1>6 DEF Next

(***************************************************************************)
(* The theorems.                                                           *)
(***************************************************************************)
\* Every variable of the planner keeps its type.
THEOREM TypeCorrect == Spec => []TypeOK
<1>1. CInv => TypeOK
  BY DEF CInv, IInv
<1> QED BY <1>1, InitCovers, StepCovers, PTL DEF Spec

\* A step of the certificate stands for the value the ordered graph gives its
\* tensor, and the targets of an accepted plan for the final values of the
\* lineage's tensors, for all registries and goals.
THEOREM PlanDenotes == Spec => []PlanDenotesGoal
<1>1. CInv => PlanDenotesGoal
  BY Denotes DEF CInv
<1> QED BY <1>1, InitCovers, StepCovers, PTL DEF Spec

\* A goal is rejected for a cycle exactly if the search meets one, and for a
\* missing producer only if a read or a target has none, for all goals.
THEOREM RejectionsAreJustified == Spec => []RejectionsJustified
<1>1. ASSUME CInv PROVE RejectionsJustified
  <2>1. TypeOK
    BY <1>1 DEF CInv, IInv
  <2>2. diag = "cycle" => Cyclic
    BY <1>1, <2>1, LoopedIsCyclic DEF CInv, Searched
  <2>3. phase \in {"visit", "done"} /\ diag \in {"none", "missing", "shape"} => ~Cyclic
    BY <1>1, <2>1, AcyclicIsNotCyclic DEF CInv, Searched
  <2>4. diag = "missing" => Unserved
    BY <1>1 DEF CInv
  <2> QED BY <2>2, <2>3, <2>4, Zenon DEF RejectionsJustified, Unserved
<1> QED BY <1>1, InitCovers, StepCovers, PTL DEF Spec

\* Every step of the planner is a step of the certificate or changes nothing of
\* it: steps are only added, each once and after what it depends on, and a plan
\* that is returned has the steps of its targets.
THEOREM CertificateGrows ==
    Spec => Certificate!Init /\ [][Certificate!Next]_<<steps, Accepted, answer>>
<1>1. Init => Certificate!Init
  BY DEF Init, Certificate!Init, answer
<1>2. CInv /\ [Next]_vars => [Certificate!Next]_<<steps, Accepted, answer>>
  BY PlanSteps
<1> QED BY <1>1, <1>2, InitCovers, StepCovers, PTL DEF Spec
=============================================================================
