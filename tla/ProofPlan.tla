------------------------------ MODULE ProofPlan ------------------------------
(***************************************************************************)
(* compile_proof_plan of trainverify/bridge_emitter/proof_compiler.py: it  *)
(* validates a goal (two graphs of nodes executed in order, "sm" and "pm", *)
(* and a lineage between their outputs), indexes the writers of every      *)
(* tensor, looks for cycles and walks back from the targets with a         *)
(* recursive visit that emits a certificate step per producer.             *)
(*                                                                         *)
(* The recursions are stacks of frames.  Shapes and the wording of         *)
(* diagnostics are left out: a goal says whether its shapes agree.         *)
(* Definitions that come in pairs, the first one unused, are a plausible   *)
(* slip and the code: (FirstProducer, ProducerBefore), (FollowEarlier,     *)
(* Follow), (EmittedNever, Emitted).                                       *)
(***************************************************************************)
EXTENDS Naturals, Sequences, FiniteSets

CONSTANTS Tid,      \* tensor ids
          Rule,     \* the registry: typed rules by operator
          Goal,     \* goals: nodes, inits, pieces, target, ranks, shapesAgree
          Any       \* a count the rule leaves open

Side == {"sm", "pm"}

ASSUME ProofPlanAssumption ==
  \A g \in Goal : /\ g.target \in Tid
                  /\ Len(g.pieces) \in Nat
                  /\ \A i \in 1..Len(g.pieces) : g.pieces[i].tid \in Tid
                  /\ \A s \in Side : /\ Len(g.nodes[s]) \in Nat \ {0}
                                     /\ g.inits[s] \subseteq Tid
                                     /\ \A i \in 1..Len(g.nodes[s]) :
                                          /\ g.nodes[s][i].ins \in Seq(Tid)
                                          /\ g.nodes[s][i].outs \in Seq(Tid)

VARIABLES goal,      \* ir
          phase,     \* which loop of compile_proof_plan runs
          side, at,  \* its cursor
          writers,   \* writers[side][tid]: <<node, output>> in graph order
          stack,     \* frames of cycle_visit or visit: the node, output, next input
          closed,    \* cycle_done
          steps,     \* ordered: the certificate steps
          targets,   \* target_steps
          diag       \* the code of the diagnostic

vars == <<goal, phase, side, at, writers, stack, closed, steps, targets, diag>>

Nodes(s) == goal.nodes[s]
Elements(q) == {q[i] : i \in 1..Len(q)}
LastOf(q) == q[Len(q)]
Top == LastOf(stack)
Pop == SubSeq(stack, 1, Len(stack) - 1)

(***************************************************************************)
(* Rules and the lineage.                                                  *)
(***************************************************************************)
\* Whether a node fits the typed rule of its operator (signature_error).
SignatureFits(n, ranks) ==
  LET r == Rule[n.op]
  IN /\ Cardinality(Elements(n.outs)) = Len(n.outs)
     /\ r.outputs \in {Any, Len(n.outs)}
     /\ r.inputs \in {Any, Len(n.ins)}
     /\ r.perRank => Len(n.ins) = ranks
     /\ Len(n.ins) >= 1

RuleFits(n, ranks) == n.op \in DOMAIN Rule /\ SignatureFits(n, ranks)

\* _relation_requirement: pieces with strictly increasing ranks in range.
RelationFits ==
  /\ goal.pieces # <<>>
  /\ \A i \in 1..Len(goal.pieces) : goal.pieces[i].rank < goal.ranks["pm"]
  /\ \A i, j \in 1..Len(goal.pieces) : i < j => goal.pieces[i].rank < goal.pieces[j].rank
  /\ \A s \in Side : \A n \in Elements(Nodes(s)) : n.rank < goal.ranks[s]

(***************************************************************************)
(* Writers.                                                                *)
(***************************************************************************)
\* Where the writers before a node are in the list.
Eligible(s, t, i) == {m \in 1..Len(writers[s][t]) : writers[s][t][m][1] < i}
FirstProducer(s, t, i) == IF Eligible(s, t, i) = {} THEN <<>> ELSE writers[s][t][1]

\* producer_before: the last writer before a node, <<>> if there is none.
ProducerBefore(s, t, i) ==
  IF Eligible(s, t, i) = {} THEN <<>>
  ELSE writers[s][t][CHOOSE m \in Eligible(s, t, i) : \A k \in Eligible(s, t, i) : k <= m]

\* What node i reads at its k-th input: a producer, or <<>>.
Producer(s, i, k) == ProducerBefore(s, Nodes(s)[i].ins[k], i)
FinalWriter(s, t) == ProducerBefore(s, t, Len(Nodes(s)) + 1)

\* Two ranks compute the same value into the same tensor.
EquivalentRewrite(n, m) ==
  /\ ~Rule[n.op].sensitive
  /\ m.op = n.op /\ m.ins = n.ins /\ m.outs = n.outs
  /\ Elements(n.outs) \cap Elements(n.ins) = {}

\* An output may be written again by a collective that reads it or by an
\* equivalent node.
MayWrite(s, i, t) ==
  writers[s][t] # <<>> =>
    LET n == Nodes(s)[i]
    IN \/ Rule[n.op].kind = "collective" /\ t \in Elements(n.ins)
       \/ EquivalentRewrite(n, Nodes(s)[LastOf(writers[s][t])[1]])

FollowEarlier(s, i, k) == Producer(s, i, k)

\* Where the search for cycles goes from the k-th input of node i: the last
\* writer before it, else, unless it is a graph input, the first one after.
Follow(s, i, k) ==
  LET t == Nodes(s)[i].ins[k]
  IN IF Producer(s, i, k) # <<>> THEN Producer(s, i, k)
     ELSE IF t \in goal.inits[s] \/ writers[s][t] = <<>> THEN <<>>
     ELSE writers[s][t][1]

(***************************************************************************)
(* The loops over sm, then pm.                                             *)
(***************************************************************************)
Init == /\ goal \in Goal
        /\ phase = "relation" /\ side = "sm" /\ at = 1
        /\ writers = [s \in Side |-> [t \in Tid |-> <<>>]]
        /\ stack = <<>> /\ closed = {}
        /\ steps = <<>> /\ targets = <<>> /\ diag = "none"

Advance(next) ==
  IF at < Len(Nodes(side)) THEN at' = at + 1 /\ UNCHANGED <<side, phase>>
  ELSE /\ at' = 1
       /\ IF side = "sm" THEN side' = "pm" /\ UNCHANGED phase
          ELSE side' = "sm" /\ phase' = next

Reject(code) == /\ phase' = "done" /\ diag' = code
                /\ UNCHANGED <<goal, side, at, writers, stack, closed, steps, targets>>

CheckRelation == /\ phase = "relation" /\ RelationFits
                 /\ phase' = "rules"
                 /\ UNCHANGED <<goal, side, at, writers, stack, closed, steps, targets, diag>>

RefuseRelation == phase = "relation" /\ ~RelationFits /\ Reject("lineage")

CheckRule == /\ phase = "rules" /\ RuleFits(Nodes(side)[at], goal.ranks[side])
             /\ Advance("writers")
             /\ UNCHANGED <<goal, writers, stack, closed, steps, targets, diag>>

RefuseRule == phase = "rules" /\ ~RuleFits(Nodes(side)[at], goal.ranks[side]) /\ Reject("rule")

IndexWriter ==
  /\ phase = "writers"
  /\ LET outs == Nodes(side)[at].outs
     IN /\ \A t \in Elements(outs) : MayWrite(side, at, t)
        /\ writers' = [writers EXCEPT ![side] = [t \in Tid |->
             IF t \in Elements(outs)
               THEN Append(@[t], <<at, CHOOSE o \in 1..Len(outs) : outs[o] = t>>)
               ELSE @[t]]]
  /\ Advance("pieces")
  /\ UNCHANGED <<goal, stack, closed, steps, targets, diag>>

RefuseWriter == /\ phase = "writers"
                /\ \E t \in Elements(Nodes(side)[at].outs) : ~MayWrite(side, at, t)
                /\ Reject("duplicate")

\* The final producer of a piece must run on the rank the lineage names.
PiecesFit ==
  \A piece \in Elements(goal.pieces) :
    LET w == FinalWriter("pm", piece.tid) IN w # <<>> => Nodes("pm")[w[1]].rank = piece.rank

CheckPieces == /\ phase = "pieces" /\ PiecesFit
               /\ phase' = "cycles"
               /\ UNCHANGED <<goal, side, at, writers, stack, closed, steps, targets, diag>>

RefusePieces == phase = "pieces" /\ ~PiecesFit /\ Reject("lineage")

(***************************************************************************)
(* cycle_visit.                                                            *)
(***************************************************************************)
Frame(w) == [node |-> w[1], out |-> w[2], next |-> 1, deps |-> {}, ext |-> {}]
Push(frames, w) == Append(frames, Frame(w))
NextInput == [stack EXCEPT ![Len(stack)].next = @ + 1]
OnStack(i) == \E f \in Elements(stack) : f.node = i

CycleRoot == /\ phase = "cycles" /\ stack = <<>>
             /\ IF at \in closed
                  THEN /\ Advance("visit") /\ UNCHANGED stack
                       /\ closed' = IF at < Len(Nodes(side)) THEN closed ELSE {}
                  ELSE stack' = Push(<<>>, <<at, 1>>) /\ UNCHANGED <<side, phase, at, closed>>
             /\ UNCHANGED <<goal, writers, steps, targets, diag>>

CycleInput == /\ phase = "cycles" /\ stack # <<>>
              /\ Top.next <= Len(Nodes(side)[Top.node].ins)
              /\ LET w == Follow(side, Top.node, Top.next)
                 IN IF w = <<>> \/ (w # <<>> /\ w[1] \in closed)
                      THEN stack' = NextInput
                      ELSE ~OnStack(w[1]) /\ stack' = Push(NextInput, w)
              /\ UNCHANGED <<goal, phase, side, at, writers, closed, steps, targets, diag>>

CycleFound == /\ phase = "cycles" /\ stack # <<>>
              /\ Top.next <= Len(Nodes(side)[Top.node].ins)
              /\ LET w == Follow(side, Top.node, Top.next)
                 IN w # <<>> /\ w[1] \notin closed /\ OnStack(w[1])
              /\ Reject("cycle")

CycleLeave == /\ phase = "cycles" /\ stack # <<>>
              /\ Top.next > Len(Nodes(side)[Top.node].ins)
              /\ stack' = Pop
              /\ closed' = closed \cup {Top.node}
              /\ UNCHANGED <<goal, phase, side, at, writers, steps, targets, diag>>

(***************************************************************************)
(* visit.                                                                  *)
(***************************************************************************)
Targets == <<<<"sm", goal.target>>>>
           \o [i \in 1..Len(goal.pieces) |-> <<"pm", goal.pieces[i].tid>>]

Key(s, w) == <<s, w[1], w[2]>>
EmittedNever(k) == FALSE
Emitted(k) == \E i \in 1..Len(steps) : steps[i].id = k

VisitTarget == /\ phase = "visit" /\ stack = <<>> /\ at <= Len(Targets)
               /\ LET s == Targets[at][1]
                      w == FinalWriter(s, Targets[at][2])
                  IN /\ w # <<>>
                     /\ side' = s
                     /\ IF Emitted(Key(s, w))
                          THEN at' = at + 1 /\ targets' = Append(targets, Key(s, w)) /\ UNCHANGED stack
                          ELSE stack' = Push(<<>>, w) /\ UNCHANGED <<at, targets>>
               /\ UNCHANGED <<goal, phase, writers, closed, steps, diag>>

TargetMissing == /\ phase = "visit" /\ stack = <<>> /\ at <= Len(Targets)
                 /\ FinalWriter(Targets[at][1], Targets[at][2]) = <<>>
                 /\ Reject("missing")

\* An input still has to be looked at before the step can be appended.
Unresolved == Top.next <= Len(Nodes(side)[Top.node].ins)

VisitInput == /\ phase = "visit" /\ stack # <<>> /\ Unresolved
              /\ LET w == Producer(side, Top.node, Top.next)
                     t == Nodes(side)[Top.node].ins[Top.next]
                 IN IF w = <<>>
                      THEN /\ t \in goal.inits[side]
                           /\ stack' = [NextInput EXCEPT ![Len(stack)].ext = @ \cup {t}]
                      ELSE stack' = IF Emitted(Key(side, w))
                                      THEN [NextInput EXCEPT ![Len(stack)].deps = @ \cup {Key(side, w)}]
                                      ELSE Push(stack, w)
              /\ UNCHANGED <<goal, phase, side, at, writers, closed, steps, targets, diag>>

InputMissing == /\ phase = "visit" /\ stack # <<>> /\ Unresolved
                /\ Producer(side, Top.node, Top.next) = <<>>
                /\ Nodes(side)[Top.node].ins[Top.next] \notin goal.inits[side]
                /\ Reject("missing")

\* All inputs are resolved: the step is appended.
VisitEmit == /\ phase = "visit" /\ stack # <<>> /\ ~Unresolved
             /\ steps' = Append(steps, [id |-> Key(side, <<Top.node, Top.out>>),
                                        deps |-> Top.deps, ext |-> Top.ext])
             /\ stack' = Pop
             /\ UNCHANGED <<goal, phase, side, at, writers, closed, targets, diag>>

\* _collective_shape_issue comes last.
Finish == /\ phase = "visit" /\ stack = <<>> /\ at > Len(Targets)
          /\ phase' = "done"
          /\ diag' = IF goal.shapesAgree THEN "none" ELSE "shape"
          /\ UNCHANGED <<goal, side, at, writers, stack, closed, steps, targets>>

Done == phase = "done" /\ UNCHANGED vars

Next == \/ CheckRelation \/ RefuseRelation \/ CheckRule \/ RefuseRule
        \/ IndexWriter \/ RefuseWriter \/ CheckPieces \/ RefusePieces
        \/ CycleRoot \/ CycleInput \/ CycleFound \/ CycleLeave
        \/ VisitTarget \/ TargetMissing \/ VisitInput \/ InputMissing \/ VisitEmit
        \/ Finish \/ Done

Spec == Init /\ [][Next]_vars
\* The planner is a terminating function: it runs until it returns.
FairSpec == Spec /\ WF_vars(Next)

(***************************************************************************)
(* What a goal means: the graph is an ordered fold.  Env(s)[i][t] is the   *)
(* term in t after i nodes; a rank-sensitive operator's value depends on   *)
(* the rank.  Denoted[i] is the term step i of the certificate stands for, *)
(* from its dependencies and external inputs alone.                        *)
(***************************************************************************)
Inputs == [t \in Tid |-> <<"input", 0, t, <<>>>>]
After(n, env) ==
  [t \in Tid |->
     IF t \in Elements(n.outs)
       THEN <<n.op, IF Rule[n.op].sensitive THEN n.rank ELSE 0,
              CHOOSE o \in 1..Len(n.outs) : n.outs[o] = t,
              [k \in 1..Len(n.ins) |-> env[n.ins[k]]]>>
       ELSE env[t]]
Env(s) ==
  LET e[i \in 0..Len(Nodes(s))] == IF i = 0 THEN Inputs ELSE After(Nodes(s)[i], e[i - 1])
  IN e

NodeOf(id) == Nodes(id[1])[id[2]]
Output(id) == NodeOf(id).outs[id[3]]

\* The steps before step i that it names for input t.
Sources(i, t) == {j \in 1..(i - 1) : steps[j].id \in steps[i].deps /\ Output(steps[j].id) = t}

Denoted ==
  LET d[i \in 1..Len(steps)] ==
        LET n == NodeOf(steps[i].id)
        IN <<n.op, IF Rule[n.op].sensitive THEN n.rank ELSE 0, steps[i].id[3],
             [k \in 1..Len(n.ins) |->
                IF n.ins[k] \in steps[i].ext THEN <<"input", 0, n.ins[k], <<>>>>
                ELSE d[CHOOSE j \in Sources(i, n.ins[k]) : TRUE]]>>
  IN d

(***************************************************************************)
(* Properties.                                                             *)
(***************************************************************************)
\* Whatever tensors are written more than once (the in-place collectives of
\* producer_before): a step names one source per input, and stands for the value
\* the ordered fold gives its tensor right after its node; the target steps of an
\* accepted plan stand for the final values of the lineage's tensors, one for
\* the sm tensor and one per piece.
StepsDenote ==
  \A i \in 1..Len(steps) :
    LET id == steps[i].id
    IN /\ \A t \in Elements(NodeOf(id).ins) \ steps[i].ext : Cardinality(Sources(i, t)) = 1
       /\ steps[i].ext \subseteq goal.inits[id[1]]
       /\ Denoted[i] = Env(id[1])[id[2]][Output(id)]
TargetsDenote ==
  phase = "done" /\ diag \in {"none", "shape"} =>
    /\ Len(targets) = Len(Targets)
    /\ \A k \in 1..Len(targets) :
         \E i \in 1..Len(steps) :
           /\ steps[i].id = targets[k]
           /\ Denoted[i] = LET s == Targets[k][1] IN Env(s)[Len(Nodes(s))][Targets[k][2]]
PlanDenotesGoal == StepsDenote /\ TargetsDenote

\* What the search for cycles is for, from the nodes alone: node i reads t from
\* the last writer before it, else, unless it is an input, from the first after.
ReadsFrom(s, i, t) ==
  LET all == {j \in 1..Len(Nodes(s)) : t \in Elements(Nodes(s)[j].outs)}
      earlier == {j \in all : j < i}
  IN IF earlier # {} THEN {j \in earlier : \A k \in earlier : k <= j}
     ELSE IF t \in goal.inits[s] THEN {}
     ELSE {j \in all : \A k \in all : j <= k}

\* The nodes that node i reads from, and those it reaches over at most k reads.
Reads(s, i) == UNION {ReadsFrom(s, i, t) : t \in Elements(Nodes(s)[i].ins)}
AllReads(s, S) == UNION {Reads(s, j) : j \in S}
Reached(s, i) ==
  LET r[k \in 1..Len(Nodes(s))] ==
        IF k = 1 THEN Reads(s, i) ELSE r[k - 1] \cup AllReads(s, r[k - 1])
  IN r

\* A node reaches itself.
Cyclic == \E s \in Side : \E i \in 1..Len(Nodes(s)) : i \in Reached(s, i)[Len(Nodes(s))]

\* A closed cycle is reported as a cycle and never as a missing producer; a
\* cycle is reported only if there is one; a missing producer only if the walk
\* back from a target meets a read nobody can serve.
RejectionsJustified ==
  /\ diag = "cycle" => Cyclic
  /\ phase \in {"visit", "done"} /\ diag \in {"none", "missing", "shape"} => ~Cyclic
  /\ diag = "missing" =>
       \/ \E k \in 1..Len(Targets) : FinalWriter(Targets[k][1], Targets[k][2]) = <<>>
       \/ \E s \in Side : \E i \in 1..Len(Nodes(s)) :
            \E t \in Elements(Nodes(s)[i].ins) \ goal.inits[s] :
              \A j \in 1..(i - 1) : t \notin Elements(Nodes(s)[j].outs)

\* The planner builds a certificate, for every goal: the search for cycles has
\* excluded the endless recursion of visit.
answer == IF phase # "done" THEN "open" ELSE IF diag = "none" THEN "supported" ELSE "rejected"
Certificate == INSTANCE CertificatePlan WITH
  plan <- steps, answer <- answer, targets <- IF answer = "supported" THEN targets ELSE <<>>
BuildsCertificate == Certificate!Spec
=============================================================================
