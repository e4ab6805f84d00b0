-------------------------- MODULE PipelineSchedule --------------------------
(***************************************************************************)
(* Pipeline schedules of nnscaler.  A plan is written block by block       *)
(* (PredefinedSched, SchedulePlan.add_block), validated, completed with    *)
(* adapters and dataloaders (_place_adapters, _place_dataloader), sorted   *)
(* (topo_sort) and split into one straight-line program per device         *)
(* (ExecutionPlan, ScheduleCodeGen), which releases a tensor after its     *)
(* last use (LifeCycle).  The devices run their programs concurrently      *)
(* (Executor); an adapter is a rendezvous of the devices it connects.      *)
(*                                                                         *)
(* Steps, stages and microbatches count from 0 as in the code.  A block is *)
(* [dir, s, m, start, span]: a segment or its mirror on a microbatch.      *)
(* Definitions that come in pairs, the first one unused, are a plausible   *)
(* slip and the code: (SegmentLines, UserLines), (PopLast, Popped),        *)
(* (GPipe, OneFOneB).                                                      *)
(***************************************************************************)
EXTENDS Integers, Sequences, FiniteSets, SequencesExt

CONSTANTS Device,   \* devices
          Plan      \* [kind, S, M, on, loads, idle, tp, blocks]: stages, microbatches,
                    \* the devices of a stage, the (device, stage) that read a sample,
                    \* devices with a loader nobody reads, whether some segments are on
                    \* all devices, and the blocks a user writes

Micro == 0..(Max({p.M : p \in Plan}) - 1)

Kinds == {"1f1b", "1f1b_plus", "gpipe", "infer_pipe", "chimera_direct", "custom"}

\* Chimera is for four stages.
ASSUME PipelineAssumption ==
  \A p \in Plan :
    /\ p.kind \in Kinds /\ p.S \in Nat \ {0} /\ p.M \in Nat \ {0}
    /\ p.on \in [0..(p.S - 1) -> (SUBSET Device) \ {{}}]
    /\ p.loads \subseteq Device \X (0..(p.S - 1)) /\ \A x \in p.loads : x[1] \in p.on[x[2]]
    /\ p.kind = "chimera_direct" => p.S = 4

\* What Executor.backward asks of a plan that is written by hand: "earlier forward
\* perform earlier backward".  It has each block of each microbatch once, and a stage
\* takes the microbatches in order; when and with which span is free.
InOrder(p, bs, dirs) ==
  /\ \A b \in bs : /\ b.dir \in dirs /\ b.s \in 0..(p.S - 1) /\ b.m \in 0..(p.M - 1)
                  /\ b.start \in Nat /\ b.span \in Nat \ {0}
  /\ \A a, b \in bs : a.dir = b.dir /\ a.s = b.s =>
       /\ a.m = b.m => a = b
       /\ a.m < b.m => a.start < b.start
  /\ \A dir \in dirs, s \in 0..(p.S - 1), m \in 0..(p.M - 1) :
       \E b \in bs : b.dir = dir /\ b.s = s /\ b.m = m
ASSUME CustomAssumption == \A p \in Plan : p.kind = "custom" => InOrder(p, p.blocks, {"f", "b"})

VARIABLES plan, mode,  \* the plan; "train" or "infer" (_infer_step skips backward)
          phase,       \* "add", "insert", "finish", "apply", "run", or what was raised
          blocks,      \* what add_block has placed
          prog, line,  \* the device programs, and the line a device is at
          have,        \* tensors alive on a device
          lost,        \* a line has read a tensor that was not there, the job is down
          detach,      \* Executor._detach: microbatches by device and stage
          popped,      \* backward calls: the microbatch and what they popped
          sample       \* sample[d]: the microbatch each sample was drawn for

pipelineVars == <<plan, mode, phase, blocks, prog, line, have, lost, detach, popped, sample>>
runVars == <<prog, line, have, lost, detach, popped, sample>>

LastStage == plan.S - 1
Used == UNION {plan.on[s] : s \in 0..LastStage}
Stopped == phase \in {"conflict", "no_segments", "invalid", "loader"}
Block(dir, s, m, start, span) == [dir |-> dir, s |-> s, m |-> m, start |-> start, span |-> span]

(***************************************************************************)
(* The predefined schedules.                                               *)
(***************************************************************************)
GPipeAt(S, M, t, s) ==
  LET middle == M + S - 1 IN IF t < middle THEN Block("f", s, t - s, t, 1)
                             ELSE Block("b", s, t - middle - (S - 1 - s), t, 1)
GPipe(S, M) == {b \in {GPipeAt(S, M, x[1], x[2]) : x \in (0..(2 * (M + S - 1) - 1)) \X (0..(S - 1))}
                : b.m \in 0..(M - 1)}

OneFOneBAt(S, t, s) == IF (t - s) % 2 = 0 THEN Block("f", s, (t - s) \div 2, t, 1)
                       ELSE Block("b", s, ((t - s) \div 2) - (S - 1 - s), t, 1)
OneFOneB(S, M) ==
  {b \in {OneFOneBAt(S, x[1], x[2]) : x \in {y \in (0..(2 * M + 2 * (S - 1) - 1)) \X (0..(S - 1)) : y[1] >= y[2]}}
   : b.m \in 0..(M - 1)}

InferPipe(S, M) == {b \in GPipe(S, M) : b.dir = "f"}

Early(step, o) == IF step + o - 3 > step THEN step + o - 3 ELSE step
\* Four stages, two microbatches every 16 steps, backward takes two steps.
ChimeraF(s, m) ==
  LET o == 16 * (m \div 2)
      f == IF m % 2 = 0 THEN <<Early(0, o), Early(1, o), 2 + o, 3 + o>> ELSE <<2 + o, 3 + o, 4 + o, 6 + o>>
  IN Block("f", s, m, f[s + 1], 1)
ChimeraB(s, m) == Block("b", s, m, 16 * (m \div 2) + (IF m % 2 = 0 THEN 10 - 2 * s ELSE 14 - 2 * s), 2)
Chimera(M) == LET cells == (0..3) \X (0..(M - 1))
              IN {ChimeraF(x[1], x[2]) : x \in cells} \cup {ChimeraB(x[1], x[2]) : x \in cells}

Wanted ==
  CASE plan.kind \in {"1f1b", "1f1b_plus"} -> OneFOneB(plan.S, plan.M)
    [] plan.kind = "gpipe" -> GPipe(plan.S, plan.M)
    [] plan.kind = "infer_pipe" -> InferPipe(plan.S, plan.M)
    [] plan.kind = "chimera_direct" -> Chimera(plan.M)
    [] plan.kind = "custom" -> plan.blocks

(***************************************************************************)
(* Writing the plan.                                                       *)
(***************************************************************************)
PipelineInit ==
        /\ plan \in Plan
        /\ mode \in IF plan.kind = "infer_pipe" THEN {"infer"} ELSE {"train", "infer"}
        /\ phase = "add" /\ blocks = {}
        /\ prog = [d \in Device |-> <<>>] /\ line = [d \in Device |-> 1]
        /\ have = [d \in Device |-> {}] /\ lost = FALSE
        /\ detach = [d \in Device |-> [s \in 0..LastStage |-> <<>>]]
        /\ popped = {} /\ sample = [d \in Device |-> <<>>]

Before(a, b) == \/ a.start < b.start
                \/ a.start = b.start /\ (a.s < b.s \/ (a.s = b.s /\ a.dir = "f" /\ b.dir = "b"))
NextBlock == CHOOSE b \in Wanted \ blocks : \A c \in Wanted \ blocks : c # b => Before(b, c)
Overlap(a, b) == a.start < b.start + b.span /\ b.start < a.start + a.span
Conflict(b) == \E c \in blocks : Overlap(b, c) /\ plan.on[b.s] \cap plan.on[c.s] # {}

AddBlock == /\ phase = "add" /\ blocks # Wanted
            /\ ~Conflict(NextBlock)
            /\ blocks' = blocks \cup {NextBlock}
            /\ UNCHANGED <<plan, mode, phase, runVars>>

AddConflict == /\ phase = "add" /\ blocks # Wanted /\ Conflict(NextBlock)
               /\ phase' = "conflict"
               /\ UNCHANGED <<plan, mode, blocks, runVars>>

Added == /\ phase = "add" /\ blocks = Wanted
         /\ phase' = IF plan.kind = "1f1b_plus" THEN "insert" ELSE "finish"
         /\ UNCHANGED <<plan, mode, blocks, runVars>>

\* sched_1f1b_plus looks up the steps around a segment on all devices with
\* SchedulePlan.segments, which does not exist.
InsertSegments == /\ phase = "insert"
                  /\ phase' = IF plan.tp THEN "no_segments" ELSE "finish"
                  /\ UNCHANGED <<plan, mode, blocks, runVars>>

\* The blocks a block takes its tensors from.
Dependent(a, b) ==
  /\ a.m = b.m
  /\ \/ a.dir = "f" /\ b.dir = "f" /\ b.s = a.s + 1
     \/ a.dir = "b" /\ b.dir = "b" /\ a.s = b.s + 1
     \/ a.dir = "f" /\ b.dir = "b" /\ (a.s = b.s \/ b.s = a.s + 1)
Valid == \A a, b \in blocks : Dependent(a, b) => a.start < b.start

Finish == /\ phase = "finish"
          /\ phase' = IF Valid THEN "apply" ELSE "invalid"
          /\ UNCHANGED <<plan, mode, blocks, runVars>>

(***************************************************************************)
(* Adapters, dataloaders, the sequence.  A line is [op, s, m, at]; lines   *)
(* are sorted by <<step, rank in the step, index>>.                        *)
(***************************************************************************)
NSteps == Max({b.start + b.span : b \in blocks})
AfterSpan(b) == b.start + b.span - 1
Line(op, s, m, at) == [op |-> op, s |-> s, m |-> m, at |-> at]

RunLines(d) == {Line(b.dir, b.s, b.m, <<b.start, 0, 0>>) : b \in {c \in blocks : d \in plan.on[c.s]}}

\* send s: the output of stage s to stage s+1; back s: the gradient of stage
\* s's input to stage s-1; both after the sender's last step.
Sends(b) == IF b.dir = "f" THEN b.s < LastStage /\ plan.on[b.s] # plan.on[b.s + 1]
            ELSE b.s > 0 /\ plan.on[b.s] # plan.on[b.s - 1]
Parties(op, s) == CASE op = "send" -> plan.on[s] \cup plan.on[s + 1]
                    [] op = "back" -> plan.on[s] \cup plan.on[s - 1]
                    [] op = "out" -> Used
                    [] OTHER -> {}
AdapterLines(d) ==
  {l \in {IF b.dir = "f" THEN Line("send", b.s, b.m, <<AfterSpan(b), 1, b.s>>)
          ELSE Line("back", b.s, b.m, <<AfterSpan(b), 1, 2 * LastStage - b.s>>)
          : b \in {c \in blocks : Sends(c)}} : d \in Parties(l.op, l.s)}
  \cup (IF d \in Used THEN {Line("out", LastStage, m, <<NSteps - 1, 2, m>>) : m \in 0..(plan.M - 1)} ELSE {})

\* A loader goes to the last step of the first block that reads it on its device;
\* one that nobody reads goes beyond the last step, by the span left over from the search.
Readers(d, m) == {b \in blocks : b.dir = "f" /\ b.m = m /\ <<d, b.s>> \in plan.loads}
FirstReader(d, m) == CHOOSE b \in Readers(d, m) : \A c \in Readers(d, m) : b.start <= c.start
LeftOver == CHOOSE b \in blocks : \A c \in blocks : c # b => Before(c, b)
LoaderStep(d, m) ==
  IF Readers(d, m) # {} THEN FirstReader(d, m).start + FirstReader(d, m).span - 1
  ELSE NSteps - 1 + LeftOver.span - 1
LoaderKey(d, m) == <<LoaderStep(d, m), -1, -m>>
Loading == {d \in Device : \E s \in 0..LastStage : <<d, s>> \in plan.loads} \cup plan.idle

Earlier(k, l) == \E i \in 1..3 : k[i] < l[i] /\ \A j \in 1..(i - 1) : k[j] = l[j]
AllLines(d) ==
  RunLines(d) \cup AdapterLines(d)
  \cup (IF d \in Loading THEN {Line("load", 0, m, LoaderKey(d, m)) : m \in 0..(plan.M - 1)} ELSE {})
\* The lines of the step that is generated.
Kept(d) == {l \in AllLines(d) : mode = "infer" => l.op \notin {"b", "back"}}
Place(l, ls) == Cardinality({k \in ls : Earlier(k.at, l.at)}) + 1
TopoSort(ls) == [i \in 1..Cardinality(ls) |-> CHOOSE l \in ls : Place(l, ls) = i]
Program(d) == TopoSort(Kept(d))

Apply == /\ phase = "apply"
         /\ \A d \in Loading, m \in 0..(plan.M - 1) : LoaderStep(d, m) < NSteps
         /\ prog' = [d \in Device |-> Program(d)]
         /\ phase' = "run"
         /\ UNCHANGED <<plan, mode, blocks, line, have, lost, detach, popped, sample>>

LoaderOutside == /\ phase = "apply"
                 /\ \E d \in Loading, m \in 0..(plan.M - 1) : LoaderStep(d, m) >= NSteps
                 /\ phase' = "loader"
                 /\ UNCHANGED <<plan, mode, blocks, runVars>>

(***************************************************************************)
(* Running the programs.                                                   *)
(***************************************************************************)
Reads(d, l) ==
  LET x == IF <<d, l.s>> \in plan.loads THEN {<<"x", 0, l.m>>} ELSE {}
      prev == IF l.s > 0 THEN {<<"f", l.s - 1, l.m>>} ELSE {}
  IN CASE l.op = "f" -> x \cup prev
       [] l.op = "b" -> x \cup prev \cup {<<"f", l.s, l.m>>}
                        \cup (IF l.s < LastStage THEN {<<"g", l.s + 1, l.m>>} ELSE {})
       [] l.op = "send" -> IF d \in plan.on[l.s] THEN {<<"f", l.s, l.m>>} ELSE {}
       [] l.op = "back" -> IF d \in plan.on[l.s] THEN {<<"g", l.s, l.m>>} ELSE {}
       [] l.op = "out" -> IF d \in plan.on[LastStage] THEN {<<"f", LastStage, l.m>>} ELSE {}
       [] l.op = "load" -> {}
Writes(l) == CASE l.op = "load" -> <<"x", 0, l.m>>
               [] l.op \in {"f", "send", "out"} -> <<"f", l.s, l.m>>
               [] l.op \in {"b", "back"} -> <<"g", l.s, l.m>>

\* LifeCycle: the lines of the training program that use a tensor.
Uses(d, l) == Reads(d, l) \cup {Writes(l)}
SegmentLines(d) == RunLines(d)
UserLines(d) == RunLines(d) \cup AdapterLines(d)
Released(d, l) ==
  {v \in Uses(d, l) : /\ \A k \in UserLines(d) :
                           v \in Uses(d, k) => k = l \/ Earlier(k.at, l.at)
                      /\ ~(v[1] = "f" /\ v[2] = LastStage)}

Now(d) == prog[d][line[d]]
Running(d, op) == phase = "run" /\ ~lost /\ line[d] <= Len(prog[d]) /\ Now(d).op = op
Ready(d, l) == Reads(d, l) \subseteq have[d]

\* What a line does to the tensors of a device.  A process that reads a tensor it
\* does not have raises, and the job is down.
Tensors(d, l) == (have[d] \cup {Writes(l)}) \ Released(d, l)
Execute(ds, l) ==
  LET ok == \A d \in ds : Ready(d, l)
  IN /\ line' = [d \in Device |-> IF d \in ds /\ ok THEN line[d] + 1 ELSE line[d]]
     /\ have' = [d \in Device |-> IF d \in ds /\ ok THEN Tensors(d, l) ELSE have[d]]
     /\ lost' = ~ok
     /\ UNCHANGED <<plan, mode, phase, blocks, prog>>

Load(d) == /\ Running(d, "load")
           /\ sample' = [sample EXCEPT ![d] = Append(@, Now(d).m)]
           /\ Execute({d}, Now(d)) /\ UNCHANGED <<detach, popped>>

\* fexecute: in training the detached inputs wait for the backward.
Forward(d) == /\ Running(d, "f")
              /\ detach' = IF mode = "train" /\ Ready(d, Now(d)) THEN [detach EXCEPT ![d][Now(d).s] = Append(@, Now(d).m)]
                           ELSE detach
              /\ Execute({d}, Now(d)) /\ UNCHANGED <<popped, sample>>

PopLast(q) == <<q[Len(q)], SubSeq(q, 1, Len(q) - 1)>>
Popped(q) == <<Head(q), Tail(q)>>

Backward(d) == /\ Running(d, "b")
               /\ LET l == Now(d)
                      p == Popped(detach[d][l.s])
                  IN /\ popped' = popped \cup {<<d, l.s, l.m, p[1]>>}
                     /\ detach' = [detach EXCEPT ![d][l.s] = p[2]]
               /\ Execute({d}, Now(d)) /\ UNCHANGED sample

\* An adapter runs when all its devices have come to it.
Meets(d, l) == line[d] <= Len(prog[d]) /\ Now(d) = l
Communicate(d) == /\ \E op \in {"send", "back", "out"} : Running(d, op)
                  /\ LET l == Now(d)
                     IN /\ \A e \in Parties(l.op, l.s) : Meets(e, l)
                        /\ Execute(Parties(l.op, l.s), l)
                  /\ UNCHANGED <<detach, popped, sample>>

ProgramsEnded == phase = "run" /\ \A d \in Device : line[d] > Len(prog[d])
PipelineDone == (ProgramsEnded \/ Stopped \/ lost) /\ UNCHANGED pipelineVars

Build == AddBlock \/ AddConflict \/ Added \/ InsertSegments \/ Finish \/ Apply \/ LoaderOutside
Run(d) == Load(d) \/ Forward(d) \/ Backward(d) \/ Communicate(d)
PipelineNext == Build \/ (\E d \in Device : Run(d)) \/ PipelineDone

PipelineSpec == PipelineInit /\ [][PipelineNext]_pipelineVars
\* The compiler terminates, and each device process goes on when it can.
PipelineFairSpec == PipelineSpec /\ WF_pipelineVars(Build) /\ \A d \in Device : WF_pipelineVars(Run(d))

(***************************************************************************)
(* Properties.                                                             *)
(***************************************************************************)
\* "Earlier forward perform earlier backward": each backward of a segment pops
\* its own microbatch, and nothing is left when the program ends (check_clear).
\* And all devices that read samples draw them in the order of the microbatches, so that
\* a microbatch reads the same sample on the first and on the last stage.
MicrobatchesMatch ==
  /\ \A p \in popped : p[3] = p[4]
  /\ ProgramsEnded => \A d \in Device : \A s \in 0..LastStage : detach[d][s] = <<>>
  /\ \A x \in plan.loads : \A i \in 1..Len(sample[x[1]]) : sample[x[1]][i] = i - 1

\* What 1F1B is for: a stage never keeps the activations of more microbatches
\* than there are stages from it to the end.
ActivationBound ==
  plan.kind = "1f1b" => \A d \in Device, s \in 0..LastStage : Len(detach[d][s]) <= plan.S - s

\* The chain of a microbatch, and the blocks of it that all devices are through with.
Chain == [k \in 1..(2 * plan.S) |-> IF k <= plan.S THEN <<"f", k - 1>> ELSE <<"b", 2 * plan.S - k>>]
Through(m, k) == \A d \in plan.on[Chain[k][2]] : \E i \in 1..(line[d] - 1) :
                   prog[d][i].op = Chain[k][1] /\ prog[d][i].s = Chain[k][2] /\ prog[d][i].m = m

\* Only a plan written by hand, or one with a segment on all devices, is ever refused.
PlanRefused == Stopped /\ (plan.kind = "custom" \/ plan.tp)
length == [m \in Micro |-> IF m >= plan.M \/ PlanRefused THEN 0 ELSE IF mode = "train" THEN 2 * plan.S ELSE plan.S]
progress == [m \in Micro |-> Cardinality({k \in 1..(IF mode = "train" THEN 2 * plan.S ELSE plan.S) :
                                             m < plan.M /\ Through(m, k)})]

\* Each microbatch goes through its chain block by block, to the end.  Predefined
\* schedules fit their devices (add_block) and respect the data dependencies
\* (validate), whatever the number of stages and microbatches; the device programs,
\* split from one sequence, neither overtake nor wait for ever, and a line always
\* finds on its device what it reads.  A plan written by hand may be refused
\* before anything runs, and what is accepted runs as well.
Order == INSTANCE MicrobatchOrder WITH Micro <- Micro, progress <- progress, length <- length
ImplementsOrder == Order!Spec
=============================================================================
