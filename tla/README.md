# A TLA+ model of Verdict, its proof compiler and the nnscaler runtime

This repository contains *Verdict* (`src/Verdict`), a verifier that shows that
a parallelized training program of nnscaler computes what the single-device
program computes; a compiler of proof plans and emitters for a Lean development
(`src/trainverify`); scripts that regenerate the frozen inputs ("authorities")
of that development (`src/scripts/yoco_regen`); and the nnscaler library whose
programs are verified (`src/nnscaler_genmodel`). The modules here model the
parts that keep state and whose correctness depends on the order in which
things happen: the verifier's run, caches and graph construction, the planner,
the publication protocol, and in nnscaler the pipeline schedules, the
synchronisation of gradients, the trainer with its checkpoints and the reuse of
generated code.

Contents: 1 the system, 2 the models, 3 the runs, 4 fairness, 5 the proofs,
6 where code and comments disagree, 7 what is not modelled, 8 the plan.

## 1. The system

A verification run is a pipeline. Each arrow is a call in one process, except
the two that are marked.

    graph files --load_graph_w_cache--> Gs, Gp            (cache directory, shared
        |  build_graph: per rank, then fused               by all verifier processes)
        v
    lineages --get_ordered_lineages--> list of claims  Ts = compose(Tps)
        v
    stages --cut_stages_w_cache--> list of (nodes, input lineages, output lineages)
        v
    launch --multiprocessing.Pool--> run_stage in workers (processes), callbacks
        v                            in the pool's result-handler thread
    SUCCESS | FAIL and an exception

**Stage-parallel run** (`verifier.py`, `launch`). State: the shared countdown
and error flag, the pool with its state, task queue, result queue, workers and
cache of unanswered jobs. Operations: submit a stage, close, join, report (main
thread); run a stage, retire after `maxtasksperchild`, die (workers); the two
callbacks, which count down, raise the flag and terminate the pool (handler
thread). Hard: main thread and callbacks race on the pool; a termination drops
results; a killed worker takes a job with it, or the lock of a queue; a stage may
never end. Correct when SUCCESS means that every stage passed, and when an answer
comes in all other cases.

**Verifier cache** (`verifier.py`, `load_graph_w_cache`, `cut_stages_w_cache`).
State: three files per job, under the stems of the graph files, and the cells of
each graph that is being built. Operations: check, load, unlink what cannot be
loaded, write cells and read them back, truncate, dump, unlink what cannot be
stored. Hard: no lock, no rename into place, several processes, processes that die
while they write, graphs that share a stem. Correct when who shares nothing with
other graphs works on its own, and when a torn file is not there for good.

**Stage cutting** (`stage/schedule.py`). State: the lineages verified so far
and the stages formed. Operations: per lineage, skip it, take a stage known
from node alignment, or slice both graphs back to the nearest verified
lineages; then drop empty stages, merge equal ones, check the inputs. Hard:
every stage assumes what others establish, and iteration over sets decides
between candidates. Correct when the argument is not circular and loses nothing.

**Stage execution** (`stage/run.py`, `rxshape.py`). Per stage: reduce the
shapes, evaluate both slices symbolically, ask z3 for equality. Stateless
between stages.

**Lineages** (`graph/lineage.py`, `nnscaler_backend/build_lineage.py`). State:
the list of lineages, each with a map from slices to copies to summands.
Operations: align operators, collect the inputs and outputs of weight reducers,
find final gradients, set the slice maps, check covers. Hard: a gradient passes
through several versions on several ranks, and a claim must name the right
summands of each. Correct when every claim is true of a correct parallelization
and the final gradients are claimed.

**Rank dataflow** (`nnscaler_backend/build_graph.py`). State: the cell list of
a rank, `latest` versions, registered gradients. Operations: six passes over
the list. Hard: one pass hands out versions that a later pass must produce.
Correct when each version is assigned once and each reader reads the sum of all
contributions.

**Publication** (`scripts/yoco_regen`: `generate_authority.sh`,
`atomic_publish.py`, `safe_cleanup.py`, `check_publication_allowlist.py`).
State: the directory tree beside the target, open descriptors, the shell's EXIT
trap. Operations: claim a stage directory, generate into it, sweep, validate,
rename without replacement, revalidate; clean up through a quarantine name.
Hard: names are checked and used in separate system calls, runs race for one
target, runs are killed. Correct when nothing is ever replaced, nothing foreign
is emptied, and what is published is complete.

**Proof compiler** (`trainverify/bridge_emitter/proof_compiler.py`). State: the
index of writers per tensor, the two recursion stacks, the emitted steps.
Operations: check the relation and each node's rule, index writers, place the
pieces, search for cycles, walk back from the targets. Hard: in-place
collectives write a tensor several times, and each read must bind to the right
one of them; the walk is recursive and unbounded by itself. Correct when each
step of the certificate denotes what the ordered graph computes, when a
rejection has the reason it states, and when there is always an answer.

**Pipeline schedules** (`nnscaler/graph/schedule`, `codegen`,
`runtime/executor.py`). State: the plan (blocks on devices and steps), the
device programs, and at run time the tensors of each device and the executor's
queue of detached activations. Operations: add a block, validate, place
adapters and dataloaders, sort, release dead tensors; run a line. Hard: the
devices run concurrently and meet at adapters; forward and backward are paired
by position. Correct when every microbatch goes through its chain with its own
activations and samples, and no device waits for ever.

**Gradient synchronisation** (`runtime/adapter/reducer.py`, `runtime/module.py`,
`parallel.py`, `utils.py`, `flags.py`). State per rank: contiguous gradients in
buckets, which `.grad` is a view of them, counters and handles of asynchronous
collectives, process-wide flags, the modules that still have to synchronise.
Operations: zero, forward and backward with hooks, synchronise (called from
three places), step, gather. Hard: hooks fire inside the backward, collectives
overlap it, and flags decide which microbatch launches them. Correct when a
step uses every gradient exactly once and the replicas agree.

**Trainer and checkpoints** (`cli/trainer.py`, `cli/trainer_args.py`). State:
`TrainStatus`, the loop's position, and the checkpoint directory, which alone
survives a crash. Operations: train, validate, save (write, link `last` and
`best`, expire, with three barriers), resume. Hard: every rank writes its own
files and may be killed between any two. Correct when a resumed training is the
uninterrupted one and a complete checkpoint is always left.

**Generated code and its reuse** (`parallel.py`, `parallelize`). State: a
directory of generated files, on one node or on each, which outlives the
processes; in a process the programs it has imported. Operations: decide by flag,
config and files what to keep, remove the rest, write the config, trace, generate
one program per rank, send what is new, load. Hard: a call that fails or is
killed leaves a part, and the next one, with another flag or config, builds on
it; nothing is renamed into place. Correct when all ranks load what belongs
together, and no directory is beyond recovery.

The remaining components, with the reasons why they are not modelled, are in
section 7. The list of what is hard to test, line by line, is `hazards` in
`PROJECT.json`.

How the parts interact, and how the modules compose accordingly:

* `launch` consumes the stages of `cut_stages`. `CutStages` ends in two actions
  `PoolSucceeds` and `PoolFails` that are the abstract specification `Verdict`
  read over its own stages; `StagePool` is shown to implement `Verdict`. So the
  soundness of SUCCESS goes from stages (`StagePool`) to lineages (`CutStages`).
* `VerifierCache` treats graphs as values named by their contents, and stages by
  the graphs they are cut from; what the stages are is `CutStages`.
* `GradLineages` takes the version scheme (first 1, k-th contribution 2(k-1),
  k-th partial sum 2k-1, reducer one more) that `RankDataflow` hands out.
* `CutStages` takes any list of lineages; `GradLineages` says which are there
  for gradients and in which order. `ReducedAfterInputs` is what slicing needs.
* `ProofPlan`, `PipelineSchedule`, `GradientSync` and `TrainerCheckpoint` each
  implement a small abstract specification (`CertificatePlan`,
  `MicrobatchOrder`, `SynchronousTraining`, `DurableTraining`) that says what
  their users rely on. The layers compose by these promises: a train step of
  `TrainerCheckpoint` is an iteration of `GradientSync`, whose microbatches run
  in the device programs of `PipelineSchedule`.
* `CodeReuse` treats a program as a value named by its config and its trace;
  what is in it is `PipelineSchedule`.
* `Publish` shares nothing with the rest.

## 2. The models

| module | code | state <-> code |
|---|---|---|
| `Verdict` | contract of `launch` | `verdict` is what the caller has been told, `holds` the truth |
| `StagePool` | `verifier.py` 85-140 | `counter`, `errorFlag` the `mp.Value`s; `main` the program counter of `launch`; `pool`, `cache`, `taken`, `job`, `ran`, `outq`, `handler`, `broken` the parts of the pool of CPython that the callbacks race with |
| `CutStages` | `schedule.py`, `stage.py`, `lineage.py` | `ordered` the list, `verified` the keys of `verified_Ts_lngs`, `cut` and `stages` the lists before and after pruning, `checked` the set of `_check_input_equivs_validity` |
| `RankDataflow` | `build_graph.py`, `_prepare_rank_cells` | `cells`, `ret` the list a pass reads and builds; `latest`, `grads`, `maxv` its dictionaries |
| `GradLineages` | `build_lineage.py` | `ins`, `outs`, `final` the three dictionaries by single-device gradient, `lngs` the list, `copies` the slice maps |
| `VerifierCache` | `verifier.py` 200-300, `build_graph.py` (`build_graph`) | `file` the dumps in each file, `open` who has it open, `view` what a reader sees in it, `pc`, `kind` where a process is, `got` what it works on; `met` and `raced` are history |
| `CertificatePlan` | contract of `compile_proof_plan` | `plan`, `targets`, `answer`: what has been returned so far |
| `ProofPlan` | `proof_compiler.py` 671-940 | `writers` the index, `stack` the frames of `cycle_visit` and `visit`, `closed` `cycle_done`, `steps` `ordered`, `diag` the code of the diagnostic |
| `MicrobatchOrder` | contract of a schedule | `progress` of a microbatch through its chain of `length` blocks |
| `PipelineSchedule` | `graph/schedule`, `codegen/schedule`, `lifecycle.py`, `executor.py` | `blocks` the plan, `prog` and `line` the device programs, `have` their tensors, `detach` `Executor._detach` |
| `SynchronousTraining` | contract of data parallel training | `computed`, `updated`: iterations per process |
| `GradientSync` | `reducer.py`, `module.py`, `parallel.py`, `utils.py` | `buf` the contiguous gradients, `grad` who has a view, `count`, `handle` of the buckets, `flags` `RuntimeFlag`, `required` `_sync_grad_required`, `w` the parameters |
| `DurableTraining` | contract of checkpoints | `done` steps, `safe` recorded ones |
| `TrainerCheckpoint` | `trainer.py`, `trainer_args.py` | `at` the position in the loop, `fin`, `best` of `TrainStatus`, `sv` where a rank is in a save; `dirs`, `file`, `last`, `bestf` the checkpoint directory |
| `CodeReuse` | `parallel.py`, `module.py`, `frame.py` | `dir` the files of each node's directory, `phase` and `todo` where the call is and which files are next, `call` its arguments and decisions, `loaded` what the process of a rank has read; `unsent` and `half` are history |
| `Publish` | `scripts/yoco_regen` | inodes with contents; `out`, `stage`, `quarantine` the names; `fd` the open descriptor of a run; `swapped` is history |

`map` in `PROJECT.json` has the lines of every definition.

**StagePool.** One action per operation of the main thread (`Submit`,
`SubmitRefused`, `Close`, `Join`, `Report`), per step of a worker (`TakeTask`,
`RunStage`, `WorkerExits`, `Repopulate`, `Kill`) and per callback. A failed
stage's callback raises the flag, which is visible before the pool is terminated.
A stage may raise although its equivalence holds (solver unknown, shape mismatch)
but returns only when it holds, and it may never do either: the solver is given no
time limit (`z3_backend/core.py` 40-49, `main.py` 31-35). The pool's machinery is
external code, modelled from how `launch` uses it: FIFO tasks, results in the order
they are put, slots of dead workers filled until the pool is drained, `join` that
waits for handler and workers. `terminate`, which a callback calls, closes the pool
to submissions, then takes the lock of the task queue and that of the result queue
and ends all workers (`EndWorkers`), then waits for the task thread, which needs the
result queue's lock once more (`Terminated`). An idle worker waits with the lock of
the task queue, one that delivers a result holds that of the result queue: who is
killed then keeps it for ever (`broken`).

**CutStages.** The graphs are constants; both are one graph with disjoint
tensors. `Upstream` is the breadth-first walk, `Frontier`, `SubgraphNodes` and
`Nearest` the three searches of `schedule.py`. Where the code iterates over a
set (which of the equally near lineages is taken; whether two lists of inputs
come out in the same order) the model chooses. `truth` is the set of lineages
that really hold; no action before the pool phase reads it. It is arbitrary but
contains the initialized lineages: inputs and parameters are equal by
assumption.

**RankDataflow.** A program is a list of cells with operator kind, inputs and
outputs. Each pass handles one cell per step, as the code's loops do. Tensors
carry a version and whether they are the copy in flight of a send; kwargs,
shapes, operator names and the mirror of gradients are left out. What remains of
them is which gradient a cell registers for which weight (`regs`).

**GradLineages.** A world is a parallelization: data-parallel times
tensor-parallel ranks, microbatches, a layout per weight and the weights that
have reducers. Reducers are visited in any order, the gradients in any order,
since both come from orders of graphs and sets the world does not determine.
`Parts` is not in the code: it is the ground truth, the set of contributions
that are really summed in a tensor, against which `ClaimsHold` compares.

**VerifierCache.** Graphs are named by their contents, files by stems
(`Stem`), so two graphs may share a file, and `stages.pkl` is known by the parallel
graph's stem alone. A file is the set of dumps written to it since it was truncated,
each with its writer and its value, `Torn` when the writer has stopped early.
Opening, reading, writing and closing are steps: a writer whose file has been
unlinked writes what no one else opens (`Remove`), and who truncates a file that
others write finds their dumps in it, too (`Overwrite`). A reader may find any value
that is there in full, or fail; where several dumps lie over each other it may also
read a value of none of them (`Mixed`). Even without a cache a graph is built through
files under its stem, the cells of the ranks, which `WriteCells` and `ReadCells`
treat the same way. Every process runs `Start` once; a later process is one that
starts late.

**Publish.** One system call on a name per step. `Fail` stands for the failure
of any command under `set -e`, in which case the trap runs; `CleanFail` for an
exception in the cleanup itself, at any of its steps and with any part of the tree
removed, which the trap ignores (`generate_authority.sh` 76-77); `Crash` for a kill
without trap. The owner of the tree may archive a published directory, put an
unrelated one at the target, or replace a stage by an unrelated one, at most
`MaxMoves` times. The unrelated directory may be empty, hold something else, or hold
the names of an authority: `publish_validated_directory` takes it for the stage then
(`atomic_publish.py` 89-94).

**ProofPlan.** The recursions of `cycle_visit` and `visit` are a stack of
frames, and each turn of a loop is a step. The producer of an input is the
writer at the greatest eligible position of the index (`Eligible`), the last of
the list that `producer_before` filters. Shapes are one bit of a goal, and
messages are their codes. Ground truth that is not in the code: `Env`, the term
in each tensor after each node of the ordered graph, and `Denoted`, the term a
certificate step stands for according to its own dependencies.

**PipelineSchedule.** The formulas of the predefined schedules are operators
(`OneFOneB`, `GPipe`, `Chimera`, `InferPipe`), each the set of its blocks;
`AddBlock` executes them block by block with the conflict test of `add_block`. `Program`
is what `_place_adapters`, `_place_dataloader` and `topo_sort` make of a plan.
An adapter is one step of all the devices it connects. A line that reads a
tensor its device does not have takes the job down (`lost`). Training programs
are also run in inference, without their backward lines, as `_infer_step` does.
A line carries its place in the sequence as a key, the step and the rank in it;
`TopoSort` counts the smaller keys. A plan written by hand has what
`Executor.backward` asks of it (`CustomAssumption`): every block of every
microbatch once, and the microbatches of a stage in order.

**GradientSync.** Gradients are counted and not computed: a position of a
buffer is the number of microbatch gradients of each rank it has summed. That
tells a lost gradient, a doubled one and one that is summed over the wrong
group apart. The drivers are the ways in which the machinery is called: the
generated train step; the trainer's step of a model with parallel submodules
(`"mixed"`), which enters `nnscaler.sync_grad_when` (`mixed_module.py` 243), which
does not exist, so that its first microbatch raises; a user's own loop over such a
model with the optimizer of `build_optimizer`, as in the tests (`"submodules"`); and
the bare loop of `test_grad_accum.py`. A configuration says which modules are run in
an iteration. A collective is one step, of all ranks of its group, when each
has it at the head of what it has called.

**TrainerCheckpoint.** Train steps and validations are collective, so the loop
has one position; inside a save each rank has its own. A batch is the interval
of micro batches it takes from the loader. Opening a checkpoint file truncates
it; a crash between any two steps of any rank loses everything but the
directory. A launch, after a crash or to train on, resumes from what a
configuration says: `last`, `best`, or the newest directory that is complete. That
choice is the user's and marked external. `Onward` says that the launches so far went
on where the former left off, which is what the checkpoint machinery is written for;
the model does not require it. If the ranks find different steps there, or less than
a checkpoint, they go `"apart"`, or the launch is `"refused"`.

**CodeReuse.** The files are numbered in the order in which a generation writes
them, and `todo` is the set of those still to be written or sent: the least is
next. A file is known by the config it was made for, the call whose trace it
belongs to and whether it is whole. The first rank acts; the others wait in
barriers until files are sent and programs loaded, so a call that raises ends the
job. A refused call raises before anything is done, and its caller may go on. A
call ends early in two ways: between two files (`Fail`), or inside a step
(`CutShort`), by a kill or because the step itself raises. A cleanup cut short
leaves any part of the files (375-377), a file that was being written or received
is cut short itself, a program may be there without its schedule, since
`sgener.gen` appends it to what `mgener.gen` has written (825-839), and a
broadcast may end between two files (2064-2073). A program that is cut short may
still be imported. Each node has one rank. Either the nodes share a directory and
send nothing, or each has its own and everything new is sent: the two uses that
`docs/source/parallel_module.md` recommends.

Some definitions come in pairs, such as `(CountOneShort, InitialCount)`. The
first is what a plausible slip would make of the second; no action uses it.
Substituting it must break a property, and `mutants` says which. It is the
evidence that the property depends on this line of the code.

## 3. The runs

All counts are distinct states. Deadlock is checked except where a system
really ends (`stage_pool` when a job is lost or never ends, `publish`,
`verifier_cache`, `code_reuse` when all calls are made) and in the two last
violations.

| run | instance | states | question |
|---|---|---|---|
| `stage_pool` | 3 stages, 2 workers, 2 tasks per worker, 1 kill | 109 878 | does `launch` answer, and soundly, under every interleaving |
| `front_end` | three parts, see below | 83 251 | is what the pool gets to check sound and complete |
| `publish` | 2 runs, 2 moves, 3 contents of the unrelated directory | 982 459 | is the target never replaced and always complete |
| `verifier_cache` | 2 processes, 3 pairs of graphs of which some share a stem, 4 switch settings | 5 102 495 | who can come to work on a wrong value |
| `proof_plan` | goals of up to 3 parallel nodes over 3 tensors and 2 ranks | 203 951 | does a certificate denote its goal, is a rejection justified |
| `pipeline` | 5 predefined schedules, up to 4 stages on 4 devices, up to 4 microbatches; hand-written plans of 2 stages | 7 553 | does every microbatch get through, with its own tensors |
| `gradient_sync` | 2 and 4 ranks, 2 iterations of up to 2 microbatches, 24 configurations | 153 726 | does a step use each gradient once |
| `trainer` | 2 ranks, 4 steps in 2 epochs, up to 2 crashes, 31 configurations | 132 348 | is a resumed training the uninterrupted one |
| `code_reuse` | 2 nodes, 3 configs, 4 calls, 1 cut short inside a step, any number of failures | 2 850 444 | does what is loaded belong together, whatever earlier calls left |
| `grad_lineages_local` | violation | | section 6 |
| `code_reuse_match` | violation | | section 6 |
| `trainer_late` | violation | | section 6 |

`front_end` (`MCFrontEnd`) checks three modules that a verification goes through
before its pool starts. They share no state, so the run puts them side by side: the
variable `working` says which one a behaviour is about, and the others rest.
`MCRankDataflow` has 145 schedules, `MCGradLineages` up to 4 ranks, 3 microbatches
and 2 weights, `MCCutStages` a tensor-parallel layer (11 operators) and the gradient
of a weight (12), with 6 lineages each.

Properties and what they say of the code:

* `stage_pool`: `SuccessSound` (SUCCESS only if all stages hold, although a
  termination drops results); `RefusedOnlyOnError` (the countdown never closes a
  pool that is still being filled); `Answers` (liveness with three exceptions, which
  the code has: see section 4); `Implements` (refines `Verdict`, so there is at most
  one answer and a sound one).
* `front_end`, stages: `SuccessSound` (no circular argument: all kept stages passing
  makes every established lineage true); `NothingDropped` (a lineage recorded as
  verified and then pruned only restates another); `StageComputesOutputs` (a
  stage contains the producers of what it claims). Dataflow: `SingleAssignment` and
  `ReadsEverythingOnce` relate the versions one pass hands out with the sums that
  another injects. Lineages: `ClaimsHold` (each copy of each slice sums up exactly
  that slice), `FinalsDiscovered`, `ReducedAfterInputs`.
* `publish`: `NeverReplaced`, `SuccessIsOwn`, `UnrelatedKept` are action
  properties; `PublishedComplete`, `NoLeftover` invariants. `NoLeftover` has three
  exceptions, which the code has: a directory made before the trap is set, a
  cleanup that raises (before its rename the stage stays, after it a quarantine), and
  a stage somebody replaced. `SuccessIsOwn` has one: nothing compares the directory
  that is opened for publication with the one the run has made, so a replaced stage
  with the right names is published as a success.
* `verifier_cache`: `ServesOwnGraphs` (who gets through works on its own graphs and
  on stages cut from them, unless something misled it: `Misled` says which files can,
  those that two runs take for the cache of different graphs, and those that were
  overwritten while someone had them open, whether cache files or cells);
  `QuietCacheWhole` (runs that did not
  overlap and were not stopped leave whole files: after a graph that cannot be
  stored nothing is left behind); `LoneRunRecovers` (a torn file ends
  no run that is alone; the `FileNotFoundError` of a second unlink needs another
  process).
* `proof_plan`: `PlanDenotesGoal` (each certificate step, evaluated from its
  recorded sources alone, is the value the ordered graph computes, and the
  target steps are the final values); `RejectionsJustified` (a cycle is reported
  exactly for cyclic goals, a missing producer only when there is none);
  `BuildsCertificate` (refines `CertificatePlan`: steps come after their
  dependencies, once, and an answer comes).
* `pipeline`: `ImplementsOrder` (refines `MicrobatchOrder`: predefined plans are
  accepted, device programs find every tensor they read, do not overtake or
  deadlock, and finish); `MicrobatchesMatch` (a backward pops its own microbatch,
  and all stages draw the same sample for it); `ActivationBound` (what 1F1B is
  for).
* `gradient_sync`: `StepUsesAll` (every gradient once; where the first module is
  not run, none at all, on all ranks: `Unnoticed`), `ReplicasAgree`, `InFlightKept`
  (a buffer is not written under its collective), `Implements` (refines
  `SynchronousTraining`: nothing raises and collectives match, unless the job
  uses an asynchronous reducer in a way it refuses, or is the trainer's step of a
  mixed model, which always raises).
* `trainer`: `AsUninterrupted` (the batches are those of an uninterrupted run,
  whatever was lost and wherever it resumes from; so are the learning rates, unless a
  scheduler stepped per epoch is saved at an epoch's end, `SchedulerLate`; and the
  ranks resume from one step as long as launches go on from the newest checkpoint,
  `Onward`). Under `Onward`, too: `CheckpointsSound` (once a save is
  complete, a checkpoint at least as new is there for ever, and links lead to
  whole files); `KeepsLastN` (the newest are there, whole, at any time and for any
  number of nodes that expire; with one node the others are gone after a save);
  `Implements` (refines `DurableTraining`: training ends, and is durable).
  `BestIsLowest` is about the first launch.
* `code_reuse`: `LoadedTogether` (the programs and the data of all ranks are of
  the config asked for and of one trace, for every history of failures and one call
  cut short, except after the three events its comment names, `Trusted`, and after
  those when everything is regenerated); `CodeKept` (MATCH never changes a program
  that is there, and no call changes one that is in use); `NeverStuck` (OVERRIDE gets
  out of every directory; other calls are broken by what they find only after one was
  cut short or left files unsent; and only MATCH, or a process that has loaded the
  code, is refused).

The runs `stage_pool` and `front_end` check the type invariant of `StagePool` and
`CutStages` as well; those of the other modules with proofs are stated and proved
in the proof module (section 5).

Why the bounds are enough to see the interesting cases. *StagePool*: with three
stages, two workers and two tasks per worker a worker retires before the last
stage, a stage is queued while both workers are busy, results queue up behind a
failing one, and a kill can hit before, between and after answers. One kill
suffices to lose a job or to break a queue; further ones lose further jobs.
*CutStages*: `Tp` has stages with known nodes, sliced stages, several sources of a
stage and an operator (multiref) whose two outputs have lineages of their own, so
that stages are merged; `Dp` has four lineages of one tensor, so that the nearest
one matters, and a stage that is empty. The order of the lineages starts with the
initialized ones and is otherwise free (in `Dp` the last one is one of two); the
true ones are any set that has the initialized ones. In many orders cutting or its
last check refuses, as it does in the code. *Publish*: two runs make a race for
the target; two moves allow an archive between two publications, or a swap and an
occupation; the unrelated directory is empty, or foreign, or like an authority.
*RankDataflow*: three contributions are the first for which the scheme of versions
is not trivially right, and two microbatches with a residual gradient per
microbatch and a chunk that is repeated give up to four writes of one name.
*GradLineages*: two ranks in each dimension are needed to tell groups apart, three
microbatches to tell versions from counts. *VerifierCache*: two processes, all
combinations of failures and kills; a third would repeat what two do, as files are
shared pairwise. The jobs are one pair of graphs with all combinations of the
switches, the same single-device graph with another parallel one, and another
single-device graph of the same stem with the same parallel one, which is a
dispute about two files.

*ProofPlan*: three nodes give an original write, an in-place one and a reader,
in every order; two ranks tell equivalent rewrites from sensitive operators.
*PipelineSchedule*: more microbatches than stages reach the steady state of
1F1B, fewer its corner.
Hand-written plans are all assignments of small start steps to the four blocks of two
stages, with stages on two devices, on one, or sharing one.
*GradientSync*: three parameters in two buckets are the least for which a bucket
completes while another is open; all orders of their gradients are tried; two
iterations show state that is left over; four ranks in two ZeRO groups tell a
group from its cross group; one configuration does not run its first module, one is
the mixed model. *TrainerCheckpoint*: three micro batches in steps of
two leave a short last step per epoch; two epochs cross its end; two crashes
interrupt a resumed run again; intervals of one to three steps or an epoch
coincide and miss each other. Some configurations resume from `last` after a
crash, from `best`, or with a lower limit than before (`Astray`), and one saves an
epoch scheduler at an epoch's end: there the properties claim what is left to claim.
The last launch of every configuration has a limit of `Steps` steps.

*CodeReuse*: two configs that differ in the plan only and one with another graph
tell the two comparisons apart; four calls are a generation, a cleanup that is
cut short, a failure on top of it and the call that loads.

Symmetry is used in `publish` and `verifier_cache` over the processes, which no
temporal liveness property there depends on.

## 4. Fairness

Liveness is checked in five runs, each under the fairness the code
justifies.

*StagePool.* `FairSpec` asks weak fairness of the main thread, of the result
handler and of the pool's own code in a worker (`TakeTask`, `WorkerExits`,
`Repopulate`): threads and processes are scheduled by the operating system.
`RunStage` is under no fairness, since nothing bounds the time of a solver call, nor
is `Kill`, since no worker has to die. `Answers` says that `launch` answers except in
three cases, all real: a killed worker took an unanswered stage with it (`Lost`),
and CPython's pool waits for it forever; a worker died with the lock of a queue
(`broken`); a worker runs one stage for ever. Its second part has one exception only:
once the error callback has run, termination ends the join even when jobs are lost
or stages never end, unless `terminate` itself waits for a lock that died.

*ProofPlan.* The planner is one sequential function: `WF(Next)` says that it
runs until it returns. That its recursion ends is what is checked.

*PipelineSchedule.* The compiler runs to its end, and each device process goes
on when it can; an adapter needs all its devices, which no fairness promises.

*GradientSync.* Each process goes on when it can, and the communication library
completes a collective that all ranks of the group have called.

*TrainerCheckpoint.* The loop and each rank's part of a save go on; crashes are
finitely many (`cfg.crashes`), and the user relaunches a job that crashed.

## 5. The proofs

Each proof module extends the modules it is about, and its theorems hold for every
value of the constants that satisfies the assumption named; `theorems` in `PROJECT.json`
lists them. Every inductive invariant was first checked by TLC on the instance
of its run (that of `ProofPlanProofs` on a part of it).

Two modules prove about two parts each: `ScheduleProofs` about what schedules
stages, `StagePool` and `PipelineSchedule`, and `BackendProofs` about
`RankDataflow` and `GradLineages`.

`ScheduleProofs` on `StagePool`, for every number of stages, finite set of
workers, tasks per worker and kills (`StagePoolAssumption`): `TypeCorrect`,
`SuccessIsSound` (`SuccessSound`), `RefusedIsError` (`RefusedOnlyOnError`) and
`Refinement` (`Implements`). The inductive invariant is `TypeOK /\ InFlight /\
Results /\ Countdown /\ Control`. `SuccessSound` is far from inductive: that no
error flag at the report means that all stages hold needs that every stage has
been answered (`Control`: a handler that exits without error has seen all of
them), that an answered stage holds (`Countdown`, from `Results`), and that the
pool is terminated without an error only by a countdown that is the number of open
stages (`Countdown`: `counter = Cardinality(Stage \ Answered)`), which in turn
needs that an unanswered job is in one place (`InFlight`). There is one lemma per
action, and one step per conjunct under it. The refinement maps `main` to
`verdict`; every step is a `Succeed`, a `Fail` or a stutter.

`CutStagesProofs`, for any lineages, hints and orders (`CutAssumption`).
`TypeCorrect` and `SuccessIsSound` (`SuccessSound`) hold for any graphs. Their
invariant adds to the types `Assumed` (initialized lineages hold) and
`ChainSound`: while stage `i` is being checked, *if* the stages before it hold
given their inputs, then all checked lineages are true. The implication is what
makes it inductive: the checks of stages happen later, in the pool, and all at
once. It does not need anything about how the stages were sliced, and that is the
point: slicing and pruning may be wrong in any way without SUCCESS becoming
unsound, because the last check guards it. What slicing is for are
`NothingIsDropped` (`NothingDropped`) and `StagesCompute`
(`StageComputesOutputs`), and there the graphs matter (`GraphAssumption`):
finitely many operators; a tensor without producer is initialized, as `DFG`
collects its leaves (`build_graph.py` 341-348); and a hint names operators that
compute its tensors or finds them in a lineage it depends on (`build_lineage.py`
122-126, 163-166). The invariant adds that the list has been worked through up to
`i` (`Behind`), that each lineage behind has a stage, and an empty stage only a
lineage that restates another (`Formed`), that the stages compute their lineages
from their inputs (`Explained`) and that pruning leaves out only what is empty or
established (`Pruned`). That a sliced stage does so rests on lemmas about the walk
upstream: it keeps its start (`StartIsUpstream`), so it contains every producer of
a target that is no source; and it goes nowhere from a tensor that is a source
itself or that nothing computes (`NothingUpstream`).

`PublishProofs`, for every finite set of runs and number of moves by the owner
(`PublishAssumption`): `TypeCorrect`, `PublicationIsComplete`
(`PublishedComplete`), `NothingLeft` (`NoLeftover`), `TargetKept`
(`NeverReplaced`), `SuccessReported` (`SuccessIsOwn`) and `ForeignKept`
(`UnrelatedKept`): all properties of the run. The invariant rests on two facts.
A directory has at most one name (`OwnNames`, `OneName`), so nobody reaches a
published or quarantined directory by its old name; and the position of a run in
its script says where its directory is and what is in it (`Located`, `Known`),
whatever the others and the owner do, and a cleanup that raises leaves what it has
not removed where it is. The action properties follow from it one
system call at a time: `renameat2` finds its target empty, and what a cleanup
empties is known to be the run's own by the check after the quarantine rename.

`VerifierCacheProofs`, for every set of processes, jobs and graphs and any naming of
them (`CacheAssumption` only says that switches are Booleans): `TypeCorrect`,
`OwnGraphsServed` (`ServesOwnGraphs`), `QuietCacheIsWhole`
(`QuietCacheWhole`) and `TornFileIsRecovered` (`LoneRunRecovers`). The first is a
fact about files: in a file that no two jobs dispute, and that was never overwritten
while open, lies at most one dump, of the value all its users take it for (`Stored`),
and a reader sees no more than that (`Viewed`). What a process has got is then its own
unless it was misled (`Progress`); for the stages, which somebody else may have cut
from what he had loaded, this takes all three of his files (`Shared`, `CutIsOwn`).
The other two need to know who is under way: `Opened` (who has a file open is at it),
`Alone` (while nobody has met anybody, one is active), `Found` and `Settled` (what a
process that is alone knows of the file it looks at, and leaves behind).

`CodeReuseProofs`, for any number of nodes, configs, calls and calls cut short
(`ReuseAssumption`): `TypeCorrect`, `AlwaysAWayOut` (`NeverStuck`), `CodeIsKept`
(`CodeKept`) and `LoadsTogether` (`LoadedTogether`): all properties of the run.
The files are numbered in the order in which they are written, so "an earlier
file" is a smaller number. As long as no cleanup was cut short (`half`), the files
of a directory fit together in the ways the tests at the start of a call rely on
(`Fits`: where the last file of a trace is, all others are beside it; what can be
read with the config is of the same graph; programs belong to trace and config). A
generation breaks this file by file; what holds meanwhile is said by the phase
(`Cleaning`, `Writing`, `Sending`, `Loading`), and the other nodes' directories
differ from the first only in files still unsent (`Synced`, `Cut`).

`BackendProofs` is about two modules. `GradLineages`, for every number of ranks,
microbatches and weights, every layout and order of the reducers
(`LineageAssumption` gives the types; `ReducerAssumption`: a weight has reducers
where several ranks have different parts of one slice of its gradient, and experts
have none): `TypeCorrect`, `ClaimsAreTrue` (`ClaimsHold`), `FinalsAreDiscovered`
(`FinalsDiscovered`) and `InputsComeFirst` (`ReducedAfterInputs`): all properties
of the run. Every lineage in the list is one of three: the backward operators',
the reducers' inputs', the reducers' outputs' (`Listed`), because the dictionaries
hold what the visited reducers take and put out (`Gathered`) and are read when all
have been visited. That each copy is its slice follows from two lemmas.
`PartsAre`: of the versions 1, 2, 4, ... the k-th has the part of microbatch k,
the last odd one all parts, a reducer's output those of its ranks.
`PeersMakeWhole`: the ranks whose parts are added up have different parts of the
slice, and together all. Where an earlier lineage is kept in place of an equal
one, it comes even earlier (`FirstOfSame`).

`RankDataflow`, also in `BackendProofs`, for every set of tensors and every list
of cells (`DataflowAssumption` gives the types; `ProgramAssumption` is what the
planner gives: tensors have no versions yet, sums are not there yet, a chunk puts
out one tensor, an identity copies one, which the code asserts, and the reducers
are behind all other cells, each weight in one of them, as `gen_weight` inserts
them last): `DataflowTypeCorrect` and `AssignedOnce` (`SingleAssignment`). The
versions of one tensor come from three passes, and the invariant says why they
never clash. While versions are handed out the count of a tensor is 0 or odd and
every output has a version above the count before it and up to the count after it,
1 or even (`Numbered`, `First`). A sum gets the odd version above 2 that follows
an even one, and the version before it is among the outputs (`Summed`), so it
equals no first version and tells whose sum it is. A reducer puts out a version
above all there were (`ReducedOnce`); if two put out the same, they reduce one
gradient, so one weight (`Apart`: the code asserts that a gradient is registered
for one weight), and no weight is in two reducers (`InOrder`: reducers come last,
and share no weight, through all passes before they are split). What the recursive
functions `Above`, `Counts` and `Registered` give is in lemmas of the section on
sequences.

`TrainerCheckpointProofs`, for every number of ranks, length of the loader,
losses and configurations (`TrainerAssumption` only gives them their types and says
that no launch has a limit above `Steps`): `TypeCorrect`, `ResumesAsUninterrupted`
(`AsUninterrupted`), `CheckpointsStaySound` (`CheckpointsSound`),
`ExpiryKeepsLastN` (`KeepsLastN`), `BestStaysLowest` (`BestIsLowest`): all
invariants of the run; and `TrainsDurably`, the safety half of `Implements`.
There are two invariants (`Invariance`). `BInv` holds whatever launches resume from:
the position in the loop says how far the training is (`Placed`), it was trained on
the batches it should (`Trained`), and so was every checkpoint that can be loaded
(`Kept`). `IInv` holds as long as launches go on where the former left off
(`Onward`), and once they do not, they never do again (`OnwardBefore`). It adds which
saves are behind (`Dealt`), and that every step a save is due after and that is
behind has a complete checkpoint at it or after it (`Cover`), even while the newest
is being written: so a directory left by a crash is never newer than the next save,
which writes it anew. Then, what a rank still has to do in a save says what it has
written (`Written`) or may remove (`Removing`: only what `keep` newer ones were saved
after, whoever else removes at the same time), and the others' links agree with
its own, so that the first file of `last` or `best` speaks for all. In the
refinement `TrainStep` is `Train`, the second barrier of a save `Record`, and a
crash or the end of a launch `Interrupt`; everything else stutters.

`ProofPlanProofs`, for every registry and goals of any length
(`ProofPlanAssumption`, which only gives the goals their types): `TypeCorrect`,
`PlanDenotes` (`PlanDenotesGoal`), `RejectionsAreJustified`
(`RejectionsJustified`) and `CertificateGrows`, which is the safety half of
`BuildsCertificate`: every step is one of `CertificatePlan` or leaves it alone.
The invariant says that the index lists the writers of a tensor in order
(`Written`), that each open frame has served the inputs before its cursor from
the index (`Open`), that an emitted step has its dependencies before it
(`Ordered`) and that the stack is a way from an open target (`Aimed`, `Fresh`);
and for the search for cycles that closed nodes can be ranked by what they read
and the open ones form a path (`Searched`). A step then denotes its tensor's
value by induction on its position: its source is the last writer before the
node (`Eligible`), and between that writer and the node nobody changes the
tensor. That a reported cycle is one, and that a goal past the search has none,
is the pair path and rank: a path that closes is a cycle, and a rank excludes
one.

`ScheduleProofs` on `PipelineSchedule`, for any plans of any number of stages and
microbatches on any devices (`PipelineAssumption`, `CustomAssumption`):
`BackwardPopsItsOwn` (`MicrobatchesMatch`), `OneFOneBIsBounded`
(`ActivationBound`) and `MicrobatchesInOrder`, the safety half of
`ImplementsOrder`. There are four layers.

1. *Formulas.* 1F1B and GPipe ask of each step and stage which block is there;
   the lemmas turn that around (`OneFOneBBlocks`: microbatch m of stage s goes
   forward at s + 2m and backward at 2m + 2S - 1 - s). So every schedule has each
   block once and takes the microbatches of a stage in order (`InOrder`), for all
   parameters; of a plan written by hand this is `CustomAssumption`.
2. *Programs.* The keys of a device's lines are totally ordered and different
   (`KeysDiffer`, from the conflict test of `add_block`), and `TopoSort` then sorts
   any finite set (`ProgramSorted`). So a program takes each stage in turn,
   backward after forward by `Valid`, under 1F1B before the stage is more than
   S - s microbatches ahead (`ProgramsFit`), and loads the samples that are read in order
   (`LoadersInOrder`: the first reader of the later one has read the earlier).
3. *Run.* How far a device is in its program says how many microbatches each
   stage has taken forward and backward (`Count`), and what is detached is
   exactly the interval between them (`Held`). That is the inductive invariant
   `PipelineInv`; that a backward pops its own microbatch, that nothing is left
   at the end and that the 1F1B bound holds follow from it, since both counts
   run from 0 to M.
4. *Refinement.* A step moves some devices by one line, the same for all of them
   (`Advances`), so at most one microbatch advances and by one block; its chain
   has one place for a block (`SameBlock`).

What the proofs do not say is that a line finds what it reads and that nobody
waits for ever (`lost`, a meeting nobody comes to): that is the liveness half
of `ImplementsOrder`, which the run checks. `MicrobatchesMatch` speaks of the
order of samples on devices that read them: a loader nobody reads gets all its
samples at one step, in descending order.

Induction. The library's induction theorems take an operator and cannot be
used. Where a fact about a recursive function is needed (`Upstream`, `Reached`,
`Env`, `Denoted`), the set of numbers for which it holds is shown to be all of
them by a least counterexample, from `WFMin` and `NatLessThanWellFounded`
(`Least`, `AllOf`). It is enough for functions over an interval; nothing here
needed induction over other data.

Only model-checked: everything about liveness, since fairness and `ENABLED` are
beyond the prover (`Answers` of `StagePool`; the parts of `BuildsCertificate`,
`ImplementsOrder` and the two `Implements` of `GradientSync` and
`TrainerCheckpoint` that say that an answer comes or a training ends); and
`ReadsEverythingOnce` of `RankDataflow`, whose `Sum` is a recursion over the cells
(induction over data); and `GradientSync`. Its safety properties relate the
buffers of all ranks, the hooks that have fired and the calls under way through a
whole iteration of each of three drivers; the invariant that would say this is
about the size of the module.

## 6. Where the code and its comments disagree

Three are runs that are expected to find a violation; the exact quotes are under
`findings`.

* `grad_lineages_local`: the branch for gradients that are accumulated on one
  rank and not reduced builds a `Tensor` with four of its five fields
  (`build_lineage.py:188`) and raises, so no lineages are returned. (The run
  `front_end` has these worlds too: its properties are about the lineages
  that are returned.)
* `code_reuse_match` (`MatchReuses`): a generation ends with `final_graph.ckp`
  (`parallel.py:840`), which is not among the files `_prepare_and_check_reusable`
  expects, and it compares their number (541-544). So a generation that was completed
  is never reused: MATCH raises and MOO generates again, although line 399 says
  "reuse if present and match", `docs/source/parallel_module.md:210` relies on it and
  `tests/parallel_module/test_override.py:55` says "do nothing". What is reused is a
  generation that stopped before its last file, possibly with its last program
  cut short, which is one of the exceptions of `LoadedTogether`.
* `trainer_late` (`RatesKept`): with an epoch scheduler, the default interval, the
  epoch's step comes after the epoch's save (`trainer.py:797`), so a run resumed from
  there is one behind for good.

Others were met while reading and are stated here without a run.

* Lineages and graphs. Of the gradients registered for a weight the reducer
  takes "the LAST", said to be the final one (`build_graph.py:558`), but they
  are registered in forward order and written in reverse. The loop that checks
  the final lineages (`build_lineage.py:254-256`) reads the variable of the loop
  before it. The cache write of a deeply nested graph ends the run with
  `RecursionError`, where the comment promises to skip the cache
  (`verifier.py:242-247`).
* Schedules. `sched_1f1b_plus` calls `SchedulePlan.segments`, which does not
  exist, when a segment is on all devices (`predefined.py:106`; the plan
  `Shared` of the run is refused for this reason). `validate` compares start
  steps, while a block of several steps sends after its last
  (`schedplan.py:385-394`), so a hand-written plan can read too early; the
  hand-written plans of the run have blocks of one step. `finish` promises "full
  micro-batches" (`schedplan.py:365`) but accepts a plan that lacks one. A loader
  that nobody reads is placed by a leftover variable (`schedplan.py:294`); with
  a block of two steps it raises, which the run contains as a refusal.
  `tests/graph/schedule/test_interleaved_1f1b.py` and `docs/source/trainer.rst:833`
  name `1f1b_interleaved`, but `sched_1f1b_interleaved` does not exist: the
  operations that `interleaved_1f1b.py` lists are placed into no plan, and so the
  schedule is not modelled.
* Gradients. `_sync_shard_grad` looks at the first parallel module only
  (`parallel.py:1363-1366`): if that one has not run in an iteration, no module is
  synchronised and the step applies nothing. The run has such configurations, and
  `StepUsesAll` and `Implements` name the case (`Unnoticed`).
  `flags.py:66-80` describes the flags the other way round than
  `accum_mode` sets them (`utils.py:231-232`), which is the slip
  `AccumFlagsAsDocumented`. `accum_mode.steps` does not restore the flags when
  its loop is left early. `cli/mixed_module.py:243` uses `nnscaler.sync_grad_when`,
  which does not exist, so `Trainer` does not train a model with parallel submodules:
  the driver `"mixed"`, which raises.
* Checkpoints. `best_loss` has no annotation and is no field of the dataclass
  (`trainer.py:49`), so no checkpoint records it: the first save of a training
  that is trained on becomes the best, whatever its loss, where
  `docs/source/trainer.rst:515` promises the lowest. `BestIsLowest` is therefore
  about a launch from the start. A crash inside a save can leave `last` with links
  of two steps, which is accepted as complete (`trainer.py:370-376`), and a
  training resumed from an older step saves files again that are linked already:
  the run has both (`at = "apart"`), and the properties that need `Onward` say so.
  Without a validation set `best_loss` stays infinite and every save is the best
  (`trainer.py:811-814`). With copies instead of links, expiry after resuming from
  an older step removes the checkpoint just written (`trainer.py:615`).
* Generated code. A call that
  fails after tracing and before the broadcast makes the next one send code only
  (1054-1056), so the other nodes keep or lack the files of the trace until an
  OVERRIDE: an exception of `LoadedTogether` (`Trusted`). A call that is cut short in
  `forward_args.pkl` leaves a directory that MATCH, MOO and GRAPH all fail on
  (`NeverStuck` excepts calls cut short for it).
* Publication. `publish_validated_directory` takes what it opens for the stage
  (`atomic_publish.py:89-94`), and the trap ignores a cleanup that raises
  (`generate_authority.sh:76-77`): the exceptions of `SuccessIsOwn` and `NoLeftover`.

## 7. Not modelled

* *Stage execution, operators, symbolic backend* (`run.py`, `rxshape.py`,
  `operators/`, `z3_backend/`): arithmetic over arrays and solver terms. A
  passed stage is the assumption `StageHolds`. The reduction of shapes is
  planned, since it is a fixpoint over small integers.
* *Activations and losses in lineages; alignment by position; fusion of ranks*:
  planned.
* *Emitters and renderers* of Lean (`trainverify/bridge_emitter`): text
  generation.
* *Emission of the YOCO authority* (`emit_yoco_a04b.py`): a second user of the
  publication protocol; planned. *Generation steps* (profiles, metadata,
  solver): I/O that `Publish` sees as a write that may fail.
* *Graph to Lean, audits, inspection*: single passes without state.
* *Reporting, configuration, timers*: no state that others read, except the
  cache switches, which are inputs of `VerifierCache`.
* *The Lean development*: already machine-checked.
* *The rest of nnscaler* (tracing, graph transformation, search for a plan,
  code emission) and the example models: a library of pure transformations for
  our purposes; they produce the inputs. Of `parallel.py`, merging, deduplicating
  and broadcasting state dicts and weights.

Within the modelled parts: the memory and time dumps of `launch`; whether the
assertion on merged stages (`schedule.py:225`) can fail by iteration order alone;
attributes, shapes and operator names in `RankDataflow`; the comparison of
collective shapes in `ProofPlan`; editing a plan step by step in
`PipelineSchedule`, the interleaved schedule, which no code places into a plan,
and the order of an executor's queue for hand-written plans; user hooks, loss
scaling and norms in `GradientSync`; in `TrainerCheckpoint` RNG states, a change
of the world size, merging, `no_save`, and what a resumable loader does when saved
at an epoch's end (assumed to start the next epoch); in `CodeReuse` several ranks
on a node, world sizes that differ between calls, the strategies NO_WEIGHTS and
CODE, under which the user copies files, and weights in several files.

## 8. The plan

1. Done: `Verdict`, `StagePool` and its proofs; `CutStages` and its proofs;
   `Publish` and its proofs; `RankDataflow`, `GradLineages` and their proofs;
   `VerifierCache` and its proofs; `CertificatePlan`, `ProofPlan` and its proofs;
   `MicrobatchOrder`, `PipelineSchedule` and its proofs; `SynchronousTraining` and
   `GradientSync`; `DurableTraining`, `TrainerCheckpoint` and its proofs;
   `CodeReuse` and its proofs.
2. `Emission`: `emit_yoco_a04b.py` and `sealed_extension_exec.py`, composed with
   `Publish` over one namespace.
3. `Fusion`: joining the dataflows of the ranks, sends to receives, multiref
   value maps; composed with `RankDataflow`.
4. `Alignment` and the slice maps of activations and losses, beside
   `GradLineages`; the claims then feed `CutStages` in one composed run.
5. `ShapeReduction` (`rxshape.py`): the fixpoint against a reference definition.
6. Proofs: `InFlightKept` of `GradientSync`.
