---------------------------- MODULE RankDataflow ----------------------------
(***************************************************************************)
(* The dataflow of one rank (Verdict/nnscaler_backend/build_graph.py):     *)
(* _prepare_rank_cells rewrites the list of cells of the rank's schedule   *)
(* in passes.  Moves get an in-flight tensor, useless cells go, tensors    *)
(* get versions so that each version is assigned once, a gradient written  *)
(* again is accumulated, and weight reducers, which name weights only, are *)
(* bound to the gradients they reduce.                                     *)
(*                                                                         *)
(* A pass reads `cells` one cell at a time and builds `ret`.               *)
(*                                                                         *)
(* Some definitions come in pairs (ReadNextPlain, ReadNext): the           *)
(* first is what a plausible slip would make of the second.  No action     *)
(* uses it; it is there to show that the properties tell the two apart.    *)
(***************************************************************************)
EXTENDS Naturals, FiniteSets, Sequences, SequencesExt, FiniteSetsExt

CONSTANTS Ids,       \* tensors of the rank: a tid and a microbatch
          WeightIds, \* those that are weights
          Programs   \* what the rank may have to run

\* A tensor: fly marks the copy in flight of a move; v is its version, 0 while
\* it has none.
Plain(t) == [id |-> t, fly |-> FALSE, v |-> 0]
Fly(x)   == [x EXCEPT !.fly = TRUE]
Unversioned == [id : Ids, fly : BOOLEAN, v : {0}]
Tensor      == [id : Ids, fly : BOOLEAN, v : Nat]

\* The kinds of cell the passes tell apart: "fw" is a forward operator
\* (IRDimops), "py" a Python helper (IRPyFunc), "mref" a backward multiref.
Ops == {"load", "fw", "py", "bw", "mref", "identity", "chunk", "send", "recv", "wred", "accum"}

\* regs: the weights, each with its gradient, that a forward operator reads, that
\* a backward one puts out the gradient of, or that a split reducer is for.
Cell == [op : Ops, ins : Seq(Tensor), outs : Seq(Tensor),
         regs : Seq(WeightIds \X Ids)]

\* The tensors of s with a version above v, in their order.
Above(s, v) ==
    LET above[k \in 0..Len(s)] ==
          IF k = 0 THEN <<>>
          ELSE IF s[k].v > v THEN Append(above[k - 1], s[k]) ELSE above[k - 1]
    IN  above[Len(s)]

\* A program: the rank's pipeline stage and its list of cells.
ASSUME DataflowAssumption ==
    WeightIds \subseteq Ids /\ Programs \subseteq [pp : Nat, cells : Seq(Cell)]

\* What the planner gives: tensors have no versions yet, sums are injected later, a
\* chunk puts out one tensor, an identity copies one, and the reducers, each weight
\* in one of them, are behind all other cells (gen_weight, topo_sort).
Reduces(c) == {x.id : x \in Range(c.ins)}
ASSUME ProgramAssumption ==
    \A p \in Programs : \A k \in DOMAIN p.cells :
        LET c == p.cells[k]
        IN  /\ c.op # "accum"
            /\ c.ins \in Seq({Plain(t) : t \in Ids}) /\ c.outs \in Seq({Plain(t) : t \in Ids})
            /\ c.op \in {"chunk", "identity"} => Len(c.outs) = 1
            /\ c.op = "identity" => Len(c.ins) = 1
            /\ c.op = "wred" =>
                 /\ c.outs = <<>> /\ Reduces(c) \subseteq WeightIds
                 /\ \A n, m \in DOMAIN c.ins : n # m => c.ins[n].id # c.ins[m].id
                 /\ \A m \in DOMAIN p.cells : m > k =>
                      /\ p.cells[m].op = "wred"
                      /\ Reduces(c) \cap Reduces(p.cells[m]) = {}

VARIABLES prog,   \* the program (fixed)
          pass,   \* the pass that runs
          cells,  \* the list it reads
          i,      \* its position
          ret,    \* the list it builds
          latest, \* cnt_tensor_as_produced
          grads,  \* wid2gid: gradients registered for each weight, in order
          maxv,   \* tid2maxv
          raised  \* the construction stopped with an exception

dataflowVars == <<prog, pass, cells, i, ret, latest, grads, maxv, raised>>

Passes == <<"dataflow", "filter", "version", "accum", "reduce", "bypass", "done">>

----------------------------------------------------------------------------
DataflowInit ==
    /\ prog \in Programs
    /\ pass = 1 /\ cells = prog.cells /\ i = 1 /\ ret = <<>>
    /\ latest = [x \in Unversioned |-> 0]
    /\ grads = [w \in WeightIds |-> <<>>]
    /\ maxv = [t \in Ids |-> 0]
    /\ raised = FALSE

At(p) == Passes[pass] = p /\ i <= Len(cells) /\ ~raised

\* The pass handles the next cell, which becomes the cells new.
Emit(new) ==
    /\ ret' = ret \o new
    /\ i' = i + 1
    /\ UNCHANGED <<prog, pass, cells, raised>>

\* The next pass reads what this one built.
NextPass ==
    /\ pass < Len(Passes) /\ i > Len(cells)
    /\ pass' = pass + 1 /\ cells' = ret /\ i' = 1 /\ ret' = <<>>
    /\ UNCHANGED <<prog, latest, grads, maxv, raised>>

----------------------------------------------------------------------------
(* _set_dataflow_partial_SSA_wo_version: a sender has no outputs of its    *)
(* own, a receiver no inputs; both get the tensor in flight.               *)

SetDataflow ==
    /\ At("dataflow")
    /\ LET c == cells[i]
       IN  Emit(<<CASE c.op = "send" -> [c EXCEPT !.outs = [k \in DOMAIN c.ins |-> Fly(c.ins[k])]]
                    [] c.op = "recv" -> [c EXCEPT !.ins = [k \in DOMAIN c.outs |-> Fly(c.outs[k])]]
                    [] OTHER -> c>>)
    /\ UNCHANGED <<latest, grads, maxv>>

----------------------------------------------------------------------------
(* _remove_dummy_dataloader_redundant_identity                             *)

Redundant(c) == \/ c.op = "load" /\ prog.pp > 0
                \/ c.op = "identity" /\ c.ins[1] = c.outs[1]

Filter ==
    /\ At("filter")
    /\ Emit(IF Redundant(cells[i]) THEN <<>> ELSE <<cells[i]>>)
    /\ UNCHANGED <<latest, grads, maxv>>

----------------------------------------------------------------------------
(* _set_tensor_version_to_enforce_SSA.                                     *)

\* What later cells read after a tensor is produced at count n: its first
\* version, or the sum of what there was and the version produced now.
ReadNextPlain(n) == n + 1
ReadNext(n)      == IF n = 0 THEN 1 ELSE n + 2

\* latest when the first k outputs of c have been produced.
Counts(c) ==
    LET counts[k \in 0..Len(c.outs)] ==
          IF k = 0 THEN latest
          ELSE [counts[k - 1] EXCEPT ![c.outs[k]] = ReadNext(@)]
    IN  counts

Versioned(x, v) == [x EXCEPT !.v = v]

\* A chunk that puts out a tensor there is already.
Discarded(c) == c.op = "chunk" /\ latest[c.outs[1]] > 0

\* Inputs at their latest version; each output one version up from the count
\* it is produced at; what a sender puts in flight stays at version 0.
VersionCell ==
    /\ At("version")
    /\ LET c == cells[i]
           ins == [k \in DOMAIN c.ins |-> Versioned(c.ins[k], latest[c.ins[k]])]
           outs == [k \in DOMAIN c.outs |->
                      Versioned(c.outs[k], Counts(c)[k - 1][c.outs[k]] + 1)]
       IN  \/ /\ c.op = "send"
              /\ Emit(<<[c EXCEPT !.ins = ins]>>)
              /\ UNCHANGED latest
           \/ /\ c.op # "send" /\ ~Discarded(c)
              /\ Emit(<<[c EXCEPT !.ins = ins, !.outs = outs]>>)
              /\ latest' = Counts(c)[Len(c.outs)]
    /\ UNCHANGED <<grads, maxv>>

DiscardChunk ==
    /\ At("version") /\ Discarded(cells[i])
    /\ Emit(<<>>)
    /\ UNCHANGED <<latest, grads, maxv>>

----------------------------------------------------------------------------
(* _inject_grad_accum: behind a cell, one accumulation for each output     *)
(* that is not the first version of its tensor.                            *)

\* The outputs that are not the first.
Repeated(c) == Above(c.outs, 1)

\* What x is added to: the version before it.
Before(x) == Versioned(x, x.v - 1)

Accum(x) == [op |-> "accum", regs |-> <<>>,
             ins |-> <<Before(x), x>>, outs |-> <<Versioned(x, x.v + 1)>>]

InjectAccum ==
    /\ At("accum")
    /\ LET again == Repeated(cells[i])
       IN  Emit(<<cells[i]>> \o [k \in DOMAIN again |-> Accum(again[k])])
    /\ UNCHANGED <<latest, grads, maxv>>

----------------------------------------------------------------------------
(* _set_wred_local_grads.                                                  *)

\* tid2maxv once cell c has been seen.
MaxSeen(c) ==
    [t \in Ids |-> Max({maxv[t]} \cup {x.v : x \in {y \in Range(c.ins \o c.outs) : y.id = t}})]

\* The gradient a reducer of weight w reduces: the last registered one.
ReducedFirst(w) == grads[w][1]
Reduced(w)      == Last(grads[w])

\* The version it puts out.
FinalSame(g) == maxv[g]
Final(g)     == maxv[g] + 1

\* A reducer of w alone, from the newest version of its gradient to the next.
Reducer(w) ==
    LET g == Reduced(w)
    IN  [op |-> "wred", regs |-> <<<<w, g>>>>,
         ins |-> <<Versioned(Plain(g), maxv[g])>>,
         outs |-> <<Versioned(Plain(g), Final(g))>>]

\* The gradients cell c registers for weight w, once each.
Registered(c, w) ==
    LET gs[k \in 0..Len(c.regs)] ==
          IF k = 0 THEN grads[w]
          ELSE IF c.regs[k][1] # w \/ Contains(gs[k - 1], c.regs[k][2]) THEN gs[k - 1]
          ELSE Append(gs[k - 1], c.regs[k][2])
    IN  gs[Len(c.regs)]

\* A gradient is registered for one weight; a reducer's weights, and the gradients
\* of a backward operator, must have been registered (assertions, KeyError).
Registrable(c) ==
    /\ c.op = "fw" => \A k \in DOMAIN c.regs : \A w \in WeightIds \ {c.regs[k][1]} :
                         ~Contains(Registered(c, w), c.regs[k][2])
    /\ c.op = "wred" => c.outs = <<>> /\ \A k \in DOMAIN c.ins : grads[c.ins[k].id] # <<>>
    /\ c.op = "bw" => \A k \in DOMAIN c.regs :
                         \E w \in WeightIds : Contains(grads[w], c.regs[k][2])

Register ==
    /\ At("reduce") /\ cells[i].op # "wred" /\ Registrable(cells[i])
    /\ grads' = IF cells[i].op = "fw"
                THEN [w \in WeightIds |-> Registered(cells[i], w)] ELSE grads
    /\ maxv' = MaxSeen(cells[i])
    /\ Emit(<<cells[i]>>)
    /\ UNCHANGED latest

Raise ==
    /\ At("reduce") /\ ~Registrable(cells[i])
    /\ raised' = TRUE
    /\ UNCHANGED <<prog, pass, cells, i, ret, latest, grads, maxv>>

\* A reducer becomes one reducer for each of its weights.
SplitReducer ==
    /\ At("reduce") /\ cells[i].op = "wred" /\ Registrable(cells[i])
    /\ maxv' = MaxSeen(cells[i])
    /\ LET c == cells[i]
       IN  Emit([k \in DOMAIN c.ins |-> Reducer(c.ins[k].id)])
    /\ UNCHANGED <<latest, grads>>

----------------------------------------------------------------------------
(* _bypass_known_bugs: a backward multiref forgets gradients that were     *)
(* never computed.                                                         *)

Computed(c) == Above(c.ins, 0)

Bypass ==
    /\ At("bypass")
    /\ LET c == cells[i]
       IN  Emit(<<IF c.op = "mref" THEN [c EXCEPT !.ins = Computed(c)] ELSE c>>)
    /\ UNCHANGED <<latest, grads, maxv>>

----------------------------------------------------------------------------
DataflowDone == (pass = Len(Passes) \/ raised) /\ UNCHANGED dataflowVars

DataflowNext == \/ SetDataflow \/ Filter \/ VersionCell \/ DiscardChunk \/ InjectAccum
        \/ Register \/ Raise \/ SplitReducer \/ Bypass \/ NextPass \/ DataflowDone

DataflowSpec == DataflowInit /\ [][DataflowNext]_dataflowVars

----------------------------------------------------------------------------
(* Properties.                                                             *)

Finished == Passes[pass] = "done"

\* The places <<cell, output>> of a list that assign tensor x.
Writers(list, x) == {w \in UNION {{k} \X DOMAIN list[k].outs : k \in DOMAIN list} :
                       list[w[1]].outs[w[2]] = x}

\* The finished dataflow assigns each version of a tensor at most once; only
\* what is in flight may be sent more than once (_prepare_rank_cells, "ensuring
\* SSA for nodes and tensors"): the versions handed out in one pass do not clash
\* with the accumulations and reducers two later passes add.
SingleAssignment ==
    Finished => \A k \in DOMAIN cells : \A j \in DOMAIN cells[k].outs :
        LET x == cells[k].outs[j] IN ~x.fly => Writers(cells, x) = {<<k, j>>}

\* The operator outputs summed up in the value that cell k reads as x.
Sum(list, k, x) ==
    LET sum[d \in 0..k, y \in {Versioned(x, v) : v \in 0..x.v}] ==
          UNION {IF list[w[1]].op = "accum" /\ d > 0
                 THEN UNION {sum[d - 1, z] : z \in Range(list[w[1]].ins)}
                 ELSE {w} : w \in {u \in Writers(list, y) : u[1] < k}}
    IN  sum[k, x]

\* Whatever has put out the tensor with x's name before cell k, in any
\* version, except sums.
Contributions(list, k, x) ==
    {w \in UNION {{m} \X DOMAIN list[m].outs : m \in 1..(k - 1)} :
       /\ list[w[1]].op # "accum"
       /\ list[w[1]].outs[w[2]].id = x.id /\ list[w[1]].outs[w[2]].fly = x.fly}

\* Every operator, and every weight reducer, reads the sum of everything put out
\* before it under that name, each part once: what the version pass promises to a
\* later reader is what the accumulations injected afterwards compute, whatever
\* the order of the microbatches (_set_tensor_version_to_enforce_SSA,
\* _inject_grad_accum).
ReadsEverythingOnce ==
    Finished => \A k \in DOMAIN cells :
        IF cells[k].op = "accum"
        THEN Sum(cells, k, cells[k].ins[1]) \cap Sum(cells, k, cells[k].ins[2]) = {}
        ELSE \A x \in Range(cells[k].ins) :
                 Sum(cells, k, x) = Contributions(cells, k, x)
=============================================================================
