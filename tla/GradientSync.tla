---------------------------- MODULE GradientSync ----------------------------
(***************************************************************************)
(* Gradient synchronisation of nnscaler: Reducer and Bucket, the hooks     *)
(* build_optimizer puts around the optimizer, accum_mode's flags, and the  *)
(* loops that drive them:                                                  *)
(*   "train_step"  Trainer's step of an end2end module; the generated step *)
(*                 zeroes the gradients and synchronises them              *)
(*   "mixed"       Trainer's step of a model with parallel submodules,     *)
(*                 which enters nnscaler.sync_grad_when: there is no such  *)
(*                 function, and the first microbatch raises               *)
(*   "submodules"  a user's own loop over such a model, with the optimizer *)
(*                 of build_optimizer, whose sync_shard_grad synchronises  *)
(*   "loop"        the loop of test_grad_accum.py, which calls the         *)
(*                 reducers itself, with or without accum_mode             *)
(* The ranks run concurrently; a collective happens when all ranks of its  *)
(* group have come to it.                                                  *)
(*                                                                         *)
(* A gradient is counted, not computed: buf[r][x][q] says how many         *)
(* microbatch gradients of rank q the buffer of rank r has summed up at    *)
(* position x.  In the pairs (AccumFlagsAsDocumented, AccumFlags),          *)
(* (LaunchEarly, LaunchAt), (StaleRequired, NotRequired), (SubgroupOnly,   *)
(* ReduceOps) the first, unused definition is a plausible slip of the      *)
(* second.                                                                 *)
(***************************************************************************)
EXTENDS Integers, Sequences, FiniteSets, SequencesExt

CONSTANTS R,       \* the most ranks a configuration has
          Config,  \* [ranks, driver, accum, async, zero, scatter, ngroups, reducers, limit, K, backward, run]
          Iters    \* iterations of the loop (a bound)

ASSUME GradientSyncAssumption == R \in Nat \ {0} /\ Iters \in Nat \ {0} /\ \A c \in Config : c.ranks \in 1..R

VARIABLES cfg, lay,  \* the configuration, and the buckets its reducers have built
          pc,        \* where a rank is
          iter, k,   \* iteration and microbatch
          i,         \* gradients computed of the microbatch
          todo, ret, \* buckets sync_grads has still to go through, and where it returns
          flags,     \* RuntimeFlag: skip_zero_grad and skip_reducer
          old,       \* the flags accum_mode restores
          required,  \* modules whose _sync_grad_required is set
          buf,       \* contiguous gradients
          grad,      \* parameters whose .grad is a view of the buffer
          count,     \* _async_param_cnt
          handle,    \* _async_handle: "none", "launched", "done"
          pending,   \* collectives a rank has called and not completed
          w          \* gradients applied to a position of the parameters

local == <<pc, iter, k, i, todo, ret, flags, old, required>>
vars == <<cfg, lay, local, buf, grad, count, handle, pending, w>>

Rank == 1..cfg.ranks

(***************************************************************************)
(* Buckets (build_buckets).  A parameter is <<reducer, index>>, a bucket   *)
(* <<reducer, index>>, a position <<bucket, offset>>; each bucket is       *)
(* padded to a multiple of the ranks.                                      *)
(***************************************************************************)
Total(size, ps) == FoldLeft(LAMBDA n, p : n + size[p], 0, ps)

Place(acc, p, size, limit) ==
  LET bs == acc.buckets
  IN IF bs = <<>> THEN [buckets |-> <<<<p>>>>, filled |-> size[p]]
     ELSE IF size[p] > limit THEN [acc EXCEPT !.buckets = <<<<p>>>> \o bs]
     ELSE IF acc.filled + size[p] <= limit
          THEN [buckets |-> [bs EXCEPT ![Len(bs)] = Append(@, p)], filled |-> acc.filled + size[p]]
     ELSE [buckets |-> Append(bs, <<p>>), filled |-> size[p]]

Limit(c, j, size, ps) == IF c.async THEN c.limit ELSE Total(size, ps) * 8 + 1

\* What the reducers of a configuration build.
Layout(c) ==
  LET Reducers == 1..Len(c.reducers)
      params == UNION {{<<j, n>> : n \in 1..Len(c.reducers[j].sizes)} : j \in Reducers}
      size == [p \in params |-> c.reducers[p[1]].sizes[p[2]]]
      of(j) == [n \in 1..Len(c.reducers[j].sizes) |-> <<j, n>>]
      built == [j \in Reducers |->
                  FoldLeft(LAMBDA acc, p : Place(acc, p, size, Limit(c, j, size, of(j))),
                           [buckets |-> <<>>, filled |-> 0], of(j)).buckets]
      buckets == UNION {{<<j, n>> : n \in 1..Len(built[j])} : j \in Reducers}
      numel == [b \in buckets |-> Total(size, built[b[1]][b[2]])]
      length == [b \in buckets |-> numel[b] + ((c.ranks - (numel[b] % c.ranks)) % c.ranks)]
      bucket == [p \in params |-> CHOOSE b \in buckets : Contains(built[b[1]][b[2]], p)]
      offset(p) == Total(size, SelectSeq(built[bucket[p][1]][bucket[p][2]], LAMBDA q : q[2] < p[2]))
  IN [params |-> params, buckets |-> buckets, bucket |-> bucket, length |-> length,
      members |-> [b \in buckets |-> built[b[1]][b[2]]],
      order |-> [j \in Reducers |-> Reverse([n \in 1..Len(built[j]) |-> <<j, n>>])],
      positions |-> UNION {{<<b, x>> : x \in 0..(length[b] - 1)} : b \in buckets},
      span |-> [p \in params |-> {<<bucket[p], x>> : x \in offset(p)..(offset(p) + size[p] - 1)}]]

AllParams == lay.params
AllBuckets == lay.buckets
Position == lay.positions
BucketOf(p) == lay.bucket[p]
ParamsOf(b) == lay.members[b]
Of(p) == lay.span[p]

(***************************************************************************)
(* ZeRO groups: chunk n of a bucket belongs to the n-th rank of a subgroup.*)
(***************************************************************************)
GroupSize == cfg.ranks \div cfg.ngroups
Subgroup(r) == {q \in Rank : (q - 1) \div GroupSize = (r - 1) \div GroupSize}
Crossgroup(r) == {q \in Rank : (q - 1) % GroupSize = (r - 1) % GroupSize}
Chunk(r, b) == {x \in Position : /\ x[1] = b
                                 /\ x[2] \div (lay.length[b] \div GroupSize) = (r - 1) % GroupSize}
Owner(b) == cfg.reducers[b[1]].owner
Zero(b) == cfg.zero /\ Owner(b) # "np"       \* build_optimizer's own reducer is plain
Own(r, b) == IF Zero(b) THEN Chunk(r, b) ELSE {x \in Position : x[1] = b}

(***************************************************************************)
(* A rank's program.                                                       *)
(***************************************************************************)
Modules == {cfg.reducers[j].owner : j \in 1..Len(cfg.reducers)} \ {"np"}
FirstModule == cfg.reducers[1].owner
SyncOrder(owners) ==
  FoldLeft(LAMBDA s, j : IF cfg.reducers[j].owner \in owners THEN s \o lay.order[j] ELSE s,
           <<>>, [j \in 1..Len(cfg.reducers) |-> j])

AccumFlagsAsDocumented(begin, end) == [zero |-> begin, reducer |-> end]
AccumFlags(begin, end) == [zero |-> ~begin, reducer |-> ~end]

Init ==
  /\ cfg \in Config /\ lay = Layout(cfg)
  /\ LET each(v) == [r \in Rank |-> v]
         default == [zero |-> FALSE, reducer |-> cfg.driver # "loop"]
     IN /\ pc = each("zero") /\ iter = each(1) /\ k = each(1) /\ i = each(0)
        /\ todo = each(<<>>) /\ ret = each("end")
        /\ flags = each(default) /\ old = each(default) /\ required = each({})
        /\ buf = each([x \in Position |-> [q \in Rank |-> 0]])
        /\ grad = each({}) /\ count = each([b \in AllBuckets |-> 0])
        /\ handle = each([b \in AllBuckets |-> "none"])
        /\ pending = each(<<>>)
        /\ w = each([x \in Position |-> <<>>])

\* A rank that raises takes the job down.
Raised == \E r \in Rank : pc[r] = "raised"
Up(r) == r \in Rank /\ ~Raised
At(r, labels) == Up(r) /\ pc[r] \in labels
Go(r, label) == pc' = [pc EXCEPT ![r] = label]

\* Reducer.zero_grad
ZeroGrads(r, skip) ==
  /\ buf' = IF skip THEN buf ELSE [buf EXCEPT ![r] = [x \in Position |-> [q \in Rank |-> 0]]]
  /\ grad' = IF skip THEN grad ELSE [grad EXCEPT ![r] = {}]
  /\ count' = IF skip THEN count ELSE [count EXCEPT ![r] = [b \in AllBuckets |-> 0]]
  /\ handle' = IF skip THEN handle ELSE [handle EXCEPT ![r] = [b \in AllBuckets |-> "none"]]

\* The loop zeroes the gradients before the microbatches.
ZeroGrad(r) ==
  /\ At(r, {"zero"})
  /\ ZeroGrads(r, flags[r].zero)
  /\ Go(r, "begin") /\ k' = [k EXCEPT ![r] = 1] /\ i' = [i EXCEPT ![r] = 0]
  /\ UNCHANGED <<cfg, lay, iter, todo, ret, flags, old, required, pending, w>>

\* Enter accum_mode, zero_grad of the generated step, forward.
Begin(r) ==
  /\ At(r, {"begin"}) /\ cfg.driver # "mixed"
  /\ LET now == IF cfg.accum THEN AccumFlags(k[r] = 1, k[r] = cfg.K) ELSE flags[r]
     IN /\ flags' = [flags EXCEPT ![r] = now] /\ old' = [old EXCEPT ![r] = flags[r]]
        /\ ZeroGrads(r, cfg.driver # "train_step" \/ now.zero)
  /\ required' = [required EXCEPT ![r] = IF cfg.driver = "submodules" THEN @ \cup cfg.run ELSE {}]
  /\ Go(r, "backward")
  /\ UNCHANGED <<cfg, lay, iter, k, i, todo, ret, pending, w>>

\* The step mixin_module gives a mixed model enters a context that does not exist.
BeginMixed(r) ==
  /\ At(r, {"begin"}) /\ cfg.driver = "mixed"
  /\ Go(r, "raised")
  /\ UNCHANGED <<cfg, lay, iter, k, i, todo, ret, flags, old, required, buf, grad, count, handle, pending, w>>

(***************************************************************************)
(* post_grad_hook, for the next gradient of the backward.  A .grad that is *)
(* still a view of the buffer receives the gradient and is added to itself.*)
(***************************************************************************)
LaunchEarly(n, b) == n >= Len(ParamsOf(b)) - 1
LaunchAt(n, b) == n = Len(ParamsOf(b))
Op(kind, group, b, async) == [kind |-> kind, group |-> group, b |-> b, async |-> async]
Scatters(b) == Zero(b) /\ cfg.scatter
AsyncOp(b) == Op(IF Scatters(b) THEN "reduce_scatter" ELSE "all_reduce", Rank, b, TRUE)

Accumulate(r, p) ==
  /\ buf' = [buf EXCEPT ![r] = [x \in Position |->
       IF x \notin Of(p) THEN @[x]
       ELSE LET sum == [@[x] EXCEPT ![r] = @ + 1]
            IN IF p \in grad[r] THEN [q \in Rank |-> 2 * sum[q]] ELSE sum]]
  /\ grad' = [grad EXCEPT ![r] = @ \ {p}]

Hook(r) ==
  /\ At(r, {"backward"}) /\ i[r] < Len(cfg.backward)
  /\ LET p == cfg.backward[i[r] + 1]
         b == BucketOf(p)
         n == count[r][b] + (IF flags[r].reducer THEN 0 ELSE 1)
         counts == cfg.async /\ ~flags[r].reducer
         raises == \/ counts /\ n > Len(ParamsOf(b))
                   \/ counts /\ LaunchAt(n, b) /\ Scatters(b) /\ cfg.ngroups > 1
         launches == counts /\ LaunchAt(n, b) /\ ~raises
     IN /\ Accumulate(r, p)
        /\ count' = [count EXCEPT ![r][b] = n]
        /\ handle' = IF launches THEN [handle EXCEPT ![r][b] = "launched"] ELSE handle
        /\ pending' = IF launches THEN [pending EXCEPT ![r] = Append(@, AsyncOp(b))] ELSE pending
        /\ Go(r, IF raises THEN "raised" ELSE "backward")
  /\ i' = [i EXCEPT ![r] = @ + 1]
  /\ UNCHANGED <<cfg, lay, iter, k, todo, ret, flags, old, required, w>>

\* The generated step ends with sync_grads of its reducers.
EndBackward(r) ==
  /\ At(r, {"backward"}) /\ i[r] = Len(cfg.backward)
  /\ IF cfg.driver = "train_step" /\ ~flags[r].reducer
     THEN Go(r, "bucket") /\ todo' = [todo EXCEPT ![r] = SyncOrder(Modules)] /\ ret' = [ret EXCEPT ![r] = "end"]
     ELSE Go(r, "end") /\ UNCHANGED <<todo, ret>>
  /\ UNCHANGED <<cfg, lay, iter, k, i, flags, old, required, buf, grad, count, handle, pending, w>>

\* Leave accum_mode.
EndMicro(r) ==
  /\ At(r, {"end"})
  /\ flags' = [flags EXCEPT ![r] = old[r]]
  /\ IF k[r] < cfg.K THEN /\ k' = [k EXCEPT ![r] = @ + 1] /\ i' = [i EXCEPT ![r] = 0] /\ Go(r, "begin")
     ELSE Go(r, "shard") /\ UNCHANGED <<k, i>>
  /\ UNCHANGED <<cfg, lay, iter, todo, ret, old, required, buf, grad, count, handle, pending, w>>

(***************************************************************************)
(* sync_shard_grad is called before scaling, by clip_gnorm and by the      *)
(* optimizer's pre-step hook; the loop calls the reducers once.            *)
(***************************************************************************)
After == [shard |-> "clip", clip |-> "pre", pre |-> "apply"]
StaleRequired(r) == required[r]
NotRequired(r) == {}

SyncShard(r) ==
  /\ At(r, {"shard", "clip", "pre"}) /\ cfg.driver # "loop"
  /\ IF FirstModule \in required[r]
     THEN /\ todo' = [todo EXCEPT ![r] = SyncOrder(required[r] \cup {"np"})]
          /\ required' = [required EXCEPT ![r] = NotRequired(r)]
     ELSE /\ todo' = [todo EXCEPT ![r] = <<>>]
          /\ required' = [required EXCEPT ![r] = IF pc[r] = "clip" THEN {} ELSE @]
  /\ ret' = [ret EXCEPT ![r] = After[pc[r]]] /\ Go(r, "bucket")
  /\ UNCHANGED <<cfg, lay, iter, k, i, flags, old, buf, grad, count, handle, pending, w>>

SyncLoop(r) ==
  /\ At(r, {"shard"}) /\ cfg.driver = "loop"
  /\ todo' = [todo EXCEPT ![r] = IF flags[r].reducer THEN <<>> ELSE SyncOrder(Modules)]
  /\ ret' = [ret EXCEPT ![r] = "apply"] /\ Go(r, "bucket")
  /\ UNCHANGED <<cfg, lay, iter, k, i, flags, old, required, buf, grad, count, handle, pending, w>>

(***************************************************************************)
(* Bucket.sync_grads.                                                      *)
(***************************************************************************)
SubgroupOnly(r, b) == IF Scatters(b) THEN <<Op("reduce_scatter", Subgroup(r), b, FALSE)>>
                      ELSE <<Op("all_reduce", Rank, b, FALSE)>>
ReduceOps(r, b) ==
  IF ~Scatters(b) THEN <<Op("all_reduce", Rank, b, FALSE)>>
  ELSE (IF cfg.ngroups = 1 THEN <<>> ELSE <<Op("all_reduce", Crossgroup(r), b, FALSE)>>)
       \o <<Op("reduce_scatter", Subgroup(r), b, FALSE)>>

Viewed(r, b) == IF grad[r] \cap ToSet(ParamsOf(b)) # {}
                THEN Go(r, "raised") /\ UNCHANGED <<grad, todo>>
                ELSE /\ grad' = [grad EXCEPT ![r] = @ \cup ToSet(ParamsOf(b))]
                     /\ todo' = [todo EXCEPT ![r] = Tail(@)]
                     /\ Go(r, "bucket")

SyncAsync(r) ==
  /\ At(r, {"bucket"}) /\ todo[r] # <<>> /\ cfg.async
  /\ LET b == Head(todo[r])
     IN IF handle[r][b] = "none" THEN Go(r, "raised") /\ UNCHANGED <<grad, todo>>
        ELSE handle[r][b] = "done" /\ Viewed(r, b)
  /\ UNCHANGED <<cfg, lay, iter, k, i, ret, flags, old, required, buf, count, handle, pending, w>>

SyncReduce(r) ==
  /\ At(r, {"bucket"}) /\ todo[r] # <<>> /\ ~cfg.async
  /\ pending' = [pending EXCEPT ![r] = @ \o ReduceOps(r, Head(todo[r]))]
  /\ Go(r, "wait")
  /\ UNCHANGED <<cfg, lay, iter, k, i, todo, ret, flags, old, required, buf, grad, count, handle, w>>

Synced(r) ==
  /\ At(r, {"wait"}) /\ pending[r] = <<>>
  /\ Viewed(r, Head(todo[r]))
  /\ UNCHANGED <<cfg, lay, iter, k, i, ret, flags, old, required, buf, count, handle, pending, w>>

SyncEnd(r) ==
  /\ At(r, {"bucket"}) /\ todo[r] = <<>>
  /\ Go(r, ret[r])
  /\ UNCHANGED <<cfg, lay, iter, k, i, todo, ret, flags, old, required, buf, grad, count, handle, pending, w>>

(***************************************************************************)
(* A collective: the next of all ranks of its group.                       *)
(***************************************************************************)
Sum(x, group) == [q \in Rank |-> FoldSet(LAMBDA r, n : n + buf[r][x][q], 0, group)]
Reduced(op, r, x) ==
  \/ op.kind = "all_reduce" /\ x[1] = op.b
  \/ op.kind = "reduce_scatter" /\ x \in Chunk(r, op.b)

Complete(r) ==
  /\ Up(r) /\ pending[r] # <<>>
  /\ LET op == Head(pending[r])
         owner(x) == CHOOSE q \in op.group : x \in Chunk(q, op.b)
     IN /\ \A q \in op.group : pending[q] # <<>> /\ Head(pending[q]) = op
        /\ pending' = [q \in Rank |-> IF q \in op.group THEN Tail(pending[q]) ELSE pending[q]]
        /\ buf' = [q \in Rank |-> IF q \notin op.group THEN buf[q] ELSE
             [x \in Position |-> IF Reduced(op, q, x) THEN Sum(x, op.group) ELSE buf[q][x]]]
        /\ handle' = [q \in Rank |-> IF q \in op.group /\ op.async
                                     THEN [handle[q] EXCEPT ![op.b] = "done"] ELSE handle[q]]
        /\ w' = [q \in Rank |-> IF q \notin op.group \/ op.kind # "all_gather" THEN w[q] ELSE
             [x \in Position |-> IF x[1] = op.b THEN w[owner(x)][x] ELSE w[q][x]]]
  /\ UNCHANGED <<cfg, lay, local, grad, count>>

(***************************************************************************)
(* optimizer.step and gather_params.                                       *)
(***************************************************************************)
Apply(r) ==
  /\ At(r, {"apply"})
  /\ w' = [w EXCEPT ![r] = [x \in Position |->
       IF x \in Own(r, x[1]) /\ ToSet(ParamsOf(x[1])) \subseteq grad[r]
       THEN Append(@[x], buf[r][x]) ELSE @[x]]]
  /\ Go(r, "gather")
  /\ UNCHANGED <<cfg, lay, iter, k, i, todo, ret, flags, old, required, buf, grad, count, handle, pending>>

Gather(r) ==
  /\ At(r, {"gather"})
  /\ pending' = [pending EXCEPT ![r] = @ \o
       [n \in 1..Len(SelectSeq(SyncOrder(Modules), Zero)) |->
          Op("all_gather", Subgroup(r), SelectSeq(SyncOrder(Modules), Zero)[n], FALSE)]]
  /\ Go(r, "gathered")
  /\ UNCHANGED <<cfg, lay, iter, k, i, todo, ret, flags, old, required, buf, grad, count, handle, w>>

EndIter(r) ==
  /\ At(r, {"gathered"}) /\ pending[r] = <<>>
  /\ IF iter[r] < Iters THEN iter' = [iter EXCEPT ![r] = @ + 1] /\ Go(r, "zero")
     ELSE Go(r, "done") /\ UNCHANGED iter
  /\ k' = [k EXCEPT ![r] = 1] /\ i' = [i EXCEPT ![r] = 0]
  /\ UNCHANGED <<cfg, lay, todo, ret, flags, old, required, buf, grad, count, handle, pending, w>>

Done == (Raised \/ \A r \in Rank : pc[r] = "done") /\ UNCHANGED vars

Step(r) ==
  \/ ZeroGrad(r) \/ Begin(r) \/ BeginMixed(r) \/ Hook(r) \/ EndBackward(r) \/ EndMicro(r)
  \/ SyncShard(r) \/ SyncLoop(r) \/ SyncAsync(r) \/ SyncReduce(r) \/ Synced(r) \/ SyncEnd(r)
  \/ Apply(r) \/ Gather(r) \/ EndIter(r)

Next == (\E r \in 1..R : Step(r) \/ Complete(r)) \/ Done

Spec == Init /\ [][Next]_vars
\* Every process goes on when it can, and the communication library completes a
\* collective that all its ranks have called.
FairSpec == Spec /\ \A r \in 1..R : WF_local(Step(r)) /\ WF_pending(Complete(r))

(***************************************************************************)
(* Properties.                                                             *)
(***************************************************************************)
Ran(p) == cfg.reducers[p[1]].owner \in cfg.run \cup {"np"}
Full == [q \in Rank |-> cfg.K]

\* sync_shard_grad looks at the first parallel module only.
Unnoticed == cfg.driver = "submodules" /\ FirstModule \notin cfg.run

\* When a rank steps, each position it updates holds the gradient of every
\* microbatch of every rank exactly once: no microbatch is lost by an early zero
\* or a missing hook, and none is counted twice.  If the first parallel module is
\* not run, nothing is synchronised, and then nothing is applied either: the step
\* loses the gradients of the other modules and of the parameters outside, on all
\* ranks alike, but never applies a rank's own.
StepUsesAll ==
  \A r \in Rank : pc[r] = "apply" =>
    \A p \in AllParams : Ran(p) =>
      IF Unnoticed THEN p \notin grad[r]
      ELSE p \in grad[r] /\ \A x \in Of(p) \cap Own(r, BucketOf(p)) : buf[r][x] = Full

\* Between iterations the replicas hold the same parameters, whichever of them
\* updated which chunk.
ReplicasAgree ==
  \A r, q \in Rank : pc[r] \in {"zero", "done"} /\ pc[q] = pc[r] /\ iter[q] = iter[r] => w[r] = w[q]

\* What the hooks and sync_grads refuse with an error.
Refused == cfg.async /\ (~cfg.accum \/ (cfg.scatter /\ cfg.ngroups > 1))

\* What does not train: what is refused, and any model Trainer parallelizes by
\* submodules.
Broken == Refused \/ cfg.driver = "mixed"

\* A bucket is not written while its collective is in flight, unless the job is
\* about to be refused.
InFlightKept ==
  [][\A r \in Rank, b \in AllBuckets :
       ~Refused /\ handle[r][b] = "launched" /\ handle'[r][b] = "launched" =>
         \A x \in Position : x[1] = b => buf'[r][x] = buf[r][x]]_vars

\* No rank applies an update before every rank has computed its gradients of the
\* iteration, and all of them get through: the collectives of the ranks match
\* and nothing raises, unless an asynchronous reducer is used in a way it
\* refuses or the loop is Trainer's step of a mixed model, which always raises.
\* Where the first parallel module is not run, no rank waits for another, and
\* there is no update to speak of.
Training == IF Unnoticed \/ (Broken /\ Raised) THEN {} ELSE Rank
Iterations(done, r) == IF Unnoticed \/ r \notin Rank THEN 0 ELSE IF done THEN iter[r] ELSE iter[r] - 1
computed == [r \in 1..R |-> Iterations((k[r] = cfg.K /\ i[r] = Len(cfg.backward)) \/ pc[r] = "done", r)]
updated == [r \in 1..R |-> Iterations(pc[r] \in {"gather", "gathered", "done"}, r)]
Synchronous == INSTANCE SynchronousTraining WITH Process <- 1..R, member <- Training
Implements == Synchronous!Spec
=============================================================================
