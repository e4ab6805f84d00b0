----------------------------- MODULE StagePool -----------------------------
(***************************************************************************)
(* The pool phase of StageParallelVerifier.launch                          *)
(* (Verdict/verdict/verifier.py): the main thread submits every stage to a *)
(* multiprocessing.Pool, closes it, joins it and reports; worker processes *)
(* run run_stage; the pool's result-handler thread runs the callbacks,     *)
(* which count down, raise the error flag and terminate the pool.          *)
(*                                                                         *)
(* The pool itself is CPython's; the parts of it the callbacks race with   *)
(* (FIFO of tasks, result queue, cache of unanswered jobs, replacement of  *)
(* retired workers, what terminate and join wait for, the locks of the two *)
(* queues) are modelled as launch uses them.                               *)
(*                                                                         *)
(* Some definitions come in pairs (CountOneShort, InitialCount): the first *)
(* is what a plausible slip would make of the second.  No action uses it;  *)
(* it is there to show that the properties tell the two apart.             *)
(***************************************************************************)
EXTENDS Naturals, Sequences, FiniteSets

CONSTANTS N,         \* len(stages)
          Procs,     \* cfg.max_vrf_proc worker slots
          MaxTasks,  \* maxtasksperchild
          MaxKills   \* bound: workers the operating system kills

ASSUME StagePoolAssumption ==
    /\ N \in Nat
    /\ IsFiniteSet(Procs)
    /\ MaxTasks \in Nat \ {0}
    /\ MaxKills \in Nat

VARIABLES
    holds,      \* [1..N -> BOOLEAN]: which stage equivalences hold (fixed)
    main,       \* where the main thread of launch is
    submitted,  \* stages passed to apply_async so far
    pool,       \* pool._state
    cache,      \* jobs whose callback has not returned yet
    taken,      \* tasks handed to workers so far (the task queue is FIFO)
    job,        \* what each worker slot runs: a stage, Idle or Gone
    ran,        \* tasks the worker in a slot has finished
    outq,       \* result queue: records [stage, ok]
    handler,    \* where the result-handler thread is
    broken,     \* queues ("in", "out") whose lock a dead worker holds for ever
    counter,    \* the shared countdown
    errorFlag,  \* the shared error flag
    kills       \* workers killed so far

mainVars   == <<main, submitted>>
workerVars == <<taken, job, ran>>
vars == <<holds, mainVars, pool, cache, workerVars, outq, handler, broken,
          counter, errorFlag, kills>>

Stage == 1..N
Idle  == 0          \* a live worker with no task
Gone  == N + 1      \* no live process in the slot

----------------------------------------------------------------------------
\* counter starts at len(stages).
CountOneShort == N - 1
InitialCount  == N

Init ==
    /\ holds \in [Stage -> BOOLEAN]
    /\ main = "submit" /\ submitted = 0
    /\ pool = "RUN" /\ cache = {}
    /\ taken = 0
    /\ job = [p \in Procs |-> Idle]
    /\ ran = [p \in Procs |-> 0]
    /\ outq = <<>>
    /\ handler = "get" /\ broken = {}
    /\ counter = InitialCount
    /\ errorFlag = FALSE
    /\ kills = 0

----------------------------------------------------------------------------
(* The main thread.                                                        *)

\* The loop over the stages is not over.
MoreStagesByOne == submitted <= N
MoreStages      == submitted < N

\* apply_async of the next stage.
Submit ==
    /\ main = "submit" /\ MoreStages /\ pool = "RUN"
    /\ submitted' = submitted + 1
    /\ cache' = cache \cup {submitted + 1}
    /\ UNCHANGED <<holds, main, pool, workerVars, outq, handler, broken,
                   counter, errorFlag, kills>>

\* apply_async on a pool a callback has already terminated raises ValueError:
\* launch leaves without reporting FAIL or SUCCESS.
SubmitRefused ==
    /\ main = "submit" /\ MoreStages /\ pool # "RUN"
    /\ main' = "refused"
    /\ UNCHANGED <<holds, submitted, pool, cache, workerVars, outq, handler,
                   broken, counter, errorFlag, kills>>

\* pool.close(): keeps a pool that is already terminated terminated.
ClosedAlways == "CLOSE"
Closed       == IF pool = "RUN" THEN "CLOSE" ELSE pool

Close ==
    /\ main = "submit" /\ ~MoreStages
    /\ main' = "join"
    /\ pool' = Closed
    /\ UNCHANGED <<holds, submitted, cache, workerVars, outq, handler, broken,
                   counter, errorFlag, kills>>

\* pool.join() returns once the handler threads and all workers have ended.
Join ==
    /\ main = "join"
    /\ handler = "exit"
    /\ \A p \in Procs : job[p] = Gone
    /\ main' = "report"
    /\ UNCHANGED <<holds, submitted, pool, cache, workerVars, outq, handler,
                   broken, counter, errorFlag, kills>>

\* The final test of error_flag.
AnswerByCount == IF counter = N THEN "fail" ELSE "success"
Answer        == IF errorFlag THEN "fail" ELSE "success"

Report ==
    /\ main = "report"
    /\ main' = Answer
    /\ UNCHANGED <<holds, submitted, pool, cache, workerVars, outq, handler,
                   broken, counter, errorFlag, kills>>

----------------------------------------------------------------------------
(* A worker process.                                                       *)

\* No more work will come: terminated, or closed with every job answered.
Drained == pool = "TERMINATE" \/ (pool = "CLOSE" /\ cache = {})

\* inqueue.get holds the queue's read lock while it waits.  Tasks already in
\* the queue may still be taken until terminate holds that lock itself.
TakeTask(p) ==
    /\ job[p] = Idle /\ ran[p] < MaxTasks /\ "in" \notin broken
    /\ taken < submitted
    /\ taken' = taken + 1
    /\ job' = [job EXCEPT ![p] = taken + 1]
    /\ UNCHANGED <<holds, mainVars, pool, cache, ran, outq, handler, broken,
                   counter, errorFlag, kills>>

\* run_stage and the delivery of its result under the write lock of the result
\* queue.  It returns only when the check holds; it raises when the check
\* fails, and may raise although it holds (shape mismatch, solver unknown).
\* Nothing bounds the time of a solver call: this action is under no fairness.
RunStage(p, ok) ==
    /\ job[p] \in Stage /\ "out" \notin broken
    /\ ok => holds[job[p]]
    /\ outq' = Append(outq, [stage |-> job[p], ok |-> ok])
    /\ job' = [job EXCEPT ![p] = Idle]
    /\ ran' = [ran EXCEPT ![p] = @ + 1]
    /\ UNCHANGED <<holds, mainVars, pool, cache, taken, handler, broken,
                   counter, errorFlag, kills>>

\* A worker ends after maxtasksperchild tasks, or when it reads the sentinel
\* that the task queue of a drained pool ends with.
WorkerExits(p) ==
    /\ job[p] = Idle
    /\ \/ ran[p] = MaxTasks
       \/ Drained /\ "in" \notin broken
    /\ job' = [job EXCEPT ![p] = Gone]
    /\ UNCHANGED <<holds, mainVars, pool, cache, taken, ran, outq, handler,
                   broken, counter, errorFlag, kills>>

\* The pool's maintenance thread fills an empty slot with a fresh worker.
Repopulate(p) ==
    /\ job[p] = Gone /\ ~Drained
    /\ job' = [job EXCEPT ![p] = Idle]
    /\ ran' = [ran EXCEPT ![p] = 0]
    /\ UNCHANGED <<holds, mainVars, pool, cache, taken, outq, handler, broken,
                   counter, errorFlag, kills>>

\* The lock a worker that dies may hold: an idle one reads the task queue, a
\* running one may just be writing its result.
LockHeld(p) == IF job[p] = Idle THEN "in" ELSE "out"

\* The operating system kills a worker (out of memory): its task is gone and
\* the pool never answers the job; a lock it held is never released.
Kill(p) ==
    /\ job[p] # Gone /\ kills < MaxKills
    /\ job' = [job EXCEPT ![p] = Gone]
    /\ broken' \in {broken, broken \cup {LockHeld(p)}}
    /\ kills' = kills + 1
    /\ UNCHANGED <<holds, mainVars, pool, cache, taken, ran, outq, handler,
                   counter, errorFlag>>

----------------------------------------------------------------------------
(* The result-handler thread and the callbacks it runs.                    *)

\* Termination when the countdown c reaches zero.
AfterCountEarly(c) == IF c <= 1 THEN "TERMINATE" ELSE pool
AfterCount(c)      == IF c = 0 THEN "TERMINATE" ELSE pool

\* A callback that returns: its job leaves the cache.
Settled == /\ cache' = cache \ {Head(outq).stage}
           /\ outq' = Tail(outq)
           /\ handler' = "get"

\* callback_with_progress on a true result: count down, and at zero go into
\* pool.terminate(), which closes the pool to submissions at once.
Callback ==
    /\ handler = "get" /\ pool # "TERMINATE" /\ outq # <<>>
    /\ Head(outq).ok
    /\ counter' = counter - 1
    /\ pool' = AfterCount(counter - 1)
    /\ IF pool' = "TERMINATE"
       THEN handler' = "terminating" /\ UNCHANGED <<cache, outq>>
       ELSE Settled
    /\ UNCHANGED <<holds, mainVars, workerVars, broken, errorFlag, kills>>

\* error_callback raises the flag, without counting down ...
ErrorCallback ==
    /\ handler = "get" /\ pool # "TERMINATE" /\ outq # <<>>
    /\ ~Head(outq).ok
    /\ errorFlag' = TRUE
    /\ handler' = "flagged"
    /\ UNCHANGED <<holds, mainVars, pool, cache, workerVars, outq, broken,
                   counter, kills>>

\* ... and then goes into pool.terminate().
AfterError == "TERMINATE"

ErrorTerminate ==
    /\ handler = "flagged"
    /\ pool' = AfterError
    /\ handler' = "terminating"
    /\ UNCHANGED <<holds, mainVars, cache, workerVars, outq, broken, counter,
                   errorFlag, kills>>

\* terminate takes the read lock of the task queue, puts a sentinel into the
\* result queue, which takes its write lock, and only then ends every worker.
\* One that is just writing its result dies with the write lock.
EndWorkers ==
    /\ handler = "terminating" /\ broken = {}
    /\ broken' \in {{}} \cup {{"out"} : p \in {q \in Procs : job[q] \in Stage}}
    /\ job' = [p \in Procs |-> Gone]
    /\ handler' = "joining"
    /\ UNCHANGED <<holds, mainVars, pool, cache, taken, ran, outq, counter,
                   errorFlag, kills>>

\* It returns once the task thread has put its own sentinel into the result
\* queue, and with it the callback.
Terminated ==
    /\ handler = "joining" /\ "out" \notin broken
    /\ Settled
    /\ UNCHANGED <<holds, mainVars, pool, workerVars, broken, counter,
                   errorFlag, kills>>

\* The thread ends when the pool has drained; results still queued are dropped.
HandlerExits ==
    /\ handler = "get" /\ Drained
    /\ handler' = "exit"
    /\ UNCHANGED <<holds, mainVars, pool, cache, workerVars, outq, broken,
                   counter, errorFlag, kills>>

----------------------------------------------------------------------------
Finished == main \in {"success", "fail", "refused"}

\* launch has returned or raised.
Done == Finished /\ UNCHANGED vars

Main    == Submit \/ SubmitRefused \/ Close \/ Join \/ Report
Worker(p) == TakeTask(p) \/ WorkerExits(p) \/ Repopulate(p)
RunsStage(p) == \E ok \in BOOLEAN : RunStage(p, ok)
Handler == \/ Callback \/ ErrorCallback \/ ErrorTerminate
           \/ EndWorkers \/ Terminated \/ HandlerExits

Next == \/ Main
        \/ \E p \in Procs : Worker(p) \/ RunsStage(p) \/ Kill(p)
        \/ Handler
        \/ Done

\* Threads and processes are scheduled by the operating system: the main
\* thread, the handler and the pool's own code in a worker go on while they
\* can.  A stage check may run for ever (z3 is given no timeout), and nothing
\* forces a Kill.
Fairness == /\ WF_vars(Main)
            /\ \A p \in Procs : WF_vars(Worker(p))
            /\ WF_vars(Handler)

Spec == Init /\ [][Next]_vars
FairSpec == Spec /\ Fairness

----------------------------------------------------------------------------
(* Properties.                                                             *)

TypeOK ==
    /\ holds \in [Stage -> BOOLEAN]
    /\ main \in {"submit", "join", "report", "success", "fail", "refused"}
    /\ submitted \in 0..N
    /\ pool \in {"RUN", "CLOSE", "TERMINATE"}
    /\ cache \in SUBSET Stage
    /\ taken \in 0..N
    /\ job \in [Procs -> 0..(N + 1)]
    /\ ran \in [Procs -> 0..MaxTasks]
    /\ outq \in Seq([stage : Stage, ok : BOOLEAN])
    /\ handler \in {"get", "flagged", "terminating", "joining", "exit"}
    /\ broken \in SUBSET {"in", "out"}
    /\ counter \in 0..N
    /\ errorFlag \in BOOLEAN
    /\ kills \in 0..MaxKills

\* Jobs the pool waits for although no worker or queue holds them any more.
Lost == {s \in cache : /\ s <= taken
                       /\ \A p \in Procs : job[p] # s
                       /\ \A i \in DOMAIN outq : outq[i].stage # s}

\* SUCCESS is logged only when every stage equivalence holds, whatever the
\* order of callbacks, terminations and dropped results (launch, error_flag).
SuccessSound == main = "success" => \A s \in Stage : holds[s]

\* apply_async meets a terminated pool only after a stage worker raised: the
\* countdown cannot terminate a pool that is still being filled (counter).
RefusedOnlyOnError == main = "refused" => errorFlag

\* launch always answers, whatever the order of callbacks, retirements and
\* terminations, except in three cases: a killed worker took an unanswered
\* stage with it, a worker died holding the lock of a queue, or a worker runs
\* one stage for ever.  And once a stage worker has raised, launch leaves with
\* an exception even when jobs are lost or other stages never end, because
\* error_callback terminates the pool that join would wait for for ever; only a
\* queue whose lock died with a worker makes terminate itself wait for ever.
Answers == /\ \/ <>(Finished \/ Lost # {} \/ broken # {})
              \/ \E p \in Procs : <>[](job[p] \in Stage)
           /\ errorFlag ~> main \in {"fail", "refused"} \/ broken # {}

\* The pool phase implements the abstract verdict.
told == IF main = "success" THEN "success"
        ELSE IF main \in {"fail", "refused"} THEN "fail" ELSE "pending"
Abstract == INSTANCE Verdict WITH N <- N, holds <- holds, verdict <- told
Implements == Abstract!Spec
=============================================================================
