--------------------------- MODULE ScheduleProofs ---------------------------
EXTENDS StagePool, PipelineSchedule, FiniteSetTheorems, TLAPS

(***************************************************************************)
(* Theorems of the two parts that schedule stages.                         *)
(*                                                                         *)
(* StagePool: every number of stages, workers, tasks per worker and killed *)
(* workers.                                                                *)
(***************************************************************************)

\* Submitted jobs whose callback has removed them from the pool's cache.
Answered == (1..submitted) \ cache

\* The job whose callback has counted but not returned: it is in terminate.
Answering == IF handler \in {"terminating", "joining"} THEN {Head(outq).stage} ELSE {}

\* Jobs that no longer count as open.
Counted == Answered \cup Answering

\* Tasks leave the task queue in order, and an unanswered job is in one place.
InFlight ==
    /\ taken <= submitted
    /\ cache \subseteq 1..submitted
    /\ \A s \in Stage : taken < s /\ s <= submitted => s \in cache
    /\ \A p \in Procs : job[p] \in Stage => /\ job[p] <= taken
                                          /\ job[p] \in cache
                                          /\ ran[p] < MaxTasks
    /\ \A p, q \in Procs : job[p] \in Stage /\ p # q => job[p] # job[q]

\* Results in the queue are those of distinct unanswered jobs, and true ones.
Results ==
    /\ \A i \in 1..Len(outq) : /\ outq[i].stage \in cache
                               /\ outq[i].stage <= taken
                               /\ outq[i].ok => holds[outq[i].stage]
                               /\ \A p \in Procs : job[p] # outq[i].stage
    /\ \A i, j \in 1..Len(outq) : i # j => outq[i].stage # outq[j].stage

\* While no stage has raised, the countdown is the number of open stages.
Countdown ==
    ~errorFlag => /\ counter = Cardinality(Stage \ Counted)
                  /\ \A s \in Counted : holds[s]

\* Who may have terminated the pool, and what the handler has seen by then.
Control ==
    /\ main = "submit" => pool # "CLOSE"
    /\ main \in {"join", "report", "success"} => submitted = N
    /\ pool = "CLOSE" => submitted = N
    /\ pool = "TERMINATE" /\ ~errorFlag => Counted = Stage
    /\ errorFlag => handler = "flagged" \/ pool = "TERMINATE"
    /\ handler = "flagged" => errorFlag
    /\ handler \in {"terminating", "joining"} => pool = "TERMINATE"
    /\ handler \in {"flagged", "terminating", "joining"} => outq # <<>>
    /\ handler = "exit" /\ ~errorFlag => Counted = Stage
    /\ main \in {"report", "success"} => handler = "exit"
    /\ main = "success" => ~errorFlag
    /\ main = "refused" => errorFlag

\* The inductive invariant.
IInv == TypeOK /\ InFlight /\ Results /\ Countdown /\ Control

\* There are N stages.
LEMMA StageFinite == /\ IsFiniteSet(Stage)
                     /\ Cardinality(Stage) = N
  BY FS_Interval, StagePoolAssumption DEF Stage

\* What the entries of the result queue are.
LEMMA QueueType ==
  TypeOK => \A i \in 1..Len(outq) : /\ outq[i] \in [stage : Stage, ok : BOOLEAN]
                                    /\ outq[i].stage \in Stage
<1> SUFFICES ASSUME TypeOK, NEW i \in 1..Len(outq)
             PROVE  outq[i] \in [stage : Stage, ok : BOOLEAN]
  OBVIOUS
<1> DEFINE R == [stage : Stage, ok : BOOLEAN]
<1>1. outq \in Seq(R)
  BY DEF TypeOK
<1> HIDE DEF R
<1>2. outq[i] \in R
  BY <1>1
<1> QED BY <1>2 DEF R

\* Nothing is submitted at first.
LEMMA InitInv == Init => IInv
<1> SUFFICES ASSUME Init PROVE IInv
  OBVIOUS
<1> USE StagePoolAssumption
<1>1. TypeOK
  <2>1. outq \in Seq([stage : Stage, ok : BOOLEAN])
    BY DEF Init, InitialCount
  <2>2. holds \in [Stage -> BOOLEAN] /\ cache \in SUBSET Stage
    BY DEF Init, InitialCount, Stage
  <2>3. /\ job \in [Procs -> 0..(N + 1)]
        /\ ran \in [Procs -> 0..MaxTasks]
    BY DEF Init, InitialCount, Idle
  <2>4. /\ submitted \in 0..N /\ taken \in 0..N /\ counter \in 0..N
        /\ kills \in 0..MaxKills
    BY DEF Init, InitialCount
  <2>5. errorFlag \in BOOLEAN
    BY DEF Init, InitialCount
  <2> QED BY <2>1, <2>2, <2>3, <2>4, <2>5 DEF Init, InitialCount, TypeOK
<1>2. InFlight
  BY DEF Init, InitialCount, InFlight, Stage, Idle
<1>3. Results
  BY DEF Init, InitialCount, Results
<1>4. Counted = {} /\ Stage \ Counted = Stage
  BY DEF Init, InitialCount, Answered, Answering, Counted
<1>5. Countdown
  BY <1>4, StageFinite DEF Init, InitialCount, Countdown
<1>6. Control
  BY <1>4 DEF Init, InitialCount, Control
<1> QED BY <1>1, <1>2, <1>3, <1>5, <1>6 DEF IInv

\* A non-empty queue has a head, the result of an open job.
LEMMA QueueHead ==
  ASSUME IInv, outq # <<>>
  PROVE  /\ Head(outq) = outq[1] /\ 1 \in 1..Len(outq)
         /\ Head(outq).stage \in cache
         /\ Head(outq).stage \in Stage
         /\ Head(outq).stage <= taken
         /\ Head(outq).ok => holds[Head(outq).stage]
<1>1. Len(outq) \in Nat /\ Len(outq) >= 1 /\ Head(outq) = outq[1]
  BY DEF IInv, TypeOK
<1> QED BY <1>1, QueueType DEF IInv, Results

(* The main thread. *)

\* A submitted job is open and in the queue.
LEMMA SubmitInv == IInv /\ Submit => IInv'
<1> SUFFICES ASSUME IInv, Submit PROVE IInv'
  OBVIOUS
<1> USE StagePoolAssumption
<1>1. TypeOK'
  BY DEF IInv, TypeOK, Submit, MoreStages, workerVars, Stage
<1>2. InFlight'
  BY DEF IInv, TypeOK, InFlight, Submit, MoreStages, workerVars, Stage
<1>3. Results'
  BY DEF IInv, TypeOK, InFlight, Results, Submit, MoreStages, workerVars, Stage
<1>4. Counted' = Counted
  BY DEF IInv, TypeOK, InFlight, Submit, MoreStages, Answered, Answering, Counted, Stage
<1>5. Countdown'
  BY <1>4 DEF IInv, Countdown, Submit, MoreStages, Stage
<1>6. Control'
  BY <1>4 DEF IInv, TypeOK, Control, Submit, MoreStages, Stage
<1> QED BY <1>1, <1>2, <1>3, <1>5, <1>6 DEF IInv

\* Only an error terminates the pool before the last submission.
LEMMA SubmitRefusedInv == IInv /\ SubmitRefused => IInv'
<1> SUFFICES ASSUME IInv, SubmitRefused PROVE IInv'
  OBVIOUS
<1> USE StagePoolAssumption DEF SubmitRefused, MoreStages, workerVars
<1>1. TypeOK' /\ InFlight' /\ Results'
  BY DEF IInv, TypeOK, InFlight, Results, Stage
<1>2. Counted' = Counted
  BY DEF Answered, Answering, Counted
<1>3. Countdown'
  BY <1>2 DEF IInv, Countdown, Stage
<1>4. errorFlag
  <2>1. pool = "TERMINATE"
    BY DEF IInv, TypeOK, Control
  <2>2. N \notin Counted /\ N \in Stage
    <3>1. N \notin 1..submitted /\ N \in Stage
      BY DEF IInv, TypeOK, Stage
    <3>2. handler \in {"terminating", "joining"} => Head(outq).stage \in 1..submitted
      BY QueueHead DEF IInv, InFlight, Control
    <3> QED BY <3>1, <3>2 DEF Counted, Answered, Answering
  <2> QED BY <2>1, <2>2 DEF IInv, TypeOK, Control
<1>5. Control'
  BY <1>2, <1>4 DEF IInv, Control, Stage
<1> QED BY <1>1, <1>3, <1>5 DEF IInv

\* launch closes the pool after its last submission.
LEMMA CloseInv == IInv /\ Close => IInv'
<1> SUFFICES ASSUME IInv, Close PROVE IInv'
  OBVIOUS
<1> USE StagePoolAssumption DEF Close, MoreStages, Closed, workerVars
<1>1. TypeOK' /\ InFlight' /\ Results'
  BY DEF IInv, TypeOK, InFlight, Results, Stage
<1>2. Counted' = Counted
  BY DEF Answered, Answering, Counted
<1>3. Countdown'
  BY <1>2 DEF IInv, Countdown, Stage
<1>4. Control'
  BY <1>2 DEF IInv, TypeOK, Control, Stage
<1> QED BY <1>1, <1>3, <1>4 DEF IInv

\* join returns when the handler has left.
LEMMA JoinInv == IInv /\ Join => IInv'
<1> SUFFICES ASSUME IInv, Join PROVE IInv'
  OBVIOUS
<1> USE StagePoolAssumption DEF Join, workerVars
<1>1. TypeOK' /\ InFlight' /\ Results'
  BY DEF IInv, TypeOK, InFlight, Results, Stage
<1>2. Counted' = Counted
  BY DEF Answered, Answering, Counted
<1>3. Countdown' /\ Control'
  BY <1>2 DEF IInv, Countdown, Control, Stage
<1> QED BY <1>1, <1>3 DEF IInv

\* launch reports what the error flag says.
LEMMA ReportInv == IInv /\ Report => IInv'
<1> SUFFICES ASSUME IInv, Report PROVE IInv'
  OBVIOUS
<1> USE StagePoolAssumption DEF Report, Answer, workerVars
<1>1. TypeOK' /\ InFlight' /\ Results'
  BY DEF IInv, TypeOK, InFlight, Results, Stage
<1>2. Counted' = Counted
  BY DEF Answered, Answering, Counted
<1>3. Countdown' /\ Control'
  BY <1>2 DEF IInv, TypeOK, Countdown, Control, Stage
<1> QED BY <1>1, <1>3 DEF IInv

(* The workers. *)

\* A worker takes the next task, which is in no other place.
LEMMA TakeTaskInv == ASSUME NEW p \in Procs, IInv, TakeTask(p) PROVE IInv'
<1> USE StagePoolAssumption DEF TakeTask, mainVars
<1>1. TypeOK'
  BY DEF IInv, TypeOK, InFlight, Idle, Stage
<1>2. /\ taken \in Nat /\ submitted \in 0..N /\ taken + 1 \in cache
      /\ job'[p] = taken + 1
      /\ \A q \in Procs \ {p} : job'[q] = job[q]
  BY DEF IInv, TypeOK, InFlight, Stage
<1>3. InFlight'
  <2>1. \A q \in Procs : job'[q] \in Stage => /\ job'[q] <= taken'
                                             /\ job'[q] \in cache'
                                             /\ ran'[q] < MaxTasks
    BY <1>1, <1>2 DEF IInv, TypeOK, InFlight, Stage
  <2>2. \A q, r \in Procs : job'[q] \in Stage /\ q # r => job'[q] # job'[r]
    <3>1. \A q \in Procs : job[q] \in Stage => job[q] # taken + 1
      BY <1>2 DEF IInv, TypeOK, InFlight, Stage
    <3>2. taken + 1 \in Stage
      BY <1>2 DEF IInv, TypeOK
    <3> QED BY <1>2, <3>1, <3>2 DEF IInv, InFlight
  <2> QED BY <1>2, <2>1, <2>2 DEF IInv, TypeOK, InFlight, Stage
<1>4. Results'
  <2>1. \A i \in 1..Len(outq) : outq[i].stage # taken + 1
    BY <1>2 DEF IInv, TypeOK, Results
  <2>2. \A i \in 1..Len(outq) : \A q \in Procs : job'[q] # outq[i].stage
    BY <1>2, <2>1 DEF IInv, Results
  <2>3. \A i \in 1..Len(outq) : outq[i].stage <= taken + 1
    <3> SUFFICES ASSUME NEW i \in 1..Len(outq) PROVE outq[i].stage <= taken + 1
      OBVIOUS
    <3>1. outq[i].stage \in 1..N /\ outq[i].stage <= taken
      BY QueueType DEF IInv, Results, Stage
    <3> QED BY <1>2, <3>1
  <2> QED BY <2>2, <2>3 DEF IInv, Results
<1>5. Counted' = Counted
  BY DEF Answered, Answering, Counted
<1>6. Countdown' /\ Control'
  BY <1>5 DEF IInv, Countdown, Control, Stage
<1> QED BY <1>1, <1>3, <1>4, <1>6 DEF IInv

\* A worker puts the true result of its job into the queue.
LEMMA RunStageInv ==
  ASSUME NEW p \in Procs, NEW ok \in BOOLEAN, IInv, RunStage(p, ok)
  PROVE  IInv'
<1> USE StagePoolAssumption DEF RunStage, mainVars
<1> DEFINE r == [stage |-> job[p], ok |-> ok]
<1>1. r \in [stage : Stage, ok : BOOLEAN]
  OBVIOUS
<1>2. outq' \in Seq([stage : Stage, ok : BOOLEAN])
  BY <1>1 DEF IInv, TypeOK
<1>3. TypeOK'
  BY <1>2 DEF IInv, TypeOK, InFlight, Idle, Stage
<1>4. InFlight'
  BY DEF IInv, TypeOK, InFlight, Stage, Idle
<1>5. /\ Len(outq') = Len(outq) + 1
      /\ \A i \in 1..Len(outq) : outq'[i] = outq[i]
      /\ outq'[Len(outq) + 1] = r
  BY <1>1 DEF IInv, TypeOK
<1>11. /\ r.stage = job[p] /\ job[p] \in cache /\ job[p] =< taken
       /\ r.ok => holds[r.stage]
       /\ job[p] # Idle
       /\ \A i \in 1..Len(outq) : outq[i].stage # job[p]
       /\ \A q \in Procs : job'[q] = IF q = p THEN Idle ELSE job[q]
  BY DEF IInv, TypeOK, InFlight, Results, Stage, Idle
<1>12. \A i \in 1..Len(outq') :
         \/ i \in 1..Len(outq) /\ outq'[i] = outq[i]
         \/ i = Len(outq) + 1 /\ outq'[i] = r
  BY <1>5 DEF IInv, TypeOK
<1>6. Results'
  <2>1. \A i \in 1..Len(outq) : outq[i].stage \in Stage
    BY QueueType DEF IInv
  <2>2. \A q \in Procs : q # p => job[q] # job[p]
    BY DEF IInv, InFlight
  <2>3. Idle \notin Stage /\ job[p] \in Stage
    BY DEF Stage, Idle
  <2>4. \A i \in 1..Len(outq') : \A q \in Procs : job'[q] # outq'[i].stage
    BY <1>11, <1>12, <2>1, <2>2, <2>3 DEF IInv, Results
  <2> QED BY <1>11, <1>12, <2>4 DEF IInv, Results
<1>9. /\ outq' # <<>>
      /\ outq # <<>> => Head(outq') = Head(outq)
  <2>1. outq' # <<>> /\ Head(outq') = outq'[1]
    BY <1>2, <1>5 DEF IInv, TypeOK
  <2>2. outq # <<>> => 1 \in 1..Len(outq) /\ Head(outq) = outq[1]
    BY QueueHead
  <2> QED BY <1>5, <2>1, <2>2
<1>7. Counted' = Counted
  BY <1>9 DEF IInv, Control, Answered, Answering, Counted
<1>8. Countdown'
  BY <1>7 DEF IInv, Countdown, Stage
<1>10. Control'
  BY <1>7, <1>9 DEF IInv, Control, Stage
<1> QED BY <1>3, <1>4, <1>6, <1>8, <1>10 DEF IInv

\* A worker that exits, is killed or is replaced holds no job.
LEMMA SlotInv ==
  ASSUME NEW p \in Procs, IInv, WorkerExits(p) \/ Repopulate(p) \/ Kill(p)
  PROVE  IInv'
<1> USE StagePoolAssumption DEF WorkerExits, Repopulate, Kill, mainVars
<1>1. /\ job' \in [Procs -> 0..(N + 1)]
      /\ ran' \in [Procs -> 0..MaxTasks]
      /\ kills' \in 0..MaxKills
      /\ broken' \in SUBSET {"in", "out"}
      /\ \A q \in Procs : \/ job'[q] = job[q] /\ ran'[q] = ran[q]
                          \/ job'[q] \notin Stage
  <2>1. 0 \in 0..(N + 1) /\ N + 1 \in 0..(N + 1) /\ 0 \in 0..MaxTasks
    OBVIOUS
  <2>2. 0 \notin Stage /\ N + 1 \notin Stage
    BY DEF Stage
  <2>3. /\ job' \in [Procs -> 0..(N + 1)]
        /\ ran' \in [Procs -> 0..MaxTasks]
    BY <2>1 DEF IInv, TypeOK, Idle, Gone
  <2>4. kills' \in 0..MaxKills
    BY DEF IInv, TypeOK
  <2>6. broken' \in SUBSET {"in", "out"}
    <3>1. LockHeld(p) \in {"in", "out"}
      BY Zenon DEF LockHeld
    <3> QED BY <3>1 DEF IInv, TypeOK
  <2>5. \A q \in Procs : \/ job'[q] = job[q] /\ ran'[q] = ran[q]
                        \/ job'[q] \notin Stage
    BY <2>2 DEF IInv, TypeOK, Idle, Gone
  <2> QED BY <2>3, <2>4, <2>5, <2>6
<1>2. TypeOK'
  BY <1>1 DEF IInv, TypeOK, Stage
<1>3. InFlight'
  BY <1>1 DEF IInv, TypeOK, InFlight, Stage
<1>4. Results'
  <2>1. \A i \in 1..Len(outq) : outq[i].stage \in Stage
    BY QueueType DEF IInv
  <2>2. \A i \in 1..Len(outq) : \A q \in Procs : job'[q] # outq[i].stage
    BY <1>1, <2>1 DEF IInv, Results
  <2> QED BY <2>2 DEF IInv, Results
<1>5. Counted' = Counted
  BY DEF Answered, Answering, Counted
<1>6. Countdown' /\ Control'
  BY <1>5 DEF IInv, Countdown, Control, Stage
<1> QED BY <1>2, <1>3, <1>4, <1>6 DEF IInv

(* The result handler. *)

\* Removing the head of the queue, and its job from the cache.
LEMMA Dequeue ==
  ASSUME IInv, outq # <<>>, outq' = Tail(outq), UNCHANGED <<holds, submitted, taken, job, ran>>,
         cache' = cache \ {Head(outq).stage}
  PROVE  /\ Head(outq).stage \in cache
         /\ Head(outq).stage \in Stage
         /\ Head(outq).ok => holds[Head(outq).stage]
         /\ outq' \in Seq([stage : Stage, ok : BOOLEAN])
         /\ Answered' = Answered \cup {Head(outq).stage}
         /\ InFlight' /\ Results'
<1> USE StagePoolAssumption
<1>1. /\ Len(outq) \in Nat /\ Len(outq) >= 1
      /\ Len(outq') = Len(outq) - 1
      /\ \A i \in 1..Len(outq') : outq'[i] = outq[i + 1]
      /\ Head(outq) = outq[1]
  BY DEF IInv, TypeOK
<1>2. outq' \in Seq([stage : Stage, ok : BOOLEAN])
  BY DEF IInv, TypeOK
<1> DEFINE h == Head(outq).stage
<1>3. /\ h \in cache /\ h \in Stage /\ h <= taken
      /\ Head(outq).ok => holds[h]
      /\ \A p \in Procs : job[p] # h
      /\ \A i \in 1..Len(outq) : i # 1 => outq[i].stage # h
  BY <1>1, QueueType DEF IInv, Results
<1>4. Answered' = Answered \cup {h}
  BY <1>3 DEF IInv, InFlight, Answered
<1> HIDE DEF h
<1>5. InFlight'
  <2>1. /\ cache' = cache \ {h}
        /\ \A p \in Procs : job[p] \in Stage => job[p] \in cache'
    BY <1>3 DEF IInv, InFlight, h
  <2>2. \A s \in Stage : taken < s => s # h
    BY <1>3 DEF IInv, TypeOK, Stage
  <2> QED BY <2>1, <2>2 DEF IInv, InFlight, Stage
<1>6. \A i \in 1..Len(outq') : i + 1 \in 1..Len(outq) /\ i + 1 # 1
  BY <1>1
<1>7. Results'
  BY <1>1, <1>3, <1>6 DEF IInv, Results, h
<1> QED BY <1>2, <1>3, <1>4, <1>5, <1>7 DEF h

\* The callback of the job at the head has returned.
LEMMA SettledInv ==
  ASSUME IInv, outq # <<>>, Settled, UNCHANGED <<holds, submitted, taken, job, ran>>
  PROVE  /\ Head(outq).stage \in Stage
         /\ outq' \in Seq([stage : Stage, ok : BOOLEAN])
         /\ Counted' = Answered \cup {Head(outq).stage}
         /\ InFlight' /\ Results'
<1>1. Answering' = {}
  BY DEF Settled, Answering
<1> QED BY <1>1, Dequeue DEF Settled, Counted

\* A callback answers one open job and counts it down.
LEMMA CallbackInv == IInv /\ Callback => IInv'
<1> SUFFICES ASSUME IInv, Callback PROVE IInv'
  OBVIOUS
<1> USE StagePoolAssumption DEF Callback, AfterCount, mainVars, workerVars
<1> PICK h : h = Head(outq).stage
  OBVIOUS
<1>1. h \in cache /\ h \in Stage /\ holds[h]
  BY QueueHead
<1>2. ~errorFlag
  BY DEF IInv, Control
<1>12. Counted = Answered
  BY DEF Counted, Answering
<1>13. /\ Counted' = Counted \cup {h}
       /\ InFlight' /\ Results'
       /\ outq' \in Seq([stage : Stage, ok : BOOLEAN])
       /\ handler' = "get" \/ (handler' = "terminating" /\ outq' = outq)
       /\ handler' = "terminating" <=> pool' = "TERMINATE"
  <2>1. CASE pool' = "TERMINATE"
    <3>1. Answered' = Answered /\ Answering' = {h}
      BY <2>1 DEF Answered, Answering
    <3>2. /\ UNCHANGED <<holds, submitted, cache, taken, job, ran, outq>>
      BY <2>1
    <3>4. InFlight'
      BY <3>2, Zenon DEF IInv, InFlight, Stage
    <3>5. Results'
      BY <3>2, Zenon DEF IInv, Results
    <3>3. outq' \in Seq([stage : Stage, ok : BOOLEAN])
      BY <2>1 DEF IInv, TypeOK
    <3> QED BY <2>1, <3>1, <3>3, <3>4, <3>5, <1>12 DEF Counted
  <2>2. CASE pool' # "TERMINATE"
    <3>1. handler' = "get" /\ Settled
      BY <2>2 DEF Settled
    <3> QED BY <2>2, <3>1, <1>12, SettledInv
  <2> QED BY <2>1, <2>2
<1>3. /\ IsFiniteSet(Stage \ Counted)
      /\ Cardinality(Stage \ Counted) \in Nat
  BY StageFinite, FS_Difference, FS_CardinalityType
<1>4. h \in Stage \ Counted /\ Stage \ Counted' = (Stage \ Counted) \ {h}
  BY <1>1, <1>12, <1>13 DEF Answered
<1>5. /\ Cardinality(Stage \ Counted') = Cardinality(Stage \ Counted) - 1
      /\ IsFiniteSet(Stage \ Counted')
      /\ Cardinality(Stage \ Counted') \in Nat
  <2> DEFINE open == Stage \ Counted
  <2>1. h \in open /\ IsFiniteSet(open)
    BY <1>3, <1>4
  <2>2. /\ Cardinality(open \ {h}) = Cardinality(open) - 1
        /\ IsFiniteSet(open \ {h})
    <3> HIDE DEF open
    <3> QED BY <2>1, FS_RemoveElement
  <2>3. Cardinality(open \ {h}) \in Nat
    <3> HIDE DEF open
    <3> QED BY <2>2, FS_CardinalityType
  <2> QED BY <2>2, <2>3, <1>4
<1>6. counter' = Cardinality(Stage \ Counted')
  BY <1>2, <1>5 DEF IInv, Countdown
<1>7. counter' \in 0..N
  BY <1>5, <1>6 DEF IInv, TypeOK
<1>8. TypeOK'
  <2>1. cache' \in SUBSET Stage
    BY DEF IInv, TypeOK, Settled
  <2> QED BY <1>7, <1>13, <2>1 DEF IInv, TypeOK
<1>9. Countdown'
  BY <1>1, <1>2, <1>6, <1>13 DEF IInv, Countdown, Stage
<1>10. counter' = 0 => Counted' = Stage
  <2>1. Counted' \subseteq Stage
    BY <1>1, <1>8, <1>12, <1>13 DEF IInv, TypeOK, Answered, Stage
  <2>2. counter' = 0 => Stage \ Counted' = {}
    BY <1>5, <1>6, FS_EmptySet
  <2> QED BY <2>1, <2>2
<1>11. Control'
  <2>1. pool' = "TERMINATE" => Counted' = Stage
    BY <1>10 DEF IInv, TypeOK
  <2>2. handler' \notin {"flagged", "joining", "exit"}
    BY <1>13
  <2> QED BY <1>2, <1>13, <2>1, <2>2 DEF IInv, TypeOK, Control, Stage
<1> QED BY <1>8, <1>9, <1>11, <1>13 DEF IInv

\* A stage that raises sets the flag.
LEMMA ErrorCallbackInv == IInv /\ ErrorCallback => IInv'
<1> SUFFICES ASSUME IInv, ErrorCallback PROVE IInv'
  OBVIOUS
<1> USE StagePoolAssumption DEF ErrorCallback, mainVars, workerVars
<1>1. TypeOK' /\ InFlight' /\ Results'
  BY DEF IInv, TypeOK, InFlight, Results, Stage
<1>2. main # "success"
  BY DEF IInv, Control
<1>3. Countdown' /\ Control'
  BY <1>2 DEF IInv, TypeOK, Countdown, Control, Stage
<1> QED BY <1>1, <1>3 DEF IInv

\* The flag is set before the pool is terminated.
LEMMA ErrorTerminateInv == IInv /\ ErrorTerminate => IInv'
<1> SUFFICES ASSUME IInv, ErrorTerminate PROVE IInv'
  OBVIOUS
<1> USE StagePoolAssumption DEF ErrorTerminate, AfterError, mainVars, workerVars
<1>1. errorFlag /\ outq # <<>>
  BY DEF IInv, Control
<1>2. TypeOK' /\ InFlight' /\ Results'
  BY DEF IInv, TypeOK, InFlight, Results, Stage
<1>3. Countdown' /\ Control'
  BY <1>1 DEF IInv, TypeOK, Countdown, Control, Stage
<1> QED BY <1>2, <1>3 DEF IInv

\* No worker is left, so none holds a job.
LEMMA EndWorkersInv == IInv /\ EndWorkers => IInv'
<1> SUFFICES ASSUME IInv, EndWorkers PROVE IInv'
  OBVIOUS
<1> USE StagePoolAssumption DEF EndWorkers, mainVars
<1>1. Gone \in 0..(N + 1) /\ Gone \notin Stage
  BY DEF Gone, Stage
<1>2. TypeOK'
  BY <1>1 DEF IInv, TypeOK, Stage
<1>3. InFlight'
  BY <1>1 DEF IInv, InFlight, Stage
<1>4. Results'
  BY <1>1, QueueType DEF IInv, Results
<1>5. Counted' = Counted
  BY DEF Answered, Answering, Counted
<1>6. Countdown' /\ Control'
  BY <1>5 DEF IInv, Countdown, Control, Stage
<1> QED BY <1>2, <1>3, <1>4, <1>6 DEF IInv

\* The job whose callback terminated the pool has counted before.
LEMMA TerminatedInv == IInv /\ Terminated => IInv'
<1> SUFFICES ASSUME IInv, Terminated PROVE IInv'
  OBVIOUS
<1> USE StagePoolAssumption DEF Terminated, mainVars, workerVars
<1>1. outq # <<>> /\ pool = "TERMINATE"
  BY DEF IInv, Control
<1>2. /\ outq' \in Seq([stage : Stage, ok : BOOLEAN])
      /\ Counted' = Answered \cup {Head(outq).stage}
      /\ InFlight' /\ Results'
  BY <1>1, SettledInv
<1>3. Counted' = Counted
  BY <1>2 DEF Counted, Answering
<1>4. TypeOK'
  BY <1>2 DEF IInv, TypeOK, Settled
<1>5. Countdown' /\ Control'
  BY <1>1, <1>3 DEF IInv, TypeOK, Countdown, Control, Settled, Stage
<1> QED BY <1>2, <1>4, <1>5 DEF IInv

\* The handler leaves a pool whose jobs are answered, or a terminated one.
LEMMA HandlerExitsInv == IInv /\ HandlerExits => IInv'
<1> SUFFICES ASSUME IInv, HandlerExits PROVE IInv'
  OBVIOUS
<1> USE StagePoolAssumption DEF HandlerExits, mainVars, workerVars
<1>1. TypeOK' /\ InFlight' /\ Results'
  BY DEF IInv, TypeOK, InFlight, Results, Stage
<1>2. Counted' = Counted
  BY DEF Answered, Answering, Counted
<1>3. ~errorFlag => Counted = Stage
  <2>1. pool = "CLOSE" /\ cache = {} => Counted = Stage
    BY DEF IInv, Control, Answered, Answering, Counted, Stage
  <2> QED BY <2>1 DEF IInv, Control, Drained
<1>4. Countdown' /\ Control'
  BY <1>2, <1>3 DEF IInv, TypeOK, Countdown, Control, Stage
<1> QED BY <1>1, <1>4 DEF IInv

\* Every step keeps the invariant.
LEMMA StepInv == IInv /\ [Next]_vars => IInv'
<1> SUFFICES ASSUME IInv, [Next]_vars PROVE IInv'
  OBVIOUS
<1>1. ASSUME Main PROVE IInv'
  BY <1>1, SubmitInv, SubmitRefusedInv, CloseInv, JoinInv, ReportInv DEF Main
<1>2. ASSUME NEW p \in Procs, Worker(p) \/ RunsStage(p) \/ Kill(p) PROVE IInv'
  BY <1>2, TakeTaskInv, RunStageInv, SlotInv DEF Worker, RunsStage
<1>3. ASSUME Handler PROVE IInv'
  BY <1>3, CallbackInv, ErrorCallbackInv, ErrorTerminateInv, EndWorkersInv,
           TerminatedInv, HandlerExitsInv
     DEF Handler
<1>4. ASSUME UNCHANGED vars PROVE IInv'
  BY <1>4 DEF vars, mainVars, workerVars, IInv, TypeOK, InFlight, Results,
              Countdown, Control, Counted, Answered, Answering, Stage
<1> QED BY <1>1, <1>2, <1>3, <1>4 DEF Next, Done

\* The inductive invariant holds in every reachable state.
THEOREM Invariant == Spec => []IInv
  BY InitInv, StepInv, PTL DEF Spec

\* Every variable of the pool phase keeps its type.
THEOREM TypeCorrect == Spec => []TypeOK
<1>1. IInv => TypeOK
  BY DEF IInv
<1> QED BY <1>1, Invariant, PTL

\* launch logs SUCCESS only when every stage equivalence holds, for every
\* number of stages and workers and any number of killed workers.
THEOREM SuccessIsSound == Spec => []SuccessSound
<1>1. IInv => SuccessSound
  BY DEF IInv, Control, Countdown, SuccessSound
<1> QED BY <1>1, Invariant, PTL

\* The countdown never terminates a pool that launch is still filling.
THEOREM RefusedIsError == Spec => []RefusedOnlyOnError
<1>1. IInv => RefusedOnlyOnError
  BY DEF IInv, Control, RefusedOnlyOnError
<1> QED BY <1>1, Invariant, PTL

\* The pool phase implements the abstract verdict.
THEOREM Refinement == Spec => Implements
<1>1. Init => Abstract!Init
  BY DEF Init, InitialCount, Abstract!Init, told, Stage
<1>2. IInv /\ [Next]_vars => [Abstract!Next]_(Abstract!vars)
  <2> SUFFICES ASSUME IInv, [Next]_vars
               PROVE  [Abstract!Next]_(Abstract!vars)
    OBVIOUS
  <2> USE DEF Abstract!Next, Abstract!vars, Abstract!Fail, Abstract!Succeed,
              told
  <2>1. ASSUME Report PROVE Abstract!Next
    BY <2>1 DEF Report, Answer, IInv, Countdown, Control, Stage
  <2>2. ASSUME SubmitRefused PROVE Abstract!Next
    BY <2>2 DEF SubmitRefused, MoreStages
  <2>3. ASSUME Submit \/ Close \/ Join PROVE UNCHANGED <<holds, told>>
    BY <2>3 DEF Submit, MoreStages, Close, MoreStages, Closed, Join
  <2>4. ASSUME NEW p \in Procs, Worker(p) \/ RunsStage(p) \/ Kill(p)
        PROVE  UNCHANGED <<holds, told>>
    BY <2>4 DEF Worker, RunsStage, Kill, TakeTask, RunStage, WorkerExits, Repopulate,
                mainVars
  <2>5. ASSUME Handler PROVE UNCHANGED <<holds, told>>
    BY <2>5 DEF Handler, Callback, ErrorCallback, ErrorTerminate, EndWorkers,
                Terminated, Settled, HandlerExits, mainVars
  <2>6. ASSUME UNCHANGED vars PROVE UNCHANGED <<holds, told>>
    BY <2>6 DEF vars, mainVars
  <2> QED BY <2>1, <2>2, <2>3, <2>4, <2>5, <2>6 DEF Next, Main, Done
<1> QED BY <1>1, <1>2, Invariant, PTL DEF Spec, Implements, Abstract!Spec

(***************************************************************************)
(* PipelineSchedule: any plans, of any number of stages and microbatches   *)
(* on any devices.  First the order of the microbatches.                   *)
(***************************************************************************)
\* What the compiler writes: nothing has run before the programs are there.
NothingRun == phase # "run" => line = [d \in Device |-> 1]
\* The blocks of a chain by their place, and what the refinement needs of the state.
Blocks == 1..(IF mode = "train" THEN 2 * plan.S ELSE plan.S)
OrderIInv == plan \in Plan /\ line \in [Device -> Nat \ {0}] /\ NothingRun

\* Nothing has run in an initial state.
LEMMA OrderBegins == PipelineInit => OrderIInv
BY DEF PipelineInit, OrderIInv, NothingRun

\* A block of a chain is on some device.
LEMMA StagesThere ==
    ASSUME plan \in Plan, NEW k \in Blocks
    PROVE  /\ Chain[k][2] \in 0..LastStage /\ plan.on[Chain[k][2]] \subseteq Device
           /\ plan.on[Chain[k][2]] # {}
           /\ k \in 1..(2 * plan.S)
           /\ Chain[k] = IF k <= plan.S THEN <<"f", k - 1>> ELSE <<"b", 2 * plan.S - k>>
<1>1. plan.S \in Nat \ {0} /\ plan.on \in [0..(plan.S - 1) -> (SUBSET Device) \ {{}}]
  BY PipelineAssumption
<1>2. k \in 1..(2 * plan.S)
  BY <1>1 DEF Blocks
<1>3. Chain[k] = IF k <= plan.S THEN <<"f", k - 1>> ELSE <<"b", 2 * plan.S - k>>
  BY <1>2 DEF Chain
<1>4. Chain[k][2] \in 0..LastStage
  <2>1. CASE k <= plan.S
    BY <1>1, <1>2, <1>3, <2>1 DEF LastStage
  <2>2. CASE ~(k <= plan.S)
    BY <1>1, <1>2, <1>3, <2>2 DEF LastStage
  <2> QED BY <2>1, <2>2
<1>5. PICK t : t = Chain[k][2]
  OBVIOUS
<1>6. plan.on[t] \in (SUBSET Device) \ {{}}
  BY <1>1, <1>4, <1>5 DEF LastStage
<1>7. plan.on[t] \subseteq Device /\ plan.on[t] # {}
  BY <1>6
<1> QED BY <1>2, <1>3, <1>4, <1>5, <1>7, Zenon

\* Before the first line no block of any microbatch is done.
LEMMA NothingDone ==
    ASSUME plan \in Plan, line = [d \in Device |-> 1]
    PROVE  \A m : \A k \in Blocks : ~Through(m, k)
<1> SUFFICES ASSUME NEW m, NEW k \in Blocks, Through(m, k) PROVE FALSE
  OBVIOUS
<1>1. PICK d \in plan.on[Chain[k][2]] : d \in Device
  BY StagesThere
<1>2. line[d] = 1
  BY <1>1
<1>3. 1..(line[d] - 1) = {}
  BY <1>2
<1> QED BY <1>1, <1>3 DEF Through

\* All devices of the stage of block c are past its line for microbatch m, when they are at
\* the lines `at`.
Past(at, c, m) == \A d \in plan.on[c[2]] : \E n \in 1..(at[d] - 1) :
                     prog[d][n].op = c[1] /\ prog[d][n].s = c[2] /\ prog[d][n].m = m

\* Some devices go on by one line, the same for all of them: at most one block gets done.
LEMMA Advances ==
    ASSUME OrderIInv, NEW op, NEW s, NEW m0, NEW at,
           \A d \in Device : \/ at[d] = line[d]
                            \/ /\ at[d] = line[d] + 1
                               /\ prog[d][line[d]].op = op /\ prog[d][line[d]].s = s /\ prog[d][line[d]].m = m0,
           NEW k \in Blocks, NEW c, c = Chain[k], NEW m
    PROVE  /\ Past(line, c, m) => Past(at, c, m)
           /\ Past(at, c, m) /\ ~Past(line, c, m) => m = m0 /\ c[1] = op /\ c[2] = s
<1>1. \A d \in plan.on[c[2]] : d \in Device /\ line[d] \in Nat \ {0}
  BY StagesThere DEF OrderIInv
<1>2. ASSUME Past(line, c, m) PROVE Past(at, c, m)
  <2> SUFFICES ASSUME NEW d \in plan.on[c[2]]
               PROVE  \E n \in 1..(at[d] - 1) : prog[d][n].op = c[1] /\ prog[d][n].s = c[2] /\ prog[d][n].m = m
    BY DEF Past
  <2>1. PICK n \in 1..(line[d] - 1) : prog[d][n].op = c[1] /\ prog[d][n].s = c[2] /\ prog[d][n].m = m
    BY <1>2 DEF Past
  <2>2. n \in 1..(at[d] - 1)
    BY <1>1
  <2> QED BY <2>1, <2>2
<1>3. ASSUME Past(at, c, m), ~Past(line, c, m)
      PROVE  m = m0 /\ c[1] = op /\ c[2] = s
  <2>1. PICK d \in plan.on[c[2]] :
           ~\E n \in 1..(line[d] - 1) : prog[d][n].op = c[1] /\ prog[d][n].s = c[2] /\ prog[d][n].m = m
    BY <1>3 DEF Past
  <2>2. PICK n \in 1..(at[d] - 1) : prog[d][n].op = c[1] /\ prog[d][n].s = c[2] /\ prog[d][n].m = m
    BY <1>3 DEF Past
  <2>3. at[d] = line[d] + 1 /\ n = line[d] /\ d \in Device
    BY <1>1, <2>1, <2>2
  <2>4. at[d] # line[d]
    BY <1>1, <2>3
  <2>5. prog[d][line[d]].op = op /\ prog[d][line[d]].s = s /\ prog[d][line[d]].m = m0
    BY <2>3, <2>4
  <2> QED BY <2>2, <2>3, <2>5
<1> QED BY <1>2, <1>3

\* The blocks of microbatch m that are done.
DoneOf(m) == {k \in Blocks : m < plan.M /\ Through(m, k)}

\* The chain is finite.
LEMMA BlocksFinite ==
    ASSUME plan \in Plan
    PROVE  /\ IsFiniteSet(Blocks)
           /\ Cardinality(Blocks) = IF mode = "train" THEN 2 * plan.S ELSE plan.S
           /\ Cardinality(Blocks) \in Nat /\ plan.M \in Nat
<1>1. plan.S \in Nat \ {0} /\ plan.M \in Nat
  BY PipelineAssumption
<1>2. PICK n \in Nat : n = IF mode = "train" THEN 2 * plan.S ELSE plan.S
  BY <1>1
<1>3. Blocks = 1..n
  BY <1>2, Zenon DEF Blocks
<1>4. IsFiniteSet(1..n) /\ Cardinality(1..n) = n
  BY FS_Interval
<1> QED BY <1>1, <1>2, <1>3, <1>4

\* progress counts the blocks that are done.
LEMMA ProgressIs ==
    ASSUME NEW m \in Micro
    PROVE  progress[m] = Cardinality(DoneOf(m))
BY Zenon DEF progress, DoneOf, Blocks

\* length is the number of blocks, unless the plan is refused.
LEMMA LengthIs ==
    ASSUME NEW m \in Micro, plan \in Plan, ~PlanRefused, m < plan.M
    PROVE  length[m] = Cardinality(Blocks)
<1>1. m \in Nat /\ plan.M \in Nat
  BY BlocksFinite DEF Micro
<1>2. ~(m >= plan.M)
  BY <1>1
<1>3. length[m] = IF mode = "train" THEN 2 * plan.S ELSE plan.S
  BY <1>2, Zenon DEF length
<1> QED BY <1>3, BlocksFinite

\* A block has one place in the chain.
LEMMA SameBlock ==
    ASSUME plan \in Plan, NEW j \in Blocks, NEW k \in Blocks,
           Chain[j][1] = Chain[k][1], Chain[j][2] = Chain[k][2]
    PROVE  j = k
<1>1. plan.S \in Nat \ {0}
  BY PipelineAssumption
<1>2. /\ Chain[k] = IF k <= plan.S THEN <<"f", k - 1>> ELSE <<"b", 2 * plan.S - k>>
      /\ Chain[j] = IF j <= plan.S THEN <<"f", j - 1>> ELSE <<"b", 2 * plan.S - j>>
      /\ k \in 1..(2 * plan.S) /\ j \in 1..(2 * plan.S)
  BY StagesThere
<1>3. /\ k <= plan.S => Chain[k][1] = "f" /\ Chain[k][2] = k - 1
      /\ ~(k <= plan.S) => Chain[k][1] = "b" /\ Chain[k][2] = 2 * plan.S - k
      /\ j <= plan.S => Chain[j][1] = "f" /\ Chain[j][2] = j - 1
      /\ ~(j <= plan.S) => Chain[j][1] = "b" /\ Chain[j][2] = 2 * plan.S - j
  BY <1>2
<1> QED BY <1>1, <1>2, <1>3

\* A step of the programs is a step of the order, or leaves it alone.
LEMMA OneBlock ==
    ASSUME OrderIInv, phase = "run", NEW op, NEW s, NEW m0, UNCHANGED <<plan, mode, phase, prog>>,
           \A d \in Device : \/ line'[d] = line[d]
                            \/ /\ line'[d] = line[d] + 1
                               /\ prog[d][line[d]].op = op /\ prog[d][line[d]].s = s /\ prog[d][line[d]].m = m0
    PROVE  [Order!Next]_<<progress, length>>
<1>1. PICK at : at = line'
  OBVIOUS
<1>2. ~PlanRefused /\ length' = length /\ Blocks' = Blocks /\ plan' = plan
  BY DEF PlanRefused, Stopped, length, Blocks
<1>3. ASSUME NEW m
      PROVE  /\ DoneOf(m) = {k \in Blocks : m < plan.M /\ Past(line, Chain[k], m)}
             /\ DoneOf(m)' = {k \in Blocks : m < plan.M /\ Past(at, Chain[k], m)}
  <2>1. Chain' = Chain
    BY DEF Chain
  <2>2. DoneOf(m) = {k \in Blocks : m < plan.M /\ Past(line, Chain[k], m)}
    BY Zenon DEF DoneOf, Through, Past
  <2>3. DoneOf(m)' = {k \in Blocks : m < plan.M /\ Past(at, Chain[k], m)}
    BY <1>1, <1>2, <2>1, Zenon DEF DoneOf, Through, Past
  <2> QED BY <2>2, <2>3
<1>9. ASSUME NEW m, NEW k \in Blocks
      PROVE  /\ Past(line, Chain[k], m) => Past(at, Chain[k], m)
             /\ Past(at, Chain[k], m) /\ ~Past(line, Chain[k], m) => m = m0 /\ Chain[k][1] = op /\ Chain[k][2] = s
  <2>1. \A d \in Device : \/ at[d] = line[d]
                         \/ /\ at[d] = line[d] + 1
                            /\ prog[d][line[d]].op = op /\ prog[d][line[d]].s = s /\ prog[d][line[d]].m = m0
    BY <1>1
  <2>2. PICK c : c = Chain[k]
    OBVIOUS
  <2>3. /\ Past(line, c, m) => Past(at, c, m)
        /\ Past(at, c, m) /\ ~Past(line, c, m) => m = m0 /\ c[1] = op /\ c[2] = s
    BY <2>1, <2>2, Advances
  <2> QED BY <2>2, <2>3
<1>4. \A m \in Micro : progress[m] = Cardinality(DoneOf(m)) /\ progress'[m] = Cardinality(DoneOf(m)')
  <2>1. \A m \in Micro : progress[m] = Cardinality(DoneOf(m))
    BY ProgressIs
  <2>2. \A m \in Micro : progress'[m] = Cardinality(DoneOf(m)')
    BY <1>2, Zenon DEF progress, DoneOf, Blocks
  <2> QED BY <2>1, <2>2
<1>5. progress = [m \in Micro |-> progress[m]] /\ progress' = [m \in Micro |-> progress'[m]]
  BY DEF progress
<1>6. ASSUME NEW m, DoneOf(m)' # DoneOf(m)
      PROVE  m = m0 /\ m < plan.M /\ \E k \in Blocks : k \notin DoneOf(m) /\ DoneOf(m)' = DoneOf(m) \cup {k}
  <2>0. PICK A, B : A = DoneOf(m) /\ B = DoneOf(m)'
    OBVIOUS
  <2>1. /\ \A k : k \in A <=> k \in Blocks /\ m < plan.M /\ Past(line, Chain[k], m)
        /\ \A k : k \in B <=> k \in Blocks /\ m < plan.M /\ Past(at, Chain[k], m)
    BY <1>3, <2>0
  <2>2. A # B /\ A \subseteq B /\ B \subseteq Blocks
    BY <1>6, <1>9, <2>0, <2>1
  <2>3. PICK k \in Blocks : k \notin A /\ k \in B
    BY <2>2
  <2>4. m = m0 /\ m < plan.M /\ Chain[k][1] = op /\ Chain[k][2] = s
    BY <1>9, <2>1, <2>3
  <2>5. ASSUME NEW j \in B, j \notin A PROVE j = k
    <3>1. j \in Blocks /\ Chain[j][1] = op /\ Chain[j][2] = s
      BY <1>9, <2>1, <2>5
    <3> QED BY <2>4, <3>1, SameBlock DEF OrderIInv
  <2>6. B = A \cup {k}
    BY <2>2, <2>3, <2>5
  <2> QED BY <2>0, <2>3, <2>4, <2>6, Zenon
<1>7. CASE \A m \in Micro : DoneOf(m)' = DoneOf(m)
  <2>1. \A m \in Micro : progress'[m] = progress[m]
    BY <1>4, <1>7
  <2>2. progress' = progress
    BY <1>5, <2>1
  <2> QED BY <1>2, <2>2
<1>8. CASE \E m \in Micro : DoneOf(m)' # DoneOf(m)
  <2>1. PICK m \in Micro : DoneOf(m)' # DoneOf(m)
    BY <1>8
  <2>2. PICK k \in Blocks : k \notin DoneOf(m) /\ DoneOf(m)' = DoneOf(m) \cup {k}
    BY <1>6, <2>1
  <2>3. m = m0 /\ m < plan.M
    BY <1>6, <2>1
  <2>4. /\ IsFiniteSet(DoneOf(m)) /\ Cardinality(DoneOf(m)) < Cardinality(Blocks)
        /\ Cardinality(DoneOf(m)) \in Nat
        /\ Cardinality(DoneOf(m)') = Cardinality(DoneOf(m)) + 1
    <3>1. IsFiniteSet(Blocks) /\ DoneOf(m) \subseteq Blocks /\ DoneOf(m) # Blocks
      BY <1>3, <2>2, BlocksFinite DEF OrderIInv
    <3>2. /\ IsFiniteSet(DoneOf(m)) /\ Cardinality(DoneOf(m)) <= Cardinality(Blocks)
          /\ Cardinality(DoneOf(m)) # Cardinality(Blocks)
      BY <3>1, FS_Subset
    <3>3. Cardinality(DoneOf(m)) \in Nat /\ Cardinality(Blocks) \in Nat
      BY <3>1, <3>2, FS_CardinalityType
    <3>4. Cardinality(DoneOf(m) \cup {k}) = Cardinality(DoneOf(m)) + 1
      BY <2>2, <3>2, FS_AddElement
    <3> QED BY <2>2, <3>2, <3>3, <3>4
  <2>5. length[m] = Cardinality(Blocks)
    BY <1>2, <2>3, LengthIs DEF OrderIInv
  <2>6. progress[m] < length[m] /\ progress'[m] = progress[m] + 1
    BY <1>4, <2>4, <2>5
  <2>7. \A n \in Micro : n # m => progress'[n] = progress[n]
    BY <1>4, <1>6, <2>3
  <2>8. progress' = [progress EXCEPT ![m] = @ + 1]
    BY <1>5, <2>6, <2>7
  <2> QED BY <1>2, <2>6, <2>8 DEF Order!Next, Order!Step
<1> QED BY <1>7, <1>8

\* What Execute does to the lines.
LEMMA Executed ==
    ASSUME line \in [Device -> Nat \ {0}], NEW ds, NEW l, Execute(ds, l)
    PROVE  /\ line' \in [Device -> Nat \ {0}]
           /\ \A d \in Device : line'[d] = line[d] \/ (line'[d] = line[d] + 1 /\ d \in ds)
           /\ UNCHANGED <<plan, mode, phase, blocks, prog>>
<1>1. PICK ok \in BOOLEAN : line' = [d \in Device |-> IF d \in ds /\ ok THEN line[d] + 1 ELSE line[d]]
  BY DEF Execute
<1>2. ASSUME NEW d \in Device PROVE line'[d] = line[d] \/ (line'[d] = line[d] + 1 /\ d \in ds)
  BY <1>1
<1>3. ASSUME NEW d \in Device PROVE line'[d] \in Nat \ {0}
  BY <1>2
<1>4. line' = [d \in Device |-> line'[d]]
  BY <1>1
<1>5. line' \in [Device -> Nat \ {0}]
  BY <1>3, <1>4
<1> QED BY <1>2, <1>5 DEF Execute

\* A line of a device advances at most one microbatch, by one block.
LEMMA RunStep ==
    ASSUME OrderIInv, NEW d \in Device, Run(d)
    PROVE  OrderIInv' /\ [Order!Next]_<<progress, length>>
<1>1. PICK l : l = Now(d)
  OBVIOUS
<1>2. \E ds : /\ Execute(ds, l) /\ \A e \in Device : e \in ds => Now(e) = l
  <2>1. CASE Load(d)
    BY <1>1, <2>1 DEF Load
  <2>2. CASE Forward(d)
    BY <1>1, <2>2 DEF Forward
  <2>3. CASE Backward(d)
    BY <1>1, <2>3 DEF Backward
  <2>4. CASE Communicate(d)
    BY <1>1, <2>4 DEF Communicate, Meets
  <2> QED BY <2>1, <2>2, <2>3, <2>4 DEF Run
<1>3. PICK ds : Execute(ds, l) /\ \A e \in Device : e \in ds => Now(e) = l
  BY <1>2
<1>4. phase = "run"
  BY DEF Run, Load, Forward, Backward, Communicate, Running
<1>5. /\ line' \in [Device -> Nat \ {0}]
      /\ \A e \in Device : line'[e] = line[e] \/ (line'[e] = line[e] + 1 /\ e \in ds)
      /\ UNCHANGED <<plan, mode, phase, prog>>
  BY <1>3, Executed DEF OrderIInv
<1>6. \A e \in Device : \/ line'[e] = line[e]
                       \/ /\ line'[e] = line[e] + 1
                          /\ prog[e][line[e]].op = l.op /\ prog[e][line[e]].s = l.s /\ prog[e][line[e]].m = l.m
  BY <1>3, <1>5 DEF Now
<1>7. OrderIInv'
  BY <1>4, <1>5 DEF OrderIInv, NothingRun
<1> QED BY <1>4, <1>5, <1>6, <1>7, OneBlock

\* While nothing has run, a plan may be refused.
LEMMA BuildStep ==
    ASSUME OrderIInv, Build
    PROVE  OrderIInv' /\ [Order!Next]_<<progress, length>>
<1>1. phase # "run" /\ UNCHANGED <<plan, mode, line>> /\ ~Stopped
  BY DEF Build, AddBlock, AddConflict, Added, InsertSegments, Finish, Apply, LoaderOutside, runVars, Stopped
<1>2. line = [d \in Device |-> 1] /\ line' = [d \in Device |-> 1]
  BY <1>1 DEF OrderIInv, NothingRun
<1>3. OrderIInv'
  BY <1>1, <1>2 DEF OrderIInv, NothingRun
<1>4. \A m : \A k \in Blocks : ~Through(m, k)
  BY <1>2, NothingDone DEF OrderIInv
<1>5. \A m : \A k \in Blocks : ~Past(line, Chain[k], m)
  BY <1>4, Zenon DEF Through, Past
<1>6. ASSUME NEW m PROVE DoneOf(m) = {}
  BY <1>4 DEF DoneOf
<1>7. ASSUME NEW m PROVE DoneOf(m)' = {}
  <2>1. Blocks' = Blocks /\ Chain' = Chain /\ plan' = plan /\ line' = line
    BY <1>1 DEF Blocks, Chain
  <2>2. ASSUME NEW k \in Blocks PROVE ~Through(m, k)'
    <3>1. PICK c : c = Chain[k]
      OBVIOUS
    <3>2. PICK d \in plan.on[c[2]] : d \in Device
      BY <3>1, StagesThere DEF OrderIInv
    <3>3. line[d] = 1
      BY <1>2, <3>2
    <3>4. 1..(line[d] - 1) = {}
      BY <3>3
    <3>5. Through(m, k)' => \A e \in plan.on[c[2]] : \E n \in 1..(line[e] - 1) : TRUE
      BY <2>1, <3>1, Zenon DEF Through
    <3> QED BY <3>2, <3>4, <3>5
  <2>3. DoneOf(m)' = {k \in Blocks : m < plan.M /\ Through(m, k)'}
    BY <2>1, Zenon DEF DoneOf
  <2> QED BY <2>2, <2>3
<1>8. Cardinality({}) = 0
  BY FS_EmptySet
<1>9. \A m \in Micro : progress[m] = 0
  BY <1>6, <1>8, ProgressIs
<1>10. \A m \in Micro : progress'[m] = 0
  <2>1. ASSUME NEW m \in Micro PROVE progress'[m] = Cardinality(DoneOf(m)')
    BY <1>1, Zenon DEF progress, DoneOf, Blocks
  <2> QED BY <1>7, <1>8, <2>1
<1>11. progress' = progress
  <2>1. progress = [m \in Micro |-> progress[m]] /\ progress' = [m \in Micro |-> progress'[m]]
    BY DEF progress
  <2> QED BY <1>9, <1>10, <2>1
<1>12. CASE PlanRefused'
  <2>1. length' = [m \in Micro |-> 0]
    BY <1>12, Zenon DEF length
  <2> QED BY <1>3, <1>9, <1>11, <2>1 DEF Order!Next, Order!Refuse
<1>13. CASE ~PlanRefused'
  <2>1. ~PlanRefused
    BY <1>1 DEF PlanRefused
  <2>2. plan' = plan /\ mode' = mode
    BY <1>1
  <2>3. length' = length
    BY <1>13, <2>1, <2>2, Zenon DEF length
  <2> QED BY <1>3, <1>11, <2>3
<1> QED BY <1>12, <1>13

\* Every step is a step of MicrobatchOrder or leaves progress and length alone.
LEMMA OrderStep ==
    ASSUME OrderIInv, [PipelineNext]_pipelineVars
    PROVE  OrderIInv' /\ [Order!Next]_<<progress, length>>
<1>1. CASE Build
  BY <1>1, BuildStep
<1>2. CASE \E d \in Device : Run(d)
  BY <1>2, RunStep
<1>3. CASE UNCHANGED pipelineVars
  <2>1. UNCHANGED <<plan, mode, phase, prog, line>>
    BY <1>3 DEF pipelineVars
  <2>2. progress' = progress
    BY <2>1 DEF progress, Through, Chain
  <2>3. length' = length
    BY <2>1 DEF length, PlanRefused, Stopped
  <2> QED BY <2>1, <2>2, <2>3 DEF OrderIInv, NothingRun
<1> QED BY <1>1, <1>2, <1>3 DEF PipelineNext, PipelineDone

\* No microbatch has progressed when the plan is not yet written.
LEMMA OrderInit == PipelineInit => Order!Init
<1> SUFFICES ASSUME PipelineInit PROVE Order!Init
  OBVIOUS
<1>1. OrderIInv /\ ~PlanRefused
  BY OrderBegins DEF PlanRefused, Stopped, PipelineInit
<1>2. line = [d \in Device |-> 1]
  BY DEF PipelineInit
<1>3. \A m \in Micro : progress[m] = 0
  <2>1. ASSUME NEW m \in Micro PROVE DoneOf(m) = {}
    BY <1>1, <1>2, NothingDone DEF DoneOf, OrderIInv
  <2> QED BY <2>1, ProgressIs, FS_EmptySet
<1>4. progress = [m \in Micro |-> 0]
  BY <1>3 DEF progress
<1>5. length \in [Micro -> Nat]
  <2>1. PICK n \in Nat : n = IF mode = "train" THEN 2 * plan.S ELSE plan.S
    BY <1>1, BlocksFinite DEF OrderIInv
  <2>2. length = [m \in Micro |-> IF m >= plan.M \/ PlanRefused THEN 0 ELSE n]
    BY <2>1, Zenon DEF length
  <2> QED BY <2>2
<1> QED BY <1>4, <1>5 DEF Order!Init

\* No step of the devices takes more than one microbatch further, nor by more than one block
\* of its chain, none goes back, and none has begun when add_block, validate or a missing
\* step refuses the plan: the safety half of ImplementsOrder, for any plans and placement.
THEOREM MicrobatchesInOrder == PipelineSpec => Order!Init /\ [][Order!Next]_<<progress, length>>
<1>1. PipelineInit => OrderIInv /\ Order!Init
  BY OrderBegins, OrderInit
<1>2. OrderIInv /\ [PipelineNext]_pipelineVars => OrderIInv' /\ [Order!Next]_<<progress, length>>
  BY OrderStep
<1> QED BY <1>1, <1>2, PTL DEF PipelineSpec

(***************************************************************************)
(* Sorting.  R is a strict total order on T.                               *)
(***************************************************************************)
Total(T, R) ==
  /\ \A x \in T : <<x, x>> \notin R
  /\ \A x, y, z \in T : <<x, y>> \in R /\ <<y, z>> \in R => <<x, z>> \in R
  /\ \A x, y \in T : x # y => <<x, y>> \in R \/ <<y, x>> \in R

\* The rank of an element of a finite set is its place.
LEMMA Ranking ==
    ASSUME NEW T, IsFiniteSet(T), NEW R, Total(T, R),
           NEW rank, rank = [x \in T |-> Cardinality({y \in T : <<y, x>> \in R}) + 1]
    PROVE  /\ Cardinality(T) \in Nat
           /\ \A x \in T : rank[x] \in 1..Cardinality(T)
           /\ \A x, y \in T : <<x, y>> \in R => rank[x] < rank[y]
           /\ \A n \in 1..Cardinality(T) : \E x \in T : rank[x] = n
<1>1. PICK below : below = [x \in T |-> {y \in T : <<y, x>> \in R}]
  OBVIOUS
<1>2. \A x \in T : below[x] = {y \in T : <<y, x>> \in R} /\ rank[x] = Cardinality(below[x]) + 1
  BY <1>1
<1>3. Cardinality(T) \in Nat
  BY FS_CardinalityType
<1>4. ASSUME NEW x \in T
      PROVE  /\ IsFiniteSet(below[x]) /\ Cardinality(below[x]) \in Nat /\ rank[x] \in 1..Cardinality(T)
  <2>1. below[x] \in SUBSET T /\ x \notin below[x]
    BY <1>2 DEF Total
  <2>2. /\ IsFiniteSet(below[x]) /\ Cardinality(below[x]) <= Cardinality(T)
        /\ Cardinality(T) # Cardinality(below[x])
    BY <2>1, FS_Subset
  <2>3. Cardinality(below[x]) \in Nat
    BY <2>2, FS_CardinalityType
  <2> QED BY <1>2, <1>3, <2>2, <2>3
<1>5. ASSUME NEW x \in T, NEW y \in T, <<x, y>> \in R
      PROVE  rank[x] < rank[y]
  <2>1. below[x] \in SUBSET below[y] /\ x \in below[y] /\ x \notin below[x]
    BY <1>2, <1>5 DEF Total
  <2>2. Cardinality(below[x]) <= Cardinality(below[y]) /\ Cardinality(below[y]) # Cardinality(below[x])
    BY <1>4, <2>1, FS_Subset
  <2> QED BY <1>2, <1>4, <2>2
<1>6. ASSUME NEW x \in T, NEW y \in T, rank[x] = rank[y] PROVE x = y
  <2>1. rank[x] \in Int
    BY <1>3, <1>4
  <2>2. ~(<<x, y>> \in R) /\ ~(<<y, x>> \in R)
    BY <1>5, <1>6, <2>1
  <2> QED BY <2>2 DEF Total
<1>7. rank \in [T -> 1..Cardinality(T)]
  <2>1. rank = [x \in T |-> rank[x]]
    OBVIOUS
  <2> QED BY <1>4, <2>1
<1>8. rank \in Injection(T, 1..Cardinality(T))
  BY <1>6, <1>7 DEF Injection, IsInjective
<1>9. IsFiniteSet(1..Cardinality(T)) /\ Cardinality(1..Cardinality(T)) = Cardinality(T)
  BY <1>3, FS_Interval
<1>10. rank \in Surjection(T, 1..Cardinality(T))
  BY <1>8, <1>9, FS_Injection
<1>11. \A n \in 1..Cardinality(T) : \E x \in T : rank[x] = n
  BY <1>10 DEF Surjection
<1> QED BY <1>3, <1>4, <1>5, <1>11

\* There is a first element.
LEMMA First ==
    ASSUME NEW T, IsFiniteSet(T), NEW R, Total(T, R), T # {}
    PROVE  \E x \in T : \A y \in T : y # x => <<x, y>> \in R
<1>1. PICK rank : rank = [x \in T |-> Cardinality({y \in T : <<y, x>> \in R}) + 1]
  OBVIOUS
<1>2. /\ \A x \in T : rank[x] \in 1..Cardinality(T)
      /\ \A x, y \in T : <<x, y>> \in R => rank[x] < rank[y]
      /\ \A n \in 1..Cardinality(T) : \E x \in T : rank[x] = n
      /\ Cardinality(T) \in Nat
  BY <1>1, Ranking
<1>3. 1 \in 1..Cardinality(T)
  BY <1>2
<1>4. PICK x \in T : rank[x] = 1
  BY <1>2, <1>3
<1>5. ASSUME NEW y \in T, y # x PROVE <<x, y>> \in R
  <2>1. ~(<<y, x>> \in R)
    BY <1>2, <1>4
  <2> QED BY <1>5, <2>1 DEF Total
<1> QED BY <1>5

\* Max and the least element of a finite set of numbers.
LEMMA Extremes ==
    ASSUME NEW T \in SUBSET Int, IsFiniteSet(T), T # {}
    PROVE  /\ Max(T) \in T /\ \A y \in T : y <= Max(T)
           /\ \E x \in T : \A y \in T : x <= y
<1>1. PICK R : R = {x \in T \X T : x[1] < x[2]}
  OBVIOUS
<1>2. \A x, y \in T : <<x, y>> \in R <=> x < y
  BY <1>1
<1>3. Total(T, R)
  BY <1>2 DEF Total
<1>4. PICK Q : Q = {x \in T \X T : x[1] > x[2]}
  OBVIOUS
<1>5. \A x, y \in T : <<x, y>> \in Q <=> x > y
  BY <1>4
<1>6. Total(T, Q)
  BY <1>5 DEF Total
<1>7. PICK x \in T : \A y \in T : y # x => x > y
  BY <1>5, <1>6, First
<1>8. \A y \in T : x >= y
  BY <1>7
<1>9. Max(T) \in T /\ \A y \in T : Max(T) >= y
  BY <1>8, Zenon DEF Max
<1>10. PICK z \in T : \A y \in T : y # z => z < y
  BY <1>2, <1>3, First
<1> QED BY <1>9, <1>10

\* Keys are compared from the left.
Key(k) == k \in Int \X Int \X Int

\* Earlier is the lexicographic order of keys.
LEMMA KeyOrder ==
    ASSUME NEW a, Key(a), NEW b, Key(b)
    PROVE  Earlier(a, b) <=> \/ a[1] < b[1]
                             \/ a[1] = b[1] /\ a[2] < b[2]
                             \/ a[1] = b[1] /\ a[2] = b[2] /\ a[3] < b[3]
<1>1. 1..3 = {1, 2, 3} /\ 1..(1 - 1) = {} /\ 1..(2 - 1) = {1} /\ 1..(3 - 1) = {1, 2}
  OBVIOUS
<1>2. Earlier(a, b) <=> \E i \in {1, 2, 3} : a[i] < b[i] /\ \A j \in 1..(i - 1) : a[j] = b[j]
  BY <1>1 DEF Earlier
<1>3. Earlier(a, b) <=> \/ a[1] < b[1] /\ \A j \in 1..(1 - 1) : a[j] = b[j]
                        \/ a[2] < b[2] /\ \A j \in 1..(2 - 1) : a[j] = b[j]
                        \/ a[3] < b[3] /\ \A j \in 1..(3 - 1) : a[j] = b[j]
  BY <1>2, Zenon
<1>4. /\ \A j \in 1..(1 - 1) : a[j] = b[j]
      /\ (\A j \in 1..(2 - 1) : a[j] = b[j]) <=> a[1] = b[1]
      /\ (\A j \in 1..(3 - 1) : a[j] = b[j]) <=> a[1] = b[1] /\ a[2] = b[2]
  BY <1>1
<1> QED BY <1>3, <1>4

\* Lines with different keys are totally ordered by them.
LEMMA KeysTotal ==
    ASSUME NEW T, \A l \in T : Key(l.at), \A l, k \in T : l.at = k.at => l = k,
           NEW R, R = {x \in T \X T : Earlier(x[1].at, x[2].at)}
    PROVE  Total(T, R) /\ \A k, l \in T : <<k, l>> \in R <=> Earlier(k.at, l.at)
<1>1. \A k, l \in T : <<k, l>> \in R <=> Earlier(k.at, l.at)
  BY Zenon
<1>2. ASSUME NEW x \in T PROVE <<x, x>> \notin R
  <2>1. PICK a : a = x.at
    OBVIOUS
  <2>2. ~Earlier(a, a)
    BY <2>1, KeyOrder DEF Key
  <2> QED BY <1>1, <2>1, <2>2
<1>3. ASSUME NEW x \in T, NEW y \in T, NEW z \in T, <<x, y>> \in R, <<y, z>> \in R
      PROVE  <<x, z>> \in R
  <2>1. PICK a, b, c : a = x.at /\ b = y.at /\ c = z.at
    OBVIOUS
  <2>2. Key(a) /\ Key(b) /\ Key(c) /\ Earlier(a, b) /\ Earlier(b, c)
    BY <1>1, <1>3, <2>1
  <2>3. /\ a[1] \in Int /\ a[2] \in Int /\ a[3] \in Int
        /\ b[1] \in Int /\ b[2] \in Int /\ b[3] \in Int
        /\ c[1] \in Int /\ c[2] \in Int /\ c[3] \in Int
    BY <2>2 DEF Key
  <2>4. /\ \/ a[1] < b[1]
           \/ a[1] = b[1] /\ a[2] < b[2]
           \/ a[1] = b[1] /\ a[2] = b[2] /\ a[3] < b[3]
        /\ \/ b[1] < c[1]
           \/ b[1] = c[1] /\ b[2] < c[2]
           \/ b[1] = c[1] /\ b[2] = c[2] /\ b[3] < c[3]
    BY <2>2, KeyOrder
  <2>5. \/ a[1] < c[1]
        \/ a[1] = c[1] /\ a[2] < c[2]
        \/ a[1] = c[1] /\ a[2] = c[2] /\ a[3] < c[3]
    BY <2>3, <2>4
  <2>6. Earlier(a, c)
    BY <2>2, <2>5, KeyOrder
  <2> QED BY <1>1, <2>1, <2>6
<1>4. ASSUME NEW x \in T, NEW y \in T, x # y PROVE <<x, y>> \in R \/ <<y, x>> \in R
  <2>1. PICK a, b : a = x.at /\ b = y.at
    OBVIOUS
  <2>2. Key(a) /\ Key(b) /\ a # b
    BY <1>4, <2>1
  <2>3. a[1] \in Int /\ a[2] \in Int /\ a[3] \in Int /\ b[1] \in Int /\ b[2] \in Int /\ b[3] \in Int
        /\ ~(a[1] = b[1] /\ a[2] = b[2] /\ a[3] = b[3])
    BY <2>2 DEF Key
  <2>4. Earlier(a, b) \/ Earlier(b, a)
    BY <2>2, <2>3, KeyOrder
  <2> QED BY <1>1, <2>1, <2>4
<1> QED BY <1>1, <1>2, <1>3, <1>4 DEF Total

(***************************************************************************)
(* A program has the lines of its device, sorted.                          *)
(***************************************************************************)
Sorted(q, ls) ==
  /\ Len(q) \in Nat /\ DOMAIN q = 1..Len(q)
  /\ \A n \in 1..Len(q) : q[n] \in ls
  /\ \A l \in ls : \E n \in 1..Len(q) : q[n] = l
  /\ \A n, k \in 1..Len(q) : n < k => Earlier(q[n].at, q[k].at)

\* TopoSort puts a finite set of lines with different keys in their order.
LEMMA ProgramSorted ==
    ASSUME NEW d, IsFiniteSet(Kept(d)), \A l \in Kept(d) : Key(l.at),
           \A l, k \in Kept(d) : l.at = k.at => l = k
    PROVE  Sorted(Program(d), Kept(d))
<1>1. PICK T : T = Kept(d)
  OBVIOUS
<1>2. PICK R : R = {x \in T \X T : Earlier(x[1].at, x[2].at)}
  OBVIOUS
<1>3. Total(T, R) /\ \A k, l \in T : <<k, l>> \in R <=> Earlier(k.at, l.at)
  BY <1>1, <1>2, KeysTotal
<1>4. PICK rank : rank = [x \in T |-> Cardinality({y \in T : <<y, x>> \in R}) + 1]
  OBVIOUS
<1>5. /\ Cardinality(T) \in Nat
      /\ \A x \in T : rank[x] \in 1..Cardinality(T)
      /\ \A x, y \in T : <<x, y>> \in R => rank[x] < rank[y]
      /\ \A n \in 1..Cardinality(T) : \E x \in T : rank[x] = n
  BY <1>1, <1>3, <1>4, Ranking
<1>6. [l \in T |-> Cardinality({k \in T : Earlier(k.at, l.at)}) + 1] = rank
  <2>1. ASSUME NEW l \in T PROVE {k \in T : Earlier(k.at, l.at)} = {y \in T : <<y, l>> \in R}
    BY <1>3
  <2> QED BY <1>4, <2>1
<1>7. PICK q : q = Program(d)
  OBVIOUS
<1>8. q = TopoSort(T)
  BY <1>1, <1>7, Zenon DEF Program
<1>9. Len(q) = Cardinality(T) /\ DOMAIN q = 1..Len(q)
  BY <1>5, <1>8 DEF TopoSort
<1>10. ASSUME NEW n \in 1..Len(q) PROVE q[n] \in T /\ rank[q[n]] = n
  <2>1. q[n] = CHOOSE l \in T : Place(l, T) = n
    BY <1>8, <1>9 DEF TopoSort
  <2>2. \A l \in T : Place(l, T) = rank[l]
    BY <1>6 DEF Place
  <2>3. PICK l \in T : rank[l] = n
    BY <1>5, <1>9
  <2>4. \E x \in T : Place(x, T) = n
    BY <2>2, <2>3
  <2>5. q[n] \in T /\ Place(q[n], T) = n
    BY <2>1, <2>4, Zenon
  <2> QED BY <2>2, <2>5
<1>11. ASSUME NEW x \in T, NEW y \in T, rank[x] = rank[y] PROVE x = y
  <2>1. rank[x] \in Int
    BY <1>5
  <2>2. ~(<<x, y>> \in R) /\ ~(<<y, x>> \in R)
    BY <1>5, <1>11, <2>1
  <2> QED BY <1>3, <2>2 DEF Total
<1>12. ASSUME NEW l \in T PROVE \E n \in 1..Len(q) : q[n] = l
  BY <1>5, <1>9, <1>10, <1>11
<1>13. ASSUME NEW n \in 1..Len(q), NEW k \in 1..Len(q), n < k PROVE Earlier(q[n].at, q[k].at)
  <2>1. PICK x, y : x = q[n] /\ y = q[k]
    OBVIOUS
  <2>2. x \in T /\ y \in T /\ rank[x] = n /\ rank[y] = k
    BY <1>10, <2>1
  <2>3. x # y /\ ~(rank[y] < rank[x])
    BY <1>13, <2>2
  <2>4. <<x, y>> \in R
    <3>1. ~(<<y, x>> \in R)
      BY <1>5, <2>2, <2>3
    <3> QED BY <1>3, <2>2, <2>3, <3>1 DEF Total
  <2> QED BY <1>3, <2>1, <2>2, <2>4
<1> QED BY <1>1, <1>5, <1>7, <1>9, <1>10, <1>12, <1>13 DEF Sorted

(***************************************************************************)
(* The schedules.  A schedule is in order when it starts the blocks of a   *)
(* stage in the order of the microbatches: F and B say when.               *)
(***************************************************************************)
Cells(S, M) == (0..(S - 1)) \X (0..(M - 1))
\* F gives the blocks of each stage natural starts that grow with the microbatch.
Starts(S, M, F) ==
  /\ \A s \in 0..(S - 1), m \in 0..(M - 1) : F[<<s, m>>] \in Nat
  /\ \A s \in 0..(S - 1), m \in 0..(M - 1), n \in 0..(M - 1) : m < n => F[<<s, m>>] < F[<<s, n>>]
\* A block of a schedule whose forwards start at F and backwards at B, w steps long.
At(S, M, F, B, w, b) ==
  \E s \in 0..(S - 1), m \in 0..(M - 1) : \/ b = Block("f", s, m, F[<<s, m>>], 1)
                                         \/ b = Block("b", s, m, B[<<s, m>>], w)

\* A schedule that is given by such starts is in order.
LEMMA ByStart ==
    ASSUME NEW p, p.S \in Nat \ {0}, p.M \in Nat \ {0}, NEW F, NEW B, NEW w \in Nat \ {0}, NEW bs,
           Starts(p.S, p.M, F), Starts(p.S, p.M, B), \A b : b \in bs <=> At(p.S, p.M, F, B, w, b)
    PROVE  InOrder(p, bs, {"f", "b"})
<1>1. PICK S, M : S = p.S /\ M = p.M
  OBVIOUS
<1>2. /\ \A s \in 0..(S - 1), m \in 0..(M - 1) : F[<<s, m>>] \in Nat /\ B[<<s, m>>] \in Nat
      /\ \A s \in 0..(S - 1), m \in 0..(M - 1), n \in 0..(M - 1) :
            m < n => F[<<s, m>>] < F[<<s, n>>] /\ B[<<s, m>>] < B[<<s, n>>]
  BY <1>1 DEF Starts
<1>3. ASSUME NEW b \in bs
      PROVE  /\ b.s \in 0..(S - 1) /\ b.m \in 0..(M - 1)
             /\ \/ b.dir = "f" /\ b = Block("f", b.s, b.m, F[<<b.s, b.m>>], 1)
                               /\ b.start = F[<<b.s, b.m>>] /\ b.span = 1
                \/ b.dir = "b" /\ b = Block("b", b.s, b.m, B[<<b.s, b.m>>], w)
                               /\ b.start = B[<<b.s, b.m>>] /\ b.span = w
  <2>1. PICK s \in 0..(S - 1), m \in 0..(M - 1) : \/ b = Block("f", s, m, F[<<s, m>>], 1)
                                                 \/ b = Block("b", s, m, B[<<s, m>>], w)
    BY <1>1 DEF At
  <2>2. PICK x, y : x = F[<<s, m>>] /\ y = B[<<s, m>>]
    OBVIOUS
  <2>3. b.s = s /\ b.m = m
    BY <2>1, <2>2 DEF Block
  <2>4. CASE b = Block("f", s, m, x, 1)
    <3>1. b.dir = "f" /\ b.start = x /\ b.span = 1
      BY <2>4 DEF Block
    <3> QED BY <2>2, <2>3, <2>4, <3>1
  <2>5. CASE b = Block("b", s, m, y, w)
    <3>1. b.dir = "b" /\ b.start = y /\ b.span = w
      BY <2>5 DEF Block
    <3> QED BY <2>2, <2>3, <2>5, <3>1
  <2> QED BY <2>1, <2>2, <2>4, <2>5
<1>4. ASSUME NEW b \in bs
      PROVE  /\ b.dir \in {"f", "b"} /\ b.s \in 0..(S - 1) /\ b.m \in 0..(M - 1)
             /\ b.start \in Nat /\ b.span \in Nat \ {0}
  <2>1. F[<<b.s, b.m>>] \in Nat /\ B[<<b.s, b.m>>] \in Nat
    BY <1>2, <1>3
  <2> QED BY <1>3, <2>1
<1>5. ASSUME NEW a \in bs, NEW b \in bs, a.dir = b.dir, a.s = b.s
      PROVE  /\ a.m = b.m => a = b
             /\ a.m < b.m => a.start < b.start
  <2>1. "f" # "b"
    OBVIOUS
  <2>2. a.m = b.m => a = b
    BY <1>3, <1>5, <2>1, Zenon
  <2>3. a.m < b.m => a.start < b.start
    <3>1. PICK s, m, n : s = a.s /\ m = a.m /\ n = b.m
      OBVIOUS
    <3>2. s \in 0..(S - 1) /\ m \in 0..(M - 1) /\ n \in 0..(M - 1) /\ b.s = s
      BY <1>3, <1>5, <3>1
    <3>3. \/ a.start = F[<<s, m>>] /\ b.start = F[<<s, n>>]
          \/ a.start = B[<<s, m>>] /\ b.start = B[<<s, n>>]
      BY <1>3, <1>5, <2>1, <3>1, <3>2, Zenon
    <3> QED BY <1>2, <3>1, <3>2, <3>3
  <2> QED BY <2>2, <2>3
<1>6. ASSUME NEW dir \in {"f", "b"}, NEW s \in 0..(S - 1), NEW m \in 0..(M - 1)
      PROVE  \E b \in bs : b.dir = dir /\ b.s = s /\ b.m = m
  <2>1. PICK x, y : x = F[<<s, m>>] /\ y = B[<<s, m>>]
    OBVIOUS
  <2>2. Block("f", s, m, x, 1) \in bs /\ Block("b", s, m, y, w) \in bs
    BY <1>1, <2>1, Zenon DEF At
  <2>3. PICK b : b = IF dir = "f" THEN Block("f", s, m, x, 1) ELSE Block("b", s, m, y, w)
    OBVIOUS
  <2>4. b \in bs /\ b.dir = dir /\ b.s = s /\ b.m = m
    BY <2>2, <2>3 DEF Block
  <2> QED BY <2>4
<1>7. /\ \A b \in bs : /\ b.dir \in {"f", "b"} /\ b.s \in 0..(p.S - 1) /\ b.m \in 0..(p.M - 1)
                      /\ b.start \in Nat /\ b.span \in Nat \ {0}
      /\ \A dir \in {"f", "b"}, s \in 0..(p.S - 1), m \in 0..(p.M - 1) :
            \E b \in bs : b.dir = dir /\ b.s = s /\ b.m = m
  BY <1>1, <1>4, <1>6
<1> QED BY <1>5, <1>7, Zenon DEF InOrder

\* The start of a block of 1F1B.
OneFOneBBlock(S, M, b) ==
  \E s \in 0..(S - 1), m \in 0..(M - 1) : \/ b = Block("f", s, m, s + 2 * m, 1)
                                         \/ b = Block("b", s, m, 2 * m + 2 * S - 1 - s, 1)

\* The parity of step and stage says which block 1F1B has there: each block has one start.
LEMMA OneFOneBBlocks ==
    ASSUME NEW S \in Nat \ {0}, NEW M \in Nat \ {0}, NEW b
    PROVE  b \in OneFOneB(S, M) <=> OneFOneBBlock(S, M, b)
<1>1. ASSUME b \in OneFOneB(S, M)
      PROVE  \E s \in 0..(S - 1), m \in 0..(M - 1) :
                   \/ b = Block("f", s, m, s + 2 * m, 1)
                   \/ b = Block("b", s, m, 2 * m + 2 * S - 1 - s, 1)
  <2>1. PICK x \in (0..(2 * M + 2 * (S - 1) - 1)) \X (0..(S - 1)) :
           x[1] >= x[2] /\ b = OneFOneBAt(S, x[1], x[2]) /\ b.m \in 0..(M - 1)
    BY <1>1 DEF OneFOneB
  <2>2. PICK t \in Nat, s \in 0..(S - 1) : t = x[1] /\ s = x[2] /\ t >= s
    BY <2>1
  <2>3. PICK h, e : h = (t - s) \div 2 /\ e = (t - s) % 2
    OBVIOUS
  <2>4. h \in Nat /\ e \in 0..1 /\ t - s = 2 * h + e
    BY <2>2, <2>3
  <2>5. CASE e = 0
    <3>1. b = Block("f", s, h, t, 1)
      BY <2>1, <2>2, <2>3, <2>5 DEF OneFOneBAt
    <3>2. b.m = h
      BY <3>1 DEF Block
    <3>3. h \in 0..(M - 1) /\ t = s + 2 * h
      BY <2>1, <2>2, <2>4, <2>5, <3>2
    <3> QED BY <3>1, <3>3
  <2>6. CASE e = 1
    <3>1. b = Block("b", s, h - (S - 1 - s), t, 1)
      BY <2>1, <2>2, <2>3, <2>6 DEF OneFOneBAt
    <3>2. PICK m : m = h - (S - 1 - s)
      OBVIOUS
    <3>3. b.m = m
      BY <3>1, <3>2 DEF Block
    <3>4. m \in 0..(M - 1) /\ t = 2 * m + 2 * S - 1 - s
      BY <2>1, <2>2, <2>4, <2>6, <3>2, <3>3
    <3> QED BY <3>1, <3>2, <3>4
  <2> QED BY <2>4, <2>5, <2>6
<1>2. ASSUME NEW s \in 0..(S - 1), NEW m \in 0..(M - 1), NEW t,
             \/ b = Block("f", s, m, t, 1) /\ t = s + 2 * m
             \/ b = Block("b", s, m, t, 1) /\ t = 2 * m + 2 * S - 1 - s
      PROVE  b \in OneFOneB(S, M)
  <2>1. t \in 0..(2 * M + 2 * (S - 1) - 1) /\ t >= s
    BY <1>2
  <2>2. b = OneFOneBAt(S, t, s) /\ b.m = m
    <3>1. CASE b = Block("f", s, m, t, 1) /\ t = s + 2 * m
      <4>1. (t - s) % 2 = 0 /\ (t - s) \div 2 = m
        BY <3>1
      <4> QED BY <3>1, <4>1 DEF OneFOneBAt, Block
    <3>2. CASE b = Block("b", s, m, t, 1) /\ t = 2 * m + 2 * S - 1 - s
      <4>1. (t - s) % 2 = 1 /\ (t - s) \div 2 = m + (S - 1 - s)
        BY <3>2
      <4>2. ((t - s) \div 2) - (S - 1 - s) = m
        BY <4>1
      <4> QED BY <3>2, <4>1, <4>2 DEF OneFOneBAt, Block
    <3> QED BY <1>2, <3>1, <3>2
  <2>3. PICK x : x = <<t, s>>
    OBVIOUS
  <2>4. /\ x \in {y \in (0..(2 * M + 2 * (S - 1) - 1)) \X (0..(S - 1)) : y[1] >= y[2]}
        /\ b = OneFOneBAt(S, x[1], x[2])
    BY <2>1, <2>2, <2>3
  <2> QED BY <2>2, <2>4 DEF OneFOneB
<1> QED BY <1>1, <1>2, Zenon DEF OneFOneBBlock

\* 1F1B is in order, for any number of stages and microbatches.
LEMMA OneFOneBInOrder ==
    ASSUME NEW p, p.S \in Nat \ {0}, p.M \in Nat \ {0}
    PROVE  InOrder(p, OneFOneB(p.S, p.M), {"f", "b"})
<1>1. PICK S \in Nat \ {0}, M \in Nat \ {0} : S = p.S /\ M = p.M
  OBVIOUS
<1>2. PICK F : F = [x \in Cells(S, M) |-> x[1] + 2 * x[2]]
  OBVIOUS
<1>3. PICK B : B = [x \in Cells(S, M) |-> 2 * x[2] + 2 * S - 1 - x[1]]
  OBVIOUS
<1>4. \A s \in 0..(S - 1), m \in 0..(M - 1) : F[<<s, m>>] = s + 2 * m /\ B[<<s, m>>] = 2 * m + 2 * S - 1 - s
  BY <1>2, <1>3 DEF Cells
<1>5. Starts(S, M, F)
  BY <1>4 DEF Starts
<1>6. Starts(S, M, B)
  BY <1>4 DEF Starts
<1>7. ASSUME NEW b PROVE b \in OneFOneB(S, M) <=> At(S, M, F, B, 1, b)
  <2>1. \A s \in 0..(S - 1), m \in 0..(M - 1) :
           /\ Block("f", s, m, F[<<s, m>>], 1) = Block("f", s, m, s + 2 * m, 1)
           /\ Block("b", s, m, B[<<s, m>>], 1) = Block("b", s, m, 2 * m + 2 * S - 1 - s, 1)
    BY <1>4
  <2>2. ASSUME b \in OneFOneB(S, M) PROVE At(S, M, F, B, 1, b)
    <3>1. PICK s \in 0..(S - 1), m \in 0..(M - 1) : \/ b = Block("f", s, m, s + 2 * m, 1)
                                                   \/ b = Block("b", s, m, 2 * m + 2 * S - 1 - s, 1)
      <4>1. OneFOneBBlock(S, M, b)
        BY <2>2, OneFOneBBlocks
      <4> QED BY <4>1, Zenon DEF OneFOneBBlock
    <3>2. b = Block("f", s, m, F[<<s, m>>], 1) \/ b = Block("b", s, m, B[<<s, m>>], 1)
      BY <2>1, <3>1
    <3> QED BY <3>2, Zenon DEF At
  <2>3. ASSUME At(S, M, F, B, 1, b) PROVE b \in OneFOneB(S, M)
    <3>1. PICK s \in 0..(S - 1), m \in 0..(M - 1) : \/ b = Block("f", s, m, F[<<s, m>>], 1)
                                                   \/ b = Block("b", s, m, B[<<s, m>>], 1)
      BY <2>3, Zenon DEF At
    <3>2. b = Block("f", s, m, s + 2 * m, 1) \/ b = Block("b", s, m, 2 * m + 2 * S - 1 - s, 1)
      BY <2>1, <3>1
    <3>3. OneFOneBBlock(S, M, b)
      BY <3>2, Zenon DEF OneFOneBBlock
    <3> QED BY <3>3, OneFOneBBlocks
  <2> QED BY <2>2, <2>3
<1> QED BY <1>1, <1>5, <1>6, <1>7, ByStart

\* The start of a block of GPipe: all forwards, then all backwards.
GPipeBlock(S, M, b) ==
  \E s \in 0..(S - 1), m \in 0..(M - 1) : \/ b = Block("f", s, m, s + m, 1)
                                         \/ b = Block("b", s, m, m + M + 2 * S - 2 - s, 1)

\* The blocks that GPipe has at its steps, each with one start.
LEMMA GPipeBlocks ==
    ASSUME NEW S \in Nat \ {0}, NEW M \in Nat \ {0}, NEW b
    PROVE  b \in GPipe(S, M) <=> GPipeBlock(S, M, b)
<1>1. ASSUME b \in GPipe(S, M)
      PROVE  \E s \in 0..(S - 1), m \in 0..(M - 1) :
                   \/ b = Block("f", s, m, s + m, 1)
                   \/ b = Block("b", s, m, m + M + 2 * S - 2 - s, 1)
  <2>1. PICK x \in (0..(2 * (M + S - 1) - 1)) \X (0..(S - 1)) : b = GPipeAt(S, M, x[1], x[2]) /\ b.m \in 0..(M - 1)
    BY <1>1 DEF GPipe
  <2>2. PICK t \in Nat, s \in 0..(S - 1) : t = x[1] /\ s = x[2]
    BY <2>1
  <2>3. b = IF t < M + S - 1 THEN Block("f", s, t - s, t, 1) ELSE Block("b", s, t - (M + S - 1) - (S - 1 - s), t, 1)
    BY <2>1, <2>2, Zenon DEF GPipeAt
  <2>4. CASE t < M + S - 1
    <3>1. b = Block("f", s, t - s, t, 1)
      BY <2>3, <2>4
    <3>2. PICK m : m = t - s
      OBVIOUS
    <3>3. b.m = m
      BY <3>1, <3>2 DEF Block
    <3>4. m \in 0..(M - 1) /\ t = s + m
      BY <2>1, <2>2, <3>2, <3>3
    <3> QED BY <3>1, <3>2, <3>4
  <2>5. CASE ~(t < M + S - 1)
    <3>1. b = Block("b", s, t - (M + S - 1) - (S - 1 - s), t, 1)
      BY <2>3, <2>5
    <3>2. PICK m : m = t - (M + S - 1) - (S - 1 - s)
      OBVIOUS
    <3>3. b.m = m
      BY <3>1, <3>2 DEF Block
    <3>4. m \in 0..(M - 1) /\ t = m + M + 2 * S - 2 - s
      BY <2>1, <2>2, <3>2, <3>3
    <3> QED BY <3>1, <3>2, <3>4
  <2> QED BY <2>4, <2>5
<1>2. ASSUME NEW s \in 0..(S - 1), NEW m \in 0..(M - 1), NEW t,
             \/ b = Block("f", s, m, t, 1) /\ t = s + m
             \/ b = Block("b", s, m, t, 1) /\ t = m + M + 2 * S - 2 - s
      PROVE  b \in GPipe(S, M)
  <2>1. t \in 0..(2 * (M + S - 1) - 1)
    BY <1>2
  <2>2. b = GPipeAt(S, M, t, s) /\ b.m = m
    <3>1. CASE b = Block("f", s, m, t, 1) /\ t = s + m
      <4>1. t < M + S - 1 /\ t - s = m
        BY <3>1
      <4> QED BY <3>1, <4>1 DEF GPipeAt, Block
    <3>2. CASE b = Block("b", s, m, t, 1) /\ t = m + M + 2 * S - 2 - s
      <4>1. ~(t < M + S - 1) /\ t - (M + S - 1) - (S - 1 - s) = m
        BY <3>2
      <4> QED BY <3>2, <4>1 DEF GPipeAt, Block
    <3> QED BY <1>2, <3>1, <3>2
  <2>3. PICK x : x = <<t, s>>
    OBVIOUS
  <2>4. x \in (0..(2 * (M + S - 1) - 1)) \X (0..(S - 1)) /\ b = GPipeAt(S, M, x[1], x[2])
    BY <2>1, <2>2, <2>3
  <2> QED BY <2>2, <2>4 DEF GPipe
<1> QED BY <1>1, <1>2, Zenon DEF GPipeBlock

\* GPipe is in order, for any number of stages and microbatches.
LEMMA GPipeInOrder ==
    ASSUME NEW p, p.S \in Nat \ {0}, p.M \in Nat \ {0}
    PROVE  InOrder(p, GPipe(p.S, p.M), {"f", "b"})
<1>1. PICK S \in Nat \ {0}, M \in Nat \ {0} : S = p.S /\ M = p.M
  OBVIOUS
<1>2. PICK F : F = [x \in Cells(S, M) |-> x[1] + x[2]]
  OBVIOUS
<1>3. PICK B : B = [x \in Cells(S, M) |-> x[2] + M + 2 * S - 2 - x[1]]
  OBVIOUS
<1>4. \A s \in 0..(S - 1), m \in 0..(M - 1) : F[<<s, m>>] = s + m /\ B[<<s, m>>] = m + M + 2 * S - 2 - s
  BY <1>2, <1>3 DEF Cells
<1>5. Starts(S, M, F)
  BY <1>4 DEF Starts
<1>6. Starts(S, M, B)
  BY <1>4 DEF Starts
<1>7. ASSUME NEW b PROVE b \in GPipe(S, M) <=> At(S, M, F, B, 1, b)
  <2>1. \A s \in 0..(S - 1), m \in 0..(M - 1) :
           /\ Block("f", s, m, F[<<s, m>>], 1) = Block("f", s, m, s + m, 1)
           /\ Block("b", s, m, B[<<s, m>>], 1) = Block("b", s, m, m + M + 2 * S - 2 - s, 1)
    BY <1>4
  <2>2. ASSUME b \in GPipe(S, M) PROVE At(S, M, F, B, 1, b)
    <3>1. PICK s \in 0..(S - 1), m \in 0..(M - 1) : \/ b = Block("f", s, m, s + m, 1)
                                                   \/ b = Block("b", s, m, m + M + 2 * S - 2 - s, 1)
      <4>1. GPipeBlock(S, M, b)
        BY <2>2, GPipeBlocks
      <4> QED BY <4>1, Zenon DEF GPipeBlock
    <3>2. b = Block("f", s, m, F[<<s, m>>], 1) \/ b = Block("b", s, m, B[<<s, m>>], 1)
      BY <2>1, <3>1
    <3> QED BY <3>2, Zenon DEF At
  <2>3. ASSUME At(S, M, F, B, 1, b) PROVE b \in GPipe(S, M)
    <3>1. PICK s \in 0..(S - 1), m \in 0..(M - 1) : \/ b = Block("f", s, m, F[<<s, m>>], 1)
                                                   \/ b = Block("b", s, m, B[<<s, m>>], 1)
      BY <2>3, Zenon DEF At
    <3>2. b = Block("f", s, m, s + m, 1) \/ b = Block("b", s, m, m + M + 2 * S - 2 - s, 1)
      BY <2>1, <3>1
    <3>3. GPipeBlock(S, M, b)
      BY <3>2, Zenon DEF GPipeBlock
    <3> QED BY <3>3, GPipeBlocks
  <2> QED BY <2>2, <2>3
<1> QED BY <1>1, <1>5, <1>6, <1>7, ByStart

\* The inference schedule is in order.
LEMMA InferPipeInOrder ==
    ASSUME NEW p, p.S \in Nat \ {0}, p.M \in Nat \ {0}
    PROVE  InOrder(p, InferPipe(p.S, p.M), {"f"})
<1>1. PICK bs : bs = GPipe(p.S, p.M)
  OBVIOUS
<1>2. InOrder(p, bs, {"f", "b"})
  BY <1>1, GPipeInOrder
<1>3. PICK fs : fs = InferPipe(p.S, p.M)
  OBVIOUS
<1>4. \A b : b \in fs <=> b \in bs /\ b.dir = "f"
  BY <1>1, <1>3 DEF InferPipe
<1>5. InOrder(p, fs, {"f"})
  BY <1>2, <1>4 DEF InOrder
<1> QED BY <1>3, <1>5

\* Two microbatches of Chimera every 16 steps.
LEMMA ChimeraInOrder ==
    ASSUME NEW p, p.S = 4, p.M \in Nat \ {0}
    PROVE  InOrder(p, Chimera(p.M), {"f", "b"})
<1>1. PICK M \in Nat \ {0} : M = p.M
  OBVIOUS
<1>2. PICK F : F = [x \in Cells(4, M) |-> ChimeraF(x[1], x[2]).start]
  OBVIOUS
<1>3. PICK B : B = [x \in Cells(4, M) |-> ChimeraB(x[1], x[2]).start]
  OBVIOUS
<1>4. \A s \in 0..3, m \in 0..(M - 1) : F[<<s, m>>] = ChimeraF(s, m).start /\ B[<<s, m>>] = ChimeraB(s, m).start
  BY <1>2, <1>3 DEF Cells
<1>5. ASSUME NEW s \in 0..3, NEW m \in Nat
      PROVE  \E h \in Nat, e \in 0..1, o \in Nat :
                /\ m = 2 * h + e /\ o = 16 * h
                /\ e = 0 /\ s = 0 => ChimeraF(s, m).start = IF o > 3 THEN o - 3 ELSE 0
                /\ e = 0 /\ s = 1 => ChimeraF(s, m).start = IF o > 3 THEN o - 2 ELSE 1
                /\ e = 0 /\ s \in {2, 3} => ChimeraF(s, m).start = o + s
                /\ e = 1 => ChimeraF(s, m).start = IF s = 3 THEN 6 + o ELSE 2 + s + o
                /\ ChimeraB(s, m).start = o + (IF e = 0 THEN 10 - 2 * s ELSE 14 - 2 * s)
  <2>1. PICK h \in Nat, e \in 0..1 : h = m \div 2 /\ e = m % 2
    OBVIOUS
  <2>2. m = 2 * h + e
    BY <2>1
  <2>3. PICK o \in Nat : o = 16 * h
    BY <2>1
  <2>4. ChimeraB(s, m).start = o + (IF e = 0 THEN 10 - 2 * s ELSE 14 - 2 * s)
    BY <2>1, <2>3 DEF ChimeraB, Block
  <2>5. PICK f : f = IF e = 0 THEN <<Early(0, o), Early(1, o), 2 + o, 3 + o>> ELSE <<2 + o, 3 + o, 4 + o, 6 + o>>
    OBVIOUS
  <2>6. ChimeraF(s, m) = Block("f", s, m, f[s + 1], 1)
    BY <2>1, <2>3, <2>5, Zenon DEF ChimeraF
  <2>7. ChimeraF(s, m).start = f[s + 1]
    BY <2>6 DEF Block
  <2>8. /\ Early(0, o) = IF o > 3 THEN o - 3 ELSE 0
        /\ Early(1, o) = IF o > 3 THEN o - 2 ELSE 1
    BY DEF Early
  <2>9. e = 0 => f[0 + 1] = Early(0, o) /\ f[1 + 1] = Early(1, o) /\ f[2 + 1] = 2 + o /\ f[3 + 1] = 3 + o
    BY <2>5
  <2>10. e = 1 => f[0 + 1] = 2 + o /\ f[1 + 1] = 3 + o /\ f[2 + 1] = 4 + o /\ f[3 + 1] = 6 + o
    BY <2>5
  <2>11. s = 0 \/ s = 1 \/ s = 2 \/ s = 3
    OBVIOUS
  <2> QED BY <2>2, <2>3, <2>4, <2>7, <2>8, <2>9, <2>10, <2>11
<1>6. ASSUME NEW s \in 0..3, NEW m \in Nat, NEW n \in Nat, m < n
      PROVE  /\ ChimeraF(s, m).start \in Nat /\ ChimeraB(s, m).start \in Nat
             /\ ChimeraF(s, m).start < ChimeraF(s, n).start
             /\ ChimeraB(s, m).start < ChimeraB(s, n).start
  <2>1. PICK h \in Nat, e \in 0..1, o \in Nat :
                /\ m = 2 * h + e /\ o = 16 * h
                /\ e = 0 /\ s = 0 => ChimeraF(s, m).start = IF o > 3 THEN o - 3 ELSE 0
                /\ e = 0 /\ s = 1 => ChimeraF(s, m).start = IF o > 3 THEN o - 2 ELSE 1
                /\ e = 0 /\ s \in {2, 3} => ChimeraF(s, m).start = o + s
                /\ e = 1 => ChimeraF(s, m).start = IF s = 3 THEN 6 + o ELSE 2 + s + o
                /\ ChimeraB(s, m).start = o + (IF e = 0 THEN 10 - 2 * s ELSE 14 - 2 * s)
    BY <1>5
  <2>2. PICK k \in Nat, g \in 0..1, u \in Nat :
                /\ n = 2 * k + g /\ u = 16 * k
                /\ g = 0 /\ s = 0 => ChimeraF(s, n).start = IF u > 3 THEN u - 3 ELSE 0
                /\ g = 0 /\ s = 1 => ChimeraF(s, n).start = IF u > 3 THEN u - 2 ELSE 1
                /\ g = 0 /\ s \in {2, 3} => ChimeraF(s, n).start = u + s
                /\ g = 1 => ChimeraF(s, n).start = IF s = 3 THEN 6 + u ELSE 2 + s + u
                /\ ChimeraB(s, n).start = u + (IF g = 0 THEN 10 - 2 * s ELSE 14 - 2 * s)
    BY <1>5
  <2>3. PICK a, b, c, d : a = ChimeraF(s, m).start /\ b = ChimeraF(s, n).start /\ c = ChimeraB(s, m).start /\ d = ChimeraB(s, n).start
    OBVIOUS
  <2>4. a \in Nat /\ c \in Nat
    BY <2>1, <2>3
  <2>5. c < d
    BY <1>6, <2>1, <2>2, <2>3
  <2>6. a < b
    <3>1. CASE h = k
      BY <1>6, <2>1, <2>2, <2>3, <3>1
    <3>2. CASE h < k
      BY <1>6, <2>1, <2>2, <2>3, <3>2
    <3>3. ~(h > k)
      BY <1>6, <2>1, <2>2
    <3> QED BY <3>1, <3>2, <3>3
  <2> QED BY <2>3, <2>4, <2>5, <2>6
<1>7. \A s \in 0..3, m \in 0..(M - 1) : F[<<s, m>>] \in Nat /\ B[<<s, m>>] \in Nat
  <2> SUFFICES ASSUME NEW s \in 0..3, NEW m \in 0..(M - 1) PROVE F[<<s, m>>] \in Nat /\ B[<<s, m>>] \in Nat
    OBVIOUS
  <2>1. m \in Nat /\ m + 1 \in Nat /\ m < m + 1
    OBVIOUS
  <2>2. ChimeraF(s, m).start \in Nat /\ ChimeraB(s, m).start \in Nat
    BY <1>6, <2>1
  <2> QED BY <1>4, <2>2
<1>8. \A s \in 0..3, m \in 0..(M - 1), n \in 0..(M - 1) :
         m < n => F[<<s, m>>] < F[<<s, n>>] /\ B[<<s, m>>] < B[<<s, n>>]
  <2> SUFFICES ASSUME NEW s \in 0..3, NEW m \in 0..(M - 1), NEW n \in 0..(M - 1), m < n
               PROVE  F[<<s, m>>] < F[<<s, n>>] /\ B[<<s, m>>] < B[<<s, n>>]
    OBVIOUS
  <2>1. m \in Nat /\ n \in Nat
    OBVIOUS
  <2>2. ChimeraF(s, m).start < ChimeraF(s, n).start /\ ChimeraB(s, m).start < ChimeraB(s, n).start
    BY <1>6, <2>1
  <2> QED BY <1>4, <2>2
<1>10. Starts(4, M, F) /\ Starts(4, M, B)
  BY <1>7, <1>8 DEF Starts
<1>9. ASSUME NEW b PROVE b \in Chimera(M) <=> At(4, M, F, B, 2, b)
  <2>1. b \in Chimera(M) <=> \E s \in 0..3, m \in 0..(M - 1) : b = ChimeraF(s, m) \/ b = ChimeraB(s, m)
    <3>1. ASSUME b \in Chimera(M) PROVE \E s \in 0..3, m \in 0..(M - 1) : b = ChimeraF(s, m) \/ b = ChimeraB(s, m)
      <4>1. PICK x \in (0..3) \X (0..(M - 1)) : b = ChimeraF(x[1], x[2]) \/ b = ChimeraB(x[1], x[2])
        BY <3>1 DEF Chimera
      <4>2. PICK s \in 0..3, m \in 0..(M - 1) : s = x[1] /\ m = x[2]
        OBVIOUS
      <4> QED BY <4>1, <4>2
    <3>2. ASSUME NEW s \in 0..3, NEW m \in 0..(M - 1), b = ChimeraF(s, m) \/ b = ChimeraB(s, m)
          PROVE  b \in Chimera(M)
      <4>1. PICK x : x = <<s, m>>
        OBVIOUS
      <4>2. x \in (0..3) \X (0..(M - 1)) /\ x[1] = s /\ x[2] = m
        BY <4>1
      <4> QED BY <3>2, <4>2 DEF Chimera
    <3> QED BY <3>1, <3>2
  <2>2. ASSUME NEW s \in 0..3, NEW m \in 0..(M - 1)
        PROVE  /\ ChimeraF(s, m) = Block("f", s, m, F[<<s, m>>], 1)
               /\ ChimeraB(s, m) = Block("b", s, m, B[<<s, m>>], 2)
    <3>1. PICK x : ChimeraF(s, m) = Block("f", s, m, x, 1)
      BY Zenon DEF ChimeraF
    <3>2. PICK y : ChimeraB(s, m) = Block("b", s, m, y, 2)
      BY Zenon DEF ChimeraB
    <3>3. x = F[<<s, m>>] /\ y = B[<<s, m>>]
      BY <1>4, <3>1, <3>2 DEF Block
    <3> QED BY <3>1, <3>2, <3>3
  <2>3. 4 - 1 = 3
    OBVIOUS
  <2>4. ASSUME b \in Chimera(M) PROVE At(4, M, F, B, 2, b)
    <3>1. PICK s \in 0..3, m \in 0..(M - 1) : b = ChimeraF(s, m) \/ b = ChimeraB(s, m)
      BY <2>1, <2>4
    <3>2. b = Block("f", s, m, F[<<s, m>>], 1) \/ b = Block("b", s, m, B[<<s, m>>], 2)
      BY <2>2, <3>1
    <3> QED BY <2>3, <3>2, Zenon DEF At
  <2>5. ASSUME At(4, M, F, B, 2, b) PROVE b \in Chimera(M)
    <3>1. PICK s \in 0..3, m \in 0..(M - 1) : b = Block("f", s, m, F[<<s, m>>], 1) \/ b = Block("b", s, m, B[<<s, m>>], 2)
      BY <2>3, <2>5, Zenon DEF At
    <3>2. b = ChimeraF(s, m) \/ b = ChimeraB(s, m)
      BY <2>2, <3>1
    <3> QED BY <2>1, <3>2
  <2> QED BY <2>4, <2>5
<1> QED BY <1>1, <1>9, <1>10, ByStart

\* Whatever the plan, its blocks are in order.
Dirs == IF plan.kind = "infer_pipe" THEN {"f"} ELSE {"f", "b"}

\* A predefined schedule is in order by its formulas, one written by hand by CustomAssumption.
LEMMA WantedInOrder ==
    ASSUME plan \in Plan
    PROVE  InOrder(plan, Wanted, Dirs)
<1>1. plan.S \in Nat \ {0} /\ plan.M \in Nat \ {0} /\ plan.kind \in Kinds
  BY PipelineAssumption
<1>2. CASE plan.kind \in {"1f1b", "1f1b_plus"}
  <2>1. Wanted = OneFOneB(plan.S, plan.M) /\ Dirs = {"f", "b"}
    BY <1>2 DEF Wanted, Dirs
  <2> QED BY <1>1, <2>1, OneFOneBInOrder
<1>3. CASE plan.kind = "gpipe"
  <2>1. Wanted = GPipe(plan.S, plan.M) /\ Dirs = {"f", "b"}
    BY <1>3 DEF Wanted, Dirs
  <2> QED BY <1>1, <2>1, GPipeInOrder
<1>4. CASE plan.kind = "infer_pipe"
  <2>1. Wanted = InferPipe(plan.S, plan.M) /\ Dirs = {"f"}
    BY <1>4 DEF Wanted, Dirs
  <2> QED BY <1>1, <2>1, InferPipeInOrder
<1>5. CASE plan.kind = "chimera_direct"
  <2>1. Wanted = Chimera(plan.M) /\ Dirs = {"f", "b"}
    BY <1>5 DEF Wanted, Dirs
  <2>2. plan.S = 4
    BY <1>5, PipelineAssumption
  <2> QED BY <1>1, <2>1, <2>2, ChimeraInOrder
<1>6. CASE plan.kind = "custom"
  <2>1. Wanted = plan.blocks /\ Dirs = {"f", "b"}
    BY <1>6 DEF Wanted, Dirs
  <2> QED BY <1>6, <2>1, CustomAssumption
<1> QED BY <1>1, <1>2, <1>3, <1>4, <1>5, <1>6 DEF Kinds

\* No device has two blocks at a time.
Apart == \A b, c \in blocks : b # c => ~(Overlap(b, c) /\ plan.on[b.s] \cap plan.on[c.s] # {})
\* A plan that is written.
Written == plan \in Plan /\ InOrder(plan, blocks, Dirs) /\ Apart

\* The parts of a plan.
LEMMA PlanTypes ==
    ASSUME plan \in Plan
    PROVE  /\ plan.S \in Nat \ {0} /\ plan.M \in Nat \ {0} /\ LastStage \in Nat /\ LastStage = plan.S - 1
           /\ \A s \in 0..LastStage : plan.on[s] # {} /\ plan.on[s] \subseteq Device
           /\ plan.loads \subseteq Device \X (0..(plan.S - 1))
           /\ \A x \in plan.loads : x[1] \in plan.on[x[2]]
<1>1. /\ plan.S \in Nat \ {0} /\ plan.M \in Nat \ {0}
      /\ plan.loads \subseteq Device \X (0..(plan.S - 1)) /\ \A x \in plan.loads : x[1] \in plan.on[x[2]]
      /\ plan.on \in [0..(plan.S - 1) -> (SUBSET Device) \ {{}}]
  BY PipelineAssumption
<1>2. LastStage \in Nat /\ LastStage = plan.S - 1
  BY <1>1 DEF LastStage
<1>3. ASSUME NEW s \in 0..LastStage PROVE plan.on[s] # {} /\ plan.on[s] \subseteq Device
  <2>1. plan.on[s] \in (SUBSET Device) \ {{}}
    BY <1>1, <1>2
  <2> QED BY <2>1
<1> QED BY <1>1, <1>2, <1>3

\* The parts of a block.
LEMMA BlockTypes ==
    ASSUME Written, NEW b \in blocks
    PROVE  /\ b.dir \in {"f", "b"} /\ b.s \in 0..LastStage /\ b.m \in 0..(plan.M - 1)
           /\ b.start \in Nat /\ b.span \in Nat \ {0}
           /\ plan.on[b.s] # {} /\ plan.on[b.s] \subseteq Device
<1>1. b.dir \in Dirs /\ b.s \in 0..LastStage /\ b.m \in 0..(plan.M - 1) /\ b.start \in Nat /\ b.span \in Nat \ {0}
  BY DEF Written, InOrder, LastStage
<1>2. b.dir \in {"f", "b"}
  BY <1>1 DEF Dirs
<1> QED BY <1>1, <1>2, PlanTypes DEF Written

\* Two blocks of a device neither start nor end together.
LEMMA SameTime ==
    ASSUME Written, NEW b \in blocks, NEW c \in blocks, NEW d, d \in plan.on[b.s], d \in plan.on[c.s],
           b.start = c.start \/ b.start + b.span = c.start + c.span
    PROVE  b = c
<1>1. Overlap(b, c)
  BY BlockTypes DEF Overlap
<1> QED BY <1>1 DEF Written, Apart

\* The image of a finite set is finite.
LEMMA Image ==
    ASSUME NEW T, IsFiniteSet(T), NEW f, f = [x \in T |-> f[x]]
    PROVE  IsFiniteSet({f[x] : x \in T})
<1>1. PICK U : U = {f[x] : x \in T}
  OBVIOUS
<1>2. f \in Surjection(T, U)
  BY <1>1 DEF Surjection
<1>3. IsFiniteSet(U)
  BY <1>2, FS_Surjection
<1> QED BY <1>1, <1>3

\* A plan has finitely many blocks, and one at least.
LEMMA FiniteBlocks ==
    ASSUME Written
    PROVE  IsFiniteSet(blocks) /\ blocks # {}
<1>1. PICK S, M, D : S = 0..(plan.S - 1) /\ M = 0..(plan.M - 1) /\ D = {"f", "b"}
  OBVIOUS
<1>2. IsFiniteSet(S) /\ IsFiniteSet(M)
  <2>1. 0 \in Int /\ plan.S - 1 \in Int /\ plan.M - 1 \in Int
    BY PlanTypes DEF Written
  <2> QED BY <1>1, <2>1, FS_Interval
<1>3. IsFiniteSet(D)
  <2>1. IsFiniteSet({"f"} \cup {"b"})
    BY FS_Singleton, FS_Union
  <2>2. D = {"f"} \cup {"b"}
    BY <1>1
  <2> QED BY <2>1, <2>2
<1>4. PICK U : U = (D \X S) \X M
  OBVIOUS
<1>5. IsFiniteSet(U)
  <2>1. IsFiniteSet(D \X S)
    BY <1>2, <1>3, FS_Product
  <2> QED BY <1>2, <1>4, <2>1, FS_Product
<1>6. PICK f : f = [b \in blocks |-> <<<<b.dir, b.s>>, b.m>>]
  OBVIOUS
<1>7. ASSUME NEW b \in blocks PROVE f[b] = <<<<b.dir, b.s>>, b.m>> /\ f[b] \in U
  <2>1. b.dir \in D /\ b.s \in S /\ b.m \in M
    BY <1>1, BlockTypes, PlanTypes DEF Written
  <2> QED BY <1>4, <1>6, <2>1
<1>8. ASSUME NEW b \in blocks, NEW c \in blocks, f[b] = f[c] PROVE b = c
  <2>1. <<<<b.dir, b.s>>, b.m>> = <<<<c.dir, c.s>>, c.m>>
    BY <1>7, <1>8
  <2>2. b.dir = c.dir /\ b.s = c.s /\ b.m = c.m
    BY <2>1
  <2> QED BY <2>2 DEF Written, InOrder
<1>9. f \in Injection(blocks, U)
  <2>1. f \in [blocks -> U]
    <3>1. f = [b \in blocks |-> f[b]]
      BY <1>6
    <3> QED BY <1>7, <3>1
  <2> QED BY <1>6, <1>8, <2>1 DEF Injection, IsInjective
<1>10. IsFiniteSet(blocks)
  BY <1>5, <1>9, FS_Injection
<1>11. blocks # {}
  <2>1. "f" \in Dirs /\ 0 \in 0..(plan.S - 1) /\ 0 \in 0..(plan.M - 1)
    BY PlanTypes DEF Written, Dirs
  <2> QED BY <2>1 DEF Written, InOrder
<1> QED BY <1>10, <1>11

\* The number of steps is a number.
LEMMA NStepsInt ==
    ASSUME Written
    PROVE  NSteps \in Int
<1>1. PICK f : f = [b \in blocks |-> b.start + b.span]
  OBVIOUS
<1>2. PICK U : U = {f[b] : b \in blocks}
  OBVIOUS
<1>3. IsFiniteSet(U)
  BY <1>1, <1>2, Image, FiniteBlocks
<1>4. U = {b.start + b.span : b \in blocks}
  BY <1>1, <1>2
<1>5. U \in SUBSET Int /\ U # {}
  <2>1. \A b \in blocks : b.start + b.span \in Int
    BY BlockTypes
  <2> QED BY <1>4, <2>1, FiniteBlocks
<1>6. Max(U) \in Int
  BY <1>3, <1>5, Extremes
<1> QED BY <1>4, <1>6, Zenon DEF NSteps

\* A block that comes after all the others.
Final(b) == \A c \in blocks : c # b => Before(c, b)

\* The search of the dataloader ends at some block.
LEMMA LeftOverBlock ==
    ASSUME Written
    PROVE  LeftOver \in blocks
<1>1. PICK R : R = {x \in blocks \X blocks : Before(x[2], x[1])}
  OBVIOUS
<1>2. \A b, c \in blocks : <<b, c>> \in R <=> Before(c, b)
  BY <1>1
<1>3. ASSUME NEW a \in blocks, NEW b \in blocks, NEW c \in blocks
      PROVE  /\ ~Before(a, a)
             /\ Before(a, b) /\ Before(b, c) => Before(a, c)
             /\ a # b => Before(a, b) \/ Before(b, a)
  <2>1. /\ a.start \in Nat /\ a.s \in Int /\ a.m \in Int /\ a.dir \in {"f", "b"}
        /\ b.start \in Nat /\ b.s \in Int /\ b.m \in Int /\ b.dir \in {"f", "b"}
        /\ c.start \in Nat /\ c.s \in Int /\ c.m \in Int /\ c.dir \in {"f", "b"}
    BY BlockTypes, PlanTypes DEF Written
  <2>2. ~Before(a, a)
    BY <2>1 DEF Before
  <2>3. Before(a, b) /\ Before(b, c) => Before(a, c)
    BY <2>1 DEF Before
  <2>4. ASSUME a # b, a.dir = b.dir, a.s = b.s, a.start = b.start PROVE FALSE
    <3>1. a.m # b.m
      BY <2>4 DEF Written, InOrder
    <3>2. a.m < b.m \/ b.m < a.m
      BY <2>1, <3>1
    <3>3. a.start < b.start \/ b.start < a.start
      BY <2>4, <3>2 DEF Written, InOrder
    <3> QED BY <2>1, <2>4, <3>3
  <2>5. a # b => Before(a, b) \/ Before(b, a)
    BY <2>1, <2>4 DEF Before
  <2> QED BY <2>2, <2>3, <2>5
<1>4. Total(blocks, R)
  BY <1>2, <1>3 DEF Total
<1>5. PICK b \in blocks : \A c \in blocks : c # b => <<b, c>> \in R
  BY <1>4, FiniteBlocks, First
<1>6. \A c \in blocks : c # b => Before(c, b)
  BY <1>2, <1>5
<1>7. Final(b)
  BY <1>6, Zenon DEF Final
<1>8. LeftOver = CHOOSE x \in blocks : Final(x)
  BY Zenon DEF LeftOver, Final
<1>9. \E x \in blocks : Final(x)
  BY <1>7
<1> QED BY <1>8, <1>9

\* The block a sample is loaded for is the first one that reads it.
LEMMA FirstReaderIs ==
    ASSUME Written, NEW d, NEW m, Readers(d, m) # {}
    PROVE  /\ FirstReader(d, m) \in Readers(d, m)
           /\ \A c \in Readers(d, m) : FirstReader(d, m).start <= c.start
<1>1. PICK T : T = Readers(d, m)
  OBVIOUS
<1>2. T \in SUBSET blocks /\ IsFiniteSet(T)
  <2>1. T \in SUBSET blocks
    BY <1>1 DEF Readers
  <2> QED BY <2>1, FiniteBlocks, FS_Subset
<1>3. PICK f : f = [b \in T |-> b.start]
  OBVIOUS
<1>4. PICK U : U = {f[b] : b \in T}
  OBVIOUS
<1>5. IsFiniteSet(U)
  BY <1>2, <1>3, <1>4, Image
<1>6. U \in SUBSET Int /\ U # {}
  <2>1. \A b \in T : f[b] \in Int
    BY <1>2, <1>3, BlockTypes
  <2> QED BY <1>1, <1>4, <2>1
<1>7. PICK x \in U : \A y \in U : x <= y
  BY <1>5, <1>6, Extremes
<1>8. PICK b \in T : x = b.start
  BY <1>3, <1>4, <1>7
<1>9. \A c \in T : b.start <= c.start
  BY <1>3, <1>4, <1>7, <1>8
<1>10. FirstReader(d, m) = CHOOSE r \in T : \A c \in T : r.start <= c.start
  BY <1>1, Zenon DEF FirstReader
<1>11. FirstReader(d, m) \in T /\ \A c \in T : FirstReader(d, m).start <= c.start
  BY <1>9, <1>10, Zenon
<1> QED BY <1>1, <1>11

\* A stage that reads samples has a block for every microbatch.
LEMMA ReadersThere ==
    ASSUME Written, NEW d, NEW s, <<d, s>> \in plan.loads, NEW m \in 0..(plan.M - 1)
    PROVE  \E b \in blocks : b \in Readers(d, m) /\ b.s = s /\ b.dir = "f" /\ b.m = m
<1>1. s \in 0..(plan.S - 1) /\ "f" \in Dirs
  BY PlanTypes DEF Written, Dirs
<1>2. PICK b \in blocks : b.dir = "f" /\ b.s = s /\ b.m = m
  BY <1>1 DEF Written, InOrder
<1> QED BY <1>2 DEF Readers

\* The loader of a later microbatch is at a later step.
LEMMA LoadersInOrder ==
    ASSUME Written, NEW d, NEW s, <<d, s>> \in plan.loads,
           NEW m \in 0..(plan.M - 1), NEW n \in 0..(plan.M - 1), m < n
    PROVE  LoaderStep(d, m) < LoaderStep(d, n)
<1>1. Readers(d, m) # {} /\ Readers(d, n) # {}
  BY ReadersThere
<1>2. PICK a, b : a = FirstReader(d, m) /\ b = FirstReader(d, n)
  OBVIOUS
<1>3. /\ a \in blocks /\ a.dir = "f" /\ a.m = m /\ <<d, a.s>> \in plan.loads
      /\ \A c \in Readers(d, m) : a.start <= c.start
      /\ b \in blocks /\ b.dir = "f" /\ b.m = n /\ <<d, b.s>> \in plan.loads
  BY <1>1, <1>2, FirstReaderIs DEF Readers
\* The stage that reads the later sample first has read the earlier one before.
<1>4. PICK c \in blocks : c \in Readers(d, m) /\ c.s = b.s /\ c.dir = "f" /\ c.m = m
  BY <1>3, ReadersThere
<1>5. c.start < b.start
  BY <1>3, <1>4 DEF Written, InOrder
<1>6. /\ a.start \in Nat /\ a.span \in Nat \ {0} /\ b.start \in Nat /\ b.span \in Nat \ {0} /\ c.start \in Nat
  BY <1>3, <1>4, BlockTypes
<1>7. a.start < b.start
  BY <1>3, <1>4, <1>5, <1>6
<1>8. d \in plan.on[a.s] /\ d \in plan.on[b.s]
  <2>1. \A x \in plan.loads : x[1] \in plan.on[x[2]]
    BY PlanTypes DEF Written
  <2>2. PICK x, y : x = <<d, a.s>> /\ y = <<d, b.s>>
    OBVIOUS
  <2>3. x[1] = d /\ x[2] = a.s /\ y[1] = d /\ y[2] = b.s
    BY <2>2
  <2> QED BY <1>3, <2>1, <2>2, <2>3
<1>9. a # b
  BY <1>6, <1>7
<1>10. ~Overlap(a, b)
  BY <1>3, <1>8, <1>9 DEF Written, Apart
<1>11. a.start + a.span <= b.start
  BY <1>6, <1>7, <1>10 DEF Overlap
<1>12. LoaderStep(d, m) = a.start + a.span - 1 /\ LoaderStep(d, n) = b.start + b.span - 1
  BY <1>1, <1>2 DEF LoaderStep
<1> QED BY <1>6, <1>11, <1>12

(***************************************************************************)
(* The lines of a device.                                                  *)
(***************************************************************************)
\* What a line may be: a block, what follows it, an output, a loader.
IsRun(d, l, b) == d \in plan.on[b.s] /\ l = Line(b.dir, b.s, b.m, <<b.start, 0, 0>>)
IsSend(l, b) == b.s < LastStage /\ l = Line("send", b.s, b.m, <<AfterSpan(b), 1, b.s>>)
IsBack(l, b) == b.s > 0 /\ l = Line("back", b.s, b.m, <<AfterSpan(b), 1, 2 * LastStage - b.s>>)
IsOut(l, m) == l = Line("out", LastStage, m, <<NSteps - 1, 2, m>>)
IsLoad(d, l, m) == l = Line("load", 0, m, LoaderKey(d, m))
LineOf(d, l) == \/ \E b \in blocks : IsRun(d, l, b) \/ IsSend(l, b) \/ IsBack(l, b)
                \/ \E m \in 0..(plan.M - 1) : IsOut(l, m) \/ (d \in Loading /\ IsLoad(d, l, m))

\* The lines of the blocks of a device.
LEMMA RunLine ==
    ASSUME NEW d, NEW l
    PROVE  l \in RunLines(d) <=> \E b \in blocks : IsRun(d, l, b)
BY DEF RunLines, IsRun

\* Every line of a device is one of these.
LEMMA Lines ==
    ASSUME NEW d, NEW l \in AllLines(d)
    PROVE  LineOf(d, l)
<1>1. CASE l \in RunLines(d)
  BY <1>1, RunLine DEF LineOf
<1>2. CASE l \in AdapterLines(d)
  <2>1. CASE d \in Used /\ l \in {Line("out", LastStage, m, <<NSteps - 1, 2, m>>) : m \in 0..(plan.M - 1)}
    BY <2>1 DEF LineOf, IsOut
  <2>2. CASE l \in {IF b.dir = "f" THEN Line("send", b.s, b.m, <<AfterSpan(b), 1, b.s>>)
                    ELSE Line("back", b.s, b.m, <<AfterSpan(b), 1, 2 * LastStage - b.s>>)
                    : b \in {c \in blocks : Sends(c)}}
    <3>1. PICK b \in blocks :
             /\ Sends(b)
             /\ l = IF b.dir = "f" THEN Line("send", b.s, b.m, <<AfterSpan(b), 1, b.s>>)
                    ELSE Line("back", b.s, b.m, <<AfterSpan(b), 1, 2 * LastStage - b.s>>)
      BY <2>2
    <3>2. CASE b.dir = "f"
      <4>1. b.s < LastStage /\ l = Line("send", b.s, b.m, <<AfterSpan(b), 1, b.s>>)
        BY <3>1, <3>2 DEF Sends
      <4> QED BY <4>1, Zenon DEF LineOf, IsSend
    <3>3. CASE b.dir # "f"
      <4>1. b.s > 0 /\ l = Line("back", b.s, b.m, <<AfterSpan(b), 1, 2 * LastStage - b.s>>)
        BY <3>1, <3>3 DEF Sends
      <4> QED BY <4>1, Zenon DEF LineOf, IsBack
    <3> QED BY <3>2, <3>3
  <2>3. \/ d \in Used /\ l \in {Line("out", LastStage, m, <<NSteps - 1, 2, m>>) : m \in 0..(plan.M - 1)}
        \/ l \in {IF b.dir = "f" THEN Line("send", b.s, b.m, <<AfterSpan(b), 1, b.s>>)
                    ELSE Line("back", b.s, b.m, <<AfterSpan(b), 1, 2 * LastStage - b.s>>)
                    : b \in {c \in blocks : Sends(c)}}
    BY <1>2 DEF AdapterLines
  <2> QED BY <2>1, <2>2, <2>3
<1>3. CASE d \in Loading /\ l \in {Line("load", 0, m, LoaderKey(d, m)) : m \in 0..(plan.M - 1)}
  BY <1>3 DEF LineOf, IsLoad
<1>4. \/ l \in RunLines(d) \/ l \in AdapterLines(d)
      \/ d \in Loading /\ l \in {Line("load", 0, m, LoaderKey(d, m)) : m \in 0..(plan.M - 1)}
  BY DEF AllLines
<1> QED BY <1>1, <1>2, <1>3, <1>4

\* The keys of the lines, by what they are.
LEMMA Keys ==
    ASSUME Written, NEW d, NEW l
    PROVE  /\ \A b \in blocks : IsRun(d, l, b) => l.at = <<b.start, 0, 0>> /\ l.op = b.dir /\ l.s = b.s /\ l.m = b.m
           /\ \A b \in blocks : IsSend(l, b) => l.at = <<b.start + b.span - 1, 1, b.s>> /\ l.op = "send"
           /\ \A b \in blocks : IsBack(l, b) => l.at = <<b.start + b.span - 1, 1, 2 * LastStage - b.s>> /\ l.op = "back"
           /\ \A m : IsOut(l, m) => l.at = <<NSteps - 1, 2, m>> /\ l.op = "out"
           /\ \A m : IsLoad(d, l, m) => l.at = <<LoaderStep(d, m), -1, -m>> /\ l.op = "load" /\ l.s = 0 /\ l.m = m
BY DEF IsRun, IsSend, IsBack, IsOut, IsLoad, Line, AfterSpan, LoaderKey

\* A loader has a step, also one that nobody reads.
LEMMA LoaderStepInt ==
    ASSUME Written, NEW d, NEW m
    PROVE  LoaderStep(d, m) \in Int
<1>1. CASE Readers(d, m) # {}
  <2>1. PICK b \in blocks : b = FirstReader(d, m)
    BY <1>1, FirstReaderIs DEF Readers
  <2>2. LoaderStep(d, m) = b.start + b.span - 1
    BY <1>1, <2>1 DEF LoaderStep
  <2> QED BY <2>2, BlockTypes
<1>2. CASE Readers(d, m) = {}
  <2>1. PICK b \in blocks : b = LeftOver
    BY LeftOverBlock
  <2>2. LoaderStep(d, m) = NSteps - 1 + b.span - 1
    BY <1>2, <2>1 DEF LoaderStep
  <2> QED BY <2>2, BlockTypes, NStepsInt
<1> QED BY <1>1, <1>2

\* Every line has a key.
LEMMA KeysAreKeys ==
    ASSUME Written, NEW d, NEW l, LineOf(d, l)
    PROVE  Key(l.at)
<1>0. plan.M \in Nat /\ LastStage \in Nat /\ NSteps \in Int
  BY PlanTypes, NStepsInt DEF Written
<1>1. ASSUME NEW b \in blocks, IsRun(d, l, b) \/ IsSend(l, b) \/ IsBack(l, b) PROVE Key(l.at)
  <2>1. b.start \in Int /\ b.start + b.span - 1 \in Int /\ b.s \in Int /\ 2 * LastStage - b.s \in Int
    BY <1>0, BlockTypes
  <2>2. l.at \in {<<b.start, 0, 0>>, <<b.start + b.span - 1, 1, b.s>>, <<b.start + b.span - 1, 1, 2 * LastStage - b.s>>}
    BY <1>1, Keys
  <2> QED BY <2>1, <2>2 DEF Key
<1>2. ASSUME NEW m \in 0..(plan.M - 1), IsOut(l, m) \/ IsLoad(d, l, m) PROVE Key(l.at)
  <2>1. NSteps - 1 \in Int /\ m \in Int /\ -m \in Int /\ LoaderStep(d, m) \in Int /\ -1 \in Int
    BY <1>0, LoaderStepInt
  <2>2. l.at \in {<<NSteps - 1, 2, m>>, <<LoaderStep(d, m), -1, -m>>}
    BY <1>2, Keys
  <2> QED BY <2>1, <2>2 DEF Key
<1> QED BY <1>1, <1>2 DEF LineOf

\* No two lines of a device have the same key: add_block and the rank in a step tell them apart.
LEMMA KeysDiffer ==
    ASSUME Written, NEW d, NEW l, LineOf(d, l), NEW k, LineOf(d, k), l.at = k.at
    PROVE  l = k
<1>0. plan.M \in Nat /\ LastStage \in Nat
  BY PlanTypes DEF Written
<1>1. PICK x : x = l.at /\ x = k.at
  OBVIOUS
<1>2. /\ \A b \in blocks : IsRun(d, l, b) => x[1] = b.start /\ x[2] = 0
      /\ \A b \in blocks : IsSend(l, b) => x[1] = b.start + b.span - 1 /\ x[2] = 1 /\ x[3] = b.s
      /\ \A b \in blocks : IsBack(l, b) => x[1] = b.start + b.span - 1 /\ x[2] = 1 /\ x[3] = 2 * LastStage - b.s
      /\ \A m : IsOut(l, m) => x[2] = 2 /\ x[3] = m
      /\ \A m : IsLoad(d, l, m) => x[2] = -1 /\ x[3] = -m
  <2>1. ASSUME NEW b \in blocks, IsRun(d, l, b) PROVE x[1] = b.start /\ x[2] = 0
    <3>1. x = <<b.start, 0, 0>>
      BY <1>1, <2>1, Keys
    <3> QED BY <3>1
  <2>2. ASSUME NEW b \in blocks, IsSend(l, b) PROVE x[1] = b.start + b.span - 1 /\ x[2] = 1 /\ x[3] = b.s
    <3>1. x = <<b.start + b.span - 1, 1, b.s>>
      BY <1>1, <2>2, Keys
    <3> QED BY <3>1
  <2>3. ASSUME NEW b \in blocks, IsBack(l, b) PROVE x[1] = b.start + b.span - 1 /\ x[2] = 1 /\ x[3] = 2 * LastStage - b.s
    <3>1. x = <<b.start + b.span - 1, 1, 2 * LastStage - b.s>>
      BY <1>1, <2>3, Keys
    <3> QED BY <3>1
  <2>4. ASSUME NEW m, IsOut(l, m) PROVE x[2] = 2 /\ x[3] = m
    <3>1. x = <<NSteps - 1, 2, m>>
      BY <1>1, <2>4, Keys
    <3> QED BY <3>1
  <2>5. ASSUME NEW m, IsLoad(d, l, m) PROVE x[2] = -1 /\ x[3] = -m
    <3>1. x = <<LoaderStep(d, m), -1, -m>>
      BY <1>1, <2>5, Keys
    <3> QED BY <3>1
  <2> QED BY <2>1, <2>2, <2>3, <2>4, <2>5
<1>3. /\ \A b \in blocks : IsRun(d, k, b) => x[1] = b.start /\ x[2] = 0
      /\ \A b \in blocks : IsSend(k, b) => x[1] = b.start + b.span - 1 /\ x[2] = 1 /\ x[3] = b.s
      /\ \A b \in blocks : IsBack(k, b) => x[1] = b.start + b.span - 1 /\ x[2] = 1 /\ x[3] = 2 * LastStage - b.s
      /\ \A m : IsOut(k, m) => x[2] = 2 /\ x[3] = m
      /\ \A m : IsLoad(d, k, m) => x[2] = -1 /\ x[3] = -m
  <2>1. ASSUME NEW b \in blocks, IsRun(d, k, b) PROVE x[1] = b.start /\ x[2] = 0
    <3>1. x = <<b.start, 0, 0>>
      BY <1>1, <2>1, Keys
    <3> QED BY <3>1
  <2>2. ASSUME NEW b \in blocks, IsSend(k, b) PROVE x[1] = b.start + b.span - 1 /\ x[2] = 1 /\ x[3] = b.s
    <3>1. x = <<b.start + b.span - 1, 1, b.s>>
      BY <1>1, <2>2, Keys
    <3> QED BY <3>1
  <2>3. ASSUME NEW b \in blocks, IsBack(k, b) PROVE x[1] = b.start + b.span - 1 /\ x[2] = 1 /\ x[3] = 2 * LastStage - b.s
    <3>1. x = <<b.start + b.span - 1, 1, 2 * LastStage - b.s>>
      BY <1>1, <2>3, Keys
    <3> QED BY <3>1
  <2>4. ASSUME NEW m, IsOut(k, m) PROVE x[2] = 2 /\ x[3] = m
    <3>1. x = <<NSteps - 1, 2, m>>
      BY <1>1, <2>4, Keys
    <3> QED BY <3>1
  <2>5. ASSUME NEW m, IsLoad(d, k, m) PROVE x[2] = -1 /\ x[3] = -m
    <3>1. x = <<LoaderStep(d, m), -1, -m>>
      BY <1>1, <2>5, Keys
    <3> QED BY <3>1
  <2> QED BY <2>1, <2>2, <2>3, <2>4, <2>5
<1>4. ASSUME NEW b \in blocks, IsRun(d, l, b) PROVE l = k
  <2>1. PICK c \in blocks : IsRun(d, k, c)
    BY <1>2, <1>3, <1>4 DEF LineOf
  <2>2. b = c
    <3>1. b.start = c.start
      BY <1>2, <1>3, <1>4, <2>1
    <3>2. d \in plan.on[b.s] /\ d \in plan.on[c.s]
      BY <1>4, <2>1 DEF IsRun
    <3> QED BY <3>1, <3>2, SameTime
  <2> QED BY <1>4, <2>1, <2>2, Zenon DEF IsRun
<1>5. ASSUME NEW b \in blocks, IsSend(l, b) PROVE l = k
  <2>1. b.s < LastStage /\ b.s \in Nat
    BY <1>0, <1>5, BlockTypes DEF IsSend
  <2>2. PICK c \in blocks : IsSend(k, c)
    <3>1. \A c \in blocks : ~IsBack(k, c)
      BY <1>0, <1>2, <1>3, <1>5, <2>1, BlockTypes
    <3> QED BY <1>2, <1>3, <1>5, <3>1 DEF LineOf
  <2>3. b.s = c.s /\ b.start + b.span = c.start + c.span
    BY <1>2, <1>3, <1>5, <2>2, BlockTypes
  <2>4. b = c
    <3>1. PICK e : e \in plan.on[b.s]
      BY BlockTypes
    <3> QED BY <2>3, <3>1, SameTime
  <2> QED BY <1>5, <2>2, <2>4, Zenon DEF IsSend
<1>6. ASSUME NEW b \in blocks, IsBack(l, b) PROVE l = k
  <2>1. 2 * LastStage - b.s >= LastStage /\ b.s \in Nat
    BY <1>0, BlockTypes
  <2>2. PICK c \in blocks : IsBack(k, c)
    <3>1. \A c \in blocks : ~IsSend(k, c)
      <4> SUFFICES ASSUME NEW c \in blocks, IsSend(k, c) PROVE FALSE
        OBVIOUS
      <4>1. c.s < LastStage /\ c.s \in Nat
        BY <1>0, BlockTypes DEF IsSend
      <4> QED BY <1>0, <1>2, <1>3, <1>6, <2>1, <4>1
    <3> QED BY <1>2, <1>3, <1>6, <3>1 DEF LineOf
  <2>3. b.s = c.s /\ b.start + b.span = c.start + c.span
    BY <1>0, <1>2, <1>3, <1>6, <2>2, BlockTypes
  <2>4. b = c
    <3>1. PICK e : e \in plan.on[b.s]
      BY BlockTypes
    <3> QED BY <2>3, <3>1, SameTime
  <2> QED BY <1>6, <2>2, <2>4, Zenon DEF IsBack
<1>7. ASSUME NEW m \in 0..(plan.M - 1), IsOut(l, m) PROVE l = k
  <2>1. PICK n \in 0..(plan.M - 1) : IsOut(k, n)
    BY <1>2, <1>3, <1>7 DEF LineOf
  <2>2. m = n
    BY <1>2, <1>3, <1>7, <2>1
  <2> QED BY <1>7, <2>1, <2>2, Zenon DEF IsOut
<1>8. ASSUME NEW m \in 0..(plan.M - 1), IsLoad(d, l, m) PROVE l = k
  <2>1. PICK n \in 0..(plan.M - 1) : IsLoad(d, k, n)
    BY <1>2, <1>3, <1>8 DEF LineOf
  <2>2. m \in Int /\ n \in Int /\ -m = -n
    BY <1>0, <1>2, <1>3, <1>8, <2>1
  <2>3. m = n
    BY <2>2
  <2> QED BY <1>8, <2>1, <2>3, Zenon DEF IsLoad
<1> QED BY <1>4, <1>5, <1>6, <1>7, <1>8 DEF LineOf

\* A device has finitely many lines.
LEMMA FiniteLines ==
    ASSUME Written, NEW d
    PROVE  IsFiniteSet(Kept(d))
<1>1. PICK M : M = 0..(plan.M - 1) /\ IsFiniteSet(M)
  <2>1. 0 \in Int /\ plan.M - 1 \in Int
    BY PlanTypes DEF Written
  <2> QED BY <2>1, FS_Interval
<1>2. PICK f, g, h : /\ f = [b \in blocks |-> Line(b.dir, b.s, b.m, <<b.start, 0, 0>>)]
                     /\ g = [b \in blocks |-> Line("send", b.s, b.m, <<AfterSpan(b), 1, b.s>>)]
                     /\ h = [b \in blocks |-> Line("back", b.s, b.m, <<AfterSpan(b), 1, 2 * LastStage - b.s>>)]
  OBVIOUS
<1>3. PICK u, v : /\ u = [m \in M |-> Line("out", LastStage, m, <<NSteps - 1, 2, m>>)]
                  /\ v = [m \in M |-> Line("load", 0, m, LoaderKey(d, m))]
  OBVIOUS
<1>4. /\ IsFiniteSet({f[b] : b \in blocks}) /\ IsFiniteSet({g[b] : b \in blocks}) /\ IsFiniteSet({h[b] : b \in blocks})
      /\ IsFiniteSet({u[m] : m \in M}) /\ IsFiniteSet({v[m] : m \in M})
  <2>1. /\ f = [b \in blocks |-> f[b]] /\ g = [b \in blocks |-> g[b]] /\ h = [b \in blocks |-> h[b]]
        /\ u = [m \in M |-> u[m]] /\ v = [m \in M |-> v[m]]
    BY <1>2, <1>3
  <2>2. IsFiniteSet({f[b] : b \in blocks})
    BY <2>1, FiniteBlocks, Image
  <2>3. IsFiniteSet({g[b] : b \in blocks})
    BY <2>1, FiniteBlocks, Image
  <2>4. IsFiniteSet({h[b] : b \in blocks})
    BY <2>1, FiniteBlocks, Image
  <2>7. IsFiniteSet(M) /\ (u = [x \in M |-> u[x]]) /\ (v = [x \in M |-> v[x]])
    BY <1>1, <2>1
  <2>5. IsFiniteSet({u[x] : x \in M})
    BY <2>7, Image, Zenon
  <2>6. IsFiniteSet({v[x] : x \in M})
    BY <2>7, Image, Zenon
  <2> QED BY <2>2, <2>3, <2>4, <2>5, <2>6
<1>5. PICK A, B, C, U, V : /\ A = {f[b] : b \in blocks} /\ B = {g[b] : b \in blocks} /\ C = {h[b] : b \in blocks}
                           /\ U = {u[m] : m \in M} /\ V = {v[m] : m \in M}
  OBVIOUS
<1>6. IsFiniteSet(A \cup B \cup C \cup U \cup V)
  <2>1. IsFiniteSet(A) /\ IsFiniteSet(B) /\ IsFiniteSet(C) /\ IsFiniteSet(U) /\ IsFiniteSet(V)
    BY <1>4, <1>5
  <2>2. IsFiniteSet(A \cup B)
    BY <2>1, FS_Union
  <2>3. IsFiniteSet((A \cup B) \cup C)
    BY <2>1, <2>2, FS_Union
  <2>4. IsFiniteSet(((A \cup B) \cup C) \cup U)
    BY <2>1, <2>3, FS_Union
  <2>5. IsFiniteSet((((A \cup B) \cup C) \cup U) \cup V)
    BY <2>1, <2>4, FS_Union
  <2> QED BY <2>5
<1>7. ASSUME NEW l \in Kept(d) PROVE l \in A \cup B \cup C \cup U \cup V
  <2>1. LineOf(d, l)
    BY Lines DEF Kept
  <2>2. ASSUME NEW b \in blocks, IsRun(d, l, b) \/ IsSend(l, b) \/ IsBack(l, b) PROVE l = f[b] \/ l = g[b] \/ l = h[b]
    BY <1>2, <2>2 DEF IsRun, IsSend, IsBack
  <2>3. ASSUME NEW m \in M, IsOut(l, m) \/ IsLoad(d, l, m) PROVE l = u[m] \/ l = v[m]
    BY <1>3, <2>3 DEF IsOut, IsLoad
  <2> QED BY <1>1, <1>5, <2>1, <2>2, <2>3 DEF LineOf
<1>8. Kept(d) \in SUBSET (A \cup B \cup C \cup U \cup V)
  BY <1>7
<1> QED BY <1>6, <1>8, FS_Subset

\* The program of a device is its lines, sorted.
LEMMA PlanSorted ==
    ASSUME Written, NEW d
    PROVE  Sorted(Program(d), Kept(d)) /\ \A l \in Kept(d) : LineOf(d, l) /\ Key(l.at)
<1>1. \A l \in Kept(d) : LineOf(d, l)
  BY Lines DEF Kept
<1>2. \A l \in Kept(d) : Key(l.at)
  BY <1>1, KeysAreKeys
<1>3. \A l, k \in Kept(d) : l.at = k.at => l = k
  BY <1>1, KeysDiffer
<1> QED BY <1>1, <1>2, <1>3, FiniteLines, ProgramSorted

(***************************************************************************)
(* A program takes the microbatches in order.  Line i of program q is an   *)
(* operation op of stage s; k microbatches have been through it before i.  *)
(***************************************************************************)
Does(q, i, op, s) == q[i].op = op /\ q[i].s = s
\* Program q has operation op of stage s once for each microbatch, in order.
InTurn(q, M, op, s) ==
  /\ \A i \in 1..Len(q) : Does(q, i, op, s) => q[i].m \in 0..(M - 1)
  /\ \A i, j \in 1..Len(q) : Does(q, i, op, s) /\ Does(q, j, op, s) =>
       /\ q[i].m < q[j].m => i < j
       /\ q[i].m = q[j].m => i = j
  /\ \A m \in 0..(M - 1) : \E i \in 1..Len(q) : Does(q, i, op, s) /\ q[i].m = m
\* k microbatches have been through the operation before line i.
Count(q, op, s, i, k) == \A j \in 1..Len(q) : Does(q, j, op, s) => (j < i <=> q[j].m < k)

\* None at the first line.
LEMMA CountStart ==
    ASSUME NEW q, NEW M \in Nat, NEW op, NEW s, InTurn(q, M, op, s), Len(q) \in Nat
    PROVE  Count(q, op, s, 1, 0)
<1> SUFFICES ASSUME NEW j \in 1..Len(q), Does(q, j, op, s) PROVE j < 1 <=> q[j].m < 0
  BY DEF Count
<1>1. q[j].m \in 0..(M - 1)
  BY DEF InTurn
<1> QED BY <1>1

\* All of them at the end.
LEMMA CountEnd ==
    ASSUME NEW q, NEW M \in Nat, NEW op, NEW s, InTurn(q, M, op, s), Len(q) \in Nat,
           NEW k \in 0..M, Count(q, op, s, Len(q) + 1, k)
    PROVE  k = M
<1> SUFFICES ASSUME k # M PROVE FALSE
  OBVIOUS
<1>1. k \in 0..(M - 1)
  OBVIOUS
<1>2. PICK i \in 1..Len(q) : Does(q, i, op, s) /\ q[i].m = k
  BY <1>1 DEF InTurn
<1>3. i < Len(q) + 1 <=> q[i].m < k
  BY <1>2 DEF Count
<1> QED BY <1>1, <1>2, <1>3

\* The line is the next microbatch.
LEMMA CountNext ==
    ASSUME NEW q, NEW M \in Nat, NEW op, NEW s, InTurn(q, M, op, s), Len(q) \in Nat,
           NEW k \in 0..M, NEW i \in 1..Len(q), Count(q, op, s, i, k), Does(q, i, op, s)
    PROVE  q[i].m = k /\ k < M /\ k + 1 \in 0..M /\ Count(q, op, s, i + 1, k + 1)
<1>1. q[i].m \in 0..(M - 1)
  BY DEF InTurn
<1>2. ~(q[i].m < k)
  BY DEF Count
<1>3. q[i].m = k
  <2> SUFFICES ASSUME k < q[i].m PROVE FALSE
    BY <1>1, <1>2
  <2>1. k \in 0..(M - 1)
    BY <1>1
  <2>2. PICK j \in 1..Len(q) : Does(q, j, op, s) /\ q[j].m = k
    BY <2>1 DEF InTurn
  <2>3. j < i
    BY <2>2 DEF InTurn
  <2>4. q[j].m < k
    BY <2>2, <2>3 DEF Count
  <2> QED BY <2>1, <2>2, <2>4
<1>4. ASSUME NEW j \in 1..Len(q), Does(q, j, op, s) PROVE j < i + 1 <=> q[j].m < k + 1
  <2>1. q[j].m \in 0..(M - 1)
    BY <1>4 DEF InTurn
  <2>2. j < i <=> q[j].m < k
    BY <1>4 DEF Count
  <2>3. q[j].m = k => j = i
    BY <1>3, <1>4 DEF InTurn
  <2>4. j = i => q[j].m = k
    BY <1>3
  <2> QED BY <2>1, <2>2, <2>3, <2>4
<1> QED BY <1>1, <1>3, <1>4 DEF Count

\* A line of another operation changes nothing.
LEMMA CountOther ==
    ASSUME NEW q, NEW op, NEW s, Len(q) \in Nat, NEW k,
           NEW i \in 1..Len(q), Count(q, op, s, i, k), ~Does(q, i, op, s)
    PROVE  Count(q, op, s, i + 1, k)
<1> SUFFICES ASSUME NEW j \in 1..Len(q), Does(q, j, op, s) PROVE j < i + 1 <=> q[j].m < k
  BY DEF Count
<1>1. j < i <=> q[j].m < k
  BY DEF Count
<1>2. j # i
  OBVIOUS
<1>3. j < i + 1 <=> j < i
  BY <1>2
<1> QED BY <1>1, <1>3

(***************************************************************************)
(* The microbatches a stage holds between forward and backward.            *)
(***************************************************************************)
\* Backward after forward, and not more than n microbatches behind.
BackAfter(q, s) == \A i, j \in 1..Len(q) : Does(q, i, "f", s) /\ Does(q, j, "b", s) /\ q[i].m = q[j].m => i < j
Turns(q, M, s) == InTurn(q, M, "f", s) /\ InTurn(q, M, "b", s) /\ BackAfter(q, s)
Narrow(q, s, n) == \A i, j \in 1..Len(q) : Does(q, i, "f", s) /\ Does(q, j, "b", s) /\ i < j => q[i].m < q[j].m + n
\* The numbers from c on.
Numbers(c, n) == [j \in 1..n |-> c + j - 1]
\* w is the microbatches that are forwarded and not yet backwarded before line i, in order.
Held(q, M, s, i, w) ==
  \E a, c \in 0..M : c <= a /\ Count(q, "f", s, i, a) /\ Count(q, "b", s, i, c) /\ w = Numbers(c, a - c)

\* Append and Tail of consecutive numbers.
LEMMA NumbersSeq ==
    ASSUME NEW c \in Int, NEW n \in Nat
    PROVE  /\ Numbers(c, n) \in Seq(Int) /\ Len(Numbers(c, n)) = n
           /\ \A j \in 1..n : Numbers(c, n)[j] = c + j - 1
           /\ Append(Numbers(c, n), c + n) = Numbers(c, n + 1)
           /\ n > 0 => /\ Numbers(c, n) # <<>> /\ Head(Numbers(c, n)) = c
                       /\ Tail(Numbers(c, n)) = Numbers(c + 1, n - 1)
<1>1. PICK w : w = Numbers(c, n)
  OBVIOUS
<1>2. w \in Seq(Int) /\ Len(w) = n /\ \A j \in 1..n : w[j] = c + j - 1
  BY <1>1 DEF Numbers
<1>3. Append(w, c + n) = Numbers(c, n + 1)
  <2>1. PICK v : v = Append(w, c + n)
    OBVIOUS
  <2>2. v \in Seq(Int) /\ Len(v) = n + 1 /\ \A j \in 1..(n + 1) : v[j] = c + j - 1
    BY <1>2, <2>1
  <2>3. v = [j \in 1..(n + 1) |-> c + j - 1]
    BY <2>2
  <2> QED BY <2>1, <2>3 DEF Numbers
<1>4. ASSUME n > 0 PROVE w # <<>> /\ Head(w) = c /\ Tail(w) = Numbers(c + 1, n - 1)
  <2>1. w # <<>> /\ Head(w) = c
    BY <1>2, <1>4
  <2>2. PICK v : v = Tail(w)
    OBVIOUS
  <2>3. v \in Seq(Int) /\ Len(v) = n - 1 /\ \A j \in 1..(n - 1) : v[j] = (c + 1) + j - 1
    BY <1>2, <1>4, <2>1, <2>2
  <2>4. v = [j \in 1..(n - 1) |-> (c + 1) + j - 1]
    BY <2>3
  <2> QED BY <2>1, <2>2, <2>4 DEF Numbers
<1> QED BY <1>1, <1>2, <1>3, <1>4

\* Held microbatches are a sequence of numbers.
LEMMA HeldType ==
    ASSUME NEW q, NEW M \in Nat, NEW s, NEW i, NEW w, Held(q, M, s, i, w)
    PROVE  w \in Seq(Int)
<1>1. PICK a \in 0..M, c \in 0..M : c <= a /\ w = Numbers(c, a - c)
  BY DEF Held
<1>2. c \in Int /\ a - c \in Nat
  BY <1>1
<1> QED BY <1>1, <1>2, NumbersSeq

\* Nothing is held at the first line.
LEMMA HeldStart ==
    ASSUME NEW q, NEW M \in Nat, NEW s, Turns(q, M, s), Len(q) \in Nat
    PROVE  Held(q, M, s, 1, <<>>)
<1>1. Count(q, "f", s, 1, 0) /\ Count(q, "b", s, 1, 0)
  BY CountStart DEF Turns
<1>2. Numbers(0, 0 - 0) = <<>>
  <2>1. PICK w : w = Numbers(0, 0 - 0)
    OBVIOUS
  <2>2. w \in Seq(Int) /\ Len(w) = 0
    BY <2>1, NumbersSeq
  <2> QED BY <2>1, <2>2
<1>3. 0 \in 0..M /\ 0 <= 0
  OBVIOUS
<1> QED BY <1>1, <1>2, <1>3, Zenon DEF Held

\* Nothing is held at the end.
LEMMA HeldEnd ==
    ASSUME NEW q, NEW M \in Nat, NEW s, Turns(q, M, s), Len(q) \in Nat, NEW w, Held(q, M, s, Len(q) + 1, w)
    PROVE  w = <<>>
<1>1. PICK a \in 0..M, c \in 0..M : /\ Count(q, "f", s, Len(q) + 1, a) /\ Count(q, "b", s, Len(q) + 1, c)
                                    /\ w = Numbers(c, a - c)
  BY DEF Held
<1>2. a = M /\ c = M
  BY <1>1, CountEnd DEF Turns
<1>3. w = Numbers(M, 0)
  BY <1>1, <1>2
<1>4. w \in Seq(Int) /\ Len(w) = 0
  BY <1>3, NumbersSeq
<1> QED BY <1>4

\* A line of another stage, adapter or loader changes nothing.
LEMMA HeldOther ==
    ASSUME NEW q, NEW M \in Nat, NEW s, Len(q) \in Nat, NEW i \in 1..Len(q), NEW w, Held(q, M, s, i, w),
           ~Does(q, i, "f", s), ~Does(q, i, "b", s)
    PROVE  Held(q, M, s, i + 1, w)
<1>1. PICK a \in 0..M, c \in 0..M : /\ c <= a /\ Count(q, "f", s, i, a) /\ Count(q, "b", s, i, c)
                                    /\ w = Numbers(c, a - c)
  BY DEF Held
<1>2. Count(q, "f", s, i + 1, a) /\ Count(q, "b", s, i + 1, c)
  BY <1>1, CountOther
<1> QED BY <1>1, <1>2, Zenon DEF Held

\* A forward appends its microbatch, within the distance of its backward.
LEMMA HeldForward ==
    ASSUME NEW q, NEW M \in Nat, NEW s, Turns(q, M, s), Len(q) \in Nat, NEW i \in 1..Len(q),
           NEW w, Held(q, M, s, i, w), Does(q, i, "f", s)
    PROVE  /\ Held(q, M, s, i + 1, Append(w, q[i].m)) /\ q[i].m \in Int
           /\ \A n \in Nat \ {0} : Narrow(q, s, n) => Len(Append(w, q[i].m)) <= n
<1>1. PICK a \in 0..M, c \in 0..M : /\ c <= a /\ Count(q, "f", s, i, a) /\ Count(q, "b", s, i, c)
                                    /\ w = Numbers(c, a - c)
  BY DEF Held
<1>2. ~Does(q, i, "b", s)
  BY DEF Does
<1>3. q[i].m = a /\ a + 1 \in 0..M /\ Count(q, "f", s, i + 1, a + 1)
  BY <1>1, CountNext DEF Turns
<1>4. Count(q, "b", s, i + 1, c)
  BY <1>1, <1>2, CountOther
<1>5. c \in Int /\ a \in Int /\ a - c \in Nat /\ c + (a - c) = a /\ (a - c) + 1 = (a + 1) - c /\ c <= a + 1
  BY <1>1
<1>6. Append(w, q[i].m) = Numbers(c, (a + 1) - c)
  <2>1. Append(Numbers(c, a - c), c + (a - c)) = Numbers(c, (a - c) + 1)
    BY <1>5, NumbersSeq
  <2> QED BY <1>1, <1>3, <1>5, <2>1
<1>7. Held(q, M, s, i + 1, Append(w, q[i].m))
  BY <1>1, <1>3, <1>4, <1>5, <1>6, Zenon DEF Held
<1>8. ASSUME NEW n \in Nat \ {0}, Narrow(q, s, n) PROVE Len(Append(w, q[i].m)) <= n
  <2>1. Len(Append(w, q[i].m)) = (a + 1) - c
    <3>1. PICK e : e = (a + 1) - c
      OBVIOUS
    <3>2. e \in Nat
      BY <1>5, <3>1
    <3>3. Append(w, q[i].m) = Numbers(c, e)
      BY <1>6, <3>1
    <3>4. Len(Numbers(c, e)) = e
      BY <1>5, <3>2, NumbersSeq
    <3> QED BY <3>1, <3>3, <3>4
  <2>2. CASE c = M
    BY <1>3, <1>5, <1>8, <2>1, <2>2
  <2>3. CASE c # M
    <3>1. c \in 0..(M - 1)
      BY <2>3
    <3>2. PICK j \in 1..Len(q) : Does(q, j, "b", s) /\ q[j].m = c
      BY <3>1 DEF Turns, InTurn
    <3>3. ~(j < i)
      BY <1>1, <3>1, <3>2 DEF Count
    <3>4. i < j
      BY <1>2, <3>2, <3>3
    <3>5. q[i].m < q[j].m + n
      BY <1>8, <3>2, <3>4 DEF Narrow
    <3>6. a < c + n
      BY <1>3, <3>2, <3>5
    <3> QED BY <1>5, <1>8, <2>1, <3>6
  <2> QED BY <2>2, <2>3
<1> QED BY <1>3, <1>5, <1>7, <1>8

\* What a backward finds first is its own microbatch.
LEMMA HeldBackward ==
    ASSUME NEW q, NEW M \in Nat, NEW s, Turns(q, M, s), Len(q) \in Nat, NEW i \in 1..Len(q),
           NEW w, Held(q, M, s, i, w), Does(q, i, "b", s)
    PROVE  /\ Held(q, M, s, i + 1, Tail(w)) /\ Head(w) = q[i].m
           /\ Len(Tail(w)) \in Int /\ Len(w) \in Int /\ Len(Tail(w)) <= Len(w)
<1>1. PICK a \in 0..M, c \in 0..M : /\ c <= a /\ Count(q, "f", s, i, a) /\ Count(q, "b", s, i, c)
                                    /\ w = Numbers(c, a - c)
  BY DEF Held
<1>2. ~Does(q, i, "f", s)
  BY DEF Does
<1>3. q[i].m = c /\ c < M /\ c + 1 \in 0..M /\ Count(q, "b", s, i + 1, c + 1)
  BY <1>1, CountNext DEF Turns
<1>4. Count(q, "f", s, i + 1, a)
  BY <1>1, <1>2, CountOther
<1>5. c < a
  <2>1. c \in 0..(M - 1)
    BY <1>3
  <2>2. PICK j \in 1..Len(q) : Does(q, j, "f", s) /\ q[j].m = c
    BY <2>1 DEF Turns, InTurn
  <2>3. j < i
    BY <1>3, <2>2 DEF Turns, BackAfter
  <2> QED BY <1>1, <2>2, <2>3 DEF Count
<1>6. c \in Int /\ a - c \in Nat /\ a - c > 0 /\ (a - c) - 1 = a - (c + 1) /\ a - (c + 1) \in Nat /\ c + 1 <= a /\ c + 1 \in Int
  BY <1>5
<1>7. Head(w) = c /\ Tail(w) = Numbers(c + 1, a - (c + 1)) /\ Len(w) = a - c
  <2>1. Head(Numbers(c, a - c)) = c /\ Tail(Numbers(c, a - c)) = Numbers(c + 1, (a - c) - 1) /\ Len(Numbers(c, a - c)) = a - c
    BY <1>6, NumbersSeq
  <2> QED BY <1>1, <1>6, <2>1
<1>8. Held(q, M, s, i + 1, Tail(w))
  BY <1>1, <1>3, <1>4, <1>6, <1>7, Zenon DEF Held
<1>9. Len(Tail(w)) = a - (c + 1)
  BY <1>6, <1>7, NumbersSeq
<1> QED BY <1>3, <1>6, <1>7, <1>8, <1>9

(***************************************************************************)
(* The samples a device has drawn.                                         *)
(***************************************************************************)
Drawn(q, M, i, w) == \E k \in 0..M : Count(q, "load", 0, i, k) /\ w = Numbers(0, k)

\* Samples that are drawn in turn are numbered in order.
LEMMA DrawnInOrder ==
    ASSUME NEW q, NEW M \in Nat, NEW i, NEW w, Drawn(q, M, i, w)
    PROVE  \A j \in 1..Len(w) : w[j] = j - 1
<1>1. PICK k \in 0..M : w = Numbers(0, k)
  BY DEF Drawn
<1>2. Len(w) = k /\ \A j \in 1..k : w[j] = 0 + j - 1
  <2>1. 0 \in Int /\ k \in Nat
    OBVIOUS
  <2>2. Len(Numbers(0, k)) = k /\ \A j \in 1..k : Numbers(0, k)[j] = 0 + j - 1
    BY <2>1, NumbersSeq
  <2> QED BY <1>1, <2>2
<1> QED BY <1>2

\* A loader draws the next microbatch, another line draws none.
LEMMA DrawnSteps ==
    ASSUME NEW q, NEW M \in Nat, Len(q) \in Nat, InTurn(q, M, "load", 0)
    PROVE  /\ Drawn(q, M, 1, <<>>)
           /\ \A i \in 1..Len(q) : \A w : Drawn(q, M, i, w) =>
                /\ Does(q, i, "load", 0) => Drawn(q, M, i + 1, Append(w, q[i].m))
                /\ ~Does(q, i, "load", 0) => Drawn(q, M, i + 1, w)
<1>1. Drawn(q, M, 1, <<>>)
  <2>1. PICK w : w = Numbers(0, 0)
    OBVIOUS
  <2>2. w \in Seq(Int) /\ Len(w) = 0
    BY <2>1, NumbersSeq
  <2>3. w = <<>> /\ 0 \in 0..M /\ Count(q, "load", 0, 1, 0)
    BY <2>2, CountStart
  <2> QED BY <2>1, <2>3, Zenon DEF Drawn
<1>2. ASSUME NEW i \in 1..Len(q), NEW w, Drawn(q, M, i, w), Does(q, i, "load", 0)
      PROVE  Drawn(q, M, i + 1, Append(w, q[i].m))
  <2>1. PICK k \in 0..M : Count(q, "load", 0, i, k) /\ w = Numbers(0, k)
    BY <1>2 DEF Drawn
  <2>2. q[i].m = k /\ k + 1 \in 0..M /\ Count(q, "load", 0, i + 1, k + 1)
    BY <1>2, <2>1, CountNext
  <2>3. Append(Numbers(0, k), 0 + k) = Numbers(0, k + 1)
    <3>1. 0 \in Int /\ k \in Nat
      OBVIOUS
    <3> QED BY <3>1, NumbersSeq
  <2>4. Append(w, q[i].m) = Numbers(0, k + 1)
    BY <2>1, <2>2, <2>3
  <2> QED BY <2>2, <2>4, Zenon DEF Drawn
<1>3. ASSUME NEW i \in 1..Len(q), NEW w, Drawn(q, M, i, w), ~Does(q, i, "load", 0)
      PROVE  Drawn(q, M, i + 1, w)
  <2>1. PICK k \in 0..M : Count(q, "load", 0, i, k) /\ w = Numbers(0, k)
    BY <1>3 DEF Drawn
  <2>2. Count(q, "load", 0, i + 1, k)
    BY <1>3, <2>1, CountOther
  <2> QED BY <2>1, <2>2, Zenon DEF Drawn
<1> QED BY <1>1, <1>2, <1>3

(***************************************************************************)
(* What the programs that are split from a valid plan are like.  q is the  *)
(* program of device d.                                                    *)
(***************************************************************************)
Reading(d) == \E x \in plan.loads : x[1] = d
OpsFit(q, d) ==
  \A i \in 1..Len(q) :
    /\ q[i].op \in {"f", "b"} => q[i].s \in 0..LastStage /\ d \in plan.on[q[i].s]
    /\ q[i].op = "b" => mode # "infer"
    /\ q[i].op = "load" => q[i].s = 0
TurnsFit(q, d) ==
  \A s \in 0..LastStage : mode # "infer" /\ d \in plan.on[s] =>
    Turns(q, plan.M, s) /\ (plan.kind = "1f1b" => Narrow(q, s, plan.S - s))
Fits(q, d) == /\ Len(q) \in Nat /\ OpsFit(q, d) /\ TurnsFit(q, d)
              /\ Reading(d) => InTurn(q, plan.M, "load", 0)

\* The order of the lines is the order of their keys.
LEMMA Indices ==
    ASSUME NEW q, NEW ls, Sorted(q, ls), \A l \in ls : Key(l.at), NEW i \in 1..Len(q), NEW j \in 1..Len(q)
    PROVE  /\ Earlier(q[i].at, q[j].at) => i < j
           /\ q[i].at = q[j].at => i = j
<1>1. PICK a, b : a = q[i].at /\ b = q[j].at
  OBVIOUS
<1>2. Key(a) /\ Key(b)
  <2>1. q[i] \in ls /\ q[j] \in ls
    BY DEF Sorted
  <2> QED BY <1>1, <2>1
<1>3. i < j => Earlier(a, b)
  BY <1>1 DEF Sorted
<1>4. j < i => Earlier(b, a)
  BY <1>1 DEF Sorted
<1>5. a[1] \in Int /\ a[2] \in Int /\ a[3] \in Int /\ b[1] \in Int /\ b[2] \in Int /\ b[3] \in Int
  BY <1>2 DEF Key
<1>6. Earlier(a, b) <=> \/ a[1] < b[1]
                        \/ a[1] = b[1] /\ a[2] < b[2]
                        \/ a[1] = b[1] /\ a[2] = b[2] /\ a[3] < b[3]
  BY <1>2, KeyOrder
<1>7. Earlier(b, a) <=> \/ b[1] < a[1]
                        \/ b[1] = a[1] /\ b[2] < a[2]
                        \/ b[1] = a[1] /\ b[2] = a[2] /\ b[3] < a[3]
  BY <1>2, KeyOrder
<1>8. i \in Int /\ j \in Int
  <2>1. Len(q) \in Nat
    BY DEF Sorted
  <2> QED BY <2>1
<1>9. Earlier(a, b) => ~Earlier(b, a) /\ a # b
  BY <1>5, <1>6, <1>7
<1>10. Earlier(b, a) => a # b
  BY <1>5, <1>7
<1>11. i < j \/ j < i \/ i = j
  BY <1>8
<1>12. Earlier(a, b) => i < j
  BY <1>1, <1>4, <1>9, <1>11
<1>13. a = b => i = j
  BY <1>3, <1>4, <1>9, <1>10, <1>11
<1> QED BY <1>1, <1>12, <1>13

\* A forward or backward line belongs to a block.
LEMMA RunLineOf ==
    ASSUME Written, NEW d, NEW l \in Kept(d), l.op \in {"f", "b"}
    PROVE  \E b \in blocks : /\ d \in plan.on[b.s] /\ l.op = b.dir /\ l.s = b.s /\ l.m = b.m
                             /\ l.at = <<b.start, 0, 0>>
<1>1. LineOf(d, l)
  BY PlanSorted
<1>2. ASSUME NEW b \in blocks PROVE ~IsSend(l, b) /\ ~IsBack(l, b)
  BY Keys
<1>3. ASSUME NEW m PROVE ~IsOut(l, m) /\ ~IsLoad(d, l, m)
  BY Keys
<1>4. PICK b \in blocks : IsRun(d, l, b)
  BY <1>1, <1>2, <1>3 DEF LineOf
<1>5. d \in plan.on[b.s]
  BY <1>4 DEF IsRun
<1>6. l.at = <<b.start, 0, 0>> /\ l.op = b.dir /\ l.s = b.s /\ l.m = b.m
  BY <1>4, Keys
<1> QED BY <1>5, <1>6

\* A block of a device has a line, in inference a forward block.
LEMMA BlockLine ==
    ASSUME Written, NEW d, NEW b \in blocks, d \in plan.on[b.s], b.dir = "b" => mode # "infer"
    PROVE  \E l \in Kept(d) : l.op = b.dir /\ l.s = b.s /\ l.m = b.m
<1>1. PICK l : l = Line(b.dir, b.s, b.m, <<b.start, 0, 0>>)
  OBVIOUS
<1>2. l.op = b.dir /\ l.s = b.s /\ l.m = b.m
  BY <1>1 DEF Line
<1>3. l \in AllLines(d)
  <2>1. IsRun(d, l, b)
    BY <1>1, Zenon DEF IsRun
  <2>2. l \in RunLines(d)
    BY <2>1, RunLine
  <2> QED BY <2>2 DEF AllLines
<1>4. mode = "infer" => l.op \notin {"b", "back"}
  BY <1>2, BlockTypes
<1>5. l \in Kept(d)
  BY <1>3, <1>4 DEF Kept
<1> QED BY <1>2, <1>5

\* A block that starts earlier is on an earlier line.
LEMMA StartsBefore ==
    ASSUME Written, NEW d, NEW q, Sorted(q, Kept(d)), NEW i \in 1..Len(q), NEW j \in 1..Len(q),
           NEW b \in blocks, NEW c \in blocks, q[i].at = <<b.start, 0, 0>>, q[j].at = <<c.start, 0, 0>>
    PROVE  /\ b.start < c.start => i < j
           /\ b.start = c.start => i = j
           /\ i < j => b.start < c.start
<1>1. PICK x, y : x = <<b.start, 0, 0>> /\ y = <<c.start, 0, 0>>
  OBVIOUS
<1>2. b.start \in Nat /\ c.start \in Nat
  BY BlockTypes
<1>3. Key(x) /\ Key(y) /\ x[1] = b.start /\ y[1] = c.start /\ x[2] = 0 /\ y[2] = 0 /\ x[3] = 0 /\ y[3] = 0
  BY <1>1, <1>2 DEF Key
<1>4. Earlier(x, y) <=> b.start < c.start
  BY <1>2, <1>3, KeyOrder
<1>5. \A l \in Kept(d) : Key(l.at)
  BY PlanSorted
<1>6. Earlier(x, y) => i < j
  BY <1>1, <1>5, Indices
<1>7. x = y => i = j
  BY <1>1, <1>5, Indices
<1>8. i < j => Earlier(x, y)
  BY <1>1 DEF Sorted
<1>9. b.start = c.start => x = y
  BY <1>1
<1> QED BY <1>4, <1>6, <1>7, <1>8, <1>9

\* A stage takes the microbatches in order, forward and backward.
LEMMA StageInTurn ==
    ASSUME Written, NEW d, NEW q, Sorted(q, Kept(d)), NEW dir \in Dirs, dir = "b" => mode # "infer",
           NEW s \in 0..LastStage, d \in plan.on[s]
    PROVE  InTurn(q, plan.M, dir, s)
<1>0. dir \in {"f", "b"} /\ s \in 0..(plan.S - 1)
  BY DEF Dirs, LastStage
<1>1. ASSUME NEW i \in 1..Len(q), Does(q, i, dir, s)
      PROVE  \E b \in blocks : /\ b.dir = dir /\ b.s = s /\ q[i].m = b.m /\ b.m \in 0..(plan.M - 1)
                               /\ q[i].at = <<b.start, 0, 0>>
  <2>1. q[i] \in Kept(d) /\ q[i].op = dir /\ q[i].s = s
    BY <1>1 DEF Sorted, Does
  <2>2. PICK b \in blocks : /\ q[i].op = b.dir /\ q[i].s = b.s /\ q[i].m = b.m
                            /\ q[i].at = <<b.start, 0, 0>>
    BY <1>0, <2>1, RunLineOf
  <2>3. b.m \in 0..(plan.M - 1)
    BY BlockTypes
  <2> QED BY <2>1, <2>2, <2>3
<1>2. ASSUME NEW i \in 1..Len(q), NEW j \in 1..Len(q), Does(q, i, dir, s), Does(q, j, dir, s)
      PROVE  /\ q[i].m < q[j].m => i < j
             /\ q[i].m = q[j].m => i = j
  <2>1. PICK b \in blocks : b.dir = dir /\ b.s = s /\ q[i].m = b.m /\ q[i].at = <<b.start, 0, 0>>
    BY <1>1, <1>2
  <2>2. PICK c \in blocks : c.dir = dir /\ c.s = s /\ q[j].m = c.m /\ q[j].at = <<c.start, 0, 0>>
    BY <1>1, <1>2
  <2>3. (b.m = c.m => b = c) /\ (b.m < c.m => b.start < c.start)
    BY <2>1, <2>2 DEF Written, InOrder
  <2>4. (b.start < c.start => i < j) /\ (b.start = c.start => i = j)
    BY <2>1, <2>2, StartsBefore
  <2> QED BY <2>1, <2>2, <2>3, <2>4
<1>3. ASSUME NEW m \in 0..(plan.M - 1)
      PROVE  \E i \in 1..Len(q) : Does(q, i, dir, s) /\ q[i].m = m
  <2>1. PICK b \in blocks : b.dir = dir /\ b.s = s /\ b.m = m
    BY <1>0 DEF Written, InOrder
  <2>2. PICK l \in Kept(d) : l.op = dir /\ l.s = s /\ l.m = m
    BY <2>1, BlockLine
  <2>3. PICK i \in 1..Len(q) : q[i] = l
    BY DEF Sorted
  <2> QED BY <2>2, <2>3 DEF Does
<1>4. \A i \in 1..Len(q) : Does(q, i, dir, s) => q[i].m \in 0..(plan.M - 1)
  BY <1>1
<1> QED BY <1>2, <1>3, <1>4 DEF InTurn

\* A stage goes backward after it has gone forward, and in 1F1B soon.
LEMMA BackFits ==
    ASSUME Written, Valid, NEW d, NEW q, Sorted(q, Kept(d)), NEW s \in 0..LastStage
    PROVE  /\ BackAfter(q, s)
           /\ blocks = OneFOneB(plan.S, plan.M) => Narrow(q, s, plan.S - s)
<1>1. ASSUME NEW i \in 1..Len(q), NEW dir \in {"f", "b"}, Does(q, i, dir, s)
      PROVE  \E b \in blocks : b.dir = dir /\ b.s = s /\ q[i].m = b.m /\ q[i].at = <<b.start, 0, 0>>
  <2>1. q[i] \in Kept(d) /\ q[i].op = dir /\ q[i].s = s
    BY <1>1 DEF Sorted, Does
  <2> QED BY <2>1, RunLineOf
<1>2. ASSUME NEW i \in 1..Len(q), NEW j \in 1..Len(q), Does(q, i, "f", s), Does(q, j, "b", s)
      PROVE  \E b, c \in blocks : /\ b.dir = "f" /\ b.s = s /\ q[i].m = b.m
                                  /\ c.dir = "b" /\ c.s = s /\ q[j].m = c.m
                                  /\ b.start < c.start => i < j
                                  /\ i < j => b.start < c.start
  <2>1. PICK b \in blocks : b.dir = "f" /\ b.s = s /\ q[i].m = b.m /\ q[i].at = <<b.start, 0, 0>>
    BY <1>1, <1>2
  <2>2. PICK c \in blocks : c.dir = "b" /\ c.s = s /\ q[j].m = c.m /\ q[j].at = <<c.start, 0, 0>>
    BY <1>1, <1>2
  <2>3. (b.start < c.start => i < j) /\ (i < j => b.start < c.start)
    BY <2>1, <2>2, StartsBefore
  <2> QED BY <2>1, <2>2, <2>3
<1>3. BackAfter(q, s)
  <2> SUFFICES ASSUME NEW i \in 1..Len(q), NEW j \in 1..Len(q), Does(q, i, "f", s), Does(q, j, "b", s), q[i].m = q[j].m
               PROVE  i < j
    BY DEF BackAfter
  <2>1. PICK b \in blocks, c \in blocks : /\ b.dir = "f" /\ b.s = s /\ q[i].m = b.m
                                          /\ c.dir = "b" /\ c.s = s /\ q[j].m = c.m
                                          /\ b.start < c.start => i < j
    BY <1>2
  <2>2. Dependent(b, c)
    BY <2>1 DEF Dependent
  <2>3. b.start < c.start
    BY <2>2 DEF Valid
  <2> QED BY <2>1, <2>3
<1>4. ASSUME blocks = OneFOneB(plan.S, plan.M) PROVE Narrow(q, s, plan.S - s)
  <2> SUFFICES ASSUME NEW i \in 1..Len(q), NEW j \in 1..Len(q), Does(q, i, "f", s), Does(q, j, "b", s), i < j
               PROVE  q[i].m < q[j].m + (plan.S - s)
    BY DEF Narrow
  <2>1. PICK b \in blocks, c \in blocks : /\ b.dir = "f" /\ b.s = s /\ q[i].m = b.m
                                          /\ c.dir = "b" /\ c.s = s /\ q[j].m = c.m
                                          /\ b.start < c.start
    BY <1>2
  <2>2. plan.S \in Nat \ {0} /\ plan.M \in Nat \ {0} /\ s \in Int
    BY PlanTypes DEF Written
  <2>3. OneFOneBBlock(plan.S, plan.M, b) /\ OneFOneBBlock(plan.S, plan.M, c)
    BY <1>4, <2>2, OneFOneBBlocks
  <2>4. b.start = b.s + 2 * b.m
    <3>1. PICK t \in 0..(plan.S - 1), m \in 0..(plan.M - 1) : \/ b = Block("f", t, m, t + 2 * m, 1)
                                                             \/ b = Block("b", t, m, 2 * m + 2 * plan.S - 1 - t, 1)
      BY <2>3, Zenon DEF OneFOneBBlock
    <3>2. b = Block("f", t, m, t + 2 * m, 1)
      <4>1. PICK e : e = Block("b", t, m, 2 * m + 2 * plan.S - 1 - t, 1)
        OBVIOUS
      <4>2. e.dir = "b"
        BY <4>1 DEF Block
      <4> QED BY <2>1, <3>1, <4>1, <4>2
    <3> QED BY <3>2 DEF Block
  <2>5. c.start = 2 * c.m + 2 * plan.S - 1 - c.s
    <3>1. PICK t \in 0..(plan.S - 1), m \in 0..(plan.M - 1) : \/ c = Block("f", t, m, t + 2 * m, 1)
                                                             \/ c = Block("b", t, m, 2 * m + 2 * plan.S - 1 - t, 1)
      BY <2>3, Zenon DEF OneFOneBBlock
    <3>2. c = Block("b", t, m, 2 * m + 2 * plan.S - 1 - t, 1)
      <4>1. PICK e : e = Block("f", t, m, t + 2 * m, 1)
        OBVIOUS
      <4>2. e.dir = "f"
        BY <4>1 DEF Block
      <4> QED BY <2>1, <3>1, <4>1, <4>2
    <3>3. PICK e : e = 2 * m + 2 * plan.S - 1 - t
      OBVIOUS
    <3>4. c = Block("b", t, m, e, 1)
      BY <3>2, <3>3, Zenon
    <3>5. c.start = e /\ c.m = m /\ c.s = t
      BY <3>4 DEF Block
    <3> QED BY <3>3, <3>5, Zenon
  <2>6. b.m \in Int /\ c.m \in Int
    BY <2>2, BlockTypes
  <2>7. s + 2 * b.m < 2 * c.m + 2 * plan.S - 1 - s
    BY <2>1, <2>4, <2>5
  <2>8. b.m < c.m + (plan.S - s)
    <3>1. PICK x \in Int, y \in Int, n \in Int, t \in Int : x = b.m /\ y = c.m /\ n = plan.S /\ t = s
      BY <2>2, <2>6
    <3>2. t + 2 * x < 2 * y + 2 * n - 1 - t
      BY <2>7, <3>1, Zenon
    <3>3. x < y + (n - t)
      BY <3>2
    <3> QED BY <3>1, <3>3, Zenon
  <2> QED BY <2>1, <2>8
<1> QED BY <1>3, <1>4

\* A device that reads samples loads them in order.
LEMMA LoadsInTurn ==
    ASSUME Written, NEW d \in Device, NEW q, Sorted(q, Kept(d)), Reading(d)
    PROVE  InTurn(q, plan.M, "load", 0)
<1>0. PICK s : <<d, s>> \in plan.loads /\ s \in 0..LastStage
  <2>1. PICK x \in plan.loads : x[1] = d
    BY DEF Reading
  <2>2. x \in Device \X (0..(plan.S - 1))
    BY PlanTypes DEF Written
  <2>3. x = <<d, x[2]>> /\ x[2] \in 0..(plan.S - 1)
    BY <2>1, <2>2
  <2> QED BY <2>1, <2>3 DEF LastStage
<1>1. ASSUME NEW i \in 1..Len(q), Does(q, i, "load", 0)
      PROVE  \E m \in 0..(plan.M - 1) : q[i].m = m /\ q[i].at = <<LoaderStep(d, m), -1, -m>>
  <2>1. PICK l : l = q[i] /\ l \in Kept(d) /\ l.op = "load"
    BY <1>1 DEF Sorted, Does
  <2>2. LineOf(d, l)
    BY <2>1, PlanSorted
  <2>3. ASSUME NEW b \in blocks PROVE ~IsRun(d, l, b) /\ ~IsSend(l, b) /\ ~IsBack(l, b)
    BY <2>1, Keys, BlockTypes
  <2>4. \A m : ~IsOut(l, m)
    BY <2>1, Keys
  <2>5. PICK m \in 0..(plan.M - 1) : IsLoad(d, l, m)
    BY <2>2, <2>3, <2>4 DEF LineOf
  <2>6. l.at = <<LoaderStep(d, m), -1, -m>> /\ l.m = m
    BY <2>5, Keys
  <2> QED BY <2>1, <2>6
<1>2. ASSUME NEW i \in 1..Len(q), NEW j \in 1..Len(q), Does(q, i, "load", 0), Does(q, j, "load", 0)
      PROVE  /\ q[i].m < q[j].m => i < j
             /\ q[i].m = q[j].m => i = j
  <2>1. PICK m \in 0..(plan.M - 1) : q[i].m = m /\ q[i].at = <<LoaderStep(d, m), -1, -m>>
    BY <1>1, <1>2
  <2>2. PICK n \in 0..(plan.M - 1) : q[j].m = n /\ q[j].at = <<LoaderStep(d, n), -1, -n>>
    BY <1>1, <1>2
  <2>3. \A l \in Kept(d) : Key(l.at)
    BY PlanSorted
  <2>4. ASSUME m < n PROVE i < j
    <3>1. LoaderStep(d, m) < LoaderStep(d, n)
      BY <1>0, <2>4, LoadersInOrder
    <3>2. PICK x, y : x = q[i].at /\ y = q[j].at
      OBVIOUS
    <3>3. x[1] < y[1]
      BY <2>1, <2>2, <3>1, <3>2
    <3>4. Key(x) /\ Key(y)
      <4>1. q[i] \in Kept(d) /\ q[j] \in Kept(d)
        BY DEF Sorted
      <4> QED BY <2>3, <3>2, <4>1
    <3>5. Earlier(x, y)
      BY <3>3, <3>4, KeyOrder
    <3> QED BY <2>3, <3>2, <3>5, Indices
  <2>5. ASSUME m = n PROVE i = j
    <3>1. q[i].at = q[j].at
      BY <2>1, <2>2, <2>5, Zenon
    <3> QED BY <2>3, <3>1, Indices
  <2> QED BY <2>1, <2>2, <2>4, <2>5
<1>3. ASSUME NEW m \in 0..(plan.M - 1)
      PROVE  \E i \in 1..Len(q) : Does(q, i, "load", 0) /\ q[i].m = m
  <2>1. PICK l : l = Line("load", 0, m, LoaderKey(d, m))
    OBVIOUS
  <2>2. l.op = "load" /\ l.s = 0 /\ l.m = m
    BY <2>1 DEF Line
  <2>3. d \in Loading
    BY <1>0 DEF Loading
  <2>4. l \in AllLines(d)
    BY <2>1, <2>3 DEF AllLines
  <2>5. l \in Kept(d)
    BY <2>2, <2>4 DEF Kept
  <2>6. PICK i \in 1..Len(q) : q[i] = l
    BY <2>5 DEF Sorted
  <2> QED BY <2>2, <2>6 DEF Does
<1>4. \A i \in 1..Len(q) : Does(q, i, "load", 0) => q[i].m \in 0..(plan.M - 1)
  BY <1>1
<1> QED BY <1>2, <1>3, <1>4 DEF InTurn

\* The programs of an accepted plan take each stage in turn and back in time.
LEMMA ProgramsFit ==
    ASSUME Written, Valid, plan.kind = "infer_pipe" => mode = "infer",
           plan.kind = "1f1b" => blocks = OneFOneB(plan.S, plan.M),
           NEW d \in Device, NEW q, Sorted(q, Kept(d))
    PROVE  Fits(q, d)
<1>1. Len(q) \in Nat
  BY DEF Sorted
<1>2. ASSUME NEW i \in 1..Len(q)
      PROVE  /\ q[i].op \in {"f", "b"} => q[i].s \in 0..LastStage /\ d \in plan.on[q[i].s]
             /\ q[i].op = "b" => mode # "infer"
             /\ q[i].op = "load" => q[i].s = 0
  <2>1. PICK l : l = q[i] /\ l \in Kept(d)
    BY DEF Sorted
  <2>2. ASSUME l.op \in {"f", "b"} PROVE l.s \in 0..LastStage /\ d \in plan.on[l.s]
    <3>1. PICK b \in blocks : d \in plan.on[b.s] /\ l.s = b.s
      BY <2>1, <2>2, RunLineOf
    <3> QED BY <3>1, BlockTypes
  <2>3. l.op = "b" => mode # "infer"
    BY <2>1 DEF Kept
  <2>4. ASSUME l.op = "load" PROVE l.s = 0
    <3>1. LineOf(d, l)
      BY <2>1, PlanSorted
    <3>2. ASSUME NEW b \in blocks PROVE ~IsRun(d, l, b) /\ ~IsSend(l, b) /\ ~IsBack(l, b)
      BY <2>4, Keys, BlockTypes
    <3>3. \A m : ~IsOut(l, m)
      BY <2>4, Keys
    <3>4. PICK m \in 0..(plan.M - 1) : IsLoad(d, l, m)
      BY <3>1, <3>2, <3>3 DEF LineOf
    <3> QED BY <3>4, Keys
  <2> QED BY <2>1, <2>2, <2>3, <2>4
<1>3. ASSUME NEW s \in 0..LastStage, mode # "infer", d \in plan.on[s]
      PROVE  Turns(q, plan.M, s) /\ (plan.kind = "1f1b" => Narrow(q, s, plan.S - s))
  <2>1. "f" \in Dirs /\ "b" \in Dirs
    BY <1>3 DEF Dirs
  <2>2. InTurn(q, plan.M, "f", s) /\ InTurn(q, plan.M, "b", s)
    BY <1>3, <2>1, StageInTurn
  <2>3. BackAfter(q, s) /\ (blocks = OneFOneB(plan.S, plan.M) => Narrow(q, s, plan.S - s))
    BY BackFits
  <2> QED BY <2>2, <2>3 DEF Turns
<1>4. Reading(d) => InTurn(q, plan.M, "load", 0)
  BY LoadsInTurn
<1>5. OpsFit(q, d)
  BY <1>2, Zenon DEF OpsFit
<1>6. TurnsFit(q, d)
  BY <1>3, Zenon DEF TurnsFit
<1> QED BY <1>1, <1>4, <1>5, <1>6, Zenon DEF Fits

(***************************************************************************)
(* While the programs run.                                                 *)
(***************************************************************************)
\* What device d holds for stage s when it is at line i: w.
StageHolds(d, s, i, w) == IF mode # "infer" /\ d \in plan.on[s] THEN Held(prog[d], plan.M, s, i, w) ELSE w = <<>>

\* The lines, the stages and the samples of the devices; a job that is down is not at its end.
LinesIn == line \in [Device -> Nat \ {0}] /\ \A d \in Device : line[d] \in 1..(Len(prog[d]) + 1)
AllFit == \A d \in Device : Fits(prog[d], d)
Detached == /\ detach \in [Device -> [0..LastStage -> Seq(Int)]]
            /\ ~lost => \A d \in Device, s \in 0..LastStage : StageHolds(d, s, line[d], detach[d][s])
Sampled == /\ DOMAIN sample = Device
           /\ \A d \in Device : Reading(d) => Drawn(prog[d], plan.M, line[d], sample[d])
Down == lost => \E d \in Device : line[d] \in 1..Len(prog[d])
RunInv == LinesIn /\ AllFit /\ Detached /\ Sampled /\ Down
OwnPopped == \A p \in popped : p[3] = p[4]

\* A line about another stage leaves what a stage holds.
LEMMA KeepOther ==
    ASSUME plan \in Plan, NEW d \in Device, Fits(prog[d], d), NEW s \in 0..LastStage, NEW i \in 1..Len(prog[d]),
           NEW w, StageHolds(d, s, i, w), ~Does(prog[d], i, "f", s), ~Does(prog[d], i, "b", s)
    PROVE  StageHolds(d, s, i + 1, w)
<1>0. plan.M \in Nat
  BY PlanTypes
<1>1. PICK q, M : q = prog[d] /\ M = plan.M /\ M \in Nat
  BY <1>0, Zenon
<1>2. Len(q) \in Nat
  BY <1>1 DEF Fits
<1>3. CASE mode # "infer" /\ d \in plan.on[s]
  <2>1. Held(q, M, s, i, w)
    BY <1>1, <1>3 DEF StageHolds
  <2>2. Held(q, M, s, i + 1, w)
    BY <1>1, <1>2, <2>1, HeldOther
  <2> QED BY <1>1, <1>3, <2>2 DEF StageHolds
<1>4. CASE ~(mode # "infer" /\ d \in plan.on[s])
  BY <1>4 DEF StageHolds
<1> QED BY <1>3, <1>4

\* Forward holds its microbatch until the backward, within the 1F1B bound.
LEMMA KeepForward ==
    ASSUME plan \in Plan, NEW d \in Device, Fits(prog[d], d), NEW s, NEW i \in 1..Len(prog[d]),
           NEW w, s \in 0..LastStage => StageHolds(d, s, i, w), Does(prog[d], i, "f", s)
    PROVE  /\ s \in 0..LastStage /\ d \in plan.on[s]
           /\ mode = "infer" => StageHolds(d, s, i + 1, w)
           /\ mode # "infer" => /\ StageHolds(d, s, i + 1, Append(w, prog[d][i].m)) /\ prog[d][i].m \in Int
                                /\ plan.kind = "1f1b" => Len(Append(w, prog[d][i].m)) <= plan.S - s
<1>0. plan.M \in Nat
  BY PlanTypes
<1>1. PICK q, M : q = prog[d] /\ M = plan.M /\ M \in Nat
  BY <1>0, Zenon
<1>2. Len(q) \in Nat
  BY <1>1 DEF Fits
<1>3. s \in 0..LastStage /\ d \in plan.on[s]
  <2>1. q[i].op = "f" /\ q[i].s = s
    BY <1>1 DEF Does
  <2> QED BY <1>1, <2>1 DEF Fits, OpsFit
<1>4. mode = "infer" => StageHolds(d, s, i + 1, w)
  BY <1>3 DEF StageHolds
<1>5. ASSUME mode # "infer"
      PROVE  /\ StageHolds(d, s, i + 1, Append(w, q[i].m)) /\ q[i].m \in Int
             /\ plan.kind = "1f1b" => Len(Append(w, q[i].m)) <= plan.S - s
  <2>1. Held(q, M, s, i, w)
    BY <1>1, <1>3, <1>5 DEF StageHolds
  <2>2. Turns(q, M, s) /\ (plan.kind = "1f1b" => Narrow(q, s, plan.S - s))
    BY <1>1, <1>3, <1>5 DEF Fits, TurnsFit
  <2>3. /\ Held(q, M, s, i + 1, Append(w, q[i].m)) /\ q[i].m \in Int
        /\ \A n \in Nat \ {0} : Narrow(q, s, n) => Len(Append(w, q[i].m)) <= n
    BY <1>1, <1>2, <2>1, <2>2, HeldForward
  <2>4. plan.S - s \in Nat \ {0}
    BY <1>3, PlanTypes
  <2>5. plan.kind = "1f1b" => Len(Append(w, q[i].m)) <= plan.S - s
    BY <2>2, <2>3, <2>4
  <2> QED BY <1>1, <1>3, <1>5, <2>3, <2>5 DEF StageHolds
<1> QED BY <1>1, <1>3, <1>4, <1>5

\* Backward lets go of its own microbatch.
LEMMA KeepBackward ==
    ASSUME plan \in Plan, NEW d \in Device, Fits(prog[d], d), NEW s, NEW i \in 1..Len(prog[d]),
           NEW w, s \in 0..LastStage => StageHolds(d, s, i, w), Does(prog[d], i, "b", s)
    PROVE  /\ s \in 0..LastStage /\ d \in plan.on[s]
           /\ StageHolds(d, s, i + 1, Tail(w)) /\ Head(w) = prog[d][i].m /\ Tail(w) \in Seq(Int)
           /\ Len(Tail(w)) \in Int /\ Len(w) \in Int /\ Len(Tail(w)) <= Len(w)
<1>0. plan.M \in Nat
  BY PlanTypes
<1>1. PICK q, M : q = prog[d] /\ M = plan.M /\ M \in Nat
  BY <1>0, Zenon
<1>2. Len(q) \in Nat
  BY <1>1 DEF Fits
<1>3. s \in 0..LastStage /\ d \in plan.on[s] /\ mode # "infer"
  <2>1. q[i].op = "b" /\ q[i].s = s
    BY <1>1 DEF Does
  <2> QED BY <1>1, <2>1 DEF Fits, OpsFit
<1>4. Held(q, M, s, i, w)
  BY <1>1, <1>3 DEF StageHolds
<1>5. Turns(q, M, s)
  BY <1>1, <1>3 DEF Fits, TurnsFit
<1>6. /\ Held(q, M, s, i + 1, Tail(w)) /\ Head(w) = q[i].m
      /\ Len(Tail(w)) \in Int /\ Len(w) \in Int /\ Len(Tail(w)) <= Len(w)
  BY <1>1, <1>2, <1>4, <1>5, HeldBackward
<1>7. Tail(w) \in Seq(Int)
  <2>1. PICK v, j : v = Tail(w) /\ j = i + 1
    OBVIOUS
  <2>2. Held(q, M, s, j, v) /\ M \in Nat
    BY <1>1, <1>6, <2>1
  <2>3. v \in Seq(Int)
    BY <2>2, HeldType
  <2> QED BY <2>1, <2>3
<1>8. StageHolds(d, s, i + 1, Tail(w))
  BY <1>1, <1>3, <1>6 DEF StageHolds
<1> QED BY <1>1, <1>3, <1>6, <1>7, <1>8, Zenon

\* What Execute does to the lines.
Moved(ds, ok) ==
  /\ line' \in [Device -> Nat \ {0}]
  /\ \A e \in Device : line'[e] = IF e \in ds /\ ok THEN line[e] + 1 ELSE line[e]
  /\ ok \in BOOLEAN /\ lost' = ~ok
  /\ UNCHANGED <<plan, mode, phase, blocks, prog>>

\* Execute moves all its devices or none.
LEMMA Moving ==
    ASSUME LinesIn, NEW ds, NEW l, Execute(ds, l)
    PROVE  \E ok : Moved(ds, ok) /\ (ok <=> \A d \in ds : Ready(d, l))
<1>1. PICK ok \in BOOLEAN : ok <=> \A d \in ds : Ready(d, l)
  OBVIOUS
<1>2. /\ line' = [d \in Device |-> IF d \in ds /\ ok THEN line[d] + 1 ELSE line[d]]
      /\ lost' = ~ok /\ UNCHANGED <<plan, mode, phase, blocks, prog>>
  <2>1. PICK v \in BOOLEAN : v = (\A d \in ds : Ready(d, l))
    OBVIOUS
  <2>2. v = ok
    BY <1>1, <2>1
  <2>3. /\ line' = [d \in Device |-> IF d \in ds /\ v THEN line[d] + 1 ELSE line[d]]
        /\ lost' = ~v /\ UNCHANGED <<plan, mode, phase, blocks, prog>>
    BY <2>1, Zenon DEF Execute
  <2> QED BY <2>2, <2>3
<1>3. \A e \in Device : line'[e] = IF e \in ds /\ ok THEN line[e] + 1 ELSE line[e]
  BY <1>2
<1>4. \A e \in Device : line'[e] \in Nat \ {0}
  BY <1>3 DEF LinesIn
<1>5. line' = [d \in Device |-> line'[d]]
  BY <1>2
<1>6. line' \in [Device -> Nat \ {0}]
  BY <1>4, <1>5
<1>7. Moved(ds, ok)
  BY <1>2, <1>3, <1>6 DEF Moved
<1> QED BY <1>1, <1>7

\* No device goes beyond the end of its program.
LEMMA MovedLines ==
    ASSUME plan \in Plan, RunInv, NEW ds, NEW ok, Moved(ds, ok), NEW d \in Device, line[d] <= Len(prog[d]),
           \A e \in Device : e \in ds => line[e] <= Len(prog[e])
    PROVE  LinesIn' /\ AllFit' /\ Down'
<1>1. \A e \in Device : Len(prog[e]) \in Nat /\ line[e] \in Nat \ {0}
  BY DEF RunInv, AllFit, LinesIn, Fits
<1>2. LinesIn'
  <2>1. ASSUME NEW e \in Device PROVE line'[e] \in 1..(Len(prog[e]) + 1)
    <3>1. line[e] \in 1..(Len(prog[e]) + 1) /\ Len(prog[e]) \in Nat
      BY <1>1 DEF RunInv, LinesIn
    <3>2. CASE e \in ds /\ ok
      BY <3>1, <3>2 DEF Moved
    <3>3. CASE ~(e \in ds /\ ok)
      BY <3>1, <3>3 DEF Moved
    <3> QED BY <3>2, <3>3
  <2> QED BY <2>1 DEF LinesIn, Moved
<1>3. AllFit'
  <2>1. ASSUME NEW e \in Device PROVE Fits(prog[e], e)'
    <3>1. Fits(prog[e], e)
      BY DEF RunInv, AllFit
    <3> QED BY <3>1 DEF Fits, OpsFit, TurnsFit, Reading, LastStage, Moved
  <2> QED BY <2>1 DEF AllFit
<1>4. Down'
  <2> SUFFICES ASSUME lost' PROVE line'[d] \in 1..Len(prog'[d])
    BY DEF Down
  <2>1. line'[d] = line[d] /\ prog' = prog
    BY DEF Moved
  <2> QED BY <1>1, <2>1
<1> QED BY <1>2, <1>3, <1>4

\* A line that loads nothing draws nothing.
LEMMA MovedSamples ==
    ASSUME plan \in Plan, RunInv, NEW ds, NEW ok, Moved(ds, ok), sample' = sample,
           \A e \in Device : e \in ds => line[e] <= Len(prog[e]) /\ Now(e).op # "load"
    PROVE  Sampled'
<1>1. ASSUME NEW e \in Device, Reading(e) PROVE Drawn(prog[e], plan.M, line'[e], sample[e])
  <2>0. plan.M \in Nat
    BY PlanTypes
  <2>1. PICK q, i, w, M : q = prog[e] /\ i = line[e] /\ w = sample[e] /\ M = plan.M /\ M \in Nat
    BY <2>0, Zenon
  <2>2. Drawn(q, M, i, w) /\ InTurn(q, M, "load", 0) /\ Len(q) \in Nat
    BY <1>1, <2>1 DEF RunInv, Sampled, AllFit, Fits
  <2>3. CASE e \in ds /\ ok
    <3>1. i \in 1..Len(q)
      BY <2>1, <2>2, <2>3 DEF RunInv, LinesIn
    <3>2. ~Does(q, i, "load", 0)
      BY <2>1, <2>3 DEF Does, Now
    <3>3. Drawn(q, M, i + 1, w)
      <4>1. \A j \in 1..Len(q) : \A v : Drawn(q, M, j, v) => (~Does(q, j, "load", 0) => Drawn(q, M, j + 1, v))
        BY <2>1, <2>2, DrawnSteps
      <4> QED BY <2>2, <3>1, <3>2, <4>1, Zenon
    <3>4. line'[e] = i + 1
      BY <2>1, <2>3 DEF Moved
    <3> QED BY <2>1, <3>3, <3>4
  <2>4. CASE ~(e \in ds /\ ok)
    <3>1. line'[e] = i
      BY <2>1, <2>4 DEF Moved
    <3> QED BY <2>1, <2>2, <3>1
  <2> QED BY <2>3, <2>4
<1>2. plan' = plan /\ prog' = prog
  BY DEF Moved
<1>3. \A e \in Device : Reading(e)' = Reading(e)
  BY <1>2 DEF Reading
<1>4. \A e \in Device : Reading(e)' => Drawn(prog'[e], plan'.M, line'[e], sample'[e])
  BY <1>1, <1>2, <1>3, Zenon
<1>5. DOMAIN sample' = Device
  BY DEF RunInv, Sampled
<1> QED BY <1>4, <1>5 DEF Sampled

\* The stages a line is not about hold what they held.
LEMMA MovedOther ==
    ASSUME plan \in Plan, RunInv, ~lost, NEW ds, NEW ok, Moved(ds, ok), NEW e \in Device, NEW s \in 0..LastStage,
           e \in ds => /\ line[e] <= Len(prog[e])
                       /\ ~Does(prog[e], line[e], "f", s) /\ ~Does(prog[e], line[e], "b", s)
    PROVE  StageHolds(e, s, line'[e], detach[e][s])
<1>1. PICK q, i, w : q = prog[e] /\ i = line[e] /\ w = detach[e][s]
  OBVIOUS
<1>2. StageHolds(e, s, i, w) /\ Len(q) \in Nat /\ Fits(prog[e], e)
  BY <1>1 DEF RunInv, Detached, AllFit, Fits
<1>3. CASE e \in ds /\ ok
  <2>1. i \in 1..Len(q)
    BY <1>1, <1>2, <1>3 DEF RunInv, LinesIn
  <2>2. StageHolds(e, s, i + 1, w)
    BY <1>1, <1>2, <1>3, <2>1, KeepOther
  <2>3. line'[e] = i + 1
    BY <1>1, <1>3 DEF Moved
  <2> QED BY <1>1, <2>2, <2>3
<1>4. CASE ~(e \in ds /\ ok)
  <2>1. line'[e] = i
    BY <1>1, <1>4 DEF Moved
  <2> QED BY <1>1, <1>2, <2>1
<1> QED BY <1>3, <1>4

\* The stages hold what they should after a step, if they do stage by stage.
LEMMA HoldsNext ==
    ASSUME NEW ds, NEW ok, Moved(ds, ok),
           detach' \in [Device -> [0..LastStage -> Seq(Int)]],
           ok => \A e \in Device, s \in 0..LastStage : StageHolds(e, s, line'[e], detach'[e][s])
    PROVE  Detached'
<1>1. LastStage' = LastStage /\ lost' = ~ok /\ ok \in BOOLEAN
  BY DEF Moved, LastStage
<1>2. \A e \in Device, s \in 0..LastStage : StageHolds(e, s, line[e], detach[e][s])' <=> StageHolds(e, s, line'[e], detach'[e][s])
  BY DEF StageHolds, Moved
<1>3. ~lost' => ok
  BY <1>1
<1> QED BY <1>1, <1>2, <1>3 DEF Detached

\* A step that detaches nothing keeps the bound.
LEMMA BoundSame ==
    ASSUME ActivationBound, detach' = detach, plan' = plan
    PROVE  ActivationBound'
BY DEF ActivationBound, LastStage

\* Load draws the next microbatch of its device.
LEMMA LoadStep ==
    ASSUME plan \in Plan, RunInv, OwnPopped, ActivationBound, NEW d \in Device, Load(d)
    PROVE  RunInv' /\ OwnPopped' /\ ActivationBound'
<1>1. PICK q, i, M, l : q = prog[d] /\ i = line[d] /\ M = plan.M /\ l = Now(d)
  OBVIOUS
<1>2. /\ line[d] <= Len(prog[d]) /\ ~lost /\ l.op = "load" /\ Execute({d}, l)
      /\ sample' = [sample EXCEPT ![d] = Append(@, l.m)] /\ detach' = detach /\ popped' = popped
  BY <1>1 DEF Load, Running
<1>3. \A e \in {d} : Ready(e, l)
  <2>1. Reads(d, l) = {}
    BY <1>2 DEF Reads
  <2> QED BY <2>1 DEF Ready
<1>4. Moved({d}, TRUE)
  <2>1. PICK ok : Moved({d}, ok) /\ (ok <=> \A e \in {d} : Ready(e, l))
    BY <1>2, Moving DEF RunInv
  <2>2. ok \in BOOLEAN /\ ok
    BY <1>3, <2>1 DEF Moved
  <2>3. ok = TRUE
    BY <2>2
  <2> QED BY <2>1, <2>3
<1>5. \A e \in Device : e \in {d} => line[e] <= Len(prog[e])
  BY <1>2
<1>6. LinesIn' /\ AllFit' /\ Down'
  BY <1>2, <1>4, <1>5, MovedLines
<1>7. Detached'
  <2>1. ASSUME NEW e \in Device, NEW s \in 0..LastStage PROVE StageHolds(e, s, line'[e], detach'[e][s])
    <3>1. e \in {d} => /\ line[e] <= Len(prog[e])
                       /\ ~Does(prog[e], line[e], "f", s) /\ ~Does(prog[e], line[e], "b", s)
      BY <1>1, <1>2 DEF Does, Now
    <3>2. StageHolds(e, s, line'[e], detach[e][s])
      BY <1>2, <1>4, <3>1, MovedOther
    <3> QED BY <1>2, <3>2
  <2>2. detach' \in [Device -> [0..LastStage -> Seq(Int)]]
    BY <1>2 DEF RunInv, Detached
  <2> QED BY <1>4, <2>1, <2>2, HoldsNext
<1>8. Sampled'
  <2>1. i \in 1..Len(q) /\ Len(q) \in Nat /\ Does(q, i, "load", 0)
    <3>1. Len(q) \in Nat /\ i \in 1..(Len(q) + 1) /\ OpsFit(q, d)
      BY <1>1 DEF RunInv, LinesIn, AllFit, Fits
    <3>2. i \in 1..Len(q)
      BY <1>1, <1>2, <3>1
    <3>3. q[i].op = "load"
      BY <1>1, <1>2 DEF Now
    <3> QED BY <3>1, <3>2, <3>3 DEF OpsFit, Does
  <2>2. line'[d] = i + 1
    BY <1>1, <1>4 DEF Moved
  <2>3. DOMAIN sample' = Device /\ sample'[d] = Append(sample[d], q[i].m) /\ \A e \in Device : e # d => sample'[e] = sample[e]
    BY <1>1, <1>2 DEF RunInv, Sampled, Now
  <2>4. ASSUME NEW e \in Device, Reading(e) PROVE Drawn(prog[e], plan.M, line'[e], sample'[e])
    <3>1. CASE e = d
      <4>1. M \in Nat
        BY <1>1, PlanTypes
      <4>2. PICK w : w = sample[d]
        OBVIOUS
      <4>3. Drawn(q, M, i, w) /\ InTurn(q, M, "load", 0)
        BY <1>1, <2>4, <3>1, <4>2 DEF RunInv, Sampled, AllFit, Fits
      <4>4. \A j \in 1..Len(q) : \A v : Drawn(q, M, j, v) => (Does(q, j, "load", 0) => Drawn(q, M, j + 1, Append(v, q[j].m)))
        BY <2>1, <4>1, <4>3, DrawnSteps
      <4>5. Drawn(q, M, i + 1, Append(w, q[i].m))
        BY <2>1, <4>3, <4>4, Zenon
      <4> QED BY <1>1, <2>2, <2>3, <3>1, <4>2, <4>5
    <3>2. CASE e # d
      <4>1. line'[e] = line[e]
        BY <1>4, <3>2 DEF Moved
      <4> QED BY <2>3, <2>4, <3>2, <4>1 DEF RunInv, Sampled
    <3> QED BY <3>1, <3>2
  <2>5. plan' = plan /\ prog' = prog
    BY <1>4 DEF Moved
  <2>6. \A e \in Device : Reading(e)' = Reading(e)
    BY <2>5 DEF Reading
  <2>7. \A e \in Device : Reading(e)' => Drawn(prog'[e], plan'.M, line'[e], sample'[e])
    BY <2>4, <2>5, <2>6, Zenon
  <2> QED BY <2>3, <2>7 DEF Sampled
<1>9. ActivationBound'
  BY <1>2, <1>4, BoundSame DEF Moved
<1> QED BY <1>2, <1>6, <1>7, <1>8, <1>9 DEF RunInv, OwnPopped

\* Forward detaches the next microbatch of its stage.
LEMMA ForwardStep ==
    ASSUME plan \in Plan, mode \in {"train", "infer"}, RunInv, OwnPopped, ActivationBound, NEW d \in Device, Forward(d)
    PROVE  RunInv' /\ OwnPopped' /\ ActivationBound'
<1>1. PICK q, i, l, s, w : q = prog[d] /\ i = line[d] /\ l = Now(d) /\ s = l.s /\ w = detach[d][s]
  OBVIOUS
<1>2. /\ i <= Len(q) /\ ~lost /\ l.op = "f" /\ Execute({d}, l)
      /\ detach' = IF mode = "train" /\ Ready(d, l) THEN [detach EXCEPT ![d][s] = Append(@, l.m)] ELSE detach
      /\ popped' = popped /\ sample' = sample
  BY <1>1 DEF Forward, Running
<1>3. PICK ok : Moved({d}, ok) /\ (ok <=> Ready(d, l))
  <2>1. PICK ok : Moved({d}, ok) /\ (ok <=> \A e \in {d} : Ready(e, l))
    BY <1>2, Moving DEF RunInv
  <2> QED BY <2>1
<1>4. \A e \in Device : e \in {d} => line[e] <= Len(prog[e]) /\ Now(e).op # "load"
  BY <1>1, <1>2
<1>5. LinesIn' /\ AllFit' /\ Down'
  BY <1>1, <1>2, <1>3, <1>4, MovedLines
<1>6. Sampled'
  BY <1>2, <1>3, <1>4, MovedSamples
<1>7. Fits(prog[d], d) /\ i \in 1..Len(q) /\ Does(q, i, "f", s) /\ q[i] = l
  <2>1. Fits(prog[d], d)
    BY DEF RunInv, AllFit
  <2>2. i \in 1..Len(q)
    BY <1>1, <1>2, <2>1 DEF RunInv, LinesIn, Fits
  <2>3. q[i] = l
    BY <1>1 DEF Now
  <2>4. Does(q, i, "f", s)
    BY <1>1, <1>2, <2>3 DEF Does
  <2> QED BY <2>1, <2>2, <2>3, <2>4
<1>8. /\ s \in 0..LastStage /\ d \in plan.on[s]
      /\ mode = "infer" => StageHolds(d, s, i + 1, w)
      /\ mode # "infer" => /\ StageHolds(d, s, i + 1, Append(w, l.m)) /\ l.m \in Int
                           /\ plan.kind = "1f1b" => Len(Append(w, l.m)) <= plan.S - s
  <2>1. s \in 0..LastStage => StageHolds(d, s, i, w)
    BY <1>1, <1>2 DEF RunInv, Detached
  <2> QED BY <1>1, <1>7, <2>1, KeepForward
<1>9. detach \in [Device -> [0..LastStage -> Seq(Int)]]
  BY DEF RunInv, Detached
<1>10. w \in Seq(Int)
  BY <1>1, <1>8, <1>9
<1>11. CASE mode = "train" /\ Ready(d, l)
  <2>1. PICK v : v = Append(w, l.m)
    OBVIOUS
  <2>2. detach' = [detach EXCEPT ![d][s] = v]
    BY <1>1, <1>2, <1>11, <2>1
  <2>3. v \in Seq(Int) /\ StageHolds(d, s, i + 1, v) /\ (plan.kind = "1f1b" => Len(v) <= plan.S - s)
    BY <1>8, <1>10, <1>11, <2>1
  <2>4. detach' \in [Device -> [0..LastStage -> Seq(Int)]]
    BY <1>8, <1>9, <2>2, <2>3
  <2>5. /\ detach'[d][s] = v
        /\ \A e \in Device, t \in 0..LastStage : e # d \/ t # s => detach'[e][t] = detach[e][t]
    BY <1>8, <1>9, <2>2
  <2>6. ASSUME ok, NEW e \in Device, NEW t \in 0..LastStage PROVE StageHolds(e, t, line'[e], detach'[e][t])
    <3>1. CASE e = d /\ t = s
      <4>1. line'[d] = i + 1
        BY <1>1, <1>3, <2>6 DEF Moved
      <4> QED BY <2>3, <2>5, <3>1, <4>1
    <3>2. CASE e # d \/ t # s
      <4>1. e \in {d} => /\ line[e] <= Len(prog[e])
                         /\ ~Does(prog[e], line[e], "f", t) /\ ~Does(prog[e], line[e], "b", t)
        BY <1>1, <1>2, <1>7, <3>2 DEF Does
      <4>2. StageHolds(e, t, line'[e], detach[e][t])
        BY <1>2, <1>3, <4>1, MovedOther
      <4> QED BY <2>5, <3>2, <4>2
    <3> QED BY <3>1, <3>2
  <2>7. Detached'
    BY <1>3, <2>4, <2>6, HoldsNext
  <2>8. ActivationBound'
    <3>1. plan' = plan /\ LastStage' = LastStage
      BY <1>3 DEF Moved, LastStage
    <3>2. ASSUME plan.kind = "1f1b", NEW e \in Device, NEW t \in 0..LastStage PROVE Len(detach'[e][t]) <= plan.S - t
      BY <2>3, <2>5, <3>2 DEF ActivationBound
    <3> QED BY <3>1, <3>2 DEF ActivationBound
  <2> QED BY <1>2, <1>5, <1>6, <2>7, <2>8 DEF RunInv, OwnPopped
<1>12. CASE ~(mode = "train" /\ Ready(d, l))
  <2>1. detach' = detach
    BY <1>2, <1>12
  <2>2. ASSUME ok, NEW e \in Device, NEW t \in 0..LastStage PROVE StageHolds(e, t, line'[e], detach'[e][t])
    <3>1. CASE e = d /\ t = s
      <4>1. line'[d] = i + 1
        BY <1>1, <1>3, <2>2 DEF Moved
      <4>2. mode = "infer"
        BY <1>3, <1>12, <2>2
      <4>3. StageHolds(d, s, i + 1, w)
        BY <1>8, <4>2
      <4> QED BY <1>1, <2>1, <3>1, <4>1, <4>3
    <3>2. CASE e # d \/ t # s
      <4>1. e \in {d} => /\ line[e] <= Len(prog[e])
                         /\ ~Does(prog[e], line[e], "f", t) /\ ~Does(prog[e], line[e], "b", t)
        BY <1>1, <1>2, <1>7, <3>2 DEF Does
      <4>2. StageHolds(e, t, line'[e], detach[e][t])
        BY <1>2, <1>3, <4>1, MovedOther
      <4> QED BY <2>1, <4>2
    <3> QED BY <3>1, <3>2
  <2>3. Detached'
    BY <1>3, <1>9, <2>1, <2>2, HoldsNext
  <2>4. ActivationBound'
    BY <1>3, <2>1, BoundSame DEF Moved
  <2> QED BY <1>2, <1>5, <1>6, <2>3, <2>4 DEF RunInv, OwnPopped
<1> QED BY <1>11, <1>12

\* Backward pops its own microbatch.
LEMMA BackwardStep ==
    ASSUME plan \in Plan, RunInv, OwnPopped, ActivationBound, NEW d \in Device, Backward(d)
    PROVE  RunInv' /\ OwnPopped' /\ ActivationBound'
<1>1. PICK q, i, l, s, w : q = prog[d] /\ i = line[d] /\ l = Now(d) /\ s = l.s /\ w = detach[d][s]
  OBVIOUS
<1>2. /\ i <= Len(q) /\ ~lost /\ l.op = "b" /\ Execute({d}, l) /\ sample' = sample
      /\ popped' = popped \cup {<<d, s, l.m, Head(w)>>}
      /\ detach' = [detach EXCEPT ![d][s] = Tail(w)]
  <2>1. PICK p : p = Popped(w)
    OBVIOUS
  <2>2. p[1] = Head(w) /\ p[2] = Tail(w)
    BY <2>1 DEF Popped
  <2>3. /\ popped' = popped \cup {<<d, s, l.m, p[1]>>}
        /\ detach' = [detach EXCEPT ![d][s] = p[2]]
    BY <1>1, <2>1 DEF Backward
  <2>4. i <= Len(q) /\ ~lost /\ l.op = "b" /\ Execute({d}, l) /\ sample' = sample
    BY <1>1 DEF Backward, Running
  <2> QED BY <2>2, <2>3, <2>4
<1>3. PICK ok : Moved({d}, ok)
  BY <1>2, Moving DEF RunInv
<1>4. \A e \in Device : e \in {d} => line[e] <= Len(prog[e]) /\ Now(e).op # "load"
  BY <1>1, <1>2
<1>5. LinesIn' /\ AllFit' /\ Down'
  BY <1>1, <1>2, <1>3, <1>4, MovedLines
<1>6. Sampled'
  BY <1>2, <1>3, <1>4, MovedSamples
<1>7. Fits(prog[d], d) /\ i \in 1..Len(q) /\ Does(q, i, "b", s) /\ q[i] = l
  <2>1. Fits(prog[d], d)
    BY DEF RunInv, AllFit
  <2>2. i \in 1..Len(q)
    BY <1>1, <1>2, <2>1 DEF RunInv, LinesIn, Fits
  <2>3. q[i] = l
    BY <1>1 DEF Now
  <2>4. Does(q, i, "b", s)
    BY <1>1, <1>2, <2>3 DEF Does
  <2> QED BY <2>1, <2>2, <2>3, <2>4
<1>8. /\ s \in 0..LastStage /\ d \in plan.on[s]
      /\ StageHolds(d, s, i + 1, Tail(w)) /\ Head(w) = l.m /\ Tail(w) \in Seq(Int)
      /\ Len(Tail(w)) \in Int /\ Len(w) \in Int /\ Len(Tail(w)) <= Len(w)
  <2>1. s \in 0..LastStage => StageHolds(d, s, i, w)
    BY <1>1, <1>2 DEF RunInv, Detached
  <2> QED BY <1>1, <1>7, <2>1, KeepBackward
<1>9. detach \in [Device -> [0..LastStage -> Seq(Int)]]
  BY DEF RunInv, Detached
<1>10. PICK v : v = Tail(w)
  OBVIOUS
<1>11. detach' \in [Device -> [0..LastStage -> Seq(Int)]]
  BY <1>2, <1>8, <1>9, <1>10
<1>12. /\ detach'[d][s] = v
       /\ \A e \in Device, t \in 0..LastStage : e # d \/ t # s => detach'[e][t] = detach[e][t]
  BY <1>2, <1>8, <1>9, <1>10
<1>13. ASSUME ok, NEW e \in Device, NEW t \in 0..LastStage PROVE StageHolds(e, t, line'[e], detach'[e][t])
  <2>1. CASE e = d /\ t = s
    <3>1. line'[d] = i + 1
      BY <1>1, <1>3, <1>13 DEF Moved
    <3> QED BY <1>8, <1>10, <1>12, <2>1, <3>1
  <2>2. CASE e # d \/ t # s
    <3>1. e \in {d} => /\ line[e] <= Len(prog[e])
                       /\ ~Does(prog[e], line[e], "f", t) /\ ~Does(prog[e], line[e], "b", t)
      BY <1>1, <1>2, <1>7, <2>2 DEF Does
    <3>2. StageHolds(e, t, line'[e], detach[e][t])
      BY <1>2, <1>3, <3>1, MovedOther
    <3> QED BY <1>12, <2>2, <3>2
  <2> QED BY <2>1, <2>2
<1>14. Detached'
  BY <1>3, <1>11, <1>13, HoldsNext
<1>15. ActivationBound'
  <2>1. plan' = plan /\ LastStage' = LastStage
    BY <1>3 DEF Moved, LastStage
  <2>2. ASSUME plan.kind = "1f1b", NEW e \in Device, NEW t \in 0..LastStage PROVE Len(detach'[e][t]) <= plan.S - t
    <3>1. Len(detach[e][t]) <= plan.S - t
      BY <2>2 DEF ActivationBound
    <3>2. CASE e = d /\ t = s
      <4>1. Len(v) <= Len(w) /\ Len(w) <= plan.S - s /\ detach'[e][t] = v
        BY <1>1, <1>8, <1>10, <1>12, <3>1, <3>2
      <4>2. plan.S \in Int /\ s \in Int /\ Len(v) \in Int /\ Len(w) \in Int
        BY <1>8, <1>10, PlanTypes
      <4> QED BY <3>2, <4>1, <4>2
    <3>3. CASE e # d \/ t # s
      BY <1>12, <3>1, <3>3
    <3> QED BY <3>2, <3>3
  <2> QED BY <2>1, <2>2 DEF ActivationBound
<1>16. OwnPopped'
  <2>1. PICK p : p = <<d, s, l.m, Head(w)>>
    OBVIOUS
  <2>2. p[3] = p[4]
    BY <1>8, <2>1
  <2> QED BY <1>2, <2>1, <2>2 DEF OwnPopped
<1> QED BY <1>5, <1>6, <1>14, <1>15, <1>16 DEF RunInv

\* An adapter moves its devices and nothing else.
LEMMA CommunicateStep ==
    ASSUME plan \in Plan, RunInv, OwnPopped, ActivationBound, NEW d \in Device, Communicate(d)
    PROVE  RunInv' /\ OwnPopped' /\ ActivationBound'
<1>1. PICK l, ds : l = Now(d) /\ ds = Parties(l.op, l.s)
  OBVIOUS
<1>2. /\ line[d] <= Len(prog[d]) /\ ~lost /\ l.op \in {"send", "back", "out"}
      /\ \A e \in ds : Meets(e, l)
      /\ Execute(ds, l)
      /\ UNCHANGED <<detach, popped, sample>>
  BY <1>1 DEF Communicate, Running
<1>3. PICK ok : Moved(ds, ok)
  BY <1>2, Moving DEF RunInv
<1>4. \A e \in Device : e \in ds => line[e] <= Len(prog[e]) /\ Now(e) = l /\ Now(e).op # "load"
  BY <1>2 DEF Meets
<1>5. LinesIn' /\ AllFit' /\ Down'
  BY <1>2, <1>3, <1>4, MovedLines
<1>6. Sampled'
  BY <1>2, <1>3, <1>4, MovedSamples
<1>7. ASSUME NEW e \in Device, NEW t \in 0..LastStage PROVE StageHolds(e, t, line'[e], detach'[e][t])
  <2>1. e \in ds => /\ line[e] <= Len(prog[e])
                    /\ ~Does(prog[e], line[e], "f", t) /\ ~Does(prog[e], line[e], "b", t)
    BY <1>2, <1>4 DEF Does, Now
  <2>2. StageHolds(e, t, line'[e], detach[e][t])
    BY <1>2, <1>3, <2>1, MovedOther
  <2> QED BY <1>2, <2>2
<1>8. Detached'
  <2>1. detach' \in [Device -> [0..LastStage -> Seq(Int)]]
    BY <1>2 DEF RunInv, Detached
  <2> QED BY <1>3, <1>7, <2>1, HoldsNext
<1>9. ActivationBound'
  BY <1>2, <1>3, BoundSame DEF Moved
<1> QED BY <1>2, <1>5, <1>6, <1>8, <1>9 DEF RunInv, OwnPopped

(***************************************************************************)
(* From the plan to the end of the run.                                    *)
(***************************************************************************)
\* The inductive invariant: the plan as it is written, then the run.
PlanChosen == plan \in Plan /\ mode \in {"train", "infer"} /\ (plan.kind = "infer_pipe" => mode = "infer")
PlanWritten == /\ Apart
               /\ phase \notin {"add", "conflict"} => blocks = Wanted
               /\ phase \in {"apply", "run"} => Valid
NotYet == phase # "run" => /\ line = [d \in Device |-> 1] /\ ~lost /\ popped = {}
                           /\ detach = [d \in Device |-> [s \in 0..LastStage |-> <<>>]]
                           /\ sample = [d \in Device |-> <<>>]
PipelineInv == /\ PlanChosen /\ PlanWritten /\ NotYet /\ OwnPopped /\ ActivationBound
               /\ phase = "run" => RunInv

\* The invariant holds initially.
LEMMA PipelineBegins == PipelineInit => PipelineInv
<1> SUFFICES ASSUME PipelineInit PROVE PipelineInv
  OBVIOUS
<1>1. PlanChosen
  BY DEF PipelineInit, PlanChosen
<1>2. PlanWritten
  BY DEF PipelineInit, PlanWritten, Apart
<1>3. NotYet /\ OwnPopped
  BY DEF PipelineInit, NotYet, OwnPopped
<1>4. ActivationBound
  <2>1. ASSUME NEW d \in Device, NEW s \in 0..LastStage PROVE Len(detach[d][s]) <= plan.S - s
    <3>1. detach[d][s] = <<>>
      BY DEF PipelineInit
    <3>2. 0 <= plan.S - s
      BY <1>1, PlanTypes DEF PlanChosen
    <3> QED BY <3>1, <3>2
  <2> QED BY <2>1 DEF ActivationBound
<1>5. phase # "run"
  BY DEF PipelineInit
<1> QED BY <1>1, <1>2, <1>3, <1>4, <1>5 DEF PipelineInv

\* add_block keeps the blocks of a device apart.
LEMMA AddStep ==
    ASSUME PipelineInv, AddBlock
    PROVE  PipelineInv'
<1>1. /\ phase = "add" /\ ~Conflict(NextBlock) /\ blocks' = blocks \cup {NextBlock}
      /\ plan' = plan /\ mode' = mode /\ phase' = phase /\ line' = line /\ lost' = lost
      /\ detach' = detach /\ popped' = popped /\ sample' = sample
  BY DEF AddBlock, runVars
<1>2. PICK n : n = NextBlock
  OBVIOUS
<1>3. \A c \in blocks : ~(Overlap(n, c) /\ plan.on[n.s] \cap plan.on[c.s] # {})
  BY <1>1, <1>2 DEF Conflict
<1>4. \A a, b : Overlap(a, b) => Overlap(b, a)
  BY DEF Overlap
<1>5. \A b, c \in blocks : b # c => ~(Overlap(b, c) /\ plan.on[b.s] \cap plan.on[c.s] # {})
  BY DEF PipelineInv, PlanWritten, Apart
<1>6. ASSUME NEW b \in blocks \cup {n}, NEW c \in blocks \cup {n}, b # c
      PROVE  ~(Overlap(b, c) /\ plan.on[b.s] \cap plan.on[c.s] # {})
  <2>1. CASE b = n
    BY <1>3, <1>6, <2>1
  <2>2. CASE c = n
    <3>1. b \in blocks
      BY <1>6, <2>2
    <3>2. ~(Overlap(n, b) /\ plan.on[n.s] \cap plan.on[b.s] # {})
      BY <1>3, <3>1
    <3>3. plan.on[n.s] \cap plan.on[b.s] = plan.on[b.s] \cap plan.on[n.s]
      OBVIOUS
    <3> QED BY <1>4, <2>2, <3>2, <3>3
  <2>3. CASE b # n /\ c # n
    BY <1>5, <1>6, <2>3
  <2> QED BY <2>1, <2>2, <2>3
<1>7. Apart'
  <2>1. blocks' = blocks \cup {n} /\ plan' = plan
    BY <1>1, <1>2
  <2> QED BY <1>6, <2>1, Zenon DEF Apart, Overlap
<1>8. PlanWritten'
  BY <1>1, <1>7 DEF PlanWritten
<1>9. PlanChosen' /\ NotYet' /\ OwnPopped' /\ ActivationBound'
  BY <1>1, BoundSame DEF PipelineInv, PlanChosen, NotYet, OwnPopped, LastStage
<1> QED BY <1>1, <1>8, <1>9 DEF PipelineInv

\* Before the programs are written.
LEMMA PlanStep ==
    ASSUME PipelineInv, AddConflict \/ Added \/ InsertSegments \/ Finish \/ LoaderOutside
    PROVE  PipelineInv'
<1>1. /\ phase \in {"add", "insert", "finish", "apply"} /\ phase' # "run" /\ phase' # "add"
      /\ plan' = plan /\ mode' = mode /\ blocks' = blocks /\ line' = line /\ lost' = lost
      /\ detach' = detach /\ popped' = popped /\ sample' = sample
      /\ phase' # "conflict" => blocks = Wanted \/ phase # "add"
      /\ phase' = "apply" => Valid
  BY DEF AddConflict, Added, InsertSegments, Finish, LoaderOutside, runVars
<1>2. Apart' /\ (Valid' <=> Valid) /\ Wanted' = Wanted
  <2>1. Apart
    BY DEF PipelineInv, PlanWritten
  <2>2. Apart'
    BY <1>1, <2>1, Zenon DEF Apart, Overlap
  <2>3. Valid' <=> Valid
    BY <1>1, Zenon DEF Valid
  <2>4. Wanted' = Wanted
    BY <1>1, Zenon DEF Wanted, Used, LastStage
  <2> QED BY <2>2, <2>3, <2>4
<1>3. PlanWritten'
  <2>1. phase \notin {"add", "conflict"} => blocks = Wanted
    BY DEF PipelineInv, PlanWritten
  <2> QED BY <1>1, <1>2, <2>1 DEF PlanWritten
<1>4. PlanChosen' /\ NotYet' /\ OwnPopped' /\ ActivationBound'
  BY <1>1, BoundSame DEF PipelineInv, PlanChosen, NotYet, OwnPopped, LastStage
<1> QED BY <1>1, <1>3, <1>4 DEF PipelineInv

\* When the programs are written they are sorted, and fit.
LEMMA ApplyStep ==
    ASSUME PipelineInv, Apply
    PROVE  PipelineInv'
<1>1. /\ phase = "apply" /\ prog' = [d \in Device |-> Program(d)] /\ phase' = "run"
      /\ plan' = plan /\ mode' = mode /\ blocks' = blocks /\ line' = line /\ lost' = lost
      /\ detach' = detach /\ popped' = popped /\ sample' = sample
  BY DEF Apply
<1>2. /\ plan \in Plan /\ mode \in {"train", "infer"} /\ (plan.kind = "infer_pipe" => mode = "infer")
      /\ blocks = Wanted /\ Valid /\ Apart
  BY <1>1 DEF PipelineInv, PlanChosen, PlanWritten
<1>3. Written
  BY <1>2, WantedInOrder DEF Written
<1>4. plan.kind = "1f1b" => blocks = OneFOneB(plan.S, plan.M)
  BY <1>2 DEF Wanted
<1>5. ASSUME NEW d \in Device PROVE Fits(prog'[d], d)
  <2>1. PICK q : q = Program(d)
    OBVIOUS
  <2>2. Sorted(q, Kept(d))
    BY <1>3, <2>1, PlanSorted
  <2>3. Fits(q, d)
    BY <1>2, <1>3, <1>4, <2>2, ProgramsFit
  <2> QED BY <1>1, <2>1, <2>3
<1>6. /\ line = [d \in Device |-> 1] /\ ~lost
      /\ detach = [d \in Device |-> [s \in 0..LastStage |-> <<>>]]
      /\ sample = [d \in Device |-> <<>>]
  BY <1>1 DEF PipelineInv, NotYet
<1>7. AllFit'
  <2>1. ASSUME NEW d \in Device PROVE Fits(prog[d], d)'
    BY <1>1, <1>5 DEF Fits, OpsFit, TurnsFit, Reading, LastStage
  <2> QED BY <2>1 DEF AllFit
<1>8. LinesIn'
  <2>1. \A d \in Device : Len(prog'[d]) \in Nat
    BY <1>5 DEF Fits
  <2> QED BY <1>1, <1>6, <2>1 DEF LinesIn
<1>9. Down'
  BY <1>1, <1>6 DEF Down
<1>10. Detached'
  <2>1. ASSUME NEW d \in Device, NEW s \in 0..LastStage PROVE StageHolds(d, s, line[d], detach[d][s])'
    <3>0. plan.M \in Nat
      BY <1>2, PlanTypes
    <3>1. PICK q, M : q = prog'[d] /\ M = plan.M /\ M \in Nat
      BY <3>0, Zenon
    <3>2. line'[d] = 1 /\ detach'[d][s] = <<>>
      BY <1>1, <1>6
    <3>3. CASE mode # "infer" /\ d \in plan.on[s]
      <4>1. Turns(q, M, s) /\ Len(q) \in Nat
        BY <1>5, <3>1, <3>3 DEF Fits, TurnsFit
      <4>2. Held(q, M, s, 1, <<>>)
        BY <3>1, <4>1, HeldStart
      <4> QED BY <1>1, <3>1, <3>2, <3>3, <4>2 DEF StageHolds
    <3>4. CASE ~(mode # "infer" /\ d \in plan.on[s])
      BY <1>1, <3>2, <3>4 DEF StageHolds
    <3> QED BY <3>3, <3>4
  <2>2. LastStage' = LastStage
    BY <1>1 DEF LastStage
  <2>3. detach \in [Device -> [0..LastStage -> Seq(Int)]]
    <3>1. <<>> \in Seq(Int)
      OBVIOUS
    <3> QED BY <1>6, <3>1
  <2> QED BY <1>1, <2>1, <2>2, <2>3 DEF Detached
<1>11. Sampled'
  <2>1. ASSUME NEW d \in Device, Reading(d) PROVE Drawn(prog'[d], plan.M, 1, <<>>)
    <3>0. plan.M \in Nat
      BY <1>2, PlanTypes
    <3>1. PICK q, M : q = prog'[d] /\ M = plan.M /\ M \in Nat
      BY <3>0, Zenon
    <3>2. Len(q) \in Nat /\ InTurn(q, M, "load", 0)
      BY <1>5, <2>1, <3>1 DEF Fits
    <3>3. Drawn(q, M, 1, <<>>)
      BY <3>1, <3>2, DrawnSteps
    <3> QED BY <3>1, <3>3
  <2>2. \A d \in Device : Reading(d)' = Reading(d) /\ line'[d] = 1 /\ sample'[d] = <<>>
    BY <1>1, <1>6 DEF Reading
  <2>3. DOMAIN sample' = Device
    BY <1>1, <1>6
  <2>4. ASSUME NEW d \in Device, Reading(d)' PROVE Drawn(prog'[d], plan'.M, line'[d], sample'[d])
    BY <1>1, <2>1, <2>2, <2>4, Zenon
  <2> QED BY <2>3, <2>4 DEF Sampled
<1>12. PlanWritten'
  <2>1. Apart' /\ Valid' /\ Wanted' = Wanted
    <3>1. Apart'
      BY <1>1, <1>2, Zenon DEF Apart, Overlap
    <3>2. Valid'
      BY <1>1, <1>2, Zenon DEF Valid
    <3>3. Wanted' = Wanted
      BY <1>1, Zenon DEF Wanted, Used, LastStage
    <3> QED BY <3>1, <3>2, <3>3
  <2> QED BY <1>1, <1>2, <2>1 DEF PlanWritten
<1>13. PlanChosen' /\ NotYet' /\ OwnPopped' /\ ActivationBound'
  BY <1>1, BoundSame DEF PipelineInv, PlanChosen, NotYet, OwnPopped
<1> QED BY <1>7, <1>8, <1>9, <1>10, <1>11, <1>12, <1>13 DEF PipelineInv, RunInv

\* Every line of a device keeps the invariant.
LEMMA ProgramStep ==
    ASSUME PipelineInv, NEW d \in Device, Run(d)
    PROVE  PipelineInv'
<1>1. phase = "run" /\ UNCHANGED <<plan, mode, phase, blocks>>
  BY DEF Run, Load, Forward, Backward, Communicate, Running, Execute
<1>2. plan \in Plan /\ mode \in {"train", "infer"} /\ RunInv /\ OwnPopped /\ ActivationBound
  BY <1>1 DEF PipelineInv, PlanChosen
<1>3. RunInv' /\ OwnPopped' /\ ActivationBound'
  BY <1>2, LoadStep, ForwardStep, BackwardStep, CommunicateStep DEF Run
<1>4. PlanWritten'
  <2>1. Apart /\ Valid /\ blocks = Wanted
    BY <1>1 DEF PipelineInv, PlanWritten
  <2>2. Apart'
    BY <1>1, <2>1, Zenon DEF Apart, Overlap
  <2>3. Valid'
    BY <1>1, <2>1, Zenon DEF Valid
  <2>4. Wanted' = Wanted
    BY <1>1, Zenon DEF Wanted, Used, LastStage
  <2> QED BY <1>1, <2>1, <2>2, <2>3, <2>4 DEF PlanWritten
<1>5. PlanChosen' /\ NotYet'
  BY <1>1 DEF PipelineInv, PlanChosen, NotYet
<1> QED BY <1>3, <1>4, <1>5 DEF PipelineInv

\* Every step keeps the invariant.
LEMMA PipelineStep ==
    ASSUME PipelineInv, [PipelineNext]_pipelineVars
    PROVE  PipelineInv'
<1>1. CASE AddBlock
  BY <1>1, AddStep
<1>2. CASE AddConflict \/ Added \/ InsertSegments \/ Finish \/ LoaderOutside
  BY <1>2, PlanStep
<1>3. CASE Apply
  BY <1>3, ApplyStep
<1>4. CASE \E d \in Device : Run(d)
  BY <1>4, ProgramStep
<1>5. CASE UNCHANGED pipelineVars
  <2>1. /\ plan' = plan /\ mode' = mode /\ phase' = phase /\ blocks' = blocks /\ prog' = prog /\ line' = line
        /\ lost' = lost /\ detach' = detach /\ popped' = popped /\ sample' = sample
    BY <1>5 DEF pipelineVars
  <2>2. PlanChosen' /\ NotYet' /\ OwnPopped' /\ ActivationBound'
    BY <2>1, BoundSame DEF PipelineInv, PlanChosen, NotYet, OwnPopped, LastStage
  <2>3. PlanWritten'
    <3>1. PlanWritten
      BY DEF PipelineInv
    <3>2. (Valid' <=> Valid) /\ Wanted' = Wanted /\ (Apart' <=> Apart)
      <4>1. Valid' <=> Valid
        BY <2>1, Zenon DEF Valid
      <4>2. Wanted' = Wanted
        BY <2>1, Zenon DEF Wanted, Used, LastStage
      <4>3. Apart' <=> Apart
        BY <2>1, Zenon DEF Apart, Overlap
      <4> QED BY <4>1, <4>2, <4>3
    <3> QED BY <2>1, <3>1, <3>2 DEF PlanWritten
  <2>4. phase = "run" => RunInv'
    <3> SUFFICES ASSUME phase = "run" PROVE RunInv'
      OBVIOUS
    <3>1. RunInv /\ LastStage' = LastStage
      BY <2>1 DEF PipelineInv, LastStage
    <3>2. AllFit'
      <4>1. ASSUME NEW d \in Device PROVE Fits(prog[d], d)'
        <5>1. Fits(prog[d], d)
          BY <3>1 DEF RunInv, AllFit
        <5> QED BY <2>1, <3>1, <5>1 DEF Fits, OpsFit, TurnsFit, Reading
      <4> QED BY <4>1 DEF AllFit
    <3>3. LinesIn' /\ Down'
      BY <2>1, <3>1 DEF RunInv, LinesIn, Down
    <3>4. Detached'
      BY <2>1, <3>1 DEF RunInv, Detached, StageHolds
    <3>5. Sampled'
      <4>1. \A d \in Device : Reading(d)' = Reading(d)
        BY <2>1 DEF Reading
      <4> QED BY <2>1, <3>1, <4>1 DEF RunInv, Sampled
    <3> QED BY <3>2, <3>3, <3>4, <3>5 DEF RunInv
  <2> QED BY <2>1, <2>2, <2>3, <2>4 DEF PipelineInv
<1> QED BY <1>1, <1>2, <1>3, <1>4, <1>5 DEF PipelineNext, Build, PipelineDone

\* When the programs have ended nothing is held, and what was drawn came in order.
LEMMA InvMatches ==
    ASSUME PipelineInv
    PROVE  MicrobatchesMatch
<1>0. plan \in Plan /\ plan.M \in Nat
  BY PlanTypes DEF PipelineInv, PlanChosen
<1>1. \A p \in popped : p[3] = p[4]
  BY DEF PipelineInv, OwnPopped
<1>2. ASSUME ProgramsEnded, NEW d \in Device, NEW s \in 0..LastStage PROVE detach[d][s] = <<>>
  <2>1. RunInv /\ \A e \in Device : line[e] > Len(prog[e])
    BY <1>2 DEF ProgramsEnded, PipelineInv
  <2>2. \A e \in Device : Len(prog[e]) \in Nat /\ line[e] \in 1..(Len(prog[e]) + 1)
    BY <2>1 DEF RunInv, LinesIn, AllFit, Fits
  <2>3. ~lost
    BY <2>1, <2>2 DEF RunInv, Down
  <2>4. PICK q, i, w, M : q = prog[d] /\ i = line[d] /\ w = detach[d][s] /\ M = plan.M
    OBVIOUS
  <2>5. i = Len(q) + 1 /\ Len(q) \in Nat
    BY <2>1, <2>2, <2>4
  <2>6. StageHolds(d, s, i, w)
    BY <2>1, <2>3, <2>4 DEF RunInv, Detached
  <2>7. CASE mode # "infer" /\ d \in plan.on[s]
    <3>1. Held(q, M, s, Len(q) + 1, w)
      BY <2>4, <2>5, <2>6, <2>7 DEF StageHolds
    <3>2. Turns(q, M, s)
      BY <2>1, <2>4, <2>7 DEF RunInv, AllFit, Fits, TurnsFit
    <3>3. M \in Nat
      BY <1>0, <2>4
    <3>4. w = <<>>
      BY <2>5, <3>1, <3>2, <3>3, HeldEnd
    <3> QED BY <2>4, <3>4
  <2>8. CASE ~(mode # "infer" /\ d \in plan.on[s])
    BY <2>4, <2>6, <2>8 DEF StageHolds
  <2> QED BY <2>7, <2>8
<1>3. ASSUME NEW x \in plan.loads, NEW j \in 1..Len(sample[x[1]]) PROVE sample[x[1]][j] = j - 1
  <2>1. PICK d : d = x[1]
    OBVIOUS
  <2>2. d \in Device /\ Reading(d)
    <3>1. plan.loads \subseteq Device \X (0..(plan.S - 1))
      BY <1>0, PlanTypes
    <3> QED BY <2>1, <3>1 DEF Reading
  <2>3. CASE phase = "run"
    <3>1. PICK q, i, w, M : q = prog[d] /\ i = line[d] /\ w = sample[d] /\ M = plan.M
      OBVIOUS
    <3>2. Drawn(q, M, i, w) /\ M \in Nat
      BY <1>0, <2>2, <2>3, <3>1 DEF PipelineInv, RunInv, Sampled
    <3>3. \A n \in 1..Len(w) : w[n] = n - 1
      BY <3>2, DrawnInOrder
    <3> QED BY <2>1, <3>1, <3>3
  <2>4. CASE phase # "run"
    <3>1. sample[d] = <<>>
      BY <2>2, <2>4 DEF PipelineInv, NotYet
    <3>2. Len(sample[x[1]]) = 0
      BY <2>1, <3>1
    <3> QED BY <3>2
  <2> QED BY <2>3, <2>4
<1> QED BY <1>1, <1>2, <1>3 DEF MicrobatchesMatch

\* The invariant holds in every reachable state.
LEMMA PipelineInvariant == PipelineSpec => []PipelineInv
<1>1. PipelineInit => PipelineInv
  BY PipelineBegins
<1>2. PipelineInv /\ [PipelineNext]_pipelineVars => PipelineInv'
  BY PipelineStep
<1> QED BY <1>1, <1>2, PTL DEF PipelineSpec

\* Executor.backward pops the oldest detached inputs of its segment; in every program that
\* is split from an accepted plan these are those of its own microbatch, none are left at
\* the end, and the devices that read samples draw them in order: for any number of stages,
\* microbatches and devices.
THEOREM BackwardPopsItsOwn == PipelineSpec => []MicrobatchesMatch
BY PipelineInvariant, InvMatches, PTL

\* Under 1F1B, Executor._detach never holds more microbatches for a stage than there are
\* stages from it to the end, for any number of stages and microbatches and any placement.
THEOREM OneFOneBIsBounded == PipelineSpec => []ActivationBound
<1>1. PipelineInv => ActivationBound
  BY DEF PipelineInv
<1> QED BY PipelineInvariant, <1>1, PTL
=============================================================================
