-------------------------- MODULE TrainerCheckpoint --------------------------
(***************************************************************************)
(* Trainer of nnscaler: the epoch loop, validation, checkpoints and        *)
(* resuming.  Every train step and every validation is collective, so      *)
(* between two saves the ranks are at one point of the loop (at); inside   *)
(* _save_checkpoint each rank writes its own files and the ranks meet only *)
(* at the barriers (sv: what a rank has still to do).  The directory of    *)
(* checkpoints is shared and survives a crash; everything else is lost.    *)
(*                                                                         *)
(* A batch is the range of micro batches it takes from the loader in an    *)
(* epoch, the model what it was trained on, and a checkpoint file what     *)
(* _save_checkpoint puts in it.  In the pairs (SkipGroups, Skip),          *)
(* (EveryLoss, BestNow), (ExpireFirst, Then), (Unprotected, Protected),    *)
(* (OneMore, Expired) the first, unused definition is a plausible slip of  *)
(* the second.                                                             *)
(***************************************************************************)
EXTENDS Integers, Sequences, FiniteSets

CONSTANTS R,          \* ranks
          Config,     \* TrainerArgs and CheckpointConfig, 0 for None
          Loader,     \* micro batches in the train loader of a rank
          UpdateFreq, \* micro batches of a train step
          Steps       \* max_train_steps of the last launch

Rank == 0..(R - 1)
AllSteps == 1..Steps

StepsPerEpoch == (Loader + UpdateFreq - 1) \div UpdateFreq
Infinity == 99

\* max_train_steps of the n-th launch.
Limit(c, n) ==
  LET e == c.launches[n].epochs  s == c.launches[n].steps
  IN IF e = 0 THEN s
     ELSE IF s = 0 THEN StepsPerEpoch * e
     ELSE IF s < StepsPerEpoch * e THEN s ELSE StepsPerEpoch * e

Due(n, every) == every # 0 /\ n % every = 0

ASSUME TrainerAssumption ==
  /\ R \in Nat \ {0} /\ Loader \in Nat \ {0} /\ UpdateFreq \in Nat \ {0} /\ Steps \in Nat
  /\ Config \subseteq
       [launches : Seq([epochs : Nat, steps : Nat]), loader : {"plain", "resumable"}, val : BOOLEAN,
        interval : {"step", "epoch", "none"}, everySteps : Nat, everyEpochs : Nat, valSteps : Nat,
        valEpochs : Nat, keep : Nat, symlink : BOOLEAN, saveLast : BOOLEAN, saveBest : BOOLEAN,
        localWorldSize : Nat \ {0}, resume : SUBSET {"dir", "last", "best"}, loss : Seq(Nat),
        crashes : Nat]
  /\ \A c \in Config :
       /\ Len(c.launches) > 0 /\ \A n \in 1..Len(c.launches) : Limit(c, n) <= Steps
       /\ Len(c.loss) >= Steps /\ \A s \in AllSteps : c.loss[s] \in 1..(Infinity - 1)

VARIABLES cfg,       \* the configuration
          launch,    \* which of cfg.launches runs
          at,        \* where the ranks are in the loop
          ret,       \* where _save_checkpoint returns to
          fin,       \* train_status.finished_train_steps
          seen,      \* batches trained on
          lr,        \* steps of the learning rate scheduler
          epoch, pos,\* epoch, and micro batches taken from the loader in it
          resumed,   \* loader position restored from a checkpoint, or -1
          stepped,   \* step_stat is not None
          status,    \* has_validated
          val,       \* step_stat.val_loss, 0 for None
          best,      \* train_status.best_loss
          loaded,    \* the step each rank's checkpoint is of
          sv,        \* where a rank is in _save_checkpoint
          expire,    \* what a rank has still to remove
          dirs, file, last, bestf,  \* the checkpoint directory
          saved,     \* steps whose save passed its second barrier, or that a launch resumed from
          crashes

train == <<launch, at, ret, fin, seen, lr, epoch, pos, resumed, stepped, status, val, best, loaded>>
disk == <<dirs, file, last, bestf>>
vars == <<cfg, train, sv, expire, disk, saved, crashes>>

None == [kind |-> "none", fin |-> 0, seen |-> <<>>, lr |-> 0, pos |-> 0]
Partial == [None EXCEPT !.kind = "partial"]
Whole(f, b, n, p) == [kind |-> "whole", fin |-> f, seen |-> b, lr |-> n, pos |-> p]
Link(s) == [None EXCEPT !.kind = "link", !.fin = s]
Gone == [None EXCEPT !.kind = "gone"]    \* a link that was removed; its directory is there

MaxTrainSteps == Limit(cfg, launch)
LossAt(s) == IF cfg.val THEN cfg.loss[s] ELSE cfg.loss[s] + 1

(***************************************************************************)
(* Loading.                                                                *)
(***************************************************************************)
Resolve(f, r) == IF f.kind = "link" THEN file[f.fin][r] ELSE f
Complete(s) == s \in dirs /\ \A r \in Rank : file[s][r].kind = "whole"
CompleteSteps == {s \in AllSteps : Complete(s)}
Newest == IF CompleteSteps = {} THEN 0 ELSE CHOOSE s \in CompleteSteps : \A t \in CompleteSteps : t <= s

Nothing == [r \in Rank |-> None]
LastEntries == [r \in Rank |-> Resolve(last[r], r)]
BestEntries == [r \in Rank |-> Resolve(bestf[r], r)]
DirEntries == IF Newest = 0 THEN Nothing ELSE file[Newest]
Entries(from) == CASE from = "last" -> LastEntries [] from = "best" -> BestEntries [] OTHER -> DirEntries

\* Without last, best or any checkpoint, training starts anew.
Anew(from) ==
  \/ from = "dir" /\ Newest = 0
  \/ from = "last" /\ last = Nothing
  \/ from = "best" /\ bestf = Nothing

\* The files a directory has: all of them are loaded, fewer are merged, and a gap
\* between them, none at all or one that is not whole is an error.
Found(from) == {r \in Rank : CASE from = "last" -> last[r].kind \notin {"none", "gone"}
                               [] from = "best" -> bestf[r].kind \notin {"none", "gone"}
                               [] OTHER -> DirEntries[r].kind # "none"}
Loadable(from) ==
  \/ Anew(from)
  \/ /\ Found(from) # {} /\ \A r \in Found(from), q \in Rank : q < r => q \in Found(from)
     /\ \A r \in Found(from) : Entries(from)[r].kind = "whole"

Load(c, same) ==
  /\ fin' = c.fin /\ seen' = c.seen /\ lr' = c.lr
  /\ resumed' = IF cfg.loader = "plain" \/ c.fin = 0 THEN -1 ELSE c.pos
  /\ best' = Infinity
  /\ at' = IF same THEN "launched" ELSE "apart"
  /\ epoch' = c.fin \div StepsPerEpoch
  /\ pos' = 0 /\ stepped' = FALSE /\ status' = 0 /\ val' = 0 /\ ret' = "none"

Init ==
  /\ cfg \in Config
  /\ launch = 1 /\ at = "down" /\ ret = "none"
  /\ fin = 0 /\ seen = <<>> /\ lr = 0 /\ epoch = 0 /\ pos = 0 /\ resumed = -1
  /\ stepped = FALSE /\ status = 0 /\ val = 0 /\ best = Infinity
  /\ loaded = [r \in Rank |-> 0]
  /\ sv = [r \in Rank |-> "idle"] /\ expire = [r \in Rank |-> {}]
  /\ dirs = {} /\ file = [s \in AllSteps |-> Nothing]
  /\ last = Nothing /\ bestf = Nothing
  /\ saved = {} /\ crashes = 0

\* torchrun starts the ranks, which load what resume_from says.  What ranks do
\* that load different steps ("apart"), or a merge of the files of some ranks, is
\* not followed.
Launch ==
  /\ at = "down"
  /\ \E from \in cfg.resume :
       IF Loadable(from)
       THEN /\ loaded' = [r \in Rank |-> Entries(from)[r].fin]
            /\ Load(Entries(from)[0], \A r \in Rank : Entries(from)[r].fin = Entries(from)[0].fin)
            /\ saved' = saved \cup ({Entries(from)[0].fin} \ {0})
       ELSE /\ at' = "refused"
            /\ UNCHANGED <<ret, fin, seen, lr, epoch, pos, resumed, stepped, status, val,
                           best, loaded, saved>>
  /\ UNCHANGED <<cfg, launch, sv, expire, disk, crashes>>

(***************************************************************************)
(* The loop over epochs and batches.                                       *)
(***************************************************************************)
SkipGroups(idx) == idx
Skip(idx) == idx * UpdateFreq

Goto(there) == at' = there /\ UNCHANGED <<cfg, launch, loaded, sv, expire, disk, saved, crashes>>

EpochsLeft == cfg.launches[launch].epochs = 0 \/ epoch < cfg.launches[launch].epochs

\* _train: skipped when everything has been done already.
BeginTrain ==
  /\ at = "launched"
  /\ Goto(IF fin >= MaxTrainSteps \/ ~EpochsLeft THEN "done" ELSE "epoch")
  /\ UNCHANGED <<ret, fin, seen, lr, epoch, pos, resumed, stepped, status, val, best>>

\* _train_epoch up to its loop: a loader with a state of its own goes on where it
\* was (saved at the end of an epoch it is assumed to start the next), another
\* one is run dry up to the first batch that is still to do.
BeginEpoch ==
  /\ at = "epoch"
  /\ pos' = IF resumed # -1 THEN (IF resumed = Loader THEN 0 ELSE resumed)
            ELSE Skip(fin % StepsPerEpoch)
  /\ resumed' = -1
  /\ stepped' = FALSE /\ status' = 0 /\ val' = 0
  /\ Goto("step")
  /\ UNCHANGED <<ret, fin, seen, lr, epoch, best>>

\* A global batch: forward, backward, synchronisation and optimizer step.
TrainStep ==
  /\ at = "step" /\ pos < Loader
  /\ LET to == IF pos + UpdateFreq < Loader THEN pos + UpdateFreq ELSE Loader
     IN /\ seen' = Append(seen, [epoch |-> epoch, from |-> pos, to |-> to, lr |-> lr])
        /\ pos' = to
  /\ fin' = fin + 1
  /\ lr' = IF cfg.interval = "step" THEN lr + 1 ELSE lr
  /\ stepped' = TRUE /\ status' = 0 /\ val' = 0
  /\ Goto("stepped")
  /\ UNCHANGED <<ret, epoch, resumed, best>>

LimitReached == fin >= MaxTrainSteps

CallSave(there) == Goto("validate") /\ ret' = there

\* checkpoint.every_n_train_steps
SaveEverySteps ==
  /\ at = "stepped"
  /\ IF Due(fin, cfg.everySteps) THEN CallSave("limit") ELSE Goto("limit") /\ UNCHANGED ret
  /\ UNCHANGED <<fin, seen, lr, epoch, pos, resumed, stepped, status, val, best>>

\* max_train_steps: the last step is always saved.
AtLimit ==
  /\ at = "limit" /\ LimitReached
  /\ IF status = 0 THEN CallSave("next") ELSE Goto("next") /\ UNCHANGED ret
  /\ UNCHANGED <<fin, seen, lr, epoch, pos, resumed, stepped, status, val, best>>

Validate == val' = LossAt(fin)

\* val_every_n_train_steps
ValidateEverySteps ==
  /\ at = "limit" /\ ~LimitReached
  /\ IF status = 0 /\ Due(fin, cfg.valSteps) THEN Validate /\ status' = 1
     ELSE UNCHANGED <<val, status>>
  /\ Goto("step")
  /\ UNCHANGED <<ret, fin, seen, lr, epoch, pos, resumed, stepped, best>>

\* The batches of the epoch are used up: checkpoint.every_n_epochs.
SaveEveryEpochs ==
  /\ at = "step" /\ pos >= Loader
  /\ IF ~stepped THEN Goto("next") /\ UNCHANGED ret
     ELSE IF status < 2 /\ Due(epoch + 1, cfg.everyEpochs) THEN CallSave("valepoch")
     ELSE Goto("valepoch") /\ UNCHANGED ret
  /\ UNCHANGED <<fin, seen, lr, epoch, pos, resumed, stepped, status, val, best>>

\* val_every_n_epochs
ValidateEveryEpochs ==
  /\ at = "valepoch"
  /\ IF status = 0 /\ Due(epoch + 1, cfg.valEpochs) THEN Validate /\ status' = 1
     ELSE UNCHANGED <<val, status>>
  /\ Goto("next")
  /\ UNCHANGED <<ret, fin, seen, lr, epoch, pos, resumed, stepped, best>>

\* The end of an epoch in _train.
EndEpoch ==
  /\ at = "next"
  /\ lr' = IF cfg.interval = "epoch" THEN lr + 1 ELSE lr
  /\ LET steps == cfg.launches[launch].steps  epochs == cfg.launches[launch].epochs
     IN IF (steps # 0 /\ fin >= steps) \/ (epochs # 0 /\ epoch + 1 >= epochs)
        THEN Goto("done") /\ UNCHANGED epoch
        ELSE Goto("epoch") /\ epoch' = epoch + 1
  /\ UNCHANGED <<ret, fin, seen, pos, resumed, stepped, status, val, best>>

(***************************************************************************)
(* _validate_and_save and _save_checkpoint.                                *)
(***************************************************************************)
\* Without a validation set the loss is train_loss and best_loss stays as it is.
ValidateAndSave ==
  /\ at = "validate"
  /\ IF cfg.val /\ val = 0 THEN Validate ELSE UNCHANGED val
  /\ Goto("save")
  /\ UNCHANGED <<ret, fin, seen, lr, epoch, pos, resumed, stepped, status, best>>

EveryLoss == TRUE
BestNow == LossAt(fin) <= best

\* What a rank does next in a save, which it waits with at "wrote" and "end" for
\* the others.
Leader(r) == r % cfg.localWorldSize = 0
AfterLast == IF cfg.saveBest /\ BestNow THEN "clearBest" ELSE "wrote"
Writing(phase) ==
  CASE phase = "write" -> "close"
    [] phase = "close" -> IF cfg.saveLast THEN "clearLast" ELSE AfterLast
    [] phase = "clearLast" -> "last"
    [] phase = "last" -> AfterLast
    [] phase = "clearBest" -> "best"
    [] phase = "best" -> "wrote"
    [] OTHER -> phase
ExpireFirst(r, phase) ==
  CASE phase = "list" -> "remove"
    [] phase = "remove" -> IF fin \in saved THEN "end" ELSE "wrote"
    [] OTHER -> IF Writing(phase) = "wrote" /\ Leader(r) THEN "list" ELSE Writing(phase)
Then(r, phase) ==
  CASE phase = "list" -> "remove"
    [] phase = "remove" -> "end"
    [] OTHER -> Writing(phase)

BeginSave ==
  /\ at = "save" /\ at' = "saving"
  /\ sv' = [r \in Rank |-> "write"]
  /\ UNCHANGED <<cfg, launch, ret, fin, seen, lr, epoch, pos, resumed, stepped, status, val,
                 best, loaded, expire, disk, saved, crashes>>

Does(r, phase) == sv[r] = phase /\ sv' = [sv EXCEPT ![r] = Then(r, phase)]
Elsewhere == UNCHANGED <<cfg, train, saved, crashes>>

Content == Whole(fin, seen, lr, pos)

\* torch.save opens and truncates the file, and has written it when it returns.
OpenFile(r) ==
  /\ Does(r, "write")
  /\ dirs' = dirs \cup {fin}
  /\ file' = [file EXCEPT ![fin][r] = Partial]
  /\ UNCHANGED <<last, bestf, expire>> /\ Elsewhere

CloseFile(r) ==
  /\ Does(r, "close")
  /\ file' = [file EXCEPT ![fin][r] = Content]
  /\ UNCHANGED <<dirs, last, bestf, expire>> /\ Elsewhere

\* A link is removed and made again; a copy is overwritten.
Cleared == IF cfg.symlink THEN Gone ELSE Partial
Pointer(r) == IF cfg.symlink THEN Link(fin) ELSE file[fin][r]

UpdateLast(r) ==
  /\ \/ Does(r, "clearLast") /\ last' = [last EXCEPT ![r] = Cleared]
     \/ Does(r, "last") /\ last' = [last EXCEPT ![r] = Pointer(r)]
  /\ UNCHANGED <<dirs, file, bestf, expire>> /\ Elsewhere

UpdateBest(r) ==
  /\ \/ Does(r, "clearBest") /\ bestf' = [bestf EXCEPT ![r] = Cleared]
     \/ Does(r, "best") /\ bestf' = [bestf EXCEPT ![r] = Pointer(r)]
  /\ UNCHANGED <<dirs, file, last, expire>> /\ Elsewhere

AllAt(phase) == \A r \in Rank : sv[r] = phase

\* The first rank of each node removes old checkpoints, after the second barrier.
Cleanup(r) == IF Leader(r) THEN "list" ELSE "end"

SecondBarrier ==
  /\ AllAt("wrote")
  /\ sv' = [r \in Rank |-> Cleanup(r)]
  /\ saved' = saved \cup {fin}
  /\ UNCHANGED <<cfg, train, expire, disk, crashes>>

\* _expire_checkpoints: what the first file of best and of last links to is kept.
Targets(d) == LET present == {r \in Rank : d[r].kind \notin {"none", "gone"}}
              IN IF present = {} THEN {{}}
                 ELSE {IF d[r].kind = "link" THEN {d[r].fin} ELSE {} : r \in present}
Unprotected == {{}}
Protected == {b \cup l : b \in Targets(bestf), l \in Targets(last)}

\* All but the newest keep_last_n_checkpoints.
OneMore == {s \in dirs : cfg.keep # 0 /\ Cardinality({t \in dirs : t > s}) > cfg.keep}
Expired == {s \in dirs : cfg.keep # 0 /\ Cardinality({t \in dirs : t > s}) >= cfg.keep}

ListExpired(r) ==
  /\ Does(r, "list")
  /\ \E keep \in Protected : expire' = [expire EXCEPT ![r] = Expired \ keep]
  /\ UNCHANGED disk /\ Elsewhere

\* The directory a rank is about to remove: the oldest first.
Removes(r, s) == sv[r] = "remove" /\ s \in expire[r] /\ \A t \in expire[r] : s <= t

\* shutil.rmtree: the files of the directory in any order, then the directory.
RemoveTree(r) ==
  /\ \E s \in dirs :
       /\ Removes(r, s)
       /\ IF file[s] = Nothing
          THEN /\ dirs' = dirs \ {s}
               /\ expire' = [expire EXCEPT ![r] = @ \ {s}]
               /\ UNCHANGED file
          ELSE /\ \E q \in Rank : file[s][q] # None /\ file' = [file EXCEPT ![s][q] = None]
               /\ UNCHANGED <<dirs, expire>>
  /\ UNCHANGED <<last, bestf, sv>> /\ Elsewhere

\* Another node's leader got there first: the error is only logged.
RemoveFails(r) ==
  /\ \E s \in expire[r] :
       /\ Removes(r, s)
       /\ s \notin dirs \/ \E q \in Rank \ {r} : Removes(q, s)
  /\ expire' = [expire EXCEPT ![r] = {}]
  /\ UNCHANGED <<disk, sv>> /\ Elsewhere

RemovedAll(r) == expire[r] = {} /\ Does(r, "remove") /\ UNCHANGED <<expire, disk>> /\ Elsewhere

\* The third barrier, and best_loss.
ReturnFromSave ==
  /\ AllAt("end")
  /\ sv' = [r \in Rank |-> "idle"]
  /\ at' = ret /\ status' = 2
  /\ best' = IF cfg.val /\ best > val THEN val ELSE best
  /\ UNCHANGED <<cfg, launch, ret, fin, seen, lr, epoch, pos, resumed, stepped, val, loaded,
                 expire, disk, saved, crashes>>

(***************************************************************************)
(* The end of a job, wanted or not.                                        *)
(***************************************************************************)
Lost ==
  /\ at' = "down" /\ ret' = "none"
  /\ fin' = 0 /\ seen' = <<>> /\ lr' = 0 /\ epoch' = 0 /\ pos' = 0 /\ resumed' = -1
  /\ stepped' = FALSE /\ status' = 0 /\ val' = 0 /\ best' = Infinity
  /\ loaded' = [r \in Rank |-> 0]
  /\ sv' = [r \in Rank |-> "idle"] /\ expire' = [r \in Rank |-> {}]
  /\ UNCHANGED <<cfg, disk, saved>>

Crash ==
  /\ at \notin {"down", "done", "refused", "apart"}
  /\ crashes < cfg.crashes /\ crashes' = crashes + 1
  /\ Lost /\ UNCHANGED launch

\* The user trains on, with a higher limit.
Relaunch ==
  /\ at = "done" /\ launch < Len(cfg.launches)
  /\ launch' = launch + 1
  /\ Lost /\ UNCHANGED crashes

Over == /\ \/ at = "done" /\ launch = Len(cfg.launches)
           \/ at \in {"refused", "apart"}
        /\ UNCHANGED vars

Loop == \/ Launch \/ BeginTrain \/ BeginEpoch \/ TrainStep \/ SaveEverySteps \/ AtLimit
        \/ ValidateEverySteps \/ SaveEveryEpochs \/ ValidateEveryEpochs \/ EndEpoch
        \/ ValidateAndSave \/ BeginSave \/ SecondBarrier \/ ReturnFromSave \/ Relaunch
Saves(r) == \/ OpenFile(r) \/ CloseFile(r) \/ UpdateLast(r) \/ UpdateBest(r)
            \/ ListExpired(r) \/ RemoveTree(r) \/ RemoveFails(r) \/ RemovedAll(r)

Next == Loop \/ (\E r \in Rank : Saves(r)) \/ Crash \/ Over

Spec == Init /\ [][Next]_vars
FairSpec == Spec /\ WF_vars(Loop) /\ \A r \in Rank : WF_vars(Saves(r))

(***************************************************************************)
(* Properties.                                                             *)
(***************************************************************************)
\* Every launch so far has gone on where the former left off: limits do not fall,
\* and the newest checkpoint is resumed from, which is last's if nothing crashed.
Onward ==
  \/ launch = 1 /\ crashes = 0
  \/ /\ \A m, n \in 1..Len(cfg.launches) : m <= n => Limit(cfg, m) <= Limit(cfg, n)
     /\ "best" \notin cfg.resume
     /\ "last" \in cfg.resume => cfg.crashes = 0 /\ cfg.saveLast

\* A save is due after step s of launch n.
SavesAfter(c, n, s) ==
  \/ Due(s, c.everySteps)
  \/ s = Limit(c, n)
  \/ s % StepsPerEpoch = 0 /\ Due(s \div StepsPerEpoch, c.everyEpochs)
Beyond(c, s) == \E n \in 1..Len(c.launches) : s < Limit(c, n)

\* A scheduler that is stepped per epoch is saved at the end of one, before the
\* step it is due.
SchedulerLate ==
  cfg.interval = "epoch" /\ \E s \in AllSteps : /\ s % StepsPerEpoch = 0 /\ Beyond(cfg, s)
                                                /\ \E n \in 1..Len(cfg.launches) : SavesAfter(cfg, n, s)

\* The learning rates are those of a job nobody interrupts.
RatesKept ==
  \A s \in 1..fin : seen[s].lr = CASE cfg.interval = "step" -> s - 1
                                   [] cfg.interval = "epoch" -> (s - 1) \div StepsPerEpoch
                                   [] OTHER -> 0

\* Interrupted and resumed as it may be, the training is that of a job nobody
\* interrupts: the same batches, each once and in its epoch (the dry run, the
\* resumed loader and finished_train_steps agree), with the same learning rates
\* (the scheduler is stepped once per train step, or once per epoch done, and
\* is restored with the rest).  Two things are excepted: a scheduler stepped per
\* epoch, if a save is due at the end of one (SchedulerLate); and ranks resume
\* from different steps, or from less than a checkpoint, if links or copies in
\* last or best are used that a crash or an older resume has left.
AsUninterrupted ==
  /\ at = "apart" => ~Onward
  /\ \A s \in 1..fin :
       LET idx == (s - 1) % StepsPerEpoch
           end == (idx + 1) * UpdateFreq
       IN /\ seen[s].epoch = (s - 1) \div StepsPerEpoch
          /\ seen[s].from = idx * UpdateFreq
          /\ seen[s].to = IF end < Loader THEN end ELSE Loader
  /\ SchedulerLate \/ RatesKept

\* Wherever the job crashes and whatever expires: once a save is complete there
\* is, for ever, a checkpoint of that step or of a later one from which all ranks
\* can resume; and a link in last or best to it leads to a file that is there and
\* wholly written.  (A save cut short by a crash may be linked to already.)  Only
\* a launch that goes on from elsewhere can undo that: it saves steps again, which
\* truncates their files first.
Restorable == \A s \in saved : Newest >= s
LinksWhole ==
  \A r \in Rank : \A l \in {last[r], bestf[r]} :
    l.kind = "link" /\ l.fin \in saved /\ ~(at = "saving" /\ l.fin = fin)
      => file[l.fin][r].kind = "whole"
CheckpointsSound == Onward => Restorable /\ LinksWhole

\* The newest keep_last_n_checkpoints that were saved or resumed from are there,
\* whole, at any time and however many nodes remove the older ones at once; and
\* if there is one node, then after a save the others are gone, unless last or
\* best links to them.  A launch that goes on from an older step voids this: the
\* numbers of steps, not the times of saves, say what is old.
NewestThere ==
  \A s \in saved : cfg.keep = 0 \/ Cardinality({t \in saved : t > s}) < cfg.keep => Complete(s)
OthersGone ==
  LET linked == {f.fin : f \in {x \in {last[r] : r \in Rank} \cup {bestf[r] : r \in Rank} : x.kind = "link"}}
  IN AllAt("end") /\ cfg.keep # 0 /\ cfg.localWorldSize = R
       => \A s \in dirs : s \in linked \/ Cardinality({t \in dirs : t > s}) < cfg.keep
KeepsLastN == Onward => NewestThere /\ OthersGone

\* Between the saves of a launch from the start, best is the checkpoint with the
\* lowest loss of all that were saved.
BestIsLowest ==
  at # "saving" /\ launch = 1 /\ crashes = 0 /\ cfg.val /\ cfg.saveBest =>
    \A r \in Rank : \A s \in saved : LET b == Resolve(bestf[r], r) IN b.kind = "whole" /\ LossAt(b.fin) <= LossAt(s)

\* The training is a durable one: interruptions cost no more than what was done
\* since the last complete save, and with finitely many of them it is finished,
\* as long as the launches go on where the former left off.
Newer(S) == IF S = {} THEN 0 ELSE CHOOSE s \in S : \A t \in S : t <= s
Durable == INSTANCE DurableTraining WITH Steps <- Steps, steady <- Onward,
             done <- IF at = "down" THEN Newest ELSE fin, safe <- Newer(saved)
Implements == Durable!Spec
=============================================================================
