------------------------ MODULE MCTrainerCheckpoint ------------------------
(***************************************************************************)
(* Small trainings for TLC: two ranks, three micro batches per epoch in    *)
(* steps of two, two epochs.                                               *)
(***************************************************************************)
EXTENDS TrainerCheckpoint

Base == [launches |-> <<[epochs |-> 2, steps |-> 0]>>, loader |-> "plain", val |-> TRUE, interval |-> "step",
         everySteps |-> 1, everyEpochs |-> 0, valSteps |-> 0, valEpochs |-> 1, keep |-> 1, symlink |-> TRUE,
         saveLast |-> TRUE, saveBest |-> TRUE, localWorldSize |-> 2, resume |-> {"dir"}, loss |-> <<3, 2, 4, 2>>,
         crashes |-> 2]

\* Crashes anywhere; the newest complete directory is resumed from.
Crashing ==
  {Base, [Base EXCEPT !.symlink = FALSE, !.keep = 2, !.loader = "resumable"],
   [Base EXCEPT !.localWorldSize = 1, !.val = FALSE, !.interval = "none"],
   [Base EXCEPT !.everySteps = 0, !.everyEpochs = 1, !.valSteps = 2, !.keep = 0, !.loader = "resumable"],
   [Base EXCEPT !.everySteps = 2, !.valSteps = 1, !.saveLast = FALSE, !.loss = <<2, 3, 3, 4>>],
   [Base EXCEPT !.everySteps = 3, !.valSteps = 1, !.saveBest = FALSE, !.interval = "epoch",
     !.launches = <<[epochs |-> 0, steps |-> 3], [epochs |-> 0, steps |-> 4]>>, !.crashes = 1]}

\* Trained on after it was done, without crashes.
Quiet == [Base EXCEPT !.crashes = 0]
Twice == <<[epochs |-> 1, steps |-> 0], [epochs |-> 2, steps |-> 0]>>
Short == <<[epochs |-> 2, steps |-> 3], [epochs |-> 2, steps |-> 0]>>
Relaunched ==
  {[Quiet EXCEPT !.launches = l, !.resume = {"last"}, !.keep = k] : l \in {Twice, Short}, k \in 1..2}
  \cup {[Quiet EXCEPT !.launches = Short, !.resume = {"last"}, !.loader = "resumable", !.saveBest = FALSE],
        [Quiet EXCEPT !.launches = Twice, !.resume = {"last"}, !.loader = "resumable", !.everySteps = 0, !.everyEpochs = 1]}

\* One launch that nothing interrupts.
Single == {[Quiet EXCEPT !.loss = l, !.symlink = s, !.everySteps = n] :
             l \in {<<3, 2, 4, 2>>, <<1, 2, 3, 4>>, <<4, 4, 3, 3>>}, s \in BOOLEAN, n \in 1..2}

\* Resumed from last after a crash, from best, or with a lower limit: the ranks may
\* meet different steps, and steps are saved again.  And a scheduler stepped per
\* epoch that is saved at the end of one.
Once == [Base EXCEPT !.crashes = 1]
Astray ==
  {[Once EXCEPT !.resume = {"last"}, !.symlink = s] : s \in BOOLEAN}
  \cup {[Once EXCEPT !.resume = {"dir", "best"}, !.symlink = s, !.loss = <<2, 3, 1, 4>>] : s \in BOOLEAN}
  \cup {[Once EXCEPT !.resume = {"best"}, !.launches = Short, !.keep = 2, !.localWorldSize = 1],
        [Quiet EXCEPT !.launches = <<[epochs |-> 1, steps |-> 0], [epochs |-> 0, steps |-> 1], [epochs |-> 2, steps |-> 0]>>]}
MCLate == {[Once EXCEPT !.interval = "epoch", !.everySteps = 0, !.everyEpochs = 1]}

MCConfig == Crashing \cup Relaunched \cup Single \cup Astray \cup MCLate
=============================================================================
