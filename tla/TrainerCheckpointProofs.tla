---------------------- MODULE TrainerCheckpointProofs ----------------------
(***************************************************************************)
(* Theorems of TrainerCheckpoint for any number of ranks, any loader and   *)
(* any configurations that the assumptions allow.                          *)
(*                                                                         *)
(* There are two invariants.  BInv holds whatever is resumed from: where   *)
(* the ranks are in the loop says how far the training is (Placed), it has *)
(* been trained on what it should (Trained), and so has every checkpoint   *)
(* (Kept).  IInv holds while launches go on where the former left off      *)
(* (Onward): which saves are behind (Dealt), and every step that a save is *)
(* due after and that is behind has a complete checkpoint at it or after   *)
(* it (Covered), even while the newest is being written.  This is why a    *)
(* directory left by a crash is never newer than the next save (Recorded). *)
(* And what a rank still has to do in a save says what it has written      *)
(* (Written), or may remove (Removing).                                    *)
(***************************************************************************)
EXTENDS TrainerCheckpoint, FiniteSetTheorems, WellFoundedInduction, NaturalsInduction, TLAPS

(***************************************************************************)
(* An uninterrupted training.                                              *)
(***************************************************************************)
\* The learning rate after n steps, the batch of step s, and how far into the
\* loader k steps of an epoch and n steps of the training get.
Rate(c, n) == CASE c.interval = "step" -> n
                [] c.interval = "epoch" -> n \div StepsPerEpoch
                [] OTHER -> 0
Taken(k) == IF k * UpdateFreq < Loader THEN k * UpdateFreq ELSE Loader
Batch(s, l) ==
    LET idx == (s - 1) % StepsPerEpoch
    IN [epoch |-> (s - 1) \div StepsPerEpoch, from |-> idx * UpdateFreq, to |-> Taken(idx + 1), lr |-> l]
PosAfter(n) == Taken(((n - 1) % StepsPerEpoch) + 1)

\* SchedulerLate of a configuration; apart from it the learning rates are right.
Late(c) == c.interval = "epoch" /\ \E s \in AllSteps : /\ s % StepsPerEpoch = 0 /\ Beyond(c, s)
                                                      /\ \E n \in 1..Len(c.launches) : SavesAfter(c, n, s)
Uninterrupted(c, q, n) ==
    /\ Len(q) = n
    /\ \A s \in 1..n : q[s] = Batch(s, q[s].lr) /\ (~Late(c) => q[s].lr = Rate(c, s - 1))

\* f is the checkpoint of step n; d leads to it.
IsOf(c, f, n) ==
    /\ f.kind = "whole" /\ f.fin = n /\ f.pos = PosAfter(n)
    /\ Uninterrupted(c, f.seen, n)
    /\ ~Late(c) /\ Beyond(c, n) => f.lr = Rate(c, n)
LeadsTo(c, d, n) == IF c.symlink THEN d = Link(n) ELSE IsOf(c, d, n)

(***************************************************************************)
(* Types.                                                                  *)
(***************************************************************************)
Loops   == {"step", "stepped", "limit", "validate", "save", "saving", "valepoch", "next"}
Places  == {"down", "launched", "epoch", "done"} \cup Loops \cup {"refused", "apart"}
Writes  == {"write", "close", "clearLast", "last", "clearBest", "best", "wrote"}
Cleans  == {"list", "remove", "end"}
Batches == [epoch : Nat, from : Nat, to : Nat, lr : Nat]
Files   == [kind : {"none", "partial", "gone", "whole", "link"}, fin : Nat, seen : Seq(Batches), lr : Nat, pos : Nat]

TypeOK ==
    /\ cfg \in Config /\ launch \in 1..Len(cfg.launches)
    /\ at \in Places /\ ret \in {"none", "limit", "next", "valepoch"}
    /\ fin \in 0..Steps /\ seen \in Seq(Batches) /\ lr \in Nat
    /\ epoch \in Nat /\ pos \in 0..Loader /\ resumed \in {-1} \cup 0..Loader
    /\ stepped \in BOOLEAN /\ status \in 0..2
    /\ val \in 0..Infinity /\ best \in 0..Infinity
    /\ loaded \in [Rank -> Nat]
    /\ sv \in [Rank -> {"idle"} \cup Writes \cup Cleans]
    /\ expire \in [Rank -> SUBSET AllSteps]
    /\ dirs \subseteq AllSteps /\ file \in [AllSteps -> [Rank -> Files]]
    /\ last \in [Rank -> Files] /\ bestf \in [Rank -> Files]
    /\ saved \subseteq AllSteps /\ crashes \in Nat

(***************************************************************************)
(* Whatever is resumed from.                                               *)
(***************************************************************************)
\* Steps of the current epoch.
InEpoch == fin - epoch * StepsPerEpoch
Saving == at \in {"validate", "save", "saving"}

Placed ==
    /\ at \in {"epoch"} \cup Loops => fin <= MaxTrainSteps
    /\ at = "down" => fin = 0
    /\ at = "launched" => epoch = fin \div StepsPerEpoch
    /\ at \in Loops => InEpoch \in 0..StepsPerEpoch /\ pos = Taken(InEpoch) /\ resumed = -1
    /\ at = "epoch" => InEpoch \in 0..(StepsPerEpoch - 1)
    /\ at \in {"launched", "epoch"} => resumed = -1 \/ (fin > 0 /\ resumed = PosAfter(fin))
    /\ at \in {"epoch"} \cup Loops => EpochsLeft
    /\ at \in {"epoch", "step", "valepoch"} => fin < MaxTrainSteps
    /\ at \in Loops \ {"step"} => stepped
    /\ at \in Loops => IF stepped THEN InEpoch > 0 ELSE InEpoch < StepsPerEpoch
    /\ at = "valepoch" => InEpoch = StepsPerEpoch
    /\ at = "next" => InEpoch = StepsPerEpoch \/ fin = MaxTrainSteps
    /\ at = "done" => fin >= MaxTrainSteps
    /\ Saving => CASE ret = "limit" -> Due(fin, cfg.everySteps)
                   [] ret = "next" -> fin = MaxTrainSteps
                   [] ret = "valepoch" -> /\ InEpoch = StepsPerEpoch /\ fin < MaxTrainSteps
                                          /\ Due(epoch + 1, cfg.everyEpochs)
                   [] OTHER -> FALSE

Trained ==
    /\ Uninterrupted(cfg, seen, fin)
    /\ ~Late(cfg) =>
         /\ at = "launched" /\ fin < MaxTrainSteps => lr = Rate(cfg, fin)
         /\ at \in {"epoch"} \cup Loops => lr = IF cfg.interval = "epoch" THEN epoch ELSE Rate(cfg, fin)
    /\ at \in Loops => val = 0 \/ val = LossAt(fin)
    /\ at \in {"save", "saving"} /\ cfg.val => val = LossAt(fin)

Kept ==
    /\ \A s \in AllSteps, r \in Rank :
         /\ file[s][r].kind # "link"
         /\ file[s][r].kind = "whole" => IsOf(cfg, file[s][r], s)
    /\ \A r \in Rank : \A l \in {last[r], bestf[r]} :
         /\ l.kind = "link" => l = Link(l.fin) /\ l.fin \in AllSteps
         /\ l.kind = "whole" => IsOf(cfg, l, l.fin) /\ l.fin \in AllSteps

Outside ==
    \A r \in Rank : /\ at # "saving" => sv[r] = "idle"
                    /\ sv[r] # "remove" => expire[r] = {}

BInv == TypeOK /\ Placed /\ Trained /\ Kept /\ Outside

(***************************************************************************)
(* The checkpoints, while launches go on where the former left off.        *)
(***************************************************************************)
\* Between the first two barriers of a save, and between the last two.
Rewriting == at = "saving" /\ sv[0] \in Writes
Cleaning == at = "saving" /\ sv[0] \notin Writes

\* Nothing is refused, nothing but a step of the launch is resumed from, and the
\* first launch finds nothing.
Resumed ==
    /\ at \notin {"refused", "apart"}
    /\ at # "down" => fin <= MaxTrainSteps
    /\ at = "down" /\ launch = 1 /\ crashes = 0 =>
         /\ dirs = {} /\ file = [s \in AllSteps |-> Nothing]
         /\ last = Nothing /\ bestf = Nothing /\ saved = {}

\* The saves that are due up to here have been made.
Dealt ==
    /\ at \in Loops \ {"saving"} /\ stepped => (status = 2 <=> Complete(fin))
    /\ at = "saving" => status # 2
    /\ at \in {"stepped", "validate", "save"} => status # 2
    /\ at = "stepped" => status = 0
    /\ at = "limit" => status # 1 /\ (Due(fin, cfg.everySteps) => status = 2)
    /\ at = "step" /\ fin > 0 /\ Due(fin, cfg.everySteps) => Complete(fin)
    /\ fin > 0 /\ SavesAfter(cfg, launch, fin)
         /\ (at \in {"epoch", "valepoch", "next", "done"} \/ (at = "step" /\ ~stepped)) => Complete(fin)
    /\ at = "launched" /\ fin > 0 => Complete(fin)

\* A complete checkpoint that is not being written.
Sure(n) == Complete(n) /\ ~(Rewriting /\ n = fin)
Covered(m) == \E n \in AllSteps : Sure(n) /\ m <= n

Cover ==
    /\ \A s \in saved : Covered(s)
    /\ \A d \in dirs : d <= MaxTrainSteps
    /\ \A d \in dirs : \A m \in 1..(d - 1) : SavesAfter(cfg, launch, m) => Covered(m)
    /\ at # "down" => /\ \A m \in 1..(fin - 1) : SavesAfter(cfg, launch, m) => Covered(m)
                      /\ \A n \in AllSteps : Complete(n) => n <= fin

\* What is not wanted is not there.
Unwanted ==
    /\ ~cfg.saveLast => last = Nothing
    /\ ~cfg.saveBest => bestf = Nothing

\* A directory whose save was cut short is the newest, and of a step that is saved
\* again.  A complete checkpoint is recorded before training goes on.
Recorded ==
    /\ \A d \in dirs \ saved : SavesAfter(cfg, launch, d) /\ \A e \in dirs \cup saved : e <= d
    /\ \A n \in AllSteps : Complete(n) => n \in saved \/ at = "down" \/ (Rewriting /\ n = fin)
    /\ NewestThere

\* If one rank has a link, all have the same.
Alike(d) == \A q, r \in Rank : d[q].kind = "link" => d[r] = d[q]

\* The links of best differ only before the first save of a launch is done.
Paired == ~(Rewriting /\ BestNow) => (best = Infinity \/ Alike(bestf))

\* What a rank has done between the first two barriers.
WrittenBy(r) ==
    /\ sv[r] \in Writes
    /\ sv[r] \in {"clearLast", "last"} => cfg.saveLast
    /\ sv[r] \in {"clearBest", "best"} => cfg.saveBest /\ BestNow
    /\ sv[r] # "write" => fin \in dirs
    /\ sv[r] \notin {"write", "close"} => IsOf(cfg, file[fin][r], fin)
    /\ sv[r] \in {"clearBest", "best", "wrote"} /\ cfg.saveLast => LeadsTo(cfg, last[r], fin)
    /\ sv[r] = "wrote" /\ cfg.saveBest /\ BestNow => LeadsTo(cfg, bestf[r], fin)

Written ==
    Rewriting => /\ \A d \in dirs : d <= fin
                 /\ fin \notin saved
                 /\ \A r \in Rank : WrittenBy(r)

LinkedTo(s) == \E r \in Rank : last[r] = Link(s) \/ bestf[r] = Link(s)

\* s is not among the newest steps.
Old(s) == cfg.keep # 0 /\ Cardinality({t \in saved : t > s}) >= cfg.keep

Removing ==
    Cleaning =>
      /\ \A d \in dirs : d <= fin
      /\ dirs \subseteq saved
      /\ fin \in saved /\ Complete(fin)
      /\ Alike(last) /\ Alike(bestf)
      /\ cfg.saveLast => \A r \in Rank : LeadsTo(cfg, last[r], fin)
      /\ \A r \in Rank :
           /\ sv[r] \in Cleans
           /\ sv[r] # "end" => Leader(r)
           /\ \A s \in expire[r] : s < fin /\ ~LinkedTo(s) /\ Old(s)

\* With a single node: what is not among the newest is linked to or on its way out.
Trimmed ==
    Cleaning /\ cfg.keep # 0 /\ cfg.localWorldSize = R /\ sv[0] # "list" =>
      /\ expire[0] \subseteq dirs
      /\ \A s \in dirs : \/ s \in expire[0] \/ LinkedTo(s)
                         \/ Cardinality({t \in dirs : t > s}) < cfg.keep

\* last leads to the newest checkpoint, if nothing crashes.
LastIsNewest ==
    cfg.saveLast /\ cfg.crashes = 0 /\ at # "saving" =>
      /\ (\A n \in AllSteps : ~Complete(n)) => last = Nothing
      /\ \A n \in AllSteps : Complete(n) /\ (\A m \in AllSteps : Complete(m) => m <= n) =>
           \A r \in Rank : LeadsTo(cfg, last[r], n)

\* best has the lowest loss so far.
First == launch = 1 /\ crashes = 0 /\ cfg.val /\ cfg.saveBest
Low(d, x) ==
    /\ d.fin \in AllSteps
    /\ d.kind = "whole" \/ (d.kind = "link" /\ d.fin \in saved)
    /\ LossAt(d.fin) <= x
Lowest ==
    First =>
      /\ \A s \in saved : best <= LossAt(s) \/ (Cleaning /\ s = fin)
      /\ ~Cleaning /\ best = Infinity => saved = {}
      /\ ~Cleaning /\ ~(Rewriting /\ BestNow) /\ best # Infinity => \A r \in Rank : Low(bestf[r], best)
      /\ Cleaning => \A r \in Rank : Low(bestf[r], IF BestNow THEN LossAt(fin) ELSE best)

IInv == /\ BInv /\ Resumed /\ Dealt /\ Cover /\ Unwanted /\ Recorded /\ Paired /\ Written /\ Removing
        /\ Trimmed /\ LastIsNewest /\ Lowest /\ LinksWhole

(***************************************************************************)
(* Arithmetic.                                                             *)
(***************************************************************************)
\* An epoch has the steps its micro batches need.
LEMMA EpochSteps ==
    /\ StepsPerEpoch \in Nat \ {0}
    /\ (StepsPerEpoch - 1) * UpdateFreq < Loader
    /\ Loader <= StepsPerEpoch * UpdateFreq
<1>1. /\ Loader \in Nat \ {0} /\ UpdateFreq \in Nat \ {0}
  BY TrainerAssumption
<1>2. \A a \in Nat, b \in Nat \ {0} : /\ a \div b \in Nat /\ a % b \in 0..(b - 1)
                                      /\ a = b * (a \div b) + (a % b)
  BY Z3
<1>3. PICK a \in Nat : a = Loader + UpdateFreq - 1
  BY <1>1
<1>4. PICK m \in 0..(UpdateFreq - 1) : /\ StepsPerEpoch \in Nat
                                       /\ Loader + UpdateFreq - 1 = UpdateFreq * StepsPerEpoch + m
  <2>1. StepsPerEpoch = a \div UpdateFreq
    BY <1>3 DEF StepsPerEpoch
  <2> QED BY <1>1, <1>2, <1>3, <2>1
<1>5. StepsPerEpoch # 0
  BY <1>1, <1>4
<1> HIDE DEF StepsPerEpoch
<1>6. UpdateFreq * StepsPerEpoch = StepsPerEpoch * UpdateFreq
      /\ (StepsPerEpoch - 1) * UpdateFreq = StepsPerEpoch * UpdateFreq - UpdateFreq
  BY <1>1, <1>4
<1> QED BY <1>1, <1>4, <1>5, <1>6

\* Division by the steps of an epoch.
LEMMA Division ==
    ASSUME NEW n \in Nat
    PROVE  /\ n \div StepsPerEpoch \in Nat
           /\ n % StepsPerEpoch \in 0..(StepsPerEpoch - 1)
           /\ n = (n \div StepsPerEpoch) * StepsPerEpoch + (n % StepsPerEpoch)
BY EpochSteps, Z3

\* The epoch and the place in it determine each other.
LEMMA Unique ==
    ASSUME NEW e \in Nat, NEW k \in 0..(StepsPerEpoch - 1)
    PROVE  /\ (e * StepsPerEpoch + k) \div StepsPerEpoch = e
           /\ (e * StepsPerEpoch + k) % StepsPerEpoch = k
BY EpochSteps, Z3

LEMMA Remainder ==
    ASSUME NEW n \in Nat
    PROVE  /\ n - (n \div StepsPerEpoch) * StepsPerEpoch = n % StepsPerEpoch
           /\ n % StepsPerEpoch \in 0..(StepsPerEpoch - 1)
<1>1. PICK e \in Nat, k \in 0..(StepsPerEpoch - 1) :
        e = n \div StepsPerEpoch /\ k = n % StepsPerEpoch /\ n = e * StepsPerEpoch + k
  BY Division
<1>2. e * StepsPerEpoch \in Nat
  BY EpochSteps
<1> QED BY <1>1, <1>2, EpochSteps

\* The k-th step of an epoch, and what comes before the next.
LEMMA TakenFacts ==
    /\ \A k \in Nat : Taken(k) \in 0..Loader
    /\ Taken(0) = 0
    /\ \A k \in 0..(StepsPerEpoch - 1) :
         /\ k * UpdateFreq < Loader
         /\ Taken(k) = k * UpdateFreq
         /\ Taken(k + 1) = IF Taken(k) + UpdateFreq < Loader THEN Taken(k) + UpdateFreq ELSE Loader
    /\ Taken(StepsPerEpoch) = Loader
<1>1. /\ Loader \in Nat \ {0} /\ UpdateFreq \in Nat \ {0}
  BY TrainerAssumption
<1>2. \A k \in Nat : k * UpdateFreq \in Nat /\ (k + 1) * UpdateFreq = k * UpdateFreq + UpdateFreq
  BY <1>1
<1>3. \A k \in 0..(StepsPerEpoch - 1) : k * UpdateFreq < Loader
  <2> TAKE k \in 0..(StepsPerEpoch - 1)
  <2>1. k * UpdateFreq <= (StepsPerEpoch - 1) * UpdateFreq
    BY <1>1, EpochSteps
  <2>2. (StepsPerEpoch - 1) * UpdateFreq \in Int /\ k * UpdateFreq \in Int
    BY <1>1, EpochSteps
  <2> QED BY <1>1, <2>1, <2>2, EpochSteps
<1>4. 0 * UpdateFreq = 0
  BY <1>1
<1>5. StepsPerEpoch * UpdateFreq \in Nat
  BY <1>2, EpochSteps
<1>6. \A k \in Nat : Taken(k) \in 0..Loader
  BY <1>1, <1>2 DEF Taken
<1>7. Taken(0) = 0 /\ Taken(StepsPerEpoch) = Loader
  BY <1>1, <1>4, <1>5, EpochSteps DEF Taken
<1>8. \A k \in 0..(StepsPerEpoch - 1) :
         /\ Taken(k) = k * UpdateFreq
         /\ Taken(k + 1) = IF Taken(k) + UpdateFreq < Loader THEN Taken(k) + UpdateFreq ELSE Loader
  BY <1>1, <1>2, <1>3, EpochSteps DEF Taken
<1> QED BY <1>3, <1>6, <1>7, <1>8

\* Where the n-th step of a training is when k steps of epoch e are done.
LEMMA Positions ==
    ASSUME NEW n \in Nat, NEW e \in Nat, n - e * StepsPerEpoch \in 0..StepsPerEpoch
    PROVE  /\ n - e * StepsPerEpoch < StepsPerEpoch =>
                n \div StepsPerEpoch = e /\ n % StepsPerEpoch = n - e * StepsPerEpoch
           /\ n - e * StepsPerEpoch = StepsPerEpoch =>
                n \div StepsPerEpoch = e + 1 /\ n % StepsPerEpoch = 0
           /\ n - e * StepsPerEpoch > 0 =>
                /\ (n - 1) \div StepsPerEpoch = e
                /\ (n - 1) % StepsPerEpoch = n - e * StepsPerEpoch - 1
                /\ PosAfter(n) = Taken(n - e * StepsPerEpoch)
<1>1. PICK k \in 0..StepsPerEpoch : n = e * StepsPerEpoch + k
  BY EpochSteps
<1>2. n - e * StepsPerEpoch = k /\ e * StepsPerEpoch \in Nat
  BY <1>1, EpochSteps
<1>3. k < StepsPerEpoch => n \div StepsPerEpoch = e /\ n % StepsPerEpoch = k
  BY <1>1, EpochSteps, Unique
<1>4. k = StepsPerEpoch => n \div StepsPerEpoch = e + 1 /\ n % StepsPerEpoch = 0
  <2>1. (e + 1) * StepsPerEpoch + 0 = e * StepsPerEpoch + StepsPerEpoch
    BY EpochSteps
  <2> QED BY <1>1, <2>1, EpochSteps, Unique
<1>5. k > 0 => (n - 1) \div StepsPerEpoch = e /\ (n - 1) % StepsPerEpoch = k - 1
  <2>1. k > 0 => n - 1 = e * StepsPerEpoch + (k - 1) /\ k - 1 \in 0..(StepsPerEpoch - 1)
    BY <1>1, <1>2, EpochSteps
  <2> QED BY <2>1, Unique
<1>6. k > 0 => PosAfter(n) = Taken(k)
  <2>1. k > 0 => (k - 1) + 1 = k
    OBVIOUS
  <2> QED BY <1>5, <2>1 DEF PosAfter
<1> QED BY <1>2, <1>3, <1>4, <1>5, <1>6, EpochSteps

\* Where a training resumes.
LEMMA ResumePosition ==
    ASSUME NEW n \in Nat \ {0}
    PROVE  /\ n % StepsPerEpoch = 0 => PosAfter(n) = Loader
           /\ n % StepsPerEpoch # 0 => PosAfter(n) = Taken(n % StepsPerEpoch) /\ PosAfter(n) # Loader
<1>1. PICK e \in Nat, k \in 0..(StepsPerEpoch - 1) :
        e = n \div StepsPerEpoch /\ k = n % StepsPerEpoch /\ n = e * StepsPerEpoch + k
  BY Division
<1>2. e * StepsPerEpoch \in Nat /\ (k = 0 => e # 0)
  BY <1>1, EpochSteps
<1>3. CASE k = 0
  <2>1. PICK f \in Nat : n - f * StepsPerEpoch = StepsPerEpoch
    <3>1. e - 1 \in Nat /\ n - (e - 1) * StepsPerEpoch = StepsPerEpoch
      BY <1>1, <1>2, <1>3, EpochSteps
    <3> QED BY <3>1
  <2>2. PosAfter(n) = Taken(StepsPerEpoch)
    <3>1. n - f * StepsPerEpoch \in 0..StepsPerEpoch /\ n - f * StepsPerEpoch > 0
      BY <2>1, EpochSteps
    <3>2. PosAfter(n) = Taken(n - f * StepsPerEpoch)
      BY <3>1, Positions
    <3> QED BY <2>1, <3>2
  <2> QED BY <1>1, <1>3, <2>1, <2>2, TakenFacts
<1>4. CASE k # 0
  <2>1. n - e * StepsPerEpoch = k
    BY <1>1, <1>2
  <2>2. PosAfter(n) = Taken(n - e * StepsPerEpoch)
    <3>1. n - e * StepsPerEpoch \in 0..StepsPerEpoch /\ n - e * StepsPerEpoch > 0
      BY <1>4, <2>1, EpochSteps
    <3> QED BY <3>1, Positions
  <2>3. Taken(k) # Loader
    <3>1. Taken(k) = k * UpdateFreq /\ k * UpdateFreq < Loader /\ Taken(k) \in 0..Loader
      BY <1>1, TakenFacts
    <3> QED BY <3>1, TrainerAssumption
  <2> QED BY <1>1, <1>4, <2>1, <2>2, <2>3
<1> QED BY <1>3, <1>4

(***************************************************************************)
(* Configurations.                                                         *)
(***************************************************************************)
LEMMA Configured ==
    ASSUME NEW c \in Config
    PROVE  /\ c.launches \in Seq([epochs : Nat, steps : Nat]) /\ Len(c.launches) \in Nat \ {0}
           /\ c.loader \in {"plain", "resumable"} /\ c.interval \in {"step", "epoch", "none"}
           /\ c.everySteps \in Nat /\ c.everyEpochs \in Nat /\ c.valSteps \in Nat /\ c.valEpochs \in Nat
           /\ c.keep \in Nat /\ c.localWorldSize \in Nat \ {0} /\ c.crashes \in Nat
           /\ c.val \in BOOLEAN /\ c.symlink \in BOOLEAN /\ c.saveLast \in BOOLEAN /\ c.saveBest \in BOOLEAN
           /\ \A s \in AllSteps : c.loss[s] \in 1..98
<1>1. c \in [launches : Seq([epochs : Nat, steps : Nat]), loader : {"plain", "resumable"}, val : BOOLEAN,
        interval : {"step", "epoch", "none"}, everySteps : Nat, everyEpochs : Nat, valSteps : Nat,
        valEpochs : Nat, keep : Nat, symlink : BOOLEAN, saveLast : BOOLEAN, saveBest : BOOLEAN,
        localWorldSize : Nat \ {0}, resume : SUBSET {"dir", "last", "best"}, loss : Seq(Nat),
        crashes : Nat]
  BY TrainerAssumption
<1>2. Len(c.launches) > 0 /\ \A s \in AllSteps : c.loss[s] \in 1..(Infinity - 1)
  BY TrainerAssumption
<1> QED BY <1>1, <1>2 DEF Infinity

\* What max_train_steps of a launch is.
LEMMA Limits ==
    ASSUME NEW c \in Config, NEW l \in 1..Len(c.launches)
    PROVE  LET e == c.launches[l].epochs  s == c.launches[l].steps
           IN /\ e \in Nat /\ s \in Nat
              /\ Limit(c, l) \in 0..Steps /\ Steps \in Nat
              /\ s # 0 => Limit(c, l) <= s
              /\ e # 0 => Limit(c, l) <= e * StepsPerEpoch
              /\ Limit(c, l) = s \/ (e # 0 /\ Limit(c, l) = e * StepsPerEpoch)
<1>1. c.launches[l] \in [epochs : Nat, steps : Nat]
  <2>1. c.launches \in Seq([epochs : Nat, steps : Nat])
    BY Configured
  <2>2. ASSUME NEW S, NEW q \in Seq(S), NEW i \in 1..Len(q) PROVE q[i] \in S
    OBVIOUS
  <2> QED BY <2>1, <2>2
<1>2. PICK e \in Nat, s \in Nat : e = c.launches[l].epochs /\ s = c.launches[l].steps
  BY <1>1
<1>3. Limit(c, l) <= Steps /\ Steps \in Nat
  BY TrainerAssumption
<1>4. PICK x \in Nat : x = e * StepsPerEpoch /\ x = StepsPerEpoch * e
  BY EpochSteps
<1>5. Limit(c, l) = IF e = 0 THEN s ELSE IF s = 0 THEN x ELSE IF s < x THEN s ELSE x
  BY <1>2, <1>4 DEF Limit
<1> HIDE DEF Limit
<1> QED BY <1>2, <1>3, <1>4, <1>5

LEMMA LimitNow ==
    ASSUME TypeOK
    PROVE  LET e == cfg.launches[launch].epochs  s == cfg.launches[launch].steps
           IN /\ e \in Nat /\ s \in Nat
              /\ MaxTrainSteps \in 0..Steps /\ Steps \in Nat
              /\ s # 0 => MaxTrainSteps <= s
              /\ e # 0 => MaxTrainSteps <= e * StepsPerEpoch
              /\ MaxTrainSteps = s \/ (e # 0 /\ MaxTrainSteps = e * StepsPerEpoch)
<1>1. cfg \in Config /\ launch \in 1..Len(cfg.launches)
  BY DEF TypeOK
<1> QED BY <1>1, Limits DEF MaxTrainSteps

LEMMA PlaceInEpoch ==
    ASSUME TypeOK, InEpoch \in 0..StepsPerEpoch
    PROVE  /\ InEpoch < StepsPerEpoch => fin \div StepsPerEpoch = epoch /\ fin % StepsPerEpoch = InEpoch
           /\ InEpoch = StepsPerEpoch => fin \div StepsPerEpoch = epoch + 1 /\ fin % StepsPerEpoch = 0
           /\ InEpoch > 0 => /\ (fin - 1) \div StepsPerEpoch = epoch
                             /\ (fin - 1) % StepsPerEpoch = InEpoch - 1
                             /\ PosAfter(fin) = Taken(InEpoch)
<1>1. fin \in Nat /\ epoch \in Nat
  BY DEF TypeOK
<1> QED BY <1>1, Positions DEF InEpoch

LEMMA RankZero == R \in Nat \ {0} /\ 0 \in Rank
BY TrainerAssumption DEF Rank

\* A loss is neither 0 nor Infinity.
LEMMA Losses == ASSUME TypeOK, NEW s \in AllSteps PROVE LossAt(s) \in 1..99 /\ (cfg.val => LossAt(s) \in 1..98)
<1>1. cfg.loss[s] \in 1..98
  BY Configured DEF TypeOK
<1> QED BY <1>1 DEF LossAt

\* After a step of the epoch.
LEMMA SomeStep ==
    ASSUME BInv, at \in Loops \ {"step"}
    PROVE  fin \in AllSteps /\ stepped /\ InEpoch \in 1..StepsPerEpoch
<1>1. stepped /\ InEpoch \in 0..StepsPerEpoch /\ InEpoch > 0
  BY DEF BInv, Placed, Loops
<1>2. PICK y \in Nat : y = epoch * StepsPerEpoch
  BY EpochSteps DEF BInv, TypeOK
<1>3. fin \in 0..Steps /\ fin - y = InEpoch
  BY <1>2 DEF BInv, TypeOK, InEpoch
<1> QED BY <1>1, <1>2, <1>3, EpochSteps, LimitNow DEF BInv, AllSteps

(***************************************************************************)
(* The steps of the loop.                                                  *)
(***************************************************************************)
Still == UNCHANGED <<cfg, launch, loaded, sv, expire, disk, saved, crashes>>

\* A step of the loop that saves nothing leaves the checkpoints as they are.
LEMMA BaseRests == ASSUME BInv, Still, at # "saving", at' # "saving" PROVE Kept' /\ Outside'
BY DEF BInv, Kept, Outside, Still, disk

LEMMA BeginTrainBase == ASSUME BInv, BeginTrain PROVE BInv'
<1>1. /\ Still /\ at = "launched" /\ at' \in {"done", "epoch"}
      /\ UNCHANGED <<ret, fin, seen, lr, epoch, pos, resumed, stepped, status, val, best>>
  BY DEF BeginTrain, Goto, Still
<1>2. MaxTrainSteps' = MaxTrainSteps /\ InEpoch' = InEpoch /\ Saving' = FALSE
  BY <1>1 DEF MaxTrainSteps, InEpoch, Saving, Still
<1>3. fin \in Nat /\ epoch = fin \div StepsPerEpoch /\ InEpoch = fin % StepsPerEpoch
      /\ InEpoch \in 0..(StepsPerEpoch - 1)
  <2>1. fin \in Nat /\ epoch = fin \div StepsPerEpoch
    BY <1>1 DEF BInv, TypeOK, Placed
  <2> QED BY <2>1, Remainder DEF InEpoch
<1>4. TypeOK'
  BY <1>1 DEF BInv, TypeOK, Places, Loops, Still, disk
<1>5. at' = "done" => fin >= MaxTrainSteps
  <2>1. CASE fin >= MaxTrainSteps
    BY <2>1
  <2>2. CASE ~EpochsLeft
    <3>1. PICK e \in Nat : e = cfg.launches[launch].epochs
      BY LimitNow DEF BInv
    <3>2. e # 0 /\ e <= epoch /\ epoch \in Nat /\ MaxTrainSteps <= e * StepsPerEpoch /\ MaxTrainSteps \in Nat
      BY <2>2, <3>1, LimitNow, SMTT(30) DEF BInv, TypeOK, EpochsLeft
    <3>3. e * StepsPerEpoch <= epoch * StepsPerEpoch /\ epoch * StepsPerEpoch \in Nat /\ e * StepsPerEpoch \in Nat
      BY <3>1, <3>2, EpochSteps
    <3> QED BY <1>3, <3>2, <3>3 DEF InEpoch
  <2> QED BY <1>1, <2>1, <2>2 DEF BeginTrain, Goto
<1>6. at' = "epoch" => fin < MaxTrainSteps /\ fin <= MaxTrainSteps /\ EpochsLeft /\ EpochsLeft'
  BY <1>1, LimitNow DEF BeginTrain, Goto, EpochsLeft, Still, BInv, TypeOK
<1>7. Placed'
  BY <1>1, <1>2, <1>3, <1>5, <1>6 DEF BInv, Placed, Loops, EpochsLeft
<1>8. Trained'
  BY <1>1, <1>2, <1>3, <1>6 DEF BInv, Trained, Loops, Still, Rate
<1> QED BY <1>1, <1>4, <1>7, <1>8, BaseRests DEF BInv

LEMMA BeginEpochBase == ASSUME BInv, BeginEpoch PROVE BInv'
<1>1. /\ Still /\ at = "epoch" /\ at' = "step"
      /\ UNCHANGED <<ret, fin, seen, lr, epoch, best>>
      /\ resumed' = -1 /\ ~stepped' /\ stepped' \in BOOLEAN /\ status' = 0 /\ val' = 0
  BY DEF BeginEpoch, Goto, Still
<1>2. MaxTrainSteps' = MaxTrainSteps /\ InEpoch' = InEpoch /\ ~Saving' /\ EpochsLeft'
  BY <1>1 DEF MaxTrainSteps, InEpoch, Saving, Still, EpochsLeft, BInv, Placed
<1>3. fin \in Nat /\ InEpoch \in 0..(StepsPerEpoch - 1) /\ fin % StepsPerEpoch = InEpoch
  <2>1. fin \in Nat /\ InEpoch \in 0..(StepsPerEpoch - 1)
    BY <1>1 DEF BInv, TypeOK, Placed
  <2> QED BY <2>1, PlaceInEpoch, EpochSteps DEF BInv
<1>4. pos' = Taken(InEpoch)
  <2>1. CASE resumed = -1
    BY <1>3, <2>1, TakenFacts DEF BeginEpoch, Skip
  <2>2. CASE resumed # -1
    <3>1. fin > 0 /\ resumed = PosAfter(fin) /\ resumed \in 0..Loader
      BY <1>1, <2>2 DEF BInv, TypeOK, Placed
    <3>2. pos' = IF resumed = Loader THEN 0 ELSE resumed
      BY <2>2 DEF BeginEpoch
    <3> QED BY <1>3, <3>1, <3>2, ResumePosition, TakenFacts
  <2> QED BY <2>1, <2>2
<1>5. pos' \in 0..Loader
  BY <1>3, <1>4, TakenFacts
<1>6. TypeOK'
  BY <1>1, <1>5 DEF BInv, TypeOK, Places, Loops, Still, disk, Infinity
<1>7. Placed'
  BY <1>1, <1>2, <1>3, <1>4, <1>5, EpochSteps DEF BInv, Placed, Loops
<1>8. Trained'
  BY <1>1 DEF BInv, Trained, Loops, Still
<1> QED BY <1>1, <1>6, <1>7, <1>8, BaseRests DEF BInv

LEMMA TrainStepBase == ASSUME BInv, TrainStep PROVE BInv'
<1>1. /\ Still /\ at = "step" /\ at' = "stepped" /\ fin' = fin + 1
      /\ UNCHANGED <<ret, epoch, resumed, best>>
      /\ stepped' /\ stepped' \in BOOLEAN /\ status' = 0 /\ val' = 0
      /\ lr' = IF cfg.interval = "step" THEN lr + 1 ELSE lr
  BY DEF TrainStep, Goto, Still
<1>2. fin \in Nat /\ epoch \in Nat /\ lr \in Nat /\ InEpoch \in 0..(StepsPerEpoch - 1) /\ pos = Taken(InEpoch)
  <2>1. InEpoch \in 0..StepsPerEpoch /\ pos = Taken(InEpoch) /\ pos < Loader
    BY <1>1 DEF BInv, Placed, Loops, TrainStep
  <2>2. InEpoch # StepsPerEpoch
    BY <2>1, TakenFacts, TrainerAssumption
  <2> QED BY <2>1, <2>2, EpochSteps DEF BInv, TypeOK
<1>3. fin \div StepsPerEpoch = epoch /\ fin % StepsPerEpoch = InEpoch
  BY <1>2, PlaceInEpoch, EpochSteps DEF BInv
<1>4. /\ pos' = Taken(InEpoch + 1) /\ pos' \in 0..Loader
      /\ seen' = Append(seen, [epoch |-> epoch, from |-> pos, to |-> Taken(InEpoch + 1), lr |-> lr])
  <2>1. Taken(InEpoch + 1) = IF pos + UpdateFreq < Loader THEN pos + UpdateFreq ELSE Loader
    BY <1>2, TakenFacts
  <2>2. Taken(InEpoch + 1) \in 0..Loader
    BY <1>2, TakenFacts
  <2> QED BY <2>1, <2>2 DEF TrainStep
<1>5. MaxTrainSteps' = MaxTrainSteps /\ InEpoch' = InEpoch + 1 /\ ~Saving' /\ EpochsLeft'
  <2>1. epoch * StepsPerEpoch \in Nat
    BY <1>2, EpochSteps
  <2> QED BY <1>1, <1>2, <2>1 DEF MaxTrainSteps, InEpoch, Saving, Still, EpochsLeft, BInv, Placed, Loops
<1>6. fin < MaxTrainSteps /\ MaxTrainSteps \in 0..Steps /\ Steps \in Nat
  BY <1>1, LimitNow DEF BInv, Placed
<1>7. ~Late(cfg) => lr = Rate(cfg, fin)
  BY <1>1, <1>3 DEF BInv, Trained, Loops, Rate
<1>8. [epoch |-> epoch, from |-> pos, to |-> Taken(InEpoch + 1), lr |-> lr] = Batch(fin + 1, lr)
  <2>1. (fin + 1) - 1 = fin
    BY <1>2
  <2>2. pos = InEpoch * UpdateFreq
    BY <1>2, TakenFacts
  <2> QED BY <1>3, <2>1, <2>2 DEF Batch
<1>9. [epoch |-> epoch, from |-> pos, to |-> Taken(InEpoch + 1), lr |-> lr] \in Batches
  <2>1. Taken(InEpoch + 1) \in Nat /\ pos \in Nat
    BY <1>2, TakenFacts, TrainerAssumption
  <2> QED BY <1>2, <2>1 DEF Batches
<1>10. TypeOK'
  <2>1. seen' \in Seq(Batches)
    BY <1>4, <1>9 DEF BInv, TypeOK
  <2>2. lr' \in Nat /\ fin' \in 0..Steps
    BY <1>1, <1>2, <1>6
  <2> QED BY <1>1, <1>4, <2>1, <2>2 DEF BInv, TypeOK, Places, Loops, Still, disk, Infinity
<1>11. Placed'
  BY <1>1, <1>2, <1>4, <1>5, <1>6, EpochSteps DEF BInv, Placed, Loops
<1>12. Trained'
  <2>1. Uninterrupted(cfg, seen, fin) /\ seen \in Seq(Batches)
    BY DEF BInv, Trained, TypeOK
  <2>2. Uninterrupted(cfg, seen', fin + 1)
    <3>1. PICK b \in Batches : b = Batch(fin + 1, lr) /\ seen' = Append(seen, b) /\ b.lr = lr
      BY <1>4, <1>8, <1>9
    <3>2. Len(seen') = fin + 1 /\ seen'[fin + 1] = b /\ \A s \in 1..fin : seen'[s] = seen[s]
      BY <1>2, <2>1, <3>1 DEF Uninterrupted
    <3>3. (fin + 1) - 1 = fin /\ \A s \in 1..(fin + 1) : s \in 1..fin \/ s = fin + 1
      BY <1>2
    <3> QED BY <1>7, <2>1, <3>1, <3>2, <3>3 DEF Uninterrupted
  <2>3. ~Late(cfg) => lr' = IF cfg.interval = "epoch" THEN epoch ELSE Rate(cfg, fin + 1)
    BY <1>1, <1>3, <1>7 DEF Rate
  <2> QED BY <1>1, <2>2, <2>3 DEF Trained, Loops, Still
<1> QED BY <1>1, <1>10, <1>11, <1>12, BaseRests DEF BInv

LEMMA SaveEveryStepsBase == ASSUME BInv, SaveEverySteps PROVE BInv'
<1>1. /\ Still /\ at = "stepped" /\ UNCHANGED <<fin, seen, lr, epoch, pos, resumed, stepped, status, val, best>>
      /\ \/ at' = "validate" /\ ret' = "limit" /\ Due(fin, cfg.everySteps)
         \/ at' = "limit" /\ ret' = ret /\ ~Due(fin, cfg.everySteps)
  BY DEF SaveEverySteps, CallSave, Goto, Still
<1>2. MaxTrainSteps' = MaxTrainSteps /\ InEpoch' = InEpoch /\ EpochsLeft'
  BY <1>1 DEF MaxTrainSteps, InEpoch, Still, EpochsLeft, BInv, Placed, Loops
<1>3. TypeOK'
  BY <1>1 DEF BInv, TypeOK, Places, Loops, Still, disk
<1>4. Placed'
  BY <1>1, <1>2 DEF BInv, Placed, Loops, Saving, Still
<1>5. Trained'
  BY <1>1 DEF BInv, Trained, Loops, Still, LossAt
<1> QED BY <1>1, <1>3, <1>4, <1>5, BaseRests DEF BInv

LEMMA AtLimitBase == ASSUME BInv, AtLimit PROVE BInv'
<1>1. /\ Still /\ at = "limit" /\ UNCHANGED <<fin, seen, lr, epoch, pos, resumed, stepped, status, val, best>>
      /\ \/ at' = "validate" /\ ret' = "next" /\ status = 0
         \/ at' = "next" /\ ret' = ret /\ status # 0
  BY DEF AtLimit, CallSave, Goto, Still
<1>2. MaxTrainSteps' = MaxTrainSteps /\ InEpoch' = InEpoch /\ EpochsLeft'
  BY <1>1 DEF MaxTrainSteps, InEpoch, Still, EpochsLeft, BInv, Placed, Loops
<1>3. fin = MaxTrainSteps
  BY <1>1, LimitNow DEF AtLimit, LimitReached, BInv, Placed, TypeOK, Loops
<1>4. TypeOK'
  BY <1>1 DEF BInv, TypeOK, Places, Loops, Still, disk
<1>5. Placed'
  BY <1>1, <1>2, <1>3 DEF BInv, Placed, Loops, Saving, Still
<1>6. Trained'
  BY <1>1 DEF BInv, Trained, Loops, Still, LossAt
<1> QED BY <1>1, <1>4, <1>5, <1>6, BaseRests DEF BInv

LEMMA ValidateEveryStepsBase == ASSUME BInv, ValidateEverySteps PROVE BInv'
<1>1. /\ Still /\ at = "limit" /\ at' = "step" /\ UNCHANGED <<ret, fin, seen, lr, epoch, pos, resumed, stepped, best>>
      /\ \/ status = 0 /\ status' = 1 /\ val' = LossAt(fin)
         \/ UNCHANGED <<val, status>>
  BY DEF ValidateEverySteps, Validate, Goto, Still
<1>2. MaxTrainSteps' = MaxTrainSteps /\ InEpoch' = InEpoch /\ EpochsLeft' /\ ~Saving'
  BY <1>1 DEF MaxTrainSteps, InEpoch, Still, EpochsLeft, BInv, Placed, Loops, Saving
<1>3. fin < MaxTrainSteps /\ fin \in AllSteps
  <2>1. fin \in AllSteps
    BY <1>1, SomeStep DEF Loops
  <2> QED BY <2>1, LimitNow DEF BInv, AllSteps, ValidateEverySteps, LimitReached
<1>4. LossAt(fin) \in 0..Infinity
  BY <1>3, Losses DEF BInv, Infinity
<1>5. TypeOK'
  BY <1>1, <1>4 DEF BInv, TypeOK, Places, Loops, Still, disk
<1>6. Placed'
  BY <1>1, <1>2, <1>3 DEF BInv, Placed, Loops, Saving, Still
<1>7. Trained'
  BY <1>1 DEF BInv, Trained, Loops, Still, LossAt
<1> QED BY <1>1, <1>5, <1>6, <1>7, BaseRests DEF BInv

LEMMA SaveEveryEpochsBase == ASSUME BInv, SaveEveryEpochs PROVE BInv'
<1>1. /\ Still /\ at = "step" /\ pos >= Loader
      /\ UNCHANGED <<fin, seen, lr, epoch, pos, resumed, stepped, status, val, best>>
  BY DEF SaveEveryEpochs, CallSave, Goto, Still
<1>2. stepped /\ InEpoch = StepsPerEpoch
  <2>1. /\ InEpoch \in 0..StepsPerEpoch /\ pos = Taken(InEpoch) /\ (~stepped => InEpoch < StepsPerEpoch)
    BY <1>1 DEF BInv, Placed, Loops
  <2>2. ASSUME InEpoch # StepsPerEpoch PROVE FALSE
    <3>1. InEpoch \in 0..(StepsPerEpoch - 1)
      BY <2>1, <2>2, EpochSteps
    <3>2. InEpoch * UpdateFreq < Loader /\ pos = InEpoch * UpdateFreq
      BY <2>1, <3>1, TakenFacts
    <3> QED BY <1>1, <3>2, TrainerAssumption DEF BInv, TypeOK
  <2> QED BY <2>1, <2>2, EpochSteps
<1>3. \/ at' = "validate" /\ ret' = "valepoch" /\ status < 2 /\ Due(epoch + 1, cfg.everyEpochs)
      \/ at' = "valepoch" /\ ret' = ret /\ ~(status < 2 /\ Due(epoch + 1, cfg.everyEpochs))
  BY <1>2 DEF SaveEveryEpochs, CallSave, Goto
<1>4. MaxTrainSteps' = MaxTrainSteps /\ InEpoch' = InEpoch /\ EpochsLeft' /\ fin < MaxTrainSteps
  BY <1>1 DEF MaxTrainSteps, InEpoch, Still, EpochsLeft, BInv, Placed, Loops
<1>5. fin \div StepsPerEpoch = epoch + 1 /\ fin \in Nat /\ MaxTrainSteps \in Nat
  BY <1>2, PlaceInEpoch, LimitNow, EpochSteps, SMTT(30) DEF BInv, TypeOK
<1>6. TypeOK'
  BY <1>1, <1>3 DEF BInv, TypeOK, Places, Loops, Still, disk
<1>7. Placed'
  BY <1>1, <1>2, <1>3, <1>4, <1>5 DEF BInv, Placed, Loops, Saving, Still
<1>8. Trained'
  BY <1>1, <1>3 DEF BInv, Trained, Loops, Still, LossAt
<1> QED BY <1>1, <1>3, <1>6, <1>7, <1>8, BaseRests DEF BInv

LEMMA ValidateEveryEpochsBase == ASSUME BInv, ValidateEveryEpochs PROVE BInv'
<1>1. /\ Still /\ at = "valepoch" /\ at' = "next"
      /\ UNCHANGED <<ret, fin, seen, lr, epoch, pos, resumed, stepped, best>>
      /\ \/ status = 0 /\ status' = 1 /\ val' = LossAt(fin)
         \/ UNCHANGED <<val, status>>
  BY DEF ValidateEveryEpochs, Validate, Goto, Still
<1>2. MaxTrainSteps' = MaxTrainSteps /\ InEpoch' = InEpoch /\ EpochsLeft' /\ ~Saving'
  BY <1>1 DEF MaxTrainSteps, InEpoch, Still, EpochsLeft, BInv, Placed, Loops, Saving
<1>3. fin \in AllSteps
  BY <1>1, SomeStep DEF Loops
<1>4. LossAt(fin) \in 0..Infinity
  BY <1>3, Losses DEF BInv, Infinity
<1>5. TypeOK'
  BY <1>1, <1>4 DEF BInv, TypeOK, Places, Loops, Still, disk
<1>6. Placed'
  BY <1>1, <1>2 DEF BInv, Placed, Loops, Saving, Still
<1>7. Trained'
  BY <1>1 DEF BInv, Trained, Loops, Still, LossAt
<1> QED BY <1>1, <1>5, <1>6, <1>7, BaseRests DEF BInv

LEMMA ValidateAndSaveBase == ASSUME BInv, ValidateAndSave PROVE BInv'
<1>1. /\ Still /\ at = "validate" /\ at' = "save"
      /\ UNCHANGED <<ret, fin, seen, lr, epoch, pos, resumed, stepped, status, best>>
      /\ val' = IF cfg.val /\ val = 0 THEN LossAt(fin) ELSE val
  BY DEF ValidateAndSave, Validate, Goto, Still
<1>2. MaxTrainSteps' = MaxTrainSteps /\ InEpoch' = InEpoch /\ EpochsLeft'
  BY <1>1 DEF MaxTrainSteps, InEpoch, Still, EpochsLeft, BInv, Placed, Loops
<1>3. fin \in AllSteps
  BY <1>1, SomeStep DEF Loops
<1>4. LossAt(fin) \in 0..Infinity
  BY <1>3, Losses DEF BInv, Infinity
<1>5. TypeOK'
  BY <1>1, <1>4 DEF BInv, TypeOK, Places, Loops, Still, disk
<1>6. Placed'
  BY <1>1, <1>2 DEF BInv, Placed, Loops, Saving, Still
<1>7. Trained'
  BY <1>1 DEF BInv, Trained, Loops, Still, LossAt
<1> QED BY <1>1, <1>5, <1>6, <1>7, BaseRests DEF BInv

LEMMA EndEpochBase == ASSUME BInv, EndEpoch PROVE BInv'
<1>1. /\ Still /\ at = "next" /\ UNCHANGED <<ret, fin, seen, pos, resumed, stepped, status, val, best>>
      /\ lr' = IF cfg.interval = "epoch" THEN lr + 1 ELSE lr
  BY DEF EndEpoch, Goto, Still
<1>2. PICK e \in Nat, s \in Nat : e = cfg.launches[launch].epochs /\ s = cfg.launches[launch].steps
  BY LimitNow DEF BInv
<1>3. IF (s # 0 /\ fin >= s) \/ (e # 0 /\ epoch + 1 >= e)
        THEN at' = "done" /\ epoch' = epoch ELSE at' = "epoch" /\ epoch' = epoch + 1
  BY <1>2 DEF EndEpoch, Goto
<1>4. /\ fin \in Nat /\ epoch \in Nat /\ (e # 0 => epoch < e)
      /\ InEpoch \in 1..StepsPerEpoch /\ (InEpoch = StepsPerEpoch \/ fin = MaxTrainSteps)
      /\ fin <= MaxTrainSteps
  <2>1. stepped /\ InEpoch \in 0..StepsPerEpoch /\ InEpoch > 0
    BY <1>1 DEF BInv, Placed, Loops
  <2> QED BY <1>1, <1>2, <2>1, EpochSteps DEF BInv, TypeOK, Placed, Loops, EpochsLeft
<1>5. PICK m \in 0..Steps, x \in Nat :
        /\ m = MaxTrainSteps /\ x = e * StepsPerEpoch
        /\ (s # 0 => m <= s) /\ (e # 0 => m <= x) /\ (m = s \/ (e # 0 /\ m = x))
  <2>1. e * StepsPerEpoch \in Nat
    BY EpochSteps
  <2> QED BY <1>2, <2>1, LimitNow DEF BInv
<1>6. PICK y \in Nat, z \in Nat : /\ y = epoch * StepsPerEpoch /\ z = y + StepsPerEpoch /\ z = (epoch + 1) * StepsPerEpoch
                                  /\ fin = y + InEpoch
  <2>1. epoch * StepsPerEpoch \in Nat /\ (epoch + 1) * StepsPerEpoch = epoch * StepsPerEpoch + StepsPerEpoch
    BY <1>4, EpochSteps
  <2> QED BY <1>4, <2>1, EpochSteps DEF InEpoch
<1>7. /\ e = epoch + 1 => x = z
      /\ e > epoch + 1 => x >= z + StepsPerEpoch
  <2>1. e > epoch + 1 => x >= z + StepsPerEpoch
    <3>1. SUFFICES ASSUME e > epoch + 1 PROVE x >= z + StepsPerEpoch
      OBVIOUS
    <3>2. PICK d \in Nat : e = epoch + 2 + d
      <4>1. e - (epoch + 2) \in Nat /\ e = epoch + 2 + (e - (epoch + 2))
        BY <1>4, <3>1
      <4> QED BY <4>1
    <3>3. e * StepsPerEpoch = epoch * StepsPerEpoch + 2 * StepsPerEpoch + d * StepsPerEpoch
          /\ d * StepsPerEpoch \in Nat
      BY <1>4, <3>2, EpochSteps
    <3> QED BY <1>5, <1>6, <3>3, EpochSteps
  <2> QED BY <1>5, <1>6, <2>1
<1>8. at' = "done" => fin = MaxTrainSteps
  BY <1>2, <1>3, <1>4, <1>5, <1>6, <1>7, EpochSteps
<1>9. at' = "epoch" => InEpoch = StepsPerEpoch /\ fin < MaxTrainSteps /\ (e # 0 => epoch + 1 < e)
  BY <1>2, <1>3, <1>4, <1>5, <1>6, <1>7, EpochSteps
<1>10. at' = "epoch" => InEpoch' = 0
  BY <1>1, <1>3, <1>4, <1>6, <1>9 DEF InEpoch
<1>11. MaxTrainSteps' = MaxTrainSteps /\ ~Saving' /\ (at' = "epoch" => EpochsLeft')
  BY <1>1, <1>2, <1>3, <1>9 DEF MaxTrainSteps, Still, Saving, EpochsLeft
<1>12. TypeOK'
  BY <1>1, <1>3, <1>4 DEF BInv, TypeOK, Places, Loops, Still, disk
<1>13. Placed'
  BY <1>1, <1>3, <1>4, <1>8, <1>9, <1>10, <1>11, EpochSteps DEF BInv, Placed, Loops
<1>14. Trained'
  BY <1>1, <1>3 DEF BInv, Trained, Loops, Still, Rate
<1> QED BY <1>1, <1>3, <1>12, <1>13, <1>14, BaseRests DEF BInv

(***************************************************************************)
(* A save.                                                                 *)
(***************************************************************************)
\* A save is due after the step that is saved.
LEMMA SaveIsDue == ASSUME BInv, Saving PROVE fin \in AllSteps /\ SavesAfter(cfg, launch, fin)
<1>1. fin \in AllSteps /\ InEpoch \in 1..StepsPerEpoch
  BY SomeStep DEF Saving, Loops
<1>2. InEpoch = StepsPerEpoch => fin \div StepsPerEpoch = epoch + 1 /\ fin % StepsPerEpoch = 0
  BY <1>1, PlaceInEpoch, EpochSteps DEF BInv
<1> QED BY <1>1, <1>2 DEF BInv, Placed, SavesAfter, MaxTrainSteps

\* What is saved.
LEMMA ContentIs == ASSUME BInv, at = "saving" PROVE IsOf(cfg, Content, fin) /\ Content \in Files
<1>1. fin \in AllSteps /\ SavesAfter(cfg, launch, fin) /\ InEpoch \in 1..StepsPerEpoch /\ pos = Taken(InEpoch)
  BY SaveIsDue, SomeStep DEF Saving, BInv, Placed, Loops
<1>2. PosAfter(fin) = pos
  BY <1>1, PlaceInEpoch, EpochSteps DEF BInv
<1>3. Uninterrupted(cfg, seen, fin)
  BY DEF BInv, Trained
<1>4. ~Late(cfg) /\ Beyond(cfg, fin) => lr = Rate(cfg, fin)
  <2>1. SUFFICES ASSUME ~Late(cfg), Beyond(cfg, fin), cfg.interval = "epoch" PROVE lr = Rate(cfg, fin)
    BY DEF BInv, Trained, Loops
  <2>2. lr = epoch
    BY <2>1 DEF BInv, Trained, Loops
  <2>3. fin % StepsPerEpoch # 0
    BY <1>1, <2>1 DEF BInv, TypeOK, Late
  <2>4. fin \div StepsPerEpoch = epoch
    BY <1>1, <2>3, PlaceInEpoch, EpochSteps DEF BInv
  <2> QED BY <2>1, <2>2, <2>4 DEF Rate
<1>5. Content \in Files
  BY TrainerAssumption DEF BInv, TypeOK, Content, Whole, Files
<1> QED BY <1>2, <1>3, <1>4, <1>5 DEF IsOf, Content, Whole

LEMMA SomeFiles == None \in Files /\ Partial \in Files /\ Gone \in Files /\ \A n \in Nat : Link(n) \in Files
<1>1. None \in Files
  BY DEF None, Files
<1> QED BY <1>1 DEF None, Partial, Gone, Link, Files

LEMMA SomeKinds == /\ None.kind = "none" /\ Partial.kind = "partial" /\ Gone.kind = "gone"
                   /\ \A n : Link(n).kind = "link" /\ Link(n).fin = n
BY DEF None, Partial, Gone, Link

LEMMA BeginSaveBase == ASSUME BInv, BeginSave PROVE BInv'
<1>1. /\ at = "save" /\ at' = "saving" /\ sv' = [r \in Rank |-> "write"]
      /\ UNCHANGED <<cfg, launch, ret, fin, seen, lr, epoch, pos, resumed, stepped, status, val,
                     best, loaded, expire, disk, saved, crashes>>
  BY DEF BeginSave
<1>2. TypeOK'
  BY <1>1 DEF BInv, TypeOK, Places, Loops, Writes, disk
<1>3. Placed' /\ Trained'
  BY <1>1 DEF BInv, Placed, Trained, Loops, Saving, MaxTrainSteps, EpochsLeft, InEpoch, LossAt
<1>4. Kept' /\ Outside'
  BY <1>1 DEF BInv, Kept, Outside, disk
<1> QED BY <1>2, <1>3, <1>4 DEF BInv

\* What a save leaves to the loop.
LEMMA BaseLoopRests ==
    ASSUME BInv, at = "saving", UNCHANGED <<cfg, train>>
    PROVE  Placed' /\ Trained'
BY DEF BInv, Placed, Trained, Loops, Saving, MaxTrainSteps, EpochsLeft, InEpoch, LossAt, train

\* A rank that saves is in _save_checkpoint with the others, and goes on to write,
\* or to remove.
LEMMA Moves ==
    ASSUME BInv, NEW r \in Rank, NEW phase \in Writes \cup Cleans, Does(r, phase)
    PROVE  /\ at = "saving" /\ fin \in AllSteps
           /\ sv' \in [Rank -> {"idle"} \cup Writes \cup Cleans]
           /\ sv[r] = phase /\ sv'[r] = Then(r, phase) /\ \A q \in Rank \ {r} : sv'[q] = sv[q]
<1>1. sv[r] = phase /\ sv' = [sv EXCEPT ![r] = Then(r, phase)] /\ sv \in [Rank -> {"idle"} \cup Writes \cup Cleans]
  BY DEF Does, BInv, TypeOK
<1>2. at = "saving"
  BY <1>1 DEF BInv, Outside, Writes, Cleans
<1>3. Then(r, phase) \in Writes \cup Cleans
  BY DEF Then, Writing, AfterLast, Writes, Cleans
<1> QED BY <1>1, <1>2, <1>3, SaveIsDue DEF Saving

LEMMA OpenFileBase == ASSUME BInv, NEW r \in Rank, OpenFile(r) PROVE BInv'
<1>1. /\ Does(r, "write") /\ UNCHANGED <<cfg, train, saved, crashes, last, bestf, expire>>
      /\ dirs' = dirs \cup {fin} /\ file' = [file EXCEPT ![fin][r] = Partial]
  BY DEF OpenFile, Elsewhere
<1>2. /\ at = "saving" /\ fin \in AllSteps /\ sv' \in [Rank -> {"idle"} \cup Writes \cup Cleans]
      /\ sv[r] = "write" /\ \A q \in Rank \ {r} : sv'[q] = sv[q]
  BY <1>1, Moves DEF Writes
<1>3. file' \in [AllSteps -> [Rank -> Files]] /\ \A s \in AllSteps, q \in Rank : file'[s][q] = file[s][q] \/ file'[s][q] = Partial
  BY <1>1, <1>2, SomeFiles DEF BInv, TypeOK
<1>4. TypeOK'
  BY <1>1, <1>2, <1>3 DEF BInv, TypeOK, train
<1>5. Kept'
  BY <1>1, <1>3, SomeKinds DEF BInv, Kept
<1>6. Outside'
  BY <1>1, <1>2 DEF BInv, Outside, train
<1> QED BY <1>1, <1>2, <1>4, <1>5, <1>6, BaseLoopRests DEF BInv

LEMMA CloseFileBase == ASSUME BInv, NEW r \in Rank, CloseFile(r) PROVE BInv'
<1>1. /\ Does(r, "close") /\ UNCHANGED <<cfg, train, saved, crashes, last, bestf, expire, dirs>>
      /\ file' = [file EXCEPT ![fin][r] = Content]
  BY DEF CloseFile, Elsewhere
<1>2. /\ at = "saving" /\ fin \in AllSteps /\ sv' \in [Rank -> {"idle"} \cup Writes \cup Cleans]
      /\ sv[r] = "close" /\ \A q \in Rank \ {r} : sv'[q] = sv[q]
  BY <1>1, Moves DEF Writes
<1>3. IsOf(cfg, Content, fin) /\ Content \in Files /\ Content.kind = "whole"
  BY <1>2, ContentIs DEF IsOf
<1>4. file' \in [AllSteps -> [Rank -> Files]]
      /\ \A s \in AllSteps, q \in Rank : file'[s][q] = file[s][q] \/ (s = fin /\ file'[s][q] = Content)
  BY <1>1, <1>2, <1>3 DEF BInv, TypeOK
<1>5. TypeOK'
  BY <1>1, <1>2, <1>4 DEF BInv, TypeOK, train
<1>6. Kept'
  BY <1>1, <1>3, <1>4 DEF BInv, Kept
<1>7. Outside'
  BY <1>1, <1>2 DEF BInv, Outside, train
<1> QED BY <1>1, <1>2, <1>5, <1>6, <1>7, BaseLoopRests DEF BInv

\* What a link or copy that is removed, truncated or made again is.
LEMMA PointsBase ==
    ASSUME BInv, NEW r \in Rank, fin \in AllSteps, NEW l \in {Cleared, Pointer(r)}
    PROVE  /\ l \in Files
           /\ l.kind = "link" => l = Link(fin) /\ l.fin = fin
           /\ l.kind = "whole" => IsOf(cfg, l, fin) /\ l.fin = fin
<1>1. /\ file[fin][r] \in Files /\ file[fin][r].kind # "link"
      /\ file[fin][r].kind = "whole" => IsOf(cfg, file[fin][r], fin)
  BY DEF BInv, Kept, TypeOK
<1>2. fin \in Nat
  BY DEF AllSteps
<1>3. CASE l = Cleared
  BY <1>3, SomeFiles, SomeKinds DEF Cleared
<1>4. CASE l = Pointer(r)
  BY <1>1, <1>2, <1>4, SomeFiles, SomeKinds DEF Pointer, IsOf
<1> QED BY <1>3, <1>4

LEMMA UpdateLastBase == ASSUME BInv, NEW r \in Rank, UpdateLast(r) PROVE BInv'
<1>1. /\ UNCHANGED <<cfg, train, saved, crashes, file, bestf, expire, dirs>>
      /\ Does(r, "clearLast") \/ Does(r, "last")
      /\ \E l \in {Cleared, Pointer(r)} : last' = [last EXCEPT ![r] = l]
  BY DEF UpdateLast, Elsewhere
<1>2. /\ at = "saving" /\ fin \in AllSteps /\ sv' \in [Rank -> {"idle"} \cup Writes \cup Cleans]
      /\ sv[r] # "remove" /\ \A q \in Rank \ {r} : sv'[q] = sv[q]
  BY <1>1, Moves DEF Writes
<1>3. PICK l \in {Cleared, Pointer(r)} : last' = [last EXCEPT ![r] = l]
  BY <1>1
<1>4. /\ l \in Files
      /\ l.kind = "link" => l = Link(fin) /\ l.fin = fin
      /\ l.kind = "whole" => IsOf(cfg, l, fin) /\ l.fin = fin
  BY <1>2, PointsBase
<1>5. last' \in [Rank -> Files] /\ \A q \in Rank : last'[q] = last[q] \/ last'[q] = l
  BY <1>3, <1>4 DEF BInv, TypeOK
<1>6. TypeOK'
  BY <1>1, <1>2, <1>5 DEF BInv, TypeOK, train
<1>7. Kept'
  BY <1>1, <1>2, <1>4, <1>5 DEF BInv, Kept
<1>8. Outside'
  BY <1>1, <1>2 DEF BInv, Outside, train
<1> QED BY <1>1, <1>2, <1>6, <1>7, <1>8, BaseLoopRests DEF BInv

LEMMA UpdateBestBase == ASSUME BInv, NEW r \in Rank, UpdateBest(r) PROVE BInv'
<1>1. /\ UNCHANGED <<cfg, train, saved, crashes, file, last, expire, dirs>>
      /\ Does(r, "clearBest") \/ Does(r, "best")
      /\ \E l \in {Cleared, Pointer(r)} : bestf' = [bestf EXCEPT ![r] = l]
  BY DEF UpdateBest, Elsewhere
<1>2. /\ at = "saving" /\ fin \in AllSteps /\ sv' \in [Rank -> {"idle"} \cup Writes \cup Cleans]
      /\ sv[r] # "remove" /\ \A q \in Rank \ {r} : sv'[q] = sv[q]
  BY <1>1, Moves DEF Writes
<1>3. PICK l \in {Cleared, Pointer(r)} : bestf' = [bestf EXCEPT ![r] = l]
  BY <1>1
<1>4. /\ l \in Files
      /\ l.kind = "link" => l = Link(fin) /\ l.fin = fin
      /\ l.kind = "whole" => IsOf(cfg, l, fin) /\ l.fin = fin
  BY <1>2, PointsBase
<1>5. bestf' \in [Rank -> Files] /\ \A q \in Rank : bestf'[q] = bestf[q] \/ bestf'[q] = l
  BY <1>3, <1>4 DEF BInv, TypeOK
<1>6. TypeOK'
  BY <1>1, <1>2, <1>5 DEF BInv, TypeOK, train
<1>7. Kept'
  BY <1>1, <1>2, <1>4, <1>5 DEF BInv, Kept
<1>8. Outside'
  BY <1>1, <1>2 DEF BInv, Outside, train
<1> QED BY <1>1, <1>2, <1>6, <1>7, <1>8, BaseLoopRests DEF BInv

\* A barrier is passed by ranks that save.
LEMMA Meet ==
    ASSUME BInv, NEW phase \in Writes \cup Cleans, AllAt(phase)
    PROVE  at = "saving" /\ fin \in AllSteps
<1>1. at = "saving"
  BY RankZero DEF AllAt, BInv, Outside, Writes, Cleans
<1> QED BY <1>1, SaveIsDue DEF Saving

LEMMA SecondBarrierBase == ASSUME BInv, SecondBarrier PROVE BInv'
<1>1. /\ AllAt("wrote") /\ sv' = [r \in Rank |-> Cleanup(r)] /\ saved' = saved \cup {fin}
      /\ UNCHANGED <<cfg, train, expire, dirs, file, last, bestf, crashes>>
  BY DEF SecondBarrier, disk
<1>2. at = "saving" /\ fin \in AllSteps
  BY <1>1, Meet DEF Writes
<1>3. \A r \in Rank : sv'[r] \in {"list", "end"} /\ sv[r] = "wrote"
  BY <1>1 DEF Cleanup, AllAt
<1>4. TypeOK'
  BY <1>1, <1>2, <1>3 DEF BInv, TypeOK, Cleans, train
<1>5. Kept' /\ Outside'
  BY <1>1, <1>2, <1>3 DEF BInv, Kept, Outside, train
<1> QED BY <1>1, <1>2, <1>4, <1>5, BaseLoopRests DEF BInv

LEMMA ListExpiredBase == ASSUME BInv, NEW r \in Rank, ListExpired(r) PROVE BInv'
<1>1. PICK keep \in Protected : expire' = [expire EXCEPT ![r] = Expired \ keep]
  BY DEF ListExpired
<1>2. Does(r, "list") /\ UNCHANGED <<cfg, train, saved, crashes, dirs, file, last, bestf>>
  BY DEF ListExpired, Elsewhere, disk
<1>3. /\ at = "saving" /\ sv' \in [Rank -> {"idle"} \cup Writes \cup Cleans]
      /\ sv'[r] = "remove" /\ \A q \in Rank \ {r} : sv'[q] = sv[q]
  BY <1>2, Moves DEF Cleans, Then
<1>4. expire' \in [Rank -> SUBSET AllSteps] /\ \A q \in Rank \ {r} : expire'[q] = expire[q]
  <2>1. Expired \ keep \in SUBSET AllSteps
    BY DEF Expired, BInv, TypeOK
  <2> QED BY <1>1, <2>1 DEF BInv, TypeOK
<1>5. TypeOK'
  BY <1>2, <1>3, <1>4 DEF BInv, TypeOK, train
<1>6. Kept' /\ Outside'
  BY <1>2, <1>3, <1>4 DEF BInv, Kept, Outside, train
<1> QED BY <1>2, <1>3, <1>5, <1>6, BaseLoopRests DEF BInv

LEMMA RemoveTreeBase == ASSUME BInv, NEW r \in Rank, RemoveTree(r) PROVE BInv'
<1>1. PICK s \in dirs :
        /\ sv[r] = "remove" /\ s \in expire[r]
        /\ IF file[s] = Nothing
           THEN dirs' = dirs \ {s} /\ expire' = [expire EXCEPT ![r] = @ \ {s}] /\ file' = file
           ELSE /\ \E q \in Rank : file' = [file EXCEPT ![s][q] = None]
                /\ dirs' = dirs /\ expire' = expire
        /\ UNCHANGED <<cfg, train, saved, crashes, last, bestf, sv>>
  BY DEF RemoveTree, Removes, Elsewhere
<1>2. at = "saving" /\ s \in AllSteps
  BY <1>1 DEF BInv, Outside, TypeOK
<1>3. /\ dirs' \subseteq dirs
      /\ expire' \in [Rank -> SUBSET AllSteps] /\ \A q \in Rank \ {r} : expire'[q] = expire[q]
      /\ file' \in [AllSteps -> [Rank -> Files]]
      /\ \A n \in AllSteps, q \in Rank : file'[n][q] = file[n][q] \/ file'[n][q] = None
  <2>1. file \in [AllSteps -> [Rank -> Files]] /\ expire \in [Rank -> SUBSET AllSteps] /\ dirs \subseteq AllSteps
    BY DEF BInv, TypeOK
  <2>2. CASE file[s] = Nothing
    BY <1>1, <2>1, <2>2
  <2>3. CASE file[s] # Nothing
    <3>1. PICK q \in Rank : file' = [file EXCEPT ![s][q] = None]
      BY <1>1, <2>3
    <3> QED BY <1>1, <1>2, <2>1, <2>3, <3>1, SomeFiles
  <2> QED BY <2>2, <2>3
<1>4. TypeOK'
  BY <1>1, <1>3 DEF BInv, TypeOK, train
<1>5. Kept'
  BY <1>1, <1>3, SomeKinds DEF BInv, Kept
<1>6. Outside'
  BY <1>1, <1>2, <1>3 DEF BInv, Outside, train
<1> QED BY <1>1, <1>2, <1>4, <1>5, <1>6, BaseLoopRests DEF BInv

LEMMA RemoveFailsBase == ASSUME BInv, NEW r \in Rank, RemoveFails(r) PROVE BInv'
<1>1. /\ sv[r] = "remove" /\ expire' = [expire EXCEPT ![r] = {}]
      /\ UNCHANGED <<cfg, train, saved, crashes, dirs, file, last, bestf, sv>>
  BY DEF RemoveFails, Removes, Elsewhere, disk
<1>2. at = "saving"
  BY <1>1 DEF BInv, Outside
<1>3. TypeOK'
  BY <1>1 DEF BInv, TypeOK, train
<1>4. Kept' /\ Outside'
  BY <1>1, <1>2 DEF BInv, TypeOK, Kept, Outside, train
<1> QED BY <1>1, <1>2, <1>3, <1>4, BaseLoopRests DEF BInv

LEMMA RemovedAllBase == ASSUME BInv, NEW r \in Rank, RemovedAll(r) PROVE BInv'
<1>1. /\ Does(r, "remove") /\ expire[r] = {}
      /\ UNCHANGED <<cfg, train, saved, crashes, dirs, file, last, bestf, expire>>
  BY DEF RemovedAll, Elsewhere, disk
<1>2. at = "saving" /\ sv' \in [Rank -> {"idle"} \cup Writes \cup Cleans] /\ \A q \in Rank \ {r} : sv'[q] = sv[q]
  BY <1>1, Moves DEF Cleans
<1>3. TypeOK'
  BY <1>1, <1>2 DEF BInv, TypeOK, train
<1>4. Kept' /\ Outside'
  BY <1>1, <1>2 DEF BInv, Kept, Outside, train
<1> QED BY <1>1, <1>2, <1>3, <1>4, BaseLoopRests DEF BInv

LEMMA ReturnFromSaveBase == ASSUME BInv, ReturnFromSave PROVE BInv'
<1>1. /\ AllAt("end") /\ sv' = [r \in Rank |-> "idle"] /\ at' = ret /\ status' = 2
      /\ best' = IF cfg.val /\ best > val THEN val ELSE best
      /\ UNCHANGED <<cfg, launch, ret, fin, seen, lr, epoch, pos, resumed, stepped, val, loaded,
                     expire, dirs, file, last, bestf, saved, crashes>>
  BY DEF ReturnFromSave, disk
<1>2. at = "saving" /\ fin \in AllSteps
  BY <1>1, Meet DEF Cleans
<1>3. at' \in {"limit", "next", "valepoch"}
  BY <1>1, <1>2 DEF BInv, Placed, Saving
<1>4. best' \in 0..Infinity
  BY <1>1 DEF BInv, TypeOK
<1>5. TypeOK'
  BY <1>1, <1>3, <1>4 DEF BInv, TypeOK, Places, Loops
<1>6. MaxTrainSteps' = MaxTrainSteps /\ InEpoch' = InEpoch /\ EpochsLeft' /\ stepped /\ ~Saving'
  <2>1. at \in Loops \ {"step"}
    BY <1>2 DEF Loops
  <2> QED BY <1>1, <1>3, <2>1, SomeStep DEF MaxTrainSteps, InEpoch, EpochsLeft, Saving, BInv, Placed
<1>7. Placed'
  BY <1>1, <1>2, <1>3, <1>6 DEF BInv, Placed, Loops, Saving
<1>8. Trained'
  BY <1>1, <1>2, <1>3 DEF BInv, Trained, Loops, LossAt
<1>9. Kept'
  BY <1>1 DEF BInv, Kept
<1>10. Outside'
  BY <1>1 DEF BInv, Outside, AllAt
<1> QED BY <1>5, <1>7, <1>8, <1>9, <1>10 DEF BInv

(***************************************************************************)
(* A job begins and ends.                                                  *)
(***************************************************************************)
LEMMA Least ==
    ASSUME NEW T \in SUBSET Nat, T # {}
    PROVE  \E x \in T : \A y \in T : ~(y < x)
<1>1. \E x \in T : \A y \in T : ~(<<y, x>> \in OpToRel(<, Nat))
  BY WFMin, NatLessThanWellFounded, Zenon
<1> QED BY <1>1 DEF OpToRel

LEMMA Greatest ==
    ASSUME NEW S \in SUBSET AllSteps, S # {}
    PROVE  \E x \in S : \A y \in S : y <= x
<1> DEFINE T == {Steps - s : s \in S}
<1>1. T \in SUBSET Nat /\ T # {}
  <2>1. \A s \in S : Steps - s \in Nat
    BY TrainerAssumption DEF AllSteps
  <2> QED BY <2>1
<1>2. PICK z \in T : \A y \in T : ~(y < z)
  BY <1>1, Least
<1>3. PICK x \in S : z = Steps - x
  BY <1>2
<1>4. \A y \in S : ~(Steps - y < Steps - x)
  BY <1>2, <1>3
<1> QED BY <1>4, TrainerAssumption DEF AllSteps

LEMMA NewestIs ==
    /\ CompleteSteps = {} => Newest = 0
    /\ CompleteSteps # {} => Newest \in CompleteSteps /\ \A t \in CompleteSteps : t <= Newest
<1>1. CompleteSteps \in SUBSET AllSteps
  BY DEF CompleteSteps
<1>2. CompleteSteps # {} => \E x \in CompleteSteps : \A y \in CompleteSteps : y <= x
  BY <1>1, Greatest
<1> QED BY <1>2 DEF Newest

LEMMA EntriesAre ==
    ASSUME BInv, NEW from, NEW r \in Rank
    PROVE  /\ Entries(from)[r] \in Files
           /\ Entries(from)[r].kind = "whole" => /\ Entries(from)[r].fin \in AllSteps
                                                 /\ IsOf(cfg, Entries(from)[r], Entries(from)[r].fin)
<1>1. file \in [AllSteps -> [Rank -> Files]] /\ last \in [Rank -> Files] /\ bestf \in [Rank -> Files]
  BY DEF BInv, TypeOK
<1>2. ASSUME NEW d, d = last \/ d = bestf, NEW f, f = Resolve(d[r], r)
      PROVE  f \in Files /\ (f.kind = "whole" => f.fin \in AllSteps /\ IsOf(cfg, f, f.fin))
  <2>1. CASE d[r].kind = "link"
    <3>1. d[r].fin \in AllSteps /\ f = file[d[r].fin][r]
      BY <1>2, <2>1 DEF BInv, Kept, Resolve
    <3> QED BY <1>1, <3>1 DEF BInv, Kept, IsOf
  <2>2. CASE d[r].kind # "link"
    <3>1. f = d[r]
      BY <1>2, <2>2 DEF Resolve
    <3> QED BY <1>1, <1>2, <3>1 DEF BInv, Kept
  <2> QED BY <2>1, <2>2
<1>3. ASSUME NEW f, f = DirEntries[r]
      PROVE  f \in Files /\ (f.kind = "whole" => f.fin \in AllSteps /\ IsOf(cfg, f, f.fin))
  <2>1. CASE Newest = 0
    BY <1>3, <2>1, SomeFiles, SomeKinds DEF DirEntries, Nothing
  <2>2. CASE Newest # 0
    <3>1. Newest \in AllSteps /\ f = file[Newest][r]
      BY <1>3, <2>2, NewestIs DEF DirEntries, CompleteSteps
    <3> QED BY <1>1, <3>1 DEF BInv, Kept, IsOf
  <2> QED BY <2>1, <2>2
<1>4. LastEntries[r] = Resolve(last[r], r) /\ BestEntries[r] = Resolve(bestf[r], r)
  BY DEF LastEntries, BestEntries
<1> QED BY <1>2, <1>3, <1>4 DEF Entries

\* Whatever a launch loads is a checkpoint, or nothing.
LEMMA LoadedIs ==
    ASSUME BInv, NEW from, Loadable(from)
    PROVE  Entries(from)[0] = None \/ Entries(from)[0].kind = "whole"
<1>1. CASE Anew(from)
  <2>1. Entries(from) = Nothing
    <3>1. last = Nothing => LastEntries = Nothing
      BY SomeKinds DEF LastEntries, Nothing, Resolve
    <3>2. bestf = Nothing => BestEntries = Nothing
      BY SomeKinds DEF BestEntries, Nothing, Resolve
    <3> QED BY <1>1, <3>1, <3>2 DEF Anew, Entries, DirEntries
  <2> QED BY <2>1, RankZero DEF Nothing
<1>2. CASE ~Anew(from)
  <2>1. PICK r \in Found(from) : TRUE
    BY <1>2 DEF Loadable
  <2>2. r \in Rank /\ (r = 0 \/ 0 < r)
    BY RankZero DEF Found, Rank
  <2>3. 0 \in Found(from)
    BY <1>2, <2>1, <2>2, RankZero DEF Loadable
  <2> QED BY <1>2, <2>3 DEF Loadable
<1> QED BY <1>1, <1>2

LEMMA LaunchBase == ASSUME BInv, Launch PROVE BInv'
<1>1. at = "down" /\ fin = 0 /\ UNCHANGED <<cfg, launch, sv, expire, dirs, file, last, bestf, crashes>>
  BY DEF Launch, disk, BInv, Placed
<1>2. PICK from \in cfg.resume :
       IF Loadable(from)
       THEN /\ loaded' = [r \in Rank |-> Entries(from)[r].fin]
            /\ Load(Entries(from)[0], \A r \in Rank : Entries(from)[r].fin = Entries(from)[0].fin)
            /\ saved' = saved \cup ({Entries(from)[0].fin} \ {0})
       ELSE /\ at' = "refused"
            /\ UNCHANGED <<ret, fin, seen, lr, epoch, pos, resumed, stepped, status, val,
                           best, loaded, saved>>
  BY DEF Launch
<1>3. Kept' /\ Outside'
  BY <1>1, <1>2 DEF BInv, Kept, Outside, Load
<1>4. CASE ~Loadable(from)
  <2>1. at' = "refused" /\ UNCHANGED <<ret, fin, seen, lr, epoch, pos, resumed, stepped, status, val, best, loaded, saved>>
    BY <1>2, <1>4
  <2>2. TypeOK'
    BY <1>1, <2>1 DEF BInv, TypeOK, Places
  <2>3. Placed' /\ Trained'
    BY <1>1, <2>1 DEF BInv, Placed, Trained, Loops, Saving
  <2> QED BY <1>3, <2>2, <2>3 DEF BInv
<1>5. CASE Loadable(from)
  <2>1. PICK c \in Files : c = Entries(from)[0]
    BY RankZero, EntriesAre
  <2>2. /\ loaded' = [r \in Rank |-> Entries(from)[r].fin]
        /\ Load(c, \A r \in Rank : Entries(from)[r].fin = c.fin) /\ saved' = saved \cup ({c.fin} \ {0})
    BY <1>2, <1>5, <2>1
  <2>3. PICK n \in 0..Steps : n = c.fin /\ (n = 0 => c = None) /\ (n # 0 => n \in AllSteps /\ IsOf(cfg, c, n))
    <3>1. c = None \/ c.kind = "whole"
      BY <1>5, <2>1, LoadedIs
    <3>2. c.kind = "whole" => c.fin \in AllSteps /\ IsOf(cfg, c, c.fin)
      BY <2>1, RankZero, EntriesAre
    <3> QED BY <3>1, <3>2, TrainerAssumption DEF None, AllSteps
  <2>4. /\ fin' = n /\ seen' = c.seen /\ lr' = c.lr
        /\ resumed' = (IF cfg.loader = "plain" \/ n = 0 THEN -1 ELSE c.pos)
        /\ best' = Infinity /\ at' \in {"launched", "apart"} /\ epoch' = n \div StepsPerEpoch
        /\ pos' = 0 /\ ~stepped' /\ stepped' \in BOOLEAN /\ status' = 0 /\ val' = 0 /\ ret' = "none"
    BY <2>2, <2>3 DEF Load
  <2>5. /\ n # 0 => c.pos = PosAfter(n)
        /\ Uninterrupted(cfg, c.seen, n)
        /\ c.seen \in Seq(Batches) /\ c.lr \in Nat
        /\ ~Late(cfg) /\ Beyond(cfg, n) => c.lr = Rate(cfg, n)
    <3>1. CASE n = 0
      <4>1. c = None
        BY <2>3, <3>1
      <4>2. 0 \div StepsPerEpoch = 0
        BY EpochSteps, Unique
      <4> QED BY <3>1, <4>1, <4>2 DEF None, Uninterrupted, Rate
    <3>2. CASE n # 0
      BY <2>3, <3>2 DEF IsOf, Files
    <3> QED BY <3>1, <3>2
  <2>6. n \div StepsPerEpoch \in Nat /\ (n # 0 => PosAfter(n) \in 0..Loader)
    <3>1. n \div StepsPerEpoch \in Nat
      BY Division
    <3>2. n # 0 => (n - 1) % StepsPerEpoch \in Nat
      <4>1. SUFFICES ASSUME n # 0 PROVE (n - 1) % StepsPerEpoch \in Nat
        OBVIOUS
      <4>2. PICK k \in Nat : k = n - 1
        BY <4>1
      <4> QED BY <4>2, Division
    <3> QED BY <3>1, <3>2, TakenFacts DEF PosAfter
  <2>7. TypeOK'
    <3>1. loaded' \in [Rank -> Nat]
      BY <2>2, EntriesAre DEF Files
    <3>2. resumed' \in {-1} \cup 0..Loader
      BY <2>4, <2>5, <2>6
    <3>3. 0 \in 0..Loader
      BY TrainerAssumption
    <3>4. saved' \subseteq AllSteps
      BY <2>2, <2>3 DEF BInv, TypeOK
    <3> QED BY <1>1, <2>4, <2>5, <2>6, <3>1, <3>2, <3>3, <3>4 DEF BInv, TypeOK, Places, Infinity
  <2>8. Placed'
    <3>1. ~Saving'
      BY <2>4 DEF Saving
    <3> QED BY <2>4, <2>5, <3>1 DEF Placed, Loops
  <2>9. Trained'
    <3>1. n < MaxTrainSteps => Beyond(cfg, n)
      BY DEF BInv, TypeOK, Beyond, MaxTrainSteps
    <3>2. MaxTrainSteps' = MaxTrainSteps
      BY <1>1 DEF MaxTrainSteps
    <3> QED BY <1>1, <2>4, <2>5, <3>1, <3>2 DEF Trained, Loops
  <2> QED BY <1>3, <2>7, <2>8, <2>9 DEF BInv
<1> QED BY <1>4, <1>5

\* Lost but for the directory.
LEMMA LostBase ==
    ASSUME BInv, Lost, launch' \in 1..Len(cfg.launches), crashes' \in Nat
    PROVE  BInv'
<1>1. /\ at' = "down" /\ fin' = 0 /\ sv' = [r \in Rank |-> "idle"] /\ expire' = [r \in Rank |-> {}]
      /\ UNCHANGED <<cfg, dirs, file, last, bestf, saved>>
  BY DEF Lost, disk
<1>2. /\ ret' = "none" /\ seen' = <<>> /\ lr' = 0 /\ epoch' = 0 /\ pos' = 0 /\ resumed' = -1
      /\ status' = 0 /\ val' = 0 /\ best' = Infinity /\ loaded' = [r \in Rank |-> 0] /\ stepped' \in BOOLEAN
  BY DEF Lost
<1>3. TypeOK'
  <2>1. 0 \in 0..Steps /\ 0 \in 0..Loader /\ <<>> \in Seq(Batches) /\ [r \in Rank |-> 0] \in [Rank -> Nat]
    BY TrainerAssumption
  <2>2. sv' \in [Rank -> {"idle"} \cup Writes \cup Cleans] /\ expire' \in [Rank -> SUBSET AllSteps]
    BY <1>1
  <2> QED BY <1>1, <1>2, <2>1, <2>2 DEF BInv, TypeOK, Places, Infinity
<1>4. Placed' /\ Trained'
  BY <1>1, <1>2 DEF Placed, Trained, Loops, Saving, Uninterrupted
<1>5. Kept' /\ Outside'
  BY <1>1 DEF BInv, Kept, Outside
<1> QED BY <1>3, <1>4, <1>5 DEF BInv

LEMMA EndBase == ASSUME BInv, Crash \/ Relaunch PROVE BInv'
<1>1. Lost /\ cfg \in Config /\ launch \in 1..Len(cfg.launches) /\ crashes \in Nat /\ Len(cfg.launches) \in Nat
  BY Configured DEF Crash, Relaunch, BInv, TypeOK
<1>2. launch' \in 1..Len(cfg.launches) /\ crashes' \in Nat
  BY <1>1 DEF Crash, Relaunch
<1> QED BY <1>1, <1>2, LostBase

LEMMA BaseBegins == Init => BInv
<1> SUFFICES ASSUME Init PROVE BInv
  OBVIOUS
<1>1. /\ cfg \in Config /\ launch = 1 /\ at = "down" /\ fin = 0 /\ saved = {} /\ dirs = {} /\ best = Infinity
      /\ sv = [r \in Rank |-> "idle"] /\ expire = [r \in Rank |-> {}]
      /\ file = [s \in AllSteps |-> Nothing] /\ last = Nothing /\ bestf = Nothing
  BY DEF Init
<1>2. launch \in 1..Len(cfg.launches)
  BY <1>1, Configured
<1>3. Nothing \in [Rank -> Files] /\ \A r \in Rank : Nothing[r].kind = "none"
  BY SomeFiles DEF Nothing, None
<1>4. /\ ret = "none" /\ seen = <<>> /\ lr = 0 /\ epoch = 0 /\ pos = 0 /\ resumed = -1
      /\ status = 0 /\ val = 0 /\ crashes = 0 /\ stepped \in BOOLEAN
  BY DEF Init
<1>5. TypeOK
  <2>1. 0 \in 0..Steps /\ 0 \in 0..Loader /\ <<>> \in Seq(Batches)
    BY TrainerAssumption
  <2>2. /\ sv \in [Rank -> {"idle"} \cup Writes \cup Cleans] /\ expire \in [Rank -> SUBSET AllSteps]
        /\ loaded \in [Rank -> Nat] /\ file \in [AllSteps -> [Rank -> Files]]
    BY <1>1, <1>3 DEF Init
  <2> QED BY <1>1, <1>2, <1>3, <1>4, <2>1, <2>2 DEF TypeOK, Places, Infinity
<1>6. Placed /\ Trained
  BY <1>1, <1>4 DEF Placed, Trained, Loops, Saving, Uninterrupted
<1>7. Kept /\ Outside
  BY <1>1, <1>3 DEF Kept, Outside
<1> QED BY <1>5, <1>6, <1>7 DEF BInv

LEMMA BaseStutters == ASSUME BInv, UNCHANGED vars PROVE BInv'
<1>1. TypeOK'
  BY DEF BInv, TypeOK, vars, train, disk
<1>2. Placed' /\ Trained'
  BY DEF BInv, Placed, Trained, Saving, InEpoch, MaxTrainSteps, EpochsLeft, LossAt, vars, train, disk
<1>3. Kept' /\ Outside'
  BY DEF BInv, Kept, Outside, vars, train, disk
<1> QED BY <1>1, <1>2, <1>3 DEF BInv

LEMMA BasePreserved == ASSUME BInv, [Next]_vars PROVE BInv'
<1>1. CASE Launch \/ Crash \/ Relaunch
  BY <1>1, LaunchBase, EndBase
<1>2. CASE BeginTrain \/ BeginEpoch \/ TrainStep
  BY <1>2, BeginTrainBase, BeginEpochBase, TrainStepBase
<1>3. CASE SaveEverySteps \/ AtLimit \/ ValidateEverySteps
  BY <1>3, SaveEveryStepsBase, AtLimitBase, ValidateEveryStepsBase
<1>4. CASE SaveEveryEpochs \/ ValidateEveryEpochs \/ EndEpoch
  BY <1>4, SaveEveryEpochsBase, ValidateEveryEpochsBase, EndEpochBase
<1>5. CASE ValidateAndSave \/ BeginSave \/ SecondBarrier \/ ReturnFromSave
  BY <1>5, ValidateAndSaveBase, BeginSaveBase, SecondBarrierBase, ReturnFromSaveBase
<1>6. ASSUME NEW r \in Rank, Saves(r) PROVE BInv'
  <2>1. CASE OpenFile(r) \/ CloseFile(r) \/ UpdateLast(r) \/ UpdateBest(r)
    BY <2>1, OpenFileBase, CloseFileBase, UpdateLastBase, UpdateBestBase
  <2>2. CASE ListExpired(r) \/ RemoveTree(r) \/ RemoveFails(r) \/ RemovedAll(r)
    BY <2>2, ListExpiredBase, RemoveTreeBase, RemoveFailsBase, RemovedAllBase
  <2> QED BY <1>6, <2>1, <2>2 DEF Saves
<1>7. CASE Over \/ UNCHANGED vars
  BY <1>7, BaseStutters DEF Over
<1> QED BY <1>1, <1>2, <1>3, <1>4, <1>5, <1>6, <1>7 DEF Next, Loop

(***************************************************************************)
(* The steps of the loop, while launches go on where the former left off.  *)
(***************************************************************************)
LEMMA Rests ==
    ASSUME IInv, Still, at \notin {"saving", "down"}, at' \notin {"saving", "down", "refused", "apart"},
           best' = best, fin' = fin \/ fin' <= MaxTrainSteps
    PROVE  /\ Resumed' /\ Unwanted' /\ Recorded' /\ Paired' /\ Written' /\ Removing' /\ Trimmed'
           /\ LastIsNewest' /\ Lowest' /\ LinksWhole'
<1>1. Resumed' /\ Unwanted'
  BY DEF IInv, Resumed, Unwanted, MaxTrainSteps, Still, disk
<1>2. ~Rewriting /\ ~Rewriting' /\ ~Cleaning /\ ~Cleaning'
  BY DEF Rewriting, Cleaning
<1>3. Paired'
  BY <1>2, Zenon DEF IInv, Paired, Alike, Still, disk
<1>4. Recorded'
  BY <1>2 DEF IInv, Recorded, NewestThere, Complete, Still, disk
<1>5. Written' /\ Removing' /\ Trimmed'
  BY <1>2 DEF Written, Removing, Trimmed
<1>6. LastIsNewest'
  BY DEF IInv, LastIsNewest, Complete, Still, disk
<1>7. Lowest'
  BY <1>2 DEF IInv, Lowest, First, Low, LossAt, Still, disk
<1>8. LinksWhole'
  BY DEF IInv, LinksWhole, Still, disk
<1> QED BY <1>1, <1>3, <1>4, <1>5, <1>6, <1>7, <1>8

LEMMA CoverRests ==
    ASSUME Cover, Still, fin' = fin, at \notin {"saving", "down"}, at' # "saving"
    PROVE  Cover'
BY DEF Cover, Covered, Sure, Complete, Rewriting, MaxTrainSteps, Still, disk

LEMMA BeginTrainStep == ASSUME IInv, BeginTrain PROVE IInv'
<1>1. /\ Still /\ at = "launched" /\ at' \in {"done", "epoch"}
      /\ UNCHANGED <<ret, fin, seen, lr, epoch, pos, resumed, stepped, status, val, best>>
  BY DEF BeginTrain, Goto, Still
<1>3. Dealt'
  BY <1>1 DEF IInv, BInv, Dealt, Loops, Still, disk, Complete
<1>4. Cover'
  BY <1>1, CoverRests DEF IInv, BInv
<1> QED BY <1>1, <1>3, <1>4, Rests, BeginTrainBase, LimitNow DEF IInv, BInv, Resumed

LEMMA BeginEpochStep == ASSUME IInv, BeginEpoch PROVE IInv'
<1>1. /\ Still /\ at = "epoch" /\ at' = "step"
      /\ UNCHANGED <<ret, fin, seen, lr, epoch, best>>
      /\ resumed' = -1 /\ ~stepped' /\ stepped' \in BOOLEAN /\ status' = 0 /\ val' = 0
  BY DEF BeginEpoch, Goto, Still
<1>2. Dealt'
  BY <1>1 DEF IInv, BInv, Dealt, Loops, Still, disk, Complete, SavesAfter
<1>3. Cover'
  BY <1>1, CoverRests DEF IInv, BInv
<1> QED BY <1>1, <1>2, <1>3, Rests, BeginEpochBase DEF IInv, BInv

LEMMA TrainStepStep == ASSUME IInv, TrainStep PROVE IInv'
<1>1. /\ Still /\ at = "step" /\ at' = "stepped" /\ fin' = fin + 1
      /\ UNCHANGED <<ret, epoch, resumed, best>>
      /\ stepped' /\ stepped' \in BOOLEAN /\ status' = 0 /\ val' = 0
      /\ lr' = IF cfg.interval = "step" THEN lr + 1 ELSE lr
  BY DEF TrainStep, Goto, Still
<1>2. fin \in Nat /\ (stepped => InEpoch > 0) /\ (fin % StepsPerEpoch = 0 => InEpoch = 0)
  <2>1. InEpoch \in 0..StepsPerEpoch /\ pos = Taken(InEpoch) /\ pos < Loader /\ (stepped => InEpoch > 0)
    BY <1>1 DEF IInv, BInv, Placed, Loops, TrainStep
  <2>2. InEpoch # StepsPerEpoch
    BY <2>1, TakenFacts, TrainerAssumption
  <2> QED BY <2>1, <2>2, PlaceInEpoch, EpochSteps DEF IInv, BInv, TypeOK
<1>3. fin < MaxTrainSteps /\ MaxTrainSteps \in 0..Steps /\ Steps \in Nat
  BY <1>1, LimitNow DEF IInv, BInv, Placed
<1>4. fin + 1 \in AllSteps /\ ~Complete(fin + 1)
  BY <1>1, <1>2, <1>3 DEF IInv, BInv, Cover, AllSteps
<1>5. Dealt'
  BY <1>1, <1>4 DEF IInv, BInv, Dealt, Loops, Still, disk, Complete, SavesAfter
<1>6. Cover'
  <2>1. fin > 0 /\ SavesAfter(cfg, launch, fin) => Complete(fin)
    <3>1. CASE ~stepped
      BY <1>1, <3>1 DEF IInv, BInv, Dealt
    <3>2. CASE stepped
      <4>1. fin % StepsPerEpoch # 0 /\ fin # Limit(cfg, launch)
        BY <1>2, <1>3, <3>2 DEF MaxTrainSteps
      <4> QED BY <1>1, <4>1 DEF IInv, BInv, Dealt, SavesAfter
    <3> QED BY <3>1, <3>2
  <2>2. \A m \in 1..fin : SavesAfter(cfg, launch, m) => Covered(m)
    <3>1. ASSUME NEW m \in 1..fin, SavesAfter(cfg, launch, m) PROVE Covered(m)
      <4>1. CASE m = fin
        BY <1>1, <1>2, <1>3, <2>1, <3>1, <4>1 DEF Covered, Sure, Rewriting, AllSteps
      <4>2. CASE m # fin
        BY <1>1, <1>2, <3>1, <4>2 DEF IInv, BInv, Cover
      <4> QED BY <4>1, <4>2
    <3> QED BY <3>1
  <2>3. ASSUME NEW m PROVE Covered(m)' = Covered(m)
    BY <1>1 DEF Covered, Sure, Complete, Rewriting, Still, disk
  <2>4. (fin + 1) - 1 = fin
    BY <1>2
  <2>5. \A n \in AllSteps : Complete(n)' => n <= fin + 1
    BY <1>1, <1>2 DEF IInv, BInv, Cover, Complete, Still, disk, AllSteps
  <2> QED BY <1>1, <2>2, <2>3, <2>4, <2>5 DEF IInv, BInv, Cover, MaxTrainSteps, Still, disk
<1>7. fin' <= MaxTrainSteps
  BY <1>1, <1>2, <1>3
<1> QED BY <1>1, <1>5, <1>6, <1>7, Rests, TrainStepBase DEF IInv

LEMMA SaveEveryStepsStep == ASSUME IInv, SaveEverySteps PROVE IInv'
<1>1. /\ Still /\ at = "stepped" /\ UNCHANGED <<fin, seen, lr, epoch, pos, resumed, stepped, status, val, best>>
      /\ \/ at' = "validate" /\ ret' = "limit" /\ Due(fin, cfg.everySteps)
         \/ at' = "limit" /\ ret' = ret /\ ~Due(fin, cfg.everySteps)
  BY DEF SaveEverySteps, CallSave, Goto, Still
<1>2. Dealt'
  BY <1>1 DEF IInv, BInv, Dealt, Loops, Still, disk, Complete
<1>3. Cover'
  BY <1>1, CoverRests DEF IInv, BInv
<1> QED BY <1>1, <1>2, <1>3, Rests, SaveEveryStepsBase DEF IInv, BInv

LEMMA AtLimitStep == ASSUME IInv, AtLimit PROVE IInv'
<1>1. /\ Still /\ at = "limit" /\ UNCHANGED <<fin, seen, lr, epoch, pos, resumed, stepped, status, val, best>>
      /\ \/ at' = "validate" /\ ret' = "next" /\ status = 0
         \/ at' = "next" /\ ret' = ret /\ status # 0
  BY DEF AtLimit, CallSave, Goto, Still
<1>2. Dealt'
  <2>1. status \in 0..2 /\ status # 1 /\ (status = 2 <=> Complete(fin)) /\ Complete(fin)' = Complete(fin)
    BY <1>1 DEF IInv, BInv, TypeOK, Placed, Dealt, Loops, Complete, Still, disk
  <2> QED BY <1>1, <2>1 DEF IInv, BInv, Dealt, Loops, Still, disk, Complete
<1>3. Cover'
  BY <1>1, CoverRests DEF IInv, BInv
<1> QED BY <1>1, <1>2, <1>3, Rests, AtLimitBase DEF IInv, BInv

LEMMA ValidateEveryStepsStep == ASSUME IInv, ValidateEverySteps PROVE IInv'
<1>1. /\ Still /\ at = "limit" /\ at' = "step" /\ UNCHANGED <<ret, fin, seen, lr, epoch, pos, resumed, stepped, best>>
      /\ \/ status = 0 /\ status' = 1 /\ val' = LossAt(fin)
         \/ UNCHANGED <<val, status>>
  BY DEF ValidateEverySteps, Validate, Goto, Still
<1>2. Dealt'
  <2>1. Complete(fin)' = Complete(fin) /\ stepped
    BY <1>1 DEF Complete, Still, disk, IInv, BInv, Placed, Loops
  <2> QED BY <1>1, <2>1 DEF IInv, BInv, Dealt, Loops, Still, disk, Complete
<1>3. Cover'
  BY <1>1, CoverRests DEF IInv, BInv
<1> QED BY <1>1, <1>2, <1>3, Rests, ValidateEveryStepsBase DEF IInv, BInv

LEMMA SaveEveryEpochsStep == ASSUME IInv, SaveEveryEpochs PROVE IInv'
<1>1. /\ Still /\ at = "step" /\ pos >= Loader
      /\ UNCHANGED <<fin, seen, lr, epoch, pos, resumed, stepped, status, val, best>>
  BY DEF SaveEveryEpochs, CallSave, Goto, Still
<1>2. stepped /\ InEpoch = StepsPerEpoch
  <2>1. /\ InEpoch \in 0..StepsPerEpoch /\ pos = Taken(InEpoch) /\ (~stepped => InEpoch < StepsPerEpoch)
    BY <1>1 DEF IInv, BInv, Placed, Loops
  <2>2. ASSUME InEpoch # StepsPerEpoch PROVE FALSE
    <3>1. InEpoch \in 0..(StepsPerEpoch - 1)
      BY <2>1, <2>2, EpochSteps
    <3>2. InEpoch * UpdateFreq < Loader /\ pos = InEpoch * UpdateFreq
      BY <2>1, <3>1, TakenFacts
    <3> QED BY <1>1, <3>2, TrainerAssumption DEF IInv, BInv, TypeOK
  <2> QED BY <2>1, <2>2, EpochSteps
<1>3. \/ at' = "validate" /\ ret' = "valepoch" /\ status < 2 /\ Due(epoch + 1, cfg.everyEpochs)
      \/ at' = "valepoch" /\ ret' = ret /\ ~(status < 2 /\ Due(epoch + 1, cfg.everyEpochs))
  BY <1>2 DEF SaveEveryEpochs, CallSave, Goto
<1>4. MaxTrainSteps' = MaxTrainSteps /\ InEpoch' = InEpoch /\ EpochsLeft' /\ fin < MaxTrainSteps
  BY <1>1 DEF MaxTrainSteps, InEpoch, Still, EpochsLeft, IInv, BInv, Placed, Loops
<1>5. fin \div StepsPerEpoch = epoch + 1 /\ fin \in Nat /\ MaxTrainSteps \in Nat
  BY <1>2, PlaceInEpoch, LimitNow, EpochSteps, SMTT(30) DEF IInv, BInv, TypeOK
<1>6. Dealt'
  <2>1. Complete(fin)' = Complete(fin) /\ status \in 0..2 /\ (status = 2 <=> Complete(fin))
    BY <1>1, <1>2 DEF Complete, Still, disk, IInv, BInv, Dealt, TypeOK, Loops
  <2>2. SavesAfter(cfg, launch, fin) /\ fin > 0 /\ at' = "valepoch" => Complete(fin)
    BY <1>1, <1>3, <1>4, <1>5, <2>1 DEF SavesAfter, MaxTrainSteps, IInv, BInv, Dealt
  <2> QED BY <1>1, <1>3, <2>1, <2>2 DEF IInv, BInv, Dealt, Loops, Still, disk, Complete
<1>7. Cover'
  BY <1>1, <1>3, CoverRests DEF IInv, BInv
<1> QED BY <1>1, <1>3, <1>6, <1>7, Rests, SaveEveryEpochsBase DEF IInv, BInv

LEMMA ValidateEveryEpochsStep == ASSUME IInv, ValidateEveryEpochs PROVE IInv'
<1>1. /\ Still /\ at = "valepoch" /\ at' = "next"
      /\ UNCHANGED <<ret, fin, seen, lr, epoch, pos, resumed, stepped, best>>
      /\ \/ status = 0 /\ status' = 1 /\ val' = LossAt(fin)
         \/ UNCHANGED <<val, status>>
  BY DEF ValidateEveryEpochs, Validate, Goto, Still
<1>2. Dealt'
  <2>1. Complete(fin)' = Complete(fin) /\ stepped
    BY <1>1 DEF Complete, Still, disk, IInv, BInv, Placed, Loops
  <2> QED BY <1>1, <2>1 DEF IInv, BInv, Dealt, Loops, Still, disk, Complete
<1>3. Cover'
  BY <1>1, CoverRests DEF IInv, BInv
<1> QED BY <1>1, <1>2, <1>3, Rests, ValidateEveryEpochsBase DEF IInv, BInv

LEMMA ValidateAndSaveStep == ASSUME IInv, ValidateAndSave PROVE IInv'
<1>1. /\ Still /\ at = "validate" /\ at' = "save"
      /\ UNCHANGED <<ret, fin, seen, lr, epoch, pos, resumed, stepped, status, best>>
      /\ val' = IF cfg.val /\ val = 0 THEN LossAt(fin) ELSE val
  BY DEF ValidateAndSave, Validate, Goto, Still
<1>2. Dealt'
  <2>1. Complete(fin)' = Complete(fin) /\ stepped
    BY <1>1 DEF Complete, Still, disk, IInv, BInv, Placed, Loops
  <2> QED BY <1>1, <2>1 DEF IInv, BInv, Dealt, Loops, Still, disk, Complete
<1>3. Cover'
  BY <1>1, CoverRests DEF IInv, BInv
<1> QED BY <1>1, <1>2, <1>3, Rests, ValidateAndSaveBase DEF IInv, BInv

LEMMA EndEpochStep == ASSUME IInv, EndEpoch PROVE IInv'
<1>1. /\ Still /\ at = "next" /\ UNCHANGED <<ret, fin, seen, pos, resumed, stepped, status, val, best>>
      /\ lr' = IF cfg.interval = "epoch" THEN lr + 1 ELSE lr
  BY DEF EndEpoch, Goto, Still
<1>2. at' = "done" \/ at' = "epoch"
  BY DEF EndEpoch, Goto
<1>3. Dealt'
  BY <1>1, <1>2 DEF IInv, BInv, Dealt, Loops, Still, disk, Complete, SavesAfter
<1>4. Cover'
  BY <1>1, <1>2, CoverRests DEF IInv, BInv
<1> QED BY <1>1, <1>2, <1>3, <1>4, Rests, EndEpochBase DEF IInv, BInv

\* What the newest directory is before the step is saved.
LEMMA NothingNewer ==
    ASSUME IInv, at = "save"
    PROVE  ~Complete(fin) /\ fin \notin saved /\ \A d \in dirs : d <= fin
<1>1. fin \in AllSteps /\ SavesAfter(cfg, launch, fin) /\ ~Complete(fin)
  <2>1. stepped /\ fin \in AllSteps /\ SavesAfter(cfg, launch, fin)
    BY SaveIsDue, SomeStep DEF IInv, Saving, Loops
  <2> QED BY <2>1 DEF IInv, BInv, Dealt, Loops
<1>2. ~Covered(fin)
  BY <1>1 DEF Covered, Sure, IInv, BInv, Cover, AllSteps
<1>3. \A d \in dirs : d <= fin
  <2>1. ASSUME NEW d \in dirs, d > fin PROVE FALSE
    <3>1. d \in AllSteps /\ fin \in 1..(d - 1)
      BY <1>1, <2>1 DEF IInv, BInv, TypeOK, AllSteps
    <3> QED BY <1>1, <1>2, <3>1 DEF IInv, BInv, Cover
  <2> QED BY <1>1, <2>1 DEF IInv, BInv, TypeOK, AllSteps
<1> QED BY <1>1, <1>2, <1>3 DEF IInv, BInv, Cover

LEMMA BeginSaveStep == ASSUME IInv, BeginSave PROVE IInv'
<1>1. /\ at = "save" /\ at' = "saving" /\ sv' = [r \in Rank |-> "write"]
      /\ UNCHANGED <<cfg, launch, ret, fin, seen, lr, epoch, pos, resumed, stepped, status, val,
                     best, loaded, expire, disk, saved, crashes>>
  BY DEF BeginSave
<1>2. Rewriting' /\ ~Cleaning' /\ ~Rewriting /\ ~Cleaning
  BY <1>1, RankZero DEF Rewriting, Cleaning, Writes
<1>3. ~Complete(fin) /\ fin \notin saved /\ \A d \in dirs : d <= fin
  BY <1>1, NothingNewer
<1>4. BInv' /\ fin <= MaxTrainSteps
  BY <1>1, BeginSaveBase DEF IInv, Resumed
<1>5. Dealt' /\ Resumed' /\ Unwanted'
  BY <1>1, <1>4 DEF IInv, Dealt, Resumed, Unwanted, Loops, MaxTrainSteps, disk
<1>6. Cover'
  <2>1. ASSUME NEW n PROVE Sure(n)' = Sure(n)
    BY <1>1, <1>2, <1>3 DEF Sure, Complete, disk
  <2> QED BY <1>1, <2>1 DEF IInv, Cover, Covered, Complete, MaxTrainSteps, disk
<1>7. Recorded'
  BY <1>1, <1>2 DEF IInv, Recorded, NewestThere, Complete, disk
<1>8. Paired'
  BY <1>1, <1>2 DEF IInv, Paired, Alike, disk
<1>9. Removing' /\ Trimmed' /\ LastIsNewest'
  BY <1>1, <1>2 DEF Removing, Trimmed, LastIsNewest
<1>10. Written'
  BY <1>1, <1>3 DEF Written, WrittenBy, Writes, disk
<1>11. Lowest'
  BY <1>1, <1>2 DEF IInv, Lowest, First, Low, LossAt, disk
<1>12. LinksWhole'
  BY <1>1 DEF IInv, LinksWhole, disk
<1> QED BY <1>4, <1>5, <1>6, <1>7, <1>8, <1>9, <1>10, <1>11, <1>12 DEF IInv

\* Where a rank that saves is.
LEMMA InSave ==
    ASSUME IInv, NEW r \in Rank, sv[r] # "idle"
    PROVE  /\ at = "saving" /\ fin \in AllSteps
           /\ sv[r] \in Writes => Rewriting /\ ~Cleaning
           /\ sv[r] \in Cleans => Cleaning /\ ~Rewriting
<1>1. at = "saving"
  BY DEF IInv, BInv, Outside
<1>2. fin \in AllSteps
  BY <1>1, SaveIsDue DEF IInv, Saving
<1>3. Rewriting => sv[r] \in Writes
  BY DEF IInv, BInv, Written, WrittenBy
<1>4. Cleaning => sv[r] \in Cleans
  BY DEF IInv, BInv, Removing
<1> QED BY <1>1, <1>2, <1>3, <1>4 DEF Rewriting, Cleaning, Writes, Cleans

\* What a save leaves to the loop.
LEMMA LoopRests ==
    ASSUME IInv, at = "saving", UNCHANGED <<cfg, train>>
    PROVE  Dealt' /\ LastIsNewest' /\ Resumed'
BY DEF IInv, Dealt, LastIsNewest, Resumed, Loops, MaxTrainSteps, train

\* A rank that writes goes on to write or waits at the second barrier.
LEMMA GoesOn ==
    ASSUME IInv, NEW r \in Rank, NEW phase \in Writes \ {"wrote"}, Does(r, phase), UNCHANGED <<cfg, train>>
    PROVE  /\ Rewriting /\ ~Cleaning /\ Rewriting' /\ ~Cleaning'
           /\ Then(r, phase) \in Writes
           /\ sv' \in [Rank -> {"idle"} \cup Writes \cup Cleans]
           /\ sv'[r] = Then(r, phase) /\ \A q \in Rank \ {r} : sv'[q] = sv[q]
           /\ BestNow' <=> BestNow
<1>1. sv[r] = phase /\ sv' = [sv EXCEPT ![r] = Then(r, phase)] /\ sv \in [Rank -> {"idle"} \cup Writes \cup Cleans]
  BY DEF Does, IInv, BInv, TypeOK
<1>2. Rewriting /\ ~Cleaning /\ at = "saving"
  BY <1>1, InSave DEF Writes
<1>3. Then(r, phase) \in Writes
  BY DEF Then, Writing, AfterLast, Writes
<1>4. \A q \in Rank : sv'[q] \in Writes
  BY <1>1, <1>2, <1>3 DEF IInv, BInv, Written, WrittenBy
<1>5. Rewriting' /\ ~Cleaning'
  BY <1>2, <1>4, RankZero DEF Rewriting, Cleaning, train
<1>6. BestNow' <=> BestNow
  BY DEF BestNow, LossAt, train
<1> QED BY <1>1, <1>2, <1>3, <1>5, <1>6

\* A directory that was left behind unsaved is not older than where the training is.
LEMMA NotBehind ==
    ASSUME IInv, at # "down", NEW d \in dirs \ saved, d < fin
    PROVE  FALSE
<1>1. SavesAfter(cfg, launch, d) /\ d \in 1..(fin - 1) /\ fin \in Nat
  BY DEF IInv, BInv, Recorded, TypeOK, AllSteps
<1>2. PICK n \in AllSteps : Sure(n) /\ d <= n
  BY <1>1 DEF IInv, Cover, Covered
<1>3. n \in saved /\ n <= d
  BY <1>2 DEF IInv, Recorded, Sure
<1> QED BY <1>1, <1>2, <1>3 DEF AllSteps

\* While the files of a step are written nothing else is touched.
LEMMA CoverWhileWriting ==
    ASSUME IInv, Rewriting, Rewriting', UNCHANGED <<cfg, train, saved>>,
           dirs' = dirs \/ dirs' = dirs \cup {fin},
           \A n \in AllSteps \ {fin} : file'[n] = file[n]
    PROVE  Cover' /\ Recorded'
<1>1. ASSUME NEW n \in AllSteps PROVE Sure(n)' = Sure(n)
  BY <1>1 DEF Sure, Complete, train
<1>2. ASSUME NEW m PROVE Covered(m)' = Covered(m)
  BY <1>1 DEF Covered
<1>3. ASSUME NEW n \in AllSteps, Complete(n)' PROVE Complete(n) \/ n = fin
  BY <1>3 DEF Complete
<1>4. at # "down" /\ at' # "down" /\ fin' = fin /\ fin <= fin /\ MaxTrainSteps' = MaxTrainSteps /\ launch' = launch
      /\ fin <= MaxTrainSteps /\ fin \in AllSteps
  BY SaveIsDue DEF train, Rewriting, Saving, MaxTrainSteps, IInv, BInv, TypeOK, Resumed
<1>5. \A n \in AllSteps : Complete(n)' => n <= fin
  BY <1>3, <1>4 DEF IInv, Cover
<1>6. Cover'
  BY <1>2, <1>4, <1>5 DEF IInv, Cover
<1>7. ASSUME NEW d \in dirs' \ saved', NEW e \in dirs' \cup saved'
      PROVE  SavesAfter(cfg, launch, d) /\ e <= d
  <2>1. SavesAfter(cfg, launch, fin) /\ fin \notin saved /\ dirs \cup saved \subseteq AllSteps
    BY SaveIsDue DEF Rewriting, Saving, IInv, BInv, TypeOK, Written
  <2>2. d = fin
    <3>1. d \in dirs /\ d # fin => d < fin
      BY <1>4, <2>1 DEF IInv, Written, AllSteps
    <3> QED BY <1>4, <1>7, <3>1, NotBehind
  <2>3. e <= fin
    <3>1. CASE e \in dirs'
      BY <1>4, <3>1 DEF IInv, Written
    <3>2. CASE e \in saved
      <4>1. PICK n \in AllSteps : Sure(n) /\ e <= n
        BY <3>2 DEF IInv, Cover, Covered
      <4>2. n <= fin
        BY <1>4, <4>1 DEF IInv, Cover, Sure
      <4> QED BY <1>4, <2>1, <3>2, <4>1, <4>2 DEF AllSteps
    <3> QED BY <1>7, <3>1, <3>2
  <2> QED BY <2>1, <2>2, <2>3
<1>8. \A n \in AllSteps : Complete(n)' => n \in saved \/ n = fin
  BY <1>3, <1>4 DEF IInv, Recorded
<1>9. NewestThere'
  <2>1. \A s \in saved : s # fin /\ s \in AllSteps
    BY DEF IInv, BInv, TypeOK, Written
  <2>2. \A s \in saved : Complete(s) => Complete(s)'
    BY <2>1 DEF Complete
  <2> QED BY <2>2 DEF IInv, Recorded, NewestThere
<1>10. Recorded'
  BY <1>4, <1>7, <1>8, <1>9 DEF Recorded
<1> QED BY <1>6, <1>10

LEMMA RestWhileWriting ==
    ASSUME IInv, Rewriting, ~Cleaning, Rewriting', ~Cleaning', UNCHANGED <<cfg, train, saved, crashes>>,
           bestf' = bestf \/ BestNow
    PROVE  Lowest' /\ Paired' /\ Removing' /\ Trimmed'
<1>1. Removing' /\ Trimmed'
  BY DEF Removing, Trimmed
<1>2. BestNow' <=> BestNow
  BY DEF BestNow, LossAt, train
<1>3. Paired'
  BY <1>2 DEF IInv, BInv, Paired, Alike, train
<1>4. Lowest'
  BY <1>2 DEF IInv, BInv, Lowest, First, Low, LossAt, train
<1> QED BY <1>1, <1>3, <1>4

LEMMA OpenFileStep == ASSUME IInv, NEW r \in Rank, OpenFile(r) PROVE IInv'
<1>1. /\ Does(r, "write") /\ UNCHANGED <<cfg, train, saved, crashes, last, bestf, expire>>
      /\ dirs' = dirs \cup {fin} /\ file' = [file EXCEPT ![fin][r] = Partial]
  BY DEF OpenFile, Elsewhere
<1>2. /\ Rewriting /\ ~Cleaning /\ Rewriting' /\ ~Cleaning' /\ Then(r, "write") = "close" /\ at = "saving"
      /\ sv' \in [Rank -> {"idle"} \cup Writes \cup Cleans] /\ sv[r] = "write"
      /\ sv'[r] = "close" /\ (\A q \in Rank \ {r} : sv'[q] = sv[q]) /\ (BestNow' <=> BestNow)
  <2>1. Then(r, "write") = "close"
    BY DEF Then, Writing
  <2>2. "write" \in Writes \ {"wrote"}
    BY DEF Writes
  <2> QED BY <1>1, <2>1, <2>2, GoesOn DEF Does, Rewriting
<1>3. fin \in AllSteps /\ fin \in Nat
  BY <1>2, InSave DEF IInv, BInv, TypeOK, Writes
<1>4. /\ \A n \in AllSteps \ {fin} : file'[n] = file[n]
      /\ \A q \in Rank \ {r} : file'[fin][q] = file[fin][q]
      /\ file'[fin][r] = Partial /\ file' \in [AllSteps -> [Rank -> Files]]
  BY <1>1, <1>3, SomeFiles DEF IInv, BInv, TypeOK
<1>5. BInv'
  BY OpenFileBase DEF IInv
<1>6. Cover' /\ Recorded'
  BY <1>1, <1>2, <1>4, CoverWhileWriting
<1>7. Unwanted'
  BY <1>1 DEF IInv, Unwanted
<1>8. Written'
  <2>1. (\A d \in dirs' : d <= fin) /\ fin \notin saved
    BY <1>1, <1>2, <1>3 DEF IInv, BInv, Written
  <2>2. ASSUME NEW q \in Rank, q # r PROVE WrittenBy(q)'
    <3>1. WrittenBy(q)
      BY <1>2 DEF IInv, BInv, Written
    <3> QED BY <1>1, <1>2, <1>4, <2>2, <3>1 DEF WrittenBy, train
  <2>3. WrittenBy(r)'
    BY <1>1, <1>2 DEF WrittenBy, Writes, IInv, BInv, Written, train
  <2> QED BY <1>1, <2>1, <2>2, <2>3 DEF Written, train
<1>9. LinksWhole'
  BY <1>1, <1>2, <1>4 DEF IInv, BInv, LinksWhole, Written, train, TypeOK
<1> QED BY <1>1, <1>2, <1>5, <1>6, <1>7, <1>8, <1>9, LoopRests, RestWhileWriting DEF IInv

LEMMA CloseFileStep == ASSUME IInv, NEW r \in Rank, CloseFile(r) PROVE IInv'
<1>1. /\ Does(r, "close") /\ UNCHANGED <<cfg, train, saved, crashes, last, bestf, expire, dirs>>
      /\ file' = [file EXCEPT ![fin][r] = Content]
  BY DEF CloseFile, Elsewhere
<1>2. /\ Rewriting /\ ~Cleaning /\ Rewriting' /\ ~Cleaning' /\ at = "saving"
      /\ Then(r, "close") = (IF cfg.saveLast THEN "clearLast" ELSE AfterLast) /\ Then(r, "close") \in Writes
      /\ sv' \in [Rank -> {"idle"} \cup Writes \cup Cleans] /\ sv[r] = "close"
      /\ sv'[r] = Then(r, "close") /\ (\A q \in Rank \ {r} : sv'[q] = sv[q]) /\ (BestNow' <=> BestNow)
  <2>1. Then(r, "close") = IF cfg.saveLast THEN "clearLast" ELSE AfterLast
    BY DEF Then, Writing
  <2>2. "close" \in Writes \ {"wrote"}
    BY DEF Writes
  <2> QED BY <1>1, <2>1, <2>2, GoesOn DEF Does, Rewriting
<1>3. fin \in AllSteps /\ fin \in Nat
  BY <1>2, InSave DEF IInv, BInv, TypeOK, Writes
<1>4. /\ \A n \in AllSteps \ {fin} : file'[n] = file[n]
      /\ \A q \in Rank \ {r} : file'[fin][q] = file[fin][q]
      /\ file'[fin][r] = Content /\ file' \in [AllSteps -> [Rank -> Files]]
  BY <1>1, <1>2, <1>3, ContentIs DEF IInv, BInv, TypeOK
<1>5. BInv'
  BY CloseFileBase DEF IInv
<1>6. Cover' /\ Recorded'
  BY <1>1, <1>2, <1>4, CoverWhileWriting
<1>7. Unwanted'
  BY <1>1 DEF IInv, Unwanted
<1>8. Written'
  <2>1. (\A d \in dirs' : d <= fin) /\ fin \notin saved
    BY <1>1, <1>2, <1>3 DEF IInv, BInv, Written
  <2>2. ASSUME NEW q \in Rank, q # r PROVE WrittenBy(q)'
    <3>1. WrittenBy(q)
      BY <1>2 DEF IInv, BInv, Written
    <3> QED BY <1>1, <1>2, <1>4, <2>2, <3>1 DEF WrittenBy, train
  <2>3. WrittenBy(r)'
    <3>1. WrittenBy(r) /\ IsOf(cfg, Content, fin)
      BY <1>2, ContentIs DEF IInv, BInv, Written
    <3> QED BY <1>1, <1>2, <1>4, <3>1 DEF WrittenBy, AfterLast, train
  <2> QED BY <1>1, <2>1, <2>2, <2>3 DEF Written, train
<1>9. LinksWhole'
  BY <1>1, <1>2, <1>4 DEF IInv, BInv, LinksWhole, Written, train, TypeOK
<1> QED BY <1>1, <1>2, <1>5, <1>6, <1>7, <1>8, <1>9, LoopRests, RestWhileWriting DEF IInv

\* What a link or copy of the checkpoint just written is.
LEMMA Points ==
    ASSUME IInv, NEW r \in Rank, fin \in AllSteps, IsOf(cfg, file[fin][r], fin)
    PROVE  /\ LeadsTo(cfg, Pointer(r), fin) /\ Pointer(r) \in Files
           /\ Pointer(r).kind = "link" => Pointer(r) = Link(fin)
           /\ Cleared \in Files /\ Cleared.kind # "link"
<1>1. file[fin][r] \in Files /\ file[fin][r].kind # "link"
  BY DEF IInv, BInv, Kept, TypeOK
<1>2. fin \in Nat /\ cfg.symlink \in BOOLEAN
  BY Configured DEF IInv, BInv, TypeOK
<1>3. LeadsTo(cfg, Pointer(r), fin)
  BY <1>2 DEF LeadsTo, Pointer
<1>4. Pointer(r) \in Files /\ (Pointer(r).kind = "link" => Pointer(r) = Link(fin))
  BY <1>1, <1>2, SomeFiles DEF Pointer
<1>5. Cleared \in Files /\ Cleared.kind # "link"
  BY SomeFiles, SomeKinds DEF Cleared
<1> QED BY <1>3, <1>4, <1>5

LEMMA UpdateLastStep == ASSUME IInv, NEW r \in Rank, UpdateLast(r) PROVE IInv'
<1>1. /\ UNCHANGED <<cfg, train, saved, crashes, file, bestf, expire, dirs>>
      /\ \/ Does(r, "clearLast") /\ last' = [last EXCEPT ![r] = Cleared]
         \/ Does(r, "last") /\ last' = [last EXCEPT ![r] = Pointer(r)]
  BY DEF UpdateLast, Elsewhere
<1>2. /\ Rewriting /\ ~Cleaning /\ Rewriting' /\ ~Cleaning' /\ at = "saving"
      /\ \/ sv[r] = "clearLast" /\ sv'[r] = "last" /\ last' = [last EXCEPT ![r] = Cleared]
         \/ sv[r] = "last" /\ sv'[r] = AfterLast /\ last' = [last EXCEPT ![r] = Pointer(r)]
      /\ sv'[r] \in Writes /\ sv' \in [Rank -> {"idle"} \cup Writes \cup Cleans]
      /\ (\A q \in Rank \ {r} : sv'[q] = sv[q]) /\ (BestNow' <=> BestNow)
  <2>1. Then(r, "clearLast") = "last" /\ Then(r, "last") = AfterLast
    BY DEF Then, Writing
  <2>2. "clearLast" \in Writes \ {"wrote"} /\ "last" \in Writes \ {"wrote"}
    BY DEF Writes
  <2> QED BY <1>1, <2>1, <2>2, GoesOn DEF Does, Rewriting
<1>3. fin \in AllSteps /\ WrittenBy(r) /\ cfg.saveLast /\ IsOf(cfg, file[fin][r], fin)
  BY <1>2, InSave DEF IInv, BInv, Written, WrittenBy, Writes
<1>4. /\ \A q \in Rank \ {r} : last'[q] = last[q]
      /\ \/ sv'[r] = "last" /\ last'[r] = Cleared
         \/ sv'[r] = AfterLast /\ last'[r] = Pointer(r)
      /\ last' \in [Rank -> Files]
      /\ last'[r].kind = "link" => last'[r] = Link(fin)
  BY <1>2, <1>3, Points DEF IInv, BInv, TypeOK
<1>5. BInv'
  BY UpdateLastBase DEF IInv
<1>6. Cover' /\ Recorded'
  BY <1>1, <1>2, CoverWhileWriting
<1>7. Unwanted'
  BY <1>1, <1>3 DEF IInv, Unwanted
<1>8. Written'
  <2>1. (\A d \in dirs' : d <= fin) /\ fin \notin saved
    BY <1>1, <1>2, <1>3 DEF IInv, BInv, Written
  <2>2. ASSUME NEW q \in Rank, q # r PROVE WrittenBy(q)'
    <3>1. WrittenBy(q)
      BY <1>2 DEF IInv, BInv, Written
    <3> QED BY <1>1, <1>2, <1>4, <2>2, <3>1 DEF WrittenBy, train
  <2>3. WrittenBy(r)'
    <3>1. LeadsTo(cfg, Pointer(r), fin)
      BY <1>3, Points
    <3> QED BY <1>1, <1>2, <1>3, <1>4, <3>1 DEF WrittenBy, AfterLast, train
  <2> QED BY <1>1, <2>1, <2>2, <2>3 DEF Written, train
<1>9. LinksWhole'
  BY <1>1, <1>2, <1>4, SomeKinds DEF IInv, BInv, LinksWhole, Written, train
<1> QED BY <1>1, <1>2, <1>5, <1>6, <1>7, <1>8, <1>9, LoopRests, RestWhileWriting DEF IInv

LEMMA UpdateBestStep == ASSUME IInv, NEW r \in Rank, UpdateBest(r) PROVE IInv'
<1>1. /\ UNCHANGED <<cfg, train, saved, crashes, file, last, expire, dirs>>
      /\ \/ Does(r, "clearBest") /\ bestf' = [bestf EXCEPT ![r] = Cleared]
         \/ Does(r, "best") /\ bestf' = [bestf EXCEPT ![r] = Pointer(r)]
  BY DEF UpdateBest, Elsewhere
<1>2. /\ Rewriting /\ ~Cleaning /\ Rewriting' /\ ~Cleaning' /\ at = "saving"
      /\ \/ sv[r] = "clearBest" /\ sv'[r] = "best" /\ bestf' = [bestf EXCEPT ![r] = Cleared]
         \/ sv[r] = "best" /\ sv'[r] = "wrote" /\ bestf' = [bestf EXCEPT ![r] = Pointer(r)]
      /\ sv'[r] \in Writes /\ sv' \in [Rank -> {"idle"} \cup Writes \cup Cleans]
      /\ (\A q \in Rank \ {r} : sv'[q] = sv[q]) /\ (BestNow' <=> BestNow)
  <2>1. Then(r, "clearBest") = "best" /\ Then(r, "best") = "wrote"
    BY DEF Then, Writing
  <2>2. "clearBest" \in Writes \ {"wrote"} /\ "best" \in Writes \ {"wrote"}
    BY DEF Writes
  <2> QED BY <1>1, <2>1, <2>2, GoesOn DEF Does, Rewriting
<1>3. fin \in AllSteps /\ WrittenBy(r) /\ cfg.saveBest /\ BestNow /\ IsOf(cfg, file[fin][r], fin)
  BY <1>2, InSave DEF IInv, BInv, Written, WrittenBy, Writes
<1>4. /\ \A q \in Rank \ {r} : bestf'[q] = bestf[q]
      /\ \/ sv'[r] = "best" /\ bestf'[r] = Cleared
         \/ sv'[r] = "wrote" /\ bestf'[r] = Pointer(r)
      /\ bestf' \in [Rank -> Files]
      /\ bestf'[r].kind = "link" => bestf'[r] = Link(fin)
  BY <1>2, <1>3, Points DEF IInv, BInv, TypeOK
<1>5. BInv'
  BY UpdateBestBase DEF IInv
<1>6. Cover' /\ Recorded'
  BY <1>1, <1>2, CoverWhileWriting
<1>7. Unwanted'
  BY <1>1, <1>3 DEF IInv, Unwanted
<1>8. Written'
  <2>1. (\A d \in dirs' : d <= fin) /\ fin \notin saved
    BY <1>1, <1>2, <1>3 DEF IInv, BInv, Written
  <2>2. ASSUME NEW q \in Rank, q # r PROVE WrittenBy(q)'
    <3>1. WrittenBy(q)
      BY <1>2 DEF IInv, BInv, Written
    <3> QED BY <1>1, <1>2, <1>4, <2>2, <3>1 DEF WrittenBy, train
  <2>3. WrittenBy(r)'
    <3>1. LeadsTo(cfg, Pointer(r), fin)
      BY <1>3, Points
    <3> QED BY <1>1, <1>2, <1>3, <1>4, <3>1 DEF WrittenBy, train
  <2> QED BY <1>1, <2>1, <2>2, <2>3 DEF Written, train
<1>9. LinksWhole'
  BY <1>1, <1>2, <1>4, SomeKinds DEF IInv, BInv, LinksWhole, Written, train
<1> QED BY <1>1, <1>2, <1>3, <1>5, <1>6, <1>7, <1>8, <1>9, LoopRests, RestWhileWriting DEF IInv

\* Everything that is written leads to the checkpoint of this step.
LEMMA AlikeAfter ==
    ASSUME NEW c, NEW n, NEW d, c.symlink \in BOOLEAN, \A r \in Rank : LeadsTo(c, d[r], n)
    PROVE  Alike(d)
BY DEF Alike, LeadsTo, IsOf

\* How many steps are newer than another.
LEMMA SomeNewer ==
    ASSUME NEW S \in SUBSET AllSteps, NEW s
    PROVE  /\ Cardinality({t \in S : t > s}) \in Nat
           /\ Cardinality({t \in S : t > s}) >= 1 => \E t \in S : t > s
           /\ \A T \in SUBSET S : /\ Cardinality({t \in T : t > s}) \in Nat
                                  /\ Cardinality({t \in T : t > s}) <= Cardinality({t \in S : t > s})
<1>1. IsFiniteSet(AllSteps)
  BY FS_Interval, TrainerAssumption DEF AllSteps
<1>2. IsFiniteSet({t \in S : t > s})
  BY <1>1, FS_Subset
<1>3. {t \in S : t > s} = {} => Cardinality({t \in S : t > s}) = 0
  BY FS_EmptySet
<1>4. \A T \in SUBSET S : {t \in T : t > s} \subseteq {t \in S : t > s}
  OBVIOUS
<1>5. \A T \in SUBSET S : /\ IsFiniteSet({t \in T : t > s})
                          /\ Cardinality({t \in T : t > s}) <= Cardinality({t \in S : t > s})
  BY <1>2, <1>4, FS_Subset
<1>6. Cardinality({t \in S : t > s}) \in Nat /\ \A T \in SUBSET S : Cardinality({t \in T : t > s}) \in Nat
  BY <1>2, <1>5, FS_CardinalityType
<1>7. Cardinality({t \in S : t > s}) >= 1 => \E t \in S : t > s
  BY <1>3
<1> QED BY <1>5, <1>6, <1>7

LEMMA SecondBarrierStep == ASSUME IInv, SecondBarrier PROVE IInv'
<1>1. /\ AllAt("wrote") /\ sv' = [r \in Rank |-> Cleanup(r)] /\ saved' = saved \cup {fin}
      /\ UNCHANGED <<cfg, train, expire, dirs, file, last, bestf, crashes>>
  BY DEF SecondBarrier, disk
<1>2. Rewriting /\ ~Cleaning /\ at = "saving" /\ fin \in AllSteps
  <2>1. sv[0] = "wrote"
    BY <1>1, RankZero DEF AllAt
  <2> QED BY <2>1, RankZero, InSave DEF Writes
<1>3. \A r \in Rank : sv'[r] \in {"list", "end"} /\ (sv'[r] = "list" <=> Leader(r))
  BY <1>1 DEF Cleanup
<1>4. Cleaning' /\ ~Rewriting' /\ at' = "saving"
  BY <1>1, <1>2, <1>3, RankZero DEF Cleaning, Rewriting, train, Writes
<1>5. \A r \in Rank : /\ expire[r] = {} /\ IsOf(cfg, file[fin][r], fin) /\ fin \in dirs
                      /\ cfg.saveLast => LeadsTo(cfg, last[r], fin)
                      /\ cfg.saveBest /\ BestNow => LeadsTo(cfg, bestf[r], fin)
  BY <1>1, <1>2 DEF IInv, BInv, Outside, Written, WrittenBy, AllAt
<1>6. Complete(fin) /\ \A n : Complete(n)' <=> Complete(n)
  BY <1>1, <1>5, RankZero DEF Complete, IsOf
<1>7. LossAt(fin) \in 1..99 /\ best \in 0..99 /\ (BestNow <=> LossAt(fin) <= best) /\ (BestNow' <=> BestNow)
  BY <1>1, <1>2, Losses DEF IInv, BInv, TypeOK, Infinity, BestNow, LossAt, train
<1>8. BInv'
  BY SecondBarrierBase DEF IInv
<1>9. Dealt' /\ LastIsNewest' /\ Resumed'
  BY <1>1, <1>2, LoopRests
<1>20. dirs \subseteq saved'
  <2>1. ASSUME NEW d \in dirs, d \notin saved PROVE d = fin
    <3>1. d <= fin /\ d \in AllSteps /\ at # "down"
      BY <1>2, <2>1 DEF IInv, BInv, Written, TypeOK
    <3>2. ~(d < fin)
      BY <2>1, <3>1, NotBehind
    <3> QED BY <1>2, <3>1, <3>2 DEF AllSteps
  <2> QED BY <1>1, <2>1
<1>21. Recorded'
  <2>1. \A n \in AllSteps : Complete(n) => n \in saved'
    BY <1>1, <1>2 DEF IInv, Recorded
  <2>2. ASSUME NEW s \in saved, cfg.keep = 0 \/ Cardinality({t \in saved' : t > s}) < cfg.keep PROVE Complete(s)
    <3>1. saved' \in SUBSET AllSteps /\ saved \in SUBSET saved' /\ cfg.keep \in Nat
      BY <1>1, <1>2, Configured DEF IInv, BInv, TypeOK
    <3>2. /\ Cardinality({t \in saved : t > s}) \in Nat /\ Cardinality({t \in saved' : t > s}) \in Nat
          /\ Cardinality({t \in saved : t > s}) <= Cardinality({t \in saved' : t > s})
      BY <3>1, SomeNewer
    <3>3. cfg.keep = 0 \/ Cardinality({t \in saved : t > s}) < cfg.keep
      BY <2>2, <3>1, <3>2
    <3> QED BY <3>3 DEF IInv, Recorded, NewestThere
  <2>3. NewestThere'
    BY <1>1, <1>6, <2>2 DEF NewestThere
  <2> QED BY <1>1, <1>6, <1>20, <2>1, <2>3 DEF Recorded
<1>10. Cover'
  <2>1. Sure(fin)' /\ \A n \in AllSteps : Sure(n) => Sure(n)'
    BY <1>1, <1>4, <1>6 DEF Sure, train
  <2>2. fin <= fin
    BY DEF IInv, BInv, TypeOK
  <2>3. Covered(fin)' /\ \A m : Covered(m) => Covered(m)'
    BY <1>1, <1>2, <2>1, <2>2 DEF Covered, train
  <2> QED BY <1>1, <1>6, <2>3 DEF IInv, BInv, Cover, MaxTrainSteps, train
<1>11. Unwanted'
  BY <1>1 DEF IInv, Unwanted
<1>12. Alike(last) /\ Alike(bestf)
  <2>1. cfg.symlink \in BOOLEAN /\ cfg.saveLast \in BOOLEAN /\ cfg.saveBest \in BOOLEAN
    BY Configured DEF IInv, BInv, TypeOK
  <2>2. Alike(Nothing)
    BY DEF Alike, Nothing, None
  <2>3. Alike(last)
    BY <1>5, <2>1, <2>2, AlikeAfter DEF IInv, Unwanted
  <2>4. BestNow => Alike(bestf)
    BY <1>5, <2>1, <2>2, AlikeAfter DEF IInv, Unwanted
  <2>5. ~BestNow => Alike(bestf)
    BY <1>7 DEF IInv, BInv, Paired, Infinity
  <2> QED BY <2>3, <2>4, <2>5
<1>13. Paired'
  BY <1>1, <1>12 DEF Paired, Alike
<1>14. Written'
  BY <1>4 DEF Written
<1>15. Removing'
  <2>1. \A r \in Rank : sv'[r] \in Cleans /\ (sv'[r] # "end" => Leader(r)') /\ expire'[r] = {}
    BY <1>1, <1>3, <1>5 DEF Cleans, Leader
  <2>2. Alike(last)' /\ Alike(bestf)'
    BY <1>1, <1>12 DEF Alike
  <2>3. \A r \in Rank : cfg'.saveLast => LeadsTo(cfg, last[r], fin)'
    BY <1>1, <1>5 DEF train
  <2>4. (\A d \in dirs : d <= fin) /\ fin \in saved' /\ Complete(fin)'
    BY <1>1, <1>2, <1>6 DEF IInv, BInv, Written, train
  <2> QED BY <1>1, <1>20, <2>1, <2>2, <2>3, <2>4 DEF Removing, train, Complete
<1>16. Trimmed'
  <2>1. Leader(0)
    <3>1. \A n \in Nat \ {0} : 0 % n = 0
      OBVIOUS
    <3> QED BY <3>1, Configured DEF Leader, IInv, BInv, TypeOK
  <2> QED BY <1>3, <2>1, RankZero DEF Trimmed
<1>17. Lowest'
  <2>1. SUFFICES ASSUME First PROVE /\ \A s \in saved' : best <= LossAt(s) \/ s = fin
                                    /\ \A r \in Rank : Low(bestf[r], IF BestNow THEN LossAt(fin) ELSE best)'
    BY <1>1, <1>2, <1>4 DEF Lowest, First, LossAt, train
  <2>2. \A s \in saved' : best <= LossAt(s) \/ s = fin
    BY <1>1, <1>2, <2>1 DEF IInv, BInv, Lowest
  <2>3. CASE BestNow
    <3>1. ASSUME NEW r \in Rank PROVE Low(bestf[r], LossAt(fin))'
      <4>1. LeadsTo(cfg, bestf[r], fin) /\ fin \in saved'
        BY <1>1, <1>5, <2>1, <2>3 DEF First
      <4>2. bestf[r].fin = fin /\ (bestf[r].kind = "whole" \/ bestf[r].kind = "link")
        BY <4>1, SomeKinds, Configured DEF LeadsTo, IsOf, IInv, BInv, TypeOK
      <4>3. LossAt(fin)' = LossAt(fin) /\ LossAt(fin) <= LossAt(fin)
        BY <1>1, <1>7 DEF LossAt, train
      <4> QED BY <1>1, <1>2, <4>1, <4>2, <4>3 DEF Low, LossAt, train
    <3> QED BY <1>7, <2>2, <2>3, <3>1
  <2>4. CASE ~BestNow
    <3>1. \A r \in Rank : Low(bestf[r], best)
      BY <1>2, <1>7, <2>1, <2>4 DEF IInv, BInv, Lowest, Infinity
    <3>2. \A r \in Rank : Low(bestf[r], best)'
      BY <1>1, <3>1 DEF Low, LossAt, train
    <3> QED BY <1>7, <2>2, <2>4, <3>2
  <2> QED BY <2>3, <2>4
<1>18. LinksWhole'
  BY <1>1, <1>2 DEF IInv, BInv, LinksWhole, train
<1> QED BY <1>8, <1>9, <1>10, <1>11, <1>13, <1>14, <1>15, <1>16, <1>17, <1>18, <1>21 DEF IInv

(***************************************************************************)
(* The removal of old checkpoints.                                         *)
(***************************************************************************)
\* What only reads or removes old checkpoints leaves alone.
LEMMA RestWhileCleaning ==
    ASSUME IInv, Cleaning, UNCHANGED <<cfg, train, saved, crashes, last, bestf>>,
           \A r \in Rank : sv'[r] \in Cleans,
           dirs' \subseteq dirs, fin \in dirs',
           \A n \in AllSteps : Complete(n)' => Complete(n),
           \A n \in AllSteps : Complete(n) /\ n # fin /\ ~Complete(n)' => n < fin,
           file' \in [AllSteps -> [Rank -> Files]], file'[fin] = file[fin],
           \A n \in AllSteps, r \in Rank :
             \/ file'[n][r] = file[n][r]
             \/ file'[n][r] = None /\ ~LinkedTo(n) /\ Old(n),
           \A n \in dirs \ dirs' : Old(n)
    PROVE  /\ Cleaning' /\ ~Rewriting' /\ ~Rewriting /\ at = "saving"
           /\ Cover' /\ Unwanted' /\ Recorded' /\ Paired' /\ Written' /\ Lowest' /\ LinksWhole' /\ Complete(fin)'
<1>1. Cleaning' /\ ~Rewriting' /\ ~Rewriting /\ at = "saving" /\ fin' = fin /\ launch' = launch
  BY RankZero DEF Cleaning, Rewriting, Writes, Cleans, train
<1>2. fin \in AllSteps /\ Complete(fin)
  BY <1>1, SaveIsDue DEF Saving, IInv, BInv, Removing
<1>3. Complete(fin)'
  BY <1>1, <1>2 DEF Complete
<1>4. Cover'
  <2>1. ASSUME NEW m \in Int, Covered(m) PROVE Covered(m)'
    <3>1. PICK n \in AllSteps : Sure(n) /\ m <= n
      BY <2>1 DEF Covered
    <3>2. CASE Complete(n)'
      <4>1. Sure(n)'
        BY <1>1, <3>2 DEF Sure
      <4> QED BY <3>1, <4>1 DEF Covered
    <3>3. CASE ~Complete(n)'
      <4>1. PICK f \in AllSteps : f = fin
        BY <1>2
      <4>2. n < f /\ Sure(f)'
        BY <1>1, <1>2, <1>3, <3>1, <3>3, <4>1 DEF Sure
      <4>3. m <= f
        BY <3>1, <4>2 DEF AllSteps
      <4> QED BY <4>2, <4>3 DEF Covered
    <3> QED BY <3>2, <3>3
  <2>2. MaxTrainSteps' = MaxTrainSteps /\ at' = at
    BY DEF MaxTrainSteps, train
  <2>3. \A s \in AllSteps : s \in Int /\ \A m \in 1..(s - 1) : m \in Int
    BY DEF AllSteps
  <2>4. saved \subseteq AllSteps /\ dirs \subseteq AllSteps
    BY DEF IInv, BInv, TypeOK
  <2>5. \A m \in 1..(fin - 1) : m \in Int
    OBVIOUS
  <2>6. (\A s \in saved' : Covered(s)') /\ \A d \in dirs' : d <= MaxTrainSteps'
    BY <2>1, <2>2, <2>3, <2>4 DEF IInv, BInv, Cover
  <2>7. \A d \in dirs' : \A m \in 1..(d - 1) : SavesAfter(cfg, launch, m) => Covered(m)'
    BY <2>1, <2>3, <2>4 DEF IInv, BInv, Cover
  <2>8. \A m \in 1..(fin - 1) : SavesAfter(cfg, launch, m) => Covered(m)'
    BY <1>1, <2>1, <2>5 DEF IInv, BInv, Cover
  <2>9. \A n \in AllSteps : Complete(n)' => n <= fin
    BY <1>1 DEF IInv, BInv, Cover
  <2> QED BY <1>1, <2>2, <2>6, <2>7, <2>8, <2>9 DEF Cover
<1>5. Unwanted' /\ Recorded'
  <2>1. dirs \subseteq saved /\ at # "down"
    BY <1>1 DEF IInv, Removing
  <2>2. \A n \in AllSteps : Complete(n)' => n \in saved
    BY <1>1, <2>1 DEF Complete
  <2>3. ASSUME NEW s \in saved, cfg.keep = 0 \/ Cardinality({t \in saved : t > s}) < cfg.keep PROVE Complete(s)'
    <3>1. s \in AllSteps /\ Complete(s)
      BY <2>3 DEF IInv, BInv, TypeOK, Recorded, NewestThere
    <3>2. ~Old(s)
      <4>1. Cardinality({t \in saved : t > s}) \in Nat /\ cfg.keep \in Nat
        BY SomeNewer, Configured DEF IInv, BInv, TypeOK
      <4> QED BY <2>3, <4>1 DEF Old
    <3> QED BY <3>1, <3>2 DEF Complete
  <2>4. NewestThere'
    BY <2>3 DEF NewestThere
  <2> QED BY <1>1, <2>1, <2>2, <2>4 DEF IInv, Unwanted, Recorded
<1>6. Paired'
  BY <1>1 DEF IInv, BInv, Paired, Alike, train
<1>7. Written'
  BY <1>1 DEF Written
<1>8. Lowest'
  BY <1>1 DEF IInv, BInv, Lowest, First, Low, LossAt, BestNow, train
<1>9. LinksWhole'
  <2>1. ASSUME NEW r \in Rank, NEW l \in {last[r], bestf[r]}, l.kind = "link" PROVE file'[l.fin][r] = file[l.fin][r]
    <3>1. l = Link(l.fin) /\ l.fin \in AllSteps
      BY <2>1 DEF IInv, BInv, Kept
    <3>2. LinkedTo(l.fin)
      BY <2>1, <3>1 DEF LinkedTo
    <3> QED BY <3>1, <3>2
  <2> QED BY <1>1, <2>1 DEF IInv, BInv, LinksWhole, train
<1> QED BY <1>1, <1>3, <1>4, <1>5, <1>6, <1>7, <1>8, <1>9

\* What is kept is what is linked to.
LEMMA TargetsAreLinks ==
    ASSUME NEW d, Alike(d), \A r \in Rank : d[r].kind = "link" => d[r] = Link(d[r].fin),
           NEW t \in Targets(d), NEW s
    PROVE  s \in t <=> \E r \in Rank : d[r] = Link(s)
<1> DEFINE present == {r \in Rank : d[r].kind \notin {"none", "gone"}}
           Target(r) == IF d[r].kind = "link" THEN {d[r].fin} ELSE {}
<1>1. (present = {} /\ t = {}) \/ \E r \in present : t = Target(r)
  BY DEF Targets
<1>2. ASSUME NEW r \in Rank, d[r] = Link(s) PROVE s \in t
  <2>1. d[r].kind = "link" /\ d[r].fin = s
    BY <1>2, SomeKinds
  <2>2. r \in present
    BY <2>1
  <2>3. PICK q \in present : t = Target(q)
    BY <1>1, <2>2
  <2>4. d[q] = d[r]
    BY <2>1, <2>3 DEF Alike
  <2> QED BY <2>1, <2>3, <2>4
<1>3. ASSUME s \in t PROVE \E r \in Rank : d[r] = Link(s)
  <2>1. PICK q \in present : t = Target(q)
    BY <1>1, <1>3
  <2> QED BY <1>3, <2>1
<1> QED BY <1>2, <1>3

LEMMA KeptIsLinked ==
    ASSUME IInv, Cleaning, NEW keep \in Protected, NEW s
    PROVE  s \in keep <=> LinkedTo(s)
<1>1. PICK b \in Targets(bestf), l \in Targets(last) : keep = b \cup l
  BY DEF Protected
<1>2. /\ Alike(bestf) /\ Alike(last)
      /\ \A r \in Rank : bestf[r].kind = "link" => bestf[r] = Link(bestf[r].fin)
      /\ \A r \in Rank : last[r].kind = "link" => last[r] = Link(last[r].fin)
  BY DEF IInv, BInv, Removing, Kept
<1>3. s \in b <=> \E r \in Rank : bestf[r] = Link(s)
  BY <1>2, TargetsAreLinks
<1>4. s \in l <=> \E r \in Rank : last[r] = Link(s)
  BY <1>2, TargetsAreLinks
<1> QED BY <1>1, <1>3, <1>4 DEF LinkedTo

\* Only the first rank of a node removes anything; with one node it is rank 0.
LEMMA OneLeader ==
    ASSUME IInv, cfg.localWorldSize = R, NEW r \in Rank, Leader(r)
    PROVE  r = 0
<1>1. \A n \in Nat \ {0} : \A k \in 0..(n - 1) : k % n = 0 => k = 0
  BY Z3
<1> QED BY <1>1, TrainerAssumption DEF Leader, Rank

LEMMA ListExpiredStep == ASSUME IInv, NEW r \in Rank, ListExpired(r) PROVE IInv'
<1>1. PICK keep \in Protected :
        /\ sv[r] = "list" /\ sv' = [sv EXCEPT ![r] = "remove"]
        /\ expire' = [expire EXCEPT ![r] = Expired \ keep]
        /\ UNCHANGED <<cfg, train, saved, crashes, disk>>
  BY DEF ListExpired, Does, Then, Elsewhere
<1>2. Cleaning /\ ~Rewriting /\ at = "saving" /\ fin \in AllSteps
  BY <1>1, InSave DEF Cleans
<1>3. /\ sv' \in [Rank -> {"idle"} \cup Writes \cup Cleans] /\ sv'[r] = "remove" /\ \A q \in Rank \ {r} : sv'[q] = sv[q]
      /\ expire'[r] = Expired \ keep /\ \A q \in Rank \ {r} : expire'[q] = expire[q]
      /\ \A q \in Rank : sv[q] \in Cleans /\ sv'[q] \in Cleans
  BY <1>1, <1>2 DEF IInv, BInv, TypeOK, Cleans, Removing
<1>4. Expired \subseteq dirs /\ dirs \subseteq AllSteps
  BY DEF Expired, IInv, BInv, TypeOK
<1>5. BInv'
  BY ListExpiredBase DEF IInv
<1>6. \A n : Complete(n)' <=> Complete(n)
  BY <1>1 DEF Complete, disk
<1>7. /\ Cleaning' /\ Cover' /\ Unwanted' /\ Recorded' /\ Paired' /\ Written' /\ Lowest' /\ LinksWhole'
  <2>1. fin \in dirs /\ file \in [AllSteps -> [Rank -> Files]]
    BY <1>2 DEF IInv, BInv, Removing, Complete, TypeOK
  <2> QED BY <1>1, <1>2, <1>3, <1>6, <2>1, RestWhileCleaning DEF disk
<1>8. Dealt' /\ LastIsNewest' /\ Resumed'
  BY <1>1, <1>2, LoopRests
<1>9. \A s : LinkedTo(s)' <=> LinkedTo(s)
  BY <1>1 DEF LinkedTo, disk
<1>10. Removing'
  <2>1. \A s \in expire'[r] : s < fin /\ ~LinkedTo(s) /\ Old(s)
    <3>1. ASSUME NEW s \in Expired \ keep PROVE s < fin /\ ~LinkedTo(s) /\ Old(s)
      <4>1. s \in dirs /\ cfg.keep # 0 /\ Cardinality({t \in dirs : t > s}) >= cfg.keep
        BY <3>1 DEF Expired
      <4>2. Cardinality({t \in dirs : t > s}) >= 1
        <5>1. Cardinality({t \in dirs : t > s}) \in Nat
          BY <1>4, SomeNewer
        <5>2. cfg.keep \in Nat
          BY Configured DEF IInv, BInv, TypeOK
        <5> QED BY <4>1, <5>1, <5>2
      <4>3. PICK u \in dirs : u > s
        BY <1>4, <4>2, SomeNewer
      <4>4. u <= fin
        BY <1>2 DEF IInv, BInv, Removing
      <4>5. s < fin
        BY <1>2, <1>4, <4>1, <4>3, <4>4 DEF AllSteps
      <4>6. ~LinkedTo(s)
        BY <1>2, <3>1, KeptIsLinked
      <4>7. Old(s)
        <5>1. saved \in SUBSET AllSteps /\ dirs \in SUBSET saved /\ cfg.keep \in Nat
          BY <1>2, Configured DEF IInv, BInv, TypeOK, Removing
        <5>2. /\ Cardinality({t \in saved : t > s}) \in Nat /\ Cardinality({t \in dirs : t > s}) \in Nat
              /\ Cardinality({t \in dirs : t > s}) <= Cardinality({t \in saved : t > s})
          BY <5>1, SomeNewer
        <5> QED BY <4>1, <5>1, <5>2 DEF Old
      <4> QED BY <4>5, <4>6, <4>7
    <3> QED BY <1>3, <3>1
  <2>2. Leader(r) /\ Leader(r)' /\ \A q \in Rank : Leader(q)' <=> Leader(q)
    BY <1>1, <1>2 DEF IInv, BInv, Removing, Leader
  <2>3. \A q \in Rank : /\ sv'[q] \in Cleans /\ (sv'[q] # "end" => Leader(q)')
                        /\ \A s \in expire'[q] : s < fin /\ ~LinkedTo(s)' /\ Old(s)'
    <3>1. \A s : Old(s)' <=> Old(s)
      BY <1>1 DEF Old
    <3> QED BY <1>2, <1>3, <1>9, <2>1, <2>2, <3>1 DEF IInv, BInv, Removing
  <2>4. Alike(last)' /\ Alike(bestf)'
    BY <1>1, <1>2 DEF IInv, BInv, Removing, Alike, disk
  <2>5. \A q \in Rank : cfg.saveLast => LeadsTo(cfg, last[q], fin)'
    BY <1>1, <1>2 DEF IInv, BInv, Removing, train, disk
  <2>6. (\A d \in dirs : d <= fin) /\ dirs \subseteq saved /\ fin \in saved /\ Complete(fin)'
    BY <1>1, <1>2 DEF IInv, BInv, Removing, Complete, train, disk
  <2> QED BY <1>1, <2>3, <2>4, <2>5, <2>6 DEF Removing, train, disk
<1>11. Trimmed'
  <2>1. SUFFICES ASSUME cfg.keep # 0, cfg.localWorldSize = R
                 PROVE /\ expire'[0] \subseteq dirs
                       /\ \A s \in dirs : \/ s \in expire'[0] \/ LinkedTo(s)
                                          \/ Cardinality({t \in dirs : t > s}) < cfg.keep
    BY <1>1, <1>7, <1>9 DEF Trimmed, disk
  <2>2. r = 0
    BY <1>1, <1>2, <2>1, OneLeader DEF IInv, BInv, Removing
  <2>3. ASSUME NEW s \in dirs, s \notin Expired \ keep
        PROVE  LinkedTo(s) \/ Cardinality({t \in dirs : t > s}) < cfg.keep
    <3>1. CASE s \in keep
      BY <1>2, <3>1, KeptIsLinked
    <3>2. CASE s \notin Expired
      <4>1. ~(Cardinality({t \in dirs : t > s}) >= cfg.keep)
        BY <2>1, <2>3, <3>2 DEF Expired
      <4>2. Cardinality({t \in dirs : t > s}) \in Nat /\ cfg.keep \in Nat
        BY <1>4, SomeNewer, Configured DEF IInv, BInv, TypeOK
      <4> QED BY <4>1, <4>2
    <3> QED BY <2>3, <3>1, <3>2
  <2> QED BY <1>3, <1>4, <2>2, <2>3
<1> QED BY <1>5, <1>7, <1>8, <1>10, <1>11 DEF IInv

\* Who removes, and what.
LEMMA Removers ==
    ASSUME IInv, NEW r \in Rank, sv[r] = "remove"
    PROVE  /\ Cleaning /\ ~Rewriting /\ at = "saving" /\ fin \in AllSteps /\ fin \in dirs /\ Leader(r)
           /\ \A s \in expire[r] : s < fin /\ ~LinkedTo(s) /\ Old(s) /\ s \in AllSteps
<1>1. Cleaning /\ ~Rewriting /\ at = "saving" /\ fin \in AllSteps
  BY InSave DEF Cleans
<1>2. Leader(r) /\ fin \in dirs /\ \A s \in expire[r] : s < fin /\ ~LinkedTo(s) /\ Old(s)
  BY <1>1 DEF IInv, BInv, Removing, Complete
<1>3. expire[r] \subseteq AllSteps
  BY DEF IInv, BInv, TypeOK
<1> QED BY <1>1, <1>2, <1>3

LEMMA RemovingRests ==
    ASSUME IInv, Cleaning, UNCHANGED <<cfg, train, saved, last, bestf>>,
           \A r \in Rank : sv'[r] = sv[r] \/ (sv'[r] = "end" /\ expire[r] = {}),
           \A r \in Rank : expire'[r] \subseteq expire[r], dirs' \subseteq dirs, Complete(fin)'
    PROVE  Removing'
<1>1. \A r \in Rank : /\ sv'[r] \in Cleans /\ (sv'[r] # "end" => Leader(r)')
                      /\ \A s \in expire'[r] : s < fin /\ ~LinkedTo(s)' /\ Old(s)'
  <2>1. \A s : (LinkedTo(s)' <=> LinkedTo(s)) /\ (Old(s)' <=> Old(s))
    BY DEF LinkedTo, Old
  <2> QED BY <2>1 DEF IInv, Removing, Leader, Cleans
<1>2. Alike(last)' /\ Alike(bestf)'
  BY DEF IInv, BInv, Removing, Alike
<1>3. \A r \in Rank : cfg.saveLast => LeadsTo(cfg, last[r], fin)'
  BY DEF IInv, BInv, Removing, train
<1>4. (\A d \in dirs' : d <= fin) /\ dirs' \subseteq saved /\ fin \in saved
  BY DEF IInv, BInv, Removing, train
<1> QED BY <1>1, <1>2, <1>3, <1>4 DEF Removing, train

LEMMA RemoveTreeStep == ASSUME IInv, NEW r \in Rank, RemoveTree(r) PROVE IInv'
<1>1. PICK s \in dirs :
        /\ sv[r] = "remove" /\ s \in expire[r]
        /\ IF file[s] = Nothing
           THEN dirs' = dirs \ {s} /\ expire' = [expire EXCEPT ![r] = @ \ {s}] /\ file' = file
           ELSE /\ \E q \in Rank : file' = [file EXCEPT ![s][q] = None]
                /\ dirs' = dirs /\ expire' = expire
        /\ UNCHANGED <<cfg, train, saved, crashes, last, bestf, sv>>
  BY DEF RemoveTree, Removes, Elsewhere
<1>2. /\ Cleaning /\ ~Rewriting /\ at = "saving" /\ fin \in AllSteps /\ fin \in dirs
      /\ s < fin /\ s # fin /\ ~LinkedTo(s) /\ Old(s) /\ s \in AllSteps /\ Leader(r)
  <2>1. s < fin /\ s \in AllSteps /\ fin \in AllSteps
    BY <1>1, Removers
  <2> QED BY <1>1, <2>1, Removers DEF AllSteps
<1>3. /\ dirs' \subseteq dirs /\ dirs \subseteq AllSteps /\ dirs \ dirs' \subseteq {s}
      /\ expire' \in [Rank -> SUBSET AllSteps] /\ \A q \in Rank : expire'[q] \subseteq expire[q]
      /\ file' \in [AllSteps -> [Rank -> Files]]
      /\ \A n \in AllSteps \ {s} : file'[n] = file[n]
      /\ \A q \in Rank : file'[s][q] = file[s][q] \/ file'[s][q] = None
  <2>1. file \in [AllSteps -> [Rank -> Files]] /\ expire \in [Rank -> SUBSET AllSteps] /\ dirs \subseteq AllSteps
    BY DEF IInv, BInv, TypeOK
  <2>2. CASE file[s] = Nothing
    BY <1>1, <2>1, <2>2
  <2>3. CASE file[s] # Nothing
    <3>1. PICK q \in Rank : file' = [file EXCEPT ![s][q] = None]
      BY <1>1, <2>3
    <3> QED BY <1>1, <1>2, <2>1, <2>3, <3>1, SomeFiles
  <2> QED BY <2>2, <2>3
<1>4. BInv'
  BY RemoveTreeBase DEF IInv
<1>5. \A q \in Rank : sv[q] \in Cleans
  BY <1>2 DEF IInv, BInv, Removing
<1>6. /\ Cover' /\ Unwanted' /\ Recorded' /\ Paired' /\ Written' /\ Lowest' /\ LinksWhole' /\ Complete(fin)' /\ Cleaning'
  <2>1. \A n \in AllSteps : Complete(n)' => Complete(n)
    <3>1. None.kind # "whole"
      BY DEF None
    <3> QED BY <1>3, <3>1 DEF Complete
  <2>2. \A n \in AllSteps : Complete(n) /\ n # fin /\ ~Complete(n)' => n < fin
    BY <1>2, <1>3 DEF Complete
  <2>3. fin \in dirs' /\ file'[fin] = file[fin]
    BY <1>2, <1>3
  <2>4. \A n \in AllSteps, q \in Rank : file'[n][q] = file[n][q] \/ (file'[n][q] = None /\ ~LinkedTo(n) /\ Old(n))
    BY <1>2, <1>3
  <2>5. \A n \in dirs \ dirs' : Old(n)
    BY <1>2, <1>3
  <2> QED BY <1>1, <1>2, <1>3, <1>5, <2>1, <2>2, <2>3, <2>4, <2>5, RestWhileCleaning
<1>7. Dealt' /\ LastIsNewest' /\ Resumed'
  BY <1>1, <1>2, LoopRests
<1>8. Removing'
  BY <1>1, <1>2, <1>3, <1>6, RemovingRests
<1>9. Trimmed'
  <2>1. SUFFICES ASSUME cfg.keep # 0, cfg.localWorldSize = R, sv[0] # "list"
                 PROVE /\ expire'[0] \subseteq dirs'
                       /\ \A n \in dirs' : \/ n \in expire'[0] \/ LinkedTo(n)
                                           \/ Cardinality({t \in dirs' : t > n}) < cfg.keep
    <3>1. \A n : LinkedTo(n)' <=> LinkedTo(n)
      BY <1>1 DEF LinkedTo
    <3> QED BY <1>1, <3>1 DEF Trimmed
  <2>2. r = 0
    BY <1>2, <2>1, OneLeader
  <2>3. expire'[0] \subseteq dirs'
    BY <1>1, <1>2, <2>1, <2>2 DEF IInv, BInv, Trimmed, TypeOK
  <2>4. ASSUME NEW n \in dirs' PROVE \/ n \in expire'[0] \/ LinkedTo(n)
                                     \/ Cardinality({t \in dirs' : t > n}) < cfg.keep
    <3>1. n \in dirs /\ (n \in expire[0] => n \in expire'[0])
      BY <1>1, <1>3, <2>2, <2>4 DEF IInv, BInv, TypeOK
    <3>2. n \in expire[0] \/ LinkedTo(n) \/ Cardinality({t \in dirs : t > n}) < cfg.keep
      BY <1>2, <2>1, <3>1 DEF IInv, BInv, Trimmed
    <3>3. /\ Cardinality({t \in dirs : t > n}) \in Nat /\ Cardinality({t \in dirs' : t > n}) \in Nat
          /\ Cardinality({t \in dirs' : t > n}) <= Cardinality({t \in dirs : t > n})
      BY <1>3, SomeNewer
    <3>4. cfg.keep \in Nat
      BY Configured DEF IInv, BInv, TypeOK
    <3> QED BY <3>1, <3>2, <3>3, <3>4
  <2> QED BY <2>3, <2>4
<1> QED BY <1>4, <1>6, <1>7, <1>8, <1>9 DEF IInv

LEMMA RemoveFailsStep == ASSUME IInv, NEW r \in Rank, RemoveFails(r) PROVE IInv'
<1>1. PICK s \in expire[r] :
        /\ sv[r] = "remove" /\ (s \notin dirs \/ \E q \in Rank \ {r} : sv[q] = "remove")
        /\ expire' = [expire EXCEPT ![r] = {}]
        /\ UNCHANGED <<cfg, train, saved, crashes, dirs, file, last, bestf, sv>>
  BY DEF RemoveFails, Removes, Elsewhere, disk
<1>2. Cleaning /\ ~Rewriting /\ at = "saving" /\ fin \in dirs /\ Leader(r)
  BY <1>1, Removers
<1>3. BInv'
  BY RemoveFailsBase DEF IInv
<1>4. \A n : Complete(n)' <=> Complete(n)
  BY <1>1 DEF Complete
<1>5. /\ Cover' /\ Unwanted' /\ Recorded' /\ Paired' /\ Written' /\ Lowest' /\ LinksWhole' /\ Complete(fin)' /\ Cleaning'
  <2>1. file \in [AllSteps -> [Rank -> Files]] /\ \A q \in Rank : sv[q] \in Cleans
    BY <1>2 DEF IInv, BInv, TypeOK, Removing
  <2> QED BY <1>1, <1>2, <1>4, <2>1, RestWhileCleaning
<1>6. Dealt' /\ LastIsNewest' /\ Resumed'
  BY <1>1, <1>2, LoopRests
<1>7. \A q \in Rank : expire'[q] \subseteq expire[q]
  BY <1>1 DEF IInv, BInv, TypeOK
<1>8. Removing'
  BY <1>1, <1>2, <1>5, <1>7, RemovingRests
<1>9. Trimmed'
  <2>1. ASSUME cfg.keep # 0, cfg.localWorldSize = R PROVE FALSE
    <3>1. r = 0
      BY <1>2, <2>1, OneLeader
    <3>2. s \in dirs
      BY <1>1, <1>2, <2>1, <3>1 DEF IInv, BInv, Trimmed
    <3>3. PICK q \in Rank \ {r} : sv[q] = "remove"
      BY <1>1, <3>2
    <3>4. q = 0
      BY <2>1, <3>3, Removers, OneLeader
    <3> QED BY <3>1, <3>3, <3>4
  <2> QED BY <1>1, <2>1 DEF Trimmed
<1> QED BY <1>3, <1>5, <1>6, <1>8, <1>9 DEF IInv

LEMMA RemovedAllStep == ASSUME IInv, NEW r \in Rank, RemovedAll(r) PROVE IInv'
<1>1. /\ sv[r] = "remove" /\ sv' = [sv EXCEPT ![r] = "end"] /\ expire[r] = {}
      /\ UNCHANGED <<cfg, train, saved, crashes, dirs, file, last, bestf, expire>>
  BY DEF RemovedAll, Does, Then, Elsewhere, disk
<1>2. Cleaning /\ ~Rewriting /\ at = "saving" /\ fin \in dirs /\ Leader(r)
  BY <1>1, Removers
<1>3. /\ sv' \in [Rank -> {"idle"} \cup Writes \cup Cleans] /\ sv'[r] = "end" /\ \A q \in Rank \ {r} : sv'[q] = sv[q]
      /\ \A q \in Rank : sv[q] \in Cleans /\ sv'[q] \in Cleans
  BY <1>1, <1>2 DEF IInv, BInv, TypeOK, Cleans, Removing
<1>4. BInv'
  BY RemovedAllBase DEF IInv
<1>5. \A n : Complete(n)' <=> Complete(n)
  BY <1>1 DEF Complete
<1>6. /\ Cover' /\ Unwanted' /\ Recorded' /\ Paired' /\ Written' /\ Lowest' /\ LinksWhole' /\ Complete(fin)' /\ Cleaning'
  <2>1. file \in [AllSteps -> [Rank -> Files]]
    BY DEF IInv, BInv, TypeOK
  <2> QED BY <1>1, <1>2, <1>3, <1>5, <2>1, RestWhileCleaning
<1>7. Dealt' /\ LastIsNewest' /\ Resumed'
  BY <1>1, <1>2, LoopRests
<1>8. Removing'
  BY <1>1, <1>2, <1>3, <1>6, RemovingRests
<1>9. Trimmed'
  BY <1>1, <1>2, <1>3, RankZero DEF IInv, BInv, Trimmed, LinkedTo
<1> QED BY <1>4, <1>6, <1>7, <1>8, <1>9 DEF IInv

\* The third barrier: the step is saved, and the loop goes on.
LEMMA ReturnFromSaveStep == ASSUME IInv, ReturnFromSave PROVE IInv'
<1>1. /\ AllAt("end") /\ sv' = [r \in Rank |-> "idle"] /\ at' = ret /\ status' = 2
      /\ best' = IF cfg.val /\ best > val THEN val ELSE best
      /\ UNCHANGED <<cfg, launch, ret, fin, seen, lr, epoch, pos, resumed, stepped, val, loaded,
                     expire, dirs, file, last, bestf, saved, crashes>>
  BY DEF ReturnFromSave, disk
<1>2. Cleaning /\ ~Rewriting /\ at = "saving" /\ fin \in AllSteps /\ Complete(fin) /\ fin \in saved
  <2>1. sv[0] = "end"
    BY <1>1, RankZero DEF AllAt
  <2>2. Cleaning /\ ~Rewriting /\ at = "saving" /\ fin \in AllSteps
    BY <2>1, RankZero, InSave DEF Cleans
  <2> QED BY <2>2 DEF IInv, BInv, Removing
<1>3. at' \in {"limit", "next", "valepoch"} /\ ~Rewriting' /\ ~Cleaning'
  BY <1>1, <1>2 DEF IInv, BInv, Placed, Saving, Rewriting, Cleaning
<1>4. cfg.val => val = LossAt(fin) /\ val \in 1..98
  BY <1>2, Losses DEF IInv, BInv, Trained
<1>6. BInv'
  BY ReturnFromSaveBase DEF IInv
<1>7. Resumed' /\ MaxTrainSteps' = MaxTrainSteps
  BY <1>1, <1>2, <1>3 DEF IInv, Resumed, MaxTrainSteps
<1>10. \A n : Complete(n)' <=> Complete(n)
  BY <1>1 DEF Complete
<1>11. Dealt'
  <2>1. Complete(fin)'
    BY <1>1, <1>2 DEF Complete
  <2> QED BY <1>1, <1>3, <2>1 DEF Dealt, Loops
<1>12. Cover'
  <2>1. \A n : Sure(n)' <=> Sure(n)
    BY <1>2, <1>3, <1>10 DEF Sure
  <2>2. \A m : Covered(m)' <=> Covered(m)
    BY <2>1 DEF Covered
  <2> QED BY <1>1, <1>2, <1>3, <1>7, <1>10, <2>2 DEF IInv, BInv, Cover
<1>13. Unwanted'
  BY <1>1 DEF IInv, Unwanted
<1>14. Paired'
  BY <1>1, <1>2 DEF IInv, BInv, Removing, Paired, Alike
<1>15. Recorded'
  BY <1>1, <1>2, <1>3, <1>10 DEF IInv, Recorded, NewestThere
<1>16. Written' /\ Removing' /\ Trimmed'
  BY <1>3 DEF Written, Removing, Trimmed
<1>17. LastIsNewest'
  <2>1. SUFFICES ASSUME cfg.saveLast, NEW n \in AllSteps, Complete(n),
                        \A m \in AllSteps : Complete(m) => m <= n
                 PROVE  \A r \in Rank : LeadsTo(cfg, last[r], n)
    BY <1>1, <1>2, <1>10 DEF LastIsNewest
  <2>2. n <= fin /\ fin <= n
    BY <1>2, <2>1 DEF IInv, BInv, Cover
  <2>3. n = fin
    BY <1>2, <2>2 DEF AllSteps
  <2> QED BY <1>2, <2>1, <2>3 DEF IInv, BInv, Removing
<1>18. Lowest'
  <2>1. SUFFICES ASSUME First PROVE /\ best' # Infinity
                                    /\ \A s \in saved : best' <= LossAt(s)
                                    /\ \A r \in Rank : Low(bestf[r], best')
    <3>1. First' <=> First
      BY <1>1 DEF First
    <3>2. (\A s : LossAt(s)' = LossAt(s)) /\ saved' = saved /\ bestf' = bestf /\ at' # "down"
      BY <1>1, <1>3 DEF LossAt
    <3>3. ASSUME NEW r \in Rank, Low(bestf[r], best') PROVE Low(bestf[r], best)'
      BY <1>1, <3>3 DEF Low, LossAt
    <3> QED BY <1>3, <2>1, <3>1, <3>2, <3>3 DEF Lowest
  <2>2. val = LossAt(fin) /\ val \in 1..98 /\ best \in 0..99
    BY <1>4, <2>1 DEF First, IInv, BInv, TypeOK, Infinity
  <2>3. \A s \in saved : s \in AllSteps /\ LossAt(s) \in 1..98 /\ (best <= LossAt(s) \/ s = fin)
    BY <1>2, <2>1, Losses DEF First, IInv, BInv, Lowest, TypeOK
  <2>4. \A r \in Rank : Low(bestf[r], IF LossAt(fin) <= best THEN LossAt(fin) ELSE best)
    BY <1>2, <2>1 DEF IInv, BInv, Lowest, BestNow
  <2>5. best' = IF LossAt(fin) <= best THEN LossAt(fin) ELSE best
    BY <1>1, <2>1, <2>2 DEF First
  <2>6. best' # Infinity
    BY <2>2, <2>5 DEF Infinity
  <2>7. \A s \in saved : best' <= LossAt(s)
    BY <2>2, <2>3, <2>5
  <2> QED BY <2>4, <2>5, <2>6, <2>7
<1>19. LinksWhole'
  BY <1>1, <1>2 DEF IInv, BInv, LinksWhole, Complete
<1> QED BY <1>6, <1>7, <1>11, <1>12, <1>13, <1>14, <1>15, <1>16, <1>17, <1>18, <1>19 DEF IInv

(***************************************************************************)
(* A launch, and what ends it.                                             *)
(***************************************************************************)
\* What a launch loads: the newest complete checkpoint, if there is one.
LEMMA Loads ==
    ASSUME IInv, Onward, at = "down", NEW from \in cfg.resume
    PROVE  /\ Loadable(from)
           /\ CompleteSteps = {} => Entries(from) = Nothing
           /\ CompleteSteps # {} => \A r \in Rank : IsOf(cfg, Entries(from)[r], Newest)
<1>1. from \in {"dir", "last", "best"} /\ cfg.symlink \in BOOLEAN
  <2>1. cfg.resume \subseteq {"dir", "last", "best"}
    BY TrainerAssumption DEF IInv, BInv, TypeOK
  <2> QED BY <2>1, Configured DEF IInv, BInv, TypeOK
<1>2. CompleteSteps # {} => Newest \in AllSteps /\ Newest # 0 /\ Complete(Newest)
  BY NewestIs DEF CompleteSteps, AllSteps
<1>3. CompleteSteps # {} => \A r \in Rank : IsOf(cfg, file[Newest][r], Newest)
  BY <1>2 DEF Complete, IInv, BInv, Kept
<1>4. ASSUME CompleteSteps = {}, from = "last" => last = Nothing, from = "best" => bestf = Nothing
      PROVE  Loadable(from) /\ Entries(from) = Nothing
  <2>1. Newest = 0
    BY <1>4, NewestIs
  <2>2. DirEntries = Nothing
    BY <2>1 DEF DirEntries
  <2>3. from = "last" => LastEntries = Nothing
    BY <1>4, SomeKinds DEF LastEntries, Nothing, Resolve
  <2>4. from = "best" => BestEntries = Nothing
    BY <1>4, SomeKinds DEF BestEntries, Nothing, Resolve
  <2> QED BY <1>1, <1>4, <2>1, <2>2, <2>3, <2>4 DEF Loadable, Anew, Entries
<1>5. CASE launch = 1 /\ crashes = 0
  <2>1. dirs = {} /\ last = Nothing /\ bestf = Nothing
    BY <1>5 DEF IInv, Resumed
  <2>2. CompleteSteps = {}
    BY <2>1 DEF CompleteSteps, Complete
  <2> QED BY <1>4, <2>1, <2>2
<1>6. CASE from = "dir"
  <2>1. CASE CompleteSteps = {}
    BY <1>4, <1>6, <2>1
  <2>2. CASE CompleteSteps # {}
    <3>1. Entries(from) = file[Newest]
      BY <1>2, <1>6, <2>2 DEF Entries, DirEntries
    <3>2. \A r \in Rank : IsOf(cfg, Entries(from)[r], Newest) /\ Entries(from)[r].kind = "whole"
      BY <1>3, <2>2, <3>1 DEF IsOf
    <3>3. Found(from) = Rank
      <4>1. DirEntries = file[Newest]
        BY <1>2, <2>2 DEF DirEntries
      <4> QED BY <1>6, <3>1, <3>2, <4>1 DEF Found
    <3> QED BY <2>2, <3>2, <3>3, RankZero DEF Loadable
  <2> QED BY <2>1, <2>2
<1>7. CASE from # "dir" /\ ~(launch = 1 /\ crashes = 0)
  <2>1. from = "last" /\ cfg.crashes = 0 /\ cfg.saveLast
    BY <1>1, <1>7 DEF Onward
  <2>2. CASE CompleteSteps = {}
    <3>1. last = Nothing
      BY <2>1, <2>2 DEF IInv, LastIsNewest, CompleteSteps
    <3> QED BY <1>4, <2>1, <2>2, <3>1
  <2>3. CASE CompleteSteps # {}
    <3>1. PICK n \in AllSteps : n = Newest /\ Complete(n) /\ \A m \in AllSteps : Complete(m) => m <= n
      BY <1>2, <2>3, NewestIs DEF CompleteSteps
    <3>2. \A r \in Rank : LeadsTo(cfg, last[r], n) /\ IsOf(cfg, file[n][r], n)
      BY <1>3, <2>1, <2>3, <3>1 DEF IInv, LastIsNewest
    <3>3. ASSUME NEW r \in Rank PROVE IsOf(cfg, LastEntries[r], n) /\ last[r].kind \in {"link", "whole"}
      <4>1. LastEntries[r] = IF last[r].kind = "link" THEN file[last[r].fin][r] ELSE last[r]
        BY DEF LastEntries, Resolve
      <4>2. CASE cfg.symlink
        BY <3>2, <4>1, <4>2, SomeKinds DEF LeadsTo
      <4>3. CASE ~cfg.symlink
        BY <3>2, <4>1, <4>3 DEF LeadsTo, IsOf
      <4> QED BY <4>2, <4>3
    <3>4. Entries(from) = LastEntries /\ Found(from) = Rank
      BY <2>1, <3>3 DEF Entries, Found
    <3>5. \A r \in Rank : Entries(from)[r].kind = "whole"
      BY <3>3, <3>4 DEF IsOf
    <3> QED BY <2>3, <3>1, <3>3, <3>4, <3>5, RankZero DEF Loadable
  <2> QED BY <2>2, <2>3
<1> QED BY <1>5, <1>6, <1>7

LEMMA Launches ==
    ASSUME IInv, Onward, Launch
    PROVE  /\ at = "down" /\ at' = "launched" /\ fin' = Newest /\ best' = Infinity
           /\ saved' = saved \cup ({Newest} \ {0})
           /\ UNCHANGED <<cfg, launch, sv, expire, disk, crashes>>
<1>1. at = "down" /\ UNCHANGED <<cfg, launch, sv, expire, disk, crashes>>
  BY DEF Launch
<1>2. PICK from \in cfg.resume :
        /\ Load(Entries(from)[0], \A r \in Rank : Entries(from)[r].fin = Entries(from)[0].fin)
        /\ saved' = saved \cup ({Entries(from)[0].fin} \ {0})
  BY <1>1, Loads DEF Launch
<1>3. \A r \in Rank : Entries(from)[r].fin = Newest
  <2>1. CASE CompleteSteps = {}
    BY <1>1, <2>1, Loads, NewestIs DEF Nothing, None
  <2>2. CASE CompleteSteps # {}
    BY <1>1, <2>2, Loads DEF IsOf
  <2> QED BY <2>1, <2>2
<1> QED BY <1>1, <1>2, <1>3, RankZero DEF Load

LEMMA LaunchStep == ASSUME IInv, Onward, Launch PROVE IInv'
<1>1. /\ at = "down" /\ at' = "launched" /\ fin' = Newest /\ best' = Infinity
      /\ saved' = saved \cup ({Newest} \ {0})
      /\ UNCHANGED <<cfg, launch, sv, expire, disk, crashes>>
  BY Launches
<1>2. PICK n : n = Newest
  OBVIOUS
<1>3. /\ n # 0 => n \in AllSteps /\ Complete(n)
      /\ \A m \in AllSteps : Complete(m) => m <= n /\ n # 0
      /\ n \in Nat
  BY <1>2, NewestIs DEF CompleteSteps, AllSteps
<1>4. BInv' /\ ~Rewriting /\ ~Rewriting' /\ ~Cleaning /\ ~Cleaning' /\ MaxTrainSteps' = MaxTrainSteps
  BY <1>1, LaunchBase DEF IInv, Rewriting, Cleaning, MaxTrainSteps
<1>5. Resumed' /\ Unwanted'
  <2>1. n <= MaxTrainSteps
    BY <1>3, LimitNow DEF IInv, BInv, Cover, Complete
  <2> QED BY <1>1, <1>2, <1>4, <2>1 DEF IInv, Resumed, Unwanted, disk
<1>6. \A m : Complete(m)' <=> Complete(m)
  BY <1>1 DEF Complete, disk
<1>7. Dealt'
  BY <1>1, <1>2, <1>3, <1>6 DEF Dealt, Loops
<1>8. Cover'
  <2>1. ASSUME NEW m PROVE Covered(m)' = Covered(m)
    BY <1>4, <1>6 DEF Covered, Sure
  <2>2. \A m \in 1..(n - 1) : Covered(m)
    BY <1>3, <1>4 DEF Covered, Sure, AllSteps
  <2>3. n # 0 => Covered(n)
    BY <1>3, <1>4 DEF Covered, Sure
  <2> QED BY <1>1, <1>2, <1>3, <1>4, <1>6, <2>1, <2>2, <2>3 DEF IInv, Cover, disk
<1>9. Recorded'
  <2>1. saved' \in SUBSET AllSteps /\ saved \in SUBSET saved' /\ dirs \in SUBSET AllSteps /\ cfg.keep \in Nat
        /\ saved' \subseteq dirs \cup saved
    BY <1>1, <1>2, <1>3, Configured DEF IInv, BInv, TypeOK, Complete
  <2>2. \A d \in dirs \ saved' : SavesAfter(cfg, launch, d) /\ \A e \in dirs \cup saved' : e <= d
    BY <2>1 DEF IInv, Recorded
  <2>3. ASSUME NEW m \in AllSteps, Complete(m) PROVE m \in saved'
    <3>1. CASE m \notin saved
      <4>1. m \in dirs \ saved /\ m <= n /\ n \in dirs /\ n # 0
        BY <1>3, <2>3, <3>1 DEF Complete
      <4>2. n <= m
        BY <4>1 DEF IInv, Recorded
      <4>3. m = n
        BY <1>3, <4>1, <4>2 DEF AllSteps
      <4> QED BY <1>1, <1>2, <4>1, <4>3
    <3> QED BY <2>1, <3>1
  <2>4. ASSUME NEW s \in saved', cfg.keep = 0 \/ Cardinality({t \in saved' : t > s}) < cfg.keep PROVE Complete(s)
    <3>1. CASE s \in saved
      <4>1. /\ Cardinality({t \in saved : t > s}) \in Nat /\ Cardinality({t \in saved' : t > s}) \in Nat
            /\ Cardinality({t \in saved : t > s}) <= Cardinality({t \in saved' : t > s})
        BY <2>1, SomeNewer
      <4>2. cfg.keep = 0 \/ Cardinality({t \in saved : t > s}) < cfg.keep
        BY <2>1, <2>4, <4>1
      <4> QED BY <3>1, <4>2 DEF IInv, Recorded, NewestThere
    <3>2. CASE s \notin saved
      BY <1>1, <1>2, <1>3, <2>4, <3>2
    <3> QED BY <3>1, <3>2
  <2>5. NewestThere'
    BY <1>1, <1>6, <2>4 DEF NewestThere
  <2> QED BY <1>1, <1>6, <2>2, <2>3, <2>5 DEF Recorded, disk
<1>10. Paired' /\ Written' /\ Removing' /\ Trimmed'
  BY <1>1, <1>4 DEF Paired, Written, Removing, Trimmed
<1>11. LastIsNewest'
  BY <1>1, <1>6 DEF IInv, LastIsNewest, disk
<1>12. Lowest'
  <2>1. SUFFICES ASSUME launch = 1, crashes = 0 PROVE saved' = {}
    BY <1>1, <1>4 DEF Lowest, First
  <2>2. dirs = {} /\ saved = {}
    BY <1>1, <2>1 DEF IInv, Resumed
  <2>3. Newest = 0
    BY <2>2, NewestIs DEF CompleteSteps, Complete
  <2> QED BY <1>1, <2>2, <2>3
<1>13. LinksWhole'
  BY <1>1, <1>2, <1>3 DEF IInv, LinksWhole, Complete, disk
<1> QED BY <1>4, <1>5, <1>7, <1>8, <1>9, <1>10, <1>11, <1>12, <1>13 DEF IInv

\* Lost but for the directory.
LEMMA LostRests ==
    ASSUME IInv, Lost
    PROVE  /\ Dealt' /\ Unwanted' /\ Paired' /\ Written' /\ Removing' /\ Trimmed'
           /\ LinksWhole' /\ \A m : Covered(m) => Covered(m)'
<1>1. /\ at' = "down" /\ best' = Infinity
      /\ UNCHANGED <<cfg, dirs, file, last, bestf, saved>>
  BY DEF Lost, disk
<1>2. ~Rewriting' /\ ~Cleaning'
  BY <1>1 DEF Rewriting, Cleaning
<1>3. Dealt' /\ Unwanted'
  BY <1>1 DEF IInv, Dealt, Unwanted, Loops
<1>4. Paired' /\ Written' /\ Removing' /\ Trimmed'
  BY <1>1, <1>2 DEF Paired, Written, Removing, Trimmed
<1>5. LinksWhole'
  <2>1. ASSUME NEW r \in Rank, NEW l \in {last[r], bestf[r]}, l.kind = "link", l.fin \in saved
        PROVE  file[l.fin][r].kind = "whole"
    <3>1. CASE at = "saving" /\ l.fin = fin
      <4>1. Cleaning
        BY <2>1, <3>1 DEF IInv, Written, Cleaning, Rewriting
      <4> QED BY <3>1, <4>1 DEF IInv, Removing, Complete
    <3>2. CASE ~(at = "saving" /\ l.fin = fin)
      BY <2>1, <3>2 DEF IInv, LinksWhole
    <3> QED BY <3>1, <3>2
  <2> QED BY <1>1, <2>1 DEF LinksWhole
<1>6. ASSUME NEW m, Covered(m) PROVE Covered(m)'
  <2>1. PICK n \in AllSteps : Sure(n) /\ m <= n
    BY <1>6 DEF Covered
  <2>2. Sure(n)'
    BY <1>1, <1>2, <2>1 DEF Sure, Complete
  <2> QED BY <2>1, <2>2 DEF Covered
<1> QED BY <1>3, <1>4, <1>5, <1>6

LEMMA CrashStep == ASSUME IInv, Crash PROVE IInv'
<1>1. /\ Lost /\ launch' = launch /\ crashes < cfg.crashes /\ crashes' = crashes + 1 /\ at' = "down"
      /\ UNCHANGED <<cfg, dirs, file, last, bestf, saved>>
  BY DEF Crash, Lost, disk
<1>2. crashes' # 0 /\ cfg.crashes # 0
  BY <1>1, Configured DEF IInv, BInv, TypeOK
<1>3. Cover'
  <2>1. \A m : Covered(m) => Covered(m)'
    BY <1>1, LostRests
  <2>2. MaxTrainSteps' = MaxTrainSteps
    BY <1>1 DEF MaxTrainSteps
  <2> QED BY <1>1, <2>1, <2>2 DEF IInv, Cover
<1>4. Resumed' /\ LastIsNewest' /\ Lowest'
  BY <1>1, <1>2 DEF Resumed, LastIsNewest, Lowest, First
<1>5. Recorded'
  BY <1>1 DEF IInv, Recorded, NewestThere, Complete
<1> QED BY <1>1, <1>3, <1>4, <1>5, LostRests, EndBase DEF IInv

LEMMA RelaunchStep == ASSUME IInv, Onward', Relaunch PROVE IInv'
<1>1. /\ Lost /\ at = "done" /\ at' = "down" /\ launch < Len(cfg.launches) /\ launch' = launch + 1 /\ crashes' = crashes
      /\ UNCHANGED <<cfg, dirs, file, last, bestf, saved>>
  BY DEF Relaunch, Lost, disk
<1>2. launch' \in 1..Len(cfg.launches) /\ launch' # 1 /\ cfg \in Config /\ launch \in 1..Len(cfg.launches)
  <2>1. cfg \in Config /\ launch \in 1..Len(cfg.launches)
    BY DEF IInv, BInv, TypeOK
  <2> QED BY <1>1, <2>1, Configured
<1>3. MaxTrainSteps <= MaxTrainSteps' /\ MaxTrainSteps \in Nat /\ MaxTrainSteps' \in Nat
  <2>1. PICK m \in 1..Len(cfg.launches) : m = launch + 1 /\ launch <= m
    BY <1>1, <1>2
  <2>2. \A k, n \in 1..Len(cfg.launches) : k <= n => Limit(cfg, k) <= Limit(cfg, n)
    BY <1>1, <1>2 DEF Onward
  <2>3. Limit(cfg, launch) <= Limit(cfg, m) /\ Limit(cfg, launch) \in Nat /\ Limit(cfg, m) \in Nat
    BY <1>2, <2>1, <2>2, Limits
  <2> QED BY <1>1, <2>1, <2>3 DEF MaxTrainSteps
<1>4. fin = MaxTrainSteps /\ \A d \in dirs : d \in AllSteps /\ d <= fin
  BY <1>1, <1>3 DEF IInv, BInv, Placed, Cover, TypeOK, Resumed
<1>5. ASSUME dirs # {} PROVE fin \in AllSteps /\ Complete(fin) /\ Sure(fin)
  <2>1. fin \in AllSteps /\ fin > 0
    <3>1. PICK d \in dirs : d \in AllSteps /\ d <= fin
      BY <1>4, <1>5
    <3>2. fin \in 0..Steps /\ Steps \in Nat
      BY TrainerAssumption DEF IInv, BInv, TypeOK
    <3> QED BY <3>1, <3>2 DEF AllSteps
  <2> QED BY <1>1, <1>4, <2>1 DEF IInv, Dealt, SavesAfter, MaxTrainSteps, Sure, Rewriting
<1>6. dirs \subseteq saved
  <2>1. ASSUME NEW d \in dirs, d \notin saved PROVE FALSE
    <3>1. ~(d < fin) /\ d <= fin /\ d \in AllSteps
      BY <1>1, <1>4, <2>1, NotBehind
    <3>2. d = fin
      BY <1>5, <3>1 DEF AllSteps
    <3> QED BY <1>1, <1>5, <2>1, <3>2 DEF IInv, Recorded, Rewriting
  <2> QED BY <2>1
<1>7. Cover'
  <2>1. \A m : Covered(m) => Covered(m)'
    BY <1>1, LostRests
  <2>2. ASSUME NEW d \in dirs, NEW m \in 1..(d - 1) PROVE Covered(m)
    <3>1. fin \in AllSteps /\ Sure(fin) /\ d <= fin /\ d \in AllSteps
      BY <1>4, <1>5
    <3>2. m <= fin
      BY <3>1 DEF AllSteps
    <3> QED BY <3>1, <3>2 DEF Covered
  <2>3. \A d \in dirs : d <= MaxTrainSteps'
    BY <1>3, <1>4 DEF AllSteps
  <2> QED BY <1>1, <2>1, <2>2, <2>3 DEF IInv, Cover
<1>8. Recorded'
  BY <1>1, <1>6 DEF IInv, Recorded, NewestThere, Complete
<1>9. LastIsNewest'
  BY <1>1 DEF IInv, LastIsNewest, Complete
<1>10. Resumed' /\ Lowest'
  BY <1>1, <1>2 DEF Resumed, Lowest, First
<1> QED BY <1>1, <1>7, <1>8, <1>9, <1>10, LostRests, EndBase DEF IInv

LEMMA Begins == Init => IInv /\ Onward
<1> SUFFICES ASSUME Init PROVE IInv /\ Onward
  OBVIOUS
<1>1. /\ launch = 1 /\ at = "down" /\ saved = {} /\ dirs = {} /\ best = Infinity /\ crashes = 0
      /\ file = [s \in AllSteps |-> Nothing] /\ last = Nothing /\ bestf = Nothing
  BY DEF Init
<1>2. BInv /\ Onward
  BY <1>1, BaseBegins DEF Onward
<1>3. \A r \in Rank : Nothing[r].kind = "none"
  BY SomeKinds DEF Nothing
<1>4. Resumed /\ Unwanted /\ Dealt /\ Cover
  BY <1>1 DEF Resumed, Unwanted, Dealt, Cover, Loops
<1>5. Recorded
  BY <1>1 DEF Recorded, NewestThere
<1>6. Paired /\ Written /\ Removing /\ Trimmed
  BY <1>1 DEF Paired, Written, Removing, Trimmed, Rewriting, Cleaning
<1>7. LastIsNewest
  BY <1>1 DEF LastIsNewest, Complete
<1>8. Lowest /\ LinksWhole
  BY <1>1, <1>3 DEF Lowest, LinksWhole, Cleaning, First
<1> QED BY <1>2, <1>4, <1>5, <1>6, <1>7, <1>8 DEF IInv

LEMMA Stutters == ASSUME IInv, UNCHANGED vars PROVE IInv'
<1>1. BInv'
  BY BaseStutters DEF IInv
<1>2. Resumed' /\ Dealt' /\ Unwanted'
  BY DEF IInv, Resumed, Dealt, Unwanted, MaxTrainSteps, Complete, vars, train, disk
<1>3. Cover'
  BY DEF IInv, Cover, Covered, Sure, Complete, Rewriting, MaxTrainSteps, vars, train, disk
<1>4. LastIsNewest' /\ LinksWhole'
  BY DEF IInv, LastIsNewest, LinksWhole, Complete, vars, train, disk
<1>5. Recorded'
  BY DEF IInv, Recorded, NewestThere, Complete, Rewriting, vars, train, disk
<1>6. Paired'
  BY DEF IInv, Paired, Alike, Rewriting, BestNow, LossAt, vars, train, disk
<1>7. Written'
  BY DEF IInv, Written, WrittenBy, Rewriting, BestNow, LossAt, vars, train, disk
<1>8. Removing'
  BY DEF IInv, Removing, Cleaning, Complete, Alike, LinkedTo, Leader, Old, vars, train, disk
<1>9. Trimmed'
  BY DEF IInv, Trimmed, Cleaning, LinkedTo, vars, train, disk
<1>10. Lowest'
  BY DEF IInv, Lowest, First, Low, LossAt, BestNow, Cleaning, Rewriting, vars, train, disk
<1> QED BY <1>1, <1>2, <1>3, <1>4, <1>5, <1>6, <1>7, <1>8, <1>9, <1>10 DEF IInv

(***************************************************************************)
(* The invariants, and what they say.                                      *)
(***************************************************************************)
LEMMA Preserved == ASSUME IInv, Onward, Onward', [Next]_vars PROVE IInv'
<1>1. CASE Launch
  BY <1>1, LaunchStep
<1>2. CASE BeginTrain \/ BeginEpoch \/ TrainStep
  BY <1>2, BeginTrainStep, BeginEpochStep, TrainStepStep
<1>3. CASE SaveEverySteps \/ AtLimit \/ ValidateEverySteps
  BY <1>3, SaveEveryStepsStep, AtLimitStep, ValidateEveryStepsStep
<1>4. CASE SaveEveryEpochs \/ ValidateEveryEpochs \/ EndEpoch
  BY <1>4, SaveEveryEpochsStep, ValidateEveryEpochsStep, EndEpochStep
<1>5. CASE ValidateAndSave \/ BeginSave \/ SecondBarrier \/ ReturnFromSave
  BY <1>5, ValidateAndSaveStep, BeginSaveStep, SecondBarrierStep, ReturnFromSaveStep
<1>6. CASE Relaunch \/ Crash
  BY <1>6, RelaunchStep, CrashStep
<1>7. ASSUME NEW r \in Rank, Saves(r) PROVE IInv'
  <2>1. CASE OpenFile(r) \/ CloseFile(r)
    BY <2>1, OpenFileStep, CloseFileStep
  <2>2. CASE UpdateLast(r) \/ UpdateBest(r)
    BY <2>2, UpdateLastStep, UpdateBestStep
  <2>3. CASE ListExpired(r)
    BY <2>3, ListExpiredStep
  <2>4. CASE RemoveTree(r) \/ RemoveFails(r) \/ RemovedAll(r)
    BY <2>4, RemoveTreeStep, RemoveFailsStep, RemovedAllStep
  <2> QED BY <1>7, <2>1, <2>2, <2>3, <2>4 DEF Saves
<1>8. CASE Over \/ UNCHANGED vars
  BY <1>8, Stutters DEF Over
<1> QED BY <1>1, <1>2, <1>3, <1>4, <1>5, <1>6, <1>7, <1>8 DEF Next, Loop

\* Who has gone astray stays astray.
LEMMA OnwardBefore == ASSUME BInv, [Next]_vars, Onward' PROVE Onward
<1>1. cfg' = cfg /\ launch \in Nat \ {0} /\ crashes \in Nat
      /\ (launch' = launch \/ launch' = launch + 1) /\ (crashes' = crashes \/ crashes' = crashes + 1)
  <2>1. launch \in Nat \ {0} /\ crashes \in Nat
    BY Configured DEF BInv, TypeOK
  <2>2. CASE Launch \/ Relaunch \/ Crash
    BY <2>1, <2>2 DEF Launch, Relaunch, Crash, Lost
  <2>3. CASE BeginTrain \/ BeginEpoch \/ TrainStep \/ SaveEverySteps \/ AtLimit \/ ValidateEverySteps
    BY <2>1, <2>3 DEF BeginTrain, BeginEpoch, TrainStep, SaveEverySteps, AtLimit, ValidateEverySteps, CallSave, Goto
  <2>4. CASE SaveEveryEpochs \/ ValidateEveryEpochs \/ EndEpoch \/ ValidateAndSave \/ BeginSave
    BY <2>1, <2>4 DEF SaveEveryEpochs, ValidateEveryEpochs, EndEpoch, ValidateAndSave, BeginSave, CallSave, Goto
  <2>5. CASE SecondBarrier \/ ReturnFromSave
    BY <2>1, <2>5 DEF SecondBarrier, ReturnFromSave, train
  <2>6. ASSUME NEW r \in Rank, Saves(r) PROVE UNCHANGED <<cfg, launch, crashes>>
    BY <2>6 DEF Saves, OpenFile, CloseFile, UpdateLast, UpdateBest, ListExpired, RemoveTree, RemoveFails, RemovedAll,
                Elsewhere, train
  <2>7. CASE Over \/ UNCHANGED vars
    BY <2>1, <2>7 DEF Over, vars, train
  <2> QED BY <2>1, <2>2, <2>3, <2>4, <2>5, <2>6, <2>7 DEF Next, Loop
<1>2. launch' = 1 /\ crashes' = 0 => launch = 1 /\ crashes = 0
  BY <1>1
<1> QED BY <1>1, <1>2 DEF Onward

\* In every state the program reaches, whatever is saved, loaded or lost, the
\* variables have their types.
THEOREM TypeCorrect == Spec => []TypeOK
<1>1. BInv => TypeOK
  BY DEF BInv
<1>2. BInv /\ [Next]_vars => BInv'
  BY BasePreserved
<1> QED BY <1>1, <1>2, BaseBegins, PTL DEF Spec

\* The invariants from which the theorems below follow: one throughout, the other
\* while launches go on where the former left off.
THEOREM Invariance == Spec => [](BInv /\ (Onward => IInv))
<1>1. Init => BInv /\ (Onward => IInv)
  BY Begins, BaseBegins
<1>2. BInv /\ (Onward => IInv) /\ [Next]_vars => (BInv /\ (Onward => IInv))'
  <2> SUFFICES ASSUME BInv, Onward => IInv, [Next]_vars PROVE BInv' /\ (Onward' => IInv')
    OBVIOUS
  <2>1. ASSUME Onward' PROVE IInv'
    <3>1. Onward
      BY <2>1, OnwardBefore
    <3> QED BY <2>1, <3>1, Preserved
  <2> QED BY <2>1, BasePreserved
<1> QED BY <1>1, <1>2, PTL DEF Spec

\* What _train has trained on when it resumed from its checkpoints is what an
\* uninterrupted run trains on, wherever it was interrupted and whatever it resumed
\* from, and with the same learning rates if the scheduler is not stepped per epoch
\* with saves at the ends of epochs; and the ranks resume from the same step as
\* long as the launches go on where the former left off.
THEOREM ResumesAsUninterrupted == Spec => []AsUninterrupted
<1>1. BInv /\ (Onward => IInv) => AsUninterrupted
  <2> SUFFICES ASSUME BInv, Onward => IInv PROVE AsUninterrupted
    OBVIOUS
  <2>1. at = "apart" => ~Onward
    BY DEF IInv, Resumed
  <2>2. ASSUME NEW s \in 1..fin
        PROVE  /\ seen[s].epoch = (s - 1) \div StepsPerEpoch
               /\ seen[s].from = ((s - 1) % StepsPerEpoch) * UpdateFreq
               /\ seen[s].to = IF (((s - 1) % StepsPerEpoch) + 1) * UpdateFreq < Loader
                               THEN (((s - 1) % StepsPerEpoch) + 1) * UpdateFreq ELSE Loader
               /\ ~Late(cfg) => seen[s].lr = Rate(cfg, s - 1)
    <3>1. seen[s] = Batch(s, seen[s].lr) /\ (~Late(cfg) => seen[s].lr = Rate(cfg, s - 1))
      BY DEF BInv, Trained, Uninterrupted
    <3> QED BY <3>1 DEF Batch, Taken
  <2>3. SchedulerLate \/ RatesKept
    BY <2>2 DEF SchedulerLate, Late, RatesKept, Rate
  <2> QED BY <2>1, <2>2, <2>3 DEF AsUninterrupted
<1> QED BY <1>1, Invariance, PTL

\* _save_checkpoint and _expire_checkpoints: whatever crashes and expires, the
\* ranks can always resume from the last complete save or a later one, and a link
\* of best or last to it leads to a whole file.
THEOREM CheckpointsStaySound == Spec => []CheckpointsSound
<1>1. BInv /\ (Onward => IInv) => CheckpointsSound
  <2> SUFFICES ASSUME IInv, Onward PROVE Restorable /\ LinksWhole
    BY DEF CheckpointsSound
  <2>1. ASSUME NEW s \in saved PROVE Newest >= s
    <3>1. PICK n \in AllSteps : Sure(n) /\ s <= n
      BY <2>1 DEF IInv, Cover, Covered
    <3>2. n \in CompleteSteps
      BY <3>1 DEF Sure, CompleteSteps
    <3>3. n <= Newest /\ Newest \in AllSteps /\ s \in AllSteps
      BY <2>1, <3>2, NewestIs DEF CompleteSteps, IInv, BInv, TypeOK
    <3> QED BY <3>1, <3>3 DEF AllSteps
  <2> QED BY <2>1 DEF Restorable, IInv
<1> QED BY <1>1, Invariance, PTL

\* _expire_checkpoints: the newest keep_last_n_checkpoints stay, whatever nodes
\* remove the others at once; and on one node the others go after a save.
THEOREM ExpiryKeepsLastN == Spec => []KeepsLastN
<1>1. BInv /\ (Onward => IInv) => KeepsLastN
  <2> SUFFICES ASSUME IInv PROVE NewestThere /\ OthersGone
    BY DEF KeepsLastN
  <2>1. NewestThere
    BY DEF IInv, Recorded
  <2>2. ASSUME AllAt("end"), cfg.keep # 0, cfg.localWorldSize = R, NEW s \in dirs
        PROVE  LinkedTo(s) \/ Cardinality({t \in dirs : t > s}) < cfg.keep
    <3>1. sv[0] = "end"
      BY <2>2, RankZero DEF AllAt
    <3>2. Cleaning
      BY <3>1, RankZero, InSave DEF Cleans
    <3>3. expire[0] = {}
      BY <3>1, RankZero DEF IInv, BInv, Outside
    <3> QED BY <2>2, <3>1, <3>2, <3>3 DEF IInv, Trimmed
  <2>3. ASSUME NEW s, LinkedTo(s)
        PROVE  s \in {f.fin : f \in {x \in {last[r] : r \in Rank} \cup {bestf[r] : r \in Rank} : x.kind = "link"}}
    BY <2>3, SomeKinds DEF LinkedTo
  <2> QED BY <2>1, <2>2, <2>3 DEF OthersGone
<1> QED BY <1>1, Invariance, PTL

\* best of _save_checkpoint: in a launch from the start it is the checkpoint with
\* the lowest validation loss of all that were saved.
THEOREM BestStaysLowest == Spec => []BestIsLowest
<1>1. BInv /\ (Onward => IInv) => BestIsLowest
  <2> SUFFICES ASSUME IInv, at # "saving", First, NEW r \in Rank, NEW s \in saved
               PROVE  Resolve(bestf[r], r).kind = "whole" /\ LossAt(Resolve(bestf[r], r).fin) <= LossAt(s)
    BY DEF BestIsLowest, First, Onward
  <2>1. ~Cleaning /\ ~Rewriting
    BY DEF Cleaning, Rewriting
  <2>2. Low(bestf[r], best) /\ best <= LossAt(s)
    BY <2>1 DEF IInv, Lowest
  <2>3. PICK b \in Nat : b = bestf[r].fin /\ LossAt(b) <= best
    BY <2>2 DEF Low, IInv, BInv, TypeOK, Files
  <2>4. Resolve(bestf[r], r).kind = "whole" /\ Resolve(bestf[r], r).fin = b
    <3>1. CASE bestf[r].kind = "whole"
      BY <2>3, <3>1 DEF Resolve
    <3>2. CASE bestf[r].kind = "link"
      <4>1. b \in saved /\ b \in AllSteps
        BY <2>2, <2>3, <3>2 DEF Low, IInv, BInv, TypeOK
      <4>2. file[b][r].kind = "whole" /\ IsOf(cfg, file[b][r], b)
        BY <2>3, <3>2, <4>1 DEF IInv, BInv, LinksWhole, Kept
      <4> QED BY <2>3, <3>2, <4>2 DEF Resolve, IsOf
    <3> QED BY <2>2, <3>1, <3>2 DEF Low
  <2>5. \A x, y, z \in Int : x <= y /\ y <= z => x <= z
    OBVIOUS
  <2>6. LossAt(b) \in Int /\ best \in Int /\ LossAt(s) \in Int
    <3>1. s \in AllSteps /\ best \in Int
      BY DEF IInv, BInv, TypeOK, Infinity
    <3>2. b \in AllSteps
      BY <2>2, <2>3 DEF Low
    <3> QED BY <3>1, <3>2, Losses DEF IInv, BInv
  <2> QED BY <2>2, <2>3, <2>4, <2>5, <2>6
<1> QED BY <1>1, Invariance, PTL

(***************************************************************************)
(* The training is a durable one.                                          *)
(***************************************************************************)
Done == IF at = "down" THEN Newest ELSE fin

LEMMA NewerIs ==
    ASSUME NEW S \in SUBSET AllSteps
    PROVE  /\ S = {} => Newer(S) = 0
           /\ S # {} => Newer(S) \in S /\ \A t \in S : t <= Newer(S)
<1>1. S # {} => \E x \in S : \A y \in S : y <= x
  BY Greatest
<1> QED BY <1>1 DEF Newer

LEMMA NewerEquals ==
    ASSUME NEW S \in SUBSET AllSteps, NEW n \in S, \A t \in S : t <= n
    PROVE  Newer(S) = n
<1>1. PICK m \in S : m = Newer(S) /\ n <= m /\ m <= n
  BY NewerIs
<1>2. m \in Nat /\ n \in Nat
  BY TrainerAssumption DEF AllSteps
<1> QED BY <1>1, <1>2

\* What a crash leaves is not older than the last complete save.
LEMMA Bounds ==
    ASSUME IInv
    PROVE  /\ Newest \in Nat /\ Newer(saved) \in Nat /\ fin \in Nat
           /\ Newer(saved) <= Newest /\ (at # "down" => Newest <= fin)
           /\ \A s \in saved : s \in Nat /\ s <= Newest
<1>1. saved \in SUBSET AllSteps /\ fin \in Nat
  BY DEF IInv, BInv, TypeOK
<1>2. Newest \in Nat /\ (at # "down" => Newest <= fin)
  <2>1. CompleteSteps # {} => Newest \in AllSteps /\ Complete(Newest)
    BY NewestIs DEF CompleteSteps
  <2> QED BY <1>1, <2>1, NewestIs DEF IInv, Cover, AllSteps
<1>3. ASSUME NEW s \in saved PROVE s \in Nat /\ s <= Newest
  <2>1. s \in AllSteps
    BY <1>1
  <2>2. PICK n \in AllSteps : Sure(n) /\ s <= n
    BY DEF IInv, Cover, Covered
  <2>3. n \in CompleteSteps
    BY <2>2 DEF Sure, CompleteSteps
  <2>4. n <= Newest
    BY <2>3, NewestIs
  <2> QED BY <1>2, <2>1, <2>2, <2>4 DEF AllSteps
<1>4. Newer(saved) \in Nat /\ Newer(saved) <= Newest
  BY <1>1, <1>2, <1>3, NewerIs
<1> QED BY <1>1, <1>2, <1>3, <1>4

LEMMA SameDisk == ASSUME UNCHANGED <<dirs, file>> PROVE Newest' = Newest
<1>1. CompleteSteps' = CompleteSteps
  BY DEF CompleteSteps, Complete
<1> QED BY <1>1 DEF Newest

\* A launch loads what is left, and records it.
LEMMA LaunchRecords ==
    ASSUME IInv, Onward, Launch
    PROVE  Done' = Done /\ (Newer(saved') = Done \/ saved' = saved)
<1>1. at = "down" /\ at' = "launched" /\ fin' = Newest /\ saved' = saved \cup ({Newest} \ {0})
  BY Launches
<1>2. CASE Newest = 0
  BY <1>1, <1>2 DEF Done
<1>3. CASE Newest # 0
  <2>1. PICK n \in AllSteps, S \in SUBSET AllSteps : n = Newest /\ S = saved' /\ S = saved \cup {n}
    <3>1. Newest \in AllSteps /\ saved \in SUBSET AllSteps
      BY <1>3, NewestIs DEF CompleteSteps, IInv, BInv, TypeOK
    <3>2. saved' = saved \cup {Newest}
      BY <1>1, <1>3
    <3> QED BY <3>1, <3>2
  <2>2. \A s \in saved : s <= n
    BY <2>1, Bounds
  <2>3. n \in S /\ \A s \in S : s <= n
    BY <2>1, <2>2 DEF AllSteps
  <2>4. Newer(S) = n
    BY <2>3, NewerEquals
  <2> QED BY <1>1, <2>1, <2>4 DEF Done
<1> QED BY <1>2, <1>3

\* Every step is a step of the abstract training or none.
LEMMA StepRefined ==
    ASSUME IInv, Onward, [Next]_vars
    PROVE  \/ Done' = Done + 1 /\ Done < Steps /\ saved' = saved
           \/ Done' = Done /\ Newer(saved') = Done
           \/ Newer(saved) <= Done' /\ Done' <= Done /\ Done' \in Nat /\ saved' = saved
           \/ Done' = Done /\ saved' = saved
<1>1. CASE Launch
  BY <1>1, LaunchRecords
<1>2. CASE TrainStep
  <2>1. fin < MaxTrainSteps /\ MaxTrainSteps \in 0..Steps /\ Steps \in Nat /\ fin \in Nat /\ at = "step"
    BY <1>2, LimitNow DEF IInv, BInv, Placed, TypeOK, TrainStep
  <2> QED BY <1>2, <2>1 DEF TrainStep, Goto, Done
<1>3. CASE BeginTrain \/ BeginEpoch \/ SaveEverySteps \/ AtLimit \/ ValidateEverySteps \/ SaveEveryEpochs
           \/ ValidateEveryEpochs \/ EndEpoch \/ ValidateAndSave
  <2>1. at # "down" /\ at' # "down" /\ fin' = fin /\ saved' = saved
    BY <1>3 DEF BeginTrain, BeginEpoch, SaveEverySteps, AtLimit, ValidateEverySteps, SaveEveryEpochs,
                ValidateEveryEpochs, EndEpoch, ValidateAndSave, CallSave, Goto
  <2> QED BY <2>1 DEF Done
<1>4. CASE BeginSave \/ ReturnFromSave
  <2>1. CASE BeginSave
    BY <2>1 DEF BeginSave, Done
  <2>2. CASE ReturnFromSave
    <3>1. sv[0] = "end"
      BY <2>2, RankZero DEF ReturnFromSave, AllAt
    <3>2. at = "saving"
      BY <3>1, RankZero, InSave
    <3>3. ret # "none" /\ ret \in {"none", "limit", "next", "valepoch"}
      BY <3>2 DEF IInv, BInv, Placed, Saving, TypeOK
    <3> QED BY <2>2, <3>2, <3>3 DEF ReturnFromSave, Done
  <2> QED BY <1>4, <2>1, <2>2
<1>5. CASE SecondBarrier
  <2>1. at = "saving" /\ fin \in AllSteps /\ at' = at /\ fin' = fin /\ saved' = saved \cup {fin}
    <3>1. sv[0] = "wrote"
      BY <1>5, RankZero DEF SecondBarrier, AllAt
    <3> QED BY <1>5, <3>1, RankZero, InSave DEF SecondBarrier, train
  <2>2. PICK S \in SUBSET AllSteps : S = saved \cup {fin} /\ S = saved'
    BY <2>1 DEF IInv, BInv, TypeOK
  <2>3. \A s \in saved : s <= fin
    BY <2>1, Bounds
  <2>4. fin \in S /\ \A s \in S : s <= fin
    BY <2>1, <2>2, <2>3 DEF AllSteps
  <2>5. Newer(S) = fin
    BY <2>4, NewerEquals
  <2> QED BY <2>1, <2>2, <2>5 DEF Done
<1>6. CASE Crash \/ Relaunch
  <2>1. at # "down" /\ at' = "down" /\ saved' = saved /\ dirs' = dirs /\ file' = file
    BY <1>6 DEF Crash, Relaunch, Lost, disk
  <2>2. Newest' = Newest
    BY <2>1, SameDisk
  <2> QED BY <2>1, <2>2, Bounds DEF Done
<1>7. ASSUME NEW r \in Rank, Saves(r) PROVE Done' = Done /\ saved' = saved
  <2>1. sv[r] # "idle"
    BY <1>7 DEF Saves, OpenFile, CloseFile, UpdateLast, UpdateBest, ListExpired, RemoveTree, RemoveFails, RemovedAll,
                Does, Removes
  <2>2. UNCHANGED <<train, saved>>
    BY <1>7 DEF Saves, OpenFile, CloseFile, UpdateLast, UpdateBest, ListExpired, RemoveTree, RemoveFails, RemovedAll,
                Elsewhere
  <2>3. at = "saving"
    BY <2>1, InSave
  <2> QED BY <2>2, <2>3 DEF Done, train
<1>8. CASE Over \/ UNCHANGED vars
  <2>1. at' = at /\ fin' = fin /\ UNCHANGED <<dirs, file>> /\ saved' = saved
    BY <1>8 DEF Over, vars, train, disk
  <2> QED BY <2>1, SameDisk DEF Done
<1> QED BY <1>1, <1>2, <1>3, <1>4, <1>5, <1>6, <1>7, <1>8 DEF Next, Loop

\* A crash costs no more than what was done since the last complete save, while
\* the launches go on where the former left off: the program implements the safety
\* part of DurableTraining.
THEOREM TrainsDurably == Spec => Durable!Init /\ [][Durable!Next]_(Durable!vars)
<1>1. Init => Durable!Init
  <2> SUFFICES ASSUME Init PROVE Durable!Init
    OBVIOUS
  <2>1. CompleteSteps = {}
    BY DEF Init, CompleteSteps, Complete
  <2>2. Newest = 0 /\ at = "down" /\ saved = {}
    BY <2>1, NewestIs DEF Init
  <2>3. Newer(saved) = 0
    BY <2>2, NewerIs
  <2>4. Onward = TRUE
    BY DEF Init, Onward
  <2> QED BY <2>2, <2>3, <2>4 DEF Durable!Init
<1>2. BInv /\ (Onward => IInv) /\ [Next]_vars => [Durable!Next]_(Durable!vars)
  <2> SUFFICES ASSUME BInv, Onward => IInv, [Next]_vars PROVE [Durable!Next]_(Durable!vars)
    OBVIOUS
  <2>1. CASE ~Onward'
    <3>1. Onward' = FALSE
      BY <2>1 DEF Onward
    <3> QED BY <3>1 DEF Durable!Next, Durable!Stray
  <2>2. CASE Onward'
    <3>1. IInv /\ Onward = TRUE /\ Onward' = TRUE
      BY <2>2, OnwardBefore DEF Onward
    <3>2. /\ Done = IF at = "down" THEN Newest ELSE fin
          /\ Done' = (IF at = "down" THEN Newest ELSE fin)'
          /\ Newer(saved)' = Newer(saved')
          /\ Newer(saved) \in Nat
      BY <3>1, Bounds DEF Done
    <3>3. \/ Done' = Done + 1 /\ Done < Steps /\ saved' = saved
          \/ Done' = Done /\ Newer(saved') = Done
          \/ Newer(saved) <= Done' /\ Done' <= Done /\ Done' \in Nat /\ saved' = saved
          \/ Done' = Done /\ saved' = saved
      BY <3>1, StepRefined
    <3>4. \/ Done' = Done + 1 /\ Done < Steps /\ Newer(saved)' = Newer(saved)
          \/ Done' = Done /\ Newer(saved)' = Done
          \/ Done' \in Newer(saved)..Done /\ Newer(saved)' = Newer(saved)
      <4>1. Done \in Nat
        BY <3>1, Bounds DEF Done
      <4>2. Done' = Done => Done' \in Newer(saved)..Done
        BY <3>1, <4>1, Bounds DEF Done
      <4> QED BY <3>2, <3>3, <4>1, <4>2
    <3> QED BY <3>1, <3>2, <3>4, Zenon DEF Durable!Next, Durable!vars, Durable!Train, Durable!Record, Durable!Interrupt
  <2> QED BY <2>1, <2>2
<1> QED BY <1>1, <1>2, Invariance, PTL DEF Spec
=============================================================================
