--------------------------- MODULE DurableTraining ---------------------------
(***************************************************************************)
(* What a training run with checkpoints promises, however it is            *)
(* interrupted: steps are done one after the other, an interruption never  *)
(* takes back a step that a checkpoint has recorded, and all steps are     *)
(* done in the end; unless it is resumed from elsewhere than the newest    *)
(* checkpoint.                                                             *)
(***************************************************************************)
EXTENDS Naturals

CONSTANT Steps    \* train steps of the whole training, a natural number

VARIABLES done,   \* train steps done
          safe,   \* train steps recorded by a complete checkpoint
          steady  \* it has always been resumed from the newest

vars == <<done, safe, steady>>

Init == done = 0 /\ safe = 0 /\ steady = TRUE

Train == done < Steps /\ done' = done + 1 /\ UNCHANGED safe
Record == safe' = done /\ UNCHANGED done
Interrupt == done' \in safe..done /\ UNCHANGED safe

\* After that, nothing is promised.
Stray == steady' = FALSE

Next == (steady /\ steady' = TRUE /\ (Train \/ Record \/ Interrupt)) \/ Stray

Spec == Init /\ [][Next]_vars /\ WF_vars(steady /\ steady' = TRUE /\ Train)
=============================================================================
