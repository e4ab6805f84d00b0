-------------------------- MODULE MicrobatchOrder --------------------------
(***************************************************************************)
(* What a schedule plan promises: microbatches do not depend on each       *)
(* other, and each goes through its chain of blocks in order (forward from *)
(* the first stage to the last, then backward), once, to the end; or the   *)
(* plan is refused before anything has run.                                *)
(***************************************************************************)
EXTENDS Naturals

CONSTANT Micro         \* microbatches that may occur

VARIABLES progress,    \* blocks of its chain that a microbatch is through with
          length       \* blocks of a chain

vars == <<progress, length>>

Init == progress = [m \in Micro |-> 0] /\ length \in [Micro -> Nat]

Step(m) == /\ progress[m] < length[m]
           /\ progress' = [progress EXCEPT ![m] = @ + 1]
           /\ UNCHANGED length

Refuse == /\ \A m \in Micro : progress[m] = 0
          /\ length' = [m \in Micro |-> 0]
          /\ UNCHANGED progress

Next == (\E m \in Micro : Step(m)) \/ Refuse

Spec == Init /\ [][Next]_vars /\ \A m \in Micro : WF_vars(Step(m))
=============================================================================
