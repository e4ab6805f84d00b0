------------------------------ MODULE Verdict ------------------------------
(***************************************************************************)
(* What the pool phase of StageParallelVerifier.launch promises its        *)
(* caller: one final answer, and SUCCESS only when every stage equivalence *)
(* really holds.  "fail" stands for every way of leaving launch with an    *)
(* exception (the RuntimeError after FAIL, or an exception of the pool).   *)
(***************************************************************************)
EXTENDS Naturals

CONSTANT N      \* number of stages handed to the pool, len(stages)

VARIABLES holds,    \* which stage equivalences hold
          verdict   \* what launch has told its caller

vars == <<holds, verdict>>

Init == /\ holds \in [1..N -> BOOLEAN]
        /\ verdict = "pending"

Succeed == /\ verdict = "pending"
           /\ \A s \in 1..N : holds[s]
           /\ verdict' = "success"
           /\ UNCHANGED holds

Fail == /\ verdict = "pending"
        /\ verdict' = "fail"
        /\ UNCHANGED holds

Next == Succeed \/ Fail

Spec == Init /\ [][Next]_vars
=============================================================================
