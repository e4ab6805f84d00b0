------------------------ MODULE SynchronousTraining ------------------------
(***************************************************************************)
(* What synchronous data parallel training promises: a process applies the *)
(* update of an iteration only when every process has computed its         *)
(* gradients of that iteration, and every process gets through all of      *)
(* them, unless the job is refused.                                        *)
(***************************************************************************)
EXTENDS Naturals

CONSTANTS Process, Iters     \* processes there may be; iterations (a bound)

VARIABLES member,            \* the processes of the job
          computed,          \* iterations whose gradients a process has computed
          updated            \* iterations whose update a process has applied

vars == <<member, computed, updated>>

Init == /\ member \in SUBSET Process
        /\ computed = [p \in Process |-> 0] /\ updated = [p \in Process |-> 0]

Compute(p) == /\ p \in member
              /\ computed[p] = updated[p] /\ computed[p] < Iters
              /\ computed' = [computed EXCEPT ![p] = @ + 1]
              /\ UNCHANGED <<member, updated>>

Update(p) == /\ p \in member
             /\ \A q \in member : computed[q] > updated[p]
             /\ updated' = [updated EXCEPT ![p] = @ + 1]
             /\ UNCHANGED <<member, computed>>

Refuse == member' = {} /\ UNCHANGED updated

Next == (\E p \in Process : Compute(p) \/ Update(p)) \/ Refuse

Spec == Init /\ [][Next]_vars /\ \A p \in Process : WF_vars(Compute(p)) /\ WF_vars(Update(p))
=============================================================================
