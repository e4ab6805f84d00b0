-------------------------- MODULE CertificatePlan --------------------------
(***************************************************************************)
(* What compile_proof_plan promises the renderer: a certificate grows by   *)
(* steps that come after everything they depend on, no step twice, none    *)
(* once the plan has been returned, the plan of an accepted goal has the   *)
(* step of every target, and there is an answer in the end.                *)
(***************************************************************************)
EXTENDS Naturals, Sequences

VARIABLES plan,      \* the steps in the order of the certificate: [id, deps]
          targets,   \* target_steps of an accepted plan
          answer     \* "open", "supported" or "rejected"

vars == <<plan, targets, answer>>

Ids == {plan[i].id : i \in 1..Len(plan)}

Init == plan = <<>> /\ targets = <<>> /\ answer = "open"

Add == /\ answer = "open"
       /\ Len(plan') = Len(plan) + 1
       /\ \A i \in 1..Len(plan) : plan'[i] = plan[i]
       /\ plan'[Len(plan')].id \notin Ids
       /\ plan'[Len(plan')].deps \subseteq Ids
       /\ UNCHANGED <<targets, answer>>

Accept == /\ answer = "open"
          /\ \A i \in 1..Len(targets') : targets'[i] \in Ids
          /\ answer' = "supported"
          /\ UNCHANGED plan

Reject == answer = "open" /\ answer' = "rejected" /\ UNCHANGED <<plan, targets>>

Next == Add \/ Accept \/ Reject

Spec == Init /\ [][Next]_vars /\ <>(answer # "open")
=============================================================================
