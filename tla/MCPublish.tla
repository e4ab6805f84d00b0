----------------------------- MODULE MCPublish -----------------------------
(* Publish for TLC: interchangeable runs. *)
EXTENDS Publish, TLC

Symmetry == Permutations(Runs)
=============================================================================
