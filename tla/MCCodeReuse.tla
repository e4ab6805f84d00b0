---------------------------- MODULE MCCodeReuse ----------------------------
(***************************************************************************)
(* Two nodes; two configs with the same graph and one with another.        *)
(***************************************************************************)
EXTENDS CodeReuse

MCConfs == {[graph |-> "g", plan |-> "p"], [graph |-> "g", plan |-> "q"], [graph |-> "h", plan |-> "p"]}
=============================================================================
