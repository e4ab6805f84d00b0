---------------------------- MODULE MCStagePool ----------------------------
(* StagePool for TLC. *)
EXTENDS StagePool
=============================================================================
