----------------------------- MODULE MCProofPlan -----------------------------
(***************************************************************************)
(* Goals for TLC: a single-device graph of one or two nodes, parallel      *)
(* graphs of three nodes over three tensors on two ranks.  Tensor 1 is the *)
(* graph input.                                                            *)
(***************************************************************************)
EXTENDS ProofPlan

MCTid == 1..3
MCRule == [P |-> [kind |-> "pointwise", sensitive |-> FALSE, inputs |-> Any, outputs |-> 1, perRank |-> FALSE],
           C |-> [kind |-> "collective", sensitive |-> TRUE, inputs |-> 1, outputs |-> 1, perRank |-> FALSE],
           L |-> [kind |-> "collective", sensitive |-> TRUE, inputs |-> Any, outputs |-> 1, perRank |-> TRUE],
           M |-> [kind |-> "multi_output", sensitive |-> FALSE, inputs |-> 1, outputs |-> 2, perRank |-> FALSE]]

N(op, ins, outs, rank) == [op |-> op, ins |-> ins, outs |-> outs, rank |-> rank]

Small == {N("P", <<i>>, <<o>>, 0) : i \in 1..3, o \in 1..3}
         \cup {N("P", <<1, i>>, <<o>>, 1) : i \in {2, 3}, o \in {2, 3}}
         \cup {N("C", <<i>>, <<o>>, 0) : i \in 2..3, o \in 2..3}
         \cup {N("L", <<2, 3>>, <<3>>, 1), N("M", <<1>>, <<2, 3>>, 0), N("M", <<2>>, <<3, 1>>, 1)}

\* Nodes a rule refuses, or that no rule covers.
Bad == {N("U", <<1>>, <<2>>, 0), N("L", <<2>>, <<2>>, 0), N("M", <<1>>, <<2, 2>>, 0)}

Sm == N("P", <<1>>, <<2>>, 0)
Pieces == {<<[rank |-> 0, tid |-> 3]>>, <<[rank |-> 0, tid |-> 2], [rank |-> 1, tid |-> 3]>>}

G(sm, pm, pieces, shapesAgree) ==
  [nodes |-> [sm |-> sm, pm |-> pm], inits |-> [sm |-> {1}, pm |-> {1}],
   target |-> 2, pieces |-> pieces, ranks |-> [sm |-> 1, pm |-> 2], shapesAgree |-> shapesAgree]

MCGoal ==
  {G(<<Sm>>, <<a, b, c>>, p, TRUE) : a \in Small, b \in Small, c \in Small, p \in Pieces}
  \cup {G(<<Sm>>, <<a, b>>, p, FALSE) : a \in Small, b \in Small, p \in Pieces}
  \cup {G(<<a, b>>, <<b>>, p, TRUE) : a \in Small, b \in Small \cup Bad, p \in Pieces \cup
          {<<>>, <<[rank |-> 2, tid |-> 2]>>, <<[rank |-> 1, tid |-> 2], [rank |-> 1, tid |-> 3]>>}}
=============================================================================
