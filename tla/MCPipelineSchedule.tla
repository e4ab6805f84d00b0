-------------------------- MODULE MCPipelineSchedule --------------------------
(***************************************************************************)
(* Schedule plans for TLC: two to four stages on up to four devices, two   *)
(* to four microbatches, alone or with several devices in a stage.  Every  *)
(* device of the first and of the last stage reads its own samples.        *)
(***************************************************************************)
EXTENDS PipelineSchedule

MCDevice == 1..4

\* A plan of a predefined schedule whose stages run on the given devices.
P(kind, on, M) ==
  LET S == Len(on)
  IN [kind |-> kind, S |-> S, M |-> M, on |-> [s \in 0..(S - 1) |-> on[s + 1]],
      loads |-> (on[1] \X {0}) \cup (on[S] \X {S - 1}), idle |-> {}, tp |-> FALSE, blocks |-> {}]

Narrow == {<<{1}, {2}>>, <<{1}, {2}, {3}>>}
Wide == {<<{1, 2}, {3}>>, <<{1}, {2, 3}>>, <<{1, 2}, {3, 4}>>}
Bidirectional == <<{1, 4}, {2, 3}, {2, 3}, {1, 4}>>

Predefined ==
  {P(kind, on, M) : kind \in {"1f1b", "1f1b_plus", "gpipe", "infer_pipe"}, on \in Narrow, M \in {1, 2, 4}}
  \cup {P(kind, on, 2) : kind \in {"1f1b", "gpipe"}, on \in Wide}
  \cup {P("chimera_direct", Bidirectional, 4)}

\* A hybrid pipeline with a segment on all devices.
Shared == [P("1f1b_plus", <<{1}, {2}>>, 2) EXCEPT !.tp = TRUE]

\* Plans written by hand for two stages, one microbatch, blocks of one step; and
\* with a loader that nobody reads.
Custom(on, bs) == [P("custom", on, 1) EXCEPT !.blocks = bs]
Chain4(f0, f1, b1, b0) == {Block("f", 0, 0, f0, 1), Block("f", 1, 0, f1, 1),
                           Block("b", 1, 0, b1, 1), Block("b", 0, 0, b0, 1)}
Written ==
  {Custom(on, Chain4(f0, f1, b1, b0)) : on \in {<<{1}, {2}>>, <<{1}, {1}>>, <<{1}, {1, 2}>>},
                                        f0 \in 0..1, f1 \in 0..2, b1 \in 0..3, b0 \in 1..4}
  \cup {[Custom(<<{1}, {2}>>, {Block("f", 0, 0, 0, 1), Block("f", 1, 0, 1, 1), Block("b", 1, 0, 2, 1),
                                Block("b", 0, 0, 3, n)}) EXCEPT !.idle = {3}] : n \in 1..2}

MCPlan == Predefined \cup {Shared} \cup Written
=============================================================================
