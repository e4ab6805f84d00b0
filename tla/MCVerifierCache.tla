-------------------------- MODULE MCVerifierCache --------------------------
(***************************************************************************)
(* Verifier processes on one pair of graphs, on the same single-device     *)
(* graph with another parallel graph, and on another single-device graph   *)
(* of the same stem.  The first with every combination of the cache        *)
(* switches.                                                               *)
(***************************************************************************)
EXTENDS VerifierCache, TLC

MCStem(g) == IF g = "s2" THEN "s" ELSE g

MCJob(sp, pp, n, g) == [s |-> sp, p |-> pp, nodes |-> n, stages |-> g]
MCJobs == {MCJob("s", "p", n, g) : n, g \in BOOLEAN}
            \cup {MCJob("s", "q", TRUE, TRUE),
                  MCJob("s2", "p", TRUE, FALSE), MCJob("s2", "p", FALSE, TRUE)}

Symmetry == Permutations(Runs)
=============================================================================
