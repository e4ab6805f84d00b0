--------------------------- MODULE MCGradientSync ---------------------------
(***************************************************************************)
(* Training loops for TLC: two iterations of two microbatches on two       *)
(* ranks, or of one on four ranks in two ZeRO groups; and some that an     *)
(* asynchronous reducer refuses, or that Trainer does not get through.     *)
(***************************************************************************)
EXTENDS GradientSync

Base == [ranks |-> 2, driver |-> "train_step", accum |-> TRUE, async |-> FALSE, zero |-> FALSE, scatter |-> FALSE,
         ngroups |-> 1, reducers |-> <<[owner |-> "m1", sizes |-> <<2, 1>>]>>, limit |-> 2, K |-> 2,
         backward |-> <<<<1, 2>>, <<1, 1>>>>, run |-> {"m1"}]
Loop == [Base EXCEPT !.driver = "loop"]

\* Three parameters in two buckets, whose gradients come in any order.
Async == [Base EXCEPT !.async = TRUE, !.reducers = <<[owner |-> "m1", sizes |-> <<1, 1, 3>>]>>]
Orders == {<<<<1, x[1]>>, <<1, x[2]>>, <<1, x[3]>>>> :
             x \in {y \in (1..3) \X (1..3) \X (1..3) : Cardinality({y[1], y[2], y[3]}) = 3}}

Submodules == [Base EXCEPT !.driver = "submodules", !.accum = FALSE,
                 !.reducers = <<[owner |-> "m1", sizes |-> <<1>>], [owner |-> "m2", sizes |-> <<2>>],
                                [owner |-> "np", sizes |-> <<1>>]>>,
                 !.backward = <<<<3, 1>>, <<2, 1>>, <<1, 1>>>>, !.run = {"m1", "m2"}]

Usual ==
  {Base, Loop, [Loop EXCEPT !.accum = FALSE], [Loop EXCEPT !.async = TRUE]}
  \cup {[Base EXCEPT !.zero = TRUE, !.scatter = s] : s \in BOOLEAN}
  \cup {[Async EXCEPT !.backward = o] : o \in Orders}
  \cup {[Async EXCEPT !.zero = TRUE, !.scatter = s, !.backward = CHOOSE o \in Orders : TRUE] : s \in BOOLEAN}
  \cup {[Submodules EXCEPT !.zero = z] : z \in BOOLEAN}

\* The first parallel module is not run.
Skipping == {[Submodules EXCEPT !.zero = z, !.backward = Front(@), !.run = {"m2"}] : z \in BOOLEAN}

\* Two ZeRO groups of two ranks.
Groups == {[Base EXCEPT !.ranks = 4, !.zero = TRUE, !.ngroups = 2, !.scatter = s, !.K = 1] : s \in BOOLEAN}

\* Accumulation with an asynchronous reducer but without accum_mode, an
\* asynchronous reduce scatter over two groups, and Trainer's step of a mixed
\* model: errors, never wrong gradients.
Misuse ==
  {[Loop EXCEPT !.accum = FALSE, !.async = TRUE, !.K = n] : n \in 1..2}
  \cup {[Loop EXCEPT !.async = TRUE, !.zero = TRUE, !.scatter = TRUE, !.ngroups = 2]}
  \cup {[Submodules EXCEPT !.driver = "mixed"]}

MCConfig == Usual \cup Skipping \cup Groups \cup Misuse
=============================================================================
