---------------------------- MODULE MCCutStages ----------------------------
(***************************************************************************)
(* Two small programs for CutStages.                                       *)
(*                                                                         *)
(* Tp: a two-way tensor-parallel layer.  On the single device n1 computes  *)
(* y, a multiref copies it and n2 consumes one copy.  On ranks a and b the *)
(* partial results ya and yb are all-reduced (g) before the multiref.      *)
(*                                                                         *)
(* Dp: the gradient of a weight under two-way data parallelism with two    *)
(* microbatches: per-rank partial gradients, local accumulation, cross-    *)
(* rank weight reducer, and the update that consumes it.  Four lineages    *)
(* have the same Ts.                                                       *)
(***************************************************************************)
EXTENDS CutStages, TLC

\* Every order of the lineages ls: a backend may list them in any.
AnyOrder(ls) ==
    {o \in [1..Cardinality(ls) -> ls] :
        \A j, k \in 1..Cardinality(ls) : o[j] = o[k] => j = k}

----------------------------------------------------------------------------
TpTensors == {"x", "w", "y", "y1", "y2", "z", "xa", "xb", "wa", "wb",
              "ya", "yb", "ga", "gb", "ga1", "ga2", "gb1", "gb2", "za", "zb"}
TpIn == [n1 |-> {"x", "w"}, m |-> {"y"}, n2 |-> {"y1"},
         p1 |-> {"xa", "wa"}, p2 |-> {"xb", "wb"},
         g1 |-> {"ya", "yb"}, g2 |-> {"ya", "yb"},
         m1 |-> {"ga"}, m2 |-> {"gb"}, q1 |-> {"ga1"}, q2 |-> {"gb1"}]
TpOut == [n1 |-> {"y"}, m |-> {"y1", "y2"}, n2 |-> {"z"},
          p1 |-> {"ya"}, p2 |-> {"yb"}, g1 |-> {"ga"}, g2 |-> {"gb"},
          m1 |-> {"ga1", "ga2"}, m2 |-> {"gb1", "gb2"},
          q1 |-> {"za"}, q2 |-> {"zb"}]
TpNodes == DOMAIN TpIn
TpInitialized == {"x", "w", "xa", "xb", "wa", "wb"}
TpTs == [X |-> "x", W |-> "w", Y |-> "y", A1 |-> "y1", A2 |-> "y2", Z |-> "z"]
TpTps == [X |-> {"xa", "xb"}, W |-> {"wa", "wb"}, Y |-> {"ya", "yb"},
          A1 |-> {"ga1", "gb1"}, A2 |-> {"ga2", "gb2"}, Z |-> {"za", "zb"}]
TpSample == [X |-> "xa", W |-> "wa", Y |-> "ya", A1 |-> "ga1", A2 |-> "ga2",
             Z |-> "za"]
TpLineages == DOMAIN TpTs
TpKnownNodes == [Y |-> {"n1", "p1", "p2"}, Z |-> {"n2", "q1", "q2"}]
TpDependency == [Y |-> {"X", "W"}, Z |-> {"A1"}]
TpKnown == DOMAIN TpKnownNodes
\* x and w are the inputs of the program: their lineages come first.
TpOrders == {o \in AnyOrder(TpLineages) : o[1] = "X" /\ o[2] = "W"}

----------------------------------------------------------------------------
DpTensors == {"d", "gw", "u", "da0", "da1", "db0", "db1", "a0", "a1", "a2",
              "a3", "b0", "b1", "b2", "b3", "ua", "ub"}
DpIn == [bw |-> {"d"}, ba0 |-> {"da0"}, ba1 |-> {"da1"}, bb0 |-> {"db0"},
         bb1 |-> {"db1"}, acca |-> {"a0", "a1"}, accb |-> {"b0", "b1"},
         reda |-> {"a2", "b2"}, redb |-> {"a2", "b2"},
         upd |-> {"gw"}, upa |-> {"a3"}, upb |-> {"b3"}]
DpOut == [bw |-> {"gw"}, ba0 |-> {"a0"}, ba1 |-> {"a1"}, bb0 |-> {"b0"},
          bb1 |-> {"b1"}, acca |-> {"a2"}, accb |-> {"b2"},
          reda |-> {"a3"}, redb |-> {"b3"},
          upd |-> {"u"}, upa |-> {"ua"}, upb |-> {"ub"}]
DpNodes == DOMAIN DpIn
DpInitialized == {"d", "da0", "da1", "db0", "db1"}
\* R restates G3 for rank a alone: its stage is empty once G3 is verified.
DpTs == [D |-> "d", G1 |-> "gw", G2 |-> "gw", G3 |-> "gw", R |-> "gw",
         U |-> "u"]
DpTps == [D |-> {"da0", "da1", "db0", "db1"}, G1 |-> {"a0", "a1", "b0", "b1"},
          G2 |-> {"a2", "b2"}, G3 |-> {"a3", "b3"}, R |-> {"a3"},
          U |-> {"ua", "ub"}]
DpSample == [D |-> "da0", G1 |-> "a0", G2 |-> "a2", G3 |-> "a3", R |-> "a3",
             U |-> "ua"]
DpLineages == DOMAIN DpTs
DpKnownNodes == [G1 |-> {"bw", "ba0", "ba1", "bb0", "bb1"},
                 G3 |-> {"reda", "redb"}]
DpDependency == [G1 |-> {"D"}, G3 |-> {"G2"}]
DpKnown == DOMAIN DpKnownNodes
\* d is an input of the program: its lineage comes first; the update or the
\* restated gradient comes last (a bound).
DpOrders == {o \in AnyOrder(DpLineages) : o[1] = "D" /\ o[6] \in {"U", "R"}}

----------------------------------------------------------------------------
(* Both programs: a list is of the lineages of one of them.                *)
MCTensors == TpTensors \cup DpTensors
MCIn == TpIn @@ DpIn
MCOut == TpOut @@ DpOut
MCNodes == DOMAIN MCIn
MCInitialized == TpInitialized \cup DpInitialized
MCTs == TpTs @@ DpTs
MCTps == TpTps @@ DpTps
MCSample == TpSample @@ DpSample
MCLineages == DOMAIN MCTs
MCKnownNodes == TpKnownNodes @@ DpKnownNodes
MCDependency == TpDependency @@ DpDependency
MCKnown == DOMAIN MCKnownNodes
MCOrders == TpOrders \cup DpOrders
=============================================================================
