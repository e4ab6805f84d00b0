--------------------------- MODULE MCRankDataflow ---------------------------
(***************************************************************************)
(* Programs for RankDataflow: one pipeline stage of one rank that runs two *)
(* microbatches of a layer with weights w and u, in every order in which a *)
(* microbatch goes forward before it goes backward (up to renaming).       *)
(***************************************************************************)
EXTENDS RankDataflow

\* A tensor is named by its tid and its microbatch, -1 for weights and their
\* gradients.
w  == <<"w", -1>>
u  == <<"u", -1>>
e  == <<"e", -1>>
gw == <<"gw", -1>>
gu == <<"gu", -1>>
MCWeightIds == {w, u, e}
MCIds == MCWeightIds \cup {gw, gu}
         \cup ({"x", "y", "c", "l", "dx", "dy", "ds", "dz"} \X {1, 2})

Op(op, ins, outs, regs) ==
    [op |-> op, regs |-> regs,
     ins |-> [k \in DOMAIN ins |-> Plain(ins[k])],
     outs |-> [k \in DOMAIN outs |-> Plain(outs[k])]]

\* A step of the schedule: forward or backward, and the microbatch.
Schedules == {<<<<"F", 1>>, <<"F", 2>>, <<"B", 1>>, <<"B", 2>>>>,
           <<<<"F", 1>>, <<"F", 2>>, <<"B", 2>>, <<"B", 1>>>>,
           <<<<"F", 1>>, <<"B", 1>>, <<"F", 2>>, <<"B", 2>>>>}

\* pipe: the layer is all there is, or the first or last of two pipeline stages,
\* with the output, or the input's gradient, sent on; chunk: the layer
\* splits its output twice; mref: its output has a second consumer that never
\* computes a gradient; identity: an adapter copies the output onto itself;
\* residual: the input has a second consumer, whose gradient is added.
Variants == [pipe : {"no", "first", "last"}, chunk : BOOLEAN, mref : BOOLEAN, identity : BOOLEAN,
             residual : BOOLEAN]

When(b, cell) == IF b THEN <<cell>> ELSE <<>>

BothGrads == <<<<w, gw>>, <<u, gu>>>>

Forward(v, m) ==
    LET x == <<"x", m>>  y == <<"y", m>>  c == <<"c", m>>
    IN  <<Op("load", <<>>, <<IF v.pipe = "last" THEN <<"l", m>> ELSE x>>, <<>>)>>
        \o When(v.pipe = "last", Op("recv", <<>>, <<x>>, <<>>))
        \o <<Op("fw", <<x, w, u>>, <<y>>, BothGrads)>>
        \o When(v.identity, Op("identity", <<y>>, <<y>>, <<>>))
        \o When(v.chunk, Op("chunk", <<y>>, <<c>>, <<>>))
        \o When(v.chunk, Op("chunk", <<y>>, <<c>>, <<>>))
        \o When(v.pipe = "first", Op("send", <<y>>, <<>>, <<>>))

Backward(v, m) ==
    LET x == <<"x", m>>  y == <<"y", m>>
        dx == <<"dx", m>>  dy == <<"dy", m>>
        last == <<IF v.mref THEN "ds" ELSE "dy", m>>
    IN  <<IF v.pipe = "first" THEN Op("recv", <<>>, <<last>>, <<>>)
                    ELSE Op("bw", <<<<"l", m>>, y>>, <<last>>, <<>>)>>
        \o When(v.mref, Op("mref", <<last, <<"dz", m>>>>, <<dy>>, <<>>))
        \o When(v.residual, Op("bw", <<dy, x>>, <<dx>>, <<>>))
        \o <<Op("bw", <<dy, x, w, u>>, <<dx, gw, gu>>, BothGrads)>>
        \o When(v.pipe = "last", Op("send", <<dx>>, <<>>, <<>>))

Half(v, s) == IF s[1] = "F" THEN Forward(v, s[2]) ELSE Backward(v, s[2])

\* The optimizer step reduces both weights in one bucket.
Bucket == Op("wred", <<w, u>>, <<>>, <<>>)

Iteration(v, o) ==
    [pp |-> IF v.pipe = "last" THEN 1 ELSE 0,
     cells |-> FlattenSeq([k \in DOMAIN o |-> Half(v, o[k])]) \o <<Bucket>>]

\* A weight that only a Python helper reads has no registered gradient.
Unregistered ==
    [pp |-> 0,
     cells |-> <<Op("py", <<e>>, <<<<"y", 1>>>>, <<>>), Op("wred", <<e>>, <<>>, <<>>)>>]

MCPrograms == {Iteration(v, o) : v \in Variants, o \in Schedules} \cup {Unregistered}
=============================================================================
