----------------------------- MODULE CodeReuse -----------------------------
(***************************************************************************)
(* Generated code that outlives its process (nnscaler/parallel.py,         *)
(* parallelize): the first rank traces a module and generates one program  *)
(* per rank into a directory, or takes over what earlier calls have left   *)
(* there; new files are sent to the other nodes, and every rank loads its  *)
(* program.  Any step of a call may raise, and a job may be killed.        *)
(*                                                                         *)
(* One rank per node.  The nodes share one directory and send nothing, or  *)
(* each has its own and all new files are sent (the two uses that the      *)
(* documentation recommends).                                              *)
(*                                                                         *)
(* Some definitions come in pairs (KeptGraph, KeptTrace): the first is     *)
(* what a plausible slip would make of the second.  No action uses it; it  *)
(* is there to show that the properties tell the two apart.                *)
(***************************************************************************)
EXTENDS Naturals, Functions

CONSTANTS Nodes,     \* their number
          Confs,     \* compute configs: .graph is graph_config, .plan the rest
          MaxCalls,  \* calls of parallelize (a bound)
          MaxCuts    \* calls cut short inside a step (a bound)

ASSUME ReuseAssumption == Nodes \in Nat \ {0} /\ MaxCalls \in Nat /\ MaxCuts \in Nat

Node == 1..Nodes

\* The files are numbered in the order in which a generation writes them.
Config  == 0
Meta    == 1    \* origin_module_metadata
Weights == 2    \* fullmodel
Map     == 3    \* dist_param_map
Graph   == 4
Args    == 5    \* forward_args
Code(r) == Args + r
Final   == Args + Nodes + 1

TraceFiles == Meta..Args
Python     == {Code(r) : r \in Node}
Files      == Config..Final

Reuses == {"match", "override", "moo", "graph"}

VARIABLES own,      \* each node has its own directory (fixed)
          dir,      \* of each node: what the files in it contain
          phase, call, todo,
          loaded,   \* by the process of each rank: what it has read; empty: nothing
          calls, cuts,
          unsent,   \* files written since they were last sent, when they are sent at all
          half,     \* a directory was once cleaned in part, and never whole since
          outcome   \* of the last call

vars == <<own, dir, phase, call, todo, loaded, calls, cuts, unsent, half, outcome>>

\* A file is known by the config it was made for, the call whose trace it
\* belongs to, and whether it was written to its end.
Put(d, f, c) == [g \in DOMAIN d \cup {f} |-> IF g = f THEN c ELSE d[g]]
New(f) == [conf  |-> call.conf,
           trace |-> CASE f = Config -> 0
                       [] f \in TraceFiles -> calls
                       [] OTHER -> dir[1][Graph].trace,
           whole |-> TRUE]
Part(f) == [New(f) EXCEPT !.whole = FALSE]

Present == DOMAIN dir[1]
Whole(f) == f \in Present /\ dir[1][f].whole
Dir(n)  == dir[IF own THEN n ELSE 1]
Empty   == [n \in Node |-> <<>>]
InUse   == loaded[1] # <<>>

(***************************************************************************)
(* What a call finds: a config that cannot be read matches nothing.        *)
(***************************************************************************)
ConfigMatches(c) == Whole(Config) /\ dir[1][Config].conf = c
GraphMatches(c)  == Whole(Config) /\ dir[1][Config].conf.graph = c.graph
PlanMatches(c)   == Whole(Config) /\ dir[1][Config].conf.plan = c.plan

\* Every expected file and, by their number, no other.
Complete(c) == ConfigMatches(c) /\ Present = Files \ {Final}
\* "No python source code is generated, which means its last generation failed."
Continues(c) == ConfigMatches(c) /\ Present \cap Python = {}
Traced == {Weights, Map} \subseteq Present

RefusedNotInUse(c, reuse) ==
    reuse = "match" /\ Present # {} /\ ~Complete(c) /\ ~Continues(c)

Refused(c, reuse) ==
    \/ reuse \in {"match", "moo"} /\ Present # {} /\ ~Complete(c) /\ ~Continues(c)
       /\ (reuse = "match" \/ InUse)
    \/ reuse \in {"override", "graph"} /\ InUse

Reusable(c, reuse) == reuse \in {"match", "moo"} /\ Complete(c)

StaleByPlan(c, reuse) ==
    CASE reuse = "override" -> Files
      [] reuse = "graph" -> IF PlanMatches(c) /\ Traced THEN Python ELSE Files
      [] reuse \in {"match", "moo"} /\ Continues(c) -> IF Traced THEN {} ELSE Files
      [] OTHER -> IF PlanMatches(c) THEN Python ELSE Files

\* The files a call removes before it generates.
Stale(c, reuse) ==
    CASE reuse = "override" -> Files
      [] reuse = "graph" -> IF GraphMatches(c) /\ Traced THEN Python ELSE Files
      [] reuse \in {"match", "moo"} /\ Continues(c) -> IF Traced THEN {} ELSE Files
      [] OTHER -> IF GraphMatches(c) THEN Python ELSE Files

\* The trace is kept when these are left.
KeptGraph == {Graph}
KeptTrace == {Graph, Args, Meta}

(***************************************************************************)
(* A call of parallelize.                                                  *)
(***************************************************************************)
Init ==
    /\ own \in BOOLEAN /\ dir = Empty /\ loaded = Empty
    /\ phase = "idle" /\ todo = {} /\ outcome = "none"
    /\ call \in [conf : Confs, reuse : {"match"}, stale : {{}}, traced : {FALSE}]
    /\ calls = 0 /\ cuts = 0 /\ unsent = {} /\ half = FALSE

Begin(c, reuse) ==
    /\ phase = "idle" /\ calls < MaxCalls
    /\ calls' = calls + 1
    /\ call' = [conf |-> c, reuse |-> reuse, stale |-> Stale(c, reuse), traced |-> FALSE]
    /\ \/ /\ Refused(c, reuse)
          /\ outcome' = "refused" /\ phase' = "idle"
       \/ /\ Reusable(c, reuse)
          /\ outcome' = "none" /\ phase' = "load"
       \/ /\ ~Refused(c, reuse) /\ ~Reusable(c, reuse)
          /\ outcome' = "none" /\ phase' = "clean"
    /\ UNCHANGED <<own, dir, todo, loaded, cuts, unsent, half>>

\* The files go one after the other, but nobody looks before all are gone.
Clean ==
    /\ phase = "clean"
    /\ dir' = [dir EXCEPT ![1] = Restrict(@, DOMAIN @ \ call.stale)]
    /\ LET traced == ~(KeptTrace \subseteq DOMAIN dir'[1]) IN
        /\ call' = [call EXCEPT !.traced = traced]
        /\ todo' = IF traced THEN Files ELSE Files \ TraceFiles
    /\ half' = (half /\ call.stale # Files)
    /\ phase' = "write"
    /\ UNCHANGED <<own, loaded, calls, cuts, unsent, outcome>>

First(f) == f \in todo /\ \A g \in todo : f <= g

\* A trace that is kept has to be read before code can be generated from it.
Readable == call.traced \/ Config \in todo \/ (Whole(Graph) /\ Whole(Args))

Write ==
    /\ phase = "write" /\ Readable
    /\ \E f \in todo :
        /\ First(f)
        /\ dir' = [dir EXCEPT ![1] = Put(@, f, New(f))]
        /\ unsent' = IF own THEN unsent \cup {f} ELSE {}
        /\ todo' = todo \ {f}
    /\ UNCHANGED <<own, phase, call, loaded, calls, cuts, half, outcome>>

\* Reused files are never sent: with a kept trace, code and config only.
ToSend == {f \in Present : call.traced \/ f \in Python \cup {Config}}

Generated ==
    /\ phase = "write" /\ todo = {}
    /\ phase' = IF own THEN "send" ELSE "load"
    /\ todo' = IF own THEN ToSend ELSE {}
    /\ UNCHANGED <<own, dir, call, loaded, calls, cuts, unsent, half, outcome>>

\* The other nodes receive a file.
Receive(f, c) == [n \in Node |-> IF n = 1 THEN dir[1] ELSE Put(dir[n], f, c)]

Send ==
    /\ phase = "send"
    /\ \E f \in todo :
        /\ First(f)
        /\ dir' = Receive(f, dir[1][f])
        /\ unsent' = unsent \ {f}
        /\ todo' = todo \ {f}
    /\ UNCHANGED <<own, phase, call, loaded, calls, cuts, half, outcome>>

Sent == /\ phase = "send" /\ todo = {}
        /\ phase' = "load"
        /\ UNCHANGED <<own, dir, call, todo, loaded, calls, cuts, unsent, half, outcome>>

(***************************************************************************)
(* Loading: a program is imported once per process; it reads the other     *)
(* files whenever it is instantiated.  A program that is cut short may     *)
(* still be imported, when only its schedule is missing.                   *)
(***************************************************************************)
Data == {Config, Meta, Weights, Map}
Needs(n) == Data \cup {Code(n)}
Needed == UNION {Needs(n) : n \in Node}
Read(n) == [f \in Needs(n) |-> IF f \in DOMAIN loaded[n] /\ f \in Python
                               THEN loaded[n][f] ELSE Dir(n)[f]]

Load ==
    /\ phase = "load"
    /\ \A n \in Node : Needs(n) \subseteq DOMAIN Dir(n) /\ \A f \in Data : Dir(n)[f].whole
    /\ loaded' = [n \in Node |-> Read(n)]
    /\ phase' = "idle" /\ outcome' = "loaded"
    /\ UNCHANGED <<own, dir, call, todo, calls, cuts, unsent, half>>

\* load_module = False.
Return == /\ phase = "load"
          /\ phase' = "idle" /\ outcome' = "done"
          /\ UNCHANGED <<own, dir, call, todo, loaded, calls, cuts, unsent, half>>

(***************************************************************************)
(* Calls that end early.  The other ranks wait in a barrier, so the job    *)
(* ends with them.                                                         *)
(***************************************************************************)
Stop(o) == /\ phase' = "idle" /\ todo' = {} /\ loaded' = Empty /\ outcome' = o
           /\ UNCHANGED <<own, call, calls>>

Unreadable == /\ phase = "write" /\ todo # {} /\ ~Readable
              /\ Stop("broken") /\ UNCHANGED <<dir, cuts, unsent, half>>

LoadFails == /\ phase = "load"
             /\ \E n \in Node : \E f \in Needs(n) : f \in DOMAIN Dir(n) => ~Dir(n)[f].whole
             /\ Stop("broken") /\ UNCHANGED <<dir, cuts, unsent, half>>

\* Tracing, the policy or the generation of code raises between two files.
Fail == /\ phase = "write" /\ todo # {}
        /\ Stop("failed") /\ UNCHANGED <<dir, cuts, unsent, half>>

\* A node that is sent a file may have it, part of it, or what it had.
ReceivePart(f, c, got, part) ==
    [n \in Node |-> CASE n \in got \ {1}  -> Put(dir[n], f, c)
                      [] n \in part \ ({1} \cup got) -> Put(dir[n], f, [c EXCEPT !.whole = FALSE])
                      [] OTHER -> dir[n]]

Interrupted ==
    \/ phase = "clean" /\ \E S \in SUBSET (Present \cap call.stale) :
                              dir' = [dir EXCEPT ![1] = Restrict(@, DOMAIN @ \ S)]
    \/ phase = "write" /\ Readable
       /\ \E f \in todo : First(f) /\ dir' = [dir EXCEPT ![1] = Put(@, f, Part(f))]
    \/ phase = "send"
       /\ \E f \in todo, got, part \in SUBSET Node :
              First(f) /\ dir' = ReceivePart(f, dir[1][f], got, part)
    \/ phase # "clean" /\ UNCHANGED dir

\* The job is killed, or something raises, in the middle of a step: a file cannot
\* be removed, written or sent, or a program has been written but for its schedule.
CutShort ==
    /\ phase # "idle" /\ cuts < MaxCuts
    /\ cuts' = cuts + 1
    /\ half' = (half \/ phase = "clean")
    /\ Interrupted /\ Stop("cut") /\ UNCHANGED unsent

Restart == /\ phase = "idle" /\ loaded # Empty
           /\ loaded' = Empty /\ outcome' = "none"
           /\ UNCHANGED <<own, dir, phase, call, todo, calls, cuts, unsent, half>>

Next ==
    \/ \E c \in Confs, reuse \in Reuses : Begin(c, reuse)
    \/ Clean \/ Write \/ Generated \/ Send \/ Sent
    \/ Load \/ Return \/ Unreadable \/ LoadFails \/ Fail \/ CutShort \/ Restart

Spec == Init /\ [][Next]_vars

(***************************************************************************)
(* Properties.                                                             *)
(***************************************************************************)
Together ==
    \A n \in Node :
        /\ \A f \in Needs(n) : loaded[n][f].whole /\ loaded[n][f].conf.graph = call.conf.graph
        /\ \A f \in {Config, Code(n)} : loaded[n][f].conf = call.conf
        /\ \A f \in Needs(n) \ {Config} : loaded[n][f].trace = loaded[1][Weights].trace

\* All ranks load programs for the config of the call and data of one trace,
\* whatever earlier calls were given and wherever they ended.  Unless everything is
\* regenerated, this is not so after a call that ended before its new files were
\* sent, after one that was cut short in its cleanup, and of a program that was cut
\* short itself.
Trusted ==
    \/ call.reuse = "override"
    \/ /\ unsent \cap Needed = {}
       /\ ~half
       /\ \A n \in Node : Dir(n)[Code(n)].whole
LoadedTogether == [][Load /\ Trusted => Together']_vars

\* "MATCH: reuse if present and match, error if present but not match": a call
\* with it leaves code as it is, and so does every call of a process that has
\* loaded the code.
CodeKept ==
    [][\A f \in Python \cap Present :
         InUse \/ call'.reuse = "match" => f \in DOMAIN dir'[1] /\ dir'[1][f] = dir[1][f]]_vars

\* OVERRIDE gets out of every state of a directory: it is refused only by a process
\* that has loaded the code, and never broken by what it finds.  The other flags
\* but MATCH are refused by such a process alone, too; and a call that is not
\* refused is broken by what it finds only if one before it was cut short inside
\* a step or ended before its new files were sent.
NeverStuck ==
    /\ outcome = "refused" => call.reuse = "match" \/ InUse
    /\ outcome = "broken" => call.reuse # "override" /\ (cuts > 0 \/ unsent \cap Needed # {})

\* "MATCH: reuse if present and match" (the comment on ReuseType, the documentation
\* and a test): a call with it is not refused where every file of a generation for
\* its config is there, whole.  It always is: the last file of a generation, the
\* final graph, is not among the files that are expected, and these are counted.
MatchReuses ==
    outcome = "refused" /\ call.reuse = "match" =>
        ~(ConfigMatches(call.conf) /\ \A f \in Files : Whole(f))
=============================================================================
