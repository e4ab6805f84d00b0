--------------------------- MODULE VerifierCache ---------------------------
(***************************************************************************)
(* The pickle cache of the verifier (Verdict/verdict/verifier.py,          *)
(* load_graph_w_cache and cut_stages_w_cache): verifier processes that     *)
(* share a cache directory load, or build and store, the single-device     *)
(* graph, the parallel graph and the stages, in this order.  The cache     *)
(* knows graph files by their stems, the stages by that of the parallel    *)
(* graph.  Nothing is locked: processes read, truncate, write and unlink   *)
(* the same files at the same time.  Even a process that uses no cache     *)
(* builds a graph through files under its stem (nnscaler_backend/          *)
(* build_graph.py, build_graph): its workers write the cells of each rank, *)
(* which it then reads back.  A process may be killed at any point, and a  *)
(* graph may not be serializable.                                          *)
(*                                                                         *)
(* Some definitions come in pairs (OnLoadErrorRaise, OnLoadError): the     *)
(* first is what a plausible slip would make of the second.  No action     *)
(* uses it; it is there to show that the properties tell the two apart.    *)
(***************************************************************************)
EXTENDS Naturals, FiniteSets, Sequences

CONSTANTS Runs,    \* verifier processes
          Jobs,    \* what they are started with
          Stem(_)  \* the stem of the name of a graph file

\* s, p: the two graphs, by contents; nodes, stages: the cache switches.
ASSUME CacheAssumption ==
    \A j \in Jobs : j.nodes \in BOOLEAN /\ j.stages \in BOOLEAN

Kinds == 1..3

\* The cache file of each kind for a job: snodes.pkl, pnodes.pkl, stages.pkl.
StemOf(j, k) == Stem(IF k = 1 THEN j.s ELSE j.p)
FileOf(j, k) == <<k, StemOf(j, k)>>
Stems        == {Stem(g) : g \in UNION {{j.s, j.p} : j \in Jobs}}
CacheFiles   == Kinds \X Stems

\* Where the cells of a graph pass through when it is built, and all files.
CellsOf(j, k) == <<0, StemOf(j, k)>>
Files         == (0..3) \X Stems

\* What a job is to work on: a graph, by its contents, or stages, by the graphs
\* they are cut from.
Value(j, k) == IF k = 1 THEN <<j.s>> ELSE IF k = 2 THEN <<j.p>> ELSE <<j.s, j.p>>

\* What is read of parts of several dumps, and what cannot be read.
Mixed == <<"parts", "of", "dumps">>
Torn  == <<>>

VARIABLES job,   \* of each run
          file,  \* the dumps <<run, value>> in each file; {} when it is absent
          open,  \* <<run, file>> open, and still in the directory
          view,  \* the dumps that a run reading a file sees in it
          pc, kind,
          got,   \* what each run has got of each kind, loaded or built
          met,   \* runs that another one has moved next to
          raced  \* files that were truncated while someone else had them open

vars == <<job, file, open, view, pc, kind, got, met, raced>>

\* The cache file run r is at, and the cells it builds its graph from.
FileBySingle(r) == <<kind[r], Stem(job[r].s)>>
File(r)         == FileOf(job[r], kind[r])
Cells(r)        == CellsOf(job[r], kind[r])

UsesCache(r) == IF kind[r] = 3 THEN job[r].stages ELSE job[r].nodes

Ended == {"done", "missing", "failed", "killed"}
Active(r) == pc[r] \notin Ended \cup {"start"}

----------------------------------------------------------------------------
Init ==
    /\ job \in [Runs -> Jobs]
    /\ file = [f \in Files |-> {}]
    /\ open = {}
    /\ view = [r \in Runs |-> {}]
    /\ pc = [r \in Runs |-> "start"]
    /\ kind = [r \in Runs |-> 1]
    /\ got = [r \in Runs |-> [k \in Kinds |-> Torn]]
    /\ met = {}
    /\ raced = {}

\* Run r moves on to pc p; the others that are under way have met it.
Go(r, p) ==
    /\ pc' = [pc EXCEPT ![r] = p]
    /\ met' = met \cup {q \in Runs \ {r} : Active(q)}
    /\ UNCHANGED job

Have(r, v) == got' = [got EXCEPT ![r][kind[r]] = v]

\* On to the next kind.
Onward(r) ==
    IF kind[r] < 3 THEN kind' = [kind EXCEPT ![r] = @ + 1] /\ Go(r, "check")
                   ELSE UNCHANGED kind /\ Go(r, "done")

Start(r) ==
    /\ pc[r] = "start"
    /\ Go(r, "check") /\ UNCHANGED <<file, open, view, kind, got, raced>>

\* cache_path.exists()
Check(r) ==
    /\ pc[r] = "check"
    /\ Go(r, IF UsesCache(r) /\ file[File(r)] # {} THEN "load" ELSE "build")
    /\ UNCHANGED <<file, open, view, kind, got, raced>>

\* open(cache_path, "rb")
OpenCached(r) ==
    /\ pc[r] = "load" /\ file[File(r)] # {}
    /\ open' = open \cup {<<r, File(r)>>}
    /\ view' = [view EXCEPT ![r] = file[File(r)]]
    /\ Go(r, "read") /\ UNCHANGED <<file, kind, got, raced>>

Close(r) == open' = {o \in open : o[1] # r}

\* A dump that is all there can be read, even over or under another one; of
\* several, anything may be read.
Readable(dumps) ==
    ({x[2] : x \in dumps} \ {Torn})
        \cup {m \in {Mixed} : \E x, y \in dumps : x # y}

Load(r) ==
    /\ pc[r] = "read"
    /\ \E v \in Readable(view[r]) : Have(r, v)
    /\ Onward(r) /\ Close(r) /\ view' = [view EXCEPT ![r] = {}]
    /\ UNCHANGED <<file, raced>>

\* Whatever goes wrong, the file gone before it was opened included, it is to be
\* unlinked.
OnLoadErrorRaise == "missing"
OnLoadError      == "unlink"
LoadFails(r) ==
    /\ pc[r] = "read" \/ (pc[r] = "load" /\ file[File(r)] = {})
    /\ Close(r) /\ view' = [view EXCEPT ![r] = {}]
    /\ Go(r, OnLoadError) /\ UNCHANGED <<file, kind, got, raced>>

\* The file leaves the directory; who has it open reads and writes what no one
\* else will open.
Remove(f) ==
    /\ file' = [file EXCEPT ![f] = {}]
    /\ open' = {o \in open : o[2] # f}

Unlink(r) ==
    /\ pc[r] = "unlink" /\ file[File(r)] # {}
    /\ Remove(File(r))
    /\ Go(r, "build") /\ UNCHANGED <<view, kind, got, raced>>

\* Someone else unlinked it: FileNotFoundError.
UnlinkMissing(r) ==
    /\ pc[r] = "unlink" /\ file[File(r)] = {}
    /\ Go(r, "missing") /\ UNCHANGED <<file, open, view, kind, got, raced>>

\* What run q writes to file f.
Written(q, f) == IF f[1] = 0 THEN Value(job[q], kind[q]) ELSE got[q][kind[q]]

\* File f is emptied for what run r writes.  What others that have it open write
\* still comes, and who is reading it goes on in what is there now.
Overwrite(r, f) ==
    LET others == {q \in Runs \ {r} : <<q, f>> \in open}
        dumps  == {<<q, Written(q, f)>> : q \in {w \in others : pc[w] # "read"} \cup {r}}
    IN  /\ file' = [file EXCEPT ![f] = dumps]
        /\ open' = open \cup {<<r, f>>}
        /\ view' = [q \in Runs |-> IF q \in others /\ pc[q] = "read"
                                   THEN view[q] \cup dumps ELSE view[q]]
        /\ raced' = IF others = {} THEN raced ELSE raced \cup {f}

\* One worker for each rank writes its cells, and the process waits for them.
WriteCells(r) ==
    /\ pc[r] = "build" /\ kind[r] < 3
    /\ Overwrite(r, Cells(r))
    /\ Go(r, "cells") /\ UNCHANGED <<kind, got>>

\* The graph is what is read back.  It is not stored when caching is off.
ReadCells(r) ==
    /\ pc[r] = "cells"
    /\ \E v \in Readable(file[Cells(r)]) : Have(r, v)
    /\ IF UsesCache(r) THEN Go(r, "open") /\ UNCHANGED kind ELSE Onward(r)
    /\ Close(r) /\ UNCHANGED <<file, view, raced>>

\* Whatever goes wrong with the cells ends the run.
CellsFail(r) ==
    /\ pc[r] = "cells"
    /\ Close(r) /\ Go(r, "failed") /\ UNCHANGED <<file, view, kind, got, raced>>

\* The stages are cut from the graphs at hand, and always stored.
CutStages(r) ==
    /\ pc[r] = "build" /\ kind[r] = 3
    /\ Have(r, got[r][1] \o got[r][2])
    /\ Go(r, "open") /\ UNCHANGED <<file, open, view, kind, raced>>

\* open(cache_path, "wb")
Truncate(r) ==
    /\ pc[r] = "open"
    /\ Overwrite(r, File(r))
    /\ Go(r, "dump") /\ UNCHANGED <<kind, got>>

\* pickle cannot store the graph: f.seek(0); f.truncate(), and on with dill.
Redump(r) ==
    /\ pc[r] = "dump" /\ kind[r] < 3
    /\ IF <<r, File(r)>> \in open THEN Overwrite(r, File(r))
                                  ELSE UNCHANGED <<file, open, view, raced>>
    /\ Go(r, "redump") /\ UNCHANGED <<kind, got>>

DumpStored(r) ==
    /\ pc[r] \in {"dump", "redump"}
    /\ Close(r) /\ Onward(r) /\ UNCHANGED <<file, view, got, raced>>

\* A write that stops leaves its part of the file.
Break(r) ==
    LET torn(dumps) == {IF x[1] = r THEN <<r, Torn>> ELSE x : x \in dumps}
        f == File(r)
    IN  IF <<r, f>> \in open
        THEN /\ file' = [file EXCEPT ![f] = torn(@)]
             /\ view' = [q \in Runs |-> IF <<q, f>> \in open THEN torn(view[q])
                                                          ELSE view[q]]
        ELSE UNCHANGED <<file, view>>

\* A graph that dill cannot store either is not cached.
DumpSkipped(r) ==
    /\ pc[r] = "redump"
    /\ Close(r) /\ Break(r)
    /\ Go(r, "clean") /\ UNCHANGED <<kind, got, raced>>

\* Anything else that pickle raises (RecursionError, OSError), and anything it
\* raises on the stages, ends the run.
DumpFails(r) ==
    /\ pc[r] = "dump"
    /\ Close(r) /\ Break(r)
    /\ Go(r, "failed") /\ UNCHANGED <<kind, got, raced>>

\* cache_path.unlink(), no matter whose file it is by now.
CleanNothing(f) == UNCHANGED <<file, open>>
Clean(f)        == Remove(f)

CleanUp(r) ==
    /\ pc[r] = "clean"
    /\ Clean(File(r)) /\ Onward(r) /\ UNCHANGED <<view, got, raced>>

\* A killed run may have written all there was to write.
Killed(r) ==
    /\ Active(r)
    /\ Close(r)
    /\ IF pc[r] = "read" THEN view' = [view EXCEPT ![r] = {}] /\ UNCHANGED file
                         ELSE Break(r) \/ UNCHANGED <<file, view>>
    /\ Go(r, "killed") /\ UNCHANGED <<kind, got, raced>>

Next == \E r \in Runs :
    \/ Start(r) \/ Check(r) \/ OpenCached(r) \/ Load(r) \/ LoadFails(r)
    \/ Unlink(r) \/ UnlinkMissing(r) \/ WriteCells(r) \/ ReadCells(r) \/ CellsFail(r)
    \/ CutStages(r) \/ Truncate(r) \/ Redump(r) \/ DumpStored(r) \/ DumpSkipped(r) \/ DumpFails(r) \/ CleanUp(r)
    \/ Killed(r)

Spec == Init /\ [][Next]_vars

----------------------------------------------------------------------------
(* Properties.                                                             *)

\* Files that two runs take for the cache of different values.
Disputed ==
    {f \in CacheFiles : \E q, r \in Runs, k \in Kinds :
        /\ FileOf(job[q], k) = f /\ FileOf(job[r], k) = f
        /\ Value(job[q], k) # Value(job[r], k)}

\* Something else than run r takes it for may have come into its k-th file: others
\* take the file for something else, or it, or the cells of the graph, were
\* overwritten while someone had them open.
Unsafe(r, k) ==
    \/ FileOf(job[r], k) \in Disputed \cup raced
    \/ k < 3 /\ CellsOf(job[r], k) \in raced

\* What can mislead run r: its own build of a graph if its cells are unsafe; files
\* if it uses the cache; for the stages, the graphs it has got, and with the cache
\* any of the three files, because someone else may have cut the stages.
MisledOnGraph(r, k) ==
    CellsOf(job[r], k) \in raced \/ (job[r].nodes /\ Unsafe(r, k))
Misled(r, k) ==
    IF k < 3 THEN MisledOnGraph(r, k)
    ELSE \/ MisledOnGraph(r, 1) \/ MisledOnGraph(r, 2)
         \/ job[r].stages /\ \E l \in Kinds : Unsafe(r, l)

\* Whatever others were doing to the files meanwhile, and whatever a killed or
\* failed run left in them, a run that gets through works on its own two graphs
\* and on stages cut from these, unless one of the files in question belongs to
\* different graphs of one stem, or was overwritten while someone had it open.
ServesOwnGraphs ==
    \A r \in Runs, k \in Kinds :
        pc[r] = "done" => got[r][k] = Value(job[r], k) \/ Misled(r, k)

\* A file that holds one dump, all of it, and that no one is writing.
Whole(f) ==
    /\ \E x \in file[f] : file[f] = {x} /\ x[2] # Torn
    /\ \A r \in Runs : <<r, f>> \notin open

\* When no run was killed or failed, none is under way, and none met another,
\* what is left in the cache is whole: a graph that cannot be stored leaves
\* nothing behind.
QuietCacheWhole ==
    (met = {} /\ \A r \in Runs : pc[r] \in {"start", "done", "missing"}) =>
        \A f \in CacheFiles : file[f] = {} \/ Whole(f)

\* A torn file, whoever left it, does not stop a later run that is alone.
LoneRunRecovers == \A r \in Runs : pc[r] = "missing" => r \in met
=============================================================================
