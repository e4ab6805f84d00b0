------------------------ MODULE VerifierCacheProofs ------------------------
(***************************************************************************)
(* Proofs about VerifierCache, for every set of processes, every set of    *)
(* jobs and every naming of the graphs.                                    *)
(*                                                                         *)
(* That a process works on its own graphs is a fact about the files: in a  *)
(* file that is in no dispute and was never overwritten while open, there  *)
(* is at most one dump, and it is of the one value that all who use the    *)
(* file take it for.  The stages of a process need this of all its files,  *)
(* since another one may have cut them from what it had loaded.            *)
(* What a process that nobody has met can rely on, and leaves behind,      *)
(* needs who is under way.                                                 *)
(***************************************************************************)
EXTENDS VerifierCache, FiniteSetTheorems, SequenceTheorems, TLAPS

Graphs == UNION {{j.s, j.p} : j \in Jobs}
Values == Seq(Graphs \cup {"parts", "of", "dumps"})
Dumps  == Runs \X Values
Places == {"start", "check", "load", "read", "unlink", "build", "cells", "open",
           "dump", "redump", "clean"} \cup Ended

TypeOK ==
    /\ job \in [Runs -> Jobs]
    /\ file \in [Files -> SUBSET Dumps]
    /\ open \subseteq Runs \X Files
    /\ view \in [Runs -> SUBSET Dumps]
    /\ pc \in [Runs -> Places]
    /\ kind \in [Runs -> Kinds]
    /\ got \in [Runs -> [Kinds -> Values]]
    /\ met \subseteq Runs
    /\ raced \subseteq Files

\* No one can have stored anything but what run r takes for its own under the k-th
\* file: for the stages, this takes all three of its files.
Safe(r, k) == IF k < 3 THEN ~ Unsafe(r, k) ELSE \A l \in Kinds : ~ Unsafe(r, l)

\* At most one dump, which is torn or of value v.
Only(dumps, v) == /\ \A x, y \in dumps : x = y
                  /\ \A x \in dumps : x[2] \in {Torn, v}

Stored == \A r \in Runs, k \in Kinds :
    Safe(r, k) => Only(file[FileOf(job[r], k)], Value(job[r], k))

Viewed == \A r \in Runs :
    Safe(r, kind[r]) => Only(view[r], Value(job[r], kind[r]))

\* What a run has got, or holds to be stored, is its own unless it was misled.
Holding == {"open", "dump", "redump", "clean"}

Own(r, k) == got[r][k] # Torn /\ (got[r][k] = Value(job[r], k) \/ Misled(r, k))

Progress == \A r \in Runs, k \in Kinds :
    \/ k < kind[r] \/ pc[r] = "done" \/ (k = kind[r] /\ pc[r] \in Holding)
    => Own(r, k)

\* Who has a file open is at it, and only who is reading sees anything.
Opened ==
    /\ \A r \in Runs, f \in Files : <<r, f>> \in open =>
          \/ pc[r] \in {"read", "dump", "redump"} /\ f = File(r)
          \/ pc[r] = "cells" /\ f = Cells(r)
    /\ \A r \in Runs : pc[r] # "read" => view[r] = {}
    /\ \A r \in Runs : pc[r] \in {"load", "read"} => UsesCache(r)

\* The cells of a run that is building a graph are its own and nobody else's,
\* unless they have been overwritten.
Celled ==
    \A r \in Runs : pc[r] = "cells" =>
        /\ kind[r] < 3 /\ <<r, Cells(r)>> \in open
        /\ \/ Cells(r) \in raced
           \/ file[Cells(r)] = {<<r, Value(job[r], kind[r])>>}

\* A run that nobody has met is the only one under way ...
Alone == met = {} => \A q, r \in Runs : Active(q) /\ Active(r) => q = r

\* ... and the file it has found is still there.
Found ==
    \A r \in Runs : pc[r] \in {"load", "read", "unlink"} /\ r \notin met
                    => file[File(r)] # {}

\* While none has met another, killed or failed, each file is absent or one
\* dump, except the one at which a run is cleaning up.
OneDump(f) == \E x \in file[f] : file[f] = {x} /\ x[2] # Torn

Settled ==
    met = {} /\ (\A r \in Runs : pc[r] \notin {"failed", "killed"}) =>
        \A f \in CacheFiles : \/ file[f] = {} \/ OneDump(f)
                              \/ \E r \in Runs : f = File(r) /\ pc[r] = "clean"

IInv == /\ TypeOK /\ Stored /\ Viewed /\ Progress /\ Opened /\ Celled /\ Alone
        /\ Found /\ Settled /\ LoneRunRecovers

----------------------------------------------------------------------------
(* Files and values.                                                       *)

USE CacheAssumption DEF Kinds

LEMMA FileIsOfJob ==
    ASSUME TypeOK, NEW r \in Runs
    PROVE  /\ job[r] \in Jobs /\ kind[r] \in Kinds
           /\ File(r) = FileOf(job[r], kind[r]) /\ Cells(r) = CellsOf(job[r], kind[r])
           /\ File(r) \in CacheFiles /\ Cells(r) \in Files \ CacheFiles
           /\ \A k \in Kinds : FileOf(job[r], k) \in CacheFiles
           /\ CacheFiles \subseteq Files
<1>1. job[r] \in Jobs /\ kind[r] \in Kinds
  BY DEF TypeOK
<1>2. \A k \in Kinds : StemOf(job[r], k) \in Stems
  BY <1>1 DEF StemOf, Stems
<1>3. \A k \in Kinds : /\ FileOf(job[r], k) \in CacheFiles
                       /\ CellsOf(job[r], k) \in Files \ CacheFiles
  BY <1>2 DEF FileOf, CellsOf, CacheFiles, Files
<1>4. CacheFiles \subseteq Files
  BY DEF CacheFiles, Files
<1> QED BY <1>1, <1>3, <1>4 DEF File, Cells

LEMMA ValueTyped ==
    ASSUME NEW j \in Jobs, NEW k \in Kinds
    PROVE  Value(j, k) \in Values /\ Value(j, k) # Torn
<1>1. j.s \in Graphs /\ j.p \in Graphs
  BY DEF Graphs
<1>2. CASE k = 1
  BY <1>1, <1>2 DEF Value, Values, Torn
<1>3. CASE k = 2
  BY <1>1, <1>3 DEF Value, Values, Torn
<1>4. CASE k = 3
  BY <1>1, <1>4 DEF Value, Values, Torn
<1> QED BY <1>2, <1>3, <1>4

\* Who shares a safe file with a run takes it for the same value.
LEMMA Shared ==
    ASSUME TypeOK, NEW q \in Runs, NEW r \in Runs, NEW k \in Kinds, NEW l \in Kinds,
           Safe(q, k), FileOf(job[q], k) = FileOf(job[r], l)
    PROVE  k = l /\ Value(job[q], k) = Value(job[r], k) /\ Safe(r, k)
<1>1. k = l
  BY DEF FileOf
<1>2. FileOf(job[q], k) \in CacheFiles
  BY FileIsOfJob
<1>3. ~ Unsafe(q, k)
  BY DEF Safe
<1>4. Value(job[q], k) = Value(job[r], k)
  BY <1>1, <1>2, <1>3 DEF Unsafe, Disputed
<1>5. CASE k < 3
  <2>1. CellsOf(job[q], k) = CellsOf(job[r], k)
    BY <1>1 DEF FileOf, CellsOf
  <2> QED BY <1>1, <1>3, <1>4, <1>5, <2>1 DEF Safe, Unsafe
<1>6. CASE k = 3
  <2>1. job[q].s = job[r].s /\ job[q].p = job[r].p
    BY <1>4, <1>6 DEF Value
  <2>2. \A m \in Kinds : /\ FileOf(job[q], m) = FileOf(job[r], m)
                         /\ CellsOf(job[q], m) = CellsOf(job[r], m)
    BY <2>1 DEF FileOf, CellsOf, StemOf
  <2> QED BY <1>1, <1>4, <1>6, <2>2 DEF Safe, Unsafe
<1> QED BY <1>1, <1>4, <1>5, <1>6

\* A sequence of two parts is one of the whole.
LEMMA ConcatSingles == ASSUME NEW a, NEW b PROVE <<a>> \o <<b>> = <<a, b>>
<1> DEFINE S == {a, b}
<1>1. /\ <<a>> \in Seq(S) /\ <<b>> \in Seq(S) /\ <<a, b>> \in Seq(S)
      /\ Len(<<a>>) = 1 /\ Len(<<b>>) = 1 /\ Len(<<a, b>>) = 2
  OBVIOUS
<1> HIDE DEF S
<1>2. /\ <<a>> \o <<b>> \in Seq(S) /\ Len(<<a>> \o <<b>>) = 2
      /\ (<<a>> \o <<b>>)[1] = a /\ (<<a>> \o <<b>>)[2] = b
  BY <1>1, ConcatProperties
<1>3. \A i \in 1..2 : (<<a>> \o <<b>>)[i] = <<a, b>>[i]
  BY <1>2
<1> QED BY <1>1, <1>2, <1>3, SeqEqual

\* Only an unsafe file misleads.
LEMMA SafeIsOwn ==
    ASSUME NEW r \in Runs, NEW k \in Kinds, Safe(r, k)
    PROVE  ~ Misled(r, k)
BY DEF Safe, Misled, MisledOnGraph, Unsafe

\* The stages are cut from the graphs at hand, so they are the run's own unless a
\* graph at hand is another's.
LEMMA CutIsOwn ==
    ASSUME TypeOK, Progress, NEW r \in Runs, kind[r] = 3,
           NEW v, v = got[r][1] \o got[r][2]
    PROVE  /\ v \in Values /\ v # Torn
           /\ v = Value(job[r], 3) \/ Misled(r, 3)
<1>1. /\ got[r][1] \in Values /\ got[r][2] \in Values /\ got[r][1] # <<>>
      /\ Own(r, 1) /\ Own(r, 2)
  BY DEF TypeOK, Progress, Own, Torn
<1>2. PICK n \in Nat : n = Len(got[r][1]) /\ n > 0
  <2>1. Len(got[r][1]) \in Nat
    BY <1>1 DEF Values
  <2>2. Len(got[r][1]) # 0
    BY <1>1, EmptySeq DEF Values
  <2> QED BY <2>1, <2>2
<1>3. v \in Values /\ Len(v) # 0
  <2>1. PICK m \in Nat : m = Len(got[r][2])
    BY <1>1 DEF Values
  <2>2. got[r][1] \o got[r][2] \in Values /\ Len(got[r][1] \o got[r][2]) = n + m
    BY <1>1, <1>2, <2>1, ConcatProperties DEF Values
  <2> QED BY <1>1, <1>2, <2>2
<1>4. v # Torn
  <2>1. Len(<<>>) = 0
    OBVIOUS
  <2> QED BY <1>3, <2>1, Zenon DEF Torn
<1>5. ASSUME ~ Misled(r, 3) PROVE v = Value(job[r], 3)
  <2>1. ~ Misled(r, 1) /\ ~ Misled(r, 2)
    BY <1>5 DEF Misled
  <2>2. got[r][1] = <<job[r].s>> /\ got[r][2] = <<job[r].p>>
    BY <1>1, <2>1 DEF Own, Value
  <2>3. <<job[r].s>> \o <<job[r].p>> = <<job[r].s, job[r].p>>
    BY ConcatSingles
  <2> QED BY <1>1, <2>2, <2>3 DEF Value
<1> QED BY <1>3, <1>4, <1>5

\* What is read is not torn, and of at most one dump nothing else is read.
LEMMA ReadableTyped ==
    ASSUME NEW D \in SUBSET Dumps, NEW v \in Readable(D)
    PROVE  v \in Values /\ v # Torn
<1>1. Mixed \in Values /\ Mixed # Torn
  BY DEF Mixed, Torn, Values
<1>2. \A x \in D : x[2] \in Values
  BY DEF Dumps
<1> QED BY <1>1, <1>2 DEF Readable

LEMMA ReadableIsValue ==
    ASSUME NEW D \in SUBSET Dumps, NEW v \in Readable(D), NEW w, Only(D, w)
    PROVE  v = w
<1>1. \A x, y \in D : x = y
  BY DEF Only
<1>2. v \in {x[2] : x \in D} /\ v # Torn
  BY <1>1 DEF Readable
<1> QED BY <1>2 DEF Only

LEMMA InitInv == Init => IInv
<1> SUFFICES ASSUME Init PROVE IInv
  OBVIOUS
<1> USE DEF Init
<1>1. TypeOK
  <2>1. Torn \in Values
    BY DEF Torn, Values
  <2> QED BY <2>1 DEF TypeOK, Places
<1>2. Stored /\ Viewed
  <2>1. \A r \in Runs, k \in Kinds : FileOf(job[r], k) \in Files
    BY <1>1, FileIsOfJob, Zenon
  <2> QED BY <2>1 DEF Stored, Viewed, Only
<1>3. Progress /\ Opened /\ Celled
  BY DEF Progress, Holding, Opened, Celled
<1>4. Alone /\ Found /\ Settled /\ LoneRunRecovers
  BY FileIsOfJob DEF Alone, Active, Found, Settled, LoneRunRecovers, CacheFiles, Files
<1> QED BY <1>1, <1>2, <1>3, <1>4 DEF IInv

----------------------------------------------------------------------------
(* What every step of a run has in common.                                 *)

\* A step to place p keeps jobs and other runs, and has met all who are under way.
LEMMA GoMeets ==
    ASSUME TypeOK, Alone, NEW r \in Runs, NEW p \in Places, Go(r, p)
    PROVE  /\ job' = job /\ pc' \in [Runs -> Places]
           /\ pc'[r] = p /\ \A q \in Runs : q # r => pc'[q] = pc[q]
           /\ met \subseteq met' /\ met' \subseteq Runs
           /\ \A q \in Runs : q # r /\ Active(q) => q \in met'
           /\ r \in met' => r \in met
           /\ Alone'
<1>1. /\ job' = job /\ pc' \in [Runs -> Places]
      /\ pc'[r] = p /\ \A q \in Runs : q # r => pc'[q] = pc[q]
  BY DEF TypeOK, Go
<1>2. /\ met \subseteq met' /\ met' \subseteq Runs /\ (r \in met' => r \in met)
      /\ \A q \in Runs : q # r /\ Active(q) => q \in met'
  BY DEF TypeOK, Go
<1>3. Alone'
  BY <1>1, <1>2 DEF Alone, Active
<1> QED BY <1>1, <1>2, <1>3

\* As files are raced for, fewer are safe.
LEMMA SafeBefore ==
    ASSUME job' = job, raced \subseteq raced', NEW r \in Runs, NEW k \in Kinds
    PROVE  /\ Safe(r, k)' => Safe(r, k)
           /\ Misled(r, k) => Misled(r, k)'
<1>1. Disputed' = Disputed
  BY DEF Disputed
<1>2. \A l \in Kinds : Unsafe(r, l) => Unsafe(r, l)'
  BY <1>1 DEF Unsafe
<1>3. Safe(r, k)' => Safe(r, k)
  BY <1>2 DEF Safe
<1>4. \A l \in Kinds : MisledOnGraph(r, l) => MisledOnGraph(r, l)'
  BY <1>2 DEF MisledOnGraph
<1>5. Misled(r, k) => Misled(r, k)'
  BY <1>2, <1>4 DEF Misled
<1> QED BY <1>3, <1>5

\* What run r brings about for itself; the rest is the same for all its steps.
LEMMA Stepped ==
    ASSUME IInv, NEW r \in Runs, NEW p \in Places, Go(r, p),
           kind' \in [Runs -> Kinds], got' \in [Runs -> [Kinds -> Values]],
           \A q \in Runs : q # r => kind'[q] = kind[q] /\ got'[q] = got[q],
           \A k \in Kinds : k < kind'[r] \/ p = "done" \/ (k = kind'[r] /\ p \in Holding) =>
               /\ got'[r][k] # Torn
               /\ got'[r][k] = Value(job[r], k) \/ Misled(r, k),
           file' \in [Files -> SUBSET Dumps], open' \in SUBSET (Runs \X Files),
           view' \in [Runs -> SUBSET Dumps], raced \subseteq raced',
           raced' \subseteq Files
    PROVE  /\ TypeOK' /\ Progress' /\ Alone'
           /\ (p \in {"load", "read", "unlink"} /\ r \notin met => file'[File(r)'] # {})
                => Found'
           /\ (p = "missing" => r \in met) => LoneRunRecovers'
           /\ job' = job /\ pc'[r] = p /\ met \subseteq met'
           /\ \A q \in Runs : q # r =>
                  /\ pc'[q] = pc[q] /\ kind'[q] = kind[q] /\ got'[q] = got[q]
                  /\ File(q)' = File(q) /\ Cells(q)' = Cells(q)
                  /\ Active(q) => q \in met'
<1> USE DEF IInv
<1>1. /\ job' = job /\ pc' \in [Runs -> Places]
      /\ pc'[r] = p /\ \A q \in Runs : q # r => pc'[q] = pc[q]
      /\ met \subseteq met' /\ met' \subseteq Runs
      /\ \A q \in Runs : q # r /\ Active(q) => q \in met'
      /\ r \in met' => r \in met
      /\ Alone'
  BY GoMeets
<1>2. TypeOK'
  BY <1>1 DEF TypeOK
<1>3. \A q \in Runs, k \in Kinds : Misled(q, k) => Misled(q, k)'
  BY <1>1, SafeBefore
<1>4. Progress'
  <2> SUFFICES ASSUME NEW q \in Runs, NEW k \in Kinds,
                      \/ k < kind'[q] \/ pc'[q] = "done"
                      \/ k = kind'[q] /\ pc'[q] \in Holding
               PROVE  /\ got'[q][k] # Torn
                      /\ got'[q][k] = Value(job[q], k) \/ Misled(q, k)
    BY <1>1, <1>3 DEF Progress, Own, Holding
  <2>1. CASE q # r
    <3>1. kind'[q] = kind[q] /\ got'[q] = got[q] /\ pc'[q] = pc[q]
      BY <1>1, <2>1
    <3>2. Own(q, k)
      BY <3>1 DEF Progress
    <3> QED BY <3>1, <3>2 DEF Own
  <2>2. CASE q = r
    BY <1>1, <2>2
  <2> QED BY <2>1, <2>2
<1>5. \A q \in Runs : q # r => File(q)' = File(q) /\ Cells(q)' = Cells(q)
  BY <1>1 DEF File, Cells
<1>6. ASSUME p \in {"load", "read", "unlink"} /\ r \notin met => file'[File(r)'] # {}
      PROVE  Found'
  <2> SUFFICES ASSUME NEW q \in Runs, pc'[q] \in {"load", "read", "unlink"},
                      q \notin met'
               PROVE  file'[File(q)'] # {}
    BY DEF Found
  <2>1. q = r
    BY <1>1 DEF Active, Ended
  <2> QED BY <1>1, <1>6, <2>1
<1>7. (p = "missing" => r \in met) => LoneRunRecovers'
  BY <1>1 DEF LoneRunRecovers
<1> QED BY <1>1, <1>2, <1>4, <1>5, <1>6, <1>7

\* A step that keeps to the kind and to what the run has got.
LEMMA Moved ==
    ASSUME IInv, NEW r \in Runs, NEW p \in Places \ {"done"}, Go(r, p),
           UNCHANGED <<kind, got>>, p \in Holding => pc[r] \in Holding,
           file' \in [Files -> SUBSET Dumps], open' \in SUBSET (Runs \X Files),
           view' \in [Runs -> SUBSET Dumps], raced \subseteq raced',
           raced' \subseteq Files
    PROVE  /\ TypeOK' /\ Progress' /\ Alone'
           /\ (p \in {"load", "read", "unlink"} /\ r \notin met => file'[File(r)] # {})
                => Found'
           /\ (p = "missing" => r \in met) => LoneRunRecovers'
           /\ job' = job /\ pc'[r] = p /\ met \subseteq met'
           /\ \A q \in Runs : q # r =>
                  /\ pc'[q] = pc[q] /\ kind'[q] = kind[q] /\ got'[q] = got[q]
                  /\ Active(q) => q \in met'
           /\ \A q \in Runs : File(q)' = File(q) /\ Cells(q)' = Cells(q)
<1>1. /\ kind' \in [Runs -> Kinds] /\ got' \in [Runs -> [Kinds -> Values]]
      /\ \A q \in Runs : kind'[q] = kind[q] /\ got'[q] = got[q]
  BY DEF IInv, TypeOK
<1>2. ASSUME NEW k \in Kinds,
             k < kind'[r] \/ p = "done" \/ (k = kind'[r] /\ p \in Holding)
      PROVE  /\ got'[r][k] # Torn
             /\ got'[r][k] = Value(job[r], k) \/ Misled(r, k)
  <2>1. Own(r, k)
    BY <1>1, <1>2 DEF IInv, Progress
  <2> QED BY <1>1, <2>1 DEF Own
<1>3. p \in Places
  OBVIOUS
<1>4. /\ TypeOK' /\ Progress' /\ Alone'
      /\ (p \in {"load", "read", "unlink"} /\ r \notin met => file'[File(r)'] # {})
           => Found'
      /\ (p = "missing" => r \in met) => LoneRunRecovers'
      /\ job' = job /\ pc'[r] = p /\ met \subseteq met'
      /\ \A q \in Runs : q # r => pc'[q] = pc[q] /\ (Active(q) => q \in met')
  BY <1>1, <1>2, <1>3, Stepped
<1>5. \A q \in Runs : File(q)' = File(q) /\ Cells(q)' = Cells(q)
  BY <1>4 DEF File, Cells
<1> QED BY <1>1, <1>4, <1>5

\* A step to the next kind, with what the run holds or has just got.
LEMMA MovedOn ==
    ASSUME IInv, NEW r \in Runs, Onward(r), got' \in [Runs -> [Kinds -> Values]],
           \A q \in Runs : q # r => got'[q] = got[q],
           \A k \in Kinds : k # kind[r] => got'[r][k] = got[r][k],
           got'[r][kind[r]] # Torn,
           got'[r][kind[r]] = Value(job[r], kind[r]) \/ Misled(r, kind[r]),
           file' \in [Files -> SUBSET Dumps], open' \in SUBSET (Runs \X Files),
           view' \in [Runs -> SUBSET Dumps], raced' = raced
    PROVE  /\ TypeOK' /\ Progress' /\ Alone' /\ Found' /\ LoneRunRecovers'
           /\ job' = job /\ pc'[r] \in {"check", "done"} /\ met \subseteq met'
           /\ \A q \in Runs : q # r =>
                  /\ pc'[q] = pc[q] /\ kind'[q] = kind[q] /\ got'[q] = got[q]
                  /\ Active(q) => q \in met'
<1>1. PICK p \in {"check", "done"} :
          /\ Go(r, p)
          /\ \/ kind[r] < 3 /\ p = "check" /\ kind' = [kind EXCEPT ![r] = @ + 1]
             \/ kind[r] = 3 /\ p = "done" /\ kind' = kind
  BY DEF Onward, IInv, TypeOK
<1>2. p \in Places /\ p \notin {"load", "read", "unlink", "missing"} \cup Holding
  BY DEF Places, Ended, Holding
<1>3. /\ kind' \in [Runs -> Kinds] /\ kind[r] \in Kinds
      /\ \A q \in Runs : q # r => kind'[q] = kind[q] /\ got'[q] = got[q]
  BY <1>1 DEF IInv, TypeOK
<1>4. ASSUME NEW k \in Kinds, k < kind'[r] \/ p = "done"
      PROVE  /\ got'[r][k] # Torn
             /\ got'[r][k] = Value(job[r], k) \/ Misled(r, k)
  <2>1. CASE k = kind[r]
    BY <2>1
  <2>2. CASE k # kind[r]
    <3>1. k < kind[r]
      BY <1>1, <1>4, <2>2 DEF IInv, TypeOK
    <3>2. Own(r, k)
      BY <3>1 DEF IInv, Progress
    <3> QED BY <2>2, <3>2 DEF Own
  <2> QED BY <2>1, <2>2
<1>5. raced \subseteq raced' /\ raced' \subseteq Files
  BY DEF IInv, TypeOK
<1>6. /\ TypeOK' /\ Progress' /\ Alone'
      /\ (p \in {"load", "read", "unlink"} /\ r \notin met => file'[File(r)'] # {})
           => Found'
      /\ (p = "missing" => r \in met) => LoneRunRecovers'
      /\ job' = job /\ pc'[r] = p /\ met \subseteq met'
      /\ \A q \in Runs : q # r => pc'[q] = pc[q] /\ (Active(q) => q \in met')
  BY <1>1, <1>2, <1>3, <1>4, <1>5, Stepped
<1> QED BY <1>1, <1>2, <1>3, <1>6

\* What is left of dumps when run r stops in the middle of its own.
TornBy(r, dumps) == {IF x[1] = r THEN <<r, Torn>> ELSE x : x \in dumps}

LEMMA OnlyLeft ==
    ASSUME NEW r, NEW D, NEW v, Only(D, v), NEW E \in {D, {}, TornBy(r, D)}
    PROVE  Only(E, v)
<1>1. Only(TornBy(r, D), v)
  <2>1. \A x \in TornBy(r, D) : \E y \in D :
           x = IF y[1] = r THEN <<r, Torn>> ELSE y
    BY DEF TornBy
  <2>2. \A x \in TornBy(r, D) : x[2] \in {Torn, v}
    BY <2>1 DEF Only
  <2>3. \A x, y \in TornBy(r, D) : x = y
    BY <2>1 DEF Only
  <2> QED BY <2>2, <2>3 DEF Only
<1> QED BY <1>1 DEF Only

\* A step that adds nothing to any file, and takes from that of run r at most.
LEMMA FilesInv ==
    ASSUME IInv, TypeOK', NEW r \in Runs, job' = job, raced' = raced,
           \A q \in Runs : q # r => pc'[q] = pc[q] /\ kind'[q] = kind[q],
           \A f \in Files : file'[f] \in {file[f], {}, TornBy(r, file[f])},
           \A f \in Files : f # File(r) => file'[f] = file[f],
           \A q \in Runs : q # r => view'[q] \in {view[q], {}, TornBy(r, view[q])},
           view'[r] = {}, open' \subseteq open, \A f \in Files : <<r, f>> \notin open',
           \A o \in open : o[1] # r /\ o[2] # File(r) => o \in open',
           pc'[r] \notin {"read", "cells"}, pc'[r] = "load" => UsesCache(r)'
    PROVE  Stored' /\ Viewed' /\ Opened' /\ Celled'
<1> USE DEF IInv
<1>1. \A q \in Runs, k \in Kinds : Safe(q, k)' => Safe(q, k)
  BY SafeBefore
<1>2. Stored'
  <2> SUFFICES ASSUME NEW q \in Runs, NEW k \in Kinds, Safe(q, k)'
               PROVE  Only(file'[FileOf(job[q], k)], Value(job[q], k))
    BY DEF Stored
  <2>1. Only(file[FileOf(job[q], k)], Value(job[q], k))
    BY <1>1 DEF Stored
  <2>2. FileOf(job[q], k) \in Files
    BY FileIsOfJob, Zenon
  <2> QED BY <2>1, <2>2, OnlyLeft
<1>3. Viewed'
  <2> SUFFICES ASSUME NEW q \in Runs, Safe(q, kind[q])'
               PROVE  Only(view'[q], Value(job[q], kind'[q]))
    BY DEF Viewed
  <2>1. CASE q = r
    BY <2>1 DEF Only
  <2>2. CASE q # r
    <3>1. kind'[q] = kind[q] /\ kind[q] \in Kinds
      BY <2>2 DEF TypeOK
    <3>2. PICK k \in Kinds : k = kind[q] /\ k = kind'[q]
      BY <3>1
    <3>3. Safe(q, k)'
      BY <3>2 DEF Safe
    <3>4. Safe(q, kind[q])
      BY <1>1, <3>2, <3>3
    <3>5. Only(view[q], Value(job[q], kind[q]))
      BY <3>4 DEF Viewed
    <3> QED BY <2>2, <3>1, <3>5, OnlyLeft
  <2> QED BY <2>1, <2>2
<1>4. \A q \in Runs : q # r => File(q)' = File(q) /\ Cells(q)' = Cells(q)
  BY DEF File, Cells
<1>5. Opened'
  <2>1. ASSUME NEW q \in Runs, NEW f \in Files, <<q, f>> \in open'
        PROVE  \/ pc'[q] \in {"read", "dump", "redump"} /\ f = File(q)'
               \/ pc'[q] = "cells" /\ f = Cells(q)'
    BY <1>4, <2>1 DEF Opened
  <2>2. ASSUME NEW q \in Runs, pc'[q] # "read" PROVE view'[q] = {}
    BY <2>2 DEF Opened, TornBy
  <2>3. ASSUME NEW q \in Runs, pc'[q] \in {"load", "read"} PROVE UsesCache(q)'
    BY <2>3 DEF Opened, UsesCache
  <2> QED BY <2>1, <2>2, <2>3 DEF Opened
<1>6. Celled'
  <2> SUFFICES ASSUME NEW q \in Runs, pc'[q] = "cells"
               PROVE  /\ kind'[q] < 3 /\ <<q, Cells(q)'>> \in open'
                      /\ \/ Cells(q)' \in raced'
                         \/ file'[Cells(q)'] = {<<q, Value(job'[q], kind'[q])>>}
    BY DEF Celled
  <2>1. q # r /\ pc[q] = "cells" /\ kind'[q] = kind[q] /\ Cells(q)' = Cells(q)
    BY <1>4
  <2>2. Cells(q) # File(r) /\ Cells(q) \in Files
    BY FileIsOfJob
  <2> QED BY <2>1, <2>2 DEF Celled
<1> QED BY <1>2, <1>3, <1>5, <1>6

\* Run r may be leaving one file alone in a state that is not one dump.
LEMMA SettledKept ==
    ASSUME IInv, NEW r \in Runs, NEW f \in Files,
           \A q \in Runs : q # r => pc'[q] = pc[q] /\ (Active(q) => q \in met'),
           met \subseteq met', pc[r] \notin {"failed", "killed"},
           pc[r] = "clean" => f = File(r),
           \A g \in CacheFiles : g # f => file'[g] = file[g],
           met = {} /\ met' = {} /\ (\A q \in Runs : pc[q] \notin {"failed", "killed"})
             /\ f \in CacheFiles =>
               \/ file'[f] = {} \/ OneDump(f)' \/ pc'[r] \in {"failed", "killed"}
               \/ pc'[r] = "clean" /\ File(r)' = f
    PROVE  Settled'
<1> SUFFICES ASSUME met' = {}, \A q \in Runs : pc'[q] \notin {"failed", "killed"},
                    NEW g \in CacheFiles
             PROVE  \/ file'[g] = {} \/ OneDump(g)'
                    \/ \E q \in Runs : g = File(q)' /\ pc'[q] = "clean"
  BY DEF Settled
<1>1. met = {} /\ \A q \in Runs : pc[q] \notin {"failed", "killed"}
  OBVIOUS
<1>2. CASE g = f
  BY <1>1, <1>2
<1>3. CASE g # f
  <2>1. ~ \E q \in Runs : g = File(q) /\ pc[q] = "clean"
    BY <1>3 DEF Active, Ended
  <2>2. file[g] = {} \/ OneDump(g)
    BY <1>1, <2>1 DEF IInv, Settled
  <2>3. file'[g] = file[g]
    BY <1>3
  <2> QED BY <2>2, <2>3 DEF OneDump
<1> QED BY <1>2, <1>3

\* In such a state, the file of a run that is not cleaning up is settled.
LEMMA SettledNow ==
    ASSUME IInv, NEW r \in Runs, NEW f \in CacheFiles, f = File(r), pc[r] # "clean",
           met = {}, \A q \in Runs : pc[q] \notin {"failed", "killed"},
           \A q \in Runs : q # r => ~ Active(q)
    PROVE  file[f] = {} \/ OneDump(f)
BY DEF IInv, Settled, Active, Ended

----------------------------------------------------------------------------
(* The steps that leave the files alone.                                   *)

\* Another place, and at most the file it was reading, or the cells, closed.
LEMMA MoveInv ==
    ASSUME IInv, NEW r \in Runs, NEW p \in Places \ {"done", "read", "cells"},
           Go(r, p), UNCHANGED <<kind, got, file, raced>>,
           p \in Holding => pc[r] \in Holding,
           \/ Close(r)
           \/ open' = open /\ pc[r] \notin {"read", "dump", "redump", "cells"},
           view' = [view EXCEPT ![r] = {}] \/ (view' = view /\ pc[r] # "read"),
           pc[r] \notin {"clean", "failed", "killed"},
           p = "load" => UsesCache(r),
           p \in {"load", "unlink"} /\ r \notin met => file[File(r)] # {},
           p = "missing" => r \in met
    PROVE  IInv'
<1>1. PICK f \in CacheFiles : f = File(r) /\ f \in Files
  BY FileIsOfJob DEF IInv
<1>2. /\ file' \in [Files -> SUBSET Dumps] /\ open' \in SUBSET (Runs \X Files)
      /\ view' \in [Runs -> SUBSET Dumps] /\ raced' \subseteq Files
      /\ open' \subseteq open /\ \A g \in Files : <<r, g>> \notin open'
      /\ \A o \in open : o[1] # r => o \in open'
      /\ view'[r] = {} /\ \A q \in Runs : q # r => view'[q] = view[q]
  <2>1. view'[r] = {} /\ \A q \in Runs : q # r => view'[q] = view[q]
    BY DEF IInv, TypeOK, Opened
  <2>2. view' \in [Runs -> SUBSET Dumps]
    BY DEF IInv, TypeOK
  <2>3. CASE Close(r)
    BY <2>1, <2>2, <2>3 DEF IInv, TypeOK, Close
  <2>4. CASE open' = open /\ pc[r] \notin {"read", "dump", "redump", "cells"}
    BY <2>1, <2>2, <2>4 DEF IInv, TypeOK, Opened
  <2> QED BY <2>3, <2>4
<1>3. /\ TypeOK' /\ Progress' /\ Alone' /\ Found' /\ LoneRunRecovers'
      /\ job' = job /\ pc'[r] = p /\ met \subseteq met'
      /\ \A q \in Runs : q # r =>
             /\ pc'[q] = pc[q] /\ kind'[q] = kind[q] /\ (Active(q) => q \in met')
      /\ \A q \in Runs : File(q)' = File(q)
  BY <1>2, Moved
<1>4. pc'[r] = "load" => UsesCache(r)'
  BY <1>3 DEF UsesCache
<1>5. Stored' /\ Viewed' /\ Opened' /\ Celled'
  BY <1>2, <1>3, <1>4, FilesInv
<1>6. ASSUME met = {}, met' = {},
             \A q \in Runs : pc[q] \notin {"failed", "killed"}
      PROVE  file'[f] = {} \/ OneDump(f)'
  BY <1>1, <1>3, <1>6, SettledNow DEF OneDump
<1>7. Settled'
  BY <1>1, <1>3, <1>6, SettledKept
<1> QED BY <1>3, <1>5, <1>7 DEF IInv

\* The next kind, and at most the file it was reading, writing or building from
\* closed.
LEMMA OnwardInv ==
    ASSUME IInv, NEW r \in Runs, Onward(r), UNCHANGED <<file, raced>>,
           got' \in [Runs -> [Kinds -> Values]],
           \A q \in Runs : q # r => got'[q] = got[q],
           \A k \in Kinds : k # kind[r] => got'[r][k] = got[r][k],
           got'[r][kind[r]] # Torn,
           got'[r][kind[r]] = Value(job[r], kind[r]) \/ Misled(r, kind[r]),
           Close(r),
           view' = [view EXCEPT ![r] = {}] \/ (view' = view /\ pc[r] # "read"),
           pc[r] \notin {"clean", "failed", "killed"}
    PROVE  IInv'
<1>1. PICK f \in CacheFiles : f = File(r) /\ f \in Files
  BY FileIsOfJob DEF IInv
<1>2. /\ file' \in [Files -> SUBSET Dumps] /\ open' \in SUBSET (Runs \X Files)
      /\ view' \in [Runs -> SUBSET Dumps] /\ raced' \subseteq Files
      /\ open' \subseteq open /\ \A g \in Files : <<r, g>> \notin open'
      /\ \A o \in open : o[1] # r => o \in open'
      /\ view'[r] = {} /\ \A q \in Runs : q # r => view'[q] = view[q]
  <2>1. view'[r] = {} /\ \A q \in Runs : q # r => view'[q] = view[q]
    BY DEF IInv, TypeOK, Opened
  <2>2. view' \in [Runs -> SUBSET Dumps]
    BY DEF IInv, TypeOK
  <2> QED BY <2>1, <2>2 DEF IInv, TypeOK, Close
<1>3. /\ TypeOK' /\ Progress' /\ Alone' /\ Found' /\ LoneRunRecovers'
      /\ job' = job /\ pc'[r] \in {"check", "done"} /\ met \subseteq met'
      /\ \A q \in Runs : q # r =>
             /\ pc'[q] = pc[q] /\ kind'[q] = kind[q] /\ (Active(q) => q \in met')
  BY <1>2, MovedOn
<1>4. Stored' /\ Viewed' /\ Opened' /\ Celled'
  BY <1>2, <1>3, FilesInv
<1>5. ASSUME met = {}, met' = {},
             \A q \in Runs : pc[q] \notin {"failed", "killed"}
      PROVE  file'[f] = {} \/ OneDump(f)'
  BY <1>1, <1>3, <1>5, SettledNow DEF OneDump
<1>6. Settled'
  BY <1>1, <1>3, <1>5, SettledKept
<1> QED BY <1>3, <1>4, <1>6 DEF IInv

\* A value at hand that is to be stored.
LEMMA HoldInv ==
    ASSUME IInv, NEW r \in Runs, NEW v \in Values, Have(r, v), Go(r, "open"),
           UNCHANGED <<kind, file, view, raced>>,
           v # Torn, v = Value(job[r], kind[r]) \/ Misled(r, kind[r]),
           Close(r) \/ (open' = open /\ pc[r] = "build"), pc[r] \in {"cells", "build"}
    PROVE  IInv'
<1>1. PICK f \in CacheFiles : f = File(r) /\ f \in Files
  BY FileIsOfJob DEF IInv
<1>2. /\ file' \in [Files -> SUBSET Dumps] /\ open' \in SUBSET (Runs \X Files)
      /\ view' \in [Runs -> SUBSET Dumps] /\ raced' \subseteq Files
      /\ raced \subseteq raced'
      /\ open' \subseteq open /\ \A g \in Files : <<r, g>> \notin open'
      /\ \A o \in open : o[1] # r => o \in open'
      /\ view'[r] = {}
  <2>1. view'[r] = {} /\ view' \in [Runs -> SUBSET Dumps]
    BY DEF IInv, TypeOK, Opened
  <2> QED BY <2>1 DEF IInv, TypeOK, Close, Opened
<1>3. /\ kind' \in [Runs -> Kinds] /\ got' \in [Runs -> [Kinds -> Values]]
      /\ \A q \in Runs : q # r => kind'[q] = kind[q] /\ got'[q] = got[q]
      /\ kind'[r] = kind[r] /\ kind[r] \in Kinds /\ got'[r][kind[r]] = v
      /\ \A k \in Kinds : k # kind[r] => got'[r][k] = got[r][k]
  BY DEF IInv, TypeOK, Have
<1>4. ASSUME NEW k \in Kinds, k < kind'[r] \/ k = kind'[r]
      PROVE  /\ got'[r][k] # Torn
             /\ got'[r][k] = Value(job[r], k) \/ Misled(r, k)
  <2>1. CASE k = kind[r]
    BY <1>3, <2>1
  <2>2. CASE k # kind[r]
    <3>1. Own(r, k)
      BY <1>3, <1>4, <2>2 DEF IInv, Progress
    <3> QED BY <1>3, <2>2, <3>1 DEF Own
  <2> QED BY <2>1, <2>2
<1>5. "open" \in Places /\ "open" \notin {"done", "load", "read", "unlink", "missing"}
  BY DEF Places
<1>6. /\ TypeOK' /\ Progress' /\ Alone' /\ Found' /\ LoneRunRecovers'
      /\ job' = job /\ pc'[r] = "open" /\ met \subseteq met'
      /\ \A q \in Runs : q # r =>
             /\ pc'[q] = pc[q] /\ kind'[q] = kind[q] /\ (Active(q) => q \in met')
  BY <1>2, <1>3, <1>4, <1>5, Stepped
<1>7. Stored' /\ Viewed' /\ Opened' /\ Celled'
  BY <1>2, <1>6, FilesInv
<1>8. ASSUME met = {}, met' = {},
             \A q \in Runs : pc[q] \notin {"failed", "killed"}
      PROVE  file'[f] = {} \/ OneDump(f)'
  BY <1>1, <1>6, <1>8, SettledNow DEF OneDump
<1>9. Settled'
  BY <1>1, <1>6, <1>8, SettledKept
<1> QED BY <1>6, <1>7, <1>9 DEF IInv

LEMMA StartInv == ASSUME IInv, NEW r \in Runs, Start(r) PROVE IInv'
BY MoveInv DEF Start, Places, Holding

LEMMA CheckInv == ASSUME IInv, NEW r \in Runs, Check(r) PROVE IInv'
<1>1. CASE UsesCache(r) /\ file[File(r)] # {}
  <2>1. Go(r, "load") /\ "load" \in Places \ {"done", "read", "cells"}
    BY <1>1 DEF Check, Places, Holding
  <2> QED BY <1>1, <2>1, MoveInv DEF Check, Holding
<1>2. CASE ~ (UsesCache(r) /\ file[File(r)] # {})
  <2>1. Go(r, "build") /\ "build" \in Places \ {"done", "read", "cells"}
    BY <1>2 DEF Check, Places
  <2> QED BY <2>1, MoveInv DEF Check, Holding
<1> QED BY <1>1, <1>2

\* Who opens a safe file sees at most one dump of what it takes for its own.
LEMMA OpenCachedInv == ASSUME IInv, NEW r \in Runs, OpenCached(r) PROVE IInv'
<1>1. PICK f \in CacheFiles : f = File(r) /\ f \in Files
  BY FileIsOfJob DEF IInv
<1>2. /\ file' = file /\ open' = open \cup {<<r, f>>} /\ raced' = raced
      /\ view' = [view EXCEPT ![r] = file[f]] /\ file[f] # {}
      /\ Go(r, "read") /\ UNCHANGED <<kind, got>> /\ pc[r] = "load"
      /\ "read" \in Places \ {"done"} /\ "read" \notin Holding
  BY <1>1 DEF OpenCached, Places, Holding
<1>3. /\ file' \in [Files -> SUBSET Dumps] /\ open' \in SUBSET (Runs \X Files)
      /\ view' \in [Runs -> SUBSET Dumps] /\ raced' \subseteq Files
      /\ view'[r] = file[f] /\ \A q \in Runs : q # r => view'[q] = view[q]
  <2>1. file[f] \in SUBSET Dumps
    BY <1>1 DEF IInv, TypeOK
  <2> QED BY <1>1, <1>2, <2>1 DEF IInv, TypeOK
<1>4. /\ TypeOK' /\ Progress' /\ Alone' /\ Found' /\ LoneRunRecovers'
      /\ job' = job /\ pc'[r] = "read" /\ met \subseteq met'
      /\ \A q \in Runs : q # r =>
             /\ pc'[q] = pc[q] /\ kind'[q] = kind[q] /\ (Active(q) => q \in met')
      /\ \A q \in Runs : File(q)' = File(q) /\ Cells(q)' = Cells(q)
  BY <1>1, <1>2, <1>3, Moved
<1>5. \A q \in Runs, k \in Kinds : Safe(q, k)' = Safe(q, k)
  BY <1>2, <1>4 DEF Safe, Unsafe, Disputed
<1>6. Stored'
  BY <1>2, <1>4, <1>5 DEF IInv, Stored
<1>7. Viewed'
  <2> SUFFICES ASSUME NEW q \in Runs, Safe(q, kind[q])'
               PROVE  Only(view'[q], Value(job[q], kind[q]))
    BY <1>2, <1>4 DEF Viewed
  <2>1. PICK k \in Kinds : k = kind[q] /\ k = kind'[q]
    BY <1>2 DEF IInv, TypeOK
  <2>2. Safe(q, k)'
    BY <2>1 DEF Safe
  <2>3. Safe(q, k)
    BY <1>5, <2>2
  <2>4. CASE q # r
    BY <1>3, <2>1, <2>3, <2>4 DEF IInv, Viewed
  <2>5. CASE q = r
    <3>1. Only(file[FileOf(job[r], k)], Value(job[r], k))
      BY <2>3, <2>5 DEF IInv, Stored
    <3> QED BY <1>1, <1>3, <2>1, <2>5, <3>1 DEF File
  <2> QED BY <2>4, <2>5
<1>8. Opened'
  <2>1. ASSUME NEW q \in Runs, NEW g \in Files, <<q, g>> \in open'
        PROVE  \/ pc'[q] \in {"read", "dump", "redump"} /\ g = File(q)'
               \/ pc'[q] = "cells" /\ g = Cells(q)'
    BY <1>1, <1>2, <1>4, <2>1 DEF IInv, Opened
  <2>2. ASSUME NEW q \in Runs, pc'[q] # "read" PROVE view'[q] = {}
    BY <1>3, <1>4, <2>2 DEF IInv, Opened
  <2>3. ASSUME NEW q \in Runs, pc'[q] \in {"load", "read"} PROVE UsesCache(q)'
    BY <1>2, <1>4, <2>3 DEF IInv, Opened, UsesCache
  <2> QED BY <2>1, <2>2, <2>3 DEF Opened
<1>9. Celled'
  <2> SUFFICES ASSUME NEW q \in Runs, pc'[q] = "cells"
               PROVE  /\ kind'[q] < 3 /\ <<q, Cells(q)'>> \in open'
                      /\ \/ Cells(q)' \in raced'
                         \/ file'[Cells(q)'] = {<<q, Value(job'[q], kind'[q])>>}
    BY DEF Celled
  <2>1. q # r /\ pc[q] = "cells"
    BY <1>4
  <2> QED BY <1>2, <1>4, <2>1 DEF IInv, Celled
<1>10. ASSUME met = {}, met' = {},
              \A q \in Runs : pc[q] \notin {"failed", "killed"}
       PROVE  file'[f] = {} \/ OneDump(f)'
  BY <1>1, <1>2, <1>4, <1>10, SettledNow DEF OneDump
<1>11. Settled'
  BY <1>1, <1>2, <1>4, <1>10, SettledKept
<1> QED BY <1>4, <1>6, <1>7, <1>8, <1>9, <1>11 DEF IInv

\* What a run reads of a safe file is its own.
LEMMA LoadInv == ASSUME IInv, NEW r \in Runs, Load(r) PROVE IInv'
<1>1. PICK v \in Readable(view[r]) : Have(r, v)
  BY DEF Load
<1>2. view[r] \in SUBSET Dumps /\ kind[r] \in Kinds /\ UsesCache(r)
  BY DEF IInv, TypeOK, Opened, Load
<1>3. v \in Values /\ v # Torn
  BY <1>1, <1>2, ReadableTyped
<1>4. v = Value(job[r], kind[r]) \/ Misled(r, kind[r])
  <2>1. CASE Safe(r, kind[r])
    <3>1. Only(view[r], Value(job[r], kind[r]))
      BY <2>1 DEF IInv, Viewed
    <3> QED BY <1>1, <1>2, <3>1, ReadableIsValue
  <2>2. CASE ~ Safe(r, kind[r])
    BY <1>2, <2>2 DEF Safe, Misled, MisledOnGraph, UsesCache
  <2> QED BY <2>1, <2>2
<1>5. /\ got' \in [Runs -> [Kinds -> Values]]
      /\ \A q \in Runs : q # r => got'[q] = got[q]
      /\ \A k \in Kinds : k # kind[r] => got'[r][k] = got[r][k]
      /\ got'[r][kind[r]] = v
  BY <1>1, <1>2, <1>3 DEF IInv, TypeOK, Have
<1> QED BY <1>3, <1>4, <1>5, OnwardInv DEF Load

LEMMA LoadFailsInv == ASSUME IInv, NEW r \in Runs, LoadFails(r) PROVE IInv'
<1>1. r \notin met => file[File(r)] # {}
  BY DEF LoadFails, IInv, Found
<1>2. /\ Go(r, "unlink") /\ "unlink" \in Places \ {"done", "read", "cells"}
      /\ "unlink" \notin Holding
  BY DEF LoadFails, OnLoadError, Places, Holding
<1> QED BY <1>1, <1>2, MoveInv DEF LoadFails

\* A file that is gone has been unlinked by a run that was under way meanwhile.
LEMMA UnlinkMissingInv == ASSUME IInv, NEW r \in Runs, UnlinkMissing(r) PROVE IInv'
<1>1. r \in met
  BY DEF UnlinkMissing, IInv, Found
<1> QED BY <1>1, MoveInv DEF UnlinkMissing, Places, Ended, Holding

\* What a run builds is its own unless its cells have been overwritten.
LEMMA ReadCellsInv == ASSUME IInv, NEW r \in Runs, ReadCells(r) PROVE IInv'
<1>1. PICK v \in Readable(file[Cells(r)]) : Have(r, v)
  BY DEF ReadCells
<1>2. /\ file[Cells(r)] \in SUBSET Dumps /\ kind[r] \in Kinds /\ kind[r] < 3
      /\ pc[r] = "cells"
  <2>1. Cells(r) \in Files
    BY FileIsOfJob DEF IInv
  <2> QED BY <2>1 DEF IInv, TypeOK, Celled, ReadCells
<1>3. v \in Values /\ v # Torn
  BY <1>1, <1>2, ReadableTyped
<1>4. v = Value(job[r], kind[r]) \/ Misled(r, kind[r])
  <2>1. CASE Cells(r) \in raced
    BY <1>2, <2>1 DEF Misled, MisledOnGraph, Cells
  <2>2. CASE file[Cells(r)] = {<<r, Value(job[r], kind[r])>>}
    <3>1. Only(file[Cells(r)], Value(job[r], kind[r]))
      BY <2>2 DEF Only
    <3> QED BY <1>1, <1>2, <3>1, ReadableIsValue
  <2> QED BY <1>2, <2>1, <2>2 DEF IInv, Celled
<1>5. /\ got' \in [Runs -> [Kinds -> Values]]
      /\ \A q \in Runs : q # r => got'[q] = got[q]
      /\ \A k \in Kinds : k # kind[r] => got'[r][k] = got[r][k]
      /\ got'[r][kind[r]] = v
  BY <1>1, <1>2, <1>3 DEF IInv, TypeOK, Have
<1>6. CASE UsesCache(r)
  BY <1>1, <1>2, <1>3, <1>4, <1>6, HoldInv DEF ReadCells
<1>7. CASE ~ UsesCache(r)
  BY <1>2, <1>3, <1>4, <1>5, <1>7, OnwardInv DEF ReadCells
<1> QED BY <1>6, <1>7

LEMMA CellsFailInv == ASSUME IInv, NEW r \in Runs, CellsFail(r) PROVE IInv'
BY MoveInv DEF CellsFail, Places, Ended, Holding

LEMMA CutStagesInv == ASSUME IInv, NEW r \in Runs, CutStages(r) PROVE IInv'
<1>1. PICK v : v = got[r][1] \o got[r][2]
  OBVIOUS
<1>2. /\ v \in Values /\ v # Torn
      /\ v = Value(job[r], 3) \/ Misled(r, 3)
  BY <1>1, CutIsOwn DEF IInv, CutStages
<1> QED BY <1>1, <1>2, HoldInv DEF CutStages

----------------------------------------------------------------------------
(* The steps that change a file.                                           *)

LEMMA UnlinkInv == ASSUME IInv, NEW r \in Runs, Unlink(r) PROVE IInv'
<1>1. PICK f \in CacheFiles : f = File(r) /\ f \in Files
  BY FileIsOfJob DEF IInv
<1>2. /\ file' = [file EXCEPT ![f] = {}] /\ open' = {o \in open : o[2] # f}
      /\ Go(r, "build") /\ UNCHANGED <<view, kind, got, raced>>
      /\ pc[r] = "unlink" /\ "build" \in Places \ {"done"} /\ "build" \notin Holding
  BY <1>1 DEF Unlink, Remove, Places, Holding
<1>3. /\ file' \in [Files -> SUBSET Dumps] /\ open' \in SUBSET (Runs \X Files)
      /\ view' \in [Runs -> SUBSET Dumps] /\ raced' \subseteq Files
      /\ file'[f] = {} /\ \A g \in Files : g # f => file'[g] = file[g]
      /\ view'[r] = {} /\ open' \subseteq open
      /\ \A g \in Files : <<r, g>> \notin open'
      /\ \A o \in open : o[2] # f => o \in open'
  BY <1>1, <1>2 DEF IInv, TypeOK, Opened
<1>4. /\ TypeOK' /\ Progress' /\ Alone' /\ Found' /\ LoneRunRecovers'
      /\ job' = job /\ pc'[r] = "build" /\ met \subseteq met'
      /\ \A q \in Runs : q # r =>
             /\ pc'[q] = pc[q] /\ kind'[q] = kind[q] /\ (Active(q) => q \in met')
  BY <1>2, <1>3, Moved
<1>5. Stored' /\ Viewed' /\ Opened' /\ Celled'
  BY <1>1, <1>2, <1>3, <1>4, FilesInv
<1>6. Settled'
  BY <1>1, <1>2, <1>3, <1>4, SettledKept
<1> QED BY <1>4, <1>5, <1>6 DEF IInv

LEMMA DumpStoredInv == ASSUME IInv, NEW r \in Runs, DumpStored(r) PROVE IInv'
<1>1. got' = got /\ kind[r] \in Kinds /\ Own(r, kind[r])
  BY DEF DumpStored, IInv, TypeOK, Progress, Holding
<1>2. got' \in [Runs -> [Kinds -> Values]]
  BY <1>1 DEF IInv, TypeOK
<1> QED BY <1>1, <1>2, OnwardInv DEF DumpStored, Own

\* What a stop leaves is typed, and all of it comes from what was there.
LEMMA Broken ==
    ASSUME IInv, NEW r \in Runs, Break(r) \/ UNCHANGED <<file, view>>
    PROVE  /\ file' \in [Files -> SUBSET Dumps] /\ view' \in [Runs -> SUBSET Dumps]
           /\ \A f \in Files : file'[f] \in {file[f], {}, TornBy(r, file[f])}
           /\ \A q \in Runs : view'[q] \in {view[q], {}, TornBy(r, view[q])}
           /\ \A f \in Files : f # File(r) => file'[f] = file[f]
<1>1. ASSUME NEW D \in SUBSET Dumps PROVE TornBy(r, D) \in SUBSET Dumps
  <2>1. Torn \in Values
    BY DEF Values, Torn
  <2>2. <<r, Torn>> \in Dumps
    BY <2>1 DEF Dumps
  <2> QED BY <2>2 DEF TornBy
<1>2. PICK f \in Files : f = File(r)
  BY FileIsOfJob DEF IInv
<1>3. CASE UNCHANGED <<file, view>>
  BY <1>3 DEF IInv, TypeOK
<1>4. CASE ~ UNCHANGED <<file, view>>
  <2>1. /\ file' = [file EXCEPT ![f] = TornBy(r, file[f])]
        /\ view' = [q \in Runs |-> IF <<q, f>> \in open THEN TornBy(r, view[q])
                                                      ELSE view[q]]
    BY <1>2, <1>4 DEF Break, TornBy
  <2>2. TornBy(r, file[f]) \in SUBSET Dumps
    BY <1>1 DEF IInv, TypeOK
  <2>3. \A q \in Runs : TornBy(r, view[q]) \in SUBSET Dumps
    BY <1>1 DEF IInv, TypeOK
  <2> QED BY <1>2, <2>1, <2>2, <2>3 DEF IInv, TypeOK
<1> QED BY <1>3, <1>4

\* A dump that stops: the run closes the file, which is torn if it is still there.
LEMMA StopInv ==
    ASSUME IInv, NEW r \in Runs, NEW p \in {"clean", "failed", "killed"}, Go(r, p),
           p = "clean" => pc[r] \in Holding,
           Close(r), UNCHANGED <<kind, got, raced>>, pc[r] \notin {"failed", "killed"},
           \/ view' = [view EXCEPT ![r] = {}] /\ file' = file
           \/ pc[r] # "read" /\ (Break(r) \/ UNCHANGED <<file, view>>)
    PROVE  IInv'
<1>1. PICK f \in CacheFiles : f = File(r) /\ f \in Files
  BY FileIsOfJob DEF IInv
<1>2. /\ open' \in SUBSET (Runs \X Files) /\ open' \subseteq open
      /\ \A g \in Files : <<r, g>> \notin open'
      /\ \A o \in open : o[1] # r => o \in open'
      /\ raced' \subseteq Files /\ p \in Places \ {"done", "read"}
      /\ p \in Holding => pc[r] \in Holding
  BY <1>1 DEF Close, Places, Ended, IInv, TypeOK, Opened, Holding
<1>3. /\ file' \in [Files -> SUBSET Dumps] /\ view' \in [Runs -> SUBSET Dumps]
      /\ \A g \in Files : file'[g] \in {file[g], {}, TornBy(r, file[g])}
      /\ \A q \in Runs : q # r => view'[q] \in {view[q], {}, TornBy(r, view[q])}
      /\ \A g \in Files : g # f => file'[g] = file[g]
      /\ view'[r] = {}
  <2>1. CASE view' = [view EXCEPT ![r] = {}] /\ file' = file
    BY <2>1 DEF IInv, TypeOK
  <2>2. CASE pc[r] # "read" /\ (Break(r) \/ UNCHANGED <<file, view>>)
    <3>1. view[r] = {}
      BY <2>2 DEF IInv, Opened
    <3> QED BY <1>1, <2>2, <3>1, Broken DEF TornBy
  <2> QED BY <2>1, <2>2
<1>4. /\ TypeOK' /\ Progress' /\ Alone' /\ Found' /\ LoneRunRecovers'
      /\ job' = job /\ pc'[r] = p /\ met \subseteq met'
      /\ \A q \in Runs : q # r =>
             /\ pc'[q] = pc[q] /\ kind'[q] = kind[q] /\ (Active(q) => q \in met')
      /\ \A q \in Runs : File(q)' = File(q)
  BY <1>2, <1>3, Moved
<1>5. Stored' /\ Viewed' /\ Opened' /\ Celled'
  BY <1>1, <1>2, <1>3, <1>4, FilesInv
<1>6. Settled'
  <2>1. \A g \in CacheFiles : g # f => file'[g] = file[g]
    BY <1>3, FileIsOfJob DEF IInv
  <2>2. pc'[r] \in {"failed", "killed"} \/ (pc'[r] = "clean" /\ File(r)' = f)
    BY <1>1, <1>4
  <2> QED BY <1>1, <1>4, <2>1, <2>2, SettledKept
<1> QED BY <1>4, <1>5, <1>6 DEF IInv

LEMMA DumpSkippedInv == ASSUME IInv, NEW r \in Runs, DumpSkipped(r) PROVE IInv'
BY StopInv DEF DumpSkipped, Holding

LEMMA DumpFailsInv == ASSUME IInv, NEW r \in Runs, DumpFails(r) PROVE IInv'
BY StopInv DEF DumpFails

LEMMA KilledInv == ASSUME IInv, NEW r \in Runs, Killed(r) PROVE IInv'
<1>1. /\ Go(r, "killed") /\ Close(r) /\ UNCHANGED <<kind, got, raced>>
      /\ pc[r] \notin {"failed", "killed"}
  BY DEF Killed, Active, Ended
<1>2. \/ view' = [view EXCEPT ![r] = {}] /\ file' = file
      \/ pc[r] # "read" /\ (Break(r) \/ UNCHANGED <<file, view>>)
  <2>1. CASE pc[r] = "read"
    BY <2>1 DEF Killed
  <2>2. CASE pc[r] # "read"
    BY <2>2 DEF Killed
  <2> QED BY <2>1, <2>2
<1>3. "killed" \in {"clean", "failed", "killed"}
  OBVIOUS
<1> QED BY <1>1, <1>2, <1>3, StopInv

LEMMA CleanUpInv == ASSUME IInv, NEW r \in Runs, CleanUp(r) PROVE IInv'
<1>1. PICK f \in CacheFiles : f = File(r) /\ f \in Files
  BY FileIsOfJob DEF IInv
<1>2. /\ file' = [file EXCEPT ![f] = {}] /\ open' = {o \in open : o[2] # f}
      /\ Onward(r) /\ pc[r] = "clean" /\ UNCHANGED <<view, got, raced>>
  BY <1>1 DEF CleanUp, Clean, Remove
<1>3. kind[r] \in Kinds /\ Own(r, kind[r]) /\ got' \in [Runs -> [Kinds -> Values]]
  BY <1>2 DEF IInv, TypeOK, Progress, Holding
<1>4. /\ file' \in [Files -> SUBSET Dumps] /\ open' \in SUBSET (Runs \X Files)
      /\ view' \in [Runs -> SUBSET Dumps]
      /\ file'[f] = {} /\ \A g \in Files : g # f => file'[g] = file[g]
      /\ view'[r] = {} /\ open' \subseteq open
      /\ \A g \in Files : <<r, g>> \notin open'
      /\ \A o \in open : o[2] # f => o \in open'
  BY <1>1, <1>2 DEF IInv, TypeOK, Opened
<1>5. /\ TypeOK' /\ Progress' /\ Alone' /\ Found' /\ LoneRunRecovers'
      /\ job' = job /\ pc'[r] \in {"check", "done"} /\ met \subseteq met'
      /\ \A q \in Runs : q # r =>
             /\ pc'[q] = pc[q] /\ kind'[q] = kind[q] /\ (Active(q) => q \in met')
  BY <1>2, <1>3, <1>4, MovedOn DEF Own
<1>6. Stored' /\ Viewed' /\ Opened' /\ Celled'
  BY <1>1, <1>2, <1>4, <1>5, FilesInv
<1>7. Settled'
  BY <1>1, <1>2, <1>4, <1>5, SettledKept
<1> QED BY <1>5, <1>6, <1>7 DEF IInv

\* What a run writes to the file it is at: its own cells, or what it holds.
LEMMA WrittenByRun ==
    ASSUME IInv, NEW r \in Runs, NEW f \in Files
    PROVE  /\ Written(r, f) \in Values
           /\ f = Cells(r) => Written(r, f) = Value(job[r], kind[r])
           /\ f = File(r) => Written(r, f) = got[r][kind[r]]
<1>1. job[r] \in Jobs /\ kind[r] \in Kinds /\ got[r][kind[r]] \in Values
  BY DEF IInv, TypeOK
<1>2. Value(job[r], kind[r]) \in Values
  BY <1>1, ValueTyped
<1>3. f = Cells(r) => f[1] = 0
  BY DEF Cells, CellsOf
<1>4. f = File(r) => f[1] # 0
  BY <1>1 DEF File, FileOf
<1> QED BY <1>1, <1>2, <1>3, <1>4 DEF Written

\* After a file was emptied for what run r writes, it holds that alone, unless
\* others had it open, in which case it is no longer safe.
LEMMA OverwriteInv ==
    ASSUME IInv, NEW r \in Runs, NEW f \in Files, NEW p \in {"cells", "dump", "redump"},
           Go(r, p), Overwrite(r, f), UNCHANGED <<kind, got>>,
           \/ p = "cells" /\ f = Cells(r) /\ kind[r] < 3 /\ pc[r] = "build"
           \/ p # "cells" /\ f = File(r) /\ pc[r] \in {"open", "dump"}
    PROVE  IInv'
<1>1. PICK others \in SUBSET (Runs \ {r}) :
          others = {q \in Runs \ {r} : <<q, f>> \in open}
  OBVIOUS
<1>2. PICK writers \in SUBSET Runs :
          writers = {w \in others : pc[w] # "read"} \cup {r}
  OBVIOUS
<1>3. PICK dumps : dumps = {<<q, Written(q, f)>> : q \in writers}
  OBVIOUS
<1>4. /\ file' = [file EXCEPT ![f] = dumps] /\ open' = open \cup {<<r, f>>}
      /\ view' = [q \in Runs |-> IF q \in others /\ pc[q] = "read"
                                 THEN view[q] \cup dumps ELSE view[q]]
      /\ raced' = IF others = {} THEN raced ELSE raced \cup {f}
  BY <1>1, <1>2, <1>3 DEF Overwrite
<1>5. \A q \in others : Active(q) /\ (pc[q] = "read" => f = File(q))
  BY <1>1 DEF IInv, Opened, Active, Ended
<1>6. dumps \in SUBSET Dumps
  <2>1. \A q \in writers : Written(q, f) \in Values
    BY <1>2, WrittenByRun
  <2> QED BY <1>2, <1>3, <2>1 DEF Dumps
<1>7. /\ file' \in [Files -> SUBSET Dumps] /\ open' \in SUBSET (Runs \X Files)
      /\ view' \in [Runs -> SUBSET Dumps]
      /\ raced \subseteq raced' /\ raced' \subseteq Files
      /\ file'[f] = dumps /\ \A g \in Files : g # f => file'[g] = file[g]
      /\ view'[r] = {} /\ \A q \in Runs : q \notin others => view'[q] = view[q]
  <2>1. view' \in [Runs -> SUBSET Dumps]
    BY <1>4, <1>6 DEF IInv, TypeOK
  <2>2. view[r] = {}
    BY DEF IInv, Opened
  <2>3. /\ file' \in [Files -> SUBSET Dumps] /\ open' \in SUBSET (Runs \X Files)
        /\ file'[f] = dumps /\ \A g \in Files : g # f => file'[g] = file[g]
    BY <1>4, <1>6 DEF IInv, TypeOK
  <2>4. raced \subseteq raced' /\ raced' \subseteq Files
    BY <1>4 DEF IInv, TypeOK
  <2> QED BY <1>1, <1>4, <2>1, <2>2, <2>3, <2>4
<1>8. /\ TypeOK' /\ Progress' /\ Alone' /\ Found' /\ LoneRunRecovers'
      /\ job' = job /\ pc'[r] = p /\ met \subseteq met'
      /\ \A q \in Runs : q # r =>
             /\ pc'[q] = pc[q] /\ kind'[q] = kind[q] /\ (Active(q) => q \in met')
      /\ \A q \in Runs : File(q)' = File(q) /\ Cells(q)' = Cells(q)
  <2>1. p \in Places \ {"done"} /\ p \notin {"load", "read", "unlink", "missing"}
    BY DEF Places
  <2>2. p \in Holding => pc[r] \in Holding
    BY DEF Holding
  <2> QED BY <1>7, <2>1, <2>2, Moved
<1>9. \A q \in Runs, k \in Kinds : Safe(q, k)' => Safe(q, k)
  BY <1>7, <1>8, SafeBefore
\* A file that is still safe had no one else.
<1>10. f \in raced' \/ others = {}
  BY <1>4
<1>11. ASSUME NEW q \in Runs, NEW k \in Kinds, Safe(q, k)', FileOf(job[q], k) = f
       PROVE  others = {}
  <2>1. f \notin raced'
    BY <1>8, <1>11 DEF Safe, Unsafe
  <2> QED BY <1>10, <2>1
<1>12. /\ others = {} => dumps = {<<r, Written(r, f)>>}
       /\ Written(r, f) # Torn
       /\ f = Cells(r) => Written(r, f) = Value(job[r], kind[r])
       /\ f = File(r) => Written(r, f) = got[r][kind[r]] /\ Own(r, kind[r])
  <2>1. others = {} => dumps = {<<r, Written(r, f)>>}
    BY <1>2, <1>3
  <2>2. /\ f = Cells(r) => Written(r, f) = Value(job[r], kind[r])
        /\ f = File(r) => Written(r, f) = got[r][kind[r]]
    BY WrittenByRun
  <2>3. job[r] \in Jobs /\ kind[r] \in Kinds
    BY FileIsOfJob DEF IInv
  <2>4. f = File(r) => f # Cells(r)
    BY FileIsOfJob DEF IInv
  <2>5. f = File(r) => Own(r, kind[r])
    BY <2>3, <2>4 DEF IInv, Progress, Holding
  <2>6. Value(job[r], kind[r]) # Torn
    BY <2>3, ValueTyped
  <2> QED BY <2>1, <2>2, <2>5, <2>6 DEF Own
<1>13. Stored'
  <2> SUFFICES ASSUME NEW q \in Runs, NEW k \in Kinds, Safe(q, k)'
               PROVE  Only(file'[FileOf(job[q], k)], Value(job[q], k))
    BY <1>8 DEF Stored
  <2>1. /\ Safe(q, k) /\ FileOf(job[q], k) \in CacheFiles
        /\ FileOf(job[q], k) \in Files
    BY <1>9, FileIsOfJob DEF IInv
  <2>2. CASE FileOf(job[q], k) # f
    BY <1>7, <2>1, <2>2 DEF IInv, Stored
  <2>3. CASE FileOf(job[q], k) = f
    <3>1. f = File(r)
      BY <2>1, <2>3, FileIsOfJob DEF IInv
    <3>2. PICK l \in Kinds : l = kind[r] /\ f = FileOf(job[r], l)
      BY <3>1, FileIsOfJob DEF IInv
    <3>3. k = l /\ Value(job[q], k) = Value(job[r], k) /\ Safe(r, k)
      BY <2>1, <2>3, <3>2, Shared DEF IInv
    <3>4. ~ Misled(r, k)
      BY <3>3, SafeIsOwn
    <3>5. Written(r, f) = Value(job[q], k)
      BY <1>12, <3>1, <3>2, <3>3, <3>4 DEF Own
    <3>6. dumps = {<<r, Written(r, f)>>}
      BY <1>11, <1>12, <2>3
    <3> QED BY <1>7, <2>3, <3>5, <3>6 DEF Only
  <2> QED BY <2>2, <2>3
<1>14. Viewed'
  <2> SUFFICES ASSUME NEW q \in Runs, Safe(q, kind[q])'
               PROVE  Only(view'[q], Value(job[q], kind[q]))
    BY <1>8 DEF Viewed
  <2>1. PICK k \in Kinds : k = kind[q] /\ k = kind'[q]
    BY DEF IInv, TypeOK
  <2>2. Safe(q, k)'
    BY <2>1 DEF Safe
  <2>3. view'[q] = view[q]
    <3>1. CASE q \in others /\ pc[q] = "read"
      BY <1>5, <1>11, <2>1, <2>2, <3>1 DEF File
    <3>2. CASE ~ (q \in others /\ pc[q] = "read")
      BY <1>4, <3>2
    <3> QED BY <3>1, <3>2
  <2>4. Safe(q, k)
    BY <1>9, <2>2
  <2> QED BY <2>1, <2>3, <2>4 DEF IInv, Viewed
<1>15. Opened'
  <2>1. ASSUME NEW q \in Runs, NEW g \in Files, <<q, g>> \in open'
        PROVE  \/ pc'[q] \in {"read", "dump", "redump"} /\ g = File(q)'
               \/ pc'[q] = "cells" /\ g = Cells(q)'
    <3>1. CASE q = r /\ g = f
      BY <1>8, <3>1
    <3>2. CASE q = r /\ g # f
      <4>1. <<r, g>> \in open
        BY <1>4, <2>1, <3>2
      <4> QED BY <1>8, <3>2, <4>1 DEF IInv, Opened
    <3>3. CASE q # r
      <4>1. <<q, g>> \in open
        BY <1>4, <2>1, <3>3
      <4> QED BY <1>8, <3>3, <4>1 DEF IInv, Opened
    <3> QED BY <3>1, <3>2, <3>3
  <2>2. ASSUME NEW q \in Runs, pc'[q] # "read" PROVE view'[q] = {}
    BY <1>4, <1>7, <1>8, <2>2 DEF IInv, Opened
  <2>3. ASSUME NEW q \in Runs, pc'[q] \in {"load", "read"} PROVE UsesCache(q)'
    BY <1>8, <2>3 DEF IInv, Opened, UsesCache
  <2> QED BY <2>1, <2>2, <2>3 DEF Opened
<1>16. Celled'
  <2> SUFFICES ASSUME NEW q \in Runs, pc'[q] = "cells"
               PROVE  /\ kind'[q] < 3 /\ <<q, Cells(q)'>> \in open'
                      /\ \/ Cells(q)' \in raced'
                         \/ file'[Cells(q)'] = {<<q, Value(job'[q], kind'[q])>>}
    BY DEF Celled
  <2>1. CASE q = r
    <3>1. f = Cells(r) /\ kind[r] < 3
      BY <1>8, <2>1
    <3> QED BY <1>4, <1>7, <1>8, <1>10, <1>12, <2>1, <3>1
  <2>2. CASE q # r
    <3>1. /\ pc[q] = "cells" /\ Cells(q) \in Files /\ Cells(q)' = Cells(q)
          /\ kind'[q] = kind[q] /\ job'[q] = job[q]
      BY <1>8, <2>2, FileIsOfJob DEF IInv
    <3>2. /\ kind[q] < 3 /\ <<q, Cells(q)>> \in open
          /\ \/ Cells(q) \in raced
             \/ file[Cells(q)] = {<<q, Value(job[q], kind[q])>>}
      BY <3>1 DEF IInv, Celled
    <3>3. CASE Cells(q) = f
      <4>1. q \in others
        BY <1>1, <2>2, <3>2, <3>3
      <4> QED BY <1>4, <1>10, <3>1, <3>2, <3>3, <4>1
    <3>4. CASE Cells(q) # f
      BY <1>4, <1>7, <3>1, <3>2, <3>4
    <3> QED BY <3>3, <3>4
  <2> QED BY <2>1, <2>2
<1>17. ASSUME met' = {} PROVE OneDump(f)'
  <2>1. others = {}
    BY <1>1, <1>5, <1>8, <1>17
  <2>2. PICK x : x = <<r, Written(r, f)>>
    OBVIOUS
  <2>3. file'[f] = {x} /\ x[2] # Torn
    BY <1>7, <1>12, <2>1, <2>2
  <2> QED BY <2>3 DEF OneDump
<1>18. Settled'
  <2>1. \A g \in CacheFiles : g # f => file'[g] = file[g]
    BY <1>7, FileIsOfJob DEF IInv
  <2> QED BY <1>8, <1>17, <2>1, SettledKept
<1> QED BY <1>8, <1>13, <1>14, <1>15, <1>16, <1>18 DEF IInv

LEMMA WriteCellsInv == ASSUME IInv, NEW r \in Runs, WriteCells(r) PROVE IInv'
<1>1. Cells(r) \in Files
  BY FileIsOfJob DEF IInv
<1>2. PICK f \in Files : f = Cells(r)
  BY <1>1
<1> QED BY <1>2, OverwriteInv DEF WriteCells

LEMMA TruncateInv == ASSUME IInv, NEW r \in Runs, Truncate(r) PROVE IInv'
<1>1. PICK f \in Files : f = File(r)
  BY FileIsOfJob DEF IInv
<1> QED BY <1>1, OverwriteInv DEF Truncate

\* A file that someone has unlinked meanwhile is no one else's concern.
LEMMA RedumpInv == ASSUME IInv, NEW r \in Runs, Redump(r) PROVE IInv'
<1>1. PICK f \in CacheFiles : f = File(r) /\ f \in Files
  BY FileIsOfJob DEF IInv
<1>2. CASE <<r, f>> \in open
  BY <1>1, <1>2, OverwriteInv DEF Redump
<1>3. CASE <<r, f>> \notin open
  <2>1. /\ UNCHANGED <<kind, got, file, open, view, raced>>
        /\ Go(r, "redump") /\ "redump" \in Places \ {"done"} /\ pc[r] = "dump"
        /\ pc[r] \in Holding
    BY <1>1, <1>3 DEF Redump, Places, Holding
  <2>2. /\ TypeOK' /\ Progress' /\ Alone' /\ Found' /\ LoneRunRecovers'
        /\ job' = job /\ pc'[r] = "redump" /\ met \subseteq met'
        /\ \A q \in Runs : q # r =>
               /\ pc'[q] = pc[q] /\ kind'[q] = kind[q] /\ (Active(q) => q \in met')
    BY <2>1, Moved DEF IInv, TypeOK
  <2>3. view'[r] = {} /\ \A g \in Files : <<r, g>> \notin open'
    BY <1>1, <1>3, <2>1 DEF IInv, Opened
  <2>4. Stored' /\ Viewed' /\ Opened' /\ Celled'
    BY <2>1, <2>2, <2>3, FilesInv
  <2>5. ASSUME met = {}, met' = {},
               \A q \in Runs : pc[q] \notin {"failed", "killed"}
        PROVE  file'[f] = {} \/ OneDump(f)'
    BY <1>1, <2>1, <2>2, <2>5, SettledNow DEF OneDump
  <2>6. Settled'
    BY <1>1, <2>1, <2>2, <2>5, SettledKept
  <2> QED BY <2>2, <2>4, <2>6 DEF IInv
<1> QED BY <1>2, <1>3

----------------------------------------------------------------------------
(* The invariant, and what follows from it.                                *)

LEMMA StutterInv == IInv /\ UNCHANGED vars => IInv'
<1> SUFFICES ASSUME IInv, UNCHANGED vars PROVE IInv'
  OBVIOUS
<1> USE DEF vars
<1>1. \A q \in Runs : File(q)' = File(q) /\ Cells(q)' = Cells(q)
  BY DEF File, Cells
<1>2. \A q \in Runs, k \in Kinds : /\ Safe(q, k)' = Safe(q, k)
                                   /\ Misled(q, k)' = Misled(q, k)
  BY DEF Safe, Misled, MisledOnGraph, Unsafe, Disputed
<1>3. TypeOK' /\ Alone' /\ Found' /\ LoneRunRecovers'
  BY <1>1 DEF IInv, TypeOK, Alone, Active, Found, LoneRunRecovers
<1>4. Stored' /\ Progress'
  BY <1>2 DEF IInv, Stored, Progress, Own
<1>5. Viewed'
  <2>1. \A q \in Runs : Safe(q, kind[q])' = Safe(q, kind[q])
    BY DEF Safe, Unsafe, Disputed
  <2> QED BY <2>1 DEF IInv, Viewed
<1>6. Opened' /\ Celled'
  BY <1>1 DEF IInv, Opened, Celled, UsesCache
<1>7. Settled'
  BY <1>1 DEF IInv, Settled, OneDump
<1> QED BY <1>3, <1>4, <1>5, <1>6, <1>7 DEF IInv

LEMMA NextInv == IInv /\ [Next]_vars => IInv'
BY StartInv, CheckInv, OpenCachedInv, LoadInv, LoadFailsInv, UnlinkInv,
   UnlinkMissingInv, WriteCellsInv, ReadCellsInv, CellsFailInv, CutStagesInv,
   TruncateInv, RedumpInv, DumpStoredInv, DumpSkippedInv, DumpFailsInv, CleanUpInv,
   KilledInv, StutterInv DEF Next

\* The inductive invariant holds throughout.
LEMMA Invariant == Spec => []IInv
<1>1. Init => IInv
  BY InitInv
<1>2. IInv /\ [Next]_vars => IInv'
  BY NextInv
<1> QED BY <1>1, <1>2, PTL DEF Spec

\* Type correctness of the cache protocol.
THEOREM TypeCorrect == Spec => []TypeOK
<1>1. IInv => TypeOK
  BY DEF IInv
<1> QED BY <1>1, Invariant, PTL

\* A verifier process that gets through works on its own two graphs and on stages
\* cut from these, unless another process takes one of the files in question for
\* the cache of something else, or one of them, or of the cells of its graphs, was
\* overwritten while someone had it open.
THEOREM OwnGraphsServed == Spec => []ServesOwnGraphs
<1>1. IInv => ServesOwnGraphs
  BY DEF IInv, Progress, Own, ServesOwnGraphs
<1> QED BY <1>1, Invariant, PTL

\* Only a process that has met another one can find the file gone that it is
\* about to unlink, so a torn file never stops a process that is alone.
THEOREM TornFileIsRecovered == Spec => []LoneRunRecovers
<1>1. IInv => LoneRunRecovers
  BY DEF IInv
<1> QED BY <1>1, Invariant, PTL

\* Processes that follow each other and end without being killed or failing leave
\* only cache files that can be loaded.
THEOREM QuietCacheIsWhole == Spec => []QuietCacheWhole
<1>1. IInv => QuietCacheWhole
  <2> SUFFICES ASSUME IInv, met = {},
                      \A r \in Runs : pc[r] \in {"start", "done", "missing"},
                      NEW f \in CacheFiles
               PROVE  file[f] = {} \/ Whole(f)
    BY DEF QuietCacheWhole
  <2>1. file[f] = {} \/ OneDump(f)
    BY DEF IInv, Settled
  <2>2. f \in Files
    BY DEF CacheFiles, Files
  <2>3. \A r \in Runs : <<r, f>> \notin open
    BY <2>2 DEF IInv, Opened
  <2> QED BY <2>1, <2>3 DEF Whole, OneDump
<1> QED BY <1>1, Invariant, PTL
=============================================================================
