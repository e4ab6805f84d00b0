--------------------------- MODULE PublishProofs ---------------------------
(***************************************************************************)
(* Proofs about Publish, for every finite set of runs and every number of  *)
(* moves by the owner.                                                     *)
(*                                                                         *)
(* The invariant rests on two facts.  A directory has at most one name, so *)
(* that nobody reaches a published or quarantined one by its old name; and *)
(* the position of a run in its script says what it knows about its own    *)
(* directory, whatever other runs and the owner do.                        *)
(***************************************************************************)
EXTENDS Publish, FiniteSetTheorems, TLAPS

\* Steps of the script, by what they mean for the run's directory.
Before    == {"start", "mkdtemp", "refused"}
Filling   == {"prepare", "profile", "sm", "pm", "meta", "sweep", "sweephome"}
Building  == {"mark", "trap"} \cup Filling
Checked   == {"stat", "rename"}
Renamed   == {"statout", "revalidate", "restat"}
Cleaning  == {"clean", "cleanagain", "cleanrename"}
Emptying  == {"cleanremove", "cleanrmdir"}
Away      == {"cleanverify"} \cup Emptying
Steps     == Before \cup Building \cup {"open", "validate"} \cup Checked
               \cup Renamed \cup Cleaning \cup Away
               \cup {"leaked", "failed", "abandoned", "done", "crashed"}

TypeOK ==
    /\ pc \in [Runs -> Steps]
    /\ out \in Inodes \cup {None}
    /\ stage \in [Runs -> Inodes \cup {None}]
    /\ quarantine \in [Runs -> Inodes \cup {None}]
    /\ contents \in [Inodes -> SUBSET Entries]
    /\ fd \in [Runs -> Inodes \cup {None}]
    /\ moves \in Nat
    /\ swapped \subseteq Runs

\* A run's names lead to its own directory, to the unrelated one if the owner
\* has put that there, or nowhere.
OwnNames ==
    \A r \in Runs :
        /\ stage[r] \in {r, Other, None} /\ quarantine[r] \in {r, Other, None}
        /\ r \notin swapped => stage[r] # Other /\ quarantine[r] # Other

\* No two names lead to the same directory.
OneName ==
    /\ \A r \in Runs : stage[r] # None => stage[r] # out
    /\ \A r \in Runs : quarantine[r] # None => quarantine[r] # out
    /\ \A q, r \in Runs : stage[q] # None => stage[q] # quarantine[r]
    /\ \A q, r \in Runs : q # r /\ stage[q] # None => stage[q] # stage[r]
    /\ \A q, r \in Runs :
           q # r /\ quarantine[q] # None => quarantine[q] # quarantine[r]

\* Where the directory of a run is, by the position of the run.
Located ==
    \A r \in Runs :
        /\ pc[r] \in Before => stage[r] = None /\ quarantine[r] = None /\ out # r
        /\ pc[r] \in Building => stage[r] = r /\ quarantine[r] = None
        /\ pc[r] \in {"open", "validate"} \cup Checked \cup Cleaning =>
               quarantine[r] = None
        /\ pc[r] \in Renamed \cup {"done"} =>
               stage[r] = None /\ quarantine[r] = None
        /\ pc[r] \in Away => stage[r] = None /\ quarantine[r] = fd[r]

\* What is in it, and what the run has open.
Known ==
    \A r \in Runs :
        /\ pc[r] \in Filling \cup {"trap", "open", "validate"} \cup Checked
                       \cup Renamed \cup Cleaning \cup {"cleanverify"} =>
               "marker" \in contents[r]
        /\ pc[r] = "validate" => fd[r] \in {r, Other}
        /\ pc[r] \in Checked \cup Renamed \cup {"done"} =>
               fd[r] \in {r, Other} /\ contents[fd[r]] = Expected
        /\ pc[r] \in {"validate"} \cup Checked \cup Renamed /\ fd[r] = Other =>
               r \in swapped /\ stage[r] # r
        /\ pc[r] \in Emptying => fd[r] = r

\* A run's directory at the target has been validated.
Complete == \A r \in Runs : out = r => contents[r] = Expected

\* A run that has ended by itself has cleaned up.
Tidy ==
    \A r \in Runs :
        pc[r] \in {"failed", "done"} /\ r \notin swapped
        => stage[r] # r /\ quarantine[r] = None

IInv == /\ TypeOK /\ OwnNames /\ OneName /\ Located /\ Known
        /\ Complete /\ Tidy

\* The sets of positions are expanded in every proof below.
USE DEF Before, Filling, Building, Checked, Renamed, Cleaning, Emptying, Away

LEMMA InitInv == Init => IInv
<1> SUFFICES ASSUME Init PROVE IInv
  OBVIOUS
<1> USE PublishAssumption DEF Init
<1>1. TypeOK
  <2>1. contents \in [Inodes -> SUBSET Entries]
    BY DEF Inodes, Entries, Expected, Artifacts
  <2> QED BY <2>1 DEF TypeOK, Steps, Inodes
<1>2. OwnNames /\ OneName /\ Located /\ Known
  BY DEF OwnNames, OneName, Located, Known, Inodes
<1>3. Complete /\ Tidy
  BY DEF Complete, Tidy
<1> QED BY <1>1, <1>2, <1>3 DEF IInv

----------------------------------------------------------------------------
(* The steps of a run that leave all directories and names alone.          *)

\* What such a step keeps, apart from what depends on the position.
LEMMA Frame ==
    ASSUME IInv, UNCHANGED <<out, stage, quarantine, contents, swapped>>
    PROVE  OwnNames' /\ OneName'
BY DEF IInv, OwnNames, OneName

LEMMA CheckOutInv == ASSUME NEW r \in Runs, IInv, CheckOut(r) PROVE IInv'
<1> USE DEF CheckOut, Goto, fsVars, ownerVars
<1>1. TypeOK'
  BY DEF IInv, TypeOK, Steps
<1>2. OwnNames' /\ OneName'
  BY Frame
<1>3. Located' /\ Known'
  BY DEF IInv, TypeOK, Located, Known
<1>4. Complete' /\ Tidy'
  BY DEF IInv, TypeOK, Located, Known, Complete, Tidy
<1> QED BY <1>1, <1>2, <1>3, <1>4 DEF IInv

LEMMA SetTrapInv == ASSUME NEW r \in Runs, IInv, SetTrap(r) PROVE IInv'
<1> USE DEF SetTrap, Goto, fsVars, ownerVars
<1>1. TypeOK'
  BY DEF IInv, TypeOK, Steps
<1>2. OwnNames' /\ OneName'
  BY Frame
<1>3. Located' /\ Known'
  BY DEF IInv, TypeOK, Located, Known
<1>4. Complete' /\ Tidy'
  BY DEF IInv, TypeOK, Located, Known, Complete, Tidy
<1> QED BY <1>1, <1>2, <1>3, <1>4 DEF IInv

LEMMA StatStageInv == ASSUME NEW r \in Runs, IInv, StatStage(r) PROVE IInv'
<1> USE DEF StatStage, Goto, fsVars, ownerVars
<1>1. TypeOK'
  BY DEF IInv, TypeOK, Steps
<1>2. OwnNames' /\ OneName'
  BY Frame
<1>3. Located' /\ Known'
  BY DEF IInv, TypeOK, Located, Known
<1>4. Complete' /\ Tidy'
  BY DEF IInv, TypeOK, Located, Known, Complete, Tidy
<1> QED BY <1>1, <1>2, <1>3, <1>4 DEF IInv

LEMMA StatOutInv == ASSUME NEW r \in Runs, IInv, StatOut(r) PROVE IInv'
<1> USE DEF StatOut, Goto, fsVars, ownerVars, TargetIsOwn
<1>1. TypeOK'
  BY DEF IInv, TypeOK, Steps
<1>2. OwnNames' /\ OneName'
  BY Frame
<1>3. Located' /\ Known'
  BY DEF IInv, TypeOK, Located, Known
<1>4. Complete'
  BY DEF IInv, TypeOK, Known, Complete
<1>5. stage[r] = None /\ quarantine[r] = None
  BY DEF IInv, Located
<1>6. \A q \in Runs : q # r => pc'[q] = pc[q]
  BY DEF IInv, TypeOK
<1>7. Tidy'
  BY <1>5, <1>6, PublishAssumption DEF IInv, Tidy
<1> QED BY <1>1, <1>2, <1>3, <1>4, <1>7 DEF IInv

LEMMA FailInv == ASSUME NEW r \in Runs, IInv, Fail(r) PROVE IInv'
<1> USE DEF Fail, Goto, fsVars, ownerVars, Trapped
<1>1. TypeOK'
  BY DEF IInv, TypeOK, Steps
<1>2. OwnNames' /\ OneName'
  BY Frame
<1>3. Located' /\ Known'
  BY DEF IInv, TypeOK, Located, Known
<1>4. Complete' /\ Tidy'
  BY DEF IInv, TypeOK, Located, Known, Complete, Tidy
<1> QED BY <1>1, <1>2, <1>3, <1>4 DEF IInv

LEMMA CleanCheckInv == ASSUME NEW r \in Runs, IInv, CleanCheck(r) PROVE IInv'
<1> USE DEF CleanCheck, Goto, fsVars, ownerVars
<1>1. TypeOK'
  BY DEF IInv, TypeOK, Steps
<1>2. OwnNames' /\ OneName'
  BY Frame
<1>3. Located' /\ Known'
  BY DEF IInv, TypeOK, Located, Known
<1>4. Complete' /\ Tidy'
  BY DEF IInv, TypeOK, Located, Known, Complete, Tidy
<1> QED BY <1>1, <1>2, <1>3, <1>4 DEF IInv

LEMMA CrashInv == ASSUME NEW r \in Runs, IInv, Crash(r) PROVE IInv'
<1> USE DEF Crash, Goto, fsVars, ownerVars
<1>1. TypeOK'
  BY DEF IInv, TypeOK, Steps
<1>2. OwnNames' /\ OneName'
  BY Frame
<1>3. Located' /\ Known'
  BY DEF IInv, TypeOK, Located, Known
<1>4. Complete' /\ Tidy'
  BY DEF IInv, TypeOK, Located, Known, Complete, Tidy
<1> QED BY <1>1, <1>2, <1>3, <1>4 DEF IInv

----------------------------------------------------------------------------
(* The steps that write into the stage, or sweep it.                       *)

\* While the stage is filled it has its own name, so it is not published, and
\* whatever is written there matters to nobody else, if the marker stays.
LEMMA FillInv ==
    ASSUME NEW r \in Runs, NEW from \in Building,
           NEW to \in Filling \cup {"trap", "open"},
           NEW entries \in SUBSET Entries, "marker" \in entries,
           IInv, Goto(r, from, to),
           contents' = [contents EXCEPT ![r] = entries],
           UNCHANGED <<out, stage, quarantine, fd, ownerVars>>
    PROVE  IInv'
<1> USE PublishAssumption DEF Goto, ownerVars
<1>1. TypeOK'
  BY DEF IInv, TypeOK, Steps, Inodes
<1>2. OwnNames' /\ OneName'
  BY DEF IInv, OwnNames, OneName
<1>4. /\ \A q \in Runs : q # r => pc'[q] = pc[q] /\ contents'[q] = contents[q]
      /\ pc'[r] = to /\ contents'[r] = entries
      /\ contents'[Other] = contents[Other]
  BY DEF IInv, TypeOK, Inodes
<1>5. stage[r] = r /\ quarantine[r] = None /\ out # r
  BY DEF IInv, Located, OneName
<1>6. Located'
  BY <1>4, <1>5 DEF IInv, Located
<1>7. Known'
  BY <1>4 DEF IInv, Known
<1>8. Complete' /\ Tidy'
  BY <1>4, <1>5 DEF IInv, Complete, Tidy
<1> QED BY <1>1, <1>2, <1>6, <1>7, <1>8 DEF IInv

LEMMA WriteInv ==
    ASSUME NEW r \in Runs, NEW from \in Filling, NEW to \in Filling,
           NEW new \in SUBSET Entries, IInv, Write(r, from, to, new)
    PROVE  IInv'
<1>1. "marker" \in contents[r] /\ contents[r] \cup new \in SUBSET Entries
  BY DEF IInv, TypeOK, Known, Write, Goto, Inodes
<1> QED BY <1>1, FillInv DEF Write

LEMMA StageFilledInv ==
    ASSUME NEW r \in Runs, IInv,
           WriteMarker(r) \/ Prepare(r) \/ Profile(r) \/ Compile(r)
             \/ Metadata(r) \/ Sweep(r) \/ SweepHome(r)
    PROVE  IInv'
<1>1. contents[r] \in SUBSET Entries
  BY DEF IInv, TypeOK, Inodes
<1>2. CASE WriteMarker(r)
  BY <1>1, <1>2, FillInv DEF WriteMarker, Entries
<1>3. CASE Prepare(r)
  BY <1>3, WriteInv DEF Prepare, Entries
<1>4. CASE Profile(r)
  BY <1>4, WriteInv DEF Profile, Entries, Artifacts
<1>5. CASE Compile(r)
  <2> PICK residue \in SUBSET {"residue"} :
             \/ Write(r, "sm", "pm", {"sm"} \cup residue)
             \/ Write(r, "pm", "meta", {"pm"} \cup residue)
    BY <1>5 DEF Compile
  <2>1. {"sm"} \cup residue \in SUBSET Entries /\ {"pm"} \cup residue \in SUBSET Entries
    BY DEF Entries, Artifacts
  <2> QED BY <2>1, WriteInv
<1>6. CASE Metadata(r)
  BY <1>6, WriteInv DEF Metadata, Entries, Artifacts
<1>7. CASE Sweep(r)
  <2>1. "marker" \in contents[r] \ Swept
    BY <1>7 DEF Sweep, Swept, Goto, IInv, Known
  <2> QED BY <1>1, <1>7, <2>1, FillInv DEF Sweep
<1>8. CASE SweepHome(r)
  <2>1. "marker" \in contents[r] \ {"home"}
    BY <1>8 DEF SweepHome, Goto, IInv, Known
  <2> QED BY <1>1, <1>8, <2>1, FillInv DEF SweepHome
<1> QED BY <1>2, <1>3, <1>4, <1>5, <1>6, <1>7, <1>8

----------------------------------------------------------------------------
(* The stage gets its name; it is opened, validated and published.         *)

LEMMA MakeStageInv == ASSUME NEW r \in Runs, IInv, MakeStage(r) PROVE IInv'
<1> USE PublishAssumption DEF MakeStage, Goto, ownerVars
<1>1. TypeOK'
  BY DEF IInv, TypeOK, Steps, Inodes
<1>2. \A q \in Runs : q # r => pc'[q] = pc[q] /\ stage'[q] = stage[q]
  BY DEF IInv, TypeOK
<1>3. /\ stage'[r] = r /\ pc'[r] = "mark"
      /\ stage[r] = None /\ quarantine[r] = None /\ out # r
  BY DEF IInv, TypeOK, Located
<1>4. \A q \in Runs : q # r => stage[q] # r /\ quarantine[q] # r
  BY DEF IInv, OwnNames
<1>5. OwnNames' /\ OneName'
  BY <1>2, <1>3, <1>4 DEF IInv, OwnNames, OneName
<1>6. Located' /\ Known'
  BY <1>2, <1>3 DEF IInv, Located, Known
<1>7. Complete' /\ Tidy'
  BY <1>2, <1>3 DEF IInv, Complete, Tidy
<1> QED BY <1>1, <1>5, <1>6, <1>7 DEF IInv

LEMMA OpenStageInv == ASSUME NEW r \in Runs, IInv, OpenStage(r) PROVE IInv'
<1> USE DEF OpenStage, Goto, fsVars, ownerVars
<1>1. TypeOK'
  BY DEF IInv, TypeOK, Steps
<1>2. OwnNames' /\ OneName'
  BY Frame
<1>3. /\ \A q \in Runs : q # r => pc'[q] = pc[q] /\ fd'[q] = fd[q]
      /\ pc'[r] = "validate" /\ fd'[r] \in {r, Other}
      /\ fd'[r] = Other => r \in swapped /\ stage[r] # r
  BY PublishAssumption DEF IInv, TypeOK, OwnNames
<1>4. Located' /\ Known'
  BY <1>3, PublishAssumption DEF IInv, Located, Known
<1>5. Complete' /\ Tidy'
  BY <1>3 DEF IInv, Complete, Tidy
<1> QED BY <1>1, <1>2, <1>4, <1>5 DEF IInv

\* The directory that passes is the run's own, or the unrelated one that has
\* taken its place.
LEMMA ValidateInv == ASSUME NEW r \in Runs, IInv, Validate(r) PROVE IInv'
<1> USE DEF Validate, Goto, fsVars, ownerVars
<1>1. TypeOK'
  BY DEF IInv, TypeOK, Steps
<1>2. OwnNames' /\ OneName'
  BY Frame
<1>3. /\ \A q \in Runs : q # r => pc'[q] = pc[q]
      /\ \/ pc[r] = "validate" /\ pc'[r] = "stat"
         \/ pc[r] = "revalidate" /\ pc'[r] = "restat"
  BY DEF IInv, TypeOK
<1>4. /\ fd[r] \in {r, Other} /\ contents[fd[r]] = Expected
      /\ fd[r] = Other => r \in swapped /\ stage[r] # r
  BY DEF Allowed, IInv, Known
<1>5. Located'
  BY <1>3 DEF IInv, Located
<1>6. Known'
  BY <1>3, <1>4 DEF IInv, Known, Expected
<1>7. Complete' /\ Tidy'
  BY <1>3 DEF IInv, Complete, Tidy
<1> QED BY <1>1, <1>2, <1>5, <1>6, <1>7 DEF IInv

LEMMA RenameInv == ASSUME NEW r \in Runs, IInv, Rename(r) PROVE IInv'
<1> USE PublishAssumption DEF Rename, Goto, StageRenamed, TargetFree, ownerVars
<1>1. TypeOK'
  BY DEF IInv, TypeOK, Steps
<1>2. \A q \in Runs : q # r => pc'[q] = pc[q] /\ stage'[q] = stage[q]
  BY DEF IInv, TypeOK
<1>3. /\ stage'[r] = None /\ pc'[r] = "statout" /\ out' = stage[r]
      /\ quarantine[r] = None
      /\ stage[r] = r => contents[r] = Expected
  BY DEF IInv, TypeOK, Located, Known
<1>4. OwnNames'
  BY <1>2, <1>3 DEF IInv, OwnNames
<1>5. OneName'
  BY <1>2, <1>3 DEF IInv, OneName
<1>6. Located'
  BY <1>2, <1>3 DEF IInv, Located, OwnNames
<1>7. Known'
  BY <1>2, <1>3 DEF IInv, Known
<1>8. Complete' /\ Tidy'
  BY <1>2, <1>3 DEF IInv, OwnNames, Complete, Tidy
<1> QED BY <1>1, <1>4, <1>5, <1>6, <1>7, <1>8 DEF IInv

----------------------------------------------------------------------------
(* Cleanup through the quarantine name.                                    *)

LEMMA CleanRenameInv == ASSUME NEW r \in Runs, IInv, CleanRename(r) PROVE IInv'
<1> USE PublishAssumption DEF CleanRename, Goto, StageRenamed, ownerVars
<1>1. TypeOK'
  BY DEF IInv, TypeOK, Steps
<1>2. \A q \in Runs : q # r =>
          /\ pc'[q] = pc[q] /\ stage'[q] = stage[q]
          /\ quarantine'[q] = quarantine[q] /\ fd'[q] = fd[q]
  BY DEF IInv, TypeOK
<1>3. /\ quarantine[r] = None /\ "marker" \in contents[r]
      /\ stage'[r] = None /\ quarantine'[r] = stage[r]
      /\ \/ pc'[r] = "cleanverify" /\ fd'[r] = stage[r]
         \/ pc'[r] = "failed" /\ stage[r] = None
  BY DEF IInv, TypeOK, Located, Known
<1>4. OwnNames'
  BY <1>2, <1>3 DEF IInv, OwnNames
<1>5. OneName'
  BY <1>2, <1>3 DEF IInv, OneName
<1>6. Located' /\ Known'
  BY <1>2, <1>3 DEF IInv, Located, Known
<1>7. Complete' /\ Tidy'
  BY <1>2, <1>3 DEF IInv, Complete, Tidy
<1> QED BY <1>1, <1>4, <1>5, <1>6, <1>7 DEF IInv

LEMMA CleanVerifyInv == ASSUME NEW r \in Runs, IInv, CleanVerify(r) PROVE IInv'
<1> USE DEF CleanVerify, Goto, Owned, fsVars, ownerVars
<1>1. TypeOK'
  BY DEF IInv, TypeOK, Steps
<1>2. OwnNames' /\ OneName'
  BY Frame
<1>3. \A q \in Runs : q # r => pc'[q] = pc[q]
  BY DEF IInv, TypeOK
<1>4. /\ pc[r] = "cleanverify" /\ pc'[r] \in {"cleanremove", "failed"}
      /\ pc'[r] = "failed" <=> fd[r] # r
      /\ stage[r] = None /\ quarantine[r] = fd[r]
  BY DEF IInv, TypeOK, Located, Known
<1>5. Located' /\ Known'
  BY <1>3, <1>4 DEF IInv, Located, Known
<1>6. Complete'
  BY <1>3, <1>4 DEF IInv, Complete
<1>7. Tidy'
  BY <1>3, <1>4, PublishAssumption DEF IInv, OwnNames, Tidy
<1> QED BY <1>1, <1>2, <1>5, <1>6, <1>7 DEF IInv

\* Only the quarantined stage of this run is emptied.
LEMMA CleanRemoveInv == ASSUME NEW r \in Runs, IInv, CleanRemove(r) PROVE IInv'
<1> USE PublishAssumption DEF CleanRemove, Goto, ownerVars
<1>1. fd[r] = r /\ stage[r] = None /\ quarantine[r] = r
  BY DEF IInv, Located, Known
<1>2. TypeOK'
  BY <1>1 DEF IInv, TypeOK, Steps, Inodes
<1>3. OwnNames' /\ OneName'
  BY DEF IInv, OwnNames, OneName
<1>4. /\ \A q \in Runs : q # r => pc'[q] = pc[q] /\ contents'[q] = contents[q]
      /\ contents'[Other] = contents[Other]
      /\ pc'[r] = "cleanrmdir"
  BY <1>1 DEF IInv, TypeOK, Inodes
<1>5. Located' /\ Known'
  BY <1>1, <1>4 DEF IInv, Located, Known
<1>6. Complete' /\ Tidy'
  BY <1>1, <1>4 DEF IInv, OneName, Complete, Tidy
<1> QED BY <1>2, <1>3, <1>5, <1>6 DEF IInv

\* A cleanup that raises leaves the names as they are, and has removed entries
\* only from the quarantined stage of this run.
LEMMA CleanFailInv == ASSUME NEW r \in Runs, IInv, CleanFail(r) PROVE IInv'
<1> USE PublishAssumption DEF CleanFail, Cleanup, ownerVars
<1>1. /\ pc'[r] = "abandoned"
      /\ \A q \in Runs : q # r => pc'[q] = pc[q] /\ contents'[q] = contents[q]
      /\ contents'[Other] = contents[Other]
      /\ contents'[r] \subseteq contents[r]
      /\ contents'[r] # contents[r] => pc[r] = "cleanremove"
  BY DEF IInv, TypeOK, Inodes
<1>2. TypeOK'
  BY DEF IInv, TypeOK, Steps, Inodes
<1>3. OwnNames' /\ OneName'
  BY DEF IInv, OwnNames, OneName
<1>4. Located' /\ Known'
  BY <1>1 DEF IInv, Located, Known
<1>5. Complete' /\ Tidy'
  <2>1. pc[r] = "cleanremove" => out # r
    BY DEF IInv, Known, Located, OneName
  <2> QED BY <1>1, <2>1 DEF IInv, Complete, Tidy
<1> QED BY <1>2, <1>3, <1>4, <1>5 DEF IInv

LEMMA CleanRmdirInv == ASSUME NEW r \in Runs, IInv, CleanRmdir(r) PROVE IInv'
<1> USE PublishAssumption DEF CleanRmdir, Goto, ownerVars
<1>1. TypeOK'
  BY DEF IInv, TypeOK, Steps
<1>2. /\ \A q \in Runs : q # r =>
             pc'[q] = pc[q] /\ quarantine'[q] = quarantine[q]
      /\ pc'[r] = "failed" /\ quarantine'[r] = None /\ stage[r] = None
  BY DEF IInv, TypeOK, Located
<1>3. OwnNames' /\ OneName'
  BY <1>2 DEF IInv, OwnNames, OneName
<1>4. Located' /\ Known'
  BY <1>2 DEF IInv, Located, Known
<1>5. Complete' /\ Tidy'
  BY <1>2 DEF IInv, Complete, Tidy
<1> QED BY <1>1, <1>3, <1>4, <1>5 DEF IInv

----------------------------------------------------------------------------
(* The owner.                                                              *)

LEMMA ArchiveInv == ASSUME IInv, Archive PROVE IInv'
<1> USE PublishAssumption DEF Archive
<1>1. TypeOK'
  BY DEF IInv, TypeOK
<1>2. OwnNames' /\ OneName'
  BY DEF IInv, OwnNames, OneName
<1>3. Located' /\ Known'
  BY DEF IInv, Located, Known
<1>4. Complete' /\ Tidy'
  BY DEF IInv, Complete, Tidy
<1> QED BY <1>1, <1>2, <1>3, <1>4 DEF IInv

LEMMA OccupyInv == ASSUME IInv, Occupy PROVE IInv'
<1> USE PublishAssumption DEF Occupy
<1>1. TypeOK'
  BY DEF IInv, TypeOK, Inodes
<1>2. OwnNames' /\ OneName'
  BY DEF IInv, OwnNames, OneName
<1>3. Located' /\ Known'
  BY DEF IInv, Located, Known
<1>4. Complete' /\ Tidy'
  BY DEF IInv, Complete, Tidy
<1> QED BY <1>1, <1>2, <1>3, <1>4 DEF IInv

LEMMA SwapInv == ASSUME NEW r \in Runs, IInv, Swap(r) PROVE IInv'
<1> USE PublishAssumption DEF Swap
<1>1. TypeOK'
  BY DEF IInv, TypeOK, Inodes
<1>2. /\ \A q \in Runs : q # r => stage'[q] = stage[q]
      /\ stage'[r] = Other
  BY DEF IInv, TypeOK
<1>3. OwnNames' /\ OneName'
  BY <1>2 DEF IInv, OwnNames, OneName
<1>4. Located'
  BY <1>2 DEF IInv, Located
<1>5. Known'
  BY DEF IInv, Known
<1>6. Complete' /\ Tidy'
  BY <1>2 DEF IInv, Complete, Tidy
<1> QED BY <1>1, <1>3, <1>4, <1>5, <1>6 DEF IInv

----------------------------------------------------------------------------
(* The invariant, and what follows from it.                                *)

LEMMA RunInv == ASSUME NEW r \in Runs, IInv, Run(r) PROVE IInv'
BY CheckOutInv, MakeStageInv, SetTrapInv, StageFilledInv, OpenStageInv,
   ValidateInv, StatStageInv, RenameInv, StatOutInv, FailInv, CleanCheckInv,
   CleanRenameInv, CleanVerifyInv, CleanRemoveInv, CleanRmdirInv, CleanFailInv DEF Run

LEMMA StutterInv == IInv /\ UNCHANGED vars => IInv'
BY DEF vars, IInv, TypeOK, OwnNames, OneName, Located, Known,
       Complete, Tidy

LEMMA NextInv == IInv /\ [Next]_vars => IInv'
BY RunInv, CrashInv, ArchiveInv, OccupyInv, SwapInv, StutterInv DEF Next, Owner

\* The inductive invariant holds throughout.
LEMMA Invariant == Spec => []IInv
<1>1. Init => IInv
  BY InitInv
<1>2. IInv /\ [Next]_vars => IInv'
  BY NextInv
<1> QED BY <1>1, <1>2, PTL DEF Spec

\* Type correctness of the publication protocol.
THEOREM TypeCorrect == Spec => []TypeOK
<1>1. IInv => TypeOK
  BY DEF IInv
<1> QED BY <1>1, Invariant, PTL

\* What is published, and what a run has reported as published, is complete:
\* neither a cleanup nor another run changes it.
THEOREM PublicationIsComplete == Spec => []PublishedComplete
<1>1. IInv => PublishedComplete
  BY DEF IInv, Complete, Known, PublishedComplete
<1> QED BY <1>1, Invariant, PTL

\* A set with at most one element has cardinality 0 or 1.
LEMMA AtMostOne ==
    ASSUME NEW S, \A x, y \in S : x = y
    PROVE  Cardinality(S) \in {0, 1} /\ (Cardinality(S) = 1 => S # {})
<1>1. CASE S = {}
  BY <1>1, FS_EmptySet
<1>2. CASE S # {}
  <2> PICK x \in S : TRUE
    BY <1>2
  <2>1. S = {x}
    OBVIOUS
  <2> QED BY <2>1, FS_Singleton
<1> QED BY <1>1, <1>2

LEMMA NameCounted ==
    ASSUME IInv, NEW d \in Inodes
    PROVE  NameCount(d) <= 1
<1> DEFINE Target == {n \in {out} : n = d}
           Stages == {r \in Runs : stage[r] = d}
           Quarantines == {r \in Runs : quarantine[r] = d}
<1>1. d # None
  BY PublishAssumption DEF Inodes
<1>2. \A x, y \in Target : x = y
  OBVIOUS
<1>3. \A x, y \in Stages : x = y
  BY <1>1 DEF IInv, OneName
<1>4. \A x, y \in Quarantines : x = y
  BY <1>1 DEF IInv, OneName
<1>5. /\ Target # {} => Stages = {} /\ Quarantines = {}
      /\ Stages # {} => Quarantines = {}
  BY <1>1 DEF IInv, OneName
<1> HIDE DEF Target, Stages, Quarantines
<1>6. /\ Cardinality(Target) \in {0, 1}
      /\ Cardinality(Stages) \in {0, 1}
      /\ Cardinality(Quarantines) \in {0, 1}
  BY <1>2, <1>3, <1>4, AtMostOne
<1>7. /\ Cardinality(Target) = 1 => Target # {}
      /\ Cardinality(Stages) = 1 => Stages # {}
      /\ Cardinality(Quarantines) = 1 => Quarantines # {}
  BY <1>2, <1>3, <1>4, AtMostOne
<1>8. Cardinality({}) = 0
  BY FS_EmptySet
<1>9. Cardinality(Target) + Cardinality(Stages) + Cardinality(Quarantines) <= 1
  BY <1>5, <1>6, <1>7, <1>8
<1> QED BY <1>9 DEF NameCount, Target, Stages, Quarantines

\* A directory never has two names, and a run that ends by itself leaves neither
\* a stage nor a quarantine, unless it failed without a trap, a system call of
\* its cleanup failed, or the owner has replaced its stage.
THEOREM NothingLeft == Spec => []NoLeftover
<1>1. IInv => NoLeftover
  BY NameCounted DEF IInv, Tidy, NoLeftover
<1> QED BY <1>1, Invariant, PTL

\* Nobody but the owner takes away or replaces what is at the target.
THEOREM TargetKept == Spec => NeverReplaced
<1>1. [Next]_vars => [out # None /\ out' # out => moves' = moves + 1]_vars
  <2> SUFFICES ASSUME Next, out # None, out' # out
               PROVE  moves' = moves + 1
    BY DEF vars
  <2>1. ASSUME NEW r \in Runs, Run(r) PROVE FALSE
    BY <2>1 DEF Run, CheckOut, MakeStage, WriteMarker, SetTrap, Write, Prepare,
       Profile, Compile, Metadata, Sweep, SweepHome, OpenStage, Validate,
       StatStage, Rename, TargetFree, StatOut, Fail, CleanCheck, CleanRename,
       CleanVerify, CleanRemove, CleanRmdir, CleanFail, fsVars
  <2>2. ASSUME NEW r \in Runs, Crash(r) \/ Swap(r) PROVE FALSE
    BY <2>2 DEF Crash, Swap, fsVars
  <2>3. Archive \/ Occupy => moves' = moves + 1
    BY DEF Archive, Occupy
  <2> QED BY <2>1, <2>2, <2>3 DEF Next, Owner
<1> QED BY <1>1, PTL DEF Spec, NeverReplaced

\* A run reports success only while the directory it has opened is at the
\* target, validated, and that is its own unless its stage was replaced.
THEOREM SuccessReported == Spec => SuccessIsOwn
<1>1. IInv /\ [Next]_vars =>
        [\A r \in Runs : pc[r] # "done" /\ pc'[r] = "done"
           => /\ out = fd[r] /\ contents[out] = Expected
              /\ r \notin swapped => out = r]_vars
  <2> SUFFICES ASSUME IInv, Next, NEW r \in Runs, pc[r] # "done", pc'[r] = "done"
               PROVE  /\ out = fd[r] /\ contents[out] = Expected
                      /\ r \notin swapped => out = r
    BY DEF vars
  <2>1. ASSUME NEW q \in Runs, Run(q) PROVE StatOut(q) /\ q = r
    <3>1. \A from, to : Goto(q, from, to) => to = "done" /\ q = r
      BY DEF Goto, IInv, TypeOK
    <3>2. ~ \E from, to, new : to # "done" /\ Write(q, from, to, new)
      BY <3>1 DEF Write
    <3>3. ~ (Prepare(q) \/ Profile(q) \/ Compile(q) \/ Metadata(q))
      BY <3>2 DEF Prepare, Profile, Compile, Metadata
    <3>4. ~ (CheckOut(q) \/ MakeStage(q) \/ WriteMarker(q) \/ SetTrap(q)
               \/ Sweep(q) \/ SweepHome(q) \/ OpenStage(q) \/ Validate(q)
               \/ StatStage(q) \/ Rename(q))
      BY <3>1 DEF CheckOut, MakeStage, WriteMarker, SetTrap, Sweep, SweepHome,
         OpenStage, Validate, StatStage, Rename
    <3>5. ~ Fail(q)
      BY <3>1 DEF Fail, Goto, IInv, TypeOK
    <3>6. ~ (CleanCheck(q) \/ CleanRename(q) \/ CleanVerify(q)
               \/ CleanRemove(q) \/ CleanRmdir(q) \/ CleanFail(q))
      BY <3>1 DEF CleanCheck, CleanRename, CleanVerify, CleanRemove, CleanRmdir,
         CleanFail, IInv, TypeOK
    <3>7. StatOut(q)
      BY <2>1, <3>3, <3>4, <3>5, <3>6 DEF Run
    <3> QED BY <3>1, <3>7 DEF StatOut
  <2>2. ASSUME NEW q \in Runs, Crash(q) PROVE FALSE
    BY <2>2 DEF Crash, IInv, TypeOK
  <2>3. ~ Owner
    BY DEF Owner, Archive, Occupy, Swap
  <2>4. StatOut(r)
    BY <2>1, <2>2, <2>3 DEF Next
  <2>5. pc[r] = "restat"
    BY <2>4 DEF StatOut, Goto, IInv, TypeOK
  <2> QED BY <2>4, <2>5 DEF StatOut, TargetIsOwn, IInv, Known
<1> QED BY <1>1, Invariant, PTL DEF Spec, SuccessIsOwn

\* No step changes what is in a directory that no run has created.
THEOREM ForeignKept == Spec => UnrelatedKept
<1>1. IInv /\ [Next]_vars => [contents'[Other] = contents[Other]]_vars
  <2> USE PublishAssumption
  <2> SUFFICES ASSUME IInv, Next PROVE contents'[Other] = contents[Other]
    BY DEF vars
  <2>1. ASSUME NEW r \in Runs, NEW new, contents' = [contents EXCEPT ![r] = new]
        PROVE  contents'[Other] = contents[Other]
    BY <2>1 DEF IInv, TypeOK, Inodes
  <2>2. ASSUME NEW r \in Runs, CleanRemove(r) \/ CleanFail(r)
        PROVE  contents'[Other] = contents[Other]
    BY <2>1, <2>2 DEF CleanRemove, CleanFail, Goto, IInv, Known
  <2>3. ASSUME NEW r \in Runs,
               Prepare(r) \/ Profile(r) \/ Compile(r) \/ Metadata(r)
        PROVE  contents'[Other] = contents[Other]
    BY <2>1, <2>3 DEF Write, Prepare, Profile, Compile, Metadata
  <2>4. ASSUME NEW r \in Runs, WriteMarker(r) \/ Sweep(r) \/ SweepHome(r)
        PROVE  contents'[Other] = contents[Other]
    BY <2>1, <2>4 DEF WriteMarker, Sweep, SweepHome
  <2>5. ASSUME NEW r \in Runs, Run(r) PROVE contents'[Other] = contents[Other]
    BY <2>2, <2>3, <2>4, <2>5 DEF Run, CheckOut, MakeStage, SetTrap, OpenStage,
       Validate, StatStage, Rename, StatOut, Fail, CleanCheck, CleanRename,
       CleanVerify, CleanRmdir, fsVars
  <2>6. ASSUME NEW r \in Runs, Crash(r) PROVE contents'[Other] = contents[Other]
    BY <2>6 DEF Crash, fsVars
  <2>7. Owner => contents'[Other] = contents[Other]
    BY DEF Owner, Archive, Occupy, Swap
  <2> QED BY <2>5, <2>6, <2>7 DEF Next
<1> QED BY <1>1, Invariant, PTL DEF Spec, UnrelatedKept
=============================================================================
