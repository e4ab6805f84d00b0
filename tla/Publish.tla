------------------------------ MODULE Publish ------------------------------
(***************************************************************************)
(* Authority generation and publication (scripts/yoco_regen):              *)
(* generate_authority.sh builds an authority in a private stage directory  *)
(* beside its target, atomic_publish.py validates the stage and renames it *)
(* to the target, safe_cleanup.py removes the stage when the script exits  *)
(* early.  Several runs share one target; any of them may be killed, and   *)
(* the owner of the tree moves directories about while they work.          *)
(*                                                                         *)
(* A directory is an inode with a set of entries; a name in the parent     *)
(* directory holds an inode or None.  The system calls that look at or     *)
(* change a name are separate steps.                                       *)
(*                                                                         *)
(* Some definitions come in pairs (AllowedSuperset, Allowed): the first is *)
(* what a plausible slip would make of the second.  No action uses it; it  *)
(* is there to show that the properties tell the two apart.                *)
(***************************************************************************)
EXTENDS Naturals, FiniteSets

CONSTANTS Runs,      \* generator processes; a run also names its stage inode
          Other,     \* the inode of an unrelated directory
          None,      \* no inode
          MaxMoves   \* bound: how often the owner moves a directory

ASSUME PublishAssumption ==
    /\ IsFiniteSet(Runs)
    /\ Other \notin Runs /\ None \notin Runs /\ Other # None
    /\ MaxMoves \in Nat

VARIABLES
    pc,         \* where each run is
    out,        \* inode under the target name
    stage,      \* inode under the stage name of each run
    quarantine, \* inode under the quarantine name of each run's cleanup
    contents,   \* entries of each directory
    fd,         \* directory a run has opened: stage_fd, then quarantine_fd
    moves,      \* directories moved by the owner so far
    swapped     \* runs whose stage the owner has replaced

vars == <<pc, out, stage, quarantine, contents, fd, moves, swapped>>
fsVars == <<out, stage, quarantine, contents>>
ownerVars == <<moves, swapped>>

Inodes == Runs \cup {Other}

\* What a stage may hold: the ownership marker, the profile HOME, working
\* trees, the published artifacts, and what a compile may leave behind.
Artifacts == {"profile", "sm", "pm", "meta"}
Entries == {"marker", "home", "work", "residue", "unrelated"} \cup Artifacts

\* check_publication_allowlist.EXPECTED
Expected == {"marker"} \cup Artifacts

----------------------------------------------------------------------------
\* The unrelated directory may be an earlier authority, with the same names.
Init ==
    /\ pc = [r \in Runs |-> "start"]
    /\ out = None
    /\ stage = [r \in Runs |-> None]
    /\ quarantine = [r \in Runs |-> None]
    /\ \E foreign \in {{}, {"unrelated"}, Expected} :
           contents = [d \in Inodes |-> IF d = Other THEN foreign ELSE {}]
    /\ fd = [r \in Runs |-> None]
    /\ moves = 0 /\ swapped = {}

Goto(r, from, to) == pc[r] = from /\ pc' = [pc EXCEPT ![r] = to]

----------------------------------------------------------------------------
(* generate_authority.sh.                                                  *)

\* [[ ! -e "$OUT" ]]
CheckOut(r) ==
    /\ \/ out = None /\ Goto(r, "start", "mkdtemp")
       \/ out # None /\ Goto(r, "start", "refused")
    /\ UNCHANGED <<fsVars, fd, ownerVars>>

\* create_owned_stage: the directory, then its marker.
MakeStage(r) ==
    /\ Goto(r, "mkdtemp", "mark")
    /\ stage' = [stage EXCEPT ![r] = r]
    /\ UNCHANGED <<out, quarantine, contents, fd, ownerVars>>

WriteMarker(r) ==
    /\ Goto(r, "mark", "trap")
    /\ contents' = [contents EXCEPT ![r] = @ \cup {"marker"}]
    /\ UNCHANGED <<out, stage, quarantine, fd, ownerVars>>

\* trap cleanup EXIT
SetTrap(r) ==
    /\ Goto(r, "trap", "prepare")
    /\ UNCHANGED <<fsVars, fd, ownerVars>>

\* A step of the script that writes into the stage.
Write(r, from, to, new) ==
    /\ Goto(r, from, to)
    /\ contents' = [contents EXCEPT ![r] = @ \cup new]
    /\ UNCHANGED <<out, stage, quarantine, fd, ownerVars>>

\* Profile HOME, source clones, solver build, communication profile.
Prepare(r) == Write(r, "prepare", "profile", {"home", "work"})

\* comp_profile.json, copied or measured by the warmup compiles.
Profile(r) == Write(r, "profile", "sm", {"profile"})

\* The two compiles under the frozen profile; a compile may leave files of
\* its own in the stage.
Compile(r) ==
    \E residue \in SUBSET {"residue"} :
        \/ Write(r, "sm", "pm", {"sm"} \cup residue)
        \/ Write(r, "pm", "meta", {"pm"} \cup residue)

Metadata(r) == Write(r, "meta", "sweep", {"meta"})

\* What rm -rf removes: the working trees.
SweptHidden == {"work", "marker"}
Swept       == {"work"}

Sweep(r) ==
    /\ Goto(r, "sweep", "sweephome")
    /\ contents' = [contents EXCEPT ![r] = @ \ Swept]
    /\ UNCHANGED <<out, stage, quarantine, fd, ownerVars>>

\* Owned cleanup of the profile HOME, and the test that it is gone.
SweepHome(r) ==
    /\ Goto(r, "sweephome", "open")
    /\ contents' = [contents EXCEPT ![r] = @ \ {"home"}]
    /\ UNCHANGED <<out, stage, quarantine, fd, ownerVars>>

----------------------------------------------------------------------------
(* publish_validated_directory.                                            *)

\* Open the stage by name; its inode is the expected one from here on.
OpenStage(r) ==
    /\ stage[r] # None
    /\ Goto(r, "open", "validate")
    /\ fd' = [fd EXCEPT ![r] = stage[r]]
    /\ UNCHANGED <<fsVars, ownerVars>>

\* validate_fd: exactly the allowlisted names.
AllowedSuperset(d) == Expected \subseteq contents[d]
Allowed(d)         == contents[d] = Expected

Validate(r) ==
    /\ \/ Goto(r, "validate", "stat")
       \/ Goto(r, "revalidate", "restat")
    /\ Allowed(fd[r])
    /\ UNCHANGED <<fsVars, fd, ownerVars>>

\* The stage name still leads to the validated inode.
StatStage(r) ==
    /\ stage[r] = fd[r]
    /\ Goto(r, "stat", "rename")
    /\ UNCHANGED <<fsVars, fd, ownerVars>>

\* renameat2 may rename to the target: with RENAME_NOREPLACE, only if there
\* is none; rename alone would also replace an empty directory.
TargetReplaceable == out \in Inodes => contents[out] = {}
TargetFree        == out = None

\* The stage names after r's directory has been given another name.
StageRenamed(r) == [stage EXCEPT ![r] = None]

Rename(r) ==
    /\ stage[r] # None /\ TargetFree
    /\ Goto(r, "rename", "statout")
    /\ out' = stage[r]
    /\ stage' = StageRenamed(r)
    /\ UNCHANGED <<quarantine, contents, fd, ownerVars>>

TargetExists(r) == out # None
TargetIsOwn(r)  == out = fd[r]

\* The target is the validated inode: before the second validation, and
\* after the directories are synced.  Then the script drops its trap.
StatOut(r) ==
    /\ TargetIsOwn(r)
    /\ \/ Goto(r, "statout", "revalidate")
       \/ Goto(r, "restat", "done")
    /\ UNCHANGED <<fsVars, fd, ownerVars>>

----------------------------------------------------------------------------
(* The EXIT trap: cleanup_owned_stage, whose own failure is ignored.  A run *)
(* whose cleanup refuses ends as "failed", one whose cleanup raises in the  *)
(* middle as "abandoned".                                                   *)

\* Steps at which the trap is set.
Trapped == {"prepare", "profile", "sm", "pm", "meta", "sweep", "sweephome",
            "open", "validate", "stat", "rename", "statout", "revalidate",
            "restat"}

\* Any command of the script fails: with a trap the cleanup runs.  A failure
\* to write the marker, or of create after it, comes before there is a trap
\* and leaks the directory.
Fail(r) ==
    /\ \/ pc[r] \in Trapped /\ pc' = [pc EXCEPT ![r] = "clean"]
       \/ Goto(r, "mark", "leaked")
       \/ Goto(r, "trap", "leaked")
    /\ UNCHANGED <<fsVars, fd, ownerVars>>

\* Steps of the cleanup.
Cleanup == {"clean", "cleanagain", "cleanrename", "cleanverify",
            "cleanremove", "cleanrmdir"}

\* stat, open, fstat, marker, stat: the name leads to the stage of this run.
CleanCheck(r) ==
    /\ \/ stage[r] = r /\ "marker" \in contents[r]
          /\ \/ Goto(r, "clean", "cleanagain")
             \/ Goto(r, "cleanagain", "cleanrename")
       \/ ~(stage[r] = r /\ "marker" \in contents[r])
          /\ \/ Goto(r, "clean", "failed")
             \/ Goto(r, "cleanagain", "failed")
    /\ UNCHANGED <<fsVars, fd, ownerVars>>

\* Rename to the quarantine name whatever is under the stage name by now.
CleanRename(r) ==
    /\ \/ /\ stage[r] # None
          /\ Goto(r, "cleanrename", "cleanverify")
          /\ quarantine' = [quarantine EXCEPT ![r] = stage[r]]
          /\ stage' = StageRenamed(r)
          /\ fd' = [fd EXCEPT ![r] = stage[r]]
       \/ /\ stage[r] = None
          /\ Goto(r, "cleanrename", "failed")
          /\ UNCHANGED <<quarantine, stage, fd>>
    /\ UNCHANGED <<out, contents, ownerVars>>

\* The quarantined inode and its marker are those of this run ...
OwnedBefore(r) == TRUE
Owned(r)       == fd[r] = r /\ "marker" \in contents[r]

\* ... otherwise the namespace is left as it is.
CleanVerify(r) ==
    /\ \/ Owned(r) /\ Goto(r, "cleanverify", "cleanremove")
       \/ ~Owned(r) /\ Goto(r, "cleanverify", "failed")
    /\ UNCHANGED <<fsVars, fd, ownerVars>>

\* _remove_tree_contents through the open descriptor.
CleanRemove(r) ==
    /\ Goto(r, "cleanremove", "cleanrmdir")
    /\ contents' = [contents EXCEPT ![fd[r]] = {}]
    /\ UNCHANGED <<out, stage, quarantine, fd, ownerVars>>

\* rmdir of the quarantine name, which must be empty.
CleanRmdir(r) ==
    /\ Goto(r, "cleanrmdir", "failed")
    /\ quarantine[r] # None /\ contents[quarantine[r]] = {}
    /\ quarantine' = [quarantine EXCEPT ![r] = None]
    /\ UNCHANGED <<out, stage, contents, fd, ownerVars>>

\* A system call of the cleanup fails.  Before the rename the stage stays where
\* it is; after it the quarantine stays, with some of the entries removed if
\* that has begun.  Nothing is rolled back, and the trap ignores the exception.
CleanFail(r) ==
    /\ pc[r] \in Cleanup
    /\ pc' = [pc EXCEPT ![r] = "abandoned"]
    /\ \E removed \in SUBSET contents[r] :
           /\ removed # {} => pc[r] = "cleanremove"
           /\ contents' = [contents EXCEPT ![r] = @ \ removed]
    /\ UNCHANGED <<out, stage, quarantine, fd, ownerVars>>

\* SIGKILL: no trap runs.
Crash(r) ==
    /\ pc[r] \notin {"refused", "leaked", "failed", "abandoned", "done",
                     "crashed"}
    /\ pc' = [pc EXCEPT ![r] = "crashed"]
    /\ UNCHANGED <<fsVars, fd, ownerVars>>

----------------------------------------------------------------------------
(* The owner of the tree, outside the scripts.                             *)

\* A published authority is moved elsewhere.
Archive ==
    /\ moves < MaxMoves /\ out # None
    /\ out' = None /\ moves' = moves + 1
    /\ UNCHANGED <<pc, stage, quarantine, contents, fd, swapped>>

\* An unrelated directory appears at the target.
Occupy ==
    /\ moves < MaxMoves /\ out = None
    /\ \A r \in Runs : stage[r] # Other /\ quarantine[r] # Other
    /\ out' = Other /\ moves' = moves + 1
    /\ UNCHANGED <<pc, stage, quarantine, contents, fd, swapped>>

\* The stage of a run that publishes or cleans up is moved elsewhere and an
\* unrelated directory takes its name.
Swap(r) ==
    /\ moves < MaxMoves /\ stage[r] = r
    /\ pc[r] \notin {"mkdtemp", "mark", "trap", "prepare", "profile", "sm",
                     "pm", "meta", "sweep", "sweephome"}
    /\ out # Other
    /\ \A q \in Runs : stage[q] # Other /\ quarantine[q] # Other
    /\ stage' = [stage EXCEPT ![r] = Other]
    /\ moves' = moves + 1 /\ swapped' = swapped \cup {r}
    /\ UNCHANGED <<pc, out, quarantine, contents, fd>>

----------------------------------------------------------------------------
Run(r) == \/ CheckOut(r) \/ MakeStage(r) \/ WriteMarker(r) \/ SetTrap(r)
          \/ Prepare(r) \/ Profile(r) \/ Compile(r) \/ Metadata(r)
          \/ Sweep(r) \/ SweepHome(r)
          \/ OpenStage(r) \/ Validate(r) \/ StatStage(r) \/ Rename(r)
          \/ StatOut(r) \/ Fail(r)
          \/ CleanCheck(r) \/ CleanRename(r) \/ CleanVerify(r)
          \/ CleanRemove(r) \/ CleanRmdir(r) \/ CleanFail(r)

Owner == Archive \/ Occupy \/ \E r \in Runs : Swap(r)

Next == (\E r \in Runs : Run(r) \/ Crash(r)) \/ Owner

Spec == Init /\ [][Next]_vars

----------------------------------------------------------------------------
(* Properties.                                                             *)

\* How many names lead to inode d.
NameCount(d) == Cardinality({n \in {out} : n = d})
                  + Cardinality({r \in Runs : stage[r] = d})
                  + Cardinality({r \in Runs : quarantine[r] = d})

\* Publication never replaces or removes what is at the target: only its
\* owner takes it away (RENAME_NOREPLACE; cleanup works on the stage name).
NeverReplaced == [][out # None /\ out' # out => moves' = moves + 1]_vars

\* Whenever a run's directory is at the target it holds exactly the allowlisted
\* artifacts, and what a run has reported as published holds them for good:
\* neither a failing run's cleanup nor another run empties it.
PublishedComplete ==
    \A r \in Runs : /\ out = r => contents[r] = Expected
                    /\ pc[r] = "done" => contents[fd[r]] = Expected

\* A run reports success only at a moment when the directory at the target is
\* the one it opened and validated, with exactly the allowlisted artifacts; it
\* is the one the run made unless its stage was replaced.  The code does not
\* compare the directory it opens with the one it created: a foreign directory
\* with the right names that takes the place of the stage before it is opened
\* is published as if the run had made it.
SuccessIsOwn ==
    [][\A r \in Runs : pc[r] # "done" /\ pc'[r] = "done"
           => /\ out = fd[r] /\ contents[out] = Expected
              /\ r \notin swapped => out = r]_vars

\* The contents of a directory no run created never change, even if it takes
\* the place of a stage between two checks of a cleanup or of a publication.
UnrelatedKept == [][contents'[Other] = contents[Other]]_vars

\* A directory has at most one name, so a stage that is published or quarantined
\* can no longer be reached by its old one.  And a run that ends by itself leaves
\* no stage or quarantine behind, with three exceptions: it failed before it had
\* a trap ("leaked"), a system call of the cleanup itself failed ("abandoned"),
\* or its stage was replaced meanwhile.
NoLeftover ==
    /\ \A d \in Inodes : NameCount(d) <= 1
    /\ \A r \in Runs :
         pc[r] \in {"failed", "done"} /\ r \notin swapped
         => stage[r] # r /\ quarantine[r] = None
=============================================================================
