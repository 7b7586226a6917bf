------------------------------ MODULE Worktrees ------------------------------
(***************************************************************************)
(* The isolated git worktrees of several tasks in one repository:          *)
(* GitWorktreeManager and the commands that provision, discard, quarantine *)
(* and sweep trees (run-lifecycle, manage-worktree, abort-pipeline, the    *)
(* sweep at the end of execute-commit).                                    *)
(*                                                                         *)
(* One command per task runs at a time; the commands of different tasks,   *)
(* `worktree clean`, `abort` and the edits in the trees interleave between *)
(* the git calls, and each git call or checkpoint write named in MayFail   *)
(* may fail.  A task has one branch (the first that matches its pattern).  *)
(* The checkpoint is its worktree descriptor alone; TaskPipeline has the   *)
(* rest of it.                                                             *)
(***************************************************************************)
EXTENDS Integers, FiniteSets

CONSTANTS
    Tasks,      \* tasks; a task is also the name of .worktrees/<task> and of its branch
    Leftovers,  \* directories of .worktrees that may be there unregistered at the start
    Outside,    \* registered trees of the operator, outside .worktrees
    Brain,      \* registered trees of sub-agents, outside .worktrees
    Commands,   \* the commands enabled for each task, and for the sweeper
    MayFail     \* the calls that may fail

CONSTANTS None, Unknown, Root, Quarantine, OtherBranch, Sweeper

AllCommands == {"implement", "leg", "commit", "remove", "pruneStale", "clean", "abort"}

AllCalls == {"list", "probe", "branches", "find", "add", "verify", "remove",
             "prune", "deleteBranch", "save", "restore", "quarantine"}

Inside == Tasks \union Leftovers            \* .worktrees/<name>

Places == Inside \union Outside \union Brain

Heads == Tasks \union {Quarantine, OtherBranch}

Descriptors == [place : Tasks \union Outside, branch : Heads]

ASSUME ConstantsAssumption ==
    /\ Commands \in [Tasks \union {Sweeper} -> SUBSET AllCommands]
    /\ MayFail \subseteq AllCalls
    /\ Inside \intersect (Outside \union Brain) = {}
    /\ {None, Unknown, Root, Sweeper} \intersect Places = {}
    /\ {Quarantine, OtherBranch} \intersect Tasks = {}
    /\ None \notin Descriptors

VARIABLES
    dirs,       \* the directories that exist
    registered, \* the trees git's registry lists
    head,       \* the branch checked out in a tree, and at the root
    branches,   \* the task branches that exist
    work,       \* the trees holding uncommitted work
    safe,       \* history: the trees whose work went to a stash, a quarantine branch or a commit
    cp,         \* the worktree descriptor in a task's checkpoint
    op          \* the running command of each task, and of the sweeper

vars == <<dirs, registered, head, branches, work, safe, cp, op>>

disk == <<dirs, registered, head, branches, work, safe>>

Steps == {"probe", "look", "add", "save", "unsave", "start", "discard", "branch",
          "restore", "teardown", "forget", "remove", "clear", "commit", "sweep"}

\* `trees` and `named` are what the probe answered (paths, branches); `was` and
\* `wasBranch` are history: the trees, and whether the branch, there at the start.
Ops == [cmd : AllCommands, at : Steps, had : BOOLEAN,
        tree : Descriptors \union {None}, old : Descriptors \union {None},
        trees : (SUBSET Places) \union {Unknown}, named : (SUBSET Tasks) \union {Unknown},
        was : SUBSET Places, wasBranch : BOOLEAN]

Sweeps == [seen : SUBSET Inside]

TypeOK ==
    /\ dirs \subseteq Places
    /\ registered \subseteq Places
    /\ head \in [Places \union {Root} -> Heads]
    /\ branches \subseteq Tasks
    /\ work \subseteq dirs
    /\ safe \subseteq Places
    /\ cp \in [Tasks -> Descriptors \union {None}]
    /\ op \in [Tasks \union {Sweeper} -> Ops \union Sweeps \union {None}]
    /\ op[Sweeper] \in Sweeps \union {None}
    /\ \A t \in Tasks : op[t] \in Ops \union {None}

\* git checks a branch out in one place only.
OneHolder(h, reg) ==
    \A p, q \in reg \union {Root} : h[p] = h[q] /\ h[p] \in Tasks => p = q

\* A place of .worktrees holds its own task's branch or a quarantine branch;
\* a leftover directory is not registered.
Init ==
    /\ registered \in SUBSET (Places \ Leftovers)
    /\ dirs \in {d \in SUBSET Places : Outside \union Brain \subseteq d}
    /\ dirs \ registered \subseteq Leftovers
    /\ Outside \union Brain \subseteq registered
    /\ branches \in SUBSET Tasks
    /\ head \in [Places \union {Root} -> Heads]
    /\ \A p \in Places : head[p] \in
         IF p \in Tasks /\ p \in registered THEN {p}
         ELSE IF p \in Outside THEN Tasks \union {OtherBranch} ELSE {OtherBranch}
    /\ head[Root] \in Tasks \union {OtherBranch}
    /\ OneHolder(head, registered)
    /\ {head[p] : p \in registered \union {Root}} \intersect Tasks \subseteq branches
    /\ work \in {{}, dirs \ Leftovers}
    /\ safe = {}
    /\ cp \in [Tasks -> {None}] \union
         {[t \in Tasks |-> IF t \in registered THEN [place |-> t, branch |-> t] ELSE None]}
    /\ op = [a \in Tasks \union {Sweeper} |-> None]

-----------------------------------------------------------------------------
(* GitWorktreeManager.                                                     *)

Outcomes(call) == IF call \in MayFail THEN {TRUE, FALSE} ELSE {TRUE}

\* `git worktree prune`: the registrations whose directory is gone.
Pruned(reg, d) ==
    {reg \intersect d} \union (IF "prune" \in MayFail THEN {reg} ELSE {})

\* listWorktrees answers [] when the registry cannot be read.
Listings == {registered} \union (IF "list" \in MayFail THEN {{}} ELSE {})

\* removeWorktree refuses what is outside .worktrees (unless allowed), missing
\* (unless tolerated), not registered or not provably so.
Refused(p, external, tolerate, found) ==
    \/ p \notin Inside /\ ~external
    \/ p \notin dirs /\ ~tolerate
    \/ p \in dirs /\ (~found \/ p \notin registered)

\* `git worktree remove --force`, with its fallback for a directory of
\* .worktrees git would not remove.  `done` is FALSE when it throws.
RemoveTree(p, external, tolerate, done) ==
    \E found \in Outcomes("find"), removed \in Outcomes("remove") :
      IF Refused(p, external, tolerate, found) \/ (p \in dirs /\ ~removed /\ p \notin Inside)
      THEN ~done /\ UNCHANGED <<dirs, registered, work>>
      ELSE /\ done
           /\ dirs' = dirs \ {p}
           /\ work' = work \ {p}
           /\ registered' \in Pruned(IF removed /\ p \in dirs THEN registered \ {p} ELSE registered,
                                     dirs \ {p})

\* The places that have a branch checked out.
Holders(b) == {p \in registered \union {Root} : head[p] = b}

-----------------------------------------------------------------------------
(* Steps of a command.                                                     *)

At(t, step) == op[t] # None /\ op[t].at = step

Begin(t, cmd, step) ==
    /\ cmd \in Commands[t]
    /\ op[t] = None
    /\ op' = [op EXCEPT ![t] =
         [cmd |-> cmd, at |-> step, had |-> cp[t] # None, tree |-> None, old |-> cp[t],
          trees |-> Unknown, named |-> Unknown,
          was |-> {p \in dirs \intersect registered : p \in Tasks \union Outside /\ head[p] = t},
          wasBranch |-> t \in branches]]
    /\ UNCHANGED <<disk, cp>>

Goto(t, step) == op' = [op EXCEPT ![t].at = step]

End(t) == op' = [op EXCEPT ![t] = None]

-----------------------------------------------------------------------------
(* RunLifecycleUseCase: implement mode, and the implementation leg of the  *)
(* standard and yolo modes.                                                *)

StartImplement(t) == Begin(t, "implement", "probe")

StartLeg(t) == Begin(t, "leg", "look")

\* probeProvisioningState: each of the two reads may not answer; no probe when
\* the checkpoint already names a tree.
Probe(t) ==
    /\ At(t, "probe")
    /\ \E paths, names \in Outcomes("probe") :
         op' = [op EXCEPT ![t].at = "look",
                  ![t].trees = IF paths /\ ~op[t].had THEN registered ELSE Unknown,
                  ![t].named = IF names /\ ~op[t].had THEN branches ELSE Unknown]
    /\ UNCHANGED <<disk, cp>>

Provisioned(t, p, branch) ==
    op' = [op EXCEPT ![t].at = "save", ![t].tree = [place |-> p, branch |-> branch]]

\* createWorktree, the task's directory: a listed tree is reused as it is; what
\* is not listed is deleted.
Look(t) ==
    /\ At(t, "look")
    /\ \E listing \in Listings :
         IF t \notin dirs
         THEN Goto(t, "add") /\ UNCHANGED <<dirs, registered, work>>
         ELSE IF t \in listing
         THEN Provisioned(t, t, head[t]) /\ UNCHANGED <<dirs, registered, work>>
         ELSE /\ dirs' = dirs \ {t}
              /\ work' = work \ {t}
              /\ registered' \in Pruned(registered, dirs)
              /\ Goto(t, "add")
    /\ UNCHANGED <<head, branches, safe, cp>>

\* `git worktree add` works on the branch when one was found (`reuse`), else it
\* makes one; git refuses a branch or a path that is taken.
CanAdd(t, reuse, reg) ==
    /\ reuse <=> t \in branches
    /\ t \notin dirs \union reg
    /\ Holders(t) \intersect (reg \union {Root}) = {}

\* A new branch's start point is verified afterwards; one that cannot be read is
\* taken as it is, a mismatch throws.
StartPoint(reuse) == IF reuse THEN {TRUE} ELSE Outcomes("verify")

\* A tree whose start point is refused is left behind.
AddTree(t, reuse, reg) ==
    /\ CanAdd(t, reuse, reg)
    /\ dirs' = dirs \union {t}
    /\ registered' = reg \union {t}
    /\ head' = [head EXCEPT ![t] = t]
    /\ branches' = branches \union {t}
    /\ \E verified \in StartPoint(reuse) :
         IF verified THEN Provisioned(t, t, t) ELSE End(t)
    /\ UNCHANGED work

\* Mutant: the first listed tree is taken, whatever branch it has.
Adopt_firstListed(t) ==
    /\ \E p \in registered \intersect (Tasks \union Outside) : p \in dirs /\ Provisioned(t, p, t)
    /\ UNCHANGED <<dirs, registered, head, branches, work>>

\* The tree that has the branch is adopted, the root never is.
Adopt(t) ==
    /\ \E p \in Holders(t) \ {Root} : p \in dirs /\ Provisioned(t, p, t)
    /\ UNCHANGED <<dirs, registered, head, branches, work>>

\* The registration of a missing tree is pruned and the add retried.
PruneAndRetry(t) ==
    /\ Holders(t) # {}
    /\ Holders(t) \intersect (dirs \union {Root}) = {}
    /\ \E reg \in Pruned(registered, dirs) :
         \/ AddTree(t, TRUE, reg)
         \/ /\ ~CanAdd(t, TRUE, reg) \/ "add" \in MayFail
            /\ End(t)
            /\ registered' = reg
            /\ UNCHANGED <<dirs, head, branches, work>>

\* A branch list that cannot be read counts as no branch.
Add(t) ==
    /\ At(t, "add")
    /\ \E reuse \in {t \in branches} \union (IF "branches" \in MayFail THEN {FALSE} ELSE {}) :
         \/ AddTree(t, reuse, registered)
         \/ /\ ~CanAdd(t, reuse, registered) \/ "add" \in MayFail
            /\ \/ Adopt(t)
               \/ PruneAndRetry(t)
               \/ /\ Holders(t) \subseteq {Root} \/ "find" \in MayFail
                  /\ End(t)
                  /\ UNCHANGED <<dirs, registered, head, branches, work>>
    /\ UNCHANGED <<safe, cp>>

\* The descriptor is saved before anything runs in the tree.
SaveDescriptor(t) ==
    /\ At(t, "save")
    /\ \E saved \in Outcomes("save") :
         IF saved THEN cp' = [cp EXCEPT ![t] = op[t].tree] /\ Goto(t, "start")
                  ELSE Goto(t, "unsave") /\ UNCHANGED cp
    /\ UNCHANGED disk

\* When it cannot be saved the tree is removed by force, reused or not.
UndoProvisioning(t) ==
    /\ At(t, "unsave")
    /\ \E done \in BOOLEAN : RemoveTree(op[t].tree.place, TRUE, TRUE, done)
    /\ End(t)
    /\ UNCHANGED <<head, branches, safe, cp>>

\* StartImplementationUseCase starts, refuses (ValidationError or
\* InvalidTransitionError) or fails otherwise.
StartImplementation(t, result) ==
    /\ At(t, "start")
    /\ IF op[t].had \/ result = "started" THEN End(t)
       ELSE IF op[t].cmd = "leg" THEN Goto(t, "teardown")
       ELSE IF result = "refused" THEN Goto(t, "discard")
       ELSE End(t)
    /\ UNCHANGED <<disk, cp>>

\* Mutant: a probe that did not answer counts as nothing being there.
Discard_unknownIsNew(t) ==
    /\ At(t, "discard")
    /\ LET p == op[t].tree.place IN
       IF (op[t].trees # Unknown /\ p \in op[t].trees) \/ p # t
       THEN End(t) /\ UNCHANGED <<dirs, registered, work>>
       ELSE \E done \in BOOLEAN :
              /\ RemoveTree(p, FALSE, TRUE, done)
              /\ IF done THEN Goto(t, "branch") ELSE End(t)
    /\ UNCHANGED <<head, branches, safe, cp>>

\* discardProvisionedWorktree: only a tree that provably was not there, at the
\* task's own path.
Discard(t) ==
    /\ At(t, "discard")
    /\ LET p == op[t].tree.place IN
       IF op[t].trees = Unknown \/ p \in op[t].trees \/ p # t
       THEN End(t) /\ UNCHANGED <<dirs, registered, work>>
       ELSE \E done \in BOOLEAN :
              /\ RemoveTree(p, FALSE, TRUE, done)
              /\ IF done THEN Goto(t, "branch") ELSE End(t)
    /\ UNCHANGED <<head, branches, safe, cp>>

\* Its branch too, when that provably is new; deleteBranch refuses a held one.
DiscardBranch(t) ==
    /\ At(t, "branch")
    /\ LET b == op[t].tree.branch IN
       IF op[t].named = Unknown \/ b \in op[t].named
       THEN UNCHANGED branches
       ELSE \E deleted \in Outcomes("deleteBranch") :
              branches' = IF deleted /\ Holders(b) = {} THEN branches \ {b} ELSE branches
    /\ Goto(t, "restore")
    /\ UNCHANGED <<dirs, registered, head, work, safe, cp>>

\* The checkpoint as it was loaded is written back.
RestoreCheckpoint(t) ==
    /\ At(t, "restore")
    /\ \E saved \in Outcomes("restore") :
         cp' = IF saved THEN [cp EXCEPT ![t] = op[t].old] ELSE cp
    /\ End(t)
    /\ UNCHANGED disk

\* startImplementationWithTeardownGuard, and the commit's own teardown: the
\* error of a failed removal is swallowed.
Teardown(t) ==
    /\ At(t, "teardown")
    /\ \E done \in BOOLEAN : RemoveTree(op[t].tree.place, TRUE, TRUE, done)
    /\ IF op[t].cmd = "leg" THEN Goto(t, "forget") ELSE End(t)
    /\ UNCHANGED <<head, branches, safe, cp>>

ForgetDescriptor(t) ==
    /\ At(t, "forget")
    /\ \E saved \in Outcomes("restore") :
         cp' = IF saved THEN [cp EXCEPT ![t] = None] ELSE cp
    /\ End(t)
    /\ UNCHANGED disk

-----------------------------------------------------------------------------
(* commit: the tree's work is committed, orphans are swept, the tree goes. *)

StartCommit(t) ==
    /\ cp[t] # None
    /\ cp[t].place \in dirs \intersect registered
    /\ Begin(t, "commit", "commit")

CommitWork(t) ==
    /\ At(t, "commit")
    /\ LET p == op[t].old.place IN
         /\ p \in work
         /\ work' = work \ {p}
         /\ safe' = safe \union {p}
    /\ op' = [op EXCEPT ![t].at = "sweep", ![t].tree = op[t].old]
    /\ UNCHANGED <<dirs, registered, head, branches, cp>>

\* "nothing to commit" ends the command.
NothingToCommit(t) ==
    /\ At(t, "commit")
    /\ op[t].old.place \notin work
    /\ End(t)
    /\ UNCHANGED <<disk, cp>>

\* Mutant: the sweep after a commit removes every listed tree (--all).
SweepTo_everyTree(orphans, listing) ==
    LET gone == orphans \union listing IN
    /\ dirs' = dirs \ gone
    /\ work' = work \ gone
    /\ registered' \in Pruned(registered, dirs \ gone)

\* cleanOrphanedWorktrees: every directory of .worktrees the registry did not
\* list, and with `subagents` every sub-agent tree it lists.
SweepTo(orphans, listing) ==
    \E found \in Outcomes("find") :
    LET gone == orphans \union (IF found THEN listing \intersect Brain ELSE {}) IN
    /\ dirs' = dirs \ gone
    /\ work' = work \ gone
    /\ registered' \in Pruned(registered, dirs \ gone)

SweepAfterCommit(t) ==
    /\ At(t, "sweep")
    /\ \E listing, external \in Listings :
         SweepTo((dirs \intersect Inside) \ listing, external)
    /\ Goto(t, "teardown")
    /\ UNCHANGED <<head, branches, safe, cp>>

\* `worktree clean`: the directories are compared with the registry first and
\* deleted one after the other later.
StartClean ==
    /\ "clean" \in Commands[Sweeper]
    /\ op[Sweeper] = None
    /\ \E listing \in Listings :
         op' = [op EXCEPT ![Sweeper] = [seen |-> (dirs \intersect Inside) \ listing]]
    /\ UNCHANGED <<disk, cp>>

Clean ==
    /\ op[Sweeper] # None
    /\ SweepTo(op[Sweeper].seen, {})
    /\ op' = [op EXCEPT ![Sweeper] = None]
    /\ UNCHANGED <<head, branches, safe, cp>>

-----------------------------------------------------------------------------
(* worktree remove <task>, and its --prune-stale.                          *)

StartRemove(t) == Begin(t, "remove", "remove")

RemoveByName(t) ==
    /\ At(t, "remove")
    /\ \E done \in BOOLEAN :
         /\ RemoveTree(t, FALSE, FALSE, done)
         /\ IF done THEN Goto(t, "clear") ELSE End(t)
    /\ UNCHANGED <<head, branches, safe, cp>>

StartPruneStale(t) ==
    /\ t \notin dirs
    /\ Begin(t, "pruneStale", "clear")

\* clearDescriptor looks in every task's checkpoint for the path; one that
\* cannot be read or written is left as it is.
ClearDescriptor(t) ==
    /\ At(t, "clear")
    /\ \E saved \in [Tasks -> Outcomes("restore")] :
         cp' = [u \in Tasks |->
                  IF saved[u] /\ cp[u] # None /\ cp[u].place = t THEN None ELSE cp[u]]
    /\ End(t)
    /\ UNCHANGED disk

-----------------------------------------------------------------------------
(* abort, at any time: the uncommitted work of the task's tree goes to a   *)
(* stash or, with --quarantine, to a branch of its own.                    *)

\* A branch-mode quarantine that fails after the checkout leaves the tree on
\* the quarantine branch with the work still uncommitted.
Abort(t, toBranch) ==
    /\ "abort" \in Commands[t]
    /\ cp[t] # None
    /\ LET p == cp[t].place IN
       /\ \E listing \in Listings : p \in listing \intersect work
       /\ \E checkedOut, moved \in Outcomes("quarantine") :
            /\ head' = IF toBranch /\ checkedOut THEN [head EXCEPT ![p] = Quarantine] ELSE head
            /\ LET done == moved /\ (toBranch => checkedOut) IN
               /\ work' = IF done THEN work \ {p} ELSE work
               /\ safe' = IF done THEN safe \union {p} ELSE safe
    /\ UNCHANGED <<dirs, registered, branches, cp, op>>

\* An agent or the operator changes files in a tree.
Edit(p) ==
    /\ p \in (dirs \intersect registered) \ work
    /\ work' = work \union {p}
    /\ safe' = safe \ {p}
    /\ UNCHANGED <<dirs, registered, head, branches, cp, op>>

-----------------------------------------------------------------------------
Next ==
    \/ StartClean \/ Clean
    \/ \E p \in Places : Edit(p)
    \/ \E t \in Tasks :
         \/ StartImplement(t) \/ StartLeg(t) \/ Probe(t) \/ Look(t) \/ Add(t)
         \/ SaveDescriptor(t) \/ UndoProvisioning(t)
         \/ \E r \in {"started", "refused", "failed"} : StartImplementation(t, r)
         \/ Discard(t) \/ DiscardBranch(t) \/ RestoreCheckpoint(t)
         \/ Teardown(t) \/ ForgetDescriptor(t)
         \/ StartCommit(t) \/ CommitWork(t) \/ NothingToCommit(t) \/ SweepAfterCommit(t)
         \/ StartRemove(t) \/ RemoveByName(t) \/ StartPruneStale(t) \/ ClearDescriptor(t)
         \/ \E b \in BOOLEAN : Abort(t, b)

Spec == Init /\ [][Next]_vars

-----------------------------------------------------------------------------
(* Properties.                                                             *)

\* Whose uncommitted work a command may destroy: the tree the operator told it
\* to remove, the tree whose work it has just committed, a tree that was not
\* there when it began, and the tree of an implementation leg it gives up.
MayDestroy(t, p) ==
    /\ op[t] # None
    /\ \/ op[t].cmd = "remove" /\ p = t
       \/ op[t].cmd = "commit" /\ op[t].tree # None /\ p = op[t].tree.place
       \/ op[t].cmd = "implement" /\ op[t].at # "unsave" /\ p \notin op[t].was
       \/ op[t].at \in {"unsave", "teardown"} /\ p = op[t].tree.place

\* Uncommitted work in a registered tree does not disappear except into a
\* commit, a stash or a quarantine branch, or with a tree its own task's command
\* may destroy: not by a refused `implement` over a tree it found, not by an
\* abort that half failed, not by housekeeping after another task's commit.
UncommittedWorkSurvives ==
    [][\A p \in (work \ work') \intersect registered :
          p \in safe' \/ \E t \in Tasks : MayDestroy(t, p)]_vars

\* A refused `implement` gives back the repository as it found it: no tree and
\* no branch of the task that was there before is gone, whichever of the reads
\* and removals failed.
RefusedRunLeavesWhatItFound ==
    \A t \in Tasks : At(t, "branch") \/ At(t, "restore") =>
        /\ op[t].was \subseteq dirs \intersect registered
        /\ op[t].wasBranch => t \in branches

\* A tree a checkpoint names has the branch of its own task checked out, or the
\* quarantine branch its work was saved to: no task works in another's tree.
BoundTreeCarriesTheTask ==
    \A t \in Tasks : cp[t] # None /\ cp[t].place \in registered =>
        head[cp[t].place] \in {t, Quarantine}

=============================================================================
