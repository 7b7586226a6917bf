---------------------------- MODULE CommitDelivery ----------------------------
(***************************************************************************)
(* The commit command between the operator's confirmation and the finished *)
(* task: application/draft-commit.ts lists what will be committed,         *)
(* application/execute-commit.ts commits it, pushes the branch, opens the  *)
(* pull request, saves COMPLETED and tears the worktree down.  Each call   *)
(* of git or gh and each save is a step: it may fail, its answer may be    *)
(* lost after it took effect, the command may be killed before it, and     *)
(* people and tools go on editing and staging files in between.            *)
(*                                                                         *)
(* The content of a path is a version number, 0 where the path does not    *)
(* exist; the task has one branch and one pull request.  Messages, titles  *)
(* and the summary document are left out.  git and gh are external: what   *)
(* they do is modelled from how the code calls them.                       *)
(***************************************************************************)
EXTENDS Naturals

CONSTANTS
    Paths,        \* the paths of the working tree
    Excluded,     \* those under COMMIT_EXCLUDED_PATHSPECS
    Tracked,      \* those the branch holds when the task reaches COMMIT
    Places,       \* where the task may live: see below
    MaxVersion,   \* bound: edits of one path
    MaxRounds     \* bound: times the task comes to COMMIT

ASSUME CommitAssumption ==
    /\ Excluded \subseteq Paths
    /\ Tracked \subseteq Paths \ Excluded
    /\ Places \subseteq {"worktree", "root", "detached"}
    /\ MaxVersion \in Nat \ {0}
    /\ MaxRounds \in Nat

VARIABLES
    place,    \* an isolated worktree, the root on a branch or on no branch
    exists,   \* the directory of the worktree is there
    tree, index, head, origin,  \* the content git has of each path
    pr,       \* GitHub has a pull request of the branch
    disk,     \* the saved checkpoint
    op,       \* the running command
    said,     \* what the last command told the operator
    late,     \* history: paths edited since the running command staged them
    lost,     \* history: edits a teardown destroyed
    handStaged, \* history: a commit took what was staged by hand
    rounds    \* bound: times the task came to COMMIT

gitVars == <<tree, index, head, origin, exists>>
vars == <<place, gitVars, pr, disk, op, said, late, lost, handStaged, rounds>>

Contents == [Paths -> 0 .. MaxVersion]

Nothing == [p \in Paths |-> 0]

\* What a command says at its end about the branch.
Reports == {"nothing", "failed", "pushed", "pushed, no PR"}

\* `wanted` is the content of the listed paths when the operator was shown them,
\* `prSeen` the answer of `gh pr list`.
Idle == [pc |-> "idle", staged |-> FALSE, wanted |-> Nothing, prSeen |-> FALSE,
         record |-> "none"]

Commands ==
    [pc : {"idle", "confirm", "status", "add", "untrack", "commit", "prList", "push",
           "fallback", "createPr", "save", "teardown", "saveUnbound", "report"},
     staged : BOOLEAN, wanted : Contents, prSeen : BOOLEAN,
     record : {"none", "created", "existing", "missing"}]

TypeOK ==
    /\ place \in {"worktree", "root", "detached"}
    /\ exists \in BOOLEAN
    /\ {tree, index, head, origin} \subseteq Contents
    /\ pr \in BOOLEAN
    /\ disk \in [stage : {"COMMIT", "COMPLETED", "IMPLEMENT", "PLAN"}, bound : BOOLEAN,
                 pullRequest : {"none", "created", "existing", "missing"},
                 promised : Contents]
    /\ op \in Commands
    /\ said \in Reports
    /\ {late, lost} \subseteq SUBSET Paths
    /\ handStaged \in BOOLEAN
    /\ rounds \in 0 .. MaxRounds

BranchContent == [p \in Paths |-> IF p \in Tracked THEN 1 ELSE 0]

Init ==
    /\ place \in Places
    /\ exists = TRUE
    /\ tree = BranchContent /\ index = BranchContent
    /\ head = BranchContent /\ origin = BranchContent
    /\ pr \in BOOLEAN
    /\ disk = [stage |-> "COMMIT", bound |-> place = "worktree",
               pullRequest |-> "none", promised |-> Nothing]
    /\ op = Idle
    /\ said = "nothing"
    /\ late = {} /\ lost = {}
    /\ handStaged = FALSE
    /\ rounds = 0

-----------------------------------------------------------------------------
(* The surroundings.                                                       *)

\* Somebody edits or creates a file, at any time.
Edit(p) ==
    /\ exists
    /\ tree[p] < MaxVersion
    /\ tree' = [tree EXCEPT ![p] = @ + 1]
    /\ late' = late \union {p}
    /\ UNCHANGED <<place, index, head, origin, exists, pr, disk, op, said, lost, handStaged, rounds>>

\* Somebody stages a file by hand, for `commit --staged`.
StageByHand(p) ==
    /\ exists
    /\ index[p] # tree[p]
    /\ index' = [index EXCEPT ![p] = tree[p]]
    /\ handStaged' = (handStaged \/ op.pc = "commit")
    /\ UNCHANGED <<place, tree, head, origin, exists, pr, disk, op, said, late, lost, rounds>>

\* The other commands bring the task back to COMMIT, in the worktree that is
\* still there or in one checked out anew from its branch.
ReturnToCommit ==
    /\ op.pc = "idle"
    /\ disk.stage # "COMMIT"
    /\ rounds < MaxRounds
    /\ rounds' = rounds + 1
    /\ disk' = [disk EXCEPT !.stage = "COMMIT", !.bound = place = "worktree",
                            !.promised = Nothing]
    /\ exists' = TRUE
    /\ IF exists THEN UNCHANGED <<tree, index>> ELSE tree' = head /\ index' = head
    /\ said' = "nothing"
    /\ lost' = {}
    /\ UNCHANGED <<place, head, origin, pr, op, late, handStaged>>

-----------------------------------------------------------------------------
(* The command up to the commit.                                           *)

Ordinary(content) == [p \in Paths |-> IF p \in Excluded THEN 0 ELSE content[p]]

Goto(pc) == op' = [op EXCEPT !.pc = pc]

\* throw: nothing more is written, and the answer is an error.
Fail == op' = Idle /\ said' = "failed"

\* DraftCommitUseCase: the list shown is what the tree, or with --staged the
\* index, adds to HEAD, without the excluded paths.
DraftCommit(staged) ==
    /\ op.pc = "idle"
    /\ disk.stage = "COMMIT"
    /\ exists
    /\ op' = [Idle EXCEPT !.pc = "confirm", !.staged = staged,
                          !.wanted = Ordinary(IF staged THEN index ELSE tree)]
    /\ said' = "nothing"
    /\ UNCHANGED <<place, gitVars, pr, disk, late, lost, handStaged, rounds>>

Confirmed ==
    /\ op.pc = "confirm"
    /\ Goto("status")
    /\ UNCHANGED <<place, gitVars, pr, disk, said, late, lost, handStaged, rounds>>

\* Without confirmation the command ends; with a directive the task goes back.
Rejected ==
    /\ op.pc = "confirm"
    /\ \E stage \in {"COMMIT", "IMPLEMENT", "PLAN"} : disk' = [disk EXCEPT !.stage = stage]
    /\ op' = Idle
    /\ UNCHANGED <<place, gitVars, pr, said, late, lost, handStaged, rounds>>

\* The paths `git status --porcelain` prints.
Changed == {p \in Paths : tree[p] # index[p] \/ index[p] # head[p]}

CheckStatus ==
    /\ op.pc = "status"
    /\ IF Changed = {} \/ (~op.staged /\ Changed \subseteq Excluded) THEN Fail
       ELSE Goto(IF op.staged THEN "commit" ELSE "add") /\ UNCHANGED said
    /\ late' = IF op.staged THEN {} ELSE late
    /\ UNCHANGED <<place, gitVars, pr, disk, lost, handStaged, rounds>>

\* Mutant: `git add -u`, which leaves new files out.
AddAll_trackedOnly ==
    /\ op.pc = "add"
    /\ \/ /\ index' = [p \in Paths |-> IF head[p] = 0 THEN index[p] ELSE tree[p]]
          /\ late' = {}
          /\ Goto("untrack")
          /\ UNCHANGED said
       \/ Fail /\ UNCHANGED <<index, late>>
    /\ UNCHANGED <<place, tree, head, origin, exists, pr, disk, lost, handStaged, rounds>>

\* git add -A
AddAll ==
    /\ op.pc = "add"
    /\ \/ /\ index' = tree
          /\ late' = {}
          /\ Goto("untrack")
          /\ UNCHANGED said
       \/ Fail /\ UNCHANGED <<index, late>>
    /\ UNCHANGED <<place, tree, head, origin, exists, pr, disk, lost, handStaged, rounds>>

\* Mutant: the exit status is ignored (`|| true`).
Untrack_ignoresFailure ==
    /\ op.pc = "untrack"
    /\ index' \in {Ordinary(index), index}
    /\ Goto("commit")
    /\ UNCHANGED <<place, tree, head, origin, exists, pr, disk, said, late, lost, handStaged, rounds>>

\* git rm --cached of the excluded paths.  A failure leaves them staged.
Untrack ==
    /\ op.pc = "untrack"
    /\ \/ index' = Ordinary(index) /\ Goto("commit") /\ UNCHANGED said
       \/ Fail /\ UNCHANGED index
    /\ UNCHANGED <<place, tree, head, origin, exists, pr, disk, late, lost, handStaged, rounds>>

\* git commit refuses an empty commit, and a hook may refuse any.
GitCommit ==
    /\ op.pc = "commit"
    /\ \/ /\ index # head
          /\ head' = index
          /\ handStaged' = (handStaged \/ op.staged)
          /\ Goto("prList")
          /\ UNCHANGED said
       \/ Fail /\ UNCHANGED <<head, handStaged>>
    /\ UNCHANGED <<place, tree, index, origin, exists, pr, disk, late, lost, rounds>>

-----------------------------------------------------------------------------
(* Delivery.                                                               *)

\* The branch comes from the descriptor or from git; without one there is
\* nothing to push, and that is not an error.
HasBranch == place # "detached"

\* gh pr list: a failure reads as "no pull request".
ListPullRequests ==
    /\ op.pc = "prList"
    /\ \E seen \in {FALSE, pr /\ HasBranch} :
         op' = [op EXCEPT !.pc = IF HasBranch THEN "push" ELSE "createPr", !.prSeen = seen]
    /\ UNCHANGED <<place, gitVars, pr, disk, said, late, lost, handStaged, rounds>>

\* git push: it arrives or not, and one that arrived may still answer with an
\* error.
Push(onFailure) ==
    /\ \E arrived, answered \in BOOLEAN :
         /\ answered => arrived
         /\ origin' = IF arrived THEN head ELSE origin
         /\ IF answered THEN Goto("createPr") /\ UNCHANGED said
            ELSE IF onFailure = "fallback" THEN Goto("fallback") /\ UNCHANGED said
            ELSE Fail
    /\ UNCHANGED <<place, tree, index, head, exists, pr, disk, late, lost, handStaged, rounds>>

\* A failed push is repeated with the token of gh, when there is one.
FirstPush == op.pc = "push" /\ (Push("fallback") \/ Push("throw"))

FallbackPush == op.pc = "fallback" /\ Push("throw")

\* Mutant: a pull request counts as created whatever gh answers.
CreatePullRequest_assumed ==
    /\ op.pc = "createPr"
    /\ op' = [op EXCEPT !.pc = "save", !.record = IF op.prSeen THEN "existing" ELSE "created"]
    /\ pr' \in {pr, HasBranch}
    /\ UNCHANGED <<place, gitVars, disk, said, late, lost, handStaged, rounds>>

\* gh pr create, when asked for and none was seen: gh refuses a second one and a
\* head without branch, and the answer of a successful one may be lost.  No
\* failure here stops the command.
CreatePullRequest ==
    /\ op.pc = "createPr"
    /\ \/ /\ ~op.prSeen /\ ~pr /\ HasBranch
          /\ pr' = TRUE
          /\ \E status \in {"created", "missing"} :
               op' = [op EXCEPT !.pc = "save", !.record = status]
       \/ /\ pr' = pr
          /\ op' = [op EXCEPT !.pc = "save",
                              !.record = IF op.prSeen THEN "existing" ELSE "missing"]
    /\ UNCHANGED <<place, gitVars, disk, said, late, lost, handStaged, rounds>>

Save ==
    /\ op.pc = "save"
    /\ disk' = [disk EXCEPT !.stage = "COMPLETED", !.pullRequest = op.record,
                            !.promised = op.wanted]
    /\ Goto(IF disk.bound THEN "teardown" ELSE "report")
    /\ UNCHANGED <<place, gitVars, pr, said, late, lost, handStaged, rounds>>

\* Mutant: the worktree goes before the branch is pushed and the task saved.
Teardown_beforeThePush ==
    /\ op.pc \in {"push", "teardown"}
    /\ \/ /\ exists' = FALSE
          /\ lost' = {p \in Paths \ Excluded : tree[p] # head[p]}
          /\ Goto("saveUnbound")
       \/ op.pc = "teardown" /\ Goto("report") /\ UNCHANGED <<exists, lost>>
    /\ UNCHANGED <<place, tree, index, head, origin, pr, disk, said, late, handStaged, rounds>>

\* removeWorktree with force, unless --keep-worktree or the operator says no;
\* all its errors are swallowed.
Teardown ==
    /\ op.pc = "teardown"
    /\ \/ /\ exists' = FALSE
          /\ lost' = {p \in Paths \ Excluded : tree[p] # head[p]}
          /\ Goto("saveUnbound")
       \/ Goto("report") /\ UNCHANGED <<exists, lost>>
    /\ UNCHANGED <<place, tree, index, head, origin, pr, disk, said, late, handStaged, rounds>>

\* The second save may fail too, and its error is swallowed with the others.
SaveUnbound ==
    /\ op.pc = "saveUnbound"
    /\ \E saved \in BOOLEAN : disk' = [disk EXCEPT !.bound = @ /\ ~saved]
    /\ Goto("report")
    /\ UNCHANGED <<place, gitVars, pr, said, late, lost, handStaged, rounds>>

\* The command line reports the pull request, or how to open one.
Report ==
    /\ op.pc = "report"
    /\ said' = IF op.record = "missing" THEN "pushed, no PR" ELSE "pushed"
    /\ op' = Idle
    /\ UNCHANGED <<place, gitVars, pr, disk, late, lost, handStaged, rounds>>

Crash ==
    /\ op.pc # "idle"
    /\ op' = Idle
    /\ UNCHANGED <<place, gitVars, pr, disk, said, late, lost, handStaged, rounds>>

Next ==
    \/ \E p \in Paths : Edit(p) \/ StageByHand(p)
    \/ ReturnToCommit
    \/ \E staged \in BOOLEAN : DraftCommit(staged)
    \/ Confirmed \/ Rejected \/ CheckStatus
    \/ AddAll \/ Untrack \/ GitCommit
    \/ ListPullRequests \/ FirstPush \/ FallbackPush \/ CreatePullRequest
    \/ Save \/ Teardown \/ SaveUnbound \/ Report
    \/ Crash

Spec == Init /\ [][Next]_vars

-----------------------------------------------------------------------------
(* Safety.                                                                 *)

\* A finished task that had a branch is delivered: the remote holds its last
\* commit, with every listed path at least as the operator confirmed it.
CompletedIsDelivered ==
    disk.stage = "COMPLETED" /\ HasBranch =>
        /\ origin = head
        /\ \A p \in Paths : origin[p] >= disk.promised[p]

\* A teardown destroys only edits made after the command staged the tree, or
\* what a commit of staged files left out, and never a commit not yet pushed.
TeardownDestroysOnlyLateEdits ==
    ~exists => /\ origin = head
               /\ handStaged \/ lost \subseteq late

\* The scratch paths stay out of the branch after any failure or crash, unless
\* somebody staged them by hand and committed with --staged.
ExcludedStayOut ==
    (\E p \in Excluded : head[p] # 0) => handStaged

\* The pull request a checkpoint records exists, whatever answers were lost.
RecordedPullRequestExists == disk.pullRequest \in {"created", "existing"} => pr

=============================================================================
