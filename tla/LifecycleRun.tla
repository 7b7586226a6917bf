------------------------------ MODULE LifecycleRun -----------------------------
(***************************************************************************)
(* One run of the lifecycle driver (application/run-lifecycle.ts) from the *)
(* pre-flight look at GitHub (application/run-preflight-check.ts) over the *)
(* stages of its mode to what it reports: codeloop plan, implement,        *)
(* commit, yolo and the plain codeloop <issue>.                            *)
(*                                                                         *)
(* The driver calls a use case per stage.  What a use case does inside is  *)
(* in TaskPipeline, Planning, QualityGate, ReviewRound, CommitDelivery and *)
(* Worktrees; here it is one action with the outcomes the driver tells     *)
(* apart, and what this module is about is what happens between them.      *)
(* While a run works, GitHub changes, agents write, the base branch moves, *)
(* a query or a write fails, and the process may die.                      *)
(*                                                                         *)
(* One task.  Its checkpoint file holds its issue (CheckpointStore), so    *)
(* that the driver's arms for a checkpoint of another issue are left out,  *)
(* and so are --dry-run and --no-worktree.  A run that is not given the    *)
(* issue infers one, which need not be the one the checkpoint is for.      *)
(***************************************************************************)
EXTENDS Lifecycle, Sequences

CONSTANTS
    Modes,          \* the modes an operator runs
    MaxGateRetries, \* circuitBreakers.maxGateRetries
    MaxNews,        \* bound: changes of GitHub
    MaxTrouble      \* bound: queries, writes, gates, reviews that fail; crashes

ASSUME RunAssumption ==
    /\ Modes \subseteq EXECUTION_MODES
    /\ MaxGateRetries \in Nat /\ MaxNews \in Nat /\ MaxTrouble \in Nat

VARIABLES
    ck,         \* the checkpoint of the task, or NoCheckpoint
    github,     \* the task's issue and its pull requests
    workspace,  \* the task's worktree, what is changed in it, its documents
    run,        \* the run in progress
    said,       \* what the last run reported
    news,       \* bound: see MaxNews
    trouble     \* bound: see MaxTrouble

vars == <<ck, github, workspace, run, said, news, trouble>>

NoCheckpoint == [stage |-> "none"]
Idle == [at |-> "idle"]
None == "none"
Nothing == [kind |-> "nothing", stage |-> None]

PullRequest(state, closes, feedback) == [state |-> state, closes |-> closes, feedback |-> feedback]
PullRequests == [state : {"OPEN", "MERGED", "CLOSED"}, closes : BOOLEAN, feedback : BOOLEAN]

Quiet == [closed |-> FALSE, prs |-> <<>>]

\* An issue that a run takes for the one it works on.
OtherTasks == {[Quiet EXCEPT !.closed = TRUE], [Quiet EXCEPT !.prs = <<PullRequest("OPEN", TRUE, TRUE)>>]}

\* What may differ from the base branch, and what only looks as if it did.
Evidence == {"own commit", "edit"}
NoEvidence == {"new document", "base commit"}

TypeOK ==
    /\ ck \in Checkpoint \union {NoCheckpoint}
    /\ github.closed \in BOOLEAN
    /\ github.prs \in Seq(PullRequests)      \* the newest first
    /\ workspace.tree \in BOOLEAN
    /\ workspace.changes \subseteq Evidence \union NoEvidence
    /\ workspace.report \in BOOLEAN
    /\ run.at \in {"idle", "preflight", "enter", "route", "planning", "provision",
                   "implement", "probe", "gate", "breaker", "review", "commit"}
    /\ said.stage \in Stages \union {None}
    /\ news \in 0 .. MaxNews
    /\ trouble \in 0 .. MaxTrouble

Init ==
    /\ ck = NoCheckpoint
    /\ github \in {Quiet, [Quiet EXCEPT !.prs = <<PullRequest("OPEN", TRUE, FALSE)>>],
                   [Quiet EXCEPT !.prs = <<PullRequest("MERGED", TRUE, FALSE)>>]}
    /\ workspace = [tree |-> FALSE, changes |-> {}, report |-> FALSE]
    /\ run = Idle
    /\ said = Nothing
    /\ news = 0
    /\ trouble = 0

-----------------------------------------------------------------------------
(* Steps of a run.                                                         *)

\* transition(), to which this module does not need the history.  The mode in the
\* checkpoint is the one the last run asked for; every run has its own.
Move(sm, to) == [Transition(sm, to) EXCEPT !.gateRounds = 0]

Stage == ck.stage

Fails == trouble < MaxTrouble /\ trouble' = trouble + 1

Reports(kind, stage) ==
    /\ run' = Idle
    /\ said' = [kind |-> kind, stage |-> stage]

\* An error ends the run; the command line prints it.
Throws == Reports("error", None)

\* What the steps before found, no later one reads.
Continues(at) ==
    /\ run' = [run EXCEPT !.at = at, !.feedback = FALSE, !.bound = FALSE, !.found = FALSE,
                          !.diff = None, !.own = FALSE]
    /\ UNCHANGED said

\* Its stage's step of a run that goes through the stages.
Onward(stage) ==
    IF run.mode = "yolo"
    THEN CASE stage \in {"INITIALIZED", "DISCOVERY"} -> "planning"
           [] stage \in {"PLAN", "APPROVAL"} -> "provision"
           [] stage = "IMPLEMENT" -> "probe"
           [] stage \in {"QUALITY_GATE", "COMMIT", "COMPLETED"} -> "gate"
           [] OTHER -> "idle"
    ELSE CASE stage \in {"INITIALIZED", "DISCOVERY"} -> "planning"
           [] stage = "APPROVAL" -> "provision"
           [] stage = "IMPLEMENT" -> "probe"
           [] stage \in {"QUALITY_GATE", "REVIEW"} -> "review"
           [] stage = "COMMIT" -> "commit"
           [] OTHER -> "idle"

\* The driver reads the stage a use case returned; where no step of its mode
\* fits, it stops there.  The yolo run stops at REVIEW: no gate runs from it.
Proceeds(stage) ==
    IF Onward(stage) = "idle"
    THEN Reports(IF run.mode = "yolo" THEN "stopped" ELSE "result", stage)
    ELSE Continues(Onward(stage))

WillProvision(mode, stage) ==
    \/ mode = "implement"
    \/ mode = "yolo" /\ stage # "COMPLETED"
    \/ mode = "standard" /\ stage = "APPROVAL"

-----------------------------------------------------------------------------
(* Before any stage.                                                       *)

\* `about` is the issue the run is given or infers.
Execute(mode, about, commitAfter) ==
    /\ run = Idle
    /\ \/ /\ Stage = "COMPLETED" /\ mode = "standard"
          /\ said' = [kind |-> "already completed", stage |-> "COMPLETED"]
          /\ UNCHANGED <<run, trouble>>
       \/ /\ ~(Stage = "COMPLETED" /\ mode = "standard")
          /\ run' = [at |-> IF about = None THEN "enter" ELSE "preflight",
                     mode |-> mode, about |-> about,
                     commitAfter |-> commitAfter,
                     feedback |-> FALSE, delivered |-> FALSE,
                     loaded |-> IF mode = "implement" THEN ck ELSE NoCheckpoint,
                     bound |-> FALSE, found |-> FALSE, diff |-> None, own |-> FALSE]
          /\ said' = Nothing
          /\ UNCHANGED trouble
       \/ /\ WillProvision(mode, Stage)      \* assertWorkspaceProvisionable throws
          /\ Fails
          /\ said' = [kind |-> "error", stage |-> None]
          /\ UNCHANGED run
    /\ UNCHANGED <<ck, github, workspace, news>>

NoPr == PullRequest(None, FALSE, FALSE)

Newest(prs) == IF prs = <<>> THEN NoPr ELSE Head(prs)

\* The search prefers one that says it closes the issue; a search that fails
\* for want of rights throws, any other leaves the query by branch name.
FindPullRequest(prs, missed) ==
    LET closing == SelectSeq(prs, LAMBDA p : p.closes)
    IN  IF "rights" \in missed THEN NoPr
        ELSE IF "search" \in missed \/ closing = <<>> THEN Newest(prs)
        ELSE Head(closing)

\* Truth, not what a query says: closed, or delivered by the newest pull
\* request that says so.
Delivered(task) ==
    \/ task.closed
    \/ FindPullRequest(task.prs, {}).state = "MERGED" /\ FindPullRequest(task.prs, {}).closes

\* Mutant: pull requests are asked for feedback only.
Halts_onClosedIssue(task, pr, missed) == task.closed /\ "issue" \notin missed

Halts(task, pr, missed) ==
    \/ task.closed /\ "issue" \notin missed
    \/ pr.state = "MERGED" /\ pr.closes

\* A query that does not answer has found nothing.
PreFlight(task, missed) ==
    LET pr == FindPullRequest(task.prs, missed)
    IN  /\ run.at = "preflight"
        /\ IF run.about = "task" THEN task = github ELSE task \in OtherTasks
        /\ IF missed = {} THEN UNCHANGED trouble ELSE Fails
        /\ IF Halts(task, pr, missed)
           THEN Reports("halted", None)
           ELSE /\ run' = [run EXCEPT !.at = "enter", !.about = None,
                                      !.feedback = pr.state = "OPEN" /\ pr.feedback
                                                     /\ "comments" \notin missed,
                                      !.delivered = missed = {} /\ run.about = "task" /\ Delivered(task)]
                /\ UNCHANGED said
        /\ UNCHANGED <<ck, github, workspace, news>>

\* Planning a finished task starts it over.
Entered ==
    IF ck = NoCheckpoint THEN CreateInitial("standard")
    ELSE IF Stage = "COMPLETED" /\ run.mode = "plan" THEN Reset("standard")
    ELSE ck

\* Every save of a run that has a failure of its own to report.
Saves(sm) ==
    \/ ck' = sm /\ UNCHANGED trouble
    \/ sm # ck /\ Fails /\ UNCHANGED ck

\* Of an existing checkpoint what is saved, and may fail to be, is the mode.
Enter ==
    /\ run.at = "enter"
    /\ \/ ck' = Entered /\ Continues("route") /\ UNCHANGED trouble
       \/ Fails /\ Throws /\ UNCHANGED ck
    /\ UNCHANGED <<github, workspace, news>>

\* Open feedback goes to TRIAGE whatever the mode; so does a run that finds
\* the task there, which records nothing.
Route ==
    /\ run.at = "route"
    /\ IF run.feedback /\ CanTransition(ck, "TRIAGE")
       THEN LET sm == PauseAtGate(Move(ck, "TRIAGE"), "TRIAGE")
            IN  Saves(sm) /\ IF ck' = sm THEN Reports("triage", "TRIAGE") ELSE Throws
       ELSE /\ UNCHANGED <<ck, trouble>>
            /\ CASE Stage = "TRIAGE" -> Reports("triage", "TRIAGE")
                 [] Stage # "TRIAGE" /\ run.mode = "plan" -> Continues("planning")
                 [] Stage # "TRIAGE" /\ run.mode = "implement" -> Continues("provision")
                 [] Stage # "TRIAGE" /\ run.mode = "commit" -> Continues("commit")
                 [] OTHER -> Proceeds(Stage)
    /\ UNCHANGED <<github, workspace, news>>

-----------------------------------------------------------------------------
(* Planning and implementation.                                            *)

\* The stages StartPlanningUseCase may leave (see Planning).  DISCOVERY is
\* left with its report, or skipped.
PlanningTargets ==
    CASE Stage = "INITIALIZED" -> {"DISCOVERY", "PLAN"}
      [] Stage = "DISCOVERY" -> {"PLAN"} \union (IF workspace.report THEN {} ELSE {"DISCOVERY"})
      [] Stage = "IMPLEMENT" -> {"PLAN"}
      [] Stage = "APPROVAL" -> {"APPROVAL", "PLAN"}
      [] OTHER -> {Stage}

Planning ==
    /\ run.at = "planning"
    /\ \E to \in PlanningTargets :
         LET sm == IF to = Stage THEN ck ELSE Move(ck, to)
         IN  /\ Saves(sm)
             /\ IF ck' # sm THEN Throws
                ELSE IF run.mode = "yolo" /\ to # "DISCOVERY" THEN Proceeds(to)
                ELSE Reports("planned", to)
    /\ UNCHANGED <<github, workspace, news>>

\* What is removed with a tree is what nobody committed.
TreeRemoved == [workspace EXCEPT !.tree = FALSE, !.changes = @ \intersect {"own commit", "base commit"}]

\* resolveWorktree: a descriptor that cannot be saved takes the tree with it.
Provision ==
    /\ run.at = "provision"
    /\ \/ /\ ck' = [ck EXCEPT !.worktree = TRUE]
          /\ workspace' = [workspace EXCEPT !.tree = TRUE]
          /\ run' = [run EXCEPT !.at = "implement", !.bound = ck.worktree, !.found = workspace.tree]
          /\ UNCHANGED <<said, trouble>>
       \/ /\ Fails /\ Throws
          /\ workspace' \in {workspace, TreeRemoved}
          /\ UNCHANGED ck
    /\ UNCHANGED <<github, news>>

ImplementationStages == {"PLAN", "APPROVAL", "IMPLEMENT", "COMPLETED"}

\* From PLAN to IMPLEMENT over an approval, which only yolo leaves out.
Implemented ==
    LET sm == ResumeFromGate(ck)
    IN  IF Stage = "IMPLEMENT" THEN sm
        ELSE IF Stage = "PLAN" /\ run.mode # "yolo" THEN Move(Move(sm, "APPROVAL"), "IMPLEMENT")
        ELSE Move(sm, "IMPLEMENT")

\* What a refused implementation puts back.
Restored ==
    IF run.mode = "implement" /\ run.loaded # NoCheckpoint THEN run.loaded
    ELSE [ck EXCEPT !.worktree = FALSE]

\* A refused `implement` removes only the tree it made; the other modes any
\* tree that no descriptor named before.
StartImplementation ==
    /\ run.at = "implement"
    /\ \/ /\ Stage \in ImplementationStages
          /\ ck' = Implemented
          /\ IF run.mode = "implement" THEN Reports("result", "IMPLEMENT") ELSE Proceeds("IMPLEMENT")
          /\ UNCHANGED <<workspace, trouble>>
       \/ /\ IF Stage \in ImplementationStages THEN Fails ELSE UNCHANGED trouble
          /\ Throws
          /\ IF ~run.bound /\ (run.mode = "implement" => ~run.found)
             THEN ck' = Restored /\ workspace' = TreeRemoved
             ELSE UNCHANGED <<ck, workspace>>
    /\ UNCHANGED <<github, news>>

-----------------------------------------------------------------------------
(* What has been implemented: DetectImplementationDiffUseCase.             *)

\* `git status` in the active workspace: the task's tree, else the root.
StatusFiles == IF ck.worktree THEN workspace.changes \intersect {"edit"} ELSE {}

\* Mutant: the diff is against the base itself, not where the branch left it.
BranchFiles_twoDots ==
    IF ck.worktree THEN workspace.changes \intersect {"own commit", "edit", "base commit"} ELSE {}

\* Mutant: only what git status shows is a change.
BranchFiles_uncommitted == StatusFiles

\* `git diff` against the merge base, so that what only the base got is no
\* change of the branch.
BranchFiles ==
    IF ck.worktree THEN workspace.changes \intersect {"own commit", "edit"} ELSE {}

\* "unprobed": git status did not answer.  "unmeasured": only the comparison
\* with the base did not, so that no changes may mean uncounted commits.
ImplementationDiff ==
    /\ run.at = "probe"
    /\ \E diff \in {"changes", "empty", "unmeasured changes", "unmeasured", "unprobed"} :
         /\ CASE diff = "changes" -> StatusFiles \union BranchFiles # {} /\ UNCHANGED trouble
              [] diff = "empty" -> StatusFiles \union BranchFiles = {} /\ UNCHANGED trouble
              [] diff = "unmeasured changes" -> StatusFiles # {} /\ Fails
              [] diff = "unmeasured" -> StatusFiles = {} /\ Fails
              [] OTHER -> IF ck.worktree /\ ~workspace.tree THEN UNCHANGED trouble ELSE Fails
         /\ ck.worktree /\ ~workspace.tree => diff = "unprobed"
         /\ IF run.mode = "yolo" /\ diff \in {"empty", "unmeasured"}
            THEN Reports("parked", "IMPLEMENT")
            ELSE /\ run' = [run EXCEPT !.at = "gate", !.diff = diff,
                                       !.own = workspace.changes \intersect Evidence # {}]
                 /\ UNCHANGED said
    /\ UNCHANGED <<ck, github, workspace, news>>

-----------------------------------------------------------------------------
(* Gate, breaker, review, commit.                                          *)

AtGate == IF Stage = "QUALITY_GATE" THEN ck ELSE Move(ck, "QUALITY_GATE")

\* The gate has nothing to measure; only the standard run gets here with it.
Vacuous == run.diff = "empty"

RunQualityGate ==
    /\ run.at = "gate"
    /\ \/ /\ Vacuous
          /\ Reports("vacuous", Stage)
          /\ UNCHANGED <<ck, trouble>>
       \/ /\ ~Vacuous
          /\ ck' = [Move(AtGate, "REVIEW") EXCEPT !.implementGateLoops = 0]
          /\ Continues("review")
          /\ UNCHANGED trouble
       \/ /\ ~Vacuous
          /\ Fails
          /\ ck' = [Move(AtGate, "IMPLEMENT") EXCEPT !.implementGateLoops = @ + 1]
          /\ Continues("breaker")
       \/ /\ ~Vacuous
          /\ Fails /\ Throws
          /\ UNCHANGED ck
    /\ UNCHANGED <<github, workspace, news>>

\* Mutant: the driver pauses the state machine it held before the gate.
Paused_stale(sm) == PauseAtGate([sm EXCEPT !.stage = "QUALITY_GATE"], "CIRCUIT_BREAKER")

\* A pause that is recorded already stays, whatever it waits for.
Paused(sm) == PauseAtGate(sm, "CIRCUIT_BREAKER")

\* At the limit the configured action: abort, warn, or pause and try to save it.
MaybeTripGateBreaker ==
    /\ run.at = "breaker"
    /\ \/ /\ ck.implementGateLoops < MaxGateRetries
          /\ Reports("gates failed", Stage)
          /\ UNCHANGED <<ck, trouble>>
       \/ /\ ck.implementGateLoops >= MaxGateRetries
          /\ \/ Throws /\ UNCHANGED <<ck, trouble>>
             \/ Reports("warned", Stage) /\ UNCHANGED <<ck, trouble>>
             \/ /\ ck' = Paused(ck)
                /\ Reports("breaker", Stage)
                /\ UNCHANGED trouble
             \/ /\ Fails
                /\ Reports("breaker unsaved", Stage)
                /\ UNCHANGED ck
    /\ UNCHANGED <<github, workspace, news>>

AtReview == IF Stage = "REVIEW" THEN ck ELSE Move(ck, "REVIEW")

\* Unattended it ends at COMMIT unless it was told to commit.
RunReview ==
    /\ run.at = "review"
    /\ \/ /\ ck' = PauseAtGate(Move(AtReview, "COMMIT"), "COMMIT")
          /\ IF run.mode = "yolo" /\ ~run.commitAfter
             THEN Reports("paused", "COMMIT") ELSE Continues("commit")
          /\ UNCHANGED trouble
       \/ /\ Fails
          /\ ck' = Move(AtReview, "IMPLEMENT")
          /\ Reports("changes requested", "IMPLEMENT")
       \/ /\ Fails /\ Throws      \* the gate is not certified, or the reviewer fails
          /\ UNCHANGED ck
    /\ UNCHANGED <<github, workspace, news>>

\* The tree of a finished task goes; what was uncommitted in it is committed.
Committed ==
    [workspace EXCEPT !.tree = FALSE,
                      !.changes = IF ck.worktree
                                  THEN (@ \intersect {"base commit"}) \union {"own commit"} ELSE @]

DraftAndExecuteCommit ==
    /\ run.at = "commit"
    /\ \/ /\ Stage = "COMMIT"
          /\ ck' = [Move(ck, "COMPLETED") EXCEPT !.worktree = FALSE]
          /\ workspace' = Committed
          /\ Reports("result", "COMPLETED")
          /\ UNCHANGED trouble
       \/ /\ Stage = "COMMIT" /\ ~run.commitAfter      \* nobody asked for it or confirms
          /\ Reports("paused", "COMMIT")
          /\ UNCHANGED <<ck, workspace, trouble>>
       \/ /\ IF Stage = "COMMIT" THEN Fails ELSE UNCHANGED trouble
          /\ Throws
          /\ UNCHANGED <<ck, workspace>>
    /\ UNCHANGED <<github, news>>

\* The process dies.
Crash ==
    /\ run # Idle
    /\ Fails
    /\ run' = Idle /\ said' = Nothing
    /\ UNCHANGED <<ck, github, workspace, news>>

-----------------------------------------------------------------------------
(* Meanwhile.  A change that no later step of the run would read is left   *)
(* until the run is over.                                                  *)

\* codeloop transition, between runs.
TransitionStage ==
    /\ run = Idle
    /\ \/ Stage = "PLAN" /\ ck' = PauseAtGate(Move(ResumeFromGate(ck), "APPROVAL"), "APPROVAL")
       \/ Stage = "IMPLEMENT" /\ ck' = Move(ResumeFromGate(ck), "QUALITY_GATE")
       \/ Stage = "TRIAGE" /\ ck' = Move(ResumeFromGate(ck), "IMPLEMENT")
    /\ said' = Nothing
    /\ UNCHANGED <<github, workspace, run, news, trouble>>

\* GitHub: at most two pull requests, of which the newest changes.
GitHubChanges ==
    /\ run.at \in {"idle", "preflight"}
    /\ news < MaxNews
    /\ news' = news + 1
    /\ LET prs == github.prs
       IN  \/ /\ Len(prs) < 2
              /\ \E closes \in BOOLEAN :
                   github' = [github EXCEPT !.prs =
                                <<PullRequest("OPEN", closes, FALSE)>> \o prs]
           \/ /\ Newest(prs).state = "OPEN"
              /\ \/ github' = [github EXCEPT !.prs[1].feedback = TRUE]
                 \/ \E state \in {"MERGED", "CLOSED"} :
                      github' = [github EXCEPT !.prs[1].state = state]
           \/ /\ ~github.closed
              /\ github' = [github EXCEPT !.closed = TRUE]
    /\ said' = Nothing
    /\ UNCHANGED <<ck, workspace, run, trouble>>

AgentReports ==
    /\ Stage = "DISCOVERY"
    /\ ~workspace.report
    /\ run.at \in {"idle", "planning"}
    /\ workspace' = [workspace EXCEPT !.report = TRUE]
    /\ said' = Nothing
    /\ UNCHANGED <<ck, github, run, news, trouble>>

AgentImplements ==
    /\ workspace.tree
    /\ run.at \in {"idle", "probe"}
    /\ workspace.changes \intersect Evidence = {}
    /\ \E kind \in Evidence :
         workspace' = [workspace EXCEPT !.changes = @ \union {kind}]
    /\ said' = Nothing
    /\ UNCHANGED <<ck, github, run, news, trouble>>

\* Documents are written and the base branch moves on: neither is the work.
Noise ==
    /\ workspace.tree
    /\ run.at \in {"idle", "probe"}
    /\ workspace' = [workspace EXCEPT !.changes = @ \union NoEvidence]
    /\ said' = Nothing
    /\ UNCHANGED <<ck, github, run, news, trouble>>

RunStep ==
    \/ \E task \in {github} \union OtherTasks,
          missed \in {{}, {"issue"}, {"rights"}, {"search"}, {"comments"}} : PreFlight(task, missed)
    \/ Enter \/ Route \/ Planning \/ Provision \/ StartImplementation
    \/ ImplementationDiff \/ RunQualityGate \/ MaybeTripGateBreaker \/ RunReview
    \/ DraftAndExecuteCommit

Next ==
    \/ \E mode \in Modes, about \in {"task", "other", None}, commitAfter \in BOOLEAN :
         (commitAfter => mode = "yolo") /\ Execute(mode, about, commitAfter)
    \/ RunStep \/ Crash \/ TransitionStage \/ GitHubChanges
    \/ AgentReports \/ AgentImplements \/ Noise

Spec == Init /\ [][Next]_vars

\* A run that was started goes on, agents do what they are dispatched for, and
\* whatever else is run, the task's issue is run unattended again and again.
FairSpec ==
    /\ Spec
    /\ WF_vars(RunStep)
    /\ SF_vars(AgentReports)
    /\ SF_vars(AgentImplements)
    /\ SF_vars(Execute("yolo", "task", TRUE))

-----------------------------------------------------------------------------
(* Properties.                                                             *)

\* A run for a task that GitHub, asked without a failure, shows as closed or
\* delivered leaves the checkpoint and the worktree alone: the pre-flight
\* comes before the first save.  A run that was not given the issue looks at
\* the one it infers, or at none.
DeliveredIsLeftAlone ==
    [][run # Idle /\ run.delivered
         => ck' = ck /\ workspace'.tree = workspace.tree]_vars

\* Work that goes from IMPLEMENT through the gate holds a change of its own:
\* not the plan documents, not what the base branch got in the meantime.  Only
\* where git did not answer is the gate left to decide, and an unattended run
\* does not take even a missing comparison for an answer.
GatedWorkIsItsOwn ==
    [][ck.stage = "IMPLEMENT" /\ ck'.stage = "REVIEW"
         => \/ run.own
            \/ run.diff = "unprobed"
            \/ run.diff = "unmeasured" /\ run.mode # "yolo"]_vars

\* What a run says is so: the stage it names is the recorded one, and a stop at
\* the breaker is a pause on record.
WhatWasSaidIsSo ==
    run = Idle =>
        /\ said.stage # None => ck.stage = said.stage
        /\ said.kind = "breaker" => ck.pausedAtGate # NoGate

\* A task that is run unattended again and again is completed, unless GitHub
\* says it is done or has feedback for TRIAGE, the run finds it at REVIEW, where
\* only another command goes on, or it came to IMPLEMENT without a worktree, so
\* that its agent works in the root, which is left out here.
UnattendedTaskEnds ==
    []<>(\/ Stage \in {"COMPLETED", "TRIAGE"}
         \/ said.kind = "halted"
         \/ said = [kind |-> "stopped", stage |-> "REVIEW"]
         \/ Stage = "IMPLEMENT" /\ ~ck.worktree)
=============================================================================
