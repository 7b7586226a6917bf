# codeloop in TLA+

codeloop drives one issue through a lifecycle of stages: plan, approval,
implementation, quality gate, review, commit, feedback on the pull request.
Several short-lived command-line processes, agents and people act on the same
task; all they share is a set of JSON files, git worktrees, a plan document and
GitHub. These modules model that protocol from the TypeScript source (paths below
are relative to `src/src`).

## 1. Inventory

| component | state | operations | hard behaviour | what makes it correct |
|---|---|---|---|---|
| lifecycle state machine: `domain/entities/state-machine.ts`, `lifecycle-stages.ts`, `value-objects/stage.ts` | the checkpoint: stage, mode, history, pause, approved digest, deviations, counters, worktree | `transition`, `pauseAtGate`, `resumeFromGate`, `reset`, `setMode`, `record...` | human pauses that survive a transition, rounds that end or continue depending on the stage left | a pause ends with its stage, a loop keeps digest and deviations |
| gate evidence: `gate-result-report.ts`, `file-gate-report-repository.ts`, `certify-review-exit.ts`, `cli.ts` `gate-report` | `tasks/<issue>.gate.json` | file, load, clear, certify | late writers, a clear that fails silently, two files that cannot be written together | one report certifies the one visit it was filed in |
| stage use cases: `transition-stage`, `start-planning`, `start-implementation`, `run-quality-gate`, `run-review`, `execute-commit`, `triage-pr-comments` | none of their own | load, compute, write several things in order | a crash or error between two writes, data read early and used late | every prefix of the writes is a state the next command can work from |
| lifecycle driver `run-lifecycle.ts`, `run-preflight-check.ts` | the loaded machine, counters, what it created | the mode chains, pre-flight, provisioning, refusal, breaker | works on a machine loaded before its use cases saved theirs; GitHub changes under it | what it reports is on record, a delivered task is left alone |
| `next`: `get-next-action.ts`, `lifecycle-reentry-policy.ts` | dispatch counters, boundary baseline | directives, re-entry, counter saves | a read path that writes, counters whose save may fail | each loop ends or hands over |
| triage: `triage-pr-comments.ts`, `triage-disposition.ts` | the disposition in the checkpoint, replies on GitHub | route, dismiss, record | one call per comment, each of which may fail or lose its answer | nothing is answered twice, nothing is recorded as handled that was not |
| commit: `draft-commit.ts`, `execute-commit.ts` | index, branch, remote, pull request | draft, add, commit, push, open, save, tear down | a dozen fallible calls, retries after each | COMPLETED is delivered, the teardown destroys nothing confirmed |
| halt, resume, reset; plan deviations | none; a list in the checkpoint | one checkpoint write each | run while other commands run | they act on the task they name; no deviation is lost or unanswered |
| checkpoint store: `file-state-repository.ts`, `resolve-task-checkpoint.ts` | one file per issue, one for the root | list, rank, load, save, reset, reset --all | no locks, saves that are not atomic, ties | no file holds another's checkpoint |
| worktree manager `git-worktree-manager.ts`, abort, `worktree` commands | git worktrees, branches, descriptors | create, adopt, remove, sweep, quarantine, prune | removal that fails half way, several tasks in one repository | uncommitted work survives; descriptor and tree agree |
| plan documents: `file-plan-generator.ts`, `plan-content.ts`, `discovery-report.ts` | plan directories and what is in them | rank, scaffold, resolve, heal, adopt | titles that change, two names of one document | nothing written is overwritten, plan and report lie together |
| gate contracts over text: targets, smoke protocol, register, baseline, evidence paths | none | parse and compare | what a section is, where a script is, what the repository became meanwhile | a gate that passes ran what the plan declares; no task is refused over its own work |
| review: `resolve-subagent.ts` (Tier 1), `run-review.ts`, `review-verdict.ts`, `finding-refutation.ts`, `critique-provenance.ts` | a report, its sidecar, the recorded verdict | critique, publish, decide | two files that are not written together, a tree that moves | an approval is of this tree and leaves nothing open |
| collector branches: `sync.ts`, `milestone-release.ts`, `semver-calculator.ts` | issues and pull requests on GitHub, local branches | sync, close, predict, open a release | paged lists, partial failure, stale branches | merged work is closed, the release label covers its commits |
| runners, status, configuration, installation, prompts, build probes | none or files from templates | I/O and string computation | outside the task protocol | not stated |

How they interact: a command resolves a checkpoint file (store), loads it into a
state machine, checks guards (evidence, digest, deviations), computes the next
machine, and then writes: worktree, gate report, checkpoint, summary, in an
order that differs per command. Nothing is locked and nothing is called back; all
interaction is through files, git and GitHub. `gate-report` reads the checkpoint
and writes only the report. The plan document is edited by agents and people at any
time.

The hazards are listed with their lines in `PROJECT.json`, each with the properties
that would catch it going wrong.

## 2. Modules

Each module takes one axis of the system and keeps all of its control; what it
leaves to another module is said in its head comment.

| module | what it is | composes |
|---|---|---|
| Lifecycle | the checkpoint entity, one operator per method of `StateMachine`, the transition table | |
| TaskPipeline | all commands of one task, write by write | Lifecycle, implements EvidenceContract |
| EvidenceContract | what the gate promises, without files, rounds or failures | |
| CheckpointStore | several checkpoint files, several commands at a time | |
| AgentLoop | an agent that follows `next` | Lifecycle |
| LifecycleRun | a run of the driver, in every mode | Lifecycle |
| Planning | documents of a task and the commands that make and find them | |
| QualityGate, GateContracts | the gate run and the reports it accepts, over parsed plans | QualityGate over GateContracts |
| SmokeStatics | static rules of a smoke script beside the shell that runs it | |
| PlanApproval | plan contracts compared with a repository that moves | |
| ReviewRound | Tier 1 processes, their evidence and the review command | |
| CommitDelivery | the commit command call by call | |
| TriageFeedback | feedback on the pull request and its disposition | |
| Worktrees | the worktrees of several tasks | |
| Collector | sync and release on a collector branch | |
| MC... | values of the constants and symmetry for TLC; MCAgentLoop, MCCheckpointStore, MCCollector and MCPlanning are instances, so that a proof module can speak of two components; MCPlanContracts puts QualityGate, SmokeStatics and PlanApproval into one run, of which a behaviour explores one | |
| TaskPipelineProofs, DriverProofs, PlanContractsProofs, WorkspaceProofs, DeliveryProofs, TriageFeedbackProofs, ReviewRoundProofs | theorems | DriverProofs over LifecycleRun and MCAgentLoop, WorkspaceProofs over Worktrees, MCCheckpointStore and MCPlanning, DeliveryProofs over CommitDelivery and MCCollector, PlanContractsProofs over MCPlanContracts and FoldTheorems, ReviewRoundProofs over ReviewRound and FoldTheorems |
| FoldTheorems | induction over the elements of a sequence, for the folds the parsers are | |

### Lifecycle and TaskPipeline

The history array is reduced to what commands read back from it: the number of
QUALITY_GATE entries (`gateRounds`, the round a report is stamped with) and the
latest recorded verdict. `disk`, `report`, `plan` and `tree` are the checkpoint
file, the gate report file, the plan's bytes and the worktree. A command is one
action that reads all of them, applies the guards and the whole in-memory
computation and leaves in `op` the machine to save and the list of writes to do
(`todo`), in the order of the code; each write is one step (`Save`, `ClearReport`,
`CreateWorktree`, `Scaffold`, `RemoveWorktree`, `DetachWorktree`, `FileMeasured`).
`Die` stops a command between any two. `filing` is a `gate-report` process between
its read and its write; it runs concurrently with everything. `verified` and the
bit `ofThisVisit` of a report are history the code does not have.

| action | code |
|---|---|
| `EnterLifecycle`, `RouteToTriage` | `RunLifecycleUseCase.execute`, its own saves |
| `StartPlanning`, `StartImplementation` | `StartPlanningUseCase`, `StartImplementationUseCase` |
| `TransitionStage` | `TransitionStageUseCase` (`codeloop transition`) |
| `RunQualityGate` | `RunQualityGateUseCase`, the gate a lifecycle run executes itself |
| `RunReview` | `RunReviewUseCase`, with the hop from COMMIT and the certifying exit |
| `ReadForReport`, `FileReport`, `AbandonReport` | `codeloop gate-report` |
| `FileDeviation`, `AcknowledgeDeviation` | `ManagePlanDeviationsUseCase` |
| `HaltPipeline`, `ResumePipeline`, `ResetPipeline` | the use cases of those names |
| `NextRouteTriage`, `NextRestart`, `NextExitTriage` | the stage writes of `GetNextActionUseCase` |
| `TriagePrComments`, `CommitConfirmed`, `CommitRejected` | `TriagePrCommentsUseCase`, `ExecuteCommitUseCase` |

EvidenceContract: a visit starts without evidence, evidence stays until the visit
ends, and only a visit with evidence ends certified. The refinement mapping in
TaskPipeline (`ContractRefinement`) reads the visit off the stage and the report.

### CheckpointStore

A command resolves (a scan is one step), loads (one step) and saves (two steps, since
`writeFileSync` truncates first). The ranking is the code's left fold, evaluated for
every order the directory may be listed in.

### AgentLoop

`sm` is the checkpoint as `next` reads it, `work` what it finds outside (report,
plan, diff, evidence, whether the plan is refused or the tree readable), `agent` the
caller of `next`. `NextAction` is `GetNextActionUseCase.execute` with one operator per
`build...Action` method, the counting of the dispatch and its save, which may fail;
`Advance`, `ImplementerWorks`, `ReviewerFiles` and the others are what the agent then
runs, `Answer...`, `Resume`, `Restart` what people do, `Trouble` a halt, an edited
plan or a removed worktree at any time, `InProcessGate` a driver run in between.

### LifecycleRun

`run` is the driver process: its program counter names the place in `execute` and its
private methods, and it holds the loaded machine and what it created. A use case is
one action with the outcomes the driver tells apart. `github` is what the pre-flight asks
about, `workspace` the tree, what is changed in it and the documents, `said` what the run
reported. `Execute` starts a run in one of five modes, `Crash` ends it anywhere,
`GitHubChanges`, `AgentReports`, `AgentImplements`, `TransitionStage` and `Noise` come
from outside.

### Planning

A document is reduced to what its readers tell apart: absent, scaffold, template,
written. `GetNextAction` and `Obey` are `next` and the agent; `CommandStep` executes
`plan` and the planning transitions step by step over `FilePlanGenerator` (ranking,
scaffold, resolution, healing of a mirror); `Whim` is everything nobody directed:
another title, a command out of order, a removed directory, a crash.

### QualityGate, GateContracts, SmokeStatics, PlanApproval

A plan is a sequence of lines of the kinds the parsers tell apart. GateContracts holds
the pure functions: command targets, smoke checks, command detection, coverage and
integrity of a report. QualityGate is a run: `StartRun` reads and hashes the plan,
`ResolveVerification`, `RunCommand`, `RunSmokeProtocol`, `RehashPlan`, `SaveVerdict`,
`FileEvidence` follow `run-quality-gate.ts`; `FileReport` is the sub-agent's report,
`EnterReview` the certifying exit. The sets of documents, configurations, summaries and
outcomes are constants (`GateAssumption`): any sequences of lines and commands.

SmokeStatics reads a script statement by statement. The rules' state (`track`, `scan`)
and the shell's (`sh`) advance side by side, so that each script a rule accepted can be
compared with what it did (`findings` against `events`).

PlanApproval runs the three contracts at APPROVAL and on a fresh way into IMPLEMENT
while the plan, the base branch, the worktree and what commands print move.

### ReviewRound

`StartTier1`, `RunCritique`, `MeasureTier1`, `PublishSidecar`, `PublishReport` and
`Tier1Ends` are the critique command of `resolve-subagent.ts` in its order of writes.
`BeginReview`, `ReadSidecar`, `MeasureReview`, `CritiqueInside` and
`RefuseReview`/`SaveReview` are `RunReviewUseCase`. A worktree is a content and HEAD.

### CommitDelivery

`DraftCommit`, `Confirmed`, `CheckStatus`, `AddAll`, `Untrack`, `GitCommit`,
`ListPullRequests`, `FirstPush`, `FallbackPush`, `CreatePullRequest`, `Save`,
`Teardown`, `SaveUnbound`, `Report` are the calls of `execute-commit.ts` in order. Each
may fail, or take effect and lose its answer; `Edit` and `StageByHand` come in between.

### TriageFeedback

`Post` is GitHub's side, `NextRoutes`, `RunRoutes`, `NextLeavesTriage` the routing,
`Triage` starts the command, `ListThreads`, `TriageThread`, `TurnToConversation`,
`DismissConversation`, `FinishDismissal`, `Route` are its calls, one per comment.

### Worktrees

`Probe`, `Look`, `Add`, `SaveDescriptor`, `UndoProvisioning` are provisioning with reuse,
adoption and retry; `Discard`, `DiscardBranch`, `RestoreCheckpoint` the way back of a
refused run; `Teardown`, `SweepAfterCommit`, `Clean`, `RemoveByName`, `StartPruneStale`
and `Abort` everything else that removes a tree. A place is a path, a tree a branch and
uncommitted work.

### Collector

`SyncStep` and `ReleaseStep` execute the two commands call by call; `MergePull`,
`CloseOrReopen`, `MergeRelease`, `CloseRelease`, `PullBase` are people. A commit message
is a header and a body of lines, parsed as `semver-calculator.ts` does.

## 3. Runs

| run | question | bounds |
|---|---|---|
| `evidence` (TaskPipeline) | do evidence and digest stay right under crashes, failed clears, late reports and plan edits, and does the pipeline implement the gate's contract? | 2 plan versions, 2 gate rounds, 1 deviation; no restart |
| `delivery` (TaskPipeline) | do verification, pauses and deviations stay right over 13 kinds of commands, re-entries, triage and restarts? | 1 plan version, 2 rounds per history, starts in yolo; no crash |
| `store` (MCCheckpointStore) | can concurrent commands and torn saves corrupt or lose a checkpoint? | 2 task files and the root, 2 commands, 3 saves, 2 instants; commands symmetric |
| `agent` (MCAgentLoop) | does the agent that follows `next` keep to gates and caps, and get to the review? | modes standard and yolo, 1 failed save, 3 gate loops |
| `commit` (CommitDelivery) | is COMPLETED delivered, and what does the teardown destroy? | 3 paths (tracked, new, excluded), in a worktree or on a detached HEAD, 2 versions of a path, 2 visits of COMMIT |
| `triage` (MCTriageFeedback) | is feedback answered once, recorded only when handled, and does triage end? | 1 inline and 2 conversation comments, one without a marker; 3 keys |
| `worktrees` (MCWorktrees) | does any command destroy work that is not its own, or bind a task to another's tree? | 2 tasks, a leftover directory, an operator's tree; every call but the listing may fail |
| `review` (MCReviewRound) | is an approval of this tree, with nothing open? | 2 reviewers, 2 bases, 2 critiques, 1 change, 1 round |
| `planning` (MCPlanning) | is anything written lost, do plan and report lie together, do DISCOVERY and PLAN end? | 2 titles, 3 undirected events |
| `lifecycle` (LifecycleRun) | is what a run reports on record, is a delivered task left alone, does an unattended task end? | 5 modes, 1 gate retry, 1 change of GitHub, 1 failure |
| `contracts` (MCPlanContracts) | does what passed a gate run what the plan declares, do the static rules follow the shell, is a task refused over its own tests? | every document of a heading and up to three lines, and its edit; every script of 4 statements over 7 paths; 9 plans, 3 changes |
| `collector` (MCCollector) | does merged work get closed and a release cover its commits? | 1 issue, page size 1, ceiling 3, 3 pull requests, 1 failure |

Why these are enough.

* Rounds are only compared for equality and order, and a report can be wrong only
  against the round before or after its own, so two rounds show each relation (the
  proof covers any number). Two plan versions tell an unchanged plan from a changed
  one. One deviation identity is enough because each is handled apart from the others.
* Two commands already make every pair of overlapping load and save; three saves allow a
  creation and two racing updates. Two instants make equal and different `updatedAt`
  values.
* In `agent` the caps are the code's own (3 and 3); stages without a cap are told apart
  by their first dispatch only. One failed save shows by how much a cap slips, and the
  slip is counted per failure (the proof covers any number).
* In `commit` one path of each kind is enough since the calls take the paths all
  together; the second visit is the retry after a delivery.
* In `triage` the three comments are the three kinds that are answered differently: in a
  thread, by marker, and by position. Three keys let the list of dispositions be full
  without being cut (assumption in section 6).
* In `worktrees` two tasks make each command run beside each other's; the third owner is
  the operator. A tree is one unit, so its files need no number.
* In `review` two reviewers overlap in every order; a second round was checked once
  (1,953,472 states, no error) and starts from the same state as the first.
* In `planning` each of the whims is one thing gone wrong. A plan and a report in two
  folders of one issue, each the work of another sub-agent, take more of them than the run can
  afford, which is why the two safety properties are proved as well.
* `lifecycle` was also checked once with two failures (about 2.4 million states).
* Page size 1 puts the end of a page and of the scan everywhere it can be; the ceiling
  is reached by the third pull request.

The enabled commands are constants (`Commands`, `Troubles`, `Places`, `MayFail`) so
that a run can afford the interleavings it is about. Deadlock is not checked where a bound
really ends behaviours (a command that refuses is no step); the store run checks it.

### Fairness

There is no scheduler but whoever calls the commands, so fairness is assumed of
programs that are running and of the loops the documentation asks for, never of
failures, people in general or GitHub:

* A process that runs goes on or dies: weak fairness of `RunStep`, `SyncStep`,
  `CommandStep`, of the calls of a triage command, and of `AgentStep`, the loop of an
  agent that is told to ask `next` until a person is needed.
* A sub-agent that is called again and again does its work some time: strong fairness of
  `SubAgentWorks`, `AgentReports`, `AgentImplements`, and of a gate that passes some
  time. Nothing is assumed of reviewers. Without this no loop of a language model ends;
  what remains to be shown is that the code between the calls does not undo or ignore
  what they did. The assumption about the gate is needed because only in-process runs
  count toward the breaker (`run-quality-gate.ts:596`).
* An operator who starts `yolo`, `sync` or the answer of a triage gate again and again
  gets a run through: strong fairness of `Execute("yolo", ...)`,
  `StartSync("collector")`, `AnswersTheGate`, `AnswerIsRecorded`. The liveness properties
  are about exactly these operators.

### Properties worth naming

* `EvidenceIsOfThisVisit`: what certification accepts by round number was filed in the
  present visit of the gate. The code has only the number; this says it suffices.
* `ContractRefinement`: live evidence survives refusals and crashes, and no visit ends
  certified without it.
* `VerifiedPastTheGate`: each way to REVIEW, COMMIT or COMPLETED, the hop from COMMIT and
  re-opened tasks included, starts from verified work or an explicit triage.
* `NothingLostWithoutRace`: crashes and torn files lose no update; only two commands on
  the same file can.
* `CompletedIsDelivered`: over lost answers, retries and fallbacks of the push, the remote
  has the last commit of a finished task.
* `AnsweredOnce` and `DisposedWasHandled` pull against each other: a dismissal that
  stopped half way is repeated, and a retry must neither answer twice nor skip.
* `UncommittedWorkSurvives`, `RefusedRunLeavesWhatItFound`: what housekeeping, refusals
  and failed removals may touch.
* `VerifiedReportIsOfThisTree`: two files written by another process, and a tree that
  moves, under one decision.
* `WorkReachesReview`, `PlanningEnds`, `UnattendedTaskEnds`: the three drivers do not go
  round in circles.
* `WrittenWorkStays` and `PlanFollowsItsReport`: a run ranks the folders when it decides
  whether to park, when it scaffolds and when it saves, while a sub-agent may be writing;
  where it goes on, and what it writes over, must not depend on who was first.
* `NothingDeclaredIsDropped`: over all short documents, where the two parsers disagree
  about fences, sections and levels.
* `MergedWorkIsClosed` and `SuccessIsTheTruth`: partial failures of a paged scan are
  neither forgotten nor reported as done.

## 4. Proofs

`TaskPipelineProofs` proves, for all values of the constants that satisfy
`ConstantsAssumption` and `NoPlanAssumption` (sets of any size, any bound):

* `TypeCorrect`: `Spec => []TypeOK`. Lemmas type each operator of Lifecycle and
  each command's `Begin`; the writes follow from the type of `op`.
* `FinishedTaskWaitsForNobody`: `Spec => []FinishedWaitsForNobody`. Not inductive
  alone, since a running command holds a checkpoint it has yet to save, once or
  twice. `NobodyWaits` states it of the saved checkpoint and of the pending one.
* `EvidenceIsAlwaysOfThisVisit`: `Spec => []EvidenceIsOfThisVisit`, assuming
  `"restart" \notin Commands`. The invariant `RoundsDate` says that any report or
  pending filing that is not of this visit has a round a later visit cannot have:
  rounds never decrease from the saved checkpoint to the pending one, and strictly
  increase when the gate is entered (`Leads`); an in-process report is dated by
  the machine that wrote it. The assumption is necessary: with `"restart"` in the
  commands of `evidence` TLC finds the property violated (section 5).

The rest of TaskPipeline's properties follows from one invariant of the running command,
`OpSound`: until its save a command has one of a few lists of
writes before it (`Opening`), a reason to be past the gate if it is going there (`Warrants`:
it measured, it certifies, the work was past the gate, or the task is closed from
elsewhere) and the plan's record as it found it (`Keeps`); after its save, its checkpoint is
on disk and away from the gate (`Written`). `CommandsBegin` shows it of each command's
start, `OpSoundInductive` of each write.

* `WorkIsVerifiedPastTheGate`: `Spec => []VerifiedPastTheGate`, restarts included.
* `DigestStaysFrozen`, `DeviationsStayOnRecord`: `Spec => DigestFrozenInLoop` and
  `Spec => DeviationsKeptInLoop`. Only a save changes the checkpoint in the loop
  (`LoopStepPreserves`).
* `PipelineKeepsTheContract`: `Spec => ContractRefinement`, assuming
  `"restart" \notin Commands`. A save arrives, certifies, leaves or stutters, filing a report
  files or stutters, every other write happens away from the gate. The step needs
  `EvidenceStands`: a command about to certify still has this visit's report, since a
  `gate-report` left over from an earlier visit keeps a second one from being filed (the
  model runs one at a time), and `RoundsDate`, which makes the accepted round this visit's.

`DriverProofs` has both drivers. Of LifecycleRun, for any modes, retry limit and numbers of
troubles and of GitHub's changes (`RunAssumption`):

* `RunTypeCorrect`; `RunsSayWhatIsSo`: `Spec => []WhatWasSaidIsSo`;
  `DeliveredWorkIsLeftAlone`: `Spec => DeliveredIsLeftAlone`; `GatedWorkIsTheTasks`:
  `Spec => GatedWorkIsItsOwn`.

The invariant `RunInv` says what a run relies on between two steps, although agents, people
and GitHub act in between: past its entry there is a checkpoint (`HasCheckpoint`), the
pre-flight let it go on (`NotDelivered`), until it implements the task is where it was loaded
(`LoadedStage`), and a run at the gate has measured a change or could not
(`GateJustified`). None of the three properties is inductive without the others: what a run
says at the end is about the checkpoint that the best-effort save may not have written, and
the step that moves work to REVIEW reads a diff from some steps before. Each step of
`execute` has a lemma (`PreFlightSound` to `DraftAndExecuteCommitSound`), what happens
meanwhile has one (`MeanwhileSound`), and `OnlyTheGateLeadsToReview` shows that no other
step moves work from IMPLEMENT to REVIEW.

Of the agent's loop, for every set of modes and troubles and any number of failing saves
(`AgentAssumption`, which MCAgentLoop assumes of the instance):

* `AgentTypeCorrect`: every directive is one of `Directives`, every checkpoint one the
  entity can hold.
* `ReviewersStayWithinCap`: a visit of REVIEW runs at most the cap of reviewers and one
  more for each save that failed. The checkpoint's counter is read before the dispatch and
  saved after it, so the invariant (`ReviewersAreCounted`) speaks of the reviewers run in
  this visit and of the one an agent has just been told to start: together no more than
  were counted and failed to be counted.
* `NobodyIsSentOutAtAGate`: what `next` says at a gate for people dispatches nobody; the
  agent that holds a directive may see the pause come after it.

`PlanContractsProofs` proves, for documents of any lines and length and any edits of them, any
workspaces, configurations, test summaries and outcomes of the checks, and any number of
rounds (`CommandsAssumption`, `LinesAssumption`, `GateAssumption`):

* `NothingIsDropped`: `Spec => []NothingDeclaredIsDropped`. It is a fact about the two parsers,
  by induction over the lines. FoldTheorems turns the fold into a run `p[0], p[1], ...`
  (`FoldRuns`) and carries what each line preserves to the end (`UpTo`). What is carried is
  that the parser's state after k lines agrees with the second reading, which counts fence
  lines and looks for headings (`TargetsAgree`, `SmokeAgrees`): on whether a fence is open
  and by which line, on the section, and that every line the second reading counts was
  collected, refused or counted as a check.
* `PassedRunsAreCertifiable`: `Spec => []PassedRunIsCertifiable`. `PassedSoFar` says of a
  run that has passed so far that every declared target is behind it or still to do
  (`PlanKeepsTargets`: no branch of `resolveCommandPlan`, detected or added lint included,
  loses one) and that a test it ran was measured; at the end nothing is left to do, and the
  smoke script passed only when its last check was started.
* `ReviewFollowsThePlan`: `Spec => []ReviewedWorkRanItsPlan`. Only a file of this gate entry
  may certify: rounds grow with every entry, and `ReportInv` says that a report of this round
  is the one filed in it and covers the plan it was filed for, whichever of the two sources it
  has and although the plan is edited at any time.
* `GateTypeCorrect`. The invariant (`Inductive`) was checked by TLC on the instance of
  `contracts` before it was proved.
* `OwnTestsPass`: `PartsSpec => []OwnTestsAreNotRefused`, for any plans, repositories and
  implementers; of the tests only their form is assumed (`ApprovalAssumption`). A contract asks
  the base, what commands print and the paths, all of which the history of the attempt names,
  and the worktree only for tests pinned to stay as they are (`ContractsRead`). An implementer
  adds a test only where none has its name and takes assertions from none that is pinned, so
  these stay what they were when the plan was approved (`PinsStay`).
* `SandboxesHold`: `OnlyChecks /\ PartsSpec => []CliStaysInSandbox`, for scripts of any length
  over any texts (`StaticsAssumption`: a text starts at one of the places the rules know, and
  names follow).
  As long as every statement succeeded, a directory the rule followed to an absolute path is
  the shell's (`RuleFollows`, `ResolvedAlike`), in a group and after it (`Groups`). `OnlyChecks`
  keeps the shapes of section 5 out; with one of them the rule misses what the shell does.
* `DirectoriesAreMadeFirst`: `OnlyChecks /\ PartsSpec => []WritesHaveParents`, for the same
  scripts. As long as every statement succeeded and nothing the property excuses has happened,
  a directory the parent rule knows is the shell's, or the one the shell's group returns to;
  what the rule holds for created is there, and so is what a CLI makes wherever the rule saw
  one run (`ScanFollows`). A path the rule resolves is then the one the shell means
  (`ComparedAlike`), which for a variable rests on a lemma about lexical paths: names may be
  walked in one go or in two (`FoldsOnce`, by FoldTheorems). The proof attempt showed what the
  run of four statements cannot: without the excuse of a later `cd` in a group, and without the
  shape "deeper", the property is false of longer scripts.

`WorkspaceProofs` proves, for any tasks, commands and trees of the operator
(`ConstantsAssumption`) and any failing calls, in a repository that is `Undisturbed`: the
registry can be listed, no unregistered directory lies at a task's path, no sub-agent has a
registered tree. The run `worktrees` has these values; what the code does without them is
in section 5 and with the hazards.

* `WorktreeTypeCorrect`; `RefusalIsClean`: `Undisturbed /\ Spec =>
  []RefusedRunLeavesWhatItFound`; `BoundToItsOwnTree`: `... => []BoundTreeCarriesTheTask`;
  `WorkIsKept`: `... => UncommittedWorkSurvives`.

The argument is that tasks do not get in each other's way. `Claims` are the trees a
task's checkpoint or running command has to do with: its own directory and trees outside
with its branch (`OwnTrees`), and never another task's (`Exclusive`), because git checks a
branch out once and `.worktrees/<task>` holds no other task's branch (`Registry`). `Effect`
is what a step may do to the trees of others, `EffectKeeps` shows that such a step preserves
what they rely on, and one lemma per action shows that it has that effect. `Found` follows
what a run found when it began through its own steps: what the probe answered contains it,
so a discard of what the probe does not list spares it.

Of the checkpoint files, for any number of files, commands, saves and instants
(`StoreAssumption`, `NoFileAssumption`, which MCCheckpointStore assumes of the instance):

* `TaskFilesHoldTheirIssues`: `Spec => []TaskFileHoldsItsIssue`, with torn writes and
  scans that choose any file the ranking allows. A command between its load and its save
  carries a checkpoint of the file's own issue (`Carries`).
* `OnlyRacesLoseUpdates`: `Spec => []NothingLostWithoutRace`. `Carries` also says that a
  checkpoint on its way is one update ahead of its file, unless another save came in
  between, and `AbsentIsNew` that a file which is not there was never saved.
* `RankingIsAStrictOrder`: the comparison the scan folds with is irreflexive, asymmetric
  and transitive, hence the choice depends on the order of the directory only among ties.

Of the plan documents, for any titles, folders, supplied plans and number of whims
(`PlanningAssumption`, which MCPlanning assumes of the instance):

* `PlanningTypeCorrect`.
* `WrittenWorkIsKept`: `PlanningSpec => WrittenWorkStays`. A command writes only what is absent
  or an empty template of an old version (`Tidy`). The harder half is the sub-agents, who may
  come back to another document than they left: `GivenWell` says that what a sub-agent was
  given never holds the work of the other kind, `AliasesAreReports` and `PlansHoldNoReport` that
  the document it makes for itself does not either, because nothing but a discovery sub-agent
  makes `discovery_plan.md` and nothing puts a report into a plan's place.
* `PlanGoesWithItsReport`: `PlanningSpec => PlanFollowsItsReport`. A run that does not park has
  `Evidence`, a report in the recorded directory or in a folder of the issue, and keeps it,
  since directories are not removed under a running command and written work stays. Then the
  scaffold works where the report is, or where it has to work and a plan is (`TargetLeads`):
  a folder with a report outranks every other (`BestHoldsTheReport`). `OnTheWay` carries that
  to the save; it makes no new directory, so the directory is adopted.

`DeliveryProofs`, for any paths, places, edits and returns to COMMIT
(`CommitAssumption`): `CommitTypeCorrect`, `FinishedTasksAreDelivered`,
`TeardownSparesTheRest`, `ScratchPathsStayOut` and `RecordedPullRequestsExist`, each from
`CommitInvariant`, which follows the listed paths through the calls: what the operator
was shown is in the tree, after `git add` in the index, after the commit in HEAD
(`Wanted`); from a push that answered on the remote has HEAD (`Delivery`); whatever
differs from HEAD was edited late or left out by a commit of staged files
(`Destruction`); before a commit no scratch path is staged (`Exclusion`). That the index
never leads the tree (`TreeLeads`) is needed for the first. Since a killed command may be
followed by any other, the invariant holds from every step at which one can end.

Of the collector branch, for any pull requests and messages of any lines, page sizes,
ceilings and failing calls (`CollectorAssumption`, which MCCollector assumes of the instance):

* `CollectorTypeCorrect`.
* `SuccessfulSyncsCloseTheirIssues`: `Spec => SuccessIsTheTruth`. A listing that ends is of all
  that was merged, since a page that is not full is the whole (`PageIs`), and stays a suffix
  of what is merged later (`Listed`). `Handled` says that of the pull requests behind it
  each issue is closed, unless the run has said otherwise or a person opened it.
* `ReleasesAreLabelledForTheirCommits`: `SameWordsMeanTheSame /\ Spec =>
  ReleaseCoversItsCommits`. Of the lines with the same words the first, in the order of
  commits and lines, stands; it exists (`LeastNumber`) and means the same by the hypothesis
  (`EveryLineIsDelivered`), which the messages of the run satisfy and without which a later
  `feat` with the words of an earlier `fix` is not counted. The label's commits are all
  that is not released (`Labelled`), because the local base is never ahead of the base.

`TriageFeedbackProofs`, for any finite set of comments, any texts and any bound of the
disposition (`TriageAssumption`):

* `TriageTypeCorrect`: among it that merged keys are distinct and no more than the bound.
* `NoSecondReply`: `Spec => []AnsweredOnce`. A dismissal works from one read of the pull
  request. `Remembering` says that whatever it has yet to turn to and already carries an
  answer carries it in that read too: nobody else replies, and each comment leaves `todo`
  with the call that may answer it, whether the answer of GitHub arrives or not.
* `DispositionIsEarned`: `Spec => []DisposedWasHandled`. `Handling` keeps, for a running
  dismissal, why each comment it counts as handled was dealt with; entries are only added
  to a timeline, so the reason stays (`DealtStays`), and a merge adds no key of its own.

`ReviewRoundProofs`, for any reviewers, bases, reports, texts and bounds
(`ReviewAssumption`): `ReviewTypeCorrect` and

* `VerifiedMeansThisTree`: `Spec => VerifiedReportIsOfThisTree`. `CleanTier1` says that a
  critique nothing got in between of is the only one and that its report is about the base
  and content its sidecar names; `CleanFiles` carries that over to the two files, `CleanReading`
  to what the review command has read, one file after the other. The comparison with the
  command's own base and digest does the rest.
* `ApprovalsLeaveNothingOpen`: `Spec => ApprovedLeavesNothingOpen`. The list of refutations
  is folded into what it consumes (`RefuteFold`): a refusal stays, and a refutation that is
  not refused takes one open finding that asks for a change (`RefuteTakesOne`). Hence the
  findings taken are distinct, they are what was consumed (`RefutationsAnswer`), and an
  approval, which the second tier leaves one only when nothing remains (`ApprovalsPass`),
  has an answer for each. The same second look holds the text to its own evidence.

Only model-checked: `StartsFromAFittingPlan` of MCPlanContracts, which is true of the inputs of
the run and not of all (section 5, plan contracts), and the liveness properties, since liveness under fairness and ENABLED are out of the prover's
reach. Induction over data is possible for folds, as in PlanContractsProofs and
ReviewRoundProofs, by the least number at which a statement fails. CheckpointStore's scan is a
fold, too; the proofs above hold whichever file it picks.

## 5. What the code does otherwise than it says

Found while modelling. The models do what the code does; the properties the runs check
leave these cases out by name, and TLC finds most of them when the exception is taken
away.

| statement | behaviour |
|---|---|
| only a PASSED report certifies the gate (`application/gate-evidence-coverage.ts:78`) | `certifyReviewExit` (86) never reads the verdict, and every check of a report's contents skips a FAILED one |
| a stale PASSED can never certify a later run (`presentation/cli.ts:3425`) | rounds start over with the history of a restart; an old round-1 report matches |
| both predecessors of COMPLETED have passed gate and review (`domain/lifecycle-stages.ts:59`) | TRIAGE is entered from everywhere and left to COMPLETED without condition |
| a human gate is left only after the human answered (`state-machine.ts:796`) | routing to TRIAGE keeps the pause of APPROVAL or COMMIT, and drops its own |
| save is atomic (`ports/state-repository.ts:16`) | written in place; a crash leaves an unreadable file |
| the issue reported is the one written (`application/resume-pipeline.ts:63`) | two scans, between which the winner may change |
| scaffolding removes only what it made (`infrastructure/file-plan-generator.ts:767`) | a directory the command made goes with what a sub-agent wrote there in the meantime |
| conflicts with the base are resolved before the work starts (`start-implementation.ts:680`) | the driver passes `origin/<base>` (`run-lifecycle.ts:1238`, `:1412`), and `origin/origin/<base>` never merges; the tests pass a bare name |
| the teardown removes what the run created (`run-lifecycle.ts:1372`) | any tree no descriptor named before counts as created, an adopted one too |
| `gate_retries` stops a task with a pause | the first pause wins: a trip, or a halt (`halt-pipeline.ts:118`), on a checkpoint that waits at a human gate records no breaker pause |

Further behaviour a reader should know, without a statement against it:

* next and lifecycle: the lifecycle run routes a task to TRIAGE without looking at the
  disposition (`run-lifecycle.ts:642`); a TRIAGE found on entry is paused in memory
  only; a yolo run that finds the task at REVIEW always stops there; a standard run at
  PLAN does nothing and reports success; an unnamed run pre-flights the issue it infers
  and works on the checkpoint's; the newest pull request that names the task wins
  whatever its state, so that a closed one shadows a merged one.
* breaker: only in-process runs of the gate count (`run-quality-gate.ts:596`); an agent whose
  sub-agent files FAILED reports is sent back for ever.
* planning: DISCOVERY whose recorded directory is gone is not repaired by `plan`
  (`get-next-action.ts:661`, `start-planning.ts:355`), and a recorded plan that was
  deleted dispatches the planner for ever (`get-next-action.ts:1415`). A report in any folder of
  the issue opens PLAN, but a recorded directory that holds a plan of its own stays recorded
  (`file-plan-generator.ts:700`), and the plan then does not lie beside the report.
* commit: on a detached HEAD there is no branch, so nothing is pushed and COMPLETED is saved;
  after `abort` quarantined the work the commit lands on the quarantine branch while the
  descriptor's branch is pushed (`execute-commit.ts:394`).
* worktrees: the sweep after a commit removes other tasks' sub-agent trees
  (`git-worktree-manager.ts:1376`).
* gate: a plan's smoke section is found without regard to fences before it
  (`smoke-protocol.ts:284`); a summary of skipped tests only counts as tests that passed
  (`run-quality-gate.ts:1121`); the evidence of an in-process run lists every smoke check
  once the script's exit status is 0 (`run-quality-gate.ts:622`), also when a check ended
  the script with success, which is not among the modelled outcomes.
* static rules: they miss a statement that fails before `&&`, a statement after a group on
  its line, a group that starts after one, a variable assigned anew, relative paths in a
  group (`Shapes`), and write rules start every check in an unknown directory. Whatever lies
  anywhere below a directory the tool scaffolds counts as there (`smoke-protocol.ts:2150`), its
  subdirectories that nobody made included (`Shapes`, "deeper"). A second `cd` of a group
  outlasts the group for the write rule (`smoke-protocol.ts:1105`): a relative write after it is
  judged against the wrong directory, which `WritesHaveParents` excuses.
* plan contracts: an unreadable base falls back to the worktree, and then a task that is
  planned again is refused over its own tests; reopening a completed task whose tests were
  merged refuses its rows; of two adjacent test registers the second is ignored. When fences are
  mixed (`~~~`, three backticks, `~~~`), the register's parser reads a row where the baseline's mask
  still sees a fence, and the row is not checked.
* review: an in-process critique that exits 0 without output becomes an empty report of high
  confidence and is verified (`cli-critique-gateway.ts:342`); findings that do not parse
  are dropped (`ai-review-finding.ts:185`); a report
  on standard input has no sidecar; a base is compared by its name.
* collector: diffs that cannot be verified only warn; a reopened issue is closed again by
  its old pull request; a comment that fails after the close is lost; only the first
  `Closes #n` counts; beyond the ceiling sync refuses for ever; release counts a closed
  release pull request as existing, does not relabel it and says it did
  (`presentation/cli.ts:4125`); a stale local base makes it count too much.

## 6. What is not modelled, and assumptions

* TaskPipeline runs one saving command at a time, and one `gate-report`; concurrent
  savers are CheckpointStore's, where a checkpoint keeps only issue, pause, finished
  and version. Their combination is last-save-wins, as there. In AgentLoop, Planning and
  LifecycleRun one command works on the task at a time, too.
* TaskPipeline takes contracts over text as refusals: the action is not taken. They are
  in GateContracts and PlanApproval. A task is one issue: planning's reset for another
  issue is left out, and so are durations and summaries. Dry runs write nothing and are
  no step anywhere.
* CheckpointStore reads the directory in one step and leaves out the smoke-sandbox guard
  and repositories bound to a worktree.
* AgentLoop assumes nothing of reviewers, and that the gate passes some time (section 3).
* CommitDelivery: one branch, one pull request; the drafted message is left out.
* TriageFeedback: fewer than 200 feedback keys (`vocabulary.ts:1342`); beyond, the oldest
  disposition is forgotten and its comments route the task again.
* Worktrees: the registry can be listed; several branches that match one task's pattern,
  links to node_modules and `.gitignore` are left out. A tree that a leg of the run makes
  and tears down, or whose descriptor could not be saved, is its own command's to destroy.
* QualityGate: reading and hashing the plan at the start are one step, commands given on
  the command line are excepted from the contract, Node and Go stand for all ecosystems.
* SmokeStatics: the rules' known gaps are behind `Shapes`; only `"checks"` is enabled in
  the run.
* PlanApproval: how a test's body is cut out of its file and equality of values are
  abstract; plans with unclosed or mixed fences are not among the inputs.
* ReviewRound: git answers all questions of a measurement or none; an edit between
  critique and digest, Tier 1 commands that overlap, and one that starts between the
  reading of report and sidecar are excepted.
* LifecycleRun: a use case is one action; the quota catch (`run-lifecycle.ts:728`) has no
  production thrower and is left out, as are `--no-worktree` and checkpoints of another
  issue. Pauses a `resume` cleared need not be on record.
* Planning: excepted are the directory a command made itself, from the first property, and
  from the second `--skip-discovery`, a supplied plan and ad hoc runs, which do not look
  for a report or do not follow their checkpoint.
* Collector: one sync process, since two that overlap may both comment.
* Not modelled at all, with the reasons in `PROJECT.json`: the choice and failover of model
  runners, status and reporting, installation and configuration files, the locks and
  process termination of abort, prompts, container probes, argument parsing.

## 7. Plan

Done: all modules of section 2 and the theorems of section 4. Left, in this order:

1. Sub-agent resolution: the chain of runners and what a quota failure makes of it.
2. Two commands of the same task at a time in Planning and LifecycleRun.
3. A proof of `StartsFromAFittingPlan` under hypotheses that keep the plans of section 5 out, as
   `OnlyChecks` does for scripts.

## Running

`tlc -config evidence.cfg TaskPipeline`, and likewise for the other configurations with
the module named in section 3; `tlapm TaskPipelineProofs.tla`, and likewise for the other
modules of section 4, checks the proofs. The configuration `contracts` takes about
one minute on two workers, `collector`, `lifecycle`, `review` and `planning` slightly
less, the others seconds.
