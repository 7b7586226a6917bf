----------------------------- MODULE TaskPipeline -----------------------------
(***************************************************************************)
(* One task driven through the codeloop lifecycle by a sequence of         *)
(* commands (application/*.ts use cases as presentation/cli.ts calls       *)
(* them).                                                                  *)
(*                                                                         *)
(* A command loads the checkpoint, computes the next one in memory and     *)
(* then performs its writes one by one: the checkpoint save, the clear of  *)
(* the gate report, the worktree it provisions or tears down.  The load    *)
(* and the computation are one action (Start...), every write is a step    *)
(* of its own, and the command may die between any two of them: a write    *)
(* that throws, or the process killed.  One command runs at a time         *)
(* (CheckpointStore has the concurrent ones), except `gate-report`, which  *)
(* reads the checkpoint, waits for its input and files the report later    *)
(* without ever saving the checkpoint; and the plan document, which        *)
(* anybody may edit at any time.                                           *)
(*                                                                         *)
(* A command that refuses writes nothing, so a refusal whose condition is  *)
(* data outside this model (a plan contract, a closed issue, a missing     *)
(* commit message) is the action not taken.                                *)
(***************************************************************************)
EXTENDS Lifecycle, Sequences

CONSTANTS
    Commands,       \* the commands and environment steps enabled in a run
    StartModes,     \* the execution modes an operator asks for
    MaxRounds,      \* bound: QUALITY_GATE entries in one history
    ClearMayFail    \* TRUE: removing the gate report file may fail silently

CONSTANTS NoCheckpoint, NoReport, Idle

\* "restart" stands for whatever starts a task's history over: reset, next
\* --restart and planning a finished task again.
AllCommands ==
    {"lifecycle", "plan", "implement", "transition", "gate", "review",
     "gate-report", "deviation", "halt", "resume", "restart", "next", "triage",
     "commit", "edit-plan", "crash"}

ASSUME ConstantsAssumption ==
    /\ Commands \subseteq AllCommands
    /\ StartModes \subseteq EXECUTION_MODES
    /\ MaxRounds \in Nat
    /\ ClearMayFail \in BOOLEAN
    /\ PlanVersions # {}
    /\ NoCheckpoint \notin Checkpoint

VARIABLES
    disk,       \* the checkpoint file of the task
    report,     \* the gate report file (tasks/<issue>.gate.json)
    plan,       \* the bytes of the plan document
    tree,       \* does the task's worktree exist on disk
    op,         \* the running command, or Idle
    filing,     \* the `gate-report` waiting to write, or NoReport
    verified    \* history: what the work past the gate was verified by

vars == <<disk, report, plan, tree, op, filing, verified>>

Effects == {"clear", "createWorktree", "save", "file", "scaffold",
            "removeWorktree", "detach"}

\* What a command verifies the work by: evidence filed for the gate, gate
\* commands it ran itself, or nothing.
Verifications == {"certified", "measured", "none"}

\* `ofThisVisit` is a history bit: the report was read against the visit of
\* QUALITY_GATE the checkpoint is in now.  The code cannot see it; it has the
\* round number instead.
Reports == [round : Nat, verdict : GateVerdicts, ofThisVisit : BOOLEAN]

Ops == [sm : Checkpoint, todo : Seq(Effects), exit : Verifications]

TypeOK ==
    /\ disk \in Checkpoint \union {NoCheckpoint}
    /\ report \in Reports \union {NoReport}
    /\ plan \in PlanVersions
    /\ tree \in BOOLEAN
    /\ op \in Ops \union {Idle}
    /\ filing \in Reports \union {NoReport}
    /\ verified \in Verifications \union {"waived"}

Init ==
    /\ disk = NoCheckpoint
    /\ report = NoReport
    /\ plan \in PlanVersions
    /\ tree = FALSE
    /\ op = Idle
    /\ filing = NoReport
    /\ verified = "none"

-----------------------------------------------------------------------------
(* Starting a command.                                                     *)

HasCheckpoint == disk # NoCheckpoint

AtStage(stages) == HasCheckpoint /\ disk.stage \in stages

Begin(sm, todo, exit) ==
    /\ op = Idle
    /\ sm.gateRounds <= MaxRounds
    /\ op' = [sm |-> sm, todo |-> todo, exit |-> exit]
    /\ UNCHANGED <<disk, report, plan, tree, filing, verified>>

BeginSave(sm) == Begin(sm, <<"save">>, "none")

-----------------------------------------------------------------------------
(* codeloop plan | implement | commit | yolo | <issue>: the part            *)
(* RunLifecycleUseCase saves itself before it calls a stage's use case.    *)

\* The requested mode is recorded, and `plan` on a finished task starts over.
EnterLifecycle(mode) ==
    /\ "lifecycle" \in Commands
    /\ ~(AtStage({"COMPLETED"}) /\ mode = "standard")
    /\ IF ~HasCheckpoint THEN BeginSave(CreateInitial(mode))
       ELSE IF disk.stage = "COMPLETED" /\ mode = "plan"
            THEN "restart" \in Commands /\ BeginSave(Reset(mode))
       ELSE disk.mode # mode /\ BeginSave(SetMode(disk, mode))

\* Open review feedback on the pull request routes the run to TRIAGE.
RouteToTriage ==
    /\ "lifecycle" \in Commands
    /\ HasCheckpoint
    /\ CanTransition(disk, "TRIAGE")
    /\ BeginSave(PauseAtGate(Transition(disk, "TRIAGE"), "TRIAGE"))

-----------------------------------------------------------------------------
(* codeloop plan: StartPlanningUseCase.                                    *)

\* The checkpoint planning works on: created, started over or re-labelled.
PlanningBase(mode) ==
    IF ~HasCheckpoint THEN CreateInitial(mode)
    ELSE IF disk.stage = "COMPLETED" THEN Reset(mode)
    ELSE SetMode(disk, mode)

\* The entry stages that planning re-opens; elsewhere it keeps the stage.
\* `supplied` is an operator's own plan file: no directory is scaffolded.
PlanningTargets(stage, supplied, feedback) ==
    IF supplied THEN IF stage \in {"INITIALIZED", "DISCOVERY"} THEN {"PLAN"} ELSE {stage}
    ELSE IF stage = "INITIALIZED" THEN {"PLAN", "DISCOVERY"}
    ELSE IF stage \in {"DISCOVERY", "IMPLEMENT"} THEN {"PLAN"}
    ELSE IF stage = "APPROVAL" /\ feedback THEN {"PLAN"}
    ELSE {stage}

\* At DISCOVERY without a populated report the command parks and writes
\* nothing, which is this action not taken.
StartPlanning(mode, supplied, feedback) ==
    /\ "plan" \in Commands
    /\ AtStage({"COMPLETED"}) => "restart" \in Commands
    /\ \E to \in PlanningTargets(PlanningBase(mode).stage, supplied, feedback) :
         LET base == [PlanningBase(mode) EXCEPT !.planDir = @ \/ ~supplied]
         IN BeginSave(IF to = base.stage THEN base ELSE Transition(base, to))

-----------------------------------------------------------------------------
(* codeloop implement: StartImplementationUseCase.                         *)

\* APPROVAL, or PLAN through an implicit approval, or a re-opened COMPLETED;
\* a checkpoint already at IMPLEMENT is resumed.
ImplementPath(sm) ==
    IF sm.stage = "IMPLEMENT" THEN sm
    ELSE IF sm.stage = "PLAN" /\ sm.mode # "yolo"
         THEN Transition(Transition(sm, "APPROVAL"), "IMPLEMENT")
    ELSE Transition(sm, "IMPLEMENT")

\* The identity the approval gate froze is never overwritten here, and a
\* resumed run only fills in a missing one.  A plan found in its canonical
\* place makes its directory the recorded one, an operator's own does not.
StartImplementation(noWorktree, supplied) ==
    LET resumed  == disk.stage = "IMPLEMENT"
        approved == disk.stage = "APPROVAL" /\ disk.approvedPlanDigest # NoPlan
        records  == ~approved /\ (~resumed \/ disk.approvedPlanDigest = NoPlan)
        needed   == ~noWorktree /\ ~disk.worktree
        moved    == ImplementPath(ResumeFromGate(disk))
        bound    == [moved EXCEPT !.worktree = @ \/ needed, !.planDir = @ \/ ~supplied]
    IN /\ "implement" \in Commands
       /\ AtStage({"PLAN", "APPROVAL", "IMPLEMENT", "COMPLETED"})
       /\ approved => plan = disk.approvedPlanDigest
       /\ Begin(IF records THEN RecordApprovedPlan(bound, plan) ELSE bound,
                IF needed THEN <<"createWorktree", "save">> ELSE <<"save">>,
                "none")

-----------------------------------------------------------------------------
(* The contract of the certifying exit, certifyReviewExit: the evidence    *)
(* filed for this round, the approved bytes unchanged, no deviation open.  *)

CertifyReviewExit(sm) ==
    /\ report # NoReport
    /\ report.round = ResolveGateRound(sm)
    /\ sm.approvedPlanDigest # NoPlan => plan = sm.approvedPlanDigest
    /\ Unacknowledged(sm) = {}

-----------------------------------------------------------------------------
(* codeloop transition <STAGE>: TransitionStageUseCase.                    *)

TransitionBase ==
    IF HasCheckpoint THEN ResumeFromGate(disk) ELSE CreateInitial("standard")

\* The verdict an exit from the gate records: the filed one if it is of this
\* round, NOT_RECORDED otherwise.
ExitVerdict(sm) ==
    IF report # NoReport /\ report.round = ResolveGateRound(sm)
    THEN report.verdict ELSE "NOT_RECORDED"

\* Mutant: every entry of IMPLEMENT records the plan as it is now (#298).
FreezesPlan_onEveryEntry(sm, to) == to \in {"APPROVAL", "IMPLEMENT"}

\* Does this transition record the plan's identity as the approved one?
FreezesPlan(sm, to) ==
    \/ to = "APPROVAL"
    \/ /\ to = "IMPLEMENT"
       /\ ~(sm.stage = "APPROVAL" /\ sm.approvedPlanDigest # NoPlan)
       /\ sm.stage \in FreshApprovalStages \/ sm.approvedPlanDigest = NoPlan

TransitionResult(sm, to, noWorktree) ==
    LET verdict == IF sm.stage = "QUALITY_GATE"
                   THEN [sm EXCEPT !.gateVerdict = ExitVerdict(sm)] ELSE sm
        moved   == Transition(verdict, to)
        frozen  == IF FreezesPlan(sm, to) THEN RecordApprovedPlan(moved, plan) ELSE moved
        paused  == IF to \in {"APPROVAL", "COMMIT"} THEN PauseAtGate(frozen, to) ELSE frozen
    IN [paused EXCEPT !.worktree = @ \/ (to = "IMPLEMENT" /\ ~noWorktree)]

\* Mutant: evidence is consumed before the save that leaves the gate (#408).
TransitionEffects_clearsFirst(sm, to, noWorktree) ==
    IF "QUALITY_GATE" \in {sm.stage, to} THEN <<"clear", "save">> ELSE <<"save">>

\* A stale report is discarded before the save that enters the gate, live
\* evidence is consumed only after the save that leaves it.
TransitionEffects(sm, to, noWorktree) ==
    (IF to = "IMPLEMENT" /\ ~noWorktree /\ ~sm.worktree THEN <<"createWorktree">> ELSE <<>>)
    \o (IF to = "QUALITY_GATE" THEN <<"clear">> ELSE <<>>)
    \o <<"save">>
    \o (IF sm.stage = "QUALITY_GATE" THEN <<"clear">> ELSE <<>>)
    \o (IF to = "DISCOVERY" THEN <<"scaffold">> ELSE <<>>)

TransitionStage(to, noWorktree) ==
    LET sm == TransitionBase
    IN /\ "transition" \in Commands
       /\ to = "PLAN" => sm.planDir
       /\ CanTransition(sm, to)
       /\ sm.stage = "QUALITY_GATE" /\ to = "REVIEW" => CertifyReviewExit(sm)
       /\ to = "IMPLEMENT" /\ sm.stage = "APPROVAL" /\ sm.approvedPlanDigest # NoPlan
            => plan = sm.approvedPlanDigest
       /\ Begin(TransitionResult(sm, to, noWorktree),
                TransitionEffects(sm, to, noWorktree),
                IF to = "REVIEW" THEN "certified" ELSE "none")

-----------------------------------------------------------------------------
(* The in-process gate of a lifecycle run: RunQualityGateUseCase.          *)

\* It measures the commands itself, certifies nothing that was filed, and
\* keeps whatever pause the checkpoint carried.
RunQualityGate(verdict) ==
    LET atGate == IF disk.stage = "QUALITY_GATE" THEN disk
                  ELSE Transition(disk, "QUALITY_GATE")
        judged == [atGate EXCEPT !.gateVerdict = verdict]
    IN /\ "gate" \in Commands
       /\ AtStage({"IMPLEMENT", "QUALITY_GATE", "COMMIT", "COMPLETED"})
       /\ Begin(IF verdict = "PASSED"
                THEN [Transition(judged, "REVIEW") EXCEPT !.implementGateLoops = 0]
                ELSE [Transition(judged, "IMPLEMENT") EXCEPT !.implementGateLoops = @ + 1],
                <<"save", "file">>, IF verdict = "PASSED" THEN "measured" ELSE "none")

-----------------------------------------------------------------------------
(* codeloop review: RunReviewUseCase.                                      *)

\* From COMMIT the machine re-enters REVIEW over a QUALITY_GATE hop that runs
\* no gate, after consuming the pause; from QUALITY_GATE it certifies.
ReviewPath(sm) ==
    IF sm.stage = "REVIEW" THEN sm
    ELSE IF sm.stage = "COMMIT"
         THEN Transition(Transition(ResumeFromGate(sm), "QUALITY_GATE"), "REVIEW")
    ELSE IF sm.stage = "QUALITY_GATE"
         THEN Transition([sm EXCEPT !.gateVerdict = report.verdict], "REVIEW")
    ELSE Transition(sm, "REVIEW")

RunReview(approved) ==
    LET certifies == disk.stage = "QUALITY_GATE"
    IN /\ "review" \in Commands
       /\ AtStage({"QUALITY_GATE", "REVIEW", "COMPLETED", "COMMIT"})
       /\ certifies => CertifyReviewExit(disk)
       /\ Begin(IF approved
                THEN PauseAtGate(Transition(ReviewPath(disk), "COMMIT"), "COMMIT")
                ELSE Transition(ReviewPath(disk), "IMPLEMENT"),
                IF certifies THEN <<"save", "clear">> ELSE <<"save">>,
                "certified")

-----------------------------------------------------------------------------
(* codeloop gate-report: the stage check and the round come from the       *)
(* checkpoint read first; the report is written after its input arrived.   *)

ReadForReport(verdict) ==
    /\ "gate-report" \in Commands
    /\ filing = NoReport
    /\ AtStage({"QUALITY_GATE"})
    /\ filing' = [round |-> ResolveGateRound(disk), verdict |-> verdict,
                  ofThisVisit |-> TRUE]
    /\ UNCHANGED <<disk, report, plan, tree, op, verified>>

FileReport ==
    /\ filing # NoReport
    /\ report' = filing
    /\ filing' = NoReport
    /\ UNCHANGED <<disk, plan, tree, op, verified>>

AbandonReport ==
    /\ filing # NoReport
    /\ filing' = NoReport
    /\ UNCHANGED <<disk, report, plan, tree, op, verified>>

-----------------------------------------------------------------------------
(* codeloop deviation: ManagePlanDeviationsUseCase.                        *)

DeviationStages == {"IMPLEMENT", "QUALITY_GATE", "REVIEW", "COMMIT"}

FileDeviation(d) ==
    /\ "deviation" \in Commands
    /\ AtStage(DeviationStages)
    /\ BeginSave(RecordPlanDeviation(disk, d))

AcknowledgeDeviation(d) ==
    /\ "deviation" \in Commands
    /\ AtStage(DeviationStages)
    /\ d \in disk.planDeviations
    /\ BeginSave(AcknowledgePlanDeviation(disk, d))

-----------------------------------------------------------------------------
(* codeloop halt, resume and reset.                                        *)

HaltPipeline ==
    /\ "halt" \in Commands
    /\ HasCheckpoint
    /\ BeginSave(PauseAtGate(disk, "CIRCUIT_BREAKER"))

ResumePipeline ==
    /\ "resume" \in Commands
    /\ HasCheckpoint
    /\ disk.pausedAtGate # NoGate
    /\ BeginSave(ResumeFromGate(disk))

\* The checkpoint file goes; the gate report beside it goes only with
\* `reset --all`, which removes every file of the tasks directory it can.
ResetPipeline(all) ==
    /\ "restart" \in Commands
    /\ op = Idle
    /\ HasCheckpoint
    /\ disk' = NoCheckpoint
    /\ report' = IF all \/ report = NoReport THEN NoReport
                 ELSE [report EXCEPT !.ofThisVisit = FALSE]
    /\ filing' = IF filing = NoReport THEN NoReport ELSE [filing EXCEPT !.ofThisVisit = FALSE]
    /\ verified' = "none"
    /\ UNCHANGED <<plan, tree, op>>

-----------------------------------------------------------------------------
(* codeloop next: the lifecycle writes its read path is allowed.           *)

\* COMPLETED with open review feedback goes to the TRIAGE gate.
NextRouteTriage ==
    /\ "next" \in Commands
    /\ AtStage({"COMPLETED"})
    /\ BeginSave(PauseAtGate(Transition(disk, "TRIAGE"), "TRIAGE"))

\* COMPLETED with --restart starts the task over at DISCOVERY.
NextRestart ==
    /\ {"next", "restart"} \subseteq Commands
    /\ AtStage({"COMPLETED"})
    /\ BeginSave(Transition(Reset(disk.mode), "DISCOVERY"))

\* TRIAGE whose pull request is merged or closed ends in COMPLETED.
NextExitTriage ==
    /\ "next" \in Commands
    /\ AtStage({"TRIAGE"})
    /\ BeginSave(Transition(disk, "COMPLETED"))

-----------------------------------------------------------------------------
(* codeloop triage: TriagePrCommentsUseCase.                               *)

TriageTargets == {"PLAN", "DISCOVERY", "COMPLETED", "IMPLEMENT"}

\* IMPLEMENT always provisions the worktree; the pause is answered either way.
TriagePrComments(to) ==
    LET atTriage == IF disk.stage = "TRIAGE" THEN disk ELSE Transition(disk, "TRIAGE")
        moved    == Transition(ResumeFromGate(atTriage), to)
    IN /\ "triage" \in Commands
       /\ HasCheckpoint
       /\ disk.stage = "TRIAGE" \/ CanTransition(disk, "TRIAGE")
       /\ IF to = "IMPLEMENT"
          THEN Begin([moved EXCEPT !.worktree = TRUE], <<"createWorktree", "save">>, "none")
          ELSE BeginSave(moved)

-----------------------------------------------------------------------------
(* codeloop commit: ExecuteCommitUseCase.  Its git and GitHub steps come   *)
(* before the save and may throw: the command dies before its first write. *)

CommitConfirmed(keepWorktree) ==
    /\ "commit" \in Commands
    /\ AtStage({"COMMIT"})
    /\ Unacknowledged(disk) = {}
    /\ LET answered == IF disk.pausedAtGate = "COMMIT" THEN ResumeFromGate(disk) ELSE disk
       IN Begin(Transition(answered, "COMPLETED"),
                IF disk.worktree /\ ~keepWorktree
                THEN <<"save", "removeWorktree", "detach">> ELSE <<"save">>,
                "none")

\* A rejection with a directive re-opens the work; the pause is not touched.
CommitRejected(to) ==
    /\ "commit" \in Commands
    /\ AtStage({"COMMIT"})
    /\ Unacknowledged(disk) = {}
    /\ BeginSave(Transition(disk, to))

-----------------------------------------------------------------------------
(* The writes of the running command, in the order it issues them.         *)

Running(effect) == op # Idle /\ op.todo # <<>> /\ Head(op.todo) = effect

\* The command is over when its last write is done.
Advance == op' = IF Len(op.todo) = 1 THEN Idle ELSE [op EXCEPT !.todo = Tail(@)]

\* A report belongs to this visit as long as the checkpoint stays at the gate.
StillThisVisit(r, sm) ==
    IF r = NoReport THEN NoReport
    ELSE [r EXCEPT !.ofThisVisit = @ /\ AtStage({"QUALITY_GATE"}) /\ sm.stage = "QUALITY_GATE"]

\* What the saved checkpoint's work is verified by.  A task closed from any
\* other stage than COMMIT is waived, one that leaves the gate is verified by
\* what the leaving command had.
VerifiedAfter(sm) ==
    IF sm.stage = "COMPLETED" /\ ~AtStage({"COMMIT", "COMPLETED"}) THEN "waived"
    ELSE IF op.exit = "measured" THEN "measured"
    ELSE IF AtStage({"QUALITY_GATE"}) /\ sm.stage # "QUALITY_GATE" THEN op.exit
    ELSE verified

Save ==
    /\ Running("save")
    /\ disk' = op.sm
    /\ report' = StillThisVisit(report, op.sm)
    /\ filing' = StillThisVisit(filing, op.sm)
    /\ verified' = VerifiedAfter(op.sm)
    /\ Advance
    /\ UNCHANGED <<plan, tree>>

ClearReport ==
    /\ Running("clear")
    /\ report' \in {NoReport} \union (IF ClearMayFail THEN {report} ELSE {})
    /\ Advance
    /\ UNCHANGED <<disk, plan, tree, filing, verified>>

\* The in-process gate files what it measured, best effort, after its save.
FileMeasured ==
    /\ Running("file")
    /\ report' \in {report, [round |-> ResolveGateRound(op.sm),
                             verdict |-> op.sm.gateVerdict, ofThisVisit |-> FALSE]}
    /\ Advance
    /\ UNCHANGED <<disk, plan, tree, filing, verified>>

\* DISCOVERY scaffolds the plan directory and saves once more to adopt it.
Scaffold ==
    /\ Running("scaffold")
    /\ disk' = [op.sm EXCEPT !.planDir = TRUE]
    /\ Advance
    /\ UNCHANGED <<report, plan, tree, filing, verified>>

CreateWorktree ==
    /\ Running("createWorktree")
    /\ tree' = TRUE
    /\ Advance
    /\ UNCHANGED <<disk, report, plan, filing, verified>>

\* A removal that fails is not fatal: the command ends and keeps the descriptor.
RemoveWorktree ==
    /\ Running("removeWorktree")
    /\ \/ tree' = FALSE /\ Advance
       \/ op' = Idle /\ UNCHANGED tree
    /\ UNCHANGED <<disk, report, plan, filing, verified>>

\* After a teardown a second save drops the descriptor.
DetachWorktree ==
    /\ Running("detach")
    /\ disk' = [op.sm EXCEPT !.worktree = FALSE]
    /\ Advance
    /\ UNCHANGED <<report, plan, tree, filing, verified>>

\* The command dies before its next write: that write threw (only the report's
\* are swallowed and go on), or the process was killed.
Die ==
    /\ "crash" \in Commands
    /\ op # Idle
    /\ op' = Idle
    /\ UNCHANGED <<disk, report, plan, tree, filing, verified>>

\* Anybody edits the plan document, at any time.
EditPlan ==
    /\ "edit-plan" \in Commands
    /\ \E bytes \in PlanVersions \ {plan} : plan' = bytes
    /\ UNCHANGED <<disk, report, tree, op, filing, verified>>

-----------------------------------------------------------------------------
StartCommand ==
    \/ \E mode \in StartModes : EnterLifecycle(mode)
    \/ RouteToTriage
    \/ \E mode \in StartModes, supplied, feedback \in BOOLEAN :
          StartPlanning(mode, supplied, feedback)
    \/ \E noWorktree, supplied \in BOOLEAN : StartImplementation(noWorktree, supplied)
    \/ \E to \in Stages, noWorktree \in BOOLEAN : TransitionStage(to, noWorktree)
    \/ \E verdict \in GateVerdicts : RunQualityGate(verdict)
    \/ \E approved \in BOOLEAN : RunReview(approved)
    \/ \E d \in Deviations : FileDeviation(d)
    \/ \E d \in Deviations : AcknowledgeDeviation(d)
    \/ HaltPipeline
    \/ ResumePipeline
    \/ NextRouteTriage
    \/ NextRestart
    \/ NextExitTriage
    \/ \E to \in TriageTargets : TriagePrComments(to)
    \/ \E keepWorktree \in BOOLEAN : CommitConfirmed(keepWorktree)
    \/ \E to \in {"PLAN", "IMPLEMENT"} : CommitRejected(to)

Write ==
    \/ Save
    \/ ClearReport
    \/ FileMeasured
    \/ Scaffold
    \/ CreateWorktree
    \/ RemoveWorktree
    \/ DetachWorktree

Next ==
    \/ StartCommand
    \/ Write
    \/ Die
    \/ \E all \in BOOLEAN : ResetPipeline(all)
    \/ \E verdict \in GateVerdicts : ReadForReport(verdict)
    \/ FileReport
    \/ AbandonReport
    \/ EditPlan

Spec == Init /\ [][Next]_vars

-----------------------------------------------------------------------------
(* Safety.                                                                 *)

\* The report certifyReviewExit would accept by its round number is one filed
\* in the present visit of QUALITY_GATE, even when the removal of an older
\* report failed or an older `gate-report` wrote late.
EvidenceIsOfThisVisit ==
    AtStage({"QUALITY_GATE"}) /\ report # NoReport
        /\ report.round = ResolveGateRound(disk)
    => report.ofThisVisit

\* Work under review, at the commit gate or delivered was verified by filed
\* evidence or by gate commands, or the task was closed from TRIAGE.
VerifiedPastTheGate ==
    AtStage({"REVIEW", "COMMIT", "COMPLETED"}) => verified # "none"

\* A finished task waits for no human: whatever path reached COMPLETED, the
\* pause of an APPROVAL, COMMIT or TRIAGE gate was consumed (#226).
FinishedWaitsForNobody ==
    AtStage({"COMPLETED"}) => disk.pausedAtGate \notin HUMAN_WAIT_GATES

\* The stages an approved plan is implemented in, retried and triaged.
LoopStages == {"IMPLEMENT", "QUALITY_GATE", "REVIEW", "COMMIT", "TRIAGE"}

InLoop == AtStage(LoopStages)

\* While an approved plan is in the loop its recorded digest never changes:
\* no retry or self-correction re-blesses bytes edited meanwhile (#298).
DigestFrozenInLoop ==
    [][InLoop /\ InLoop' /\ disk.approvedPlanDigest # NoPlan
       => disk'.approvedPlanDigest = disk.approvedPlanDigest]_vars

\* ... and no deviation filed against it, nor its acknowledgement, is lost.
DeviationsKeptInLoop ==
    [][InLoop /\ InLoop'
       => /\ disk.planDeviations \subseteq disk'.planDeviations
          /\ disk.acknowledged \subseteq disk'.acknowledged]_vars

-----------------------------------------------------------------------------
(* The gate's contract, implemented.                                       *)

\* The visit of QUALITY_GATE as the contract sees it.
ContractGate ==
    IF ~AtStage({"QUALITY_GATE"}) THEN "away"
    ELSE IF report # NoReport /\ report.ofThisVisit THEN "evidenced"
    ELSE "waiting"

Contract == INSTANCE EvidenceContract WITH gate <- ContractGate

\* Every run of the pipeline is one the gate's contract allows: live evidence
\* survives refused and failed exits, no visit inherits evidence, and no visit
\* without evidence ends certified (#327, #408, #410).
ContractRefinement == Contract!ContractSpec

=============================================================================
