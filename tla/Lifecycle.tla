------------------------------ MODULE Lifecycle ------------------------------
(***************************************************************************)
(* The state machine every codeloop command loads, mutates and saves:      *)
(* the stages and their legal transitions (domain/lifecycle-stages.ts,     *)
(* domain/value-objects/stage.ts), and the entity StateMachine             *)
(* (domain/entities/state-machine.ts) as a record with one operator per    *)
(* method.  The module has no variables; TaskPipeline gives them.          *)
(*                                                                         *)
(* Data abstracted.  The history array is reduced to what a command reads  *)
(* back from it: how many QUALITY_GATE entries it holds (`gateRounds`) and *)
(* the newest gateVerdict recorded in an entry's metadata.  A deviation    *)
(* is its identity, a plan its digest.  Timestamps, durations, titles, the *)
(* base branch and the triage payload are left out: no stage change reads  *)
(* them.                                                                   *)
(***************************************************************************)
EXTENDS Naturals, FiniteSets

CONSTANTS
    PlanVersions,   \* the distinct bytes an approved plan document can hold
    Deviations      \* the identities of the plan deviations that may be filed

CONSTANT NoPlan     \* what approvedPlanDigest holds before any approval

ASSUME NoPlanAssumption == NoPlan \notin PlanVersions

-----------------------------------------------------------------------------
(* Stages and legality.                                                    *)

Stages == {"INITIALIZED", "DISCOVERY", "PLAN", "APPROVAL", "IMPLEMENT",
           "QUALITY_GATE", "REVIEW", "COMMIT", "COMPLETED", "TRIAGE"}

ALLOWED_TRANSITIONS ==
    [INITIALIZED  |-> {"DISCOVERY", "PLAN", "TRIAGE"},
     DISCOVERY    |-> {"PLAN", "TRIAGE"},
     PLAN         |-> {"APPROVAL", "IMPLEMENT", "TRIAGE"},
     APPROVAL     |-> {"IMPLEMENT", "PLAN", "TRIAGE"},
     IMPLEMENT    |-> {"QUALITY_GATE", "PLAN", "TRIAGE"},
     QUALITY_GATE |-> {"REVIEW", "IMPLEMENT", "PLAN", "TRIAGE"},
     REVIEW       |-> {"COMMIT", "IMPLEMENT", "TRIAGE"},
     COMMIT       |-> {"COMPLETED", "QUALITY_GATE", "IMPLEMENT", "PLAN", "TRIAGE"},
     COMPLETED    |-> {"INITIALIZED", "DISCOVERY", "PLAN", "IMPLEMENT",
                       "QUALITY_GATE", "REVIEW", "TRIAGE"},
     TRIAGE       |-> {"IMPLEMENT", "PLAN", "DISCOVERY", "COMPLETED"}]

EXECUTION_MODES == {"standard", "plan", "implement", "commit", "yolo"}

\* Mutant: work under implementation may be sent to review past the gate.
IsLegalTransition_skipsTheGate(from, to, mode) ==
    \/ to \in ALLOWED_TRANSITIONS[from]
    \/ from = "IMPLEMENT" /\ to = "REVIEW"

\* The direct PLAN -> IMPLEMENT hop skips the human APPROVAL gate: yolo only.
IsLegalTransition(from, to, mode) ==
    /\ to \in ALLOWED_TRANSITIONS[from]
    /\ from = "PLAN" /\ to = "IMPLEMENT" => mode = "yolo"

HUMAN_WAIT_GATES == {"APPROVAL", "COMMIT", "TRIAGE"}
NoGate == "none"
Gates == HUMAN_WAIT_GATES \union {"CIRCUIT_BREAKER"}

\* The stages `plan` mode describes; a later target turns it into `standard`.
PLAN_PHASE_STAGES == {"INITIALIZED", "DISCOVERY", "PLAN", "APPROVAL"}

\* Entering IMPLEMENT from one of these starts a newly approved plan.
FreshApprovalStages == {"PLAN", "APPROVAL", "COMPLETED"}

GateVerdicts == {"PASSED", "FAILED"}

-----------------------------------------------------------------------------
(* The checkpoint.                                                         *)

Checkpoint ==
    [stage              : Stages,
     mode               : EXECUTION_MODES,
     pausedAtGate       : Gates \union {NoGate},
     gateRounds         : Nat,                \* QUALITY_GATE entries in history
     gateVerdict        : GateVerdicts \union {"NOT_RECORDED"},
     implementGateLoops : Nat,                \* failed gates since the last pass
     planDir            : BOOLEAN,            \* a plan directory is recorded
     worktree           : BOOLEAN,            \* a worktree descriptor is recorded
     approvedPlanDigest : PlanVersions \union {NoPlan},
     planDeviations     : SUBSET Deviations,
     acknowledged       : SUBSET Deviations]

CreateInitial(mode) ==
    [stage |-> "INITIALIZED", mode |-> mode, pausedAtGate |-> NoGate,
     gateRounds |-> 0, gateVerdict |-> "NOT_RECORDED", implementGateLoops |-> 0,
     planDir |-> FALSE, worktree |-> FALSE, approvedPlanDigest |-> NoPlan,
     planDeviations |-> {}, acknowledged |-> {}]

\* reset() clears every field and rewrites the history to one entry, so the
\* count of gate rounds starts over.
Reset(mode) == CreateInitial(mode)

CanTransition(sm, to) == IsLegalTransition(sm.stage, to, sm.mode)

\* Mutant: every entry of IMPLEMENT ends the round, retries of the loop included.
EndsDeviationRound_onEveryRetry(from, to) == to \in {"PLAN", "IMPLEMENT"}

\* A round of deviations ends when the plan is re-opened or newly approved.
EndsDeviationRound(from, to) ==
    \/ to = "PLAN"
    \/ to = "IMPLEMENT" /\ from \in FreshApprovalStages

\* Mutant: a human pause outlives the stage that ends the task (#226).
Transition_keepsHumanPause(sm, to) ==
    [sm EXCEPT
        !.stage = to,
        !.mode = IF @ = "plan" /\ to \notin PLAN_PHASE_STAGES THEN "standard" ELSE @,
        !.gateRounds = IF to = "QUALITY_GATE" THEN @ + 1 ELSE @,
        !.pausedAtGate = IF @ \notin HUMAN_WAIT_GATES THEN NoGate ELSE @]

\* transition(): callers establish CanTransition first, the method throws
\* otherwise.  A mechanical pause is consumed by any advance, a human one only
\* by COMPLETED.
Transition(sm, to) ==
    [sm EXCEPT
        !.stage = to,
        !.mode = IF @ = "plan" /\ to \notin PLAN_PHASE_STAGES THEN "standard" ELSE @,
        !.gateRounds = IF to = "QUALITY_GATE" THEN @ + 1 ELSE @,
        !.planDeviations = IF EndsDeviationRound(sm.stage, to) THEN {} ELSE @,
        !.acknowledged = IF EndsDeviationRound(sm.stage, to) THEN {} ELSE @,
        !.pausedAtGate = IF to = "COMPLETED" \/ @ \notin HUMAN_WAIT_GATES
                         THEN NoGate ELSE @]

\* The first pause wins: a second one is dropped while the first stands.
PauseAtGate(sm, gate) ==
    IF sm.pausedAtGate = NoGate THEN [sm EXCEPT !.pausedAtGate = gate] ELSE sm

ResumeFromGate(sm) == [sm EXCEPT !.pausedAtGate = NoGate]

SetMode(sm, mode) == [sm EXCEPT !.mode = mode]

RecordApprovedPlan(sm, bytes) == [sm EXCEPT !.approvedPlanDigest = bytes]

\* Filing is idempotent by identity: a deviation already acknowledged stays so.
RecordPlanDeviation(sm, d) == [sm EXCEPT !.planDeviations = @ \union {d}]

AcknowledgePlanDeviation(sm, d) == [sm EXCEPT !.acknowledged = @ \union {d}]

Unacknowledged(sm) == sm.planDeviations \ sm.acknowledged

\* Mutant: the first round's evidence certifies every later one.
ResolveGateRound_firstRound(sm) == 1

\* The gate round a filed report is stamped with and compared to.
ResolveGateRound(sm) == IF sm.gateRounds = 0 THEN 1 ELSE sm.gateRounds

=============================================================================
