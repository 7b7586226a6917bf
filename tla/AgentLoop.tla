------------------------------ MODULE AgentLoop ------------------------------
(***************************************************************************)
(* The loop an agent runs over `codeloop next`: ask for the directive, do  *)
(* what it says, ask again, until a person is needed.  GetNextActionUseCase*)
(* (application/get-next-action.ts) computes the directive and records the *)
(* dispatch, application/lifecycle-reentry-policy.ts decides what becomes  *)
(* of a finished task, and the `next` case of presentation/cli.ts tells the*)
(* agent whether the directive may be executed.  Between two questions     *)
(* people and other tools halt the task, edit the plan or remove the       *)
(* worktree, and any save of `next` may fail.                              *)
(*                                                                         *)
(* The sub-agents are external: each either does its work or leaves the    *)
(* task as it was.  Documents are reduced to what `next` asks of them.  The*)
(* dispatch counters of the stages all start over when their stage is      *)
(* entered, so one counter stands for the one of the current stage.        *)
(***************************************************************************)
EXTENDS Lifecycle

CONSTANTS
    Modes,          \* the execution modes of the task
    Troubles,       \* what people and tools may do to it: see Trouble
    MaxFaults,      \* bound: saves of `next` that fail
    MaxDispatches,  \* bound: dispatches told apart in stages without a cap
    MaxLoops        \* bound: consecutive failures of the in-process gate

MAX_IMPLEMENT_GATE_LOOPS == 3
MAX_REVIEW_DISPATCH_LOOPS == 3

\* What is assumed of the constants, by the module that declares them.
AgentAssumption ==
    /\ Modes \subseteq EXECUTION_MODES
    /\ MaxFaults \in Nat
    /\ MaxDispatches \in Nat \ {0}
    /\ MaxLoops \in Nat

VARIABLES
    sm,      \* the checkpoint
    work,    \* what `next` finds outside of it
    agent,   \* the agent that follows the directives
    runs,    \* history: sub-agents dispatched since the stage was entered
    faults   \* bound: saves of `next` that failed

vars == <<sm, work, agent, runs, faults>>

Roles == {"discovery", "planner", "implementer", "gate", "reviewer", "triage"}

Directives ==
    [type : {"preflight", "advance", "human_gate", "completed"}, role : {"none"}]
        \union [type : {"subagent"}, role : Roles]

Do(type) == [type |-> type, role |-> "none"]
Dispatch(role) == [type |-> "subagent", role |-> role]

TypeOK ==
    /\ sm \in [stage : Stages, mode : EXECUTION_MODES, pausedAtGate : Gates \union {NoGate},
               dispatchCount : Nat, implementToGateLoops : Nat, worktree : BOOLEAN,
               gateFailed : BOOLEAN, remediation : BOOLEAN,
               baseline : {"none", "clean", "tainted"}]
    /\ work \in [report : BOOLEAN, planDir : BOOLEAN, plan : BOOLEAN, diff : BOOLEAN,
                 readable : BOOLEAN, blocked : BOOLEAN, stray : BOOLEAN,
                 evidence : GateVerdicts \union {"none"}]
    /\ agent \in [pc : {"ask", "obey", "wait"}, directive : Directives]
    /\ runs \in Nat
    /\ faults \in 0 .. MaxFaults

Init ==
    /\ \E mode \in Modes :
         sm = [stage |-> "INITIALIZED", mode |-> mode, pausedAtGate |-> NoGate,
               dispatchCount |-> 0, implementToGateLoops |-> 0, worktree |-> FALSE,
               gateFailed |-> FALSE, remediation |-> FALSE, baseline |-> "none"]
    /\ work = [report |-> FALSE, planDir |-> FALSE, plan |-> FALSE, diff |-> FALSE,
               readable |-> TRUE, blocked |-> FALSE, stray |-> FALSE,
               evidence |-> "none"]
    /\ agent = [pc |-> "ask", directive |-> Do("completed")]
    /\ runs = 0
    /\ faults = 0

-----------------------------------------------------------------------------
(* Entering a stage.                                                       *)

\* An entry of IMPLEMENT carries the verdict of the gate it comes from.
GateFailedOnEntry(s, to) ==
    IF to = "IMPLEMENT" THEN s.stage = "QUALITY_GATE" /\ work.evidence = "FAILED"
    ELSE s.gateFailed

\* StateMachine.transition, as far as `next` reads its result: the counter of
\* the entered stage starts over, a boundary reference ends with DISCOVERY.
Enter(s, to) ==
    [s EXCEPT !.stage = to,
              !.dispatchCount = 0,
              !.baseline = "none",
              !.gateFailed = GateFailedOnEntry(s, to),
              !.pausedAtGate = IF @ \in HUMAN_WAIT_GATES /\ to # "COMPLETED" THEN @ ELSE NoGate]

\* The evidence of a gate is cleared when the gate is entered and when it is left.
EvidenceAfter(s, to) ==
    IF s.stage = "QUALITY_GATE" \/ to = "QUALITY_GATE" THEN "none" ELSE work.evidence

\* What a command does that moves the task: the pause it answers is consumed,
\* entering a gate for people records a new one.
Move(s, to) ==
    LET entered == Enter(ResumeFromGate(s), to)
    IN /\ sm' = IF to \in {"APPROVAL", "COMMIT"} THEN PauseAtGate(entered, to) ELSE entered
       /\ runs' = 0

-----------------------------------------------------------------------------
(* codeloop next: the directive of each stage.                             *)

\* A boundary finding compares the tree with the reference of the dispatch.
BoundaryViolation == sm.baseline = "clean" /\ work.stray

DiscoveryDirective ==
    IF ~work.planDir THEN Do("human_gate")
    ELSE IF BoundaryViolation THEN Do("human_gate")
    ELSE IF work.report THEN Do("advance")
    ELSE Dispatch("discovery")

\* A review that asked for changes has not been followed by one that approved.
UnderRemediation == sm.remediation

\* The entry of IMPLEMENT that opened this round carries a failed gate, or the
\* counter says so.
GateFailurePending ==
    sm.stage = "IMPLEMENT" /\ (sm.gateFailed \/ sm.implementToGateLoops > 0)

\* A readable diff completes the stage only where no review and no gate asked for
\* another.
ImplementationComplete ==
    /\ sm.stage = "IMPLEMENT"
    /\ work.diff /\ work.readable
    /\ ~UnderRemediation /\ ~GateFailurePending

\* A plan that is still the blank scaffold is the planner's, whatever the stage.
BlankPlanDirective == Dispatch("planner")

\* Without a recorded worktree `next` names codeloop implement to a person.
MissingWorktreeDirective == Do("human_gate")

\* buildImplementAction.
ImplementDirective ==
    IF ~work.plan THEN BlankPlanDirective
    ELSE IF ~sm.worktree THEN MissingWorktreeDirective
    ELSE IF ImplementationComplete THEN Do("advance")
    ELSE Dispatch("implementer")

\* A report filed for the round the gate is in.
EvidenceFiled == work.evidence # "none"

\* A plan that changed since its approval, or whose gate targets or smoke
\* protocol cannot be executed, is a person's: the gate is not dispatched.
RefusedPlanDirective == Do("human_gate")

\* Mutant: filed evidence is enough, whatever became of the plan.
GateDirective_ignoresThePlan ==
    IF EvidenceFiled THEN Do("advance") ELSE Dispatch("gate")

GateDirective ==
    IF work.blocked THEN RefusedPlanDirective
    ELSE IF EvidenceFiled THEN Do("advance")
    ELSE Dispatch("gate")

PlanDirective == IF work.plan THEN Do("advance") ELSE BlankPlanDirective

\* Only yolo passes APPROVAL by itself.
ApprovalDirective == IF sm.mode = "yolo" THEN ImplementDirective ELSE Do("human_gate")

\* The reviewer is dispatched until its cap, then a person has to file a verdict.
ReviewDirective ==
    IF sm.dispatchCount >= MAX_REVIEW_DISPATCH_LOOPS THEN Do("human_gate")
    ELSE Dispatch("reviewer")

\* The retry breaker of the gate.
LoopDirective ==
    IF sm.implementToGateLoops >= MAX_IMPLEMENT_GATE_LOOPS THEN Do("human_gate")
    ELSE ImplementDirective

\* The commit is drafted for a person, who confirms it.
CommitDirective == Do("human_gate")

\* The triage agent is described; whether it may run is decided by the pause.
TriageDirective == Dispatch("triage")

CompletedDirective == Do("completed")

\* buildDirective, after the re-entry rules below have been applied.
Directive ==
    CASE sm.stage = "INITIALIZED"  -> Do("preflight")
      [] sm.stage = "DISCOVERY"    -> DiscoveryDirective
      [] sm.stage = "PLAN"         -> PlanDirective
      [] sm.stage = "APPROVAL"     -> ApprovalDirective
      [] sm.stage = "IMPLEMENT"    -> LoopDirective
      [] sm.stage = "QUALITY_GATE" -> GateDirective
      [] sm.stage = "REVIEW"       -> ReviewDirective
      [] sm.stage = "COMMIT"       -> CommitDirective
      [] sm.stage = "TRIAGE"       -> TriageDirective
      [] sm.stage = "COMPLETED"    -> CompletedDirective

\* Mutant: the reviewer's dispatches are not counted (#272).
Counts_notTheReviewer(d) ==
    /\ d.type = "subagent"
    /\ sm.pausedAtGate = NoGate
    /\ \/ sm.stage \in {"DISCOVERY", "PLAN"}
       \/ sm.stage = "IMPLEMENT" /\ d.role = "implementer" /\ work.readable

\* Which dispatches are counted: those of the four stages that have a counter,
\* never on a paused read, and an implementer only over a readable tree.
Counts(d) ==
    /\ d.type = "subagent"
    /\ sm.pausedAtGate = NoGate
    /\ \/ sm.stage \in {"DISCOVERY", "PLAN", "REVIEW"}
       \/ sm.stage = "IMPLEMENT" /\ d.role = "implementer" /\ work.readable

\* Counters stop at the last value the code tells apart, or at the bound.
Bounded(n) ==
    LET cap == IF sm.stage = "REVIEW" THEN MAX_REVIEW_DISPATCH_LOOPS ELSE MaxDispatches
    IN IF n <= cap THEN n ELSE cap

\* The boundary reference is taken at the first dispatch that finds none; it may
\* fail, and then the dispatch goes on without one.
CapturedBaselines(d) ==
    IF d.role = "discovery" /\ sm.baseline = "none" /\ sm.pausedAtGate = NoGate
    THEN {"none", IF work.stray THEN "tainted" ELSE "clean"}
    ELSE {sm.baseline}

\* Mutant: a paused read may be executed.
Actionable_whilePaused(d, pause) == d.type = "subagent"

\* What `next --json` calls actionable.
Actionable(d, pause) == d.type = "subagent" /\ pause = NoGate

\* The agent executes an actionable directive, runs the command an unpaused
\* `advance` names, and otherwise waits for a person.
Heed(d) ==
    agent' = [pc |-> IF \/ Actionable(d, sm.pausedAtGate)
                        \/ d.type \in {"advance", "preflight"} /\ sm.pausedAtGate = NoGate
                     THEN "obey" ELSE "wait",
              directive |-> d]

\* A dispatch is recorded before the directive is returned; when the record
\* cannot be saved, the directive is returned nevertheless.
NextAction ==
    /\ agent.pc = "ask"
    /\ Heed(Directive)
    /\ \/ /\ ~Counts(Directive)
          /\ UNCHANGED <<sm, faults>>
       \/ /\ Counts(Directive)
          /\ \E baseline \in CapturedBaselines(Directive) :
               sm' = [sm EXCEPT !.dispatchCount = Bounded(@ + 1), !.baseline = baseline]
          /\ UNCHANGED faults
       \/ /\ Counts(Directive)
          /\ faults < MaxFaults
          /\ faults' = faults + 1
          /\ UNCHANGED sm
    /\ UNCHANGED <<work, runs>>

-----------------------------------------------------------------------------
(* codeloop next: re-entry of a finished task.  What GitHub says of the    *)
(* pull request is asked anew each time: any answer is possible.           *)

\* An open pull request with feedback nobody answered beats --restart.
RouteToTriage ==
    /\ agent.pc = "ask"
    /\ sm.stage = "COMPLETED"
    /\ sm' = PauseAtGate(Enter(sm, "TRIAGE"), "TRIAGE")
    /\ runs' = 0
    /\ UNCHANGED <<work, agent, faults>>

\* The triage gate ends when the pull request is merged or closed.
LeaveTriage ==
    /\ agent.pc = "ask"
    /\ sm.stage = "TRIAGE"
    /\ sm' = Enter(sm, "COMPLETED")
    /\ runs' = 0
    /\ UNCHANGED <<work, agent, faults>>

\* next --restart, given by a person, on a finished task without feedback.
Restart ==
    /\ agent.pc = "wait"
    /\ sm.stage = "COMPLETED"
    /\ sm' = [stage |-> "DISCOVERY", mode |-> sm.mode, pausedAtGate |-> NoGate,
              dispatchCount |-> 0, implementToGateLoops |-> 0, worktree |-> FALSE,
              gateFailed |-> FALSE, remediation |-> FALSE, baseline |-> "none"]
    /\ work' = [work EXCEPT !.planDir = FALSE, !.evidence = "none", !.stray = FALSE]
    /\ runs' = 0
    /\ agent' = [agent EXCEPT !.pc = "ask"]
    /\ UNCHANGED faults

-----------------------------------------------------------------------------
(* The agent follows the directive.                                        *)

Obeys(d) == agent.pc = "obey" /\ agent.directive = d
AskAgain == agent' = [agent EXCEPT !.pc = "ask"]
CountRun == runs' = IF runs < MAX_REVIEW_DISPATCH_LOOPS + MaxFaults + 1 THEN runs + 1 ELSE runs

\* A directive is executed only where it still applies: a command refuses a task
\* that has moved, and the agent then asks again.
StillAt(stages) == sm.stage \in stages

\* The sub-agent leaves everything as it was.
Fruitless ==
    /\ agent.pc = "obey"
    /\ agent.directive.type = "subagent"
    /\ AskAgain
    /\ CountRun
    /\ UNCHANGED <<sm, work, faults>>

DiscoveryWrites ==
    /\ Obeys(Dispatch("discovery"))
    /\ work' = [work EXCEPT !.report = TRUE]
    /\ AskAgain /\ CountRun
    /\ UNCHANGED <<sm, faults>>

\* It writes to tracked files outside of the plan directory.
DiscoveryStrays ==
    /\ Obeys(Dispatch("discovery"))
    /\ \E report \in {work.report, TRUE} :
         work' = [work EXCEPT !.stray = TRUE, !.report = report]
    /\ AskAgain /\ CountRun
    /\ UNCHANGED <<sm, faults>>

PlannerWrites ==
    /\ Obeys(Dispatch("planner"))
    /\ work' = [work EXCEPT !.plan = TRUE]
    /\ AskAgain /\ CountRun
    /\ UNCHANGED <<sm, faults>>

\* With a failed gate, a rejected review or an unreadable tree behind it, `next`
\* never says `advance`: the agent runs the command the directive names itself.
ImplementerWorks ==
    /\ Obeys(Dispatch("implementer"))
    /\ AskAgain
    /\ IF /\ sm.stage = "IMPLEMENT"
          /\ UnderRemediation \/ GateFailurePending \/ ~work.readable
       THEN /\ Move(sm, "QUALITY_GATE")
            /\ work' = [work EXCEPT !.diff = TRUE, !.evidence = "none"]
       ELSE IF sm.stage = "APPROVAL"
       THEN /\ Move(sm, "IMPLEMENT")
            /\ work' = [work EXCEPT !.diff = TRUE]
       ELSE /\ work' = [work EXCEPT !.diff = TRUE]
            /\ CountRun
            /\ UNCHANGED sm
    /\ UNCHANGED faults

\* The gate's sub-agent and gate-report.
GateFiles(verdict) ==
    /\ Obeys(Dispatch("gate"))
    /\ StillAt({"QUALITY_GATE"})
    /\ work' = [work EXCEPT !.evidence = verdict]
    /\ AskAgain /\ CountRun
    /\ UNCHANGED <<sm, faults>>

\* codeloop review with the reviewer's findings.
ReviewerFiles(approved) ==
    /\ Obeys(Dispatch("reviewer"))
    /\ StillAt({"REVIEW"})
    /\ IF approved
       THEN sm' = [PauseAtGate(Enter(sm, "COMMIT"), "COMMIT") EXCEPT !.remediation = FALSE]
       ELSE sm' = [Enter(sm, "IMPLEMENT") EXCEPT !.remediation = TRUE]
    /\ runs' = 0
    /\ AskAgain
    /\ UNCHANGED <<work, faults>>

\* The command an `advance` names.  A filed FAILED leads back to IMPLEMENT.
Advance ==
    /\ agent.pc = "obey"
    /\ agent.directive.type \in {"advance", "preflight"}
    /\ AskAgain
    /\ LET to == CASE sm.stage = "INITIALIZED"  -> "DISCOVERY"
                   [] sm.stage = "DISCOVERY"    -> "PLAN"
                   [] sm.stage = "PLAN"         -> "APPROVAL"
                   [] sm.stage = "IMPLEMENT"    -> "QUALITY_GATE"
                   [] sm.stage = "QUALITY_GATE" -> IF work.evidence = "FAILED"
                                                   THEN "IMPLEMENT" ELSE "REVIEW"
                   [] OTHER -> sm.stage
           refused == \/ to = sm.stage
                      \/ to = "PLAN" /\ ~work.planDir
                      \/ to = "REVIEW" /\ (work.blocked \/ work.evidence = "none")
       IN IF refused THEN CountRun /\ UNCHANGED <<sm, work>>
          ELSE /\ Move(sm, to)
               /\ work' = [work EXCEPT !.evidence = EvidenceAfter(sm, to),
                                       !.planDir = @ \/ to = "DISCOVERY",
                                       !.stray = @ /\ to # "PLAN"]
    /\ UNCHANGED faults

-----------------------------------------------------------------------------
(* People.                                                                 *)

PersonActs == agent.pc = "wait" /\ AskAgain /\ UNCHANGED faults

\* The plan is approved: codeloop implement.  A rejected one is written anew.
AnswerApproval ==
    /\ PersonActs
    /\ sm.stage = "APPROVAL"
    /\ \E to \in {"IMPLEMENT", "PLAN"} :
         /\ IF to = "IMPLEMENT"
            THEN Move([sm EXCEPT !.worktree = TRUE], to)
            ELSE Move(sm, to)
         /\ work' = [work EXCEPT !.blocked = FALSE, !.readable = TRUE,
                                 !.plan = @ /\ to = "IMPLEMENT"]

\* codeloop commit, or its rejection.
AnswerCommit ==
    /\ PersonActs
    /\ sm.stage = "COMMIT"
    /\ \E to \in {"COMPLETED", "IMPLEMENT", "PLAN"} : Move(sm, to)
    /\ UNCHANGED work

AnswerTriage ==
    /\ PersonActs
    /\ sm.stage = "TRIAGE"
    /\ \E to \in ALLOWED_TRANSITIONS["TRIAGE"] : Move(sm, to)
    /\ UNCHANGED work

\* The plan directory is made, or the stray writes are taken back.
AnswerDiscovery ==
    /\ PersonActs
    /\ sm.stage = "DISCOVERY"
    /\ work' = [work EXCEPT !.planDir = TRUE, !.stray = FALSE]
    /\ UNCHANGED <<sm, runs>>

\* codeloop implement provides the worktree that is missing, also after failed
\* gates; a plan the gate refused goes back to PLAN.
AnswerWork ==
    /\ PersonActs
    /\ \/ /\ sm.stage = "IMPLEMENT"
          /\ sm' = [ResumeFromGate(sm) EXCEPT !.worktree = TRUE]
          /\ work' = [work EXCEPT !.readable = TRUE]
          /\ UNCHANGED runs
       \/ /\ sm.stage = "IMPLEMENT"
          /\ sm.implementToGateLoops >= MAX_IMPLEMENT_GATE_LOOPS
          /\ Move(sm, "QUALITY_GATE")
          /\ work' = [work EXCEPT !.evidence = "none"]
       \/ /\ sm.stage = "QUALITY_GATE" /\ work.blocked
          /\ Move(sm, "PLAN")
          /\ work' = [work EXCEPT !.blocked = FALSE, !.evidence = "none", !.plan = FALSE]

\* Somebody files the verdict the reviewers did not.
AnswerReview ==
    /\ PersonActs
    /\ sm.stage = "REVIEW"
    /\ \/ sm' = [PauseAtGate(Enter(ResumeFromGate(sm), "COMMIT"), "COMMIT") EXCEPT !.remediation = FALSE]
       \/ sm' = [Enter(ResumeFromGate(sm), "IMPLEMENT") EXCEPT !.remediation = TRUE]
    /\ runs' = 0
    /\ UNCHANGED work

Resume ==
    /\ PersonActs
    /\ sm.pausedAtGate = "CIRCUIT_BREAKER"
    /\ sm' = ResumeFromGate(sm)
    /\ UNCHANGED <<work, runs>>

\* The lifecycle run's own breaker, with the default budget.
TripsBreaker(s) == s.implementToGateLoops >= MAX_IMPLEMENT_GATE_LOOPS

\* A lifecycle run in the same checkpoint runs the gate in-process: the one place
\* that counts a failure, and that pauses the task at the third.
InProcessGate(passed) ==
    /\ "gate" \in Troubles
    /\ PersonActs
    /\ sm.stage \in {"IMPLEMENT", "QUALITY_GATE"}
    /\ sm.implementToGateLoops < MaxLoops
    /\ IF passed
       THEN sm' = [Enter(sm, "REVIEW") EXCEPT !.implementToGateLoops = 0]
       ELSE LET failed == [Enter(sm, "IMPLEMENT") EXCEPT !.implementToGateLoops = @ + 1,
                                                         !.gateFailed = TRUE]
            IN sm' = IF TripsBreaker(failed) THEN PauseAtGate(failed, "CIRCUIT_BREAKER") ELSE failed
    /\ work' = [work EXCEPT !.evidence = "none"]
    /\ runs' = 0

\* At any time: the provider's quota ends, the plan is edited or a deviation is
\* filed, the worktree is removed.
Trouble ==
    /\ \/ /\ "halt" \in Troubles
          /\ sm' = PauseAtGate(sm, "CIRCUIT_BREAKER")
          /\ UNCHANGED work
       \/ /\ "plan" \in Troubles
          /\ work' = [work EXCEPT !.blocked = TRUE]
          /\ UNCHANGED sm
       \/ /\ "worktree" \in Troubles
          /\ work' = [work EXCEPT !.readable = FALSE]
          /\ UNCHANGED sm
    /\ UNCHANGED <<agent, runs, faults>>

-----------------------------------------------------------------------------
AgentStep ==
    \/ NextAction \/ RouteToTriage \/ LeaveTriage
    \/ Fruitless \/ DiscoveryWrites \/ DiscoveryStrays \/ PlannerWrites \/ ImplementerWorks
    \/ \E verdict \in GateVerdicts : GateFiles(verdict)
    \/ \E approved \in BOOLEAN : ReviewerFiles(approved)
    \/ Advance

PersonStep ==
    \/ AnswerDiscovery \/ AnswerApproval \/ AnswerWork \/ AnswerReview
    \/ AnswerCommit \/ AnswerTriage \/ Resume \/ Restart
    \/ \E passed \in BOOLEAN : InProcessGate(passed)

Next == AgentStep \/ PersonStep \/ Trouble

Spec == Init /\ [][Next]_vars

\* A sub-agent does its work.
SubAgentWorks ==
    \/ DiscoveryWrites \/ PlannerWrites \/ ImplementerWorks
    \/ \E verdict \in GateVerdicts : GateFiles(verdict)

\* The agent keeps going, and sub-agents called again and again work some time.
\* Nothing is assumed of the reviewer, of people or of troubles.
Diligence == WF_vars(AgentStep) /\ SF_vars(SubAgentWorks)

FairSpec == Spec /\ Diligence /\ SF_vars(GateFiles("PASSED"))

-----------------------------------------------------------------------------
(* Properties.                                                             *)

\* In one visit of REVIEW no more reviewers run than the cap allows, plus one for
\* every dispatch whose record could not be saved.
ReviewersWithinCap ==
    sm.stage = "REVIEW" => runs <= MAX_REVIEW_DISPATCH_LOOPS + faults

\* No sub-agent that writes runs on a task that waits at a gate for people, even
\* where the directive of its stage is still computed.
NobodyWorksAtAGate ==
    [][agent.pc = "ask" /\ agent'.pc = "obey" => sm.pausedAtGate = NoGate]_vars

\* Work reaches a person or the review: the agent is not sent round the stages
\* before it for ever.
WorkReachesReview == []<>(agent.pc = "wait" \/ sm.stage \in {"REVIEW", "COMMIT", "COMPLETED"})

=============================================================================
