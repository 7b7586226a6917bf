-------------------------- MODULE TaskPipelineProofs --------------------------
(***************************************************************************)
(* What holds of TaskPipeline for every set of plans, deviations, commands *)
(* and every bound: the type invariant, that a finished task waits for no  *)
(* human, that the evidence a gate exit accepts is of the present visit of *)
(* the gate, as long as no command starts a history over; and of its loop  *)
(* of implementing, checking, reviewing and delivering, that work past the *)
(* gate was verified, that an approved plan's identity and the deviations  *)
(* filed against it survive every retry, and that the pipeline implements  *)
(* the gate's contract (EvidenceContract).                                 *)
(*                                                                         *)
(* The argument for the loop is about the running command.  Its remaining  *)
(* writes are one of a few lists; until its save they stand next to a      *)
(* checkpoint that continues the one on disk, afterwards that checkpoint   *)
(* is on disk.                                                             *)
(***************************************************************************)
EXTENDS TaskPipeline, SequenceTheorems, TLAPS

-----------------------------------------------------------------------------
(* The entity's methods, by type.                                          *)

\* A new checkpoint is one.
LEMMA InitialIsCheckpoint ==
    ASSUME NEW mode \in EXECUTION_MODES
    PROVE  CreateInitial(mode) \in Checkpoint /\ Reset(mode) \in Checkpoint
BY DEF CreateInitial, Reset, Checkpoint, Stages, NoGate

\* A transition of a checkpoint is one, whatever the target.
LEMMA TransitionIsCheckpoint ==
    ASSUME NEW sm \in Checkpoint, NEW to \in Stages
    PROVE  Transition(sm, to) \in Checkpoint
<1> DEFINE mode == IF sm.mode = "plan" /\ to \notin PLAN_PHASE_STAGES THEN "standard" ELSE sm.mode
           rounds == IF to = "QUALITY_GATE" THEN sm.gateRounds + 1 ELSE sm.gateRounds
           filed == IF EndsDeviationRound(sm.stage, to) THEN {} ELSE sm.planDeviations
           acked == IF EndsDeviationRound(sm.stage, to) THEN {} ELSE sm.acknowledged
           pause == IF to = "COMPLETED" \/ sm.pausedAtGate \notin HUMAN_WAIT_GATES
                    THEN NoGate ELSE sm.pausedAtGate
<1>1. mode \in EXECUTION_MODES
  BY DEF Checkpoint, EXECUTION_MODES
<1>2. rounds \in Nat
  BY DEF Checkpoint
<1>3. filed \in SUBSET Deviations /\ acked \in SUBSET Deviations
  BY DEF Checkpoint
<1>4. pause \in Gates \union {NoGate}
  BY DEF Checkpoint
<1>5. Transition(sm, to) = [sm EXCEPT !.stage = to, !.mode = mode, !.gateRounds = rounds,
                                      !.planDeviations = filed, !.acknowledged = acked,
                                      !.pausedAtGate = pause]
  BY DEF Transition
<1> HIDE DEF mode, rounds, filed, acked, pause
<1> QED
  BY <1>1, <1>2, <1>3, <1>4, <1>5 DEF Checkpoint

\* So are the results of the methods that keep the stage.
LEMMA MethodsKeepType ==
    ASSUME NEW sm \in Checkpoint
    PROVE  /\ \A g \in Gates : PauseAtGate(sm, g) \in Checkpoint
           /\ ResumeFromGate(sm) \in Checkpoint
           /\ \A mode \in EXECUTION_MODES : SetMode(sm, mode) \in Checkpoint
           /\ \A bytes \in PlanVersions : RecordApprovedPlan(sm, bytes) \in Checkpoint
           /\ \A d \in Deviations : RecordPlanDeviation(sm, d) \in Checkpoint
           /\ \A d \in Deviations : AcknowledgePlanDeviation(sm, d) \in Checkpoint
<1>1. \A g \in Gates : PauseAtGate(sm, g) \in Checkpoint
  BY DEF PauseAtGate, Checkpoint
<1>2. ResumeFromGate(sm) \in Checkpoint
  BY DEF ResumeFromGate, Checkpoint
<1>3. \A mode \in EXECUTION_MODES : SetMode(sm, mode) \in Checkpoint
  BY DEF SetMode, Checkpoint
<1>4. \A bytes \in PlanVersions : RecordApprovedPlan(sm, bytes) \in Checkpoint
  BY DEF RecordApprovedPlan, Checkpoint
<1>5. \A d \in Deviations : RecordPlanDeviation(sm, d) \in Checkpoint
  BY DEF RecordPlanDeviation, Checkpoint
<1>6. \A d \in Deviations : AcknowledgePlanDeviation(sm, d) \in Checkpoint
  BY DEF AcknowledgePlanDeviation, Checkpoint
<1> QED BY <1>1, <1>2, <1>3, <1>4, <1>5, <1>6

-----------------------------------------------------------------------------
(* How the checkpoint a command saves relates to the one it loaded.        *)

\* Nobody has to answer a finished task.
Unwaiting(sm) == sm.stage = "COMPLETED" => sm.pausedAtGate \notin HUMAN_WAIT_GATES

\* A checkpoint at the gate has entered it.
GateCounted(sm) == sm.stage = "QUALITY_GATE" => sm.gateRounds > 0

\* No method loses a round, one that arrives at the gate counts a new one, and
\* none makes a finished task wait.
Leads(a, b) ==
    /\ b.gateRounds >= a.gateRounds
    /\ b.stage = "QUALITY_GATE" /\ a.stage # "QUALITY_GATE" => b.gateRounds > a.gateRounds
    /\ Unwaiting(a) => Unwaiting(b)

\* Leads composes along the calls of a command.
LEMMA LeadsTransitive ==
    ASSUME NEW a \in Checkpoint, NEW b \in Checkpoint, NEW c \in Checkpoint,
           Leads(a, b), Leads(b, c)
    PROVE  Leads(a, c)
<1>1. a.gateRounds \in Nat /\ b.gateRounds \in Nat /\ c.gateRounds \in Nat
  BY DEF Checkpoint
<1> QED BY <1>1 DEF Leads

\* Writing other fields than stage, rounds and pause leads on.
LEMMA LeadsSame ==
    ASSUME NEW a \in Checkpoint, NEW b \in Checkpoint,
           b.stage = a.stage, b.gateRounds = a.gateRounds, b.pausedAtGate = a.pausedAtGate
    PROVE  Leads(a, b)
<1>1. a.gateRounds \in Nat
  BY DEF Checkpoint
<1> QED BY <1>1 DEF Leads, Unwaiting

\* transition() leads on: it counts the gate's entry and ends the pause of a
\* task it finishes.
LEMMA TransitionLeads ==
    ASSUME NEW sm \in Checkpoint, NEW to \in Stages
    PROVE  /\ Transition(sm, to) \in Checkpoint
           /\ Transition(sm, to).stage = to
           /\ Leads(sm, Transition(sm, to))
<1>1. Transition(sm, to) \in Checkpoint
  BY TransitionIsCheckpoint
<1>2. Transition(sm, to).stage = to
  BY DEF Transition, Checkpoint
<1>3. Transition(sm, to).gateRounds
        = IF to = "QUALITY_GATE" THEN sm.gateRounds + 1 ELSE sm.gateRounds
  BY DEF Transition, Checkpoint
<1>4. to = "COMPLETED" => Transition(sm, to).pausedAtGate = NoGate
  BY DEF Transition, Checkpoint
<1>5. sm.gateRounds \in Nat
  BY DEF Checkpoint
<1> QED BY <1>1, <1>2, <1>3, <1>4, <1>5 DEF Leads, Unwaiting, NoGate, HUMAN_WAIT_GATES

\* resumeFromGate() and a mechanical pause lead on, a human pause does away from
\* COMPLETED.
LEMMA PausesLead ==
    ASSUME NEW sm \in Checkpoint
    PROVE  /\ ResumeFromGate(sm) \in Checkpoint
           /\ ResumeFromGate(sm).stage = sm.stage
           /\ Leads(sm, ResumeFromGate(sm))
           /\ \A g \in Gates :
                (g = "CIRCUIT_BREAKER" \/ sm.stage # "COMPLETED")
                  => /\ PauseAtGate(sm, g) \in Checkpoint
                     /\ PauseAtGate(sm, g).stage = sm.stage
                     /\ Leads(sm, PauseAtGate(sm, g))
<1>1. sm.gateRounds \in Nat
  BY DEF Checkpoint
<1>2. /\ ResumeFromGate(sm).stage = sm.stage
      /\ ResumeFromGate(sm).gateRounds = sm.gateRounds
      /\ ResumeFromGate(sm).pausedAtGate = NoGate
  BY DEF ResumeFromGate, Checkpoint
<1>3. ASSUME NEW g \in Gates, g = "CIRCUIT_BREAKER" \/ sm.stage # "COMPLETED"
      PROVE  /\ PauseAtGate(sm, g).stage = sm.stage
             /\ Leads(sm, PauseAtGate(sm, g))
  <2>1. /\ PauseAtGate(sm, g).stage = sm.stage
        /\ PauseAtGate(sm, g).gateRounds = sm.gateRounds
        /\ PauseAtGate(sm, g).pausedAtGate \in {g, sm.pausedAtGate}
    BY DEF PauseAtGate, Checkpoint
  <2> QED BY <1>1, <1>3, <2>1 DEF Leads, Unwaiting, HUMAN_WAIT_GATES
<1>4. Leads(sm, ResumeFromGate(sm))
  BY <1>1, <1>2 DEF Leads, Unwaiting, NoGate, HUMAN_WAIT_GATES
<1> QED BY <1>2, <1>3, <1>4, MethodsKeepType

\* The recording methods lead on: they touch neither stage, rounds nor pause.
LEMMA RecordsLead ==
    ASSUME NEW sm \in Checkpoint
    PROVE  /\ \A mode \in EXECUTION_MODES :
                SetMode(sm, mode) \in Checkpoint /\ Leads(sm, SetMode(sm, mode))
                  /\ SetMode(sm, mode).stage = sm.stage
           /\ \A bytes \in PlanVersions :
                RecordApprovedPlan(sm, bytes) \in Checkpoint
                  /\ Leads(sm, RecordApprovedPlan(sm, bytes))
                  /\ RecordApprovedPlan(sm, bytes).stage = sm.stage
           /\ \A d \in Deviations :
                RecordPlanDeviation(sm, d) \in Checkpoint /\ Leads(sm, RecordPlanDeviation(sm, d))
           /\ \A d \in Deviations :
                AcknowledgePlanDeviation(sm, d) \in Checkpoint
                  /\ Leads(sm, AcknowledgePlanDeviation(sm, d))
<1>1. ASSUME NEW mode \in EXECUTION_MODES
      PROVE  /\ SetMode(sm, mode).stage = sm.stage
             /\ SetMode(sm, mode).gateRounds = sm.gateRounds
             /\ SetMode(sm, mode).pausedAtGate = sm.pausedAtGate
  BY DEF SetMode, Checkpoint
<1>2. ASSUME NEW bytes \in PlanVersions
      PROVE  /\ RecordApprovedPlan(sm, bytes).stage = sm.stage
             /\ RecordApprovedPlan(sm, bytes).gateRounds = sm.gateRounds
             /\ RecordApprovedPlan(sm, bytes).pausedAtGate = sm.pausedAtGate
  BY DEF RecordApprovedPlan, Checkpoint
<1>3. ASSUME NEW d \in Deviations
      PROVE  /\ RecordPlanDeviation(sm, d).stage = sm.stage
             /\ RecordPlanDeviation(sm, d).gateRounds = sm.gateRounds
             /\ RecordPlanDeviation(sm, d).pausedAtGate = sm.pausedAtGate
  BY DEF RecordPlanDeviation, Checkpoint
<1>4. ASSUME NEW d \in Deviations
      PROVE  /\ AcknowledgePlanDeviation(sm, d).stage = sm.stage
             /\ AcknowledgePlanDeviation(sm, d).gateRounds = sm.gateRounds
             /\ AcknowledgePlanDeviation(sm, d).pausedAtGate = sm.pausedAtGate
  BY DEF AcknowledgePlanDeviation, Checkpoint
<1> QED BY <1>1, <1>2, <1>3, <1>4, MethodsKeepType, LeadsSame

-----------------------------------------------------------------------------
(* What every command starts with.                                         *)

\* The report of measured commands is filed last, after a save that left the gate
\* with their verdict.
TodoShape(todo, sm) ==
    \/ todo \in Seq(Effects \ {"file"})
    \/ /\ todo \in {<<"save", "file">>, <<"file">>}
       /\ sm.stage # "QUALITY_GATE"
       /\ sm.gateVerdict \in GateVerdicts

\* The checkpoint a command works on when it does not continue the one on disk.
Fresh(base) ==
    /\ base.stage = "INITIALIZED"
    /\ base.pausedAtGate = NoGate
    /\ ~HasCheckpoint \/ "restart" \in Commands

StartedFrom(base, sm, todo, exit) ==
    /\ base \in Checkpoint /\ sm \in Checkpoint
    /\ todo \in Seq(Effects) /\ exit \in Verifications
    /\ Begin(sm, todo, exit)
    /\ Leads(base, sm)
    /\ (HasCheckpoint /\ base = disk) \/ Fresh(base)
    /\ TodoShape(todo, sm) /\ todo # <<"file">>
    /\ todo = <<"save", "file">> /\ GateCounted(base) => sm.gateRounds > 0

Started == \E base, sm, todo, exit : StartedFrom(base, sm, todo, exit)

\* The sequences of writes commands issue are typed.
LEMMA TodoTypes ==
    /\ <<"save">> \in Seq(Effects) /\ <<"save">> \in Seq(Effects \ {"file"})
    /\ <<"createWorktree", "save">> \in Seq(Effects)
    /\ <<"createWorktree", "save">> \in Seq(Effects \ {"file"})
    /\ <<"save", "clear">> \in Seq(Effects)
    /\ <<"save", "clear">> \in Seq(Effects \ {"file"})
    /\ <<"save", "file">> \in Seq(Effects)
    /\ <<"save", "removeWorktree", "detach">> \in Seq(Effects)
    /\ <<"save", "removeWorktree", "detach">> \in Seq(Effects \ {"file"})
    /\ <<"save", "file">> # <<"file">>
    /\ \A todo \in Seq(Effects \ {"file"}) : todo # <<"file">> /\ todo # <<"save", "file">>
<1>1. \A todo \in Seq(Effects \ {"file"}) : todo # <<"file">> /\ todo # <<"save", "file">>
  <2> SUFFICES ASSUME NEW todo \in Seq(Effects \ {"file"})
               PROVE  todo # <<"file">> /\ todo # <<"save", "file">>
    OBVIOUS
  <2>1. \A i \in 1 .. Len(todo) : todo[i] # "file"
    BY ElementOfSeq
  <2>2. todo # <<"file">>
    <3>1. SUFFICES ASSUME todo = <<"file">> PROVE FALSE
      OBVIOUS
    <3>2. Len(todo) = 1 /\ todo[1] = "file"
      BY <3>1
    <3> QED BY <2>1, <3>2
  <2>3. todo # <<"save", "file">>
    <3>1. SUFFICES ASSUME todo = <<"save", "file">> PROVE FALSE
      OBVIOUS
    <3>2. Len(todo) = 2 /\ todo[2] = "file"
      BY <3>1
    <3> QED BY <2>1, <3>2
  <2> QED BY <2>2, <2>3
<1> QED BY <1>1 DEF Effects

\* A command that only saves started from the checkpoint it leads on from.
LEMMA SaveStarts ==
    ASSUME NEW base \in Checkpoint, NEW sm \in Checkpoint,
           BeginSave(sm), Leads(base, sm),
           (HasCheckpoint /\ base = disk) \/ Fresh(base)
    PROVE  Started
<1>1. StartedFrom(base, sm, <<"save">>, "none")
  BY TodoTypes DEF StartedFrom, BeginSave, TodoShape, Verifications
<1> QED BY <1>1 DEF Started

\* A new or started over checkpoint is a fresh base.
LEMMA FreshBase ==
    ASSUME NEW mode \in EXECUTION_MODES, ~HasCheckpoint \/ "restart" \in Commands
    PROVE  /\ CreateInitial(mode) \in Checkpoint /\ Fresh(CreateInitial(mode))
           /\ Reset(mode) \in Checkpoint /\ Fresh(Reset(mode))
<1>1. /\ CreateInitial(mode).stage = "INITIALIZED"
      /\ CreateInitial(mode).pausedAtGate = NoGate
  BY DEF CreateInitial
<1> QED BY <1>1, InitialIsCheckpoint DEF Fresh, Reset

\* What is on disk is a checkpoint when there is one.
LEMMA DiskIsCheckpoint ==
    ASSUME TypeOK, HasCheckpoint
    PROVE  disk \in Checkpoint
BY DEF TypeOK, HasCheckpoint

\* A checkpoint leads on to itself.
LEMMA LeadsReflexive ==
    ASSUME NEW sm \in Checkpoint
    PROVE  Leads(sm, sm)
BY LeadsSame

\* Entering a lifecycle run creates, starts over or re-labels.
LEMMA EnterLifecycleStarts ==
    ASSUME TypeOK, NEW mode \in StartModes, EnterLifecycle(mode)
    PROVE  Started
<1>1. mode \in EXECUTION_MODES
  BY ConstantsAssumption
<1>2. CASE ~HasCheckpoint
  <2>1. BeginSave(CreateInitial(mode))
    BY <1>2 DEF EnterLifecycle
  <2> QED BY <1>1, <1>2, <2>1, FreshBase, LeadsReflexive, SaveStarts
<1>3. CASE HasCheckpoint /\ disk.stage = "COMPLETED" /\ mode = "plan"
  <2>1. "restart" \in Commands /\ BeginSave(Reset(mode))
    BY <1>3 DEF EnterLifecycle
  <2> QED BY <1>1, <2>1, FreshBase, LeadsReflexive, SaveStarts
<1>4. CASE HasCheckpoint /\ ~(disk.stage = "COMPLETED" /\ mode = "plan")
  <2>1. BeginSave(SetMode(disk, mode))
    BY <1>4 DEF EnterLifecycle
  <2> QED BY <1>1, <1>4, <2>1, DiskIsCheckpoint, RecordsLead, SaveStarts
<1> QED BY <1>2, <1>3, <1>4

\* Planning works on a new, started over or re-labelled checkpoint.
LEMMA StartPlanningStarts ==
    ASSUME TypeOK, NEW mode \in StartModes, NEW supplied \in BOOLEAN, NEW feedback \in BOOLEAN,
           StartPlanning(mode, supplied, feedback)
    PROVE  Started
<1>1. mode \in EXECUTION_MODES
  BY ConstantsAssumption
<1> DEFINE origin == IF HasCheckpoint /\ disk.stage # "COMPLETED" THEN disk
                     ELSE PlanningBase(mode)
           base == [PlanningBase(mode) EXCEPT !.planDir = @ \/ ~supplied]
<1>2. /\ origin \in Checkpoint
      /\ PlanningBase(mode) \in Checkpoint
      /\ Leads(origin, PlanningBase(mode))
      /\ (HasCheckpoint /\ origin = disk) \/ Fresh(origin)
  <2>1. CASE ~HasCheckpoint
    BY <1>1, <2>1, FreshBase, LeadsReflexive DEF PlanningBase
  <2>2. CASE HasCheckpoint /\ disk.stage = "COMPLETED"
    <3>1. "restart" \in Commands
      BY <2>2 DEF StartPlanning, AtStage
    <3> QED BY <1>1, <2>2, <3>1, FreshBase, LeadsReflexive DEF PlanningBase
  <2>3. CASE HasCheckpoint /\ disk.stage # "COMPLETED"
    BY <1>1, <2>3, DiskIsCheckpoint, RecordsLead DEF PlanningBase
  <2> QED BY <2>1, <2>2, <2>3
<1> HIDE DEF origin
<1>3. base \in Checkpoint /\ Leads(PlanningBase(mode), base) /\ base.stage = PlanningBase(mode).stage
  <2>1. base \in Checkpoint
    BY <1>2 DEF Checkpoint
  <2>2. /\ base.stage = PlanningBase(mode).stage
        /\ base.gateRounds = PlanningBase(mode).gateRounds
        /\ base.pausedAtGate = PlanningBase(mode).pausedAtGate
    BY <1>2 DEF Checkpoint
  <2> QED BY <1>2, <2>1, <2>2, LeadsSame
<1>4. PICK to \in PlanningTargets(PlanningBase(mode).stage, supplied, feedback) :
         BeginSave(IF to = base.stage THEN base ELSE Transition(base, to))
  BY DEF StartPlanning
<1>5. to \in Stages
  <2>1. PlanningBase(mode).stage \in Stages
    BY <1>2 DEF Checkpoint
  <2> QED BY <1>4, <2>1 DEF PlanningTargets, Stages
<1> HIDE DEF base
<1>6. CASE to = base.stage
  BY <1>2, <1>3, <1>4, <1>6, LeadsTransitive, SaveStarts
<1>7. CASE to # base.stage
  <2>1. /\ Transition(base, to) \in Checkpoint
        /\ Leads(base, Transition(base, to))
    BY <1>3, <1>5, TransitionLeads
  <2>2. Leads(origin, base)
    BY <1>2, <1>3, LeadsTransitive
  <2>3. Leads(origin, Transition(base, to))
    BY <1>2, <1>3, <2>1, <2>2, LeadsTransitive
  <2> QED BY <1>2, <1>4, <1>7, <2>1, <2>3, SaveStarts
<1> QED BY <1>6, <1>7

\* Work on an existing checkpoint at one of the stages S starts from it.
LEMMA AtStageIsCheckpoint ==
    ASSUME TypeOK, NEW S, AtStage(S)
    PROVE  HasCheckpoint /\ disk \in Checkpoint /\ disk.stage \in S
BY DiskIsCheckpoint DEF AtStage

\* The way to IMPLEMENT leads on.
LEMMA ImplementPathLeads ==
    ASSUME NEW sm \in Checkpoint
    PROVE  ImplementPath(sm) \in Checkpoint /\ Leads(sm, ImplementPath(sm))
<1> DEFINE approved == Transition(sm, "APPROVAL")
<1>1. "APPROVAL" \in Stages /\ "IMPLEMENT" \in Stages
  BY DEF Stages
<1>2. approved \in Checkpoint /\ Leads(sm, approved)
  BY <1>1, TransitionLeads
<1>3. Transition(approved, "IMPLEMENT") \in Checkpoint
      /\ Leads(approved, Transition(approved, "IMPLEMENT"))
  BY <1>1, <1>2, TransitionLeads
<1>4. Leads(sm, Transition(approved, "IMPLEMENT"))
  BY <1>2, <1>3, LeadsTransitive
<1>5. Transition(sm, "IMPLEMENT") \in Checkpoint /\ Leads(sm, Transition(sm, "IMPLEMENT"))
  BY <1>1, TransitionLeads
<1> QED BY <1>3, <1>4, <1>5, LeadsReflexive DEF ImplementPath

\* Implementation consumes a pause, moves, binds a worktree, records the plan.
LEMMA StartImplementationStarts ==
    ASSUME TypeOK, NEW noWorktree \in BOOLEAN, NEW supplied \in BOOLEAN,
           StartImplementation(noWorktree, supplied)
    PROVE  Started
<1> DEFINE resumed  == disk.stage = "IMPLEMENT"
           approved == disk.stage = "APPROVAL" /\ disk.approvedPlanDigest # NoPlan
           records  == ~approved /\ (~resumed \/ disk.approvedPlanDigest = NoPlan)
           needed   == ~noWorktree /\ ~disk.worktree
           moved    == ImplementPath(ResumeFromGate(disk))
           bound    == [moved EXCEPT !.worktree = @ \/ needed, !.planDir = @ \/ ~supplied]
           result   == IF records THEN RecordApprovedPlan(bound, plan) ELSE bound
           todo     == IF needed THEN <<"createWorktree", "save">> ELSE <<"save">>
<1>1. HasCheckpoint /\ disk \in Checkpoint
  BY AtStageIsCheckpoint DEF StartImplementation
<1>2. Begin(result, todo, "none")
  BY DEF StartImplementation
<1>3. moved \in Checkpoint /\ Leads(disk, moved)
  <2>1. ResumeFromGate(disk) \in Checkpoint /\ Leads(disk, ResumeFromGate(disk))
    BY <1>1, PausesLead
  <2>2. moved \in Checkpoint /\ Leads(ResumeFromGate(disk), moved)
    BY <2>1, ImplementPathLeads
  <2> QED BY <1>1, <2>1, <2>2, LeadsTransitive
<1> HIDE DEF moved, needed, records
<1>4. bound \in Checkpoint /\ Leads(moved, bound)
  <2>1. bound \in Checkpoint
    BY <1>3 DEF Checkpoint
  <2>2. bound.stage = moved.stage /\ bound.gateRounds = moved.gateRounds
        /\ bound.pausedAtGate = moved.pausedAtGate
    BY <1>3 DEF Checkpoint
  <2> QED BY <1>3, <2>1, <2>2, LeadsSame
<1> HIDE DEF bound
<1>5. result \in Checkpoint /\ Leads(bound, result)
  <2>1. plan \in PlanVersions
    BY DEF TypeOK
  <2> QED BY <1>4, <2>1, RecordsLead, LeadsReflexive
<1>6. Leads(disk, result)
  BY <1>1, <1>3, <1>4, <1>5, LeadsTransitive
<1>7. todo \in Seq(Effects) /\ todo \in Seq(Effects \ {"file"})
  BY TodoTypes
<1> HIDE DEF result, todo
<1>8. StartedFrom(disk, result, todo, "none")
  BY <1>1, <1>2, <1>5, <1>6, <1>7, TodoTypes DEF StartedFrom, TodoShape, Verifications
<1> QED BY <1>8 DEF Started

\* The writes of a transition never include a report of measured commands.
LEMMA TransitionEffectsType ==
    ASSUME NEW sm, NEW to, NEW noWorktree
    PROVE  /\ TransitionEffects(sm, to, noWorktree) \in Seq(Effects)
           /\ TransitionEffects(sm, to, noWorktree) \in Seq(Effects \ {"file"})
<1> DEFINE E == Effects \ {"file"}
           create == IF to = "IMPLEMENT" /\ ~noWorktree /\ ~sm.worktree
                     THEN <<"createWorktree">> ELSE <<>>
           before == IF to = "QUALITY_GATE" THEN <<"clear">> ELSE <<>>
           after  == IF sm.stage = "QUALITY_GATE" THEN <<"clear">> ELSE <<>>
           last   == IF to = "DISCOVERY" THEN <<"scaffold">> ELSE <<>>
<1>1. create \in Seq(E) /\ before \in Seq(E) /\ <<"save">> \in Seq(E)
      /\ after \in Seq(E) /\ last \in Seq(E)
  <2>1. <<>> \in Seq(E) /\ <<"createWorktree">> \in Seq(E) /\ <<"clear">> \in Seq(E)
        /\ <<"save">> \in Seq(E) /\ <<"scaffold">> \in Seq(E)
    BY DEF Effects
  <2> HIDE DEF E
  <2> QED BY <2>1
<1>2. TransitionEffects(sm, to, noWorktree) = create \o before \o <<"save">> \o after \o last
  BY DEF TransitionEffects
<1> HIDE DEF E, create, before, after, last
<1>3. create \o before \o <<"save">> \o after \o last \in Seq(E)
  BY <1>1
<1>4. Seq(E) \subseteq Seq(Effects)
  BY DEF E
<1> QED BY <1>2, <1>3, <1>4 DEF E

\* What a transition saves leads on from what it loaded.
LEMMA TransitionResultLeads ==
    ASSUME TypeOK, NEW sm \in Checkpoint, NEW to \in Stages, NEW noWorktree \in BOOLEAN
    PROVE  /\ TransitionResult(sm, to, noWorktree) \in Checkpoint
           /\ Leads(sm, TransitionResult(sm, to, noWorktree))
<1> DEFINE verdict == IF sm.stage = "QUALITY_GATE"
                      THEN [sm EXCEPT !.gateVerdict = ExitVerdict(sm)] ELSE sm
           moved   == Transition(verdict, to)
           frozen  == IF FreezesPlan(sm, to) THEN RecordApprovedPlan(moved, plan) ELSE moved
           paused  == IF to \in {"APPROVAL", "COMMIT"} THEN PauseAtGate(frozen, to) ELSE frozen
           result  == [paused EXCEPT !.worktree = @ \/ (to = "IMPLEMENT" /\ ~noWorktree)]
<1>1. TransitionResult(sm, to, noWorktree) = result
  BY DEF TransitionResult
<1>2. verdict \in Checkpoint /\ Leads(sm, verdict)
  <2>1. ExitVerdict(sm) \in GateVerdicts \union {"NOT_RECORDED"}
    BY DEF ExitVerdict, TypeOK, Reports
  <2>2. verdict \in Checkpoint
    BY <2>1 DEF Checkpoint
  <2>3. verdict.stage = sm.stage /\ verdict.gateRounds = sm.gateRounds
        /\ verdict.pausedAtGate = sm.pausedAtGate
    BY DEF Checkpoint
  <2> QED BY <2>2, <2>3, LeadsSame
<1> HIDE DEF verdict
<1>3. moved \in Checkpoint /\ moved.stage = to /\ Leads(verdict, moved)
  BY <1>2, TransitionLeads
<1> HIDE DEF moved
<1>4. frozen \in Checkpoint /\ frozen.stage = to /\ Leads(moved, frozen)
  <2>1. plan \in PlanVersions
    BY DEF TypeOK
  <2> QED BY <1>3, <2>1, RecordsLead, LeadsReflexive
<1> HIDE DEF frozen
<1>5. paused \in Checkpoint /\ Leads(frozen, paused)
  <2>1. CASE to \in {"APPROVAL", "COMMIT"}
    <3>1. to \in Gates /\ frozen.stage # "COMPLETED"
      BY <1>4, <2>1 DEF Gates, HUMAN_WAIT_GATES
    <3> QED BY <1>4, <2>1, <3>1, PausesLead
  <2>2. CASE to \notin {"APPROVAL", "COMMIT"}
    BY <1>4, <2>2, LeadsReflexive
  <2> QED BY <2>1, <2>2
<1> HIDE DEF paused
<1>6. result \in Checkpoint /\ Leads(paused, result)
  <2>1. result \in Checkpoint
    BY <1>5 DEF Checkpoint
  <2>2. result.stage = paused.stage /\ result.gateRounds = paused.gateRounds
        /\ result.pausedAtGate = paused.pausedAtGate
    BY <1>5 DEF Checkpoint
  <2> QED BY <1>5, <2>1, <2>2, LeadsSame
<1> HIDE DEF result
<1>7. Leads(sm, moved)
  BY <1>2, <1>3, LeadsTransitive
<1>8. Leads(sm, frozen)
  BY <1>3, <1>4, <1>7, LeadsTransitive
<1>9. Leads(sm, paused)
  BY <1>4, <1>5, <1>8, LeadsTransitive
<1>10. Leads(sm, result)
  BY <1>5, <1>6, <1>9, LeadsTransitive
<1> QED BY <1>1, <1>6, <1>10

\* The transition command consumes a pause and moves.
LEMMA TransitionStageStarts ==
    ASSUME TypeOK, NEW to \in Stages, NEW noWorktree \in BOOLEAN,
           TransitionStage(to, noWorktree)
    PROVE  Started
<1> DEFINE origin == IF HasCheckpoint THEN disk ELSE CreateInitial("standard")
           sm     == TransitionBase
           result == TransitionResult(sm, to, noWorktree)
           todo   == TransitionEffects(sm, to, noWorktree)
           exit   == IF to = "REVIEW" THEN "certified" ELSE "none"
<1>1. /\ origin \in Checkpoint
      /\ (HasCheckpoint /\ origin = disk) \/ Fresh(origin)
      /\ sm \in Checkpoint /\ Leads(origin, sm)
  <2>1. CASE HasCheckpoint
    BY <2>1, DiskIsCheckpoint, PausesLead DEF TransitionBase
  <2>2. CASE ~HasCheckpoint
    <3>1. "standard" \in EXECUTION_MODES
      BY DEF EXECUTION_MODES
    <3> QED BY <2>2, <3>1, FreshBase, LeadsReflexive DEF TransitionBase
  <2> QED BY <2>1, <2>2
<1>2. Begin(result, todo, exit)
  BY DEF TransitionStage
<1> HIDE DEF origin, sm
<1>3. result \in Checkpoint /\ Leads(sm, result)
  BY <1>1, TransitionResultLeads
<1>4. Leads(origin, result)
  BY <1>1, <1>3, LeadsTransitive
<1>5. todo \in Seq(Effects) /\ todo \in Seq(Effects \ {"file"})
  BY TransitionEffectsType
<1>6. exit \in Verifications
  BY DEF Verifications
<1> HIDE DEF result, todo, exit
<1>7. StartedFrom(origin, result, todo, exit)
  BY <1>1, <1>2, <1>3, <1>4, <1>5, <1>6, TodoTypes DEF StartedFrom, TodoShape
<1> QED BY <1>7 DEF Started

\* The in-process gate enters the gate, judges and leaves it.
LEMMA RunQualityGateStarts ==
    ASSUME TypeOK, NEW verdict \in GateVerdicts, RunQualityGate(verdict)
    PROVE  Started
<1> DEFINE atGate == IF disk.stage = "QUALITY_GATE" THEN disk
                     ELSE Transition(disk, "QUALITY_GATE")
           judged == [atGate EXCEPT !.gateVerdict = verdict]
           passed == Transition(judged, "REVIEW")
           failed == Transition(judged, "IMPLEMENT")
           result == IF verdict = "PASSED"
                     THEN [passed EXCEPT !.implementGateLoops = 0]
                     ELSE [failed EXCEPT !.implementGateLoops = @ + 1]
           exit   == IF verdict = "PASSED" THEN "measured" ELSE "none"
<1>1. HasCheckpoint /\ disk \in Checkpoint
  BY AtStageIsCheckpoint DEF RunQualityGate
<1>2. Begin(result, <<"save", "file">>, exit)
  BY DEF RunQualityGate
<1>3. "QUALITY_GATE" \in Stages /\ "REVIEW" \in Stages /\ "IMPLEMENT" \in Stages
  BY DEF Stages
<1>4. atGate \in Checkpoint /\ Leads(disk, atGate) /\ atGate.stage = "QUALITY_GATE"
  BY <1>1, <1>3, TransitionLeads, LeadsReflexive
<1> HIDE DEF atGate
<1>5. judged \in Checkpoint /\ Leads(atGate, judged) /\ judged.stage = "QUALITY_GATE"
      /\ judged.gateVerdict = verdict
  <2>1. judged \in Checkpoint
    BY <1>4 DEF Checkpoint
  <2>2. judged.stage = atGate.stage /\ judged.gateRounds = atGate.gateRounds
        /\ judged.pausedAtGate = atGate.pausedAtGate /\ judged.gateVerdict = verdict
    BY <1>4 DEF Checkpoint
  <2> QED BY <1>4, <2>1, <2>2, LeadsSame
<1> HIDE DEF judged
<1>6. /\ passed \in Checkpoint /\ passed.stage = "REVIEW" /\ Leads(judged, passed)
      /\ failed \in Checkpoint /\ failed.stage = "IMPLEMENT" /\ Leads(judged, failed)
      /\ passed.gateVerdict = verdict /\ failed.gateVerdict = verdict
  <2>1. passed.gateVerdict = verdict /\ failed.gateVerdict = verdict
    BY <1>5 DEF Transition, Checkpoint
  <2> QED BY <1>3, <1>5, <2>1, TransitionLeads
<1> HIDE DEF passed, failed
<1>7. result \in Checkpoint /\ Leads(judged, result) /\ result.stage # "QUALITY_GATE"
      /\ result.gateVerdict = verdict
  <2>1. CASE verdict = "PASSED"
    <3>1. result \in Checkpoint
      BY <1>6, <2>1 DEF Checkpoint
    <3>2. result.stage = passed.stage /\ result.gateRounds = passed.gateRounds
          /\ result.pausedAtGate = passed.pausedAtGate /\ result.gateVerdict = verdict
      BY <1>6, <2>1 DEF Checkpoint
    <3>3. Leads(passed, result)
      BY <1>6, <3>1, <3>2, LeadsSame
    <3>4. Leads(judged, result)
      BY <1>5, <1>6, <3>1, <3>3, LeadsTransitive
    <3> QED BY <1>6, <3>1, <3>2, <3>4
  <2>2. CASE verdict # "PASSED"
    <3>1. result \in Checkpoint
      BY <1>6, <2>2 DEF Checkpoint
    <3>2. result.stage = failed.stage /\ result.gateRounds = failed.gateRounds
          /\ result.pausedAtGate = failed.pausedAtGate /\ result.gateVerdict = verdict
      BY <1>6, <2>2 DEF Checkpoint
    <3>3. Leads(failed, result)
      BY <1>6, <3>1, <3>2, LeadsSame
    <3>4. Leads(judged, result)
      BY <1>5, <1>6, <3>1, <3>3, LeadsTransitive
    <3> QED BY <1>6, <3>1, <3>2, <3>4
  <2> QED BY <2>1, <2>2
<1> HIDE DEF result
<1>8. Leads(disk, judged)
  BY <1>1, <1>4, <1>5, LeadsTransitive
<1>9. Leads(disk, result)
  BY <1>1, <1>5, <1>7, <1>8, LeadsTransitive
<1>10. GateCounted(disk) => result.gateRounds > 0
  <2>1. disk.gateRounds \in Nat /\ judged.gateRounds \in Nat /\ result.gateRounds \in Nat
    BY <1>1, <1>5, <1>7 DEF Checkpoint
  <2> QED BY <1>5, <1>7, <1>8, <2>1 DEF Leads, GateCounted
<1>11. exit \in Verifications
  BY DEF Verifications
<1> HIDE DEF exit
<1>12. StartedFrom(disk, result, <<"save", "file">>, exit)
  BY <1>1, <1>2, <1>7, <1>9, <1>10, <1>11, TodoTypes DEF StartedFrom, TodoShape
<1> QED BY <1>12 DEF Started

\* The way to REVIEW leads on.
LEMMA ReviewPathLeads ==
    ASSUME TypeOK, NEW sm \in Checkpoint, sm.stage = "QUALITY_GATE" => report # NoReport
    PROVE  ReviewPath(sm) \in Checkpoint /\ Leads(sm, ReviewPath(sm))
<1>1. "QUALITY_GATE" \in Stages /\ "REVIEW" \in Stages
  BY DEF Stages
<1>2. CASE sm.stage = "COMMIT"
  <2> DEFINE resumed == ResumeFromGate(sm)
             hop == Transition(resumed, "QUALITY_GATE")
  <2>1. resumed \in Checkpoint /\ Leads(sm, resumed)
    BY PausesLead
  <2> HIDE DEF resumed
  <2>2. hop \in Checkpoint /\ Leads(resumed, hop)
    BY <1>1, <2>1, TransitionLeads
  <2> HIDE DEF hop
  <2>3. Transition(hop, "REVIEW") \in Checkpoint /\ Leads(hop, Transition(hop, "REVIEW"))
    BY <1>1, <2>2, TransitionLeads
  <2>4. Leads(sm, Transition(hop, "REVIEW"))
    BY <2>1, <2>2, <2>3, LeadsTransitive
  <2>5. ReviewPath(sm) = Transition(hop, "REVIEW")
    BY <1>2 DEF ReviewPath, hop, resumed
  <2> QED BY <2>3, <2>4, <2>5
<1>3. CASE sm.stage = "QUALITY_GATE"
  <2> DEFINE judged == [sm EXCEPT !.gateVerdict = report.verdict]
  <2>1. judged \in Checkpoint
    <3>1. report.verdict \in GateVerdicts
      BY <1>3 DEF TypeOK, Reports
    <3> QED BY <3>1 DEF Checkpoint
  <2>2. Leads(sm, judged)
    <3>1. judged.stage = sm.stage /\ judged.gateRounds = sm.gateRounds
          /\ judged.pausedAtGate = sm.pausedAtGate
      BY DEF Checkpoint
    <3> QED BY <2>1, <3>1, LeadsSame
  <2>3. ReviewPath(sm) = Transition(judged, "REVIEW")
    BY <1>3 DEF ReviewPath
  <2> HIDE DEF judged
  <2>4. Transition(judged, "REVIEW") \in Checkpoint
        /\ Leads(judged, Transition(judged, "REVIEW"))
    BY <1>1, <2>1, TransitionLeads
  <2> QED BY <2>1, <2>2, <2>3, <2>4, LeadsTransitive
<1>4. CASE sm.stage \notin {"COMMIT", "QUALITY_GATE"}
  BY <1>1, <1>4, TransitionLeads, LeadsReflexive DEF ReviewPath
<1> QED BY <1>2, <1>3, <1>4

\* Review goes to the commit gate or back to implementation.
LEMMA RunReviewStarts ==
    ASSUME TypeOK, NEW approved \in BOOLEAN, RunReview(approved)
    PROVE  Started
<1> DEFINE path    == ReviewPath(disk)
           commit  == Transition(path, "COMMIT")
           retry   == Transition(path, "IMPLEMENT")
           result  == IF approved THEN PauseAtGate(commit, "COMMIT") ELSE retry
           todo    == IF disk.stage = "QUALITY_GATE" THEN <<"save", "clear">> ELSE <<"save">>
<1>1. HasCheckpoint /\ disk \in Checkpoint
  BY AtStageIsCheckpoint DEF RunReview
<1>2. Begin(result, todo, "certified")
  BY DEF RunReview
<1>3. path \in Checkpoint /\ Leads(disk, path)
  <2>1. disk.stage = "QUALITY_GATE" => report # NoReport
    BY DEF RunReview, CertifyReviewExit
  <2> QED BY <1>1, <2>1, ReviewPathLeads
<1> HIDE DEF path
<1>4. /\ commit \in Checkpoint /\ commit.stage = "COMMIT" /\ Leads(path, commit)
      /\ retry \in Checkpoint /\ Leads(path, retry)
  <2>1. "COMMIT" \in Stages /\ "IMPLEMENT" \in Stages
    BY DEF Stages
  <2> QED BY <1>3, <2>1, TransitionLeads
<1> HIDE DEF commit, retry
<1>5. PauseAtGate(commit, "COMMIT") \in Checkpoint
      /\ Leads(commit, PauseAtGate(commit, "COMMIT"))
  <2>1. "COMMIT" \in Gates
    BY DEF Gates, HUMAN_WAIT_GATES
  <2> QED BY <1>4, <2>1, PausesLead
<1>6. Leads(path, PauseAtGate(commit, "COMMIT"))
  BY <1>3, <1>4, <1>5, LeadsTransitive
<1>7. result \in Checkpoint /\ Leads(path, result)
  BY <1>4, <1>5, <1>6
<1> HIDE DEF result
<1>8. Leads(disk, result)
  BY <1>1, <1>3, <1>7, LeadsTransitive
<1>9. todo \in Seq(Effects) /\ todo \in Seq(Effects \ {"file"})
  BY TodoTypes
<1> HIDE DEF todo
<1>10. StartedFrom(disk, result, todo, "certified")
  BY <1>1, <1>2, <1>7, <1>8, <1>9, TodoTypes DEF StartedFrom, TodoShape, Verifications
<1> QED BY <1>10 DEF Started

\* Deviations, halt and resume save what they recorded.
LEMMA RecordingStarts ==
    ASSUME TypeOK,
           \/ \E d \in Deviations : FileDeviation(d) \/ AcknowledgeDeviation(d)
           \/ HaltPipeline
           \/ ResumePipeline
    PROVE  Started
<1>1. HasCheckpoint /\ disk \in Checkpoint
  BY AtStageIsCheckpoint, DiskIsCheckpoint
     DEF FileDeviation, AcknowledgeDeviation, HaltPipeline, ResumePipeline
<1>2. CASE \E d \in Deviations : FileDeviation(d)
  BY <1>1, <1>2, RecordsLead, SaveStarts DEF FileDeviation
<1>3. CASE \E d \in Deviations : AcknowledgeDeviation(d)
  BY <1>1, <1>3, RecordsLead, SaveStarts DEF AcknowledgeDeviation
<1>4. CASE HaltPipeline
  <2>1. "CIRCUIT_BREAKER" \in Gates
    BY DEF Gates
  <2>2. BeginSave(PauseAtGate(disk, "CIRCUIT_BREAKER"))
    BY <1>4 DEF HaltPipeline
  <2> QED BY <1>1, <2>1, <2>2, PausesLead, SaveStarts
<1>5. CASE ResumePipeline
  BY <1>1, <1>5, PausesLead, SaveStarts DEF ResumePipeline
<1> QED BY <1>2, <1>3, <1>4, <1>5

\* Routing to TRIAGE moves there and pauses.
LEMMA RouteStarts ==
    ASSUME TypeOK, RouteToTriage \/ NextRouteTriage
    PROVE  Started
<1> DEFINE moved == Transition(disk, "TRIAGE")
<1>1. HasCheckpoint /\ disk \in Checkpoint
  BY AtStageIsCheckpoint, DiskIsCheckpoint DEF RouteToTriage, NextRouteTriage
<1>2. BeginSave(PauseAtGate(moved, "TRIAGE"))
  BY DEF RouteToTriage, NextRouteTriage
<1>3. moved \in Checkpoint /\ moved.stage = "TRIAGE" /\ Leads(disk, moved)
  <2>1. "TRIAGE" \in Stages
    BY DEF Stages
  <2> QED BY <1>1, <2>1, TransitionLeads
<1> HIDE DEF moved
<1>4. PauseAtGate(moved, "TRIAGE") \in Checkpoint /\ Leads(moved, PauseAtGate(moved, "TRIAGE"))
  <2>1. "TRIAGE" \in Gates
    BY DEF Gates, HUMAN_WAIT_GATES
  <2> QED BY <1>3, <2>1, PausesLead
<1> QED BY <1>1, <1>2, <1>3, <1>4, LeadsTransitive, SaveStarts

\* The other writes of `next`.
LEMMA NextCommandStarts ==
    ASSUME TypeOK, NextRestart \/ NextExitTriage
    PROVE  Started
<1>1. HasCheckpoint /\ disk \in Checkpoint
  BY AtStageIsCheckpoint DEF NextRestart, NextExitTriage
<1>2. "DISCOVERY" \in Stages /\ "COMPLETED" \in Stages
  BY DEF Stages
<1>3. CASE NextRestart
  <2>1. "restart" \in Commands /\ BeginSave(Transition(Reset(disk.mode), "DISCOVERY"))
    BY <1>3 DEF NextRestart
  <2>2. disk.mode \in EXECUTION_MODES
    BY <1>1 DEF Checkpoint
  <2>3. Reset(disk.mode) \in Checkpoint /\ Fresh(Reset(disk.mode))
    BY <2>1, <2>2, FreshBase
  <2> QED BY <1>2, <2>1, <2>3, TransitionLeads, SaveStarts
<1>4. CASE NextExitTriage
  BY <1>1, <1>2, <1>4, TransitionLeads, SaveStarts DEF NextExitTriage
<1> QED BY <1>3, <1>4

\* Triage answers the pause and moves to its target.
LEMMA TriageStarts ==
    ASSUME TypeOK, NEW to \in TriageTargets, TriagePrComments(to)
    PROVE  Started
<1> DEFINE atTriage == IF disk.stage = "TRIAGE" THEN disk ELSE Transition(disk, "TRIAGE")
           resumed  == ResumeFromGate(atTriage)
           moved    == Transition(resumed, to)
           bound    == [moved EXCEPT !.worktree = TRUE]
<1>1. HasCheckpoint /\ disk \in Checkpoint
  BY DiskIsCheckpoint DEF TriagePrComments
<1>2. IF to = "IMPLEMENT" THEN Begin(bound, <<"createWorktree", "save">>, "none")
      ELSE BeginSave(moved)
  BY DEF TriagePrComments
<1>3. "TRIAGE" \in Stages /\ to \in Stages
  BY DEF Stages, TriageTargets
<1>4. atTriage \in Checkpoint /\ Leads(disk, atTriage)
  BY <1>1, <1>3, TransitionLeads, LeadsReflexive
<1> HIDE DEF atTriage
<1>5. resumed \in Checkpoint /\ Leads(atTriage, resumed)
  BY <1>4, PausesLead
<1> HIDE DEF resumed
<1>6. moved \in Checkpoint /\ Leads(resumed, moved)
  BY <1>3, <1>5, TransitionLeads
<1> HIDE DEF moved
<1>7. Leads(disk, moved)
  <2>1. Leads(disk, resumed)
    BY <1>1, <1>4, <1>5, LeadsTransitive
  <2> QED BY <1>1, <1>5, <1>6, <2>1, LeadsTransitive
<1>8. bound \in Checkpoint /\ Leads(moved, bound)
  <2>1. bound \in Checkpoint
    BY <1>6 DEF Checkpoint
  <2>2. bound.stage = moved.stage /\ bound.gateRounds = moved.gateRounds
        /\ bound.pausedAtGate = moved.pausedAtGate
    BY <1>6 DEF Checkpoint
  <2> QED BY <1>6, <2>1, <2>2, LeadsSame
<1> HIDE DEF bound
<1>9. CASE to = "IMPLEMENT"
  <2>1. Leads(disk, bound)
    BY <1>1, <1>6, <1>7, <1>8, LeadsTransitive
  <2>2. StartedFrom(disk, bound, <<"createWorktree", "save">>, "none")
    BY <1>1, <1>2, <1>8, <1>9, <2>1, TodoTypes DEF StartedFrom, TodoShape, Verifications
  <2> QED BY <2>2 DEF Started
<1>10. CASE to # "IMPLEMENT"
  BY <1>1, <1>2, <1>6, <1>7, <1>10, SaveStarts
<1> QED BY <1>9, <1>10

\* The commit gate finishes the task or sends it back.
LEMMA CommitStarts ==
    ASSUME TypeOK,
           \/ \E keepWorktree \in BOOLEAN : CommitConfirmed(keepWorktree)
           \/ \E to \in {"PLAN", "IMPLEMENT"} : CommitRejected(to)
    PROVE  Started
<1>1. HasCheckpoint /\ disk \in Checkpoint
  BY AtStageIsCheckpoint DEF CommitConfirmed, CommitRejected
<1>2. {"PLAN", "IMPLEMENT", "COMPLETED"} \subseteq Stages
  BY DEF Stages
<1>3. CASE \E to \in {"PLAN", "IMPLEMENT"} : CommitRejected(to)
  BY <1>1, <1>2, <1>3, TransitionLeads, SaveStarts DEF CommitRejected
<1>4. ASSUME NEW keepWorktree \in BOOLEAN, CommitConfirmed(keepWorktree)
      PROVE  Started
  <2> DEFINE answered == IF disk.pausedAtGate = "COMMIT" THEN ResumeFromGate(disk) ELSE disk
             done == Transition(answered, "COMPLETED")
             todo == IF disk.worktree /\ ~keepWorktree
                     THEN <<"save", "removeWorktree", "detach">> ELSE <<"save">>
  <2>1. Begin(done, todo, "none")
    BY <1>4 DEF CommitConfirmed
  <2>2. answered \in Checkpoint /\ Leads(disk, answered)
    BY <1>1, PausesLead, LeadsReflexive
  <2> HIDE DEF answered
  <2>3. done \in Checkpoint /\ Leads(answered, done)
    BY <1>2, <2>2, TransitionLeads
  <2> HIDE DEF done
  <2>4. Leads(disk, done)
    BY <1>1, <2>2, <2>3, LeadsTransitive
  <2>5. todo \in Seq(Effects) /\ todo \in Seq(Effects \ {"file"})
    BY TodoTypes
  <2> HIDE DEF todo
  <2>6. StartedFrom(disk, done, todo, "none")
    BY <1>1, <2>1, <2>3, <2>4, <2>5, TodoTypes DEF StartedFrom, TodoShape, Verifications
  <2> QED BY <2>6 DEF Started
<1> QED BY <1>3, <1>4

\* Every command starts from the checkpoint on disk or from a fresh one, and
\* what it will save leads on from there.
LEMMA CommandsStart ==
    ASSUME TypeOK, StartCommand
    PROVE  Started
<1>1. CASE \E mode \in StartModes : EnterLifecycle(mode)
  BY <1>1, EnterLifecycleStarts
<1>2. CASE RouteToTriage \/ NextRouteTriage
  BY <1>2, RouteStarts
<1>3. CASE \E mode \in StartModes, supplied, feedback \in BOOLEAN :
              StartPlanning(mode, supplied, feedback)
  BY <1>3, StartPlanningStarts
<1>4. CASE \E noWorktree, supplied \in BOOLEAN : StartImplementation(noWorktree, supplied)
  BY <1>4, StartImplementationStarts
<1>5. CASE \E to \in Stages, noWorktree \in BOOLEAN : TransitionStage(to, noWorktree)
  BY <1>5, TransitionStageStarts
<1>6. CASE \E verdict \in GateVerdicts : RunQualityGate(verdict)
  BY <1>6, RunQualityGateStarts
<1>7. CASE \E approved \in BOOLEAN : RunReview(approved)
  BY <1>7, RunReviewStarts
<1>8. CASE \/ \E d \in Deviations : FileDeviation(d)
           \/ \E d \in Deviations : AcknowledgeDeviation(d)
           \/ HaltPipeline
           \/ ResumePipeline
  BY <1>8, RecordingStarts
<1>9. CASE NextRestart \/ NextExitTriage
  BY <1>9, NextCommandStarts
<1>10. CASE \E to \in TriageTargets : TriagePrComments(to)
  BY <1>10, TriageStarts
<1>11. CASE \/ \E keepWorktree \in BOOLEAN : CommitConfirmed(keepWorktree)
            \/ \E to \in {"PLAN", "IMPLEMENT"} : CommitRejected(to)
  BY <1>11, CommitStarts
<1> QED
  BY <1>1, <1>2, <1>3, <1>4, <1>5, <1>6, <1>7, <1>8, <1>9, <1>10, <1>11 DEF StartCommand

-----------------------------------------------------------------------------
(* Types.                                                                  *)

\* The rest of a command's writes is typed, and so is the command.
LEMMA AdvanceKeepsType ==
    ASSUME TypeOK, op # Idle, op.todo # <<>>, Advance
    PROVE  op' \in Ops \union {Idle}
<1>1. op \in Ops
  BY DEF TypeOK
<1>2. op.todo \in Seq(Effects)
  BY <1>1 DEF Ops
<1>3. Tail(op.todo) \in Seq(Effects)
  BY <1>2, HeadTailProperties
<1>4. CASE Len(op.todo) = 1
  BY <1>4 DEF Advance
<1>5. CASE Len(op.todo) # 1
  BY <1>1, <1>3, <1>5 DEF Advance, Ops
<1> QED BY <1>4, <1>5

\* Reports stay reports when their visit ends.
LEMMA VisitKeepsType ==
    ASSUME NEW r \in Reports \union {NoReport}, NEW sm
    PROVE  StillThisVisit(r, sm) \in Reports \union {NoReport}
<1>1. CASE r = NoReport
  BY <1>1 DEF StillThisVisit
<1>2. CASE r # NoReport
  <2>1. (r.ofThisVisit /\ AtStage({"QUALITY_GATE"}) /\ sm.stage = "QUALITY_GATE") \in BOOLEAN
    OBVIOUS
  <2> QED BY <1>2, <2>1 DEF StillThisVisit, Reports
<1> QED BY <1>1, <1>2

\* A gate round is a number.
LEMMA RoundIsNat ==
    ASSUME NEW sm \in Checkpoint
    PROVE  ResolveGateRound(sm) \in Nat
BY DEF ResolveGateRound, Checkpoint

\* The running command's writes keep their shape; this is what makes the verdict
\* of a measured report one.
OpShape == op # Idle => TodoShape(op.todo, op.sm)

\* Each write takes the head off and leaves the shape.
LEMMA ShapeInductive ==
    ASSUME TypeOK, OpShape, [Next]_vars
    PROVE  OpShape'
<1>1. CASE StartCommand
  <2>1. PICK base, sm, todo, exit : StartedFrom(base, sm, todo, exit)
    BY <1>1, CommandsStart DEF Started
  <2>2. op' = [sm |-> sm, todo |-> todo, exit |-> exit] /\ TodoShape(todo, sm)
    BY <2>1 DEF StartedFrom, Begin
  <2>3. TodoShape(op'.todo, op'.sm)
    BY <2>2
  <2> QED BY <2>3 DEF OpShape, TodoShape
<1>2. CASE Write
  <2>1. op # Idle /\ op.todo # <<>> /\ (Advance \/ op' = Idle)
    BY <1>2 DEF Write, Save, ClearReport, FileMeasured, Scaffold, CreateWorktree,
                RemoveWorktree, DetachWorktree, Running
  <2>2. op \in Ops
    BY <2>1 DEF TypeOK
  <2>3. CASE Len(op.todo) = 1 \/ op' = Idle
    BY <2>1, <2>3 DEF Advance, OpShape
  <2>4. CASE Len(op.todo) # 1 /\ op' # Idle
    <3>1. op'.todo = Tail(op.todo) /\ op'.sm = op.sm
      BY <2>1, <2>2, <2>4 DEF Advance, Ops
    <3>2. CASE op.todo \in Seq(Effects \ {"file"})
      <4>1. Tail(op.todo) \in Seq(Effects \ {"file"})
        BY <2>1, <3>2, HeadTailProperties
      <4> QED BY <3>1, <4>1 DEF OpShape, TodoShape
    <3>3. CASE op.todo \notin Seq(Effects \ {"file"})
      <4>1. op.todo \in {<<"save", "file">>, <<"file">>}
            /\ op.sm.stage # "QUALITY_GATE" /\ op.sm.gateVerdict \in GateVerdicts
        BY <2>1, <3>3 DEF OpShape, TodoShape
      <4>2. op.todo = <<"save", "file">>
        BY <2>4, <4>1
      <4>3. Tail(op.todo) = <<"file">>
        BY <4>2
      <4> QED BY <3>1, <4>1, <4>3 DEF OpShape, TodoShape
    <3> QED BY <3>2, <3>3
  <2> QED BY <2>3, <2>4
<1>3. CASE UNCHANGED op
  BY <1>3 DEF OpShape, TodoShape
<1>4. CASE Die
  BY <1>4 DEF Die, OpShape
<1> QED
  BY <1>1, <1>2, <1>3, <1>4
     DEF Next, ResetPipeline, ReadForReport, FileReport, AbandonReport, EditPlan, vars

\* A measured report's verdict is one of a gate.
LEMMA MeasuredVerdict ==
    ASSUME TypeOK, OpShape, Running("file")
    PROVE  op.sm.gateVerdict \in GateVerdicts /\ op.sm.stage # "QUALITY_GATE"
           /\ op.todo = <<"file">>
<1>1. op # Idle /\ op.todo # <<>> /\ Head(op.todo) = "file" /\ op.todo \in Seq(Effects)
  BY DEF Running, TypeOK, Ops
<1>2. op.todo \notin Seq(Effects \ {"file"})
  <2>1. SUFFICES ASSUME op.todo \in Seq(Effects \ {"file"}) PROVE FALSE
    OBVIOUS
  <2>2. Head(op.todo) \in Effects \ {"file"}
    BY <1>1, <2>1, HeadTailProperties
  <2> QED BY <1>1, <2>2
<1>3. Head(<<"save", "file">>) = "save"
  OBVIOUS
<1> QED BY <1>1, <1>2, <1>3 DEF OpShape, TodoShape

\* Every step of a command, its environment or its end keeps the types.
LEMMA TypeInductive ==
    ASSUME TypeOK, OpShape, [Next]_vars
    PROVE  TypeOK'
<1> USE DEF TypeOK
<1>1. CASE StartCommand
  <2>1. PICK base, sm, todo, exit : StartedFrom(base, sm, todo, exit)
    BY <1>1, CommandsStart DEF Started
  <2>2. [sm |-> sm, todo |-> todo, exit |-> exit] \in Ops
    BY <2>1 DEF StartedFrom, Ops
  <2>3. op' \in Ops
    BY <2>1, <2>2 DEF StartedFrom, Begin
  <2> QED BY <2>1, <2>3 DEF StartedFrom, Begin
<1>2. CASE Save
  <2>1. op \in Ops /\ op' \in Ops \union {Idle}
    BY <1>2, AdvanceKeepsType DEF Save, Running
  <2>2. op.sm \in Checkpoint /\ op.exit \in Verifications
    BY <2>1 DEF Ops
  <2>3. report' \in Reports \union {NoReport} /\ filing' \in Reports \union {NoReport}
    BY <1>2, VisitKeepsType DEF Save
  <2>4. verified' \in Verifications \union {"waived"}
    BY <1>2, <2>2 DEF Save, VerifiedAfter, Verifications
  <2> QED BY <1>2, <2>1, <2>2, <2>3, <2>4 DEF Save
<1>3. CASE ClearReport
  <2>1. op' \in Ops \union {Idle}
    BY <1>3, AdvanceKeepsType DEF ClearReport, Running
  <2> QED BY <1>3, <2>1 DEF ClearReport
<1>4. CASE FileMeasured
  <2>1. op \in Ops /\ op' \in Ops \union {Idle}
    BY <1>4, AdvanceKeepsType DEF FileMeasured, Running
  <2>2. op.sm \in Checkpoint
    BY <2>1 DEF Ops
  <2>3. report' \in Reports \union {NoReport}
    <3>1. PICK r \in {report, [round |-> ResolveGateRound(op.sm),
                               verdict |-> op.sm.gateVerdict, ofThisVisit |-> FALSE]} :
            report' = r
      BY <1>4 DEF FileMeasured
    <3>2. op.sm.gateVerdict \in GateVerdicts
      BY <1>4, MeasuredVerdict DEF FileMeasured
    <3>3. ResolveGateRound(op.sm) \in Nat
      BY <2>2, RoundIsNat
    <3>4. [round |-> ResolveGateRound(op.sm), verdict |-> op.sm.gateVerdict,
           ofThisVisit |-> FALSE] \in Reports
      BY <3>2, <3>3 DEF Reports
    <3>5. report \in Reports \union {NoReport}
      OBVIOUS
    <3>6. CASE r = report
      BY <3>1, <3>5, <3>6
    <3>7. CASE r # report
      BY <3>1, <3>4, <3>7
    <3> QED BY <3>6, <3>7
  <2> QED BY <1>4, <2>1, <2>3 DEF FileMeasured
<1>5. CASE Scaffold \/ DetachWorktree
  <2>1. op \in Ops /\ op' \in Ops \union {Idle}
    BY <1>5, AdvanceKeepsType DEF Scaffold, DetachWorktree, Running
  <2>2. op.sm \in Checkpoint
    BY <2>1 DEF Ops
  <2>3. disk' \in Checkpoint
    BY <1>5, <2>2 DEF Scaffold, DetachWorktree, Checkpoint
  <2> QED BY <1>5, <2>1, <2>3 DEF Scaffold, DetachWorktree
<1>6. CASE CreateWorktree \/ RemoveWorktree
  <2>1. op' \in Ops \union {Idle}
    BY <1>6, AdvanceKeepsType DEF CreateWorktree, RemoveWorktree, Running
  <2> QED BY <1>6, <2>1 DEF CreateWorktree, RemoveWorktree
<1>7. CASE Die
  BY <1>7 DEF Die
<1>8. CASE \E all \in BOOLEAN : ResetPipeline(all)
  BY <1>8 DEF ResetPipeline, Reports, Verifications
<1>9. CASE \E verdict \in GateVerdicts : ReadForReport(verdict)
  <2>1. PICK verdict \in GateVerdicts : ReadForReport(verdict)
    BY <1>9
  <2>2. disk \in Checkpoint
    BY <2>1, AtStageIsCheckpoint DEF ReadForReport
  <2>3. filing' \in Reports
    BY <2>1, <2>2, RoundIsNat DEF ReadForReport, Reports
  <2> QED BY <2>1, <2>3 DEF ReadForReport
<1>10. CASE FileReport \/ AbandonReport
  BY <1>10 DEF FileReport, AbandonReport
<1>11. CASE EditPlan
  BY <1>11 DEF EditPlan
<1>12. CASE UNCHANGED vars
  BY <1>12 DEF vars
<1> QED
  BY <1>1, <1>2, <1>3, <1>4, <1>5, <1>6, <1>7, <1>8, <1>9, <1>10, <1>11, <1>12
     DEF Next, Write

\* Every reachable state is typed: no interleaving of commands, crashes and
\* late reports saves a checkpoint or files a report of an unknown shape.
THEOREM TypeCorrect == Spec => []TypeOK
<1>1. Init => TypeOK /\ OpShape
  BY DEF Init, TypeOK, OpShape, Verifications
<1>2. TypeOK /\ OpShape /\ [Next]_vars => TypeOK' /\ OpShape'
  BY TypeInductive, ShapeInductive
<1> QED BY <1>1, <1>2, PTL DEF Spec

-----------------------------------------------------------------------------
(* What a write can do.                                                    *)

\* A write is one of a running command; it leaves the checkpoint alone or puts
\* on disk the one the command holds, up to a descriptor.
LEMMA WriteKeepsCheckpoint ==
    ASSUME TypeOK, Write
    PROVE  /\ op \in Ops /\ op.sm \in Checkpoint /\ op.todo # <<>>
           /\ op' = Idle \/ op' = [op EXCEPT !.todo = Tail(@)]
           /\ \/ disk' = disk
              \/ /\ disk' \in Checkpoint /\ disk'.stage = op.sm.stage
                 /\ disk'.gateRounds = op.sm.gateRounds
                 /\ disk'.pausedAtGate = op.sm.pausedAtGate
<1>1. op # Idle /\ op.todo # <<>> /\ (Advance \/ op' = Idle)
  BY DEF Write, Save, ClearReport, FileMeasured, Scaffold, CreateWorktree,
         RemoveWorktree, DetachWorktree, Running
<1>2. op \in Ops /\ op.sm \in Checkpoint
  BY <1>1 DEF TypeOK, Ops
<1>3. op' = Idle \/ op' = [op EXCEPT !.todo = Tail(@)]
  BY <1>1 DEF Advance
<1>4. CASE Save
  BY <1>1, <1>2, <1>3, <1>4 DEF Save
<1>5. CASE Scaffold
  <2>1. disk' = [op.sm EXCEPT !.planDir = TRUE]
    BY <1>5 DEF Scaffold
  <2> QED BY <1>1, <1>2, <1>3, <2>1 DEF Checkpoint
<1>6. CASE DetachWorktree
  <2>1. disk' = [op.sm EXCEPT !.worktree = FALSE]
    BY <1>6 DEF DetachWorktree
  <2> QED BY <1>1, <1>2, <1>3, <2>1 DEF Checkpoint
<1>7. CASE ClearReport \/ FileMeasured \/ CreateWorktree \/ RemoveWorktree
  BY <1>1, <1>2, <1>3, <1>7 DEF ClearReport, FileMeasured, CreateWorktree, RemoveWorktree
<1> QED BY <1>4, <1>5, <1>6, <1>7 DEF Write

-----------------------------------------------------------------------------
(* A finished task waits for nobody.                                       *)

\* The checkpoint on disk and the one a command holds both keep the promise.
NobodyWaits ==
    /\ HasCheckpoint => Unwaiting(disk)
    /\ op # Idle => Unwaiting(op.sm)

\* No command makes a finished task wait and no write invents a checkpoint.
LEMMA NobodyWaitsInductive ==
    ASSUME TypeOK, NobodyWaits, [Next]_vars
    PROVE  NobodyWaits'
<1>1. CASE StartCommand
  <2>1. PICK base, sm, todo, exit : StartedFrom(base, sm, todo, exit)
    BY <1>1, CommandsStart DEF Started
  <2>2. op'.sm = sm /\ disk' = disk
    BY <2>1 DEF StartedFrom, Begin
  <2>3. Unwaiting(base)
    BY <2>1 DEF StartedFrom, Fresh, NobodyWaits, Unwaiting
  <2>4. Unwaiting(sm)
    BY <2>1, <2>3 DEF StartedFrom, Leads
  <2> QED BY <2>2, <2>4 DEF NobodyWaits, HasCheckpoint, Unwaiting
<1>2. CASE Write
  <2>1. op \in Ops /\ (op' = Idle \/ op'.sm = op.sm)
    BY <1>2, WriteKeepsCheckpoint DEF Ops
  <2>2. op # Idle
    BY <1>2 DEF Write, Save, ClearReport, FileMeasured, Scaffold, CreateWorktree,
                RemoveWorktree, DetachWorktree, Running
  <2>3. disk' = disk \/ (disk'.stage = op.sm.stage /\ disk'.pausedAtGate = op.sm.pausedAtGate)
    BY <1>2, WriteKeepsCheckpoint
  <2> QED BY <2>1, <2>2, <2>3 DEF NobodyWaits, HasCheckpoint, Unwaiting
<1>3. CASE UNCHANGED <<disk, op>>
  BY <1>3 DEF NobodyWaits, HasCheckpoint, Unwaiting
<1>4. CASE Die
  BY <1>4 DEF Die, NobodyWaits, HasCheckpoint, Unwaiting
<1>5. CASE \E all \in BOOLEAN : ResetPipeline(all)
  BY <1>5 DEF ResetPipeline, NobodyWaits, HasCheckpoint, Unwaiting
<1> QED
  BY <1>1, <1>2, <1>3, <1>4, <1>5
     DEF Next, ReadForReport, FileReport, AbandonReport, EditPlan, vars

\* Whatever path reached COMPLETED, in whatever order commands ran, died and
\* were resumed or reset, no human gate is left pending on the finished task.
THEOREM FinishedTaskWaitsForNobody == Spec => []FinishedWaitsForNobody
<1>1. Init => TypeOK /\ OpShape /\ NobodyWaits
  BY DEF Init, TypeOK, OpShape, Verifications, NobodyWaits, HasCheckpoint
<1>2. TypeOK /\ OpShape /\ NobodyWaits /\ [Next]_vars
        => TypeOK' /\ OpShape' /\ NobodyWaits'
  BY TypeInductive, ShapeInductive, NobodyWaitsInductive
<1>3. NobodyWaits => FinishedWaitsForNobody
  BY DEF NobodyWaits, FinishedWaitsForNobody, AtStage, Unwaiting
<1> QED BY <1>1, <1>2, <1>3, PTL DEF Spec

-----------------------------------------------------------------------------
(* The evidence an exit of the gate accepts is of this visit.              *)

\* A report is never of a round still to come, and at the gate one that is not
\* of this visit is of an earlier round.
DatedBy(r, sm) ==
    /\ r.round <= sm.gateRounds
    /\ sm.stage = "QUALITY_GATE" /\ ~r.ofThisVisit => r.round < sm.gateRounds

Dated(r) == r # NoReport => HasCheckpoint /\ DatedBy(r, disk)

\* What keeps rounds dating: a running command never takes the history back, and
\* the report it files itself is of the round it saved.
RoundsDate ==
    /\ Dated(report) /\ Dated(filing)
    /\ HasCheckpoint => GateCounted(disk)
    /\ op # Idle => GateCounted(op.sm)
    /\ op # Idle /\ HasCheckpoint => Leads(disk, op.sm)
    /\ op # Idle /\ op.todo \in {<<"save", "file">>, <<"file">>} => op.sm.gateRounds > 0
    /\ op # Idle /\ op.todo = <<"file">> => disk = op.sm

\* Leading on keeps the gate's entries counted.
LEMMA LeadsCounts ==
    ASSUME NEW a \in Checkpoint, NEW b \in Checkpoint, Leads(a, b), GateCounted(a)
    PROVE  GateCounted(b)
<1>1. a.gateRounds \in Nat /\ b.gateRounds \in Nat
  BY DEF Checkpoint
<1> QED BY <1>1 DEF Leads, GateCounted

\* A checkpoint that leads on from the one that dates a report dates it as well:
\* once the gate is entered again, what was filed before is of an earlier round.
LEMMA LeadingKeepsDates ==
    ASSUME NEW a \in Checkpoint, NEW b \in Checkpoint, Leads(a, b),
           NEW r \in Reports, NEW kept \in Reports, DatedBy(r, a), kept.round = r.round,
           b.stage = "QUALITY_GATE" /\ ~kept.ofThisVisit
             => ~r.ofThisVisit \/ a.stage # "QUALITY_GATE"
    PROVE  DatedBy(kept, b)
<1>1. a.gateRounds \in Nat /\ b.gateRounds \in Nat /\ r.round \in Nat
  BY DEF Checkpoint, Reports
<1>2. kept.round <= b.gateRounds
  BY <1>1 DEF Leads, DatedBy
<1>3. ASSUME b.stage = "QUALITY_GATE", ~kept.ofThisVisit
      PROVE  kept.round < b.gateRounds
  <2>1. CASE a.stage # "QUALITY_GATE"
    BY <1>1, <1>3, <2>1 DEF Leads, DatedBy
  <2>2. CASE a.stage = "QUALITY_GATE"
    BY <1>1, <1>3, <2>2 DEF Leads, DatedBy
  <2> QED BY <2>1, <2>2
<1> QED BY <1>2, <1>3 DEF DatedBy

\* The save of a checkpoint that leads on dates the report it leaves in place.
LEMMA SaveKeepsDates ==
    ASSUME TypeOK, RoundsDate, Save, NEW r \in {report, filing}
    PROVE  StillThisVisit(r, op.sm) # NoReport => DatedBy(StillThisVisit(r, op.sm), op.sm)
<1>1. op # Idle /\ op.sm \in Checkpoint
  BY DEF Save, Running, TypeOK, Ops
<1> SUFFICES ASSUME StillThisVisit(r, op.sm) # NoReport
             PROVE  DatedBy(StillThisVisit(r, op.sm), op.sm)
  OBVIOUS
<1>2. r # NoReport
  BY DEF StillThisVisit
<1>3. r \in Reports /\ Dated(r)
  BY <1>2 DEF TypeOK, RoundsDate
<1>4. HasCheckpoint /\ DatedBy(r, disk)
  BY <1>2, <1>3 DEF Dated
<1>5. disk \in Checkpoint /\ Leads(disk, op.sm)
  BY <1>1, <1>4, DiskIsCheckpoint DEF RoundsDate
<1> DEFINE kept == StillThisVisit(r, op.sm)
<1>6. kept = [r EXCEPT !.ofThisVisit = @ /\ AtStage({"QUALITY_GATE"})
                                         /\ op.sm.stage = "QUALITY_GATE"]
  BY <1>2 DEF StillThisVisit
<1>7. /\ kept \in Reports /\ kept.round = r.round
      /\ kept.ofThisVisit = (r.ofThisVisit /\ AtStage({"QUALITY_GATE"})
                                           /\ op.sm.stage = "QUALITY_GATE")
  BY <1>3, <1>6 DEF Reports
<1> HIDE DEF kept
<1>8. op.sm.stage = "QUALITY_GATE" /\ ~kept.ofThisVisit
        => ~r.ofThisVisit \/ disk.stage # "QUALITY_GATE"
  BY <1>4, <1>7 DEF AtStage
<1>9. DatedBy(kept, op.sm)
  BY <1>1, <1>3, <1>4, <1>5, <1>7, <1>8, LeadingKeepsDates
<1> QED BY <1>9 DEF kept

\* A command's start keeps the dates and promises that its save will.
LEMMA StartKeepsRounds ==
    ASSUME TypeOK, RoundsDate, "restart" \notin Commands, StartCommand
    PROVE  RoundsDate'
<1>1. PICK base, sm, todo, exit : StartedFrom(base, sm, todo, exit)
  BY CommandsStart DEF Started
<1>2. /\ op' = [sm |-> sm, todo |-> todo, exit |-> exit]
      /\ UNCHANGED <<disk, report, filing>>
  BY <1>1 DEF StartedFrom, Begin
<1>3. (HasCheckpoint /\ base = disk) \/ (Fresh(base) /\ ~HasCheckpoint)
  BY <1>1 DEF StartedFrom, Fresh
<1>4. GateCounted(base)
  BY <1>3 DEF Fresh, GateCounted, RoundsDate
<1>5. GateCounted(sm) /\ (HasCheckpoint => Leads(disk, sm))
  BY <1>1, <1>3, <1>4, LeadsCounts DEF StartedFrom
<1>6. todo # <<"file">> /\ (todo = <<"save", "file">> => sm.gateRounds > 0)
  BY <1>1, <1>4 DEF StartedFrom
<1>7. op'.sm = sm /\ op'.todo = todo
  BY <1>2
<1>8. Dated(report)' /\ Dated(filing)' /\ (HasCheckpoint => GateCounted(disk))'
  BY <1>2 DEF RoundsDate, Dated, DatedBy, HasCheckpoint, GateCounted
<1>9. GateCounted(op.sm)' /\ (HasCheckpoint => Leads(disk, op.sm))'
  BY <1>2, <1>5, <1>7 DEF GateCounted, HasCheckpoint, Leads, Unwaiting
<1> QED BY <1>6, <1>7, <1>8, <1>9 DEF RoundsDate

\* Every write keeps what the rest of its command relies on.
LEMMA WriteKeepsOp ==
    ASSUME TypeOK, OpShape, RoundsDate, Write
    PROVE  /\ (HasCheckpoint => GateCounted(disk))'
           /\ (op # Idle => GateCounted(op.sm))'
           /\ (op # Idle /\ HasCheckpoint => Leads(disk, op.sm))'
           /\ (op # Idle /\ op.todo \in {<<"save", "file">>, <<"file">>}
                 => op.sm.gateRounds > 0)'
           /\ (op # Idle /\ op.todo = <<"file">> => disk = op.sm)'
<1>1. op # Idle /\ op \in Ops /\ op.sm \in Checkpoint /\ op.todo \in Seq(Effects)
  BY WriteKeepsCheckpoint DEF Write, Save, ClearReport, FileMeasured, Scaffold, CreateWorktree,
                              RemoveWorktree, DetachWorktree, Running, Ops
<1>2. op' = Idle \/ (op'.sm = op.sm /\ op'.todo = Tail(op.todo) /\ op.todo # <<>>)
  BY <1>1, WriteKeepsCheckpoint DEF Ops
<1>3. disk' = disk \/ (/\ disk' \in Checkpoint /\ disk'.stage = op.sm.stage
                       /\ disk'.gateRounds = op.sm.gateRounds
                       /\ disk'.pausedAtGate = op.sm.pausedAtGate)
  BY WriteKeepsCheckpoint
<1>4. GateCounted(op.sm) /\ (HasCheckpoint => GateCounted(disk) /\ Leads(disk, op.sm))
  BY <1>1 DEF RoundsDate
<1>5. (HasCheckpoint => GateCounted(disk))'
  BY <1>3, <1>4 DEF HasCheckpoint, GateCounted
<1>6. (op # Idle => GateCounted(op.sm))'
  BY <1>2, <1>4 DEF GateCounted
<1>7. (op # Idle /\ HasCheckpoint => Leads(disk, op.sm))'
  <2>1. CASE disk' = disk
    BY <1>2, <1>4, <2>1 DEF HasCheckpoint, Leads, Unwaiting
  <2>2. CASE disk' # disk
    <3>1. Leads(disk', op.sm)
      BY <1>1, <1>3, <2>2, LeadsSame
    <3> QED BY <1>2, <3>1 DEF Leads, Unwaiting
  <2> QED BY <2>1, <2>2
<1>8. ASSUME op' # Idle, op'.todo \in {<<"save", "file">>, <<"file">>}
      PROVE  op.todo = <<"save", "file">> /\ op'.todo = <<"file">>
  <2>1. op'.todo = Tail(op.todo)
    BY <1>2, <1>8
  <2>2. CASE op.todo \in Seq(Effects \ {"file"})
    <3>1. Tail(op.todo) \in Seq(Effects \ {"file"})
      BY <1>1, <1>2, <1>8, <2>2, HeadTailProperties
    <3> QED BY <1>8, <2>1, <3>1, TodoTypes
  <2>3. CASE op.todo \in {<<"save", "file">>, <<"file">>}
    <3>1. Tail(<<"file">>) = <<>> /\ Tail(<<"save", "file">>) = <<"file">>
      OBVIOUS
    <3>2. <<>> \notin {<<"save", "file">>, <<"file">>}
      OBVIOUS
    <3> QED BY <1>8, <2>1, <2>3, <3>1, <3>2
  <2> QED BY <1>1, <2>2, <2>3 DEF OpShape, TodoShape
<1>9. (op # Idle /\ op.todo \in {<<"save", "file">>, <<"file">>} => op.sm.gateRounds > 0)'
  BY <1>1, <1>2, <1>8 DEF RoundsDate
<1>10. (op # Idle /\ op.todo = <<"file">> => disk = op.sm)'
  <2> SUFFICES ASSUME op' # Idle, op'.todo = <<"file">> PROVE disk' = op'.sm
    OBVIOUS
  <2>1. op.todo = <<"save", "file">>
    BY <1>8
  <2>2. Head(op.todo) = "save"
    BY <2>1
  <2>3. Save
    BY <2>2 DEF Write, ClearReport, FileMeasured, Scaffold, CreateWorktree,
                RemoveWorktree, DetachWorktree, Running
  <2> QED BY <1>2, <2>3 DEF Save
<1> QED BY <1>5, <1>6, <1>7, <1>9, <1>10

\* Every write keeps the reports dated by the checkpoint it leaves on disk.
LEMMA WriteKeepsDates ==
    ASSUME TypeOK, OpShape, RoundsDate, Write
    PROVE  Dated(report)' /\ Dated(filing)'
<1>1. op # Idle /\ op.sm \in Checkpoint
  BY WriteKeepsCheckpoint DEF Write, Save, ClearReport, FileMeasured, Scaffold, CreateWorktree,
                              RemoveWorktree, DetachWorktree, Running
<1>2. op.sm # NoCheckpoint
  BY <1>1, ConstantsAssumption
<1>3. Dated(report) /\ Dated(filing)
  BY DEF RoundsDate
<1>4. CASE Save
  <2>1. disk' = op.sm /\ report' = StillThisVisit(report, op.sm)
        /\ filing' = StillThisVisit(filing, op.sm)
    BY <1>4 DEF Save
  <2>2. report' # NoReport => DatedBy(report', op.sm)
    BY <1>4, <2>1, SaveKeepsDates
  <2>3. filing' # NoReport => DatedBy(filing', op.sm)
    BY <1>4, <2>1, SaveKeepsDates
  <2> QED BY <1>2, <2>1, <2>2, <2>3 DEF Dated, DatedBy, HasCheckpoint
<1>5. CASE Scaffold \/ DetachWorktree
  <2>1. disk' \in Checkpoint /\ disk'.stage = op.sm.stage
        /\ disk'.gateRounds = op.sm.gateRounds /\ disk'.pausedAtGate = op.sm.pausedAtGate
    BY <1>1, <1>5 DEF Scaffold, DetachWorktree, Checkpoint
  <2>2. HasCheckpoint' /\ UNCHANGED <<report, filing>>
    BY <1>5, <2>1, ConstantsAssumption DEF Scaffold, DetachWorktree, HasCheckpoint
  <2>3. ASSUME NEW r \in {report, filing}, r # NoReport
        PROVE  DatedBy(r, disk')
    <3>1. r \in Reports /\ HasCheckpoint /\ DatedBy(r, disk)
      BY <1>3, <2>3 DEF TypeOK, Dated
    <3>2. disk \in Checkpoint /\ Leads(disk, op.sm) /\ Leads(op.sm, disk')
      BY <1>1, <2>1, <3>1, DiskIsCheckpoint, LeadsSame DEF RoundsDate
    <3>3. Leads(disk, disk')
      BY <1>1, <2>1, <3>2, LeadsTransitive
    <3> QED BY <2>1, <3>1, <3>2, <3>3, LeadingKeepsDates
  <2> QED BY <2>2, <2>3 DEF Dated, DatedBy
<1>6. CASE FileMeasured
  <2>1. op.sm.stage # "QUALITY_GATE" /\ op.todo = <<"file">>
    BY <1>6, MeasuredVerdict DEF FileMeasured
  <2>2. disk = op.sm /\ op.sm.gateRounds > 0 /\ op.sm.gateRounds \in Nat
    BY <1>1, <2>1 DEF RoundsDate, Checkpoint
  <2>3. ResolveGateRound(op.sm) = op.sm.gateRounds
    BY <2>2 DEF ResolveGateRound
  <2> DEFINE measured == [round |-> ResolveGateRound(op.sm), verdict |-> op.sm.gateVerdict,
                          ofThisVisit |-> FALSE]
  <2>4. measured.round = op.sm.gateRounds
    BY <2>3
  <2>5. report' \in {report, measured} /\ disk' = disk /\ filing' = filing
    BY <1>6 DEF FileMeasured
  <2> HIDE DEF measured
  <2>6. HasCheckpoint /\ DatedBy(measured, disk)
    BY <1>2, <2>1, <2>2, <2>4 DEF HasCheckpoint, DatedBy
  <2> QED BY <1>3, <2>5, <2>6 DEF Dated, DatedBy, HasCheckpoint
<1>7. CASE ClearReport \/ CreateWorktree \/ RemoveWorktree
  <2>1. report' \in {report, NoReport} /\ UNCHANGED <<disk, filing>>
    BY <1>7 DEF ClearReport, CreateWorktree, RemoveWorktree
  <2> QED BY <1>3, <2>1 DEF Dated, DatedBy, HasCheckpoint
<1> QED BY <1>4, <1>5, <1>6, <1>7 DEF Write

\* Rounds keep dating the evidence as long as no command starts a history over.
LEMMA RoundsDateInductive ==
    ASSUME TypeOK, OpShape, RoundsDate, "restart" \notin Commands, [Next]_vars
    PROVE  RoundsDate'
<1>1. CASE StartCommand
  BY <1>1, StartKeepsRounds
<1>2. CASE Write
  BY <1>2, WriteKeepsDates, WriteKeepsOp DEF RoundsDate
<1>3. CASE \E verdict \in GateVerdicts : ReadForReport(verdict)
  <2>1. PICK verdict \in GateVerdicts : ReadForReport(verdict)
    BY <1>3
  <2>2. /\ HasCheckpoint /\ disk.stage = "QUALITY_GATE"
        /\ UNCHANGED <<disk, report, op>>
    BY <2>1 DEF ReadForReport, AtStage
  <2>3. disk.gateRounds > 0 /\ disk.gateRounds \in Nat
    BY <2>2, DiskIsCheckpoint DEF RoundsDate, GateCounted, Checkpoint
  <2>4. filing'.round = disk.gateRounds /\ filing'.ofThisVisit = TRUE
    BY <2>1, <2>3 DEF ReadForReport, ResolveGateRound
  <2>5. Dated(filing)'
    BY <2>2, <2>3, <2>4 DEF Dated, DatedBy, HasCheckpoint
  <2> QED BY <2>2, <2>5
          DEF RoundsDate, Dated, DatedBy, HasCheckpoint, GateCounted, Leads, Unwaiting
<1>4. CASE FileReport \/ AbandonReport
  <2>1. /\ UNCHANGED <<disk, op>>
        /\ report' \in {report, filing} /\ filing' = NoReport
    BY <1>4 DEF FileReport, AbandonReport
  <2> QED BY <2>1
          DEF RoundsDate, Dated, DatedBy, HasCheckpoint, GateCounted, Leads, Unwaiting
<1>5. CASE Die
  BY <1>5 DEF Die, RoundsDate, Dated, DatedBy, HasCheckpoint, GateCounted
<1>6. CASE EditPlan \/ UNCHANGED vars
  <2>1. UNCHANGED <<disk, report, filing, op>>
    BY <1>6 DEF EditPlan, vars
  <2> QED BY <2>1
          DEF RoundsDate, Dated, DatedBy, HasCheckpoint, GateCounted, Leads, Unwaiting
<1>7. CASE \E all \in BOOLEAN : ResetPipeline(all)
  BY <1>7 DEF ResetPipeline
<1> QED BY <1>1, <1>2, <1>3, <1>4, <1>5, <1>6, <1>7 DEF Next

\* Dated evidence of the present round is of the present visit.
LEMMA DatedEvidence ==
    ASSUME TypeOK, RoundsDate
    PROVE  EvidenceIsOfThisVisit
<1> SUFFICES ASSUME AtStage({"QUALITY_GATE"}), report # NoReport,
                    report.round = ResolveGateRound(disk)
             PROVE  report.ofThisVisit
  BY DEF EvidenceIsOfThisVisit
<1>1. disk \in Checkpoint /\ disk.stage = "QUALITY_GATE" /\ disk.gateRounds > 0
  BY AtStageIsCheckpoint DEF AtStage, RoundsDate, GateCounted
<1>2. report.round = disk.gateRounds /\ disk.gateRounds \in Nat
  BY <1>1 DEF ResolveGateRound, Checkpoint
<1>3. ~report.ofThisVisit => report.round < disk.gateRounds
  BY <1>1 DEF RoundsDate, Dated, DatedBy
<1> QED BY <1>2, <1>3

\* Whatever dies, is late or is left behind, a report the exit of QUALITY_GATE
\* would accept by its round number was read in the present visit of the gate,
\* unless a reset, a restart or a re-planning rewinds the rounds.
THEOREM EvidenceIsAlwaysOfThisVisit ==
    ASSUME "restart" \notin Commands
    PROVE  Spec => []EvidenceIsOfThisVisit
<1>1. Init => TypeOK /\ OpShape /\ RoundsDate
  BY DEF Init, TypeOK, OpShape, Verifications, RoundsDate, Dated, HasCheckpoint
<1>2. TypeOK /\ OpShape /\ RoundsDate /\ [Next]_vars
        => TypeOK' /\ OpShape' /\ RoundsDate'
  BY TypeInductive, ShapeInductive, RoundsDateInductive
<1>3. TypeOK /\ RoundsDate => EvidenceIsOfThisVisit
  BY DatedEvidence
<1> QED BY <1>1, <1>2, <1>3, PTL DEF Spec

-----------------------------------------------------------------------------

-----------------------------------------------------------------------------
(* What a command in the loop preserves of the plan it works on.           *)

Preserves(a, b) ==
    /\ a.approvedPlanDigest # NoPlan => b.approvedPlanDigest = a.approvedPlanDigest
    /\ a.planDeviations \subseteq b.planDeviations
    /\ a.acknowledged \subseteq b.acknowledged

\* Preserves composes along the calls of a command.
LEMMA PreservesTransitive ==
    ASSUME NEW a, NEW b, NEW c, Preserves(a, b), Preserves(b, c)
    PROVE  Preserves(a, c)
BY DEF Preserves

\* Fields other than the plan's may change.
LEMMA PreservesSame ==
    ASSUME NEW a, NEW b,
           b.approvedPlanDigest = a.approvedPlanDigest,
           b.planDeviations = a.planDeviations, b.acknowledged = a.acknowledged
    PROVE  Preserves(a, b)
BY DEF Preserves

\* A transition that ends no round of deviations preserves the plan's record; one
\* within the loop ends none.
LEMMA TransitionPreserves ==
    ASSUME NEW sm \in Checkpoint, NEW to \in Stages, ~EndsDeviationRound(sm.stage, to)
    PROVE  Preserves(sm, Transition(sm, to))
<1>1. /\ Transition(sm, to).approvedPlanDigest = sm.approvedPlanDigest
      /\ Transition(sm, to).planDeviations = sm.planDeviations
      /\ Transition(sm, to).acknowledged = sm.acknowledged
  BY DEF Transition, Checkpoint
<1> QED BY <1>1, PreservesSame

\* No stage of the loop starts a fresh plan.
LEMMA LoopEndsNoRound ==
    ASSUME NEW from \in LoopStages, NEW to \in LoopStages
    PROVE  ~EndsDeviationRound(from, to)
BY DEF LoopStages, EndsDeviationRound, FreshApprovalStages

\* The methods that keep the stage preserve the plan's record; recording a plan
\* does where there is none.
LEMMA MethodsPreserve ==
    ASSUME NEW sm \in Checkpoint
    PROVE  /\ \A g \in Gates : Preserves(sm, PauseAtGate(sm, g))
           /\ Preserves(sm, ResumeFromGate(sm))
           /\ \A mode \in EXECUTION_MODES : Preserves(sm, SetMode(sm, mode))
           /\ \A d \in Deviations : Preserves(sm, RecordPlanDeviation(sm, d))
                                     /\ RecordPlanDeviation(sm, d).stage = sm.stage
           /\ \A d \in Deviations : Preserves(sm, AcknowledgePlanDeviation(sm, d))
                                     /\ AcknowledgePlanDeviation(sm, d).stage = sm.stage
           /\ sm.approvedPlanDigest = NoPlan
                => \A bytes \in PlanVersions : Preserves(sm, RecordApprovedPlan(sm, bytes))
<1>1. \A g \in Gates : Preserves(sm, PauseAtGate(sm, g))
  BY DEF PauseAtGate, Checkpoint, Preserves
<1>2. Preserves(sm, ResumeFromGate(sm))
  BY DEF ResumeFromGate, Checkpoint, Preserves
<1>3. \A mode \in EXECUTION_MODES : Preserves(sm, SetMode(sm, mode))
  BY DEF SetMode, Checkpoint, Preserves
<1>4. \A d \in Deviations : Preserves(sm, RecordPlanDeviation(sm, d))
                              /\ RecordPlanDeviation(sm, d).stage = sm.stage
  BY DEF RecordPlanDeviation, Checkpoint, Preserves
<1>5. \A d \in Deviations : Preserves(sm, AcknowledgePlanDeviation(sm, d))
                              /\ AcknowledgePlanDeviation(sm, d).stage = sm.stage
  BY DEF AcknowledgePlanDeviation, Checkpoint, Preserves
<1>6. sm.approvedPlanDigest = NoPlan
        => \A bytes \in PlanVersions : Preserves(sm, RecordApprovedPlan(sm, bytes))
  BY DEF RecordApprovedPlan, Checkpoint, Preserves
<1> QED BY <1>1, <1>2, <1>3, <1>4, <1>5, <1>6

-----------------------------------------------------------------------------
(* A running command.                                                      *)

Past == {"REVIEW", "COMMIT", "COMPLETED"}

AtGate == AtStage({"QUALITY_GATE"})

\* The writes of a command that has not saved yet.  Evidence is discarded before
\* a save that enters the gate; whatever follows a save follows one away from it.
Opening(todo, sm) ==
    \/ todo \in {<<"save">>, <<"createWorktree", "save">>}
    \/ todo = <<"clear", "save">> /\ ~AtGate
    \/ /\ todo \in {<<"save", "clear">>, <<"createWorktree", "save", "clear">>,
                    <<"save", "file">>, <<"save", "removeWorktree", "detach">>,
                    <<"save", "scaffold">>}
       /\ sm.stage # "QUALITY_GATE"

\* The writes of a command after its save.
Written(todo, sm) ==
    /\ todo \in {<<"clear">>, <<"file">>, <<"removeWorktree", "detach">>, <<"detach">>,
                 <<"scaffold">>}
    /\ sm.stage # "QUALITY_GATE"
    /\ disk = sm

\* A command may save a checkpoint past the gate: it measured, it certifies, the
\* work was past the gate already, or the task is closed from elsewhere.
Warrants(sm, exit) ==
    /\ exit = "measured" => sm.stage # "QUALITY_GATE"
    /\ sm.stage \in Past =>
         \/ sm.stage = "COMPLETED" /\ ~AtStage({"COMMIT", "COMPLETED"})
         \/ exit = "measured"
         \/ AtGate /\ exit # "none"
         \/ AtStage(Past)

\* In the loop a command saves what it found of the plan's record.
Keeps(sm) == InLoop /\ sm.stage \in LoopStages => Preserves(disk, sm)

Pending(o) == Opening(o.todo, o.sm) /\ Warrants(o.sm, o.exit) /\ Keeps(o.sm)

OpSound == op # Idle => Written(op.todo, op.sm) \/ Pending(op)

\* A certifying command has found a report of this round.
Accepted(sm, exit) ==
    exit = "certified" /\ AtGate
      => /\ sm.stage # "QUALITY_GATE"
         /\ report # NoReport /\ report.round = ResolveGateRound(disk)

BegunWith(sm, todo, exit) ==
    /\ Begin(sm, todo, exit)
    /\ Opening(todo, sm) /\ Warrants(sm, exit) /\ Keeps(sm) /\ Accepted(sm, exit)

Begun == \E sm, todo, exit : BegunWith(sm, todo, exit)

\* A command that only saves, away from what is past the gate.
LEMMA SaveBegins ==
    ASSUME NEW sm, BeginSave(sm), Warrants(sm, "none"), Keeps(sm)
    PROVE  Begun
<1>1. BegunWith(sm, <<"save">>, "none")
  BY DEF BegunWith, BeginSave, Opening, Accepted
<1> QED BY <1>1 DEF Begun

\* A save that keeps the stage and the plan's record is warranted.
LEMMA SameStageBegins ==
    ASSUME HasCheckpoint, NEW sm, BeginSave(sm), sm.stage = disk.stage, Preserves(disk, sm)
    PROVE  Begun
<1>1. Warrants(sm, "none") /\ Keeps(sm)
  BY DEF Warrants, Keeps, AtStage
<1> QED BY <1>1, SaveBegins

\* A save out of the loop that does not go past the gate needs no warrant.
LEMMA OutOfLoopBegins ==
    ASSUME NEW sm, BeginSave(sm), sm.stage \in {"INITIALIZED", "DISCOVERY", "PLAN", "APPROVAL"}
    PROVE  Begun
<1>1. Warrants(sm, "none") /\ Keeps(sm)
  BY DEF Warrants, Keeps, Past, LoopStages
<1> QED BY <1>1, SaveBegins

\* Entering a lifecycle run creates, starts over or re-labels.
LEMMA EnterLifecycleBegins ==
    ASSUME TypeOK, NEW mode \in StartModes, EnterLifecycle(mode)
    PROVE  Begun
<1>1. mode \in EXECUTION_MODES
  BY ConstantsAssumption
<1>2. CreateInitial(mode).stage = "INITIALIZED" /\ Reset(mode).stage = "INITIALIZED"
  BY DEF CreateInitial, Reset
<1>3. CASE BeginSave(CreateInitial(mode)) \/ BeginSave(Reset(mode))
  BY <1>2, <1>3, OutOfLoopBegins
<1>4. CASE HasCheckpoint /\ BeginSave(SetMode(disk, mode))
  BY <1>1, <1>4, DiskIsCheckpoint, RecordsLead, MethodsPreserve, SameStageBegins
<1> QED BY <1>3, <1>4 DEF EnterLifecycle

\* Planning keeps the stage of an open task or moves to a planning stage.
LEMMA StartPlanningBegins ==
    ASSUME TypeOK, NEW mode \in StartModes, NEW supplied \in BOOLEAN, NEW feedback \in BOOLEAN,
           StartPlanning(mode, supplied, feedback)
    PROVE  Begun
<1> DEFINE origin == PlanningBase(mode)
           base == [origin EXCEPT !.planDir = @ \/ ~supplied]
<1>1. mode \in EXECUTION_MODES
  BY ConstantsAssumption
<1>2. CASE ~HasCheckpoint \/ disk.stage = "COMPLETED"
  <2>1. origin \in Checkpoint /\ origin.stage = "INITIALIZED"
    BY <1>1, <1>2, InitialIsCheckpoint DEF PlanningBase, CreateInitial, Reset
  <2>2. PICK to \in PlanningTargets(origin.stage, supplied, feedback) :
           BeginSave(IF to = base.stage THEN base ELSE Transition(base, to))
    BY DEF StartPlanning
  <2>3. to \in {"PLAN", "DISCOVERY"}
    BY <2>1, <2>2 DEF PlanningTargets
  <2>4. base \in Checkpoint /\ base.stage = "INITIALIZED"
    BY <2>1 DEF Checkpoint
  <2> HIDE DEF base
  <2>5. Transition(base, to).stage = to
    BY <2>3, <2>4, TransitionLeads DEF Stages
  <2> QED BY <2>2, <2>3, <2>4, <2>5, OutOfLoopBegins
<1>3. CASE HasCheckpoint /\ disk.stage # "COMPLETED"
  <2>1. disk \in Checkpoint /\ origin = SetMode(disk, mode)
    BY <1>3, DiskIsCheckpoint DEF PlanningBase
  <2>2. origin \in Checkpoint /\ origin.stage = disk.stage /\ Preserves(disk, origin)
    BY <1>1, <2>1, RecordsLead, MethodsPreserve
  <2>3. PICK to \in PlanningTargets(origin.stage, supplied, feedback) :
           BeginSave(IF to = base.stage THEN base ELSE Transition(base, to))
    BY DEF StartPlanning
  <2> HIDE DEF origin
  <2>4. to = origin.stage \/ to \in {"PLAN", "DISCOVERY"}
    BY <2>3 DEF PlanningTargets
  <2>5. base \in Checkpoint /\ base.stage = disk.stage /\ Preserves(disk, base)
    BY <2>2 DEF Checkpoint, Preserves
  <2> HIDE DEF base
  <2>6. CASE to = base.stage
    BY <1>3, <2>3, <2>5, <2>6, SameStageBegins
  <2>7. CASE to # base.stage
    <3>1. to \in {"PLAN", "DISCOVERY"}
      BY <2>2, <2>4, <2>5, <2>7
    <3>2. Transition(base, to).stage = to
      BY <2>5, <3>1, TransitionLeads DEF Stages
    <3> QED BY <2>3, <2>7, <3>1, <3>2, OutOfLoopBegins
  <2> QED BY <2>6, <2>7
<1> QED BY <1>2, <1>3

\* The way to IMPLEMENT ends there, and from IMPLEMENT it preserves the plan's
\* record.
LEMMA ImplementPathPreserves ==
    ASSUME NEW sm \in Checkpoint
    PROVE  /\ ImplementPath(sm) \in Checkpoint
           /\ ImplementPath(sm).stage = "IMPLEMENT"
           /\ sm.stage = "IMPLEMENT" => Preserves(sm, ImplementPath(sm))
<1> DEFINE approved == Transition(sm, "APPROVAL")
<1>1. "APPROVAL" \in Stages /\ "IMPLEMENT" \in Stages
  BY DEF Stages
<1>2. approved \in Checkpoint
  BY <1>1, TransitionLeads
<1>3. /\ Transition(approved, "IMPLEMENT").stage = "IMPLEMENT"
      /\ Transition(sm, "IMPLEMENT").stage = "IMPLEMENT"
  BY <1>1, <1>2, TransitionLeads
<1>4. ImplementPath(sm).stage = "IMPLEMENT"
  BY <1>3 DEF ImplementPath
<1>5. sm.stage = "IMPLEMENT" => Preserves(sm, ImplementPath(sm))
  BY PreservesSame DEF ImplementPath
<1> QED BY <1>4, <1>5, ImplementPathLeads

\* A resumed implementation records a plan only where none was approved.
LEMMA StartImplementationBegins ==
    ASSUME TypeOK, NEW noWorktree \in BOOLEAN, NEW supplied \in BOOLEAN,
           StartImplementation(noWorktree, supplied)
    PROVE  Begun
<1> DEFINE resumed  == disk.stage = "IMPLEMENT"
           approved == disk.stage = "APPROVAL" /\ disk.approvedPlanDigest # NoPlan
           records  == ~approved /\ (~resumed \/ disk.approvedPlanDigest = NoPlan)
           needed   == ~noWorktree /\ ~disk.worktree
           free     == ResumeFromGate(disk)
           moved    == ImplementPath(free)
           bound    == [moved EXCEPT !.worktree = @ \/ needed, !.planDir = @ \/ ~supplied]
           result   == IF records THEN RecordApprovedPlan(bound, plan) ELSE bound
           todo     == IF needed THEN <<"createWorktree", "save">> ELSE <<"save">>
<1>1. HasCheckpoint /\ disk \in Checkpoint
      /\ disk.stage \in {"PLAN", "APPROVAL", "IMPLEMENT", "COMPLETED"}
  BY AtStageIsCheckpoint DEF StartImplementation
<1>2. Begin(result, todo, "none")
  BY DEF StartImplementation
<1>3. free \in Checkpoint /\ free.stage = disk.stage /\ Preserves(disk, free)
  BY <1>1, PausesLead, MethodsPreserve
<1> HIDE DEF free
<1>4. moved \in Checkpoint /\ moved.stage = "IMPLEMENT" /\ (resumed => Preserves(disk, moved))
  BY <1>3, ImplementPathPreserves, PreservesTransitive
<1> HIDE DEF moved, needed
<1>5. /\ bound \in Checkpoint /\ bound.stage = "IMPLEMENT"
      /\ bound.approvedPlanDigest = moved.approvedPlanDigest
      /\ Preserves(moved, bound)
  BY <1>4 DEF Checkpoint, Preserves
<1> HIDE DEF bound
<1>6. plan \in PlanVersions
  BY DEF TypeOK
<1>7. /\ result.stage = "IMPLEMENT"
      /\ resumed => Preserves(disk, result)
  <2>1. resumed => Preserves(disk, bound)
    BY <1>4, <1>5, PreservesTransitive
  <2>2. CASE ~records
    BY <1>5, <2>1, <2>2
  <2>3. CASE records
    <3>1. result = RecordApprovedPlan(bound, plan)
      BY <2>3
    <3>2. /\ result.stage = "IMPLEMENT"
          /\ result.planDeviations = bound.planDeviations
          /\ result.acknowledged = bound.acknowledged
      BY <1>5, <1>6, <3>1 DEF RecordApprovedPlan, Checkpoint
    <3> QED BY <2>1, <2>3, <3>2 DEF Preserves
  <2> QED BY <2>2, <2>3
<1> HIDE DEF result, records
<1>8. Keeps(result)
  <2>1. InLoop => disk.stage = "IMPLEMENT"
    BY <1>1 DEF InLoop, AtStage, LoopStages
  <2> QED BY <1>7, <2>1 DEF Keeps
<1>9. Warrants(result, "none") /\ Opening(todo, result) /\ Accepted(result, "none")
  BY <1>7 DEF Warrants, Past, Opening, Accepted
<1> HIDE DEF todo
<1>10. BegunWith(result, todo, "none")
  BY <1>2, <1>8, <1>9 DEF BegunWith
<1> QED BY <1>10 DEF Begun

\* Two writes in a row.
LEMMA PairOfWrites ==
    ASSUME NEW a \in Effects, NEW b \in Effects
    PROVE  <<a>> \o <<b>> = <<a, b>> /\ <<a, b>> \in Seq(Effects)
<1> DEFINE s == <<a>> \o <<b>>
           t == <<a, b>>
<1>1. /\ <<a>> \in Seq(Effects) /\ <<b>> \in Seq(Effects)
      /\ Len(<<a>>) = 1 /\ Len(<<b>>) = 1
  OBVIOUS
<1>2. s \in Seq(Effects) /\ Len(s) = 2 /\ s[1] = a /\ s[2] = b
  BY <1>1, ConcatProperties
<1>3. t \in Seq(Effects) /\ Len(t) = 2 /\ t[1] = a /\ t[2] = b
  OBVIOUS
<1>4. \A i \in 1 .. 2 : i = 1 \/ i = 2
  OBVIOUS
<1> HIDE DEF s, t
<1>5. \A i \in 1 .. Len(s) : s[i] = t[i]
  BY <1>2, <1>3, <1>4
<1> QED BY <1>2, <1>3, <1>5, SeqEqual DEF s, t

\* Three writes in a row.
LEMMA ThreeWrites ==
    ASSUME NEW a \in Effects, NEW b \in Effects, NEW c \in Effects
    PROVE  <<a, b>> \o <<c>> = <<a, b, c>> /\ <<a, b, c>> \in Seq(Effects)
<1> DEFINE s == <<a, b>> \o <<c>>
           t == <<a, b, c>>
<1>1. /\ <<a, b>> \in Seq(Effects) /\ <<c>> \in Seq(Effects)
      /\ Len(<<a, b>>) = 2 /\ Len(<<c>>) = 1
  OBVIOUS
<1>2. s \in Seq(Effects) /\ Len(s) = 3 /\ s[1] = a /\ s[2] = b /\ s[3] = c
  BY <1>1, ConcatProperties
<1>3. t \in Seq(Effects) /\ Len(t) = 3 /\ t[1] = a /\ t[2] = b /\ t[3] = c
  OBVIOUS
<1>4. \A i \in 1 .. 3 : i = 1 \/ i = 2 \/ i = 3
  OBVIOUS
<1> HIDE DEF s, t
<1>5. \A i \in 1 .. Len(s) : s[i] = t[i]
  BY <1>2, <1>3, <1>4
<1> QED BY <1>2, <1>3, <1>5, SeqEqual DEF s, t

\* The lists of writes a transition can put together.
LEMMA WritesOfATransition ==
    /\ <<>> \o <<"clear">> \o <<"save">> \o <<>> \o <<>> = <<"clear", "save">>
    /\ <<>> \o <<>> \o <<"save">> \o <<>> \o <<"scaffold">> = <<"save", "scaffold">>
    /\ <<"createWorktree">> \o <<>> \o <<"save">> \o <<"clear">> \o <<>>
         = <<"createWorktree", "save", "clear">>
    /\ <<"createWorktree">> \o <<>> \o <<"save">> \o <<>> \o <<>>
         = <<"createWorktree", "save">>
    /\ <<>> \o <<>> \o <<"save">> \o <<"clear">> \o <<>> = <<"save", "clear">>
    /\ <<>> \o <<>> \o <<"save">> \o <<>> \o <<>> = <<"save">>
<1>1. {"clear", "save", "scaffold", "createWorktree"} \subseteq Effects
  BY DEF Effects
<1>2. \A s \in Seq(Effects) : s \o <<>> = s /\ <<>> \o s = s
  BY ConcatEmptySeq
<1>3. \A a \in Effects : <<a>> \in Seq(Effects)
  OBVIOUS
<1>4. \A a, b \in Effects : <<a>> \o <<b>> = <<a, b>> /\ <<a, b>> \in Seq(Effects)
  BY PairOfWrites
<1>5. \A a, b, c \in Effects : <<a, b>> \o <<c>> = <<a, b, c>> /\ <<a, b, c>> \in Seq(Effects)
  BY ThreeWrites
<1>6. /\ <<>> \o <<>> = <<>>
      /\ <<>> \o <<"clear">> = <<"clear">> /\ <<>> \o <<"save">> = <<"save">>
      /\ <<"createWorktree">> \o <<>> = <<"createWorktree">>
      /\ <<"save">> \o <<>> = <<"save">>
  BY <1>1, <1>2, <1>3, EmptySeq, Zenon
<1>7. /\ <<"clear">> \o <<"save">> = <<"clear", "save">>
      /\ <<"save">> \o <<"scaffold">> = <<"save", "scaffold">>
      /\ <<"save">> \o <<"clear">> = <<"save", "clear">>
      /\ <<"createWorktree">> \o <<"save">> = <<"createWorktree", "save">>
      /\ <<"createWorktree", "save">> \o <<"clear">> = <<"createWorktree", "save", "clear">>
  BY <1>1, <1>4, <1>5
<1>8. /\ <<"clear", "save">> \o <<>> = <<"clear", "save">>
      /\ <<"save", "clear">> \o <<>> = <<"save", "clear">>
      /\ <<"createWorktree", "save">> \o <<>> = <<"createWorktree", "save">>
      /\ <<"createWorktree", "save", "clear">> \o <<>> = <<"createWorktree", "save", "clear">>
  BY <1>1, <1>2, <1>4, <1>5
<1> QED BY <1>6, <1>7, <1>8, Zenon

\* The writes of a transition, and where they stand to the gate.
LEMMA TransitionEffectsOpen ==
    ASSUME NEW sm, NEW to, NEW noWorktree, NEW result, result.stage = to,
           AtGate => sm.stage = "QUALITY_GATE",
           sm.stage = "QUALITY_GATE" => to \notin {"QUALITY_GATE", "DISCOVERY"}
    PROVE  Opening(TransitionEffects(sm, to, noWorktree), result)
<1> DEFINE create == to = "IMPLEMENT" /\ ~noWorktree /\ ~sm.worktree
           first  == IF create THEN <<"createWorktree">> ELSE <<>>
           before == IF to = "QUALITY_GATE" THEN <<"clear">> ELSE <<>>
           after  == IF sm.stage = "QUALITY_GATE" THEN <<"clear">> ELSE <<>>
           last   == IF to = "DISCOVERY" THEN <<"scaffold">> ELSE <<>>
           todo   == TransitionEffects(sm, to, noWorktree)
<1>0. todo = first \o before \o <<"save">> \o after \o last
  BY DEF TransitionEffects
<1>1. CASE to = "QUALITY_GATE"
  <2>1. first = <<>> /\ before = <<"clear">> /\ after = <<>> /\ last = <<>>
    BY <1>1
  <2>2. todo = <<"clear", "save">>
    BY <1>0, <2>1, WritesOfATransition
  <2> QED BY <1>1, <2>2 DEF Opening
<1>2. CASE to = "DISCOVERY"
  <2>1. first = <<>> /\ before = <<>> /\ after = <<>> /\ last = <<"scaffold">>
    BY <1>2
  <2>2. todo = <<"save", "scaffold">>
    BY <1>0, <2>1, WritesOfATransition
  <2> QED BY <1>2, <2>2 DEF Opening
<1>3. CASE to \notin {"QUALITY_GATE", "DISCOVERY"} /\ sm.stage = "QUALITY_GATE"
  <2>1. before = <<>> /\ after = <<"clear">> /\ last = <<>>
        /\ first \in {<<"createWorktree">>, <<>>}
    BY <1>3
  <2>2. todo \in {<<"createWorktree", "save", "clear">>, <<"save", "clear">>}
    BY <1>0, <2>1, WritesOfATransition
  <2> QED BY <1>3, <2>2 DEF Opening
<1>4. CASE to \notin {"QUALITY_GATE", "DISCOVERY"} /\ sm.stage # "QUALITY_GATE"
  <2>1. before = <<>> /\ after = <<>> /\ last = <<>>
        /\ first \in {<<"createWorktree">>, <<>>}
    BY <1>4
  <2>2. todo \in {<<"createWorktree", "save">>, <<"save">>}
    BY <1>0, <2>1, WritesOfATransition
  <2> QED BY <2>2 DEF Opening
<1> QED BY <1>1, <1>2, <1>3, <1>4

\* What a transition saves is at its target; within the loop it records no plan
\* where one was approved.
LEMMA TransitionResultPreserves ==
    ASSUME TypeOK, NEW sm \in Checkpoint, NEW to \in Stages, NEW noWorktree \in BOOLEAN
    PROVE  /\ TransitionResult(sm, to, noWorktree).stage = to
           /\ sm.stage \in LoopStages /\ to \in LoopStages
                => Preserves(sm, TransitionResult(sm, to, noWorktree))
<1> DEFINE verdict == IF sm.stage = "QUALITY_GATE"
                      THEN [sm EXCEPT !.gateVerdict = ExitVerdict(sm)] ELSE sm
           moved   == Transition(verdict, to)
           frozen  == IF FreezesPlan(sm, to) THEN RecordApprovedPlan(moved, plan) ELSE moved
           paused  == IF to \in {"APPROVAL", "COMMIT"} THEN PauseAtGate(frozen, to) ELSE frozen
           result  == [paused EXCEPT !.worktree = @ \/ (to = "IMPLEMENT" /\ ~noWorktree)]
           looping == sm.stage \in LoopStages /\ to \in LoopStages
<1>1. TransitionResult(sm, to, noWorktree) = result
  BY DEF TransitionResult
<1>2. verdict \in Checkpoint /\ verdict.stage = sm.stage /\ Preserves(sm, verdict)
  <2>1. ExitVerdict(sm) \in GateVerdicts \union {"NOT_RECORDED"}
    BY DEF ExitVerdict, TypeOK, Reports
  <2> QED BY <2>1 DEF Checkpoint, Preserves
<1> HIDE DEF verdict
<1>3. moved \in Checkpoint /\ moved.stage = to /\ (looping => Preserves(verdict, moved))
  BY <1>2, TransitionLeads, TransitionPreserves, LoopEndsNoRound
<1> HIDE DEF moved
<1>4. plan \in PlanVersions
  BY DEF TypeOK
<1>5. frozen \in Checkpoint /\ frozen.stage = to /\ (looping => Preserves(sm, frozen))
  <2>1. looping => Preserves(sm, moved)
    BY <1>2, <1>3, PreservesTransitive
  <2>2. CASE ~FreezesPlan(sm, to)
    BY <1>3, <2>1, <2>2
  <2>3. CASE FreezesPlan(sm, to)
    <3>1. frozen = RecordApprovedPlan(moved, plan)
      BY <2>3
    <3>2. /\ frozen \in Checkpoint /\ frozen.stage = to
          /\ frozen.planDeviations = moved.planDeviations
          /\ frozen.acknowledged = moved.acknowledged
      BY <1>3, <1>4, <3>1 DEF RecordApprovedPlan, Checkpoint
    <3>3. looping => sm.approvedPlanDigest = NoPlan
      BY <2>3 DEF FreezesPlan, LoopStages, FreshApprovalStages
    <3> QED BY <2>1, <3>2, <3>3 DEF Preserves
  <2> QED BY <2>2, <2>3
<1> HIDE DEF frozen
<1>6. paused \in Checkpoint /\ paused.stage = to /\ Preserves(frozen, paused)
  <2>1. CASE to \in {"APPROVAL", "COMMIT"}
    <3>1. to \in Gates /\ frozen.stage # "COMPLETED"
      BY <1>5, <2>1 DEF Gates, HUMAN_WAIT_GATES
    <3> QED BY <1>5, <2>1, <3>1, PausesLead, MethodsPreserve
  <2>2. CASE to \notin {"APPROVAL", "COMMIT"}
    BY <1>5, <2>2, PreservesSame
  <2> QED BY <2>1, <2>2
<1> HIDE DEF paused
<1>7. result.stage = to /\ Preserves(paused, result)
  BY <1>6 DEF Checkpoint, Preserves
<1> HIDE DEF result
<1>8. looping => Preserves(sm, result)
  BY <1>5, <1>6, <1>7, PreservesTransitive
<1> QED BY <1>1, <1>7, <1>8

\* A legal transition past the gate starts past it, certifies, or closes a task.
LEMMA TransitionStageBegins ==
    ASSUME TypeOK, NEW to \in Stages, NEW noWorktree \in BOOLEAN,
           TransitionStage(to, noWorktree)
    PROVE  Begun
<1> DEFINE sm     == TransitionBase
           result == TransitionResult(sm, to, noWorktree)
           todo   == TransitionEffects(sm, to, noWorktree)
           exit   == IF to = "REVIEW" THEN "certified" ELSE "none"
<1>1. /\ sm \in Checkpoint
      /\ HasCheckpoint => /\ sm.stage = disk.stage /\ Preserves(disk, sm)
                          /\ ResolveGateRound(sm) = ResolveGateRound(disk)
      /\ ~HasCheckpoint => sm.stage = "INITIALIZED"
  <2>1. CASE HasCheckpoint
    <3>1. disk \in Checkpoint /\ sm = ResumeFromGate(disk)
      BY <2>1, DiskIsCheckpoint DEF TransitionBase
    <3>2. ResolveGateRound(sm) = ResolveGateRound(disk)
      BY <3>1 DEF ResumeFromGate, ResolveGateRound, Checkpoint
    <3> QED BY <2>1, <3>1, <3>2, PausesLead, MethodsPreserve
  <2>2. CASE ~HasCheckpoint
    <3>1. "standard" \in EXECUTION_MODES
      BY DEF EXECUTION_MODES
    <3> QED BY <2>2, <3>1, InitialIsCheckpoint DEF TransitionBase, CreateInitial
  <2> QED BY <2>1, <2>2
<1>2. /\ Begin(result, todo, exit)
      /\ CanTransition(sm, to)
      /\ sm.stage = "QUALITY_GATE" /\ to = "REVIEW" => CertifyReviewExit(sm)
  BY DEF TransitionStage
<1> HIDE DEF sm
<1>3. to \in ALLOWED_TRANSITIONS[sm.stage] /\ sm.stage \in Stages
  BY <1>1, <1>2 DEF CanTransition, IsLegalTransition, Checkpoint
<1>4. /\ result.stage = to
      /\ sm.stage \in LoopStages /\ to \in LoopStages => Preserves(sm, result)
  BY <1>1, TransitionResultPreserves
<1> HIDE DEF result
<1>5. Opening(todo, result)
  <2>1. sm.stage = "QUALITY_GATE" => to \notin {"QUALITY_GATE", "DISCOVERY"}
    BY <1>3 DEF ALLOWED_TRANSITIONS
  <2>2. AtGate => sm.stage = "QUALITY_GATE"
    BY <1>1 DEF AtGate, AtStage
  <2> QED BY <1>4, <2>1, <2>2, TransitionEffectsOpen
<1> HIDE DEF todo
<1>6. Warrants(result, exit)
  <2>1. to = "REVIEW" => sm.stage \in {"QUALITY_GATE", "COMPLETED"}
    BY <1>3 DEF ALLOWED_TRANSITIONS, Stages
  <2>2. to = "COMMIT" => sm.stage = "REVIEW"
    BY <1>3 DEF ALLOWED_TRANSITIONS, Stages
  <2>3. to = "COMPLETED" => sm.stage \in {"COMMIT", "TRIAGE"}
    BY <1>3 DEF ALLOWED_TRANSITIONS, Stages
  <2> QED BY <1>1, <1>4, <2>1, <2>2, <2>3 DEF Warrants, Past, AtGate, AtStage
<1>7. Keeps(result)
  <2>1. InLoop => HasCheckpoint /\ sm.stage \in LoopStages
    BY <1>1 DEF InLoop, AtStage
  <2> QED BY <1>1, <1>4, <2>1, PreservesTransitive DEF Keeps
<1>8. Accepted(result, exit)
  <2> SUFFICES ASSUME exit = "certified", AtGate
               PROVE  /\ result.stage # "QUALITY_GATE"
                      /\ report # NoReport /\ report.round = ResolveGateRound(disk)
    BY DEF Accepted
  <2>1. to = "REVIEW" /\ sm.stage = "QUALITY_GATE" /\ HasCheckpoint
    BY <1>1 DEF AtGate, AtStage
  <2> QED BY <1>1, <1>2, <1>4, <2>1 DEF CertifyReviewExit
<1> HIDE DEF exit
<1>9. BegunWith(result, todo, exit)
  BY <1>2, <1>5, <1>6, <1>7, <1>8 DEF BegunWith
<1> QED BY <1>9 DEF Begun


\* The in-process gate ends in REVIEW, measured, or back in IMPLEMENT.
LEMMA RunQualityGateBegins ==
    ASSUME TypeOK, NEW verdict \in GateVerdicts, RunQualityGate(verdict)
    PROVE  Begun
<1> DEFINE atGate == IF disk.stage = "QUALITY_GATE" THEN disk
                     ELSE Transition(disk, "QUALITY_GATE")
           judged == [atGate EXCEPT !.gateVerdict = verdict]
           passed == Transition(judged, "REVIEW")
           failed == Transition(judged, "IMPLEMENT")
           result == IF verdict = "PASSED"
                     THEN [passed EXCEPT !.implementGateLoops = 0]
                     ELSE [failed EXCEPT !.implementGateLoops = @ + 1]
           exit   == IF verdict = "PASSED" THEN "measured" ELSE "none"
<1>1. HasCheckpoint /\ disk \in Checkpoint
      /\ disk.stage \in {"IMPLEMENT", "QUALITY_GATE", "COMMIT", "COMPLETED"}
  BY AtStageIsCheckpoint DEF RunQualityGate
<1>2. Begin(result, <<"save", "file">>, exit)
  BY DEF RunQualityGate
<1>3. {"QUALITY_GATE", "REVIEW", "IMPLEMENT"} \subseteq Stages
      /\ {"QUALITY_GATE", "REVIEW", "IMPLEMENT"} \subseteq LoopStages
  BY DEF Stages, LoopStages
<1>4. /\ atGate \in Checkpoint /\ atGate.stage = "QUALITY_GATE"
      /\ InLoop => Preserves(disk, atGate)
  <2>1. CASE disk.stage = "QUALITY_GATE"
    BY <1>1, <2>1, PreservesSame
  <2>2. CASE disk.stage # "QUALITY_GATE"
    <3>1. InLoop => disk.stage \in LoopStages
      BY DEF InLoop, AtStage
    <3> QED BY <1>1, <1>3, <2>2, <3>1, TransitionLeads, TransitionPreserves, LoopEndsNoRound
  <2> QED BY <2>1, <2>2
<1> HIDE DEF atGate
<1>5. judged \in Checkpoint /\ judged.stage = "QUALITY_GATE" /\ Preserves(atGate, judged)
  BY <1>4 DEF Checkpoint, Preserves
<1> HIDE DEF judged
<1>6. /\ passed \in Checkpoint /\ passed.stage = "REVIEW" /\ Preserves(judged, passed)
      /\ failed \in Checkpoint /\ failed.stage = "IMPLEMENT" /\ Preserves(judged, failed)
  BY <1>3, <1>5, TransitionLeads, TransitionPreserves, LoopEndsNoRound
<1> HIDE DEF passed, failed
<1>7. /\ Preserves(judged, result)
      /\ result.stage = IF verdict = "PASSED" THEN "REVIEW" ELSE "IMPLEMENT"
  BY <1>6 DEF Checkpoint, Preserves
<1> HIDE DEF result
<1>8. Keeps(result)
  BY <1>4, <1>5, <1>7, PreservesTransitive DEF Keeps
<1>9. Warrants(result, exit) /\ Opening(<<"save", "file">>, result) /\ Accepted(result, exit)
  BY <1>7 DEF Warrants, Past, Opening, Accepted
<1> HIDE DEF exit
<1>10. BegunWith(result, <<"save", "file">>, exit)
  BY <1>2, <1>8, <1>9 DEF BegunWith
<1> QED BY <1>10 DEF Begun

\* The way to REVIEW ends there, and from the loop it preserves the plan's record.
LEMMA ReviewPathPreserves ==
    ASSUME TypeOK, NEW sm \in Checkpoint, sm.stage = "QUALITY_GATE" => report # NoReport
    PROVE  /\ ReviewPath(sm) \in Checkpoint /\ ReviewPath(sm).stage = "REVIEW"
           /\ sm.stage \in LoopStages => Preserves(sm, ReviewPath(sm))
<1>1. {"QUALITY_GATE", "REVIEW", "COMMIT"} \subseteq Stages
      /\ {"QUALITY_GATE", "REVIEW", "COMMIT"} \subseteq LoopStages
  BY DEF Stages, LoopStages
<1>2. CASE sm.stage = "COMMIT"
  <2> DEFINE resumed == ResumeFromGate(sm)
             hop == Transition(resumed, "QUALITY_GATE")
             last == Transition(hop, "REVIEW")
  <2>1. resumed \in Checkpoint /\ resumed.stage = "COMMIT" /\ Preserves(sm, resumed)
    BY <1>2, PausesLead, MethodsPreserve
  <2>2. ReviewPath(sm) = last
    BY <1>2 DEF ReviewPath
  <2> HIDE DEF resumed
  <2>3. hop \in Checkpoint /\ hop.stage = "QUALITY_GATE" /\ Preserves(resumed, hop)
    BY <1>1, <2>1, TransitionLeads, TransitionPreserves, LoopEndsNoRound
  <2> HIDE DEF hop
  <2>4. last \in Checkpoint /\ last.stage = "REVIEW" /\ Preserves(hop, last)
    BY <1>1, <2>3, TransitionLeads, TransitionPreserves, LoopEndsNoRound
  <2> HIDE DEF last
  <2>5. Preserves(sm, last)
    BY <2>1, <2>3, <2>4, PreservesTransitive
  <2> QED BY <2>2, <2>4, <2>5
<1>3. CASE sm.stage = "QUALITY_GATE"
  <2> DEFINE judged == [sm EXCEPT !.gateVerdict = report.verdict]
             last == Transition(judged, "REVIEW")
  <2>1. judged \in Checkpoint /\ judged.stage = "QUALITY_GATE" /\ Preserves(sm, judged)
    <3>1. report.verdict \in GateVerdicts
      BY <1>3 DEF TypeOK, Reports
    <3> QED BY <1>3, <3>1 DEF Checkpoint, Preserves
  <2>2. ReviewPath(sm) = last
    BY <1>3 DEF ReviewPath
  <2> HIDE DEF judged
  <2>3. last \in Checkpoint /\ last.stage = "REVIEW" /\ Preserves(judged, last)
    BY <1>1, <2>1, TransitionLeads, TransitionPreserves, LoopEndsNoRound
  <2> HIDE DEF last
  <2> QED BY <2>1, <2>2, <2>3, PreservesTransitive
<1>4. CASE sm.stage = "REVIEW"
  BY <1>4, PreservesSame DEF ReviewPath
<1>5. CASE sm.stage \notin {"COMMIT", "QUALITY_GATE", "REVIEW"}
  <2>1. ReviewPath(sm) = Transition(sm, "REVIEW")
    BY <1>5 DEF ReviewPath
  <2>2. sm.stage \in LoopStages => Preserves(sm, Transition(sm, "REVIEW"))
    BY <1>1, TransitionPreserves, LoopEndsNoRound
  <2> QED BY <1>1, <2>1, <2>2, TransitionLeads
<1> QED BY <1>2, <1>3, <1>4, <1>5

\* Review runs on certified work or on work that was past the gate already.
LEMMA RunReviewBegins ==
    ASSUME TypeOK, NEW approved \in BOOLEAN, RunReview(approved)
    PROVE  Begun
<1> DEFINE path    == ReviewPath(disk)
           commit  == Transition(path, "COMMIT")
           retry   == Transition(path, "IMPLEMENT")
           asked   == PauseAtGate(commit, "COMMIT")
           result  == IF approved THEN asked ELSE retry
           todo    == IF disk.stage = "QUALITY_GATE" THEN <<"save", "clear">> ELSE <<"save">>
<1>1. HasCheckpoint /\ disk \in Checkpoint
      /\ disk.stage \in {"QUALITY_GATE", "REVIEW", "COMPLETED", "COMMIT"}
  BY AtStageIsCheckpoint DEF RunReview
<1>2. /\ Begin(result, todo, "certified")
      /\ disk.stage = "QUALITY_GATE" => CertifyReviewExit(disk)
  BY DEF RunReview
<1>3. {"COMMIT", "IMPLEMENT"} \subseteq Stages /\ {"COMMIT", "IMPLEMENT", "REVIEW"} \subseteq LoopStages
  BY DEF Stages, LoopStages
<1>4. /\ path \in Checkpoint /\ path.stage = "REVIEW"
      /\ InLoop => Preserves(disk, path)
  BY <1>1, <1>2, ReviewPathPreserves DEF CertifyReviewExit, InLoop, AtStage
<1> HIDE DEF path
<1>5. /\ commit \in Checkpoint /\ commit.stage = "COMMIT" /\ Preserves(path, commit)
      /\ retry \in Checkpoint /\ retry.stage = "IMPLEMENT" /\ Preserves(path, retry)
  BY <1>3, <1>4, TransitionLeads, TransitionPreserves, LoopEndsNoRound
<1> HIDE DEF commit, retry
<1>6. asked.stage = "COMMIT" /\ Preserves(commit, asked)
  <2>1. "COMMIT" \in Gates
    BY DEF Gates, HUMAN_WAIT_GATES
  <2> QED BY <1>5, <2>1, PausesLead, MethodsPreserve
<1> HIDE DEF asked
<1>7. result.stage \in {"COMMIT", "IMPLEMENT"} /\ Preserves(path, result)
  BY <1>5, <1>6, PreservesTransitive
<1> HIDE DEF result
<1>8. Keeps(result)
  BY <1>4, <1>7, PreservesTransitive DEF Keeps
<1>9. /\ Warrants(result, "certified")
      /\ Opening(todo, result)
      /\ Accepted(result, "certified")
  <2>1. AtGate \/ AtStage(Past)
    BY <1>1 DEF AtGate, AtStage, Past
  <2>2. Warrants(result, "certified")
    BY <1>7, <2>1 DEF Warrants
  <2>3. Opening(todo, result)
    BY <1>7 DEF Opening
  <2>4. Accepted(result, "certified")
    BY <1>2, <1>7 DEF Accepted, AtGate, AtStage, CertifyReviewExit
  <2> QED BY <2>2, <2>3, <2>4
<1> HIDE DEF todo
<1>10. BegunWith(result, todo, "certified")
  BY <1>2, <1>8, <1>9 DEF BegunWith
<1> QED BY <1>10 DEF Begun

\* Deviations, halt and resume keep the stage.
LEMMA RecordingBegins ==
    ASSUME TypeOK,
           \/ \E d \in Deviations : FileDeviation(d) \/ AcknowledgeDeviation(d)
           \/ HaltPipeline
           \/ ResumePipeline
    PROVE  Begun
<1>1. HasCheckpoint /\ disk \in Checkpoint
  BY AtStageIsCheckpoint, DiskIsCheckpoint
     DEF FileDeviation, AcknowledgeDeviation, HaltPipeline, ResumePipeline
<1>2. CASE \E d \in Deviations : FileDeviation(d)
  BY <1>1, <1>2, MethodsPreserve, SameStageBegins DEF FileDeviation
<1>3. CASE \E d \in Deviations : AcknowledgeDeviation(d)
  BY <1>1, <1>3, MethodsPreserve, SameStageBegins DEF AcknowledgeDeviation
<1>4. CASE HaltPipeline
  <2>1. "CIRCUIT_BREAKER" \in Gates
    BY DEF Gates
  <2>2. BeginSave(PauseAtGate(disk, "CIRCUIT_BREAKER"))
    BY <1>4 DEF HaltPipeline
  <2> QED BY <1>1, <2>1, <2>2, PausesLead, MethodsPreserve, SameStageBegins
<1>5. CASE ResumePipeline
  BY <1>1, <1>5, PausesLead, MethodsPreserve, SameStageBegins DEF ResumePipeline
<1> QED BY <1>2, <1>3, <1>4, <1>5

\* Routing to TRIAGE stays in the loop when it starts there.
LEMMA RouteBegins ==
    ASSUME TypeOK, RouteToTriage \/ NextRouteTriage
    PROVE  Begun
<1> DEFINE moved == Transition(disk, "TRIAGE")
           asked == PauseAtGate(moved, "TRIAGE")
<1>1. HasCheckpoint /\ disk \in Checkpoint
  BY AtStageIsCheckpoint, DiskIsCheckpoint DEF RouteToTriage, NextRouteTriage
<1>2. BeginSave(asked)
  BY DEF RouteToTriage, NextRouteTriage
<1>3. "TRIAGE" \in Stages /\ "TRIAGE" \in LoopStages /\ "TRIAGE" \in Gates
  BY DEF Stages, LoopStages, Gates, HUMAN_WAIT_GATES
<1>4. /\ moved \in Checkpoint /\ moved.stage = "TRIAGE"
      /\ InLoop => Preserves(disk, moved)
  BY <1>1, <1>3, TransitionLeads, TransitionPreserves, LoopEndsNoRound DEF InLoop, AtStage
<1> HIDE DEF moved
<1>5. asked.stage = "TRIAGE" /\ Preserves(moved, asked)
  BY <1>3, <1>4, PausesLead, MethodsPreserve
<1> HIDE DEF asked
<1>6. Warrants(asked, "none") /\ Keeps(asked)
  BY <1>4, <1>5, PreservesTransitive DEF Warrants, Past, Keeps
<1> QED BY <1>2, <1>6, SaveBegins

\* `next` starts over or closes a triaged task.
LEMMA NextCommandBegins ==
    ASSUME TypeOK, NextRestart \/ NextExitTriage
    PROVE  Begun
<1>1. HasCheckpoint /\ disk \in Checkpoint
  BY AtStageIsCheckpoint DEF NextRestart, NextExitTriage
<1>2. "DISCOVERY" \in Stages /\ "COMPLETED" \in Stages
  BY DEF Stages
<1>3. CASE NextRestart
  <2>1. BeginSave(Transition(Reset(disk.mode), "DISCOVERY"))
    BY <1>3 DEF NextRestart
  <2>2. Reset(disk.mode) \in Checkpoint
    BY <1>1, InitialIsCheckpoint DEF Checkpoint
  <2> QED BY <1>2, <2>1, <2>2, TransitionLeads, OutOfLoopBegins
<1>4. CASE NextExitTriage
  <2>1. disk.stage = "TRIAGE" /\ BeginSave(Transition(disk, "COMPLETED"))
    BY <1>4 DEF NextExitTriage, AtStage
  <2>2. Transition(disk, "COMPLETED").stage = "COMPLETED"
    BY <1>1, <1>2, TransitionLeads
  <2>3. /\ Warrants(Transition(disk, "COMPLETED"), "none")
        /\ Keeps(Transition(disk, "COMPLETED"))
    BY <2>1, <2>2 DEF Warrants, AtStage, Keeps, LoopStages
  <2> QED BY <2>1, <2>3, SaveBegins
<1> QED BY <1>3, <1>4

\* Triage closes a task that was past the gate or closes it from elsewhere, and
\* sends work back with its plan's record.
LEMMA TriageBegins ==
    ASSUME TypeOK, NEW to \in TriageTargets, TriagePrComments(to)
    PROVE  Begun
<1> DEFINE atTriage == IF disk.stage = "TRIAGE" THEN disk ELSE Transition(disk, "TRIAGE")
           resumed  == ResumeFromGate(atTriage)
           moved    == Transition(resumed, to)
           bound    == [moved EXCEPT !.worktree = TRUE]
<1>1. HasCheckpoint /\ disk \in Checkpoint
  BY DiskIsCheckpoint DEF TriagePrComments
<1>2. IF to = "IMPLEMENT" THEN Begin(bound, <<"createWorktree", "save">>, "none")
      ELSE BeginSave(moved)
  BY DEF TriagePrComments
<1>3. "TRIAGE" \in Stages /\ to \in Stages /\ "TRIAGE" \in LoopStages
  BY DEF Stages, TriageTargets, LoopStages
<1>4. /\ atTriage \in Checkpoint /\ atTriage.stage = "TRIAGE"
      /\ InLoop => Preserves(disk, atTriage)
  BY <1>1, <1>3, TransitionLeads, TransitionPreserves, LoopEndsNoRound, PreservesSame
     DEF InLoop, AtStage
<1> HIDE DEF atTriage
<1>5. resumed \in Checkpoint /\ resumed.stage = "TRIAGE" /\ Preserves(atTriage, resumed)
  BY <1>4, PausesLead, MethodsPreserve
<1> HIDE DEF resumed
<1>6. /\ moved \in Checkpoint /\ moved.stage = to
      /\ to \in LoopStages => Preserves(resumed, moved)
  BY <1>3, <1>5, TransitionLeads, TransitionPreserves, LoopEndsNoRound
<1> HIDE DEF moved
<1>7. Keeps(moved)
  BY <1>4, <1>5, <1>6, PreservesTransitive DEF Keeps
<1>8. CASE to = "IMPLEMENT"
  <2>1. bound.stage = "IMPLEMENT" /\ Preserves(moved, bound)
    BY <1>6, <1>8 DEF Checkpoint, Preserves
  <2>2. Begin(bound, <<"createWorktree", "save">>, "none")
    BY <1>2, <1>8
  <2> HIDE DEF bound
  <2>3. Keeps(bound)
    BY <1>6, <1>7, <1>8, <2>1, PreservesTransitive DEF Keeps
  <2>4. BegunWith(bound, <<"createWorktree", "save">>, "none")
    BY <2>1, <2>2, <2>3 DEF BegunWith, Opening, Warrants, Past, Accepted
  <2> QED BY <2>4 DEF Begun
<1>9. CASE to # "IMPLEMENT"
  <2>1. Warrants(moved, "none")
    BY <1>6, <1>9 DEF Warrants, TriageTargets, Past, AtStage
  <2> QED BY <1>2, <1>7, <1>9, <2>1, SaveBegins
<1> QED BY <1>8, <1>9

\* The commit gate finishes work that waited there or sends it back.
LEMMA CommitBegins ==
    ASSUME TypeOK,
           \/ \E keepWorktree \in BOOLEAN : CommitConfirmed(keepWorktree)
           \/ \E to \in {"PLAN", "IMPLEMENT"} : CommitRejected(to)
    PROVE  Begun
<1>1. HasCheckpoint /\ disk \in Checkpoint /\ disk.stage = "COMMIT"
  BY AtStageIsCheckpoint DEF CommitConfirmed, CommitRejected
<1>2. {"PLAN", "IMPLEMENT", "COMPLETED"} \subseteq Stages
  BY DEF Stages
<1>3. AtStage(Past)
  BY <1>1 DEF AtStage, Past
<1>4. ASSUME NEW to \in {"PLAN", "IMPLEMENT"}, CommitRejected(to)
      PROVE  Begun
  <2>1. BeginSave(Transition(disk, to)) /\ Transition(disk, to).stage = to
    BY <1>1, <1>2, <1>4, TransitionLeads DEF CommitRejected
  <2>2. to \in LoopStages => Preserves(disk, Transition(disk, to))
    BY <1>1, <1>2, TransitionPreserves, LoopEndsNoRound DEF LoopStages
  <2>3. Warrants(Transition(disk, to), "none") /\ Keeps(Transition(disk, to))
    BY <1>3, <2>1, <2>2 DEF Warrants, Keeps
  <2> QED BY <2>1, <2>3, SaveBegins
<1>5. ASSUME NEW keepWorktree \in BOOLEAN, CommitConfirmed(keepWorktree)
      PROVE  Begun
  <2> DEFINE answered == IF disk.pausedAtGate = "COMMIT" THEN ResumeFromGate(disk) ELSE disk
             done == Transition(answered, "COMPLETED")
             todo == IF disk.worktree /\ ~keepWorktree
                     THEN <<"save", "removeWorktree", "detach">> ELSE <<"save">>
  <2>1. Begin(done, todo, "none")
    BY <1>5 DEF CommitConfirmed
  <2>2. answered \in Checkpoint
    BY <1>1, PausesLead
  <2> HIDE DEF answered
  <2>3. done.stage = "COMPLETED"
    BY <1>2, <2>2, TransitionLeads
  <2> HIDE DEF done
  <2>4. /\ Warrants(done, "none") /\ Keeps(done)
        /\ Opening(todo, done) /\ Accepted(done, "none")
    BY <1>3, <2>3 DEF Warrants, Keeps, LoopStages, Opening, Accepted
  <2> HIDE DEF todo
  <2>5. BegunWith(done, todo, "none")
    BY <2>1, <2>4 DEF BegunWith
  <2> QED BY <2>5 DEF Begun
<1> QED BY <1>4, <1>5

\* Every command begins with writes, a warrant and the plan's record in order.
LEMMA CommandsBegin ==
    ASSUME TypeOK, StartCommand
    PROVE  Begun
<1>1. CASE \E mode \in StartModes : EnterLifecycle(mode)
  BY <1>1, EnterLifecycleBegins
<1>2. CASE RouteToTriage \/ NextRouteTriage
  BY <1>2, RouteBegins
<1>3. CASE \E mode \in StartModes, supplied, feedback \in BOOLEAN :
              StartPlanning(mode, supplied, feedback)
  BY <1>3, StartPlanningBegins
<1>4. CASE \E noWorktree, supplied \in BOOLEAN : StartImplementation(noWorktree, supplied)
  BY <1>4, StartImplementationBegins
<1>5. CASE \E to \in Stages, noWorktree \in BOOLEAN : TransitionStage(to, noWorktree)
  BY <1>5, TransitionStageBegins
<1>6. CASE \E verdict \in GateVerdicts : RunQualityGate(verdict)
  BY <1>6, RunQualityGateBegins
<1>7. CASE \E approved \in BOOLEAN : RunReview(approved)
  BY <1>7, RunReviewBegins
<1>8. CASE \/ \E d \in Deviations : FileDeviation(d)
           \/ \E d \in Deviations : AcknowledgeDeviation(d)
           \/ HaltPipeline
           \/ ResumePipeline
  BY <1>8, RecordingBegins
<1>9. CASE NextRestart \/ NextExitTriage
  BY <1>9, NextCommandBegins
<1>10. CASE \E to \in TriageTargets : TriagePrComments(to)
  BY <1>10, TriageBegins
<1>11. CASE \/ \E keepWorktree \in BOOLEAN : CommitConfirmed(keepWorktree)
            \/ \E to \in {"PLAN", "IMPLEMENT"} : CommitRejected(to)
  BY <1>11, CommitBegins
<1> QED
  BY <1>1, <1>2, <1>3, <1>4, <1>5, <1>6, <1>7, <1>8, <1>9, <1>10, <1>11 DEF StartCommand


-----------------------------------------------------------------------------
(* The writes of a running command.                                        *)

\* Which write comes first, and what is left after it.
LEMMA HeadsAndTails ==
    /\ Head(<<"save">>) = "save" /\ Head(<<"save", "clear">>) = "save"
    /\ Head(<<"save", "file">>) = "save" /\ Head(<<"save", "scaffold">>) = "save"
    /\ Head(<<"save", "removeWorktree", "detach">>) = "save"
    /\ Head(<<"clear", "save">>) = "clear" /\ Head(<<"clear">>) = "clear"
    /\ Head(<<"createWorktree", "save">>) = "createWorktree"
    /\ Head(<<"createWorktree", "save", "clear">>) = "createWorktree"
    /\ Head(<<"file">>) = "file" /\ Head(<<"scaffold">>) = "scaffold"
    /\ Head(<<"removeWorktree", "detach">>) = "removeWorktree"
    /\ Head(<<"detach">>) = "detach"
    /\ Tail(<<"save", "clear">>) = <<"clear">> /\ Tail(<<"save", "file">>) = <<"file">>
    /\ Tail(<<"save", "scaffold">>) = <<"scaffold">>
    /\ Tail(<<"save", "removeWorktree", "detach">>) = <<"removeWorktree", "detach">>
    /\ Tail(<<"clear", "save">>) = <<"save">>
    /\ Tail(<<"createWorktree", "save">>) = <<"save">>
    /\ Tail(<<"createWorktree", "save", "clear">>) = <<"save", "clear">>
    /\ Tail(<<"removeWorktree", "detach">>) = <<"detach">>
    /\ Len(<<"save">>) = 1 /\ Len(<<"clear">>) = 1 /\ Len(<<"file">>) = 1
    /\ Len(<<"scaffold">>) = 1 /\ Len(<<"detach">>) = 1
OBVIOUS

\* A command about to save is pending; what else it is about to write tells
\* whether it has saved.
LEMMA HeadTellsPhase ==
    ASSUME OpSound
    PROVE  /\ Running("save")
                => /\ Pending(op)
                   /\ op.todo \in {<<"save">>, <<"save", "clear">>, <<"save", "file">>,
                                   <<"save", "removeWorktree", "detach">>,
                                   <<"save", "scaffold">>}
           /\ Running("createWorktree")
                => /\ Pending(op)
                   /\ op.todo \in {<<"createWorktree", "save">>,
                                   <<"createWorktree", "save", "clear">>}
           /\ Running("clear")
                => \/ Written(op.todo, op.sm) /\ op.todo = <<"clear">>
                   \/ Pending(op) /\ op.todo = <<"clear", "save">>
           /\ Running("file") => Written(op.todo, op.sm) /\ op.todo = <<"file">>
           /\ Running("scaffold") => Written(op.todo, op.sm) /\ op.todo = <<"scaffold">>
           /\ Running("detach") => Written(op.todo, op.sm) /\ op.todo = <<"detach">>
           /\ Running("removeWorktree")
                => Written(op.todo, op.sm) /\ op.todo = <<"removeWorktree", "detach">>
BY HeadsAndTails DEF OpSound, Running, Pending, Opening, Written

\* What stands between a pending command and its save is untouched by writes that
\* leave the checkpoint alone.
LEMMA PendingStays ==
    ASSUME NEW o, NEW q, Pending(o), q.sm = o.sm, q.exit = o.exit,
           UNCHANGED disk, Opening(q.todo, o.sm)
    PROVE  (Opening(q.todo, q.sm) /\ Warrants(q.sm, q.exit) /\ Keeps(q.sm))'
BY DEF Pending, Opening, Warrants, Keeps, InLoop, AtGate, AtStage, HasCheckpoint, Preserves


\* The save puts the pending checkpoint on disk; what follows it has been written.
LEMMA SaveSound ==
    ASSUME TypeOK, OpSound, Save
    PROVE  OpSound'
<1>1. Pending(op) /\ op \in Ops
      /\ op.todo \in {<<"save">>, <<"save", "clear">>, <<"save", "file">>,
                      <<"save", "removeWorktree", "detach">>, <<"save", "scaffold">>}
  BY HeadTellsPhase DEF Save, Running, TypeOK
<1>2. disk' = op.sm
  BY DEF Save
<1>3. CASE op.todo = <<"save">>
  BY <1>3, HeadsAndTails DEF Save, Advance, OpSound
<1>4. CASE op.todo # <<"save">>
  <2>1. op.sm.stage # "QUALITY_GATE"
    BY <1>1, <1>4, HeadsAndTails DEF Pending, Opening
  <2>2. op' = [op EXCEPT !.todo = Tail(op.todo)]
    BY <1>1, <1>4 DEF Save, Advance
  <2>3. op'.sm = op.sm /\ op'.todo = Tail(op.todo)
    BY <1>1, <2>2 DEF Ops
  <2>4. op'.todo \in {<<"clear">>, <<"file">>, <<"removeWorktree", "detach">>, <<"scaffold">>}
    BY <1>1, <1>4, <2>3, HeadsAndTails
  <2>5. Written(op.todo, op.sm)'
    BY <1>2, <2>1, <2>3, <2>4 DEF Written
  <2> QED BY <2>5 DEF OpSound
<1> QED BY <1>3, <1>4

\* A preparation leaves the command pending.
LEMMA PreparationSound ==
    ASSUME TypeOK, OpSound, CreateWorktree \/ (ClearReport /\ op.todo = <<"clear", "save">>)
    PROVE  OpSound'
<1>1. /\ Pending(op) /\ op \in Ops /\ UNCHANGED disk
      /\ op.todo \in {<<"createWorktree", "save">>, <<"createWorktree", "save", "clear">>,
                      <<"clear", "save">>}
  BY HeadTellsPhase, HeadsAndTails
     DEF CreateWorktree, ClearReport, Running, TypeOK, Written
<1>2. op' = [op EXCEPT !.todo = Tail(op.todo)]
  BY <1>1 DEF CreateWorktree, ClearReport, Advance
<1>3. op'.sm = op.sm /\ op'.exit = op.exit /\ op'.todo = Tail(op.todo)
  BY <1>1, <1>2 DEF Ops
<1>4. Opening(op'.todo, op.sm)
  <2>1. CASE op.todo = <<"createWorktree", "save", "clear">>
    <3>1. op.sm.stage # "QUALITY_GATE"
      BY <1>1, <2>1, HeadsAndTails DEF Pending, Opening
    <3> QED BY <1>3, <2>1, <3>1, HeadsAndTails DEF Opening
  <2>2. CASE op.todo # <<"createWorktree", "save", "clear">>
    BY <1>1, <1>3, <2>2, HeadsAndTails DEF Opening
  <2> QED BY <2>1, <2>2
<1>5. Pending(op)'
  BY <1>1, <1>3, <1>4, PendingStays DEF Pending
<1> QED BY <1>5 DEF OpSound

\* A write after the save is the last, or leaves the teardown's second one.
LEMMA FollowUpSound ==
    ASSUME TypeOK, OpSound,
           \/ ClearReport /\ op.todo # <<"clear", "save">>
           \/ FileMeasured \/ Scaffold \/ DetachWorktree \/ RemoveWorktree
    PROVE  OpSound'
<1>1. CASE ClearReport \/ FileMeasured \/ Scaffold \/ DetachWorktree
  <2>1. Advance /\ op.todo \in {<<"clear">>, <<"file">>, <<"scaffold">>, <<"detach">>}
    BY <1>1, HeadTellsPhase DEF ClearReport, FileMeasured, Scaffold, DetachWorktree, RemoveWorktree,
                                Running
  <2>2. op' = Idle
    BY <2>1, HeadsAndTails DEF Advance
  <2> QED BY <2>2 DEF OpSound
<1>2. CASE RemoveWorktree
  <2>1. Written(op.todo, op.sm) /\ op.todo = <<"removeWorktree", "detach">> /\ op \in Ops
    BY <1>2, HeadTellsPhase DEF RemoveWorktree, Running, TypeOK
  <2>2. op' = Idle \/ op' = [op EXCEPT !.todo = Tail(op.todo)]
    BY <1>2, <2>1 DEF RemoveWorktree, Advance
  <2>3. CASE op' = Idle
    BY <2>3 DEF OpSound
  <2>4. CASE op' = [op EXCEPT !.todo = Tail(op.todo)]
    <3>1. op'.sm = op.sm /\ op'.todo = <<"detach">>
      BY <2>1, <2>4, HeadsAndTails DEF Ops
    <3>2. UNCHANGED disk
      BY <1>2 DEF RemoveWorktree
    <3>3. Written(op.todo, op.sm)'
      BY <2>1, <3>1, <3>2 DEF Written
    <3> QED BY <3>3 DEF OpSound
  <2> QED BY <2>2, <2>3, <2>4
<1> QED BY <1>1, <1>2

\* A command that begins is pending.
LEMMA StartSound ==
    ASSUME TypeOK, StartCommand
    PROVE  OpSound'
<1>1. PICK sm, todo, exit : BegunWith(sm, todo, exit)
  BY CommandsBegin DEF Begun
<1>2. /\ op' = [sm |-> sm, todo |-> todo, exit |-> exit]
      /\ UNCHANGED disk
  BY <1>1 DEF BegunWith, Begin
<1> DEFINE o == [sm |-> sm, todo |-> todo, exit |-> exit]
<1>3. o.sm = sm /\ o.todo = todo /\ o.exit = exit /\ op' = o
  BY <1>2
<1> HIDE DEF o
<1>4. Pending(o) /\ Opening(o.todo, o.sm)
  BY <1>1, <1>3 DEF BegunWith, Pending
<1>5. (Opening(o.todo, o.sm) /\ Warrants(o.sm, o.exit) /\ Keeps(o.sm))'
  BY <1>2, <1>4, PendingStays
<1>6. Pending(op)'
  BY <1>3, <1>5 DEF Pending
<1> QED BY <1>6 DEF OpSound

\* The running command stays in order whatever happens.
LEMMA OpSoundInductive ==
    ASSUME TypeOK, OpSound, [Next]_vars
    PROVE  OpSound'
<1>1. CASE StartCommand
  BY <1>1, StartSound
<1>2. CASE Write
  BY <1>2, SaveSound, PreparationSound, FollowUpSound DEF Write
<1>3. CASE Die
  BY <1>3 DEF Die, OpSound
<1>4. CASE \E all \in BOOLEAN : ResetPipeline(all)
  BY <1>4 DEF ResetPipeline, OpSound
<1>5. CASE UNCHANGED <<disk, op>>
  BY <1>5 DEF OpSound, Written, Pending, Opening, Warrants, Keeps, InLoop, AtGate, AtStage,
              HasCheckpoint, Preserves
<1> QED
  BY <1>1, <1>2, <1>3, <1>4, <1>5 DEF Next, ReadForReport, FileReport, AbandonReport, EditPlan, vars

-----------------------------------------------------------------------------
(* The theorems.                                                           *)

\* A save past the gate leaves the work verified.
LEMMA VerifiedInductive ==
    ASSUME TypeOK, OpSound, VerifiedPastTheGate, [Next]_vars
    PROVE  VerifiedPastTheGate'
<1> USE DEF VerifiedPastTheGate
<1>1. CASE Save
  <2>1. Pending(op) /\ disk' = op.sm /\ verified' = VerifiedAfter(op.sm)
    BY <1>1, HeadTellsPhase DEF Save
  <2>2. ASSUME op.sm.stage \in Past PROVE verified' # "none"
    <3>1. AtStage(Past) => verified # "none"
      BY DEF Past
    <3>2. AtGate => op.sm.stage # "QUALITY_GATE"
      BY <2>2 DEF Past
    <3>3. AtStage(Past) => ~AtGate
      BY DEF Past, AtGate, AtStage
    <3> QED BY <2>1, <2>2, <3>1, <3>2, <3>3
            DEF Pending, Warrants, VerifiedAfter, AtGate
  <2> QED BY <2>1, <2>2 DEF AtStage, Past
<1>2. CASE Scaffold \/ DetachWorktree
  <2>1. disk = op.sm /\ op.sm \in Checkpoint /\ UNCHANGED verified
    BY <1>2, HeadTellsPhase DEF Scaffold, DetachWorktree, Written, Running, TypeOK, Ops
  <2>2. disk'.stage = disk.stage /\ HasCheckpoint
    BY <1>2, <2>1, ConstantsAssumption DEF Scaffold, DetachWorktree, Checkpoint, HasCheckpoint
  <2> QED BY <2>1, <2>2 DEF AtStage
<1>3. CASE UNCHANGED <<disk, verified>>
  BY <1>3 DEF AtStage, HasCheckpoint
<1>4. CASE \E all \in BOOLEAN : ResetPipeline(all)
  BY <1>4 DEF ResetPipeline, AtStage, HasCheckpoint
<1>5. StartCommand => UNCHANGED <<disk, verified>>
  BY CommandsBegin DEF Begun, BegunWith, Begin
<1> QED
  BY <1>1, <1>2, <1>3, <1>4, <1>5
     DEF Next, Write, ClearReport, FileMeasured, CreateWorktree, RemoveWorktree, Die,
         ReadForReport, FileReport, AbandonReport, EditPlan, vars

\* No path, interleaving or crash brings unverified work to review, to the commit
\* gate or to completion, with any plans, deviations and number of rounds.
THEOREM WorkIsVerifiedPastTheGate == Spec => []VerifiedPastTheGate
<1>1. Init => TypeOK /\ OpShape /\ OpSound /\ VerifiedPastTheGate
  BY DEF Init, TypeOK, OpShape, OpSound, Verifications, VerifiedPastTheGate, AtStage, HasCheckpoint
<1>2. TypeOK /\ OpShape /\ OpSound /\ VerifiedPastTheGate /\ [Next]_vars
        => TypeOK' /\ OpShape' /\ OpSound' /\ VerifiedPastTheGate'
  BY TypeInductive, ShapeInductive, OpSoundInductive, VerifiedInductive
<1> QED BY <1>1, <1>2, PTL DEF Spec

\* A step from the loop into the loop preserves the plan's record.
LEMMA LoopStepPreserves ==
    ASSUME TypeOK, OpSound, [Next]_vars, InLoop, InLoop'
    PROVE  Preserves(disk, disk')
<1>1. CASE Save
  <2>1. Keeps(op.sm) /\ disk' = op.sm
    BY <1>1, HeadTellsPhase DEF Save, Pending
  <2>2. op.sm.stage \in LoopStages
    BY <2>1 DEF InLoop, AtStage
  <2> QED BY <2>1, <2>2 DEF Keeps
<1>2. CASE Scaffold \/ DetachWorktree
  <2>1. disk = op.sm /\ op.sm \in Checkpoint
    BY <1>2, HeadTellsPhase DEF Scaffold, DetachWorktree, Written, Running, TypeOK, Ops
  <2> QED BY <1>2, <2>1 DEF Scaffold, DetachWorktree, Checkpoint, Preserves
<1>3. CASE UNCHANGED disk
  BY <1>3, PreservesSame
<1>4. CASE \E all \in BOOLEAN : ResetPipeline(all)
  BY <1>4 DEF ResetPipeline, InLoop, AtStage, HasCheckpoint
<1>5. StartCommand => UNCHANGED disk
  BY CommandsBegin DEF Begun, BegunWith, Begin
<1> QED
  BY <1>1, <1>2, <1>3, <1>4, <1>5
     DEF Next, Write, ClearReport, FileMeasured, CreateWorktree, RemoveWorktree, Die,
         ReadForReport, FileReport, AbandonReport, EditPlan, vars

\* No retry, self-correction, triage or crash within the loop changes the digest
\* of an approved plan, however the document is edited meanwhile.
THEOREM DigestStaysFrozen == Spec => DigestFrozenInLoop
<1>1. Init => TypeOK /\ OpShape /\ OpSound
  BY DEF Init, TypeOK, OpShape, OpSound, Verifications
<1>2. TypeOK /\ OpShape /\ OpSound /\ [Next]_vars => TypeOK' /\ OpShape' /\ OpSound'
  BY TypeInductive, ShapeInductive, OpSoundInductive
<1>3. TypeOK /\ OpSound /\ [Next]_vars
        => [InLoop /\ InLoop' /\ disk.approvedPlanDigest # NoPlan
              => disk'.approvedPlanDigest = disk.approvedPlanDigest]_vars
  BY LoopStepPreserves DEF Preserves
<1> QED BY <1>1, <1>2, <1>3, PTL DEF Spec, DigestFrozenInLoop

\* ... nor does it drop a deviation filed against the plan or its acknowledgement.
THEOREM DeviationsStayOnRecord == Spec => DeviationsKeptInLoop
<1>1. Init => TypeOK /\ OpShape /\ OpSound
  BY DEF Init, TypeOK, OpShape, OpSound, Verifications
<1>2. TypeOK /\ OpShape /\ OpSound /\ [Next]_vars => TypeOK' /\ OpShape' /\ OpSound'
  BY TypeInductive, ShapeInductive, OpSoundInductive
<1>3. TypeOK /\ OpSound /\ [Next]_vars
        => [InLoop /\ InLoop' => /\ disk.planDeviations \subseteq disk'.planDeviations
                                 /\ disk.acknowledged \subseteq disk'.acknowledged]_vars
  BY LoopStepPreserves DEF Preserves
<1> QED BY <1>1, <1>2, <1>3, PTL DEF Spec, DeviationsKeptInLoop


-----------------------------------------------------------------------------
(* The gate's contract.                                                    *)

Live(r) == r # NoReport /\ r.ofThisVisit

\* The writes of a command that has its save before it.
Unsaved(todo) ==
    todo \in {<<"save">>, <<"createWorktree", "save">>, <<"clear", "save">>, <<"save", "clear">>,
              <<"createWorktree", "save", "clear">>, <<"save", "file">>,
              <<"save", "removeWorktree", "detach">>, <<"save", "scaffold">>}

\* A command about to certify has this visit's evidence; and a report that waits
\* to be written since an earlier visit has let no later one be filed.
EvidenceStands ==
    /\ op # Idle /\ Unsaved(op.todo) /\ op.exit = "certified" /\ AtGate
         => Live(report) /\ op.sm.stage # "QUALITY_GATE"
    /\ AtGate /\ Live(report) /\ filing # NoReport => filing.ofThisVisit

\* The contract's view of the gate, by its parts, before and after a step.
LEMMA GateSeen ==
    /\ ContractGate = IF ~AtGate THEN "away" ELSE IF Live(report) THEN "evidenced" ELSE "waiting"
    /\ ContractGate' = IF ~AtGate' THEN "away" ELSE IF Live(report') THEN "evidenced" ELSE "waiting"
BY DEF ContractGate, AtGate, Live

\* A save that enters the gate starts a visit without evidence, one that stays
\* keeps what is there.
LEMMA ReportAfterSave ==
    ASSUME NEW r \in Reports \union {NoReport}, NEW sm
    PROVE  /\ r = NoReport => StillThisVisit(r, sm) = NoReport
           /\ Live(StillThisVisit(r, sm)) => Live(r) /\ AtGate /\ sm.stage = "QUALITY_GATE"
           /\ Live(r) /\ AtGate /\ sm.stage = "QUALITY_GATE" => StillThisVisit(r, sm) = r
<1>1. CASE r = NoReport
  BY <1>1 DEF StillThisVisit, Live
<1>2. CASE r # NoReport
  <2>1. PICK live \in BOOLEAN : live <=> r.ofThisVisit /\ AtGate /\ sm.stage = "QUALITY_GATE"
    OBVIOUS
  <2>2. StillThisVisit(r, sm) = [r EXCEPT !.ofThisVisit = live]
    <3>1. (r.ofThisVisit /\ AtStage({"QUALITY_GATE"}) /\ sm.stage = "QUALITY_GATE") = live
      BY <2>1 DEF AtGate
    <3> QED BY <1>2, <3>1 DEF StillThisVisit
  <2>3. StillThisVisit(r, sm).ofThisVisit = live
    BY <1>2, <2>2 DEF Reports
  <2>4. live /\ r.ofThisVisit => [r EXCEPT !.ofThisVisit = live] = r
    BY <1>2 DEF Reports
  <2> QED BY <1>2, <2>1, <2>2, <2>3, <2>4 DEF Live
<1> QED BY <1>1, <1>2

\* A save leaves the visit's evidence as it was, or starts or ends a visit.
LEMMA SaveKeepsEvidence ==
    ASSUME TypeOK, OpSound, EvidenceStands, Save
    PROVE  EvidenceStands'
<1>1. /\ disk' = op.sm /\ report' = StillThisVisit(report, op.sm)
      /\ filing' = StillThisVisit(filing, op.sm)
  BY DEF Save
<1>2. op' # Idle => ~Unsaved(op'.todo)
  <2>1. op \in Ops
    BY DEF Save, Running, TypeOK
  <2>2. op.todo \in {<<"save">>, <<"save", "clear">>, <<"save", "file">>,
                     <<"save", "removeWorktree", "detach">>, <<"save", "scaffold">>}
    BY HeadTellsPhase DEF Save
  <2>3. ASSUME op' # Idle
        PROVE  op'.todo \in {<<"clear">>, <<"file">>, <<"removeWorktree", "detach">>,
                             <<"scaffold">>}
    <3>1. op.todo # <<"save">> /\ op' = [op EXCEPT !.todo = Tail(op.todo)]
      BY <2>3, HeadsAndTails DEF Save, Advance
    <3>2. op'.todo = Tail(op.todo)
      BY <2>1, <3>1 DEF Ops
    <3> QED BY <2>2, <3>1, <3>2, HeadsAndTails
  <2> QED BY <2>3 DEF Unsaved
<1>3. ASSUME AtGate', Live(report'), filing' # NoReport
      PROVE  filing'.ofThisVisit
  <2>1. op.sm.stage = "QUALITY_GATE"
    BY <1>1, <1>3 DEF AtGate, AtStage
  <2>2. Live(report) /\ AtGate /\ filing # NoReport
    BY <1>1, <1>3, ReportAfterSave DEF TypeOK
  <2>3. Live(filing)
    BY <2>2 DEF EvidenceStands, Live
  <2>4. filing' = filing
    BY <1>1, <2>1, <2>2, <2>3, ReportAfterSave DEF TypeOK
  <2> QED BY <2>3, <2>4 DEF Live
<1> QED BY <1>2, <1>3 DEF EvidenceStands, Live

\* Away from the gate there is nothing to stand.
LEMMA NothingStandsAway ==
    ASSUME ~AtGate'
    PROVE  EvidenceStands'
BY DEF EvidenceStands

\* Only preparations, and what follows a save away from the gate, write besides.
LEMMA WriteKeepsEvidence ==
    ASSUME TypeOK, OpSound, EvidenceStands, Write
    PROVE  EvidenceStands'
<1>1. CASE Save
  BY <1>1, SaveKeepsEvidence
<1>2. CASE CreateWorktree
  <2>1. /\ op \in Ops /\ UNCHANGED <<disk, report, filing>> /\ op # Idle
        /\ op.todo \in {<<"createWorktree", "save">>, <<"createWorktree", "save", "clear">>}
    BY <1>2, HeadTellsPhase DEF CreateWorktree, Running, TypeOK
  <2>2. op' = [op EXCEPT !.todo = Tail(op.todo)]
    BY <1>2, <2>1 DEF CreateWorktree, Advance
  <2>3. op'.sm = op.sm /\ op'.exit = op.exit /\ Unsaved(op.todo)
    BY <2>1, <2>2 DEF Ops, Unsaved
  <2> QED BY <2>1, <2>3 DEF EvidenceStands, AtGate, AtStage, HasCheckpoint, Live
<1>3. CASE Scaffold \/ DetachWorktree
  <2>1. op.sm \in Checkpoint /\ op.sm.stage # "QUALITY_GATE"
    BY <1>3, HeadTellsPhase DEF Scaffold, DetachWorktree, Written, Running, TypeOK, Ops
  <2>2. disk'.stage # "QUALITY_GATE"
    BY <1>3, <2>1 DEF Scaffold, DetachWorktree, Checkpoint
  <2> QED BY <2>2, NothingStandsAway DEF AtGate, AtStage
<1>4. CASE ClearReport \/ FileMeasured \/ RemoveWorktree
  <2>1. ~AtGate
    BY <1>4, HeadTellsPhase, HeadsAndTails
       DEF ClearReport, FileMeasured, RemoveWorktree, Written, Pending, Opening, AtGate, AtStage
  <2>2. UNCHANGED disk
    BY <1>4 DEF ClearReport, FileMeasured, RemoveWorktree
  <2> QED BY <2>1, <2>2, NothingStandsAway DEF AtGate, AtStage, HasCheckpoint
<1> QED BY <1>1, <1>2, <1>3, <1>4 DEF Write

\* The evidence a certifying command found stands until its save.
LEMMA EvidenceStandsInductive ==
    ASSUME TypeOK, OpSound, RoundsDate, EvidenceStands, "restart" \notin Commands, [Next]_vars
    PROVE  EvidenceStands'
<1>1. CASE StartCommand
  <2>1. PICK sm, todo, exit : BegunWith(sm, todo, exit)
    BY <1>1, CommandsBegin DEF Begun
  <2>2. /\ op' = [sm |-> sm, todo |-> todo, exit |-> exit]
        /\ UNCHANGED <<disk, report, filing>> /\ Accepted(sm, exit)
    BY <2>1 DEF BegunWith, Begin
  <2>3. op'.sm = sm /\ op'.exit = exit
    BY <2>2
  <2>4. exit = "certified" /\ AtGate => Live(report) /\ sm.stage # "QUALITY_GATE"
    BY <2>2, DatedEvidence DEF Accepted, EvidenceIsOfThisVisit, AtGate, Live
  <2>5. AtGate' <=> AtGate
    BY <2>2 DEF AtGate, AtStage, HasCheckpoint
  <2> QED BY <2>2, <2>3, <2>4, <2>5 DEF EvidenceStands, Live
<1>2. CASE Write
  BY <1>2, WriteKeepsEvidence
<1>3. CASE \E verdict \in GateVerdicts : ReadForReport(verdict)
  <2>1. filing'.ofThisVisit = TRUE /\ UNCHANGED <<disk, report, op>>
    BY <1>3 DEF ReadForReport
  <2> QED BY <2>1 DEF EvidenceStands, AtGate, AtStage, HasCheckpoint, Live
<1>4. CASE FileReport
  <2>1. report' = filing /\ filing' = NoReport /\ filing # NoReport /\ UNCHANGED <<disk, op>>
    BY <1>4 DEF FileReport
  <2>2. AtGate' <=> AtGate
    BY <2>1 DEF AtGate, AtStage, HasCheckpoint
  <2>3. AtGate /\ Live(report) => Live(filing)
    BY <2>1 DEF EvidenceStands, Live
  <2> QED BY <2>1, <2>2, <2>3 DEF EvidenceStands, Live
<1>5. CASE AbandonReport \/ EditPlan \/ UNCHANGED vars
  <2>1. UNCHANGED <<disk, report, op>> /\ filing' \in {filing, NoReport}
    BY <1>5 DEF AbandonReport, EditPlan, vars
  <2> QED BY <2>1 DEF EvidenceStands, AtGate, AtStage, HasCheckpoint, Live
<1>6. CASE Die
  BY <1>6 DEF Die, EvidenceStands, AtGate, AtStage, HasCheckpoint, Live
<1>7. CASE \E all \in BOOLEAN : ResetPipeline(all)
  BY <1>7 DEF ResetPipeline
<1> QED BY <1>1, <1>2, <1>3, <1>4, <1>5, <1>6, <1>7 DEF Next

\* A save is a step of the contract: it arrives, certifies, leaves or does neither.
LEMMA SaveRefines ==
    ASSUME TypeOK, OpSound, EvidenceStands, Save
    PROVE  [Contract!ContractNext]_(Contract!contractVars)
<1> USE DEF Contract!ContractNext, Contract!contractVars
<1>1. /\ Pending(op) /\ op # Idle /\ op.exit \in Verifications /\ op.sm \in Checkpoint
      /\ disk' = op.sm /\ report' = StillThisVisit(report, op.sm)
      /\ verified' = VerifiedAfter(op.sm)
  BY HeadTellsPhase DEF Save, Running, TypeOK, Ops
<1>2. Unsaved(op.todo)
  BY <1>1 DEF Pending, Opening, Unsaved
<1>3. AtGate' <=> op.sm.stage = "QUALITY_GATE"
  BY <1>1, ConstantsAssumption DEF AtGate, AtStage, HasCheckpoint
<1>4. op.sm.stage = "QUALITY_GATE" => op.exit # "measured"
  BY <1>1 DEF Pending, Warrants
<1>5. /\ Live(report') => Live(report) /\ AtGate
      /\ Live(report) /\ AtGate /\ op.sm.stage = "QUALITY_GATE" => report' = report
  BY <1>1, ReportAfterSave DEF TypeOK
<1>6. CASE AtGate /\ op.sm.stage = "QUALITY_GATE"
  <2>1. ContractGate' = ContractGate
    BY <1>3, <1>5, <1>6, GateSeen
  <2>2. verified' = verified
    BY <1>1, <1>4, <1>6 DEF VerifiedAfter
  <2> QED BY <2>1, <2>2
<1>7. CASE AtGate /\ op.sm.stage # "QUALITY_GATE"
  <2>1. ContractGate' = "away"
    BY <1>3, <1>7, GateSeen
  <2>2. verified' \in {"waived", "measured", op.exit}
    BY <1>1, <1>7 DEF VerifiedAfter, AtGate
  <2>3. CASE verified' = "certified"
    <3>1. op.exit = "certified"
      BY <2>2, <2>3
    <3>2. Live(report)
      BY <1>1, <1>2, <1>7, <3>1 DEF EvidenceStands
    <3>3. ContractGate = "evidenced"
      BY <1>7, <3>2, GateSeen
    <3>4. Contract!Certify
      BY <2>1, <2>3, <3>3 DEF Contract!Certify
    <3> QED BY <3>4
  <2>4. CASE verified' # "certified"
    <3>1. Contract!Leave
      BY <1>1, <2>1, <2>2, <2>4 DEF Contract!Leave, Verifications
    <3> QED BY <3>1
  <2> QED BY <2>3, <2>4
<1>8. CASE ~AtGate /\ op.sm.stage = "QUALITY_GATE"
  <2>1. ContractGate = "away" /\ ContractGate' = "waiting"
    BY <1>3, <1>5, <1>8, GateSeen
  <2>2. verified' = verified
    BY <1>1, <1>4, <1>8 DEF VerifiedAfter, AtGate
  <2>3. Contract!Arrive
    BY <2>1, <2>2 DEF Contract!Arrive
  <2> QED BY <2>3
<1>9. CASE ~AtGate /\ op.sm.stage # "QUALITY_GATE"
  <2>1. ContractGate = "away" /\ ContractGate' = "away"
    BY <1>3, <1>9, GateSeen
  <2>2. verified' \in {"waived", "measured", verified}
    BY <1>1, <1>9 DEF VerifiedAfter, AtGate
  <2>3. CASE verified' = verified
    BY <2>1, <2>3
  <2>4. CASE verified' # verified
    <3>1. Contract!Leave
      BY <2>1, <2>2, <2>4 DEF Contract!Leave
    <3> QED BY <3>1
  <2> QED BY <2>3, <2>4
<1> QED BY <1>6, <1>7, <1>8, <1>9

\* Filing a report during a visit is the contract's File; a late one is not seen.
LEMMA FileRefines ==
    ASSUME EvidenceStands, FileReport
    PROVE  [Contract!ContractNext]_(Contract!contractVars)
<1>1. report' = filing /\ filing # NoReport /\ UNCHANGED <<disk, verified>>
  BY DEF FileReport
<1>2. AtGate' <=> AtGate
  BY <1>1 DEF AtGate, AtStage, HasCheckpoint
<1>3. AtGate /\ Live(report) => Live(report')
  BY <1>1 DEF EvidenceStands, Live
<1>4. ContractGate' = ContractGate \/ (ContractGate = "waiting" /\ ContractGate' = "evidenced")
  BY <1>2, <1>3, GateSeen
<1>5. CASE ContractGate' = ContractGate
  BY <1>1, <1>5 DEF Contract!contractVars
<1>6. CASE ContractGate = "waiting" /\ ContractGate' = "evidenced"
  <2>1. Contract!File
    BY <1>1, <1>6 DEF Contract!File
  <2> QED BY <2>1 DEF Contract!ContractNext
<1> QED BY <1>4, <1>5, <1>6

\* Nothing else shows at the gate: the writes around a save happen away from it,
\* and commands that start, die or wait change nothing the contract sees.
LEMMA OthersStutter ==
    ASSUME TypeOK, OpSound, "restart" \notin Commands, [Next]_vars, ~Save, ~FileReport
    PROVE  UNCHANGED (Contract!contractVars)
<1>1. CASE UNCHANGED <<disk, report, verified>>
  <2>1. ContractGate' = ContractGate
    BY <1>1 DEF ContractGate, AtStage, HasCheckpoint
  <2> QED BY <1>1, <2>1 DEF Contract!contractVars
<1>2. ASSUME ~AtGate, ~AtGate', UNCHANGED verified
      PROVE  UNCHANGED (Contract!contractVars)
  BY <1>2, GateSeen DEF Contract!contractVars
<1>3. CASE ClearReport \/ FileMeasured
  <2>1. ~AtGate /\ UNCHANGED <<disk, verified>>
    BY <1>3, HeadTellsPhase, HeadsAndTails
       DEF ClearReport, FileMeasured, Written, Pending, Opening, AtGate, AtStage
  <2> QED BY <1>2, <2>1 DEF AtGate, AtStage, HasCheckpoint
<1>4. CASE Scaffold \/ DetachWorktree
  <2>1. disk = op.sm /\ op.sm \in Checkpoint /\ op.sm.stage # "QUALITY_GATE" /\ UNCHANGED verified
    BY <1>4, HeadTellsPhase DEF Scaffold, DetachWorktree, Written, Running, TypeOK, Ops
  <2>2. disk'.stage # "QUALITY_GATE"
    BY <1>4, <2>1 DEF Scaffold, DetachWorktree, Checkpoint
  <2> QED BY <1>2, <2>1, <2>2 DEF AtGate, AtStage
<1>5. StartCommand => UNCHANGED <<disk, report, verified>>
  BY CommandsBegin DEF Begun, BegunWith, Begin
<1>6. ~(\E all \in BOOLEAN : ResetPipeline(all))
  BY DEF ResetPipeline
<1> QED
  BY <1>1, <1>3, <1>4, <1>5, <1>6
     DEF Next, Write, CreateWorktree, RemoveWorktree, Die, ReadForReport, AbandonReport, EditPlan,
         vars

\* The pipeline implements the gate's contract for all plans, deviations, commands
\* and bounds, as long as nothing starts a history over: whatever dies, is late or
\* fails to be removed, no visit of the gate inherits evidence, live evidence
\* survives refused and failed exits, and only a visit with evidence is certified.
THEOREM PipelineKeepsTheContract ==
    ASSUME "restart" \notin Commands
    PROVE  Spec => ContractRefinement
<1>1. Init => TypeOK /\ OpShape /\ OpSound /\ RoundsDate /\ EvidenceStands
  BY DEF Init, TypeOK, OpShape, OpSound, Verifications, RoundsDate, Dated, HasCheckpoint,
         EvidenceStands
<1>2. TypeOK /\ OpShape /\ OpSound /\ RoundsDate /\ EvidenceStands /\ [Next]_vars
        => TypeOK' /\ OpShape' /\ OpSound' /\ RoundsDate' /\ EvidenceStands'
  BY TypeInductive, ShapeInductive, OpSoundInductive, RoundsDateInductive,
     EvidenceStandsInductive
<1>3. Init => Contract!ContractInit
  BY DEF Init, Contract!ContractInit, ContractGate, AtStage, HasCheckpoint
<1>4. TypeOK /\ OpSound /\ EvidenceStands /\ [Next]_vars
        => [Contract!ContractNext]_(Contract!contractVars)
  BY SaveRefines, FileRefines, OthersStutter
<1> QED BY <1>1, <1>2, <1>3, <1>4, PTL DEF Spec, ContractRefinement, Contract!ContractSpec

=============================================================================
