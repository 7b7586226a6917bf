------------------------------ MODULE DriverProofs ------------------------------
(***************************************************************************)
(* What holds of the two that drive a task through its lifecycle, for any  *)
(* of their constants: the run of the lifecycle driver, whatever fails and *)
(* whatever agents, people and GitHub do meanwhile, and the agent that     *)
(* follows `next`, which is Loop in MCAgentLoop.                           *)
(***************************************************************************)
EXTENDS LifecycleRun, MCAgentLoop, TLAPS

-----------------------------------------------------------------------------
(* The run of the driver: its steps, and what holds between them.          *)

Steps == {"preflight", "enter", "route", "planning", "provision", "implement", "probe",
          "gate", "breaker", "review", "commit"}
Diffs == {None, "changes", "empty", "unmeasured changes", "unmeasured", "unprobed"}

Kinds == {"nothing", "error", "already completed", "halted", "triage", "planned", "parked",
          "result", "stopped", "vacuous", "gates failed", "warned", "breaker",
          "breaker unsaved", "changes requested", "paused"}

\* A run in progress.
Runs ==
    [at : Steps, mode : Modes, about : {"task", "other", None}, commitAfter : BOOLEAN,
     feedback : BOOLEAN, delivered : BOOLEAN, loaded : Checkpoint \union {NoCheckpoint},
     bound : BOOLEAN, found : BOOLEAN, diff : Diffs, own : BOOLEAN]

\* What is saved, and what the world around the run is.
Saved == ck \in Checkpoint \union {NoCheckpoint}

World ==
    /\ github \in [closed : BOOLEAN, prs : Seq(PullRequests)]
    /\ workspace \in [tree : BOOLEAN, changes : SUBSET (Evidence \union NoEvidence), report : BOOLEAN]
    /\ news \in 0 .. MaxNews
    /\ trouble \in 0 .. MaxTrouble

\* A run that is past its entry has a checkpoint.
HasCheckpoint == run.at \notin {"idle", "preflight", "enter"} => ck \in Checkpoint

\* The pre-flight let the run go on.
NotDelivered == run # Idle => ~run.delivered

\* The probe measures what was implemented, and the gate is asked for nothing else.
GateJustified ==
    /\ run.at = "probe" => ck.stage = "IMPLEMENT"
    /\ run.at = "gate" /\ ck.stage = "IMPLEMENT" =>
        \/ run.own
        \/ run.diff \in {"unprobed", "empty"}
        \/ run.diff = "unmeasured" /\ run.mode # "yolo"

Early == {"preflight", "enter", "route", "provision", "implement"}

\* Until it implements, `implement` has not moved the task it loaded.
LoadedStage ==
    run.at \in Early /\ run.mode = "implement" /\ run.loaded # NoCheckpoint
        => ck.stage = run.loaded.stage

RunSound ==
    /\ run \in Runs \union {Idle}
    /\ said \in [kind : Kinds, stage : Stages \union {None}]
    /\ HasCheckpoint /\ NotDelivered /\ GateJustified /\ LoadedStage /\ WhatWasSaidIsSo

RunInv == Saved /\ World /\ RunSound

-----------------------------------------------------------------------------
\* The state machine's methods keep a checkpoint one, and lead where they say.
LEMMA MovedIsCheckpoint ==
    ASSUME NEW s \in Checkpoint, NEW to \in Stages
    PROVE  Move(s, to) \in Checkpoint /\ Move(s, to).stage = to
<1> DEFINE
      mode == IF s.mode = "plan" /\ to \notin PLAN_PHASE_STAGES THEN "standard" ELSE s.mode
      filed == IF EndsDeviationRound(s.stage, to) THEN {} ELSE s.planDeviations
      seen == IF EndsDeviationRound(s.stage, to) THEN {} ELSE s.acknowledged
      pause == IF to = "COMPLETED" \/ s.pausedAtGate \notin HUMAN_WAIT_GATES
               THEN NoGate ELSE s.pausedAtGate
<1>1. Move(s, to) = [s EXCEPT !.stage = to, !.mode = mode, !.gateRounds = 0,
                              !.planDeviations = filed, !.acknowledged = seen,
                              !.pausedAtGate = pause]
  BY DEF Move, Transition, Checkpoint
<1>2. /\ mode \in EXECUTION_MODES /\ filed \in SUBSET Deviations /\ seen \in SUBSET Deviations
      /\ pause \in Gates \union {NoGate}
  BY DEF Checkpoint, EXECUTION_MODES
<1> HIDE DEF mode, filed, seen, pause
<1>3. 0 \in Nat
  OBVIOUS
<1>4. Move(s, to).stage = to
  BY <1>1 DEF Checkpoint
<1>5. Move(s, to) \in Checkpoint
  BY <1>1, <1>2, <1>3 DEF Checkpoint
<1> QED BY <1>4, <1>5

\* A pause makes a checkpoint of a checkpoint.
LEMMA PausedIsCheckpoint ==
    ASSUME NEW s \in Checkpoint, NEW gate \in Gates
    PROVE  /\ PauseAtGate(s, gate) \in Checkpoint
           /\ PauseAtGate(s, gate).stage = s.stage
           /\ PauseAtGate(s, gate).pausedAtGate # NoGate
           /\ ResumeFromGate(s) \in Checkpoint
           /\ ResumeFromGate(s).stage = s.stage
BY DEF PauseAtGate, ResumeFromGate, Checkpoint, Gates, HUMAN_WAIT_GATES, NoGate

\* No checkpoint is told from one by its stage.
LEMMA EmptyIsNone == NoCheckpoint \notin Checkpoint /\ NoCheckpoint.stage \notin Stages /\ None \notin Stages
BY DEF NoCheckpoint, Checkpoint, Stages, None

\* A run in progress is not the idle one.
LEMMA NotIdle == \A r \in Runs : r # Idle /\ r.at # "idle" /\ r.at \in Steps
BY DEF Runs, Idle, Steps

\* A run that reports has ended, and what it said is so if it was told right.
LEMMA ReportsSound ==
    ASSUME NEW kind \in Kinds, NEW stage \in Stages \union {None}, Reports(kind, stage),
           stage # None => ck'.stage = stage,
           kind = "breaker" => ck'.pausedAtGate # NoGate
    PROVE  RunSound'
BY DEF Reports, RunSound, HasCheckpoint, NotDelivered, GateJustified, LoadedStage,
   WhatWasSaidIsSo, Idle, Early

\* A run that throws says so and leaves the rest.
LEMMA ThrowsSound ==
    ASSUME Throws
    PROVE  RunSound'
<1>1. Reports("error", None)
  BY DEF Throws
<1>2. "error" \in Kinds /\ None \in Stages \union {None}
  BY DEF Kinds
<1> QED BY <1>1, <1>2, ReportsSound

\* A run that goes on has said nothing yet.
LEMMA ContinuesSound ==
    ASSUME RunSound, run \in Runs, NEW at \in Steps, Continues(at),
           ck' \in Checkpoint,
           at = "gate" => ck'.stage # "IMPLEMENT",
           at = "probe" => ck'.stage = "IMPLEMENT",
           at \in Early /\ run.mode = "implement" => run.at \in Early /\ ck'.stage = ck.stage
    PROVE  RunSound'
<1>1. run' \in Runs /\ run'.at = at /\ run'.delivered = run.delivered
      /\ run'.mode = run.mode /\ run'.loaded = run.loaded
  BY DEF Continues, Runs, Diffs
<1> QED BY <1>1, NotIdle DEF Continues, RunSound, HasCheckpoint, NotDelivered, GateJustified,
     LoadedStage, WhatWasSaidIsSo, Early

\* A run goes on with what it knows.
LEMMA ProceedsSound ==
    ASSUME RunSound, run \in Runs, NEW stage \in Stages, Proceeds(stage), run.mode # "implement",
           ck' \in Checkpoint, ck'.stage = stage
    PROVE  RunSound'
<1>1. CASE Onward(stage) = "idle"
  <2>1. PICK kind \in {"stopped", "result"} : Reports(kind, stage)
    BY <1>1 DEF Proceeds
  <2>2. kind \in Kinds /\ kind # "breaker"
    BY DEF Kinds
  <2> QED BY <2>1, <2>2, ReportsSound
<1>2. CASE Onward(stage) # "idle"
  <2>1. Onward(stage) \in Steps /\ (Onward(stage) = "gate" => stage # "IMPLEMENT")
        /\ (Onward(stage) = "probe" => stage = "IMPLEMENT")
    BY <1>2 DEF Onward, Steps
  <2> QED BY <1>2, <2>1, ContinuesSound DEF Proceeds
<1> QED BY <1>1, <1>2

-----------------------------------------------------------------------------
\* Nothing said is so.
LEMMA SayingNothing ==
    ASSUME said' = Nothing
    PROVE  said' \in [kind : Kinds, stage : Stages \union {None}] /\ WhatWasSaidIsSo'
BY DEF Nothing, Kinds, WhatWasSaidIsSo

\* What is said of a checkpoint that is there is so.
LEMMA SayingSo ==
    ASSUME NEW kind \in Kinds \ {"breaker"}, NEW stage \in Stages \union {None},
           said' = [kind |-> kind, stage |-> stage],
           stage # None => ck'.stage = stage
    PROVE  said' \in [kind : Kinds, stage : Stages \union {None}] /\ WhatWasSaidIsSo'
BY DEF WhatWasSaidIsSo

\* Idle runs end nowhere: a step that leaves them alone keeps what they said so.
LEMMA QuietSound ==
    ASSUME RunSound, UNCHANGED run, said' = Nothing \/ (UNCHANGED said /\ UNCHANGED ck),
           Saved', ck \in Checkpoint => ck' \in Checkpoint,
           run # Idle => UNCHANGED ck
    PROVE  RunSound'
<1>1. run' = run /\ run \in Runs \union {Idle} /\ NotDelivered' /\ HasCheckpoint'
  BY DEF RunSound, HasCheckpoint, NotDelivered
<1>2. GateJustified' /\ LoadedStage'
  BY <1>1 DEF RunSound, GateJustified, LoadedStage, Idle, Early
<1>3. CASE said' = Nothing
  BY <1>1, <1>2, <1>3, SayingNothing DEF RunSound
<1>4. CASE UNCHANGED said /\ UNCHANGED ck
  BY <1>1, <1>2, <1>4 DEF RunSound, WhatWasSaidIsSo
<1> QED BY <1>3, <1>4

\* A run past its entry works on a checkpoint.
LEMMA RunWorks ==
    ASSUME RunInv, run.at \in Steps \ {"preflight", "enter"}
    PROVE  run \in Runs /\ ck \in Checkpoint /\ Stage \in Stages /\ ck.stage = Stage
<1>1. run \in Runs
  BY DEF RunInv, RunSound, Idle, Steps
<1>2. ck \in Checkpoint
  BY DEF RunInv, RunSound, HasCheckpoint, Steps
<1> QED BY <1>1, <1>2 DEF Checkpoint, Stage

\* Failures stay within their bound.
LEMMA FailsWithinBound == Fails /\ trouble \in 0 .. MaxTrouble => trouble' \in 0 .. MaxTrouble
BY RunAssumption DEF Fails

\* A run that begins knows nothing yet.
LEMMA ExecuteSound ==
    ASSUME RunInv, NEW mode \in Modes, NEW about \in {"task", "other", None},
           NEW commitAfter \in BOOLEAN, Execute(mode, about, commitAfter)
    PROVE  RunInv'
<1>1. Saved' /\ UNCHANGED ck
  BY DEF Execute, RunInv, Saved
<1>2. World'
  BY FailsWithinBound DEF Execute, RunInv, World
<1>3. CASE UNCHANGED run /\ said' = [kind |-> "already completed", stage |-> "COMPLETED"]
           /\ Stage = "COMPLETED"
  <2>1. said' \in [kind : Kinds, stage : Stages \union {None}] /\ WhatWasSaidIsSo'
    BY <1>1, <1>3, SayingSo DEF Kinds, Stages, Stage
  <2> QED BY <1>1, <1>2, <1>3, <2>1 DEF RunInv, RunSound, HasCheckpoint, NotDelivered,
      GateJustified, LoadedStage
<1>4. CASE UNCHANGED run /\ said' = [kind |-> "error", stage |-> None]
  <2>1. said' \in [kind : Kinds, stage : Stages \union {None}] /\ WhatWasSaidIsSo'
    BY <1>4, SayingSo DEF Kinds
  <2> QED BY <1>1, <1>2, <1>4, <2>1 DEF RunInv, RunSound, HasCheckpoint, NotDelivered,
      GateJustified, LoadedStage
<1>5. CASE said' = Nothing
  <2>1. /\ run' \in Runs /\ run'.at \in {"enter", "preflight"} /\ ~run'.delivered
        /\ run' # Idle /\ (run'.mode = "implement" => run'.loaded = ck)
    <3>1. run' = [at |-> IF about = None THEN "enter" ELSE "preflight",
                     mode |-> mode, about |-> about, commitAfter |-> commitAfter,
                     feedback |-> FALSE, delivered |-> FALSE,
                     loaded |-> IF mode = "implement" THEN ck ELSE NoCheckpoint,
                     bound |-> FALSE, found |-> FALSE, diff |-> None, own |-> FALSE]
      BY <1>5 DEF Execute, Nothing
    <3>2. (IF about = None THEN "enter" ELSE "preflight") \in Steps
      BY DEF Steps
    <3>3. (IF mode = "implement" THEN ck ELSE NoCheckpoint) \in Checkpoint \union {NoCheckpoint}
      BY DEF RunInv, Saved
    <3> QED BY <3>1, <3>2, <3>3 DEF Runs, Diffs, Idle
  <2> QED BY <1>1, <1>2, <1>5, <2>1, SayingNothing DEF RunInv, RunSound, HasCheckpoint,
      NotDelivered, GateJustified, LoadedStage
<1> QED BY <1>3, <1>4, <1>5 DEF Execute

\* What GitHub shows as delivered, without a failing query, stops the run.
LEMMA DeliveredHalts ==
    ASSUME NEW task, Delivered(task)
    PROVE  Halts(task, FindPullRequest(task.prs, {}), {})
BY DEF Delivered, Halts

\* The look at GitHub before the run ends it or lets it begin.
LEMMA PreFlightSound ==
    ASSUME RunInv, NEW task, NEW missed, PreFlight(task, missed)
    PROVE  RunInv'
<1> DEFINE pr == FindPullRequest(task.prs, missed)
<1>1. Saved' /\ World'
  BY FailsWithinBound DEF PreFlight, RunInv, Saved, World
<1>2. run \in Runs /\ run.at = "preflight"
  BY DEF PreFlight, RunInv, RunSound, Idle
<1>3. CASE Halts(task, pr, missed)
  <2>1. Reports("halted", None)
    BY <1>3 DEF PreFlight
  <2> QED BY <1>1, <2>1, ReportsSound DEF RunInv, Kinds
<1>4. CASE ~Halts(task, pr, missed)
  <2>1. missed = {} /\ run.about = "task" /\ Delivered(task) => FALSE
    BY <1>4, DeliveredHalts
  <2>2. PICK feedback \in BOOLEAN :
          run' = [run EXCEPT !.at = "enter", !.about = None, !.feedback = feedback,
                             !.delivered = FALSE] /\ UNCHANGED said
    BY <1>4, <2>1 DEF PreFlight
  <2>3. run' \in Runs /\ run'.at = "enter" /\ ~run'.delivered
        /\ run'.mode = run.mode /\ run'.loaded = run.loaded
    BY <1>2, <2>2 DEF Runs, Steps
  <2>4. UNCHANGED ck
    BY DEF PreFlight
  <2> QED BY <1>1, <1>2, <2>2, <2>3, <2>4, NotIdle DEF RunInv, RunSound, HasCheckpoint, NotDelivered,
      GateJustified, LoadedStage, Early, WhatWasSaidIsSo
<1> QED BY <1>3, <1>4

\* A task that starts, or starts over, has a checkpoint.
LEMMA FreshIsCheckpoint == CreateInitial("standard") \in Checkpoint /\ Reset("standard") \in Checkpoint
BY DEF CreateInitial, Reset, Checkpoint, Stages, EXECUTION_MODES, NoGate

\* A run enters its mode only for a task that GitHub does not show as delivered.
LEMMA EnterSound ==
    ASSUME RunInv, Enter
    PROVE  RunInv'
<1>1. run \in Runs /\ run.at = "enter"
  BY DEF Enter, RunInv, RunSound, Idle
<1>2. Entered \in Checkpoint
  BY FreshIsCheckpoint DEF Entered, RunInv, Saved
<1>3. Saved' /\ World'
  BY <1>2, FailsWithinBound DEF Enter, RunInv, Saved, World
<1>4. CASE ck' = Entered /\ Continues("route")
  <2>1. run' \in Runs /\ run'.at = "route" /\ run'.delivered = run.delivered
        /\ run'.mode = run.mode /\ run'.loaded = run.loaded
    BY <1>1, <1>4 DEF Continues, Runs, Diffs, Steps
  <2>2. LoadedStage'
    BY <1>1, <1>2, <1>4, <2>1, EmptyIsNone DEF RunInv, RunSound, LoadedStage, Entered, Stage,
       Early, Runs, Checkpoint
  <2> QED BY <1>1, <1>2, <1>3, <1>4, <2>1, <2>2, NotIdle DEF RunInv, RunSound, HasCheckpoint,
      NotDelivered, GateJustified, Continues, WhatWasSaidIsSo
<1>5. CASE Throws
  BY <1>3, <1>5, ThrowsSound DEF RunInv
<1> QED BY <1>4, <1>5 DEF Enter

\* Each mode goes to its first stage or says why not.
LEMMA RouteSound ==
    ASSUME RunInv, Route
    PROVE  RunInv'
<1> DEFINE moved == PauseAtGate(Move(ck, "TRIAGE"), "TRIAGE")
<1>1. run \in Runs /\ run.at = "route" /\ ck \in Checkpoint /\ Stage \in Stages /\ ck.stage = Stage
  BY RunWorks DEF Route, Steps
<1>2. moved \in Checkpoint /\ moved.stage = "TRIAGE"
  BY <1>1, MovedIsCheckpoint, PausedIsCheckpoint DEF Stages, Gates, HUMAN_WAIT_GATES
<1>3. CASE run.feedback /\ CanTransition(ck, "TRIAGE")
  <2>1. Saves(moved) /\ IF ck' = moved THEN Reports("triage", "TRIAGE") ELSE Throws
    BY <1>3 DEF Route
  <2>2. Saved' /\ World'
    BY <1>1, <1>2, <2>1, FailsWithinBound DEF Saves, Route, RunInv, Saved, World
  <2>3. RunSound'
    BY <1>2, <2>1, ReportsSound, ThrowsSound DEF Kinds, Stages
  <2> QED BY <2>2, <2>3 DEF RunInv
<1>4. CASE ~(run.feedback /\ CanTransition(ck, "TRIAGE"))
  <2>1. UNCHANGED <<ck, trouble, github, workspace, news>>
    BY <1>4 DEF Route
  <2>2. Saved' /\ World'
    BY <2>1 DEF RunInv, Saved, World
  <2>3. ck' \in Checkpoint /\ ck'.stage = Stage
    BY <1>1, <2>1 DEF Stage
  <2>4. CASE Stage = "TRIAGE"
    <3>1. Reports("triage", "TRIAGE")
      BY <1>4, <2>4 DEF Route
    <3> QED BY <2>2, <2>3, <2>4, <3>1, ReportsSound DEF RunInv, Kinds, Stages
  <2>5. CASE Stage # "TRIAGE"
    <3>1. \/ \E at \in {"planning", "provision", "commit"} : Continues(at)
          \/ Proceeds(Stage) /\ run.mode # "implement"
      BY <1>4, <2>5 DEF Route
    <3>2. {"planning", "provision", "commit"} \subseteq Steps \ {"gate", "probe"}
      BY DEF Steps
    <3>3. ASSUME NEW at \in {"planning", "provision", "commit"}, Continues(at) PROVE RunSound'
      BY <1>1, <2>3, <3>2, <3>3, ContinuesSound DEF RunInv, Early
    <3> QED BY <1>1, <2>2, <2>3, <3>1, <3>3, ProceedsSound DEF RunInv
  <2> QED BY <2>4, <2>5
<1> QED BY <1>3, <1>4

\* Planning leaves a checkpoint at APPROVAL or says what stopped it.
LEMMA PlanningSound ==
    ASSUME RunInv, Planning
    PROVE  RunInv'
<1>1. run \in Runs /\ ck \in Checkpoint /\ Stage \in Stages /\ ck.stage = Stage
  BY RunWorks DEF Planning, Steps
<1>2. PICK to \in PlanningTargets :
        LET moved == IF to = Stage THEN ck ELSE Move(ck, to)
         IN  /\ Saves(moved)
             /\ IF ck' # moved THEN Throws
                ELSE IF run.mode = "yolo" /\ to # "DISCOVERY" THEN Proceeds(to)
                ELSE Reports("planned", to)
  BY DEF Planning
<1> DEFINE moved == IF to = Stage THEN ck ELSE Move(ck, to)
<1>3. to \in Stages
  BY <1>1 DEF PlanningTargets, Stages
<1>4. moved \in Checkpoint /\ moved.stage = to
  BY <1>1, <1>3, MovedIsCheckpoint
<1>5. Saves(moved) /\ (ck' = moved \/ Throws)
  BY <1>2
<1>6. Saved' /\ World'
  BY <1>1, <1>4, <1>5, FailsWithinBound DEF Planning, Saves, RunInv, Saved, World
<1>7. CASE Throws
  BY <1>6, <1>7, ThrowsSound DEF RunInv
<1>8. CASE ck' = moved
  <2>1. (Proceeds(to) /\ run.mode # "implement") \/ Reports("planned", to)
    BY <1>2, <1>8
  <2>2. ck' \in Checkpoint /\ ck'.stage = to
    BY <1>4, <1>8
  <2> QED BY <1>1, <1>3, <1>6, <2>1, <2>2, ProceedsSound, ReportsSound DEF RunInv, Kinds
<1> QED BY <1>5, <1>7, <1>8

\* A tree that goes takes uncommitted changes along.
LEMMA TreesAreTyped ==
    ASSUME World
    PROVE  /\ TreeRemoved \in [tree : BOOLEAN, changes : SUBSET (Evidence \union NoEvidence),
                                report : BOOLEAN]
           /\ Committed \in [tree : BOOLEAN, changes : SUBSET (Evidence \union NoEvidence),
                              report : BOOLEAN]
<1>1. workspace.changes \subseteq Evidence \union NoEvidence
  BY DEF World
<1>2. /\ workspace.changes \intersect {"own commit", "base commit"} \subseteq Evidence \union NoEvidence
      /\ (IF ck.worktree
          THEN (workspace.changes \intersect {"base commit"}) \union {"own commit"}
          ELSE workspace.changes) \subseteq Evidence \union NoEvidence
  BY <1>1 DEF Evidence, NoEvidence
<1> QED BY <1>2 DEF World, TreeRemoved, Committed

\* A worktree is made, or the run ends.
LEMMA ProvisionSound ==
    ASSUME RunInv, Provision
    PROVE  RunInv'
<1>1. run \in Runs /\ ck \in Checkpoint /\ run.at = "provision"
  BY RunWorks DEF Provision, Steps
<1>2. Saved' /\ World' /\ ck' \in Checkpoint
  BY <1>1, FailsWithinBound, TreesAreTyped DEF Provision, RunInv, Saved, World, Checkpoint
<1>3. CASE Throws
  BY <1>2, <1>3, ThrowsSound DEF RunInv
<1>4. CASE run' = [run EXCEPT !.at = "implement", !.bound = ck.worktree, !.found = workspace.tree]
           /\ UNCHANGED said
  <2>1. ck.worktree \in BOOLEAN /\ workspace.tree \in BOOLEAN
    BY <1>1 DEF Checkpoint, RunInv, World
  <2>2. run' \in Runs /\ run'.at = "implement" /\ run'.delivered = run.delivered
        /\ run'.mode = run.mode /\ run'.loaded = run.loaded
    BY <1>1, <1>4, <2>1 DEF Runs, Steps
  <2>3. ck'.stage = ck.stage
    BY <1>1 DEF Provision, Checkpoint
  <2> QED BY <1>1, <1>2, <1>4, <2>2, <2>3, NotIdle DEF RunInv, RunSound, HasCheckpoint, NotDelivered,
      GateJustified, LoadedStage, Early, WhatWasSaidIsSo
<1> QED BY <1>3, <1>4 DEF Provision

\* Implementation starts in IMPLEMENT, or the run ends.
LEMMA StartImplementationSound ==
    ASSUME RunInv, StartImplementation
    PROVE  RunInv'
<1>1. run \in Runs /\ ck \in Checkpoint
  BY RunWorks DEF StartImplementation, Steps
<1>2. Implemented \in Checkpoint /\ Implemented.stage = "IMPLEMENT"
  <2>1. ResumeFromGate(ck) \in Checkpoint /\ ResumeFromGate(ck).stage = ck.stage
    BY <1>1, PausedIsCheckpoint DEF Gates
  <2>2. {"APPROVAL", "IMPLEMENT"} \subseteq Stages
    BY DEF Stages
  <2> QED BY <2>1, <2>2, MovedIsCheckpoint DEF Implemented, Stage
<1>3. Restored \in Checkpoint
  BY <1>1 DEF Restored, Checkpoint, Runs
<1>4. Saved' /\ World' /\ ck' \in Checkpoint
  BY <1>1, <1>2, <1>3, FailsWithinBound, TreesAreTyped
     DEF StartImplementation, RunInv, Saved, World
<1>5. CASE Throws
  BY <1>4, <1>5, ThrowsSound DEF RunInv
<1>6. CASE /\ ck' = Implemented
           /\ \/ Reports("result", "IMPLEMENT")
              \/ Proceeds("IMPLEMENT") /\ run.mode # "implement"
  BY <1>1, <1>2, <1>4, <1>6, ReportsSound, ProceedsSound DEF RunInv, Kinds, Stages
<1> QED BY <1>5, <1>6 DEF StartImplementation

\* What the probe lets pass to the gate is a change of the task, or unknown.
LEMMA ImplementationDiffSound ==
    ASSUME RunInv, ImplementationDiff
    PROVE  RunInv'
<1>1. run.at = "probe" /\ UNCHANGED ck
  BY DEF ImplementationDiff
<1>0. run \in Runs /\ ck \in Checkpoint /\ ck.stage = "IMPLEMENT"
  BY <1>1 DEF RunInv, RunSound, Idle, HasCheckpoint, GateJustified
<1>2. Saved' /\ World'
  BY FailsWithinBound DEF ImplementationDiff, RunInv, Saved, World
<1>3. PICK diff \in Diffs \ {None} :
         /\ diff = "changes" => StatusFiles \union BranchFiles # {}
         /\ diff = "unmeasured changes" => StatusFiles # {}
         /\ IF run.mode = "yolo" /\ diff \in {"empty", "unmeasured"}
            THEN Reports("parked", "IMPLEMENT")
            ELSE /\ run' = [run EXCEPT !.at = "gate", !.diff = diff,
                                       !.own = workspace.changes \intersect Evidence # {}]
                 /\ UNCHANGED said
  BY DEF ImplementationDiff, Diffs, None
<1>4. CASE Reports("parked", "IMPLEMENT")
  BY <1>0, <1>1, <1>2, <1>4, ReportsSound DEF RunInv, Kinds, Stages
<1>5. CASE /\ ~(run.mode = "yolo" /\ diff \in {"empty", "unmeasured"})
           /\ run' = [run EXCEPT !.at = "gate", !.diff = diff,
                                 !.own = workspace.changes \intersect Evidence # {}]
           /\ UNCHANGED said
  <2>1. run' \in Runs /\ run'.at = "gate" /\ run'.delivered = run.delivered
        /\ run'.diff = diff /\ run'.mode = run.mode
        /\ run'.own = (workspace.changes \intersect Evidence # {})
    BY <1>0, <1>5 DEF Runs, Steps
  <2>2. diff \in {"changes", "unmeasured changes"} => run'.own
    BY <1>3, <2>1 DEF StatusFiles, BranchFiles, Evidence
  <2>3. GateJustified'
    BY <1>5, <2>1, <2>2 DEF GateJustified, Diffs
  <2> QED BY <1>0, <1>1, <1>2, <1>5, <2>1, <2>3, NotIdle DEF RunInv, RunSound, HasCheckpoint, NotDelivered,
      LoadedStage, Early, WhatWasSaidIsSo
<1> QED BY <1>3, <1>4, <1>5

\* The gate moves the task as its verdict says.
LEMMA RunQualityGateSound ==
    ASSUME RunInv, RunQualityGate
    PROVE  RunInv'
<1>1. run \in Runs /\ ck \in Checkpoint /\ Stage \in Stages /\ ck.stage = Stage
  BY RunWorks DEF RunQualityGate, Steps
<1>2. AtGate \in Checkpoint
  BY <1>1, MovedIsCheckpoint DEF AtGate, Stages
<1> DEFINE passed == Move(AtGate, "REVIEW")
           failed == Move(AtGate, "IMPLEMENT")
<1>3. passed \in Checkpoint /\ passed.stage = "REVIEW" /\ failed \in Checkpoint
  BY <1>2, MovedIsCheckpoint DEF Stages
<1> HIDE DEF passed, failed
<1>4. /\ [passed EXCEPT !.implementGateLoops = 0] \in Checkpoint
      /\ [passed EXCEPT !.implementGateLoops = 0].stage = "REVIEW"
      /\ [failed EXCEPT !.implementGateLoops = @ + 1] \in Checkpoint
  BY <1>3 DEF Checkpoint
<1>5. \/ Reports("vacuous", Stage) /\ UNCHANGED <<ck, trouble>>
      \/ ck' = [passed EXCEPT !.implementGateLoops = 0] /\ Continues("review") /\ UNCHANGED trouble
      \/ Fails /\ ck' = [failed EXCEPT !.implementGateLoops = @ + 1] /\ Continues("breaker")
      \/ Fails /\ Throws /\ UNCHANGED ck
  BY DEF RunQualityGate, passed, failed
<1>6. Saved' /\ World' /\ ck' \in Checkpoint
  BY <1>1, <1>4, <1>5, FailsWithinBound DEF RunQualityGate, RunInv, Saved, World
<1>7. CASE Reports("vacuous", Stage) /\ UNCHANGED ck
  BY <1>1, <1>6, <1>7, ReportsSound DEF RunInv, Kinds, Stage
<1>8. CASE Continues("review") \/ Continues("breaker")
  BY <1>1, <1>6, <1>8, ContinuesSound DEF RunInv, Steps, Early
<1>9. CASE Throws
  BY <1>6, <1>9, ThrowsSound DEF RunInv
<1> QED BY <1>5, <1>7, <1>8, <1>9

\* The breaker parks a task that failed too often, or the run goes on.
LEMMA MaybeTripGateBreakerSound ==
    ASSUME RunInv, MaybeTripGateBreaker
    PROVE  RunInv'
<1>1. run \in Runs /\ ck \in Checkpoint /\ ck.stage = Stage /\ Stage \in Stages
  BY RunWorks DEF MaybeTripGateBreaker, Steps
<1>2. Paused(ck) \in Checkpoint /\ Paused(ck).stage = Stage /\ Paused(ck).pausedAtGate # NoGate
  BY <1>1, PausedIsCheckpoint DEF Paused, Gates
<1>3. Saved' /\ World' /\ ck' \in Checkpoint
  BY <1>1, <1>2, FailsWithinBound DEF MaybeTripGateBreaker, RunInv, Saved, World
<1>4. CASE \E kind \in {"gates failed", "warned", "breaker unsaved"} :
             Reports(kind, Stage) /\ UNCHANGED ck
  <2>1. PICK kind \in {"gates failed", "warned", "breaker unsaved"} : Reports(kind, Stage)
    BY <1>4
  <2>2. kind \in Kinds \ {"breaker"}
    BY DEF Kinds
  <2> QED BY <1>1, <1>3, <1>4, <2>1, <2>2, ReportsSound DEF RunInv
<1>5. CASE ck' = Paused(ck) /\ Reports("breaker", Stage)
  BY <1>1, <1>2, <1>3, <1>5, ReportsSound DEF RunInv, Kinds
<1>6. CASE Throws
  BY <1>3, <1>6, ThrowsSound DEF RunInv
<1> QED BY <1>4, <1>5, <1>6 DEF MaybeTripGateBreaker

\* The review moves the task as its verdict says.
LEMMA RunReviewSound ==
    ASSUME RunInv, RunReview
    PROVE  RunInv'
<1>1. run \in Runs /\ ck \in Checkpoint
  BY RunWorks DEF RunReview, Steps
<1>2. AtReview \in Checkpoint
  BY <1>1, MovedIsCheckpoint DEF AtReview, Stages
<1> DEFINE approved == PauseAtGate(Move(AtReview, "COMMIT"), "COMMIT")
           rejected == Move(AtReview, "IMPLEMENT")
<1>3. /\ approved \in Checkpoint /\ approved.stage = "COMMIT"
      /\ rejected \in Checkpoint /\ rejected.stage = "IMPLEMENT"
  BY <1>2, MovedIsCheckpoint, PausedIsCheckpoint DEF Stages, Gates, HUMAN_WAIT_GATES
<1> HIDE DEF approved, rejected
<1>4. \/ ck' = approved /\ (Reports("paused", "COMMIT") \/ Continues("commit")) /\ UNCHANGED trouble
      \/ Fails /\ ck' = rejected /\ Reports("changes requested", "IMPLEMENT")
      \/ Fails /\ Throws /\ UNCHANGED ck
  BY DEF RunReview, approved, rejected
<1>5. Saved' /\ World' /\ ck' \in Checkpoint
  BY <1>1, <1>3, <1>4, FailsWithinBound DEF RunReview, RunInv, Saved, World
<1>6. CASE ck' = approved /\ (Reports("paused", "COMMIT") \/ Continues("commit"))
  BY <1>1, <1>3, <1>5, <1>6, ReportsSound, ContinuesSound DEF RunInv, Kinds, Stages, Steps, Early
<1>7. CASE ck' = rejected /\ Reports("changes requested", "IMPLEMENT")
  BY <1>1, <1>3, <1>5, <1>7, ReportsSound DEF RunInv, Kinds, Stages
<1>8. CASE Throws
  BY <1>5, <1>8, ThrowsSound DEF RunInv
<1> QED BY <1>4, <1>6, <1>7, <1>8

\* A commit completes the task, or the run says why it did not.
LEMMA DraftAndExecuteCommitSound ==
    ASSUME RunInv, DraftAndExecuteCommit
    PROVE  RunInv'
<1>1. run \in Runs /\ ck \in Checkpoint
  BY RunWorks DEF DraftAndExecuteCommit, Steps
<1> DEFINE done == Move(ck, "COMPLETED")
<1>2. done \in Checkpoint /\ done.stage = "COMPLETED"
  BY <1>1, MovedIsCheckpoint DEF Stages
<1> HIDE DEF done
<1>3. [done EXCEPT !.worktree = FALSE] \in Checkpoint
      /\ [done EXCEPT !.worktree = FALSE].stage = "COMPLETED"
  BY <1>2 DEF Checkpoint
<1>4. \/ /\ ck' = [done EXCEPT !.worktree = FALSE] /\ workspace' = Committed
         /\ Reports("result", "COMPLETED") /\ UNCHANGED trouble
      \/ /\ Stage = "COMMIT" /\ Reports("paused", "COMMIT")
         /\ UNCHANGED <<ck, workspace, trouble>>
      \/ Throws /\ UNCHANGED <<ck, workspace>> /\ (Fails \/ UNCHANGED trouble)
  BY DEF DraftAndExecuteCommit, done
<1>5. Saved' /\ World' /\ ck' \in Checkpoint
  BY <1>1, <1>3, <1>4, FailsWithinBound, TreesAreTyped
     DEF DraftAndExecuteCommit, RunInv, Saved, World
<1>6. CASE ck'.stage = "COMPLETED" /\ Reports("result", "COMPLETED")
  BY <1>5, <1>6, ReportsSound DEF RunInv, Kinds, Stages
<1>7. CASE Stage = "COMMIT" /\ Reports("paused", "COMMIT") /\ UNCHANGED ck
  BY <1>5, <1>7, ReportsSound DEF RunInv, Kinds, Stages, Stage
<1>8. CASE Throws
  BY <1>5, <1>8, ThrowsSound DEF RunInv
<1> QED BY <1>3, <1>4, <1>6, <1>7, <1>8

-----------------------------------------------------------------------------
(* What happens meanwhile.                                                 *)

\* The agent moves the task while no run is in progress.
LEMMA TransitionStageSound ==
    ASSUME RunInv, TransitionStage
    PROVE  RunInv'
<1>1. ck \in Checkpoint /\ run = Idle /\ UNCHANGED <<github, workspace, run, news, trouble>>
  BY EmptyIsNone DEF TransitionStage, RunInv, Saved, Stage, Stages
<1>2. ResumeFromGate(ck) \in Checkpoint
  BY <1>1, PausedIsCheckpoint DEF Gates
<1>3. ck' \in Checkpoint
  BY <1>2, MovedIsCheckpoint, PausedIsCheckpoint DEF TransitionStage, Stages, Gates, HUMAN_WAIT_GATES
<1>4. Saved' /\ World'
  BY <1>1, <1>3 DEF RunInv, Saved, World
<1>5. said' = Nothing
  BY DEF TransitionStage
<1> QED BY <1>1, <1>3, <1>4, <1>5, QuietSound DEF RunInv, Idle

\* GitHub's changes keep the list of pull requests one.
LEMMA GitHubStaysTyped ==
    ASSUME World, GitHubChanges
    PROVE  World'
<1>1. github.closed \in BOOLEAN /\ github.prs \in Seq(PullRequests)
      /\ github = [closed |-> github.closed, prs |-> github.prs]
  BY DEF World
<1>2. news' \in 0 .. MaxNews
  BY RunAssumption DEF GitHubChanges, World
<1>3. \A closes \in BOOLEAN :
        <<PullRequest("OPEN", closes, FALSE)>> \o github.prs \in Seq(PullRequests)
  BY <1>1 DEF PullRequest, PullRequests
<1>4. ASSUME Newest(github.prs).state = "OPEN"
      PROVE  /\ [github.prs EXCEPT ![1].feedback = TRUE] \in Seq(PullRequests)
             /\ \A state \in {"MERGED", "CLOSED"} :
                  [github.prs EXCEPT ![1].state = state] \in Seq(PullRequests)
  <2>1. github.prs # <<>>
    BY <1>4 DEF Newest, NoPr, PullRequest, None
  <2>2. github.prs[1] \in PullRequests /\ 1 \in 1 .. Len(github.prs)
    BY <1>1, <2>1
  <2>3. \A p \in PullRequests : [github.prs EXCEPT ![1] = p] \in Seq(PullRequests)
    BY <1>1, <2>2
  <2>4. /\ [github.prs[1] EXCEPT !.feedback = TRUE] \in PullRequests
        /\ \A state \in {"MERGED", "CLOSED"} : [github.prs[1] EXCEPT !.state = state] \in PullRequests
    BY <2>2 DEF PullRequests
  <2> QED BY <2>3, <2>4
<1>5. \/ \E closes \in BOOLEAN :
           github' = [github EXCEPT !.prs = <<PullRequest("OPEN", closes, FALSE)>> \o github.prs]
      \/ /\ Newest(github.prs).state = "OPEN"
         /\ \/ github' = [github EXCEPT !.prs = [github.prs EXCEPT ![1].feedback = TRUE]]
            \/ \E state \in {"MERGED", "CLOSED"} :
                 github' = [github EXCEPT !.prs = [github.prs EXCEPT ![1].state = state]]
      \/ github' = [github EXCEPT !.closed = TRUE]
  BY <1>1 DEF GitHubChanges
<1>6. github' \in [closed : BOOLEAN, prs : Seq(PullRequests)]
  BY <1>1, <1>3, <1>4, <1>5
<1> QED BY <1>2, <1>6 DEF GitHubChanges, World

\* Agents, people and GitHub act beside a run; they keep what it relies on.
LEMMA MeanwhileSound ==
    ASSUME RunInv, GitHubChanges \/ AgentReports \/ AgentImplements \/ Noise
    PROVE  RunInv'
<1>1. UNCHANGED <<ck, run>> /\ said' = Nothing
  BY DEF GitHubChanges, AgentReports, AgentImplements, Noise
<1>2. World'
  <2>1. CASE GitHubChanges
    BY <2>1, GitHubStaysTyped DEF RunInv
  <2>2. CASE AgentReports
    BY <2>2 DEF AgentReports, RunInv, World
  <2>3. CASE AgentImplements
    BY <2>3 DEF AgentImplements, RunInv, World
  <2>4. CASE Noise
    BY <2>4 DEF Noise, RunInv, World
  <2> QED BY <2>1, <2>2, <2>3, <2>4
<1>3. Saved'
  BY <1>1 DEF RunInv, Saved
<1> QED BY <1>1, <1>2, <1>3, QuietSound DEF RunInv

\* A run that dies leaves the checkpoint it saved.
LEMMA CrashSound ==
    ASSUME RunInv, Crash
    PROVE  RunInv'
<1>1. Saved' /\ World'
  BY FailsWithinBound DEF Crash, RunInv, Saved, World
<1>2. run' = Idle /\ said' = Nothing
  BY DEF Crash
<1> QED BY <1>1, <1>2, SayingNothing DEF RunInv, RunSound, HasCheckpoint, NotDelivered,
    GateJustified, LoadedStage, Early, Idle

\* Every step keeps the invariant.
LEMMA RunInvInductive == RunInv /\ [Next]_vars => RunInv'
<1> SUFFICES ASSUME RunInv, [Next]_vars PROVE RunInv'
  OBVIOUS
<1>1. ASSUME NEW mode \in Modes, NEW about \in {"task", "other", None},
             NEW commitAfter \in BOOLEAN, Execute(mode, about, commitAfter)
      PROVE  RunInv'
  BY <1>1, ExecuteSound
<1>2. ASSUME NEW task, NEW missed, PreFlight(task, missed)
      PROVE  RunInv'
  BY <1>2, PreFlightSound
<1>3. CASE Enter \/ Route \/ Planning \/ Provision \/ StartImplementation
  BY <1>3, EnterSound, RouteSound, PlanningSound, ProvisionSound, StartImplementationSound
<1>4. CASE ImplementationDiff \/ RunQualityGate \/ MaybeTripGateBreaker \/ RunReview
           \/ DraftAndExecuteCommit
  BY <1>4, ImplementationDiffSound, RunQualityGateSound, MaybeTripGateBreakerSound,
     RunReviewSound, DraftAndExecuteCommitSound
<1>5. CASE Crash \/ TransitionStage
  BY <1>5, CrashSound, TransitionStageSound
<1>6. CASE GitHubChanges \/ AgentReports \/ AgentImplements \/ Noise
  BY <1>6, MeanwhileSound
<1>7. CASE UNCHANGED vars
  BY <1>7, QuietSound DEF vars, RunInv, Saved, World
<1> QED BY <1>1, <1>2, <1>3, <1>4, <1>5, <1>6, <1>7 DEF Next, RunStep

\* A task without a checkpoint satisfies the invariant.
LEMMA InitSound == Init => RunInv
<1> SUFFICES ASSUME Init PROVE RunInv
  OBVIOUS
<1>1. Saved /\ RunSound
  BY DEF Init, Saved, RunSound, HasCheckpoint, NotDelivered, GateJustified, LoadedStage, Early,
     WhatWasSaidIsSo, Idle, Nothing, Kinds
<1>2. <<>> \in Seq(PullRequests) /\ \A p \in PullRequests : <<p>> \in Seq(PullRequests)
  OBVIOUS
<1>3. /\ PullRequest("OPEN", TRUE, FALSE) \in PullRequests
      /\ PullRequest("MERGED", TRUE, FALSE) \in PullRequests
  BY DEF PullRequest, PullRequests
<1>4. \A prs \in Seq(PullRequests) :
        [Quiet EXCEPT !.prs = prs] \in [closed : BOOLEAN, prs : Seq(PullRequests)]
  BY DEF Quiet
<1>6. Quiet \in [closed : BOOLEAN, prs : Seq(PullRequests)]
  BY <1>2 DEF Quiet
<1>7. github \in [closed : BOOLEAN, prs : Seq(PullRequests)]
  BY <1>2, <1>3, <1>4, <1>6 DEF Init
<1>5. World
  BY <1>7, RunAssumption DEF Init, World
<1> QED BY <1>1, <1>5 DEF RunInv

-----------------------------------------------------------------------------
(* Results.                                                                *)

\* The checkpoint, GitHub, the workspace and the run keep their types, for every
\* mode, retry limit and bound, whatever fails.
THEOREM RunTypeCorrect == Spec => []TypeOK
<1>1. RunInv => TypeOK
  BY DEF RunInv, Saved, World, RunSound, TypeOK, Runs, Steps, Idle
<1> QED BY <1>1, InitSound, RunInvInductive, PTL DEF Spec

\* The stage a run names as it ends is the recorded one, and a stop at the breaker
\* is a pause on record (run-lifecycle.ts), whatever fails or happens meanwhile.
THEOREM RunsSayWhatIsSo == Spec => []WhatWasSaidIsSo
<1>1. RunInv => WhatWasSaidIsSo
  BY DEF RunInv, RunSound
<1> QED BY <1>1, InitSound, RunInvInductive, PTL DEF Spec

\* A run for a task that GitHub, asked without a failure, shows as closed or
\* delivered changes neither the checkpoint nor the worktree (RunLifecycleUseCase).
THEOREM DeliveredWorkIsLeftAlone == Spec => DeliveredIsLeftAlone
<1>1. RunInv /\ [Next]_vars
        => [run # Idle /\ run.delivered => ck' = ck /\ workspace'.tree = workspace.tree]_vars
  BY DEF RunInv, RunSound, NotDelivered
<1> QED BY <1>1, InitSound, RunInvInductive, PTL DEF Spec, DeliveredIsLeftAlone

\* Only the gate leads from IMPLEMENT to REVIEW.
LEMMA OnlyTheGateLeadsToReview ==
    ASSUME RunInv, [Next]_vars, ck.stage = "IMPLEMENT", ck'.stage = "REVIEW"
    PROVE  RunQualityGate /\ ~Vacuous
<1>1. ck \in Checkpoint /\ Stage = "IMPLEMENT" /\ ck' # ck
  BY EmptyIsNone DEF RunInv, Saved, Stage, Stages
<1>2. \A to \in Stages : Move(ck, to).stage = to
  BY <1>1, MovedIsCheckpoint
<1>3. ~Enter
  BY <1>1, FreshIsCheckpoint DEF Enter, Entered, CreateInitial
<1>4. ~Route
  <2>1. PauseAtGate(Move(ck, "TRIAGE"), "TRIAGE").stage = "TRIAGE"
    BY <1>1, MovedIsCheckpoint, PausedIsCheckpoint DEF Stages, Gates, HUMAN_WAIT_GATES
  <2> QED BY <1>1, <2>1 DEF Route, Saves
<1>5. ~Planning
  <2>1. PlanningTargets = {"PLAN"}
    BY <1>1 DEF PlanningTargets
  <2>2. Move(ck, "PLAN").stage = "PLAN"
    BY <1>2 DEF Stages
  <2> QED BY <1>1, <2>1, <2>2 DEF Planning, Saves
<1>6. ~Provision
  BY <1>1 DEF Provision, Checkpoint
<1>7. ~StartImplementation
  <2>1. Implemented.stage = "IMPLEMENT"
    BY <1>1, PausedIsCheckpoint DEF Implemented, Gates
  <2>2. ASSUME StartImplementation PROVE Restored.stage = "IMPLEMENT"
    BY <1>1, <2>2 DEF StartImplementation, Restored, RunInv, RunSound, LoadedStage, Early, Checkpoint
  <2> QED BY <1>1, <2>1, <2>2 DEF StartImplementation
<1>8. ~RunReview
  <2>1. AtReview \in Checkpoint
    BY <1>1, MovedIsCheckpoint DEF AtReview, Stages
  <2>2. PauseAtGate(Move(AtReview, "COMMIT"), "COMMIT").stage = "COMMIT"
        /\ Move(AtReview, "IMPLEMENT").stage = "IMPLEMENT"
    BY <2>1, MovedIsCheckpoint, PausedIsCheckpoint DEF Stages, Gates, HUMAN_WAIT_GATES
  <2> QED BY <1>1, <2>2 DEF RunReview
<1>9. ~MaybeTripGateBreaker
  <2>1. Paused(ck).stage = "IMPLEMENT"
    BY <1>1, PausedIsCheckpoint DEF Paused, Gates, Stage
  <2> QED BY <1>1, <2>1 DEF MaybeTripGateBreaker
<1>10. ~DraftAndExecuteCommit
  BY <1>1 DEF DraftAndExecuteCommit
<1>11. ~TransitionStage
  <2>1. ResumeFromGate(ck) \in Checkpoint
    BY <1>1, PausedIsCheckpoint DEF Gates
  <2>2. Move(ResumeFromGate(ck), "QUALITY_GATE").stage = "QUALITY_GATE"
    BY <2>1, MovedIsCheckpoint DEF Stages
  <2> QED BY <1>1, <2>2 DEF TransitionStage
<1>12. RunQualityGate
  BY <1>1, <1>3, <1>4, <1>5, <1>6, <1>7, <1>8, <1>9, <1>10, <1>11
     DEF Next, RunStep, Execute, PreFlight, ImplementationDiff, Crash, GitHubChanges,
         AgentReports, AgentImplements, Noise, vars
<1>13. ~Vacuous
  BY <1>1, <1>12 DEF RunQualityGate
<1> QED BY <1>12, <1>13

\* Work that leaves IMPLEMENT for REVIEW in a run holds a change of the task itself,
\* except where git did not answer: not probed, or not measured outside of yolo.
THEOREM GatedWorkIsTheTasks == Spec => GatedWorkIsItsOwn
<1>1. RunInv /\ [Next]_vars
        => [ck.stage = "IMPLEMENT" /\ ck'.stage = "REVIEW"
             => \/ run.own
                \/ run.diff = "unprobed"
                \/ run.diff = "unmeasured" /\ run.mode # "yolo"]_vars
  BY OnlyTheGateLeadsToReview DEF RunInv, RunSound, GateJustified, RunQualityGate, Vacuous
<1> QED BY <1>1, InitSound, RunInvInductive, PTL DEF Spec, GatedWorkIsItsOwn

-----------------------------------------------------------------------------
(* The agent that follows `next`.                                          *)

\* What AgentLoop assumes of its constants.
LEMMA LoopBounds ==
    /\ AgentModes \subseteq Loop!EXECUTION_MODES /\ MaxFaults \in Nat
    /\ MaxDispatches \in Nat \ {0} /\ MaxLoops \in Nat
BY LoopConstants DEF Loop!AgentAssumption

\* The checkpoints `next` reads, and what it finds outside of them.
AgentCheckpoint ==
    [stage : Loop!Stages, mode : Loop!EXECUTION_MODES, pausedAtGate : Loop!Gates \union {Loop!NoGate},
     dispatchCount : Nat, implementToGateLoops : Nat, worktree : BOOLEAN,
     gateFailed : BOOLEAN, remediation : BOOLEAN,
     baseline : {"none", "clean", "tainted"}]

Findings ==
    [report : BOOLEAN, planDir : BOOLEAN, plan : BOOLEAN, diff : BOOLEAN,
     readable : BOOLEAN, blocked : BOOLEAN, stray : BOOLEAN,
     evidence : Loop!GateVerdicts \union {"none"}]

Agents == [pc : {"ask", "obey", "wait"}, directive : Loop!Directives]

-----------------------------------------------------------------------------
(* The parts of a step, by type.                                           *)

\* Each directive `next` computes is one an agent may get.
LEMMA DirectiveIsOne ==
    ASSUME sm \in AgentCheckpoint
    PROVE  Loop!Directive \in Loop!Directives
<1>1. \A type \in {"preflight", "advance", "human_gate", "completed"} : Loop!Do(type) \in Loop!Directives
  BY DEF Loop!Do, Loop!Directives
<1>2. \A role \in Loop!Roles : Loop!Dispatch(role) \in Loop!Directives
  BY DEF Loop!Dispatch, Loop!Directives
<1>3. Loop!Do("preflight") \in Loop!Directives /\ Loop!Do("advance") \in Loop!Directives
      /\ Loop!Do("human_gate") \in Loop!Directives /\ Loop!Do("completed") \in Loop!Directives
  BY <1>1
<1>4. Loop!Dispatch("discovery") \in Loop!Directives /\ Loop!Dispatch("planner") \in Loop!Directives
      /\ Loop!Dispatch("implementer") \in Loop!Directives /\ Loop!Dispatch("gate") \in Loop!Directives
      /\ Loop!Dispatch("reviewer") \in Loop!Directives /\ Loop!Dispatch("triage") \in Loop!Directives
  BY <1>2 DEF Loop!Roles
<1>5. Loop!DiscoveryDirective \in Loop!Directives /\ Loop!PlanDirective \in Loop!Directives
      /\ Loop!ImplementDirective \in Loop!Directives
  BY <1>3, <1>4 DEF Loop!DiscoveryDirective, Loop!PlanDirective, Loop!ImplementDirective,
     Loop!BlankPlanDirective, Loop!MissingWorktreeDirective
<1>6. Loop!ApprovalDirective \in Loop!Directives /\ Loop!LoopDirective \in Loop!Directives
      /\ Loop!GateDirective \in Loop!Directives /\ Loop!ReviewDirective \in Loop!Directives
      /\ Loop!CommitDirective \in Loop!Directives /\ Loop!TriageDirective \in Loop!Directives
      /\ Loop!CompletedDirective \in Loop!Directives
  BY <1>3, <1>4, <1>5 DEF Loop!ApprovalDirective, Loop!LoopDirective, Loop!GateDirective, Loop!ReviewDirective,
     Loop!CommitDirective, Loop!TriageDirective, Loop!CompletedDirective, Loop!RefusedPlanDirective
<1>7. sm.stage \in Loop!Stages
  BY DEF AgentCheckpoint
<1> QED
  BY <1>3, <1>5, <1>6, <1>7 DEF Loop!Directive, Loop!Stages

\* The agent that heeds a directive is one.
LEMMA HeededIsOne ==
    ASSUME NEW d \in Loop!Directives, Loop!Heed(d)
    PROVE  agent' \in Agents
BY DEF Loop!Heed, Agents

\* So is the agent that asks again, and its directive is the one it had.
LEMMA AskingIsOne ==
    ASSUME agent \in Agents, Loop!AskAgain
    PROVE  agent' \in Agents /\ agent'.pc = "ask"
BY DEF Loop!AskAgain, Agents

\* An entered stage leaves a checkpoint, whose counter starts over.
LEMMA EnterIsCheckpoint ==
    ASSUME NEW s \in AgentCheckpoint, NEW to \in Loop!Stages
    PROVE  /\ Loop!Enter(s, to) \in AgentCheckpoint
           /\ Loop!Enter(s, to).stage = to
           /\ Loop!Enter(s, to).dispatchCount = 0
<1> DEFINE pause == IF s.pausedAtGate \in Loop!HUMAN_WAIT_GATES /\ to # "COMPLETED"
                    THEN s.pausedAtGate ELSE Loop!NoGate
<1>1. Loop!GateFailedOnEntry(s, to) \in BOOLEAN
  BY DEF Loop!GateFailedOnEntry, AgentCheckpoint
<1>2. pause \in Loop!Gates \union {Loop!NoGate}
  BY DEF AgentCheckpoint
<1>3. Loop!Enter(s, to) = [s EXCEPT !.stage = to, !.dispatchCount = 0, !.baseline = "none",
                               !.gateFailed = Loop!GateFailedOnEntry(s, to),
                               !.pausedAtGate = pause]
  BY DEF Loop!Enter
<1> HIDE DEF pause
<1>4. PICK f \in BOOLEAN : f = Loop!GateFailedOnEntry(s, to)
  BY <1>1
<1>5. Loop!Enter(s, to) = [s EXCEPT !.stage = to, !.dispatchCount = 0, !.baseline = "none",
                               !.gateFailed = f, !.pausedAtGate = pause]
  BY <1>3, <1>4
<1>6. [s EXCEPT !.stage = to, !.dispatchCount = 0, !.baseline = "none",
                               !.gateFailed = f, !.pausedAtGate = pause] \in AgentCheckpoint
  BY <1>2 DEF AgentCheckpoint
<1>7. Loop!Enter(s, to).stage = to /\ Loop!Enter(s, to).dispatchCount = 0
  BY <1>5 DEF AgentCheckpoint
<1> QED
  BY <1>5, <1>6, <1>7

\* A pause and its end leave the stage and the counter as they were.
LEMMA PausesKeepTheRest ==
    ASSUME NEW s \in AgentCheckpoint, NEW gate \in Loop!Gates
    PROVE  /\ Loop!PauseAtGate(s, gate) \in AgentCheckpoint
           /\ Loop!PauseAtGate(s, gate).stage = s.stage
           /\ Loop!PauseAtGate(s, gate).dispatchCount = s.dispatchCount
           /\ Loop!ResumeFromGate(s) \in AgentCheckpoint
           /\ Loop!ResumeFromGate(s).stage = s.stage
           /\ Loop!ResumeFromGate(s).dispatchCount = s.dispatchCount
BY DEF Loop!PauseAtGate, Loop!ResumeFromGate, AgentCheckpoint

\* A moved task is at the stage it was moved to, with nothing counted there.
LEMMA MoveIsCheckpoint ==
    ASSUME NEW s \in AgentCheckpoint, NEW to \in Loop!Stages, Loop!Move(s, to)
    PROVE  /\ sm' \in AgentCheckpoint
           /\ sm'.stage = to
           /\ sm'.dispatchCount = 0
           /\ runs' = 0
<1> DEFINE entered == Loop!Enter(Loop!ResumeFromGate(s), to)
<1>1. Loop!ResumeFromGate(s) \in AgentCheckpoint
  BY PausesKeepTheRest DEF Loop!Gates, Loop!HUMAN_WAIT_GATES
<1>2. entered \in AgentCheckpoint /\ entered.stage = to /\ entered.dispatchCount = 0
  BY <1>1, EnterIsCheckpoint
<1>3. sm' = IF to \in {"APPROVAL", "COMMIT"} THEN Loop!PauseAtGate(entered, to) ELSE entered
  BY DEF Loop!Move
<1> HIDE DEF entered
<1>4. to \in {"APPROVAL", "COMMIT"} => to \in Loop!Gates
  BY DEF Loop!Gates, Loop!HUMAN_WAIT_GATES
<1> QED
  BY <1>2, <1>3, <1>4, PausesKeepTheRest DEF Loop!Move

\* The counter never passes what the code tells apart.
LEMMA BoundedIsCapped ==
    ASSUME NEW n \in Nat
    PROVE  /\ Loop!Bounded(n) \in Nat
           /\ sm.stage = "REVIEW" /\ n <= Loop!MAX_REVIEW_DISPATCH_LOOPS => Loop!Bounded(n) = n
BY LoopBounds DEF Loop!Bounded, Loop!MAX_REVIEW_DISPATCH_LOOPS

\* A dispatched sub-agent is one more, or as many as the bound tells apart.
LEMMA RunIsCounted ==
    ASSUME runs \in Nat, Loop!CountRun
    PROVE  runs' \in Nat /\ runs' <= runs + 1
BY DEF Loop!CountRun

-----------------------------------------------------------------------------
(* One step of each action, by type and by what it does to a review.       *)

\* As many reviewers ran, or are about to, as dispatches were counted or failed
\* to be; and no more are counted than the cap allows.
ReviewersAreCounted ==
    sm.stage = "REVIEW" =>
        /\ runs + (IF agent.pc = "obey" THEN 1 ELSE 0) <= sm.dispatchCount + faults
        /\ sm.dispatchCount <= Loop!MAX_REVIEW_DISPATCH_LOOPS

AgentInvariant ==
    /\ sm \in AgentCheckpoint
    /\ agent \in Agents
    /\ runs \in Nat
    /\ faults \in Nat
    /\ ReviewersAreCounted

\* Asking `next`: the directive, and the record of its dispatch, which may fail.
LEMMA NextActionKeeps ==
    ASSUME AgentInvariant, Loop!NextAction
    PROVE  AgentInvariant'
<1>1. sm \in AgentCheckpoint /\ runs \in Nat /\ faults \in Nat /\ agent.pc = "ask"
  BY DEF AgentInvariant, Loop!NextAction
<1>2. agent' \in Agents
  BY <1>1, DirectiveIsOne, HeededIsOne DEF Loop!NextAction
<1>3. sm.dispatchCount \in Nat
  BY <1>1 DEF AgentCheckpoint
<1>4. sm.stage = "REVIEW" =>
         /\ runs <= sm.dispatchCount + faults
         /\ sm.dispatchCount <= Loop!MAX_REVIEW_DISPATCH_LOOPS
  BY <1>1, <1>3 DEF AgentInvariant, ReviewersAreCounted
<1>5. runs' = runs
  BY DEF Loop!NextAction
<1>6. CASE ~Loop!Counts(Loop!Directive) /\ UNCHANGED <<sm, faults>>
  <2>1. ASSUME sm.stage = "REVIEW", agent'.pc = "obey" PROVE FALSE
    <3>1. Loop!Directive = Loop!ReviewDirective
      BY <2>1 DEF Loop!Directive
    <3>2. Loop!Directive = Loop!Do("human_gate") \/ Loop!Directive = Loop!Dispatch("reviewer")
      BY <3>1 DEF Loop!ReviewDirective
    <3>3. \/ Loop!Directive.type = "subagent" /\ sm.pausedAtGate = Loop!NoGate
          \/ Loop!Directive.type \in {"advance", "preflight"} /\ sm.pausedAtGate = Loop!NoGate
      BY <2>1 DEF Loop!NextAction, Loop!Heed, Loop!Actionable
    <3>4. Loop!Directive.type = "subagent" /\ sm.pausedAtGate = Loop!NoGate
      BY <3>2, <3>3 DEF Loop!Do, Loop!Dispatch
    <3> QED
      BY <1>6, <2>1, <3>4 DEF Loop!Counts
  <2> QED
    BY <1>1, <1>2, <1>4, <1>5, <1>6, <2>1 DEF AgentInvariant, ReviewersAreCounted
<1>7. CASE /\ Loop!Counts(Loop!Directive)
           /\ \E baseline \in Loop!CapturedBaselines(Loop!Directive) :
                sm' = [sm EXCEPT !.dispatchCount = Loop!Bounded(@ + 1), !.baseline = baseline]
           /\ UNCHANGED faults
  <2>1. PICK baseline \in Loop!CapturedBaselines(Loop!Directive) :
           sm' = [sm EXCEPT !.dispatchCount = Loop!Bounded(@ + 1), !.baseline = baseline]
    BY <1>7
  <2>2. baseline \in {"none", "clean", "tainted"}
    BY <1>1 DEF Loop!CapturedBaselines, AgentCheckpoint
  <2>3. Loop!Bounded(sm.dispatchCount + 1) \in Nat
    BY <1>3, BoundedIsCapped DEF AgentInvariant
  <2>4. /\ sm' \in AgentCheckpoint
        /\ sm'.stage = sm.stage
        /\ sm'.dispatchCount = Loop!Bounded(sm.dispatchCount + 1)
    BY <1>1, <2>1, <2>2, <2>3 DEF AgentCheckpoint
  <2>5. sm.stage = "REVIEW" => sm.dispatchCount < Loop!MAX_REVIEW_DISPATCH_LOOPS
    <3> SUFFICES ASSUME sm.stage = "REVIEW" PROVE sm.dispatchCount < Loop!MAX_REVIEW_DISPATCH_LOOPS
      OBVIOUS
    <3>1. Loop!Directive = Loop!ReviewDirective
      BY DEF Loop!Directive
    <3>2. Loop!Directive.type = "subagent"
      BY <1>7 DEF Loop!Counts
    <3>3. Loop!ReviewDirective # Loop!Do("human_gate")
      BY <3>1, <3>2 DEF Loop!Do
    <3> QED
      BY <1>3, <3>3 DEF Loop!ReviewDirective, Loop!MAX_REVIEW_DISPATCH_LOOPS
  <2>6. sm.stage = "REVIEW" => sm'.dispatchCount = sm.dispatchCount + 1
    BY <1>3, <2>4, <2>5, BoundedIsCapped DEF AgentInvariant, Loop!MAX_REVIEW_DISPATCH_LOOPS
  <2> QED
    BY <1>1, <1>2, <1>3, <1>4, <1>5, <1>7, <2>4, <2>5, <2>6
    DEF AgentInvariant, ReviewersAreCounted, Loop!MAX_REVIEW_DISPATCH_LOOPS
<1>8. CASE /\ Loop!Counts(Loop!Directive)
           /\ faults < MaxFaults
           /\ faults' = faults + 1
           /\ UNCHANGED sm
  BY <1>1, <1>2, <1>3, <1>4, <1>5, <1>8 DEF AgentInvariant, ReviewersAreCounted
<1> QED
  BY <1>6, <1>7, <1>8 DEF Loop!NextAction

\* A step that leaves the stage, or keeps the task where it is and asks again
\* with at most the pending dispatch counted as run.
LEMMA MovesKeep ==
    ASSUME AgentInvariant,
           sm' \in AgentCheckpoint, agent' \in Agents, runs' \in Nat, faults' = faults,
           \/ sm'.stage # "REVIEW"
           \/ sm'.dispatchCount = 0 /\ runs' = 0 /\ agent'.pc # "obey"
           \/ /\ sm'.stage = sm.stage
              /\ sm'.dispatchCount = sm.dispatchCount
              /\ \/ agent' = agent /\ runs' = runs
                 \/ agent.pc # "obey" /\ agent'.pc = "ask" /\ runs' = runs
                 \/ agent.pc = "obey" /\ agent'.pc = "ask" /\ runs' <= runs + 1
    PROVE  AgentInvariant'
<1>1. sm \in AgentCheckpoint /\ agent \in Agents /\ runs \in Nat /\ faults \in Nat
  BY DEF AgentInvariant
<1>2. sm.dispatchCount \in Nat
  BY <1>1 DEF AgentCheckpoint
<1>3. SUFFICES ASSUME sm'.stage = "REVIEW"
               PROVE  /\ runs' + (IF agent'.pc = "obey" THEN 1 ELSE 0) <= sm'.dispatchCount + faults'
                      /\ sm'.dispatchCount <= Loop!MAX_REVIEW_DISPATCH_LOOPS
  BY <1>1 DEF AgentInvariant, ReviewersAreCounted
<1>4. CASE sm'.dispatchCount = 0 /\ runs' = 0 /\ agent'.pc # "obey"
  BY <1>1, <1>4 DEF Loop!MAX_REVIEW_DISPATCH_LOOPS
<1>5. CASE /\ sm'.stage = sm.stage
           /\ sm'.dispatchCount = sm.dispatchCount
           /\ \/ agent' = agent /\ runs' = runs
              \/ agent.pc # "obey" /\ agent'.pc = "ask" /\ runs' = runs
              \/ agent.pc = "obey" /\ agent'.pc = "ask" /\ runs' <= runs + 1
  BY <1>1, <1>2, <1>3, <1>5 DEF AgentInvariant, ReviewersAreCounted
<1> QED
  BY <1>3, <1>4, <1>5

\* Every other step of the agent.
LEMMA AgentStepKeeps ==
    ASSUME AgentInvariant, Loop!AgentStep
    PROVE  AgentInvariant'
<1>1. sm \in AgentCheckpoint /\ agent \in Agents /\ runs \in Nat /\ faults \in Nat
  BY DEF AgentInvariant
<1>2. CASE Loop!NextAction
  BY <1>2, NextActionKeeps
<1>3. CASE Loop!RouteToTriage
  <2>1. Loop!Enter(sm, "TRIAGE") \in AgentCheckpoint /\ Loop!Enter(sm, "TRIAGE").stage = "TRIAGE"
    BY <1>1, EnterIsCheckpoint DEF Loop!Stages
  <2>2. sm' \in AgentCheckpoint /\ sm'.stage = "TRIAGE"
    BY <1>3, <2>1, PausesKeepTheRest DEF Loop!RouteToTriage, Loop!Gates, Loop!HUMAN_WAIT_GATES
  <2> QED
    BY <1>1, <1>3, <2>2, MovesKeep DEF Loop!RouteToTriage
<1>4. CASE Loop!LeaveTriage
  <2>1. sm' \in AgentCheckpoint /\ sm'.stage = "COMPLETED"
    BY <1>1, <1>4, EnterIsCheckpoint DEF Loop!LeaveTriage, Loop!Stages
  <2> QED
    BY <1>1, <1>4, <2>1, MovesKeep DEF Loop!LeaveTriage
<1>5. CASE Loop!Fruitless
  BY <1>1, <1>5, AskingIsOne, RunIsCounted, MovesKeep DEF Loop!Fruitless
<1>6. CASE Loop!DiscoveryWrites \/ Loop!DiscoveryStrays \/ Loop!PlannerWrites
  BY <1>1, <1>6, AskingIsOne, RunIsCounted, MovesKeep
  DEF Loop!DiscoveryWrites, Loop!DiscoveryStrays, Loop!PlannerWrites, Loop!Obeys
<1>7. CASE Loop!ImplementerWorks
  <2>1. Loop!AskAgain /\ agent' \in Agents /\ agent'.pc = "ask" /\ agent.pc = "obey"
    BY <1>1, <1>7, AskingIsOne DEF Loop!ImplementerWorks, Loop!Obeys
  <2>2. CASE Loop!Move(sm, "QUALITY_GATE") \/ Loop!Move(sm, "IMPLEMENT")
    <3>1. sm' \in AgentCheckpoint /\ sm'.stage # "REVIEW" /\ runs' = 0
      BY <1>1, <2>2, MoveIsCheckpoint DEF Loop!Stages
    <3> QED
      BY <1>7, <2>1, <3>1, MovesKeep DEF Loop!ImplementerWorks
  <2>3. CASE Loop!CountRun /\ UNCHANGED sm
    BY <1>1, <1>7, <2>1, <2>3, RunIsCounted, MovesKeep DEF Loop!ImplementerWorks
  <2> QED
    BY <1>7, <2>2, <2>3 DEF Loop!ImplementerWorks
<1>8. ASSUME NEW verdict \in Loop!GateVerdicts, Loop!GateFiles(verdict) PROVE AgentInvariant'
  BY <1>1, <1>8, AskingIsOne, RunIsCounted, MovesKeep DEF Loop!GateFiles, Loop!Obeys
<1>9. ASSUME NEW approved \in BOOLEAN, Loop!ReviewerFiles(approved) PROVE AgentInvariant'
  <2>1. Loop!AskAgain /\ agent' \in Agents /\ agent'.pc = "ask"
    BY <1>1, <1>9, AskingIsOne DEF Loop!ReviewerFiles
  <2>2. /\ Loop!Enter(sm, "COMMIT") \in AgentCheckpoint /\ Loop!Enter(sm, "COMMIT").stage = "COMMIT"
        /\ Loop!Enter(sm, "IMPLEMENT") \in AgentCheckpoint /\ Loop!Enter(sm, "IMPLEMENT").stage = "IMPLEMENT"
    BY <1>1, EnterIsCheckpoint DEF Loop!Stages
  <2>3. /\ Loop!PauseAtGate(Loop!Enter(sm, "COMMIT"), "COMMIT") \in AgentCheckpoint
        /\ Loop!PauseAtGate(Loop!Enter(sm, "COMMIT"), "COMMIT").stage = "COMMIT"
    BY <2>2, PausesKeepTheRest DEF Loop!Gates, Loop!HUMAN_WAIT_GATES
  <2>4. sm' \in AgentCheckpoint /\ sm'.stage # "REVIEW"
    BY <1>9, <2>2, <2>3 DEF Loop!ReviewerFiles, AgentCheckpoint
  <2> QED
    BY <1>1, <1>9, <2>1, <2>4, MovesKeep DEF Loop!ReviewerFiles
<1>10. CASE Loop!Advance
  <2>1. Loop!AskAgain /\ agent' \in Agents /\ agent'.pc = "ask" /\ agent.pc = "obey" /\ faults' = faults
    BY <1>1, <1>10, AskingIsOne DEF Loop!Advance
  <2>2. CASE Loop!CountRun /\ UNCHANGED sm
    BY <1>1, <2>1, <2>2, RunIsCounted, MovesKeep
  <2>3. CASE \E to \in Loop!Stages : Loop!Move(sm, to)
    <3>1. sm' \in AgentCheckpoint /\ sm'.dispatchCount = 0 /\ runs' = 0
      BY <1>1, <2>3, MoveIsCheckpoint
    <3> QED
      BY <2>1, <3>1, MovesKeep
  <2>4. (Loop!CountRun /\ UNCHANGED sm) \/ \E to \in Loop!Stages : Loop!Move(sm, to)
    BY <1>1, <1>10 DEF Loop!Advance, Loop!Stages, AgentCheckpoint
  <2> QED
    BY <2>2, <2>3, <2>4
<1> QED
  BY <1>2, <1>3, <1>4, <1>5, <1>6, <1>7, <1>8, <1>9, <1>10 DEF Loop!AgentStep

\* What people do.
LEMMA PersonStepKeeps ==
    ASSUME AgentInvariant, Loop!PersonStep
    PROVE  AgentInvariant'
<1>1. sm \in AgentCheckpoint /\ agent \in Agents /\ runs \in Nat /\ faults \in Nat
  BY DEF AgentInvariant
<1>2. ASSUME Loop!PersonActs
      PROVE  agent.pc = "wait" /\ agent' \in Agents /\ agent'.pc = "ask" /\ faults' = faults
  BY <1>1, <1>2, AskingIsOne DEF Loop!PersonActs
<1>3. CASE Loop!AnswerDiscovery
  BY <1>1, <1>2, <1>3, MovesKeep DEF Loop!AnswerDiscovery
<1>4. CASE Loop!AnswerApproval
  <2>1. [sm EXCEPT !.worktree = TRUE] \in AgentCheckpoint
    BY <1>1 DEF AgentCheckpoint
  <2>2. \E s \in AgentCheckpoint, to \in Loop!Stages : Loop!Move(s, to)
    BY <1>1, <1>4, <2>1 DEF Loop!AnswerApproval, Loop!Stages
  <2>3. sm' \in AgentCheckpoint /\ sm'.dispatchCount = 0 /\ runs' = 0
    BY <2>2, MoveIsCheckpoint
  <2> QED
    BY <1>2, <1>4, <2>3, MovesKeep DEF Loop!AnswerApproval
<1>5. CASE Loop!AnswerWork
  <2>1. Loop!PersonActs
    BY <1>5 DEF Loop!AnswerWork
  <2>2. CASE /\ sm.stage = "IMPLEMENT"
             /\ sm' = [Loop!ResumeFromGate(sm) EXCEPT !.worktree = TRUE]
             /\ UNCHANGED runs
    <3>1. Loop!ResumeFromGate(sm) \in AgentCheckpoint /\ Loop!ResumeFromGate(sm).stage = "IMPLEMENT"
      BY <1>1, <2>2, PausesKeepTheRest DEF Loop!Gates, Loop!HUMAN_WAIT_GATES
    <3>2. sm' \in AgentCheckpoint /\ sm'.stage = "IMPLEMENT"
      BY <2>2, <3>1 DEF AgentCheckpoint
    <3> QED
      BY <1>1, <1>2, <2>1, <2>2, <3>2, MovesKeep
  <2>3. CASE Loop!Move(sm, "QUALITY_GATE") \/ Loop!Move(sm, "PLAN")
    <3>1. sm' \in AgentCheckpoint /\ sm'.stage # "REVIEW" /\ runs' = 0
      BY <1>1, <2>3, MoveIsCheckpoint DEF Loop!Stages
    <3> QED
      BY <1>2, <2>1, <3>1, MovesKeep
  <2> QED
    BY <1>5, <2>2, <2>3 DEF Loop!AnswerWork
<1>6. CASE Loop!AnswerReview
  <2>1. Loop!ResumeFromGate(sm) \in AgentCheckpoint
    BY <1>1, PausesKeepTheRest DEF Loop!Gates, Loop!HUMAN_WAIT_GATES
  <2> DEFINE resumed == Loop!ResumeFromGate(sm)
  <2>2. /\ Loop!Enter(resumed, "COMMIT") \in AgentCheckpoint
        /\ Loop!Enter(resumed, "COMMIT").stage = "COMMIT"
        /\ Loop!Enter(resumed, "IMPLEMENT") \in AgentCheckpoint
        /\ Loop!Enter(resumed, "IMPLEMENT").stage = "IMPLEMENT"
    BY <2>1, EnterIsCheckpoint DEF Loop!Stages
  <2>3. /\ Loop!PauseAtGate(Loop!Enter(resumed, "COMMIT"), "COMMIT") \in AgentCheckpoint
        /\ Loop!PauseAtGate(Loop!Enter(resumed, "COMMIT"), "COMMIT").stage = "COMMIT"
    BY <2>2, PausesKeepTheRest DEF Loop!Gates, Loop!HUMAN_WAIT_GATES
  <2>4. \/ sm' = [Loop!PauseAtGate(Loop!Enter(resumed, "COMMIT"), "COMMIT") EXCEPT !.remediation = FALSE]
        \/ sm' = [Loop!Enter(resumed, "IMPLEMENT") EXCEPT !.remediation = TRUE]
    BY <1>6 DEF Loop!AnswerReview
  <2> HIDE DEF resumed
  <2>5. sm' \in AgentCheckpoint /\ sm'.stage # "REVIEW"
    BY <2>2, <2>3, <2>4 DEF AgentCheckpoint
  <2> QED
    BY <1>2, <1>6, <2>5, MovesKeep DEF Loop!AnswerReview
<1>7. CASE Loop!AnswerCommit \/ Loop!AnswerTriage
  <2>1. \E to \in Loop!Stages : Loop!Move(sm, to)
    BY <1>7 DEF Loop!AnswerCommit, Loop!AnswerTriage, Loop!Stages, Loop!ALLOWED_TRANSITIONS
  <2>2. sm' \in AgentCheckpoint /\ sm'.dispatchCount = 0 /\ runs' = 0
    BY <1>1, <2>1, MoveIsCheckpoint
  <2> QED
    BY <1>2, <1>7, <2>2, MovesKeep DEF Loop!AnswerCommit, Loop!AnswerTriage
<1>8. CASE Loop!Resume
  <2>1. /\ sm' \in AgentCheckpoint
        /\ sm'.stage = sm.stage
        /\ sm'.dispatchCount = sm.dispatchCount
    BY <1>1, <1>8, PausesKeepTheRest DEF Loop!Resume, Loop!Gates, Loop!HUMAN_WAIT_GATES
  <2> QED
    BY <1>1, <1>2, <1>8, <2>1, MovesKeep DEF Loop!Resume
<1>9. CASE Loop!Restart
  <2>1. sm' \in AgentCheckpoint /\ sm'.stage = "DISCOVERY"
    BY <1>1, <1>9 DEF Loop!Restart, AgentCheckpoint, Loop!Stages
  <2>2. agent' \in Agents
    BY <1>1, <1>9 DEF Loop!Restart, Agents
  <2> QED
    BY <1>9, <2>1, <2>2, MovesKeep DEF Loop!Restart
<1>10. ASSUME NEW passed \in BOOLEAN, Loop!InProcessGate(passed) PROVE AgentInvariant'
  <2>1. /\ Loop!Enter(sm, "REVIEW") \in AgentCheckpoint
        /\ Loop!Enter(sm, "REVIEW").dispatchCount = 0
        /\ Loop!Enter(sm, "IMPLEMENT") \in AgentCheckpoint
        /\ Loop!Enter(sm, "IMPLEMENT").stage = "IMPLEMENT"
    BY <1>1, EnterIsCheckpoint DEF Loop!Stages
  <2>2. CASE passed
    <3>1. sm' = [Loop!Enter(sm, "REVIEW") EXCEPT !.implementToGateLoops = 0]
      BY <1>10, <2>2 DEF Loop!InProcessGate
    <3>2. sm' \in AgentCheckpoint /\ sm'.dispatchCount = 0
      BY <2>1, <3>1 DEF AgentCheckpoint
    <3> QED
      BY <1>2, <1>10, <3>2, MovesKeep DEF Loop!InProcessGate
  <2>3. CASE ~passed
    <3> DEFINE failed == [Loop!Enter(sm, "IMPLEMENT") EXCEPT !.implementToGateLoops = @ + 1,
                                                        !.gateFailed = TRUE]
    <3>0. ASSUME NEW e \in AgentCheckpoint,
                 NEW f, f = [e EXCEPT !.implementToGateLoops = @ + 1, !.gateFailed = TRUE]
          PROVE  f \in AgentCheckpoint /\ f.stage = e.stage
      <4>1. e.implementToGateLoops + 1 \in Nat
        BY DEF AgentCheckpoint
      <4> QED
        BY <3>0, <4>1 DEF AgentCheckpoint
    <3>1. failed \in AgentCheckpoint /\ failed.stage = "IMPLEMENT"
      BY <2>1, <3>0
    <3>2. sm' = IF Loop!TripsBreaker(failed) THEN Loop!PauseAtGate(failed, "CIRCUIT_BREAKER") ELSE failed
      BY <1>10, <2>3 DEF Loop!InProcessGate
    <3> HIDE DEF failed
    <3>3. sm' \in AgentCheckpoint /\ sm'.stage = "IMPLEMENT"
      BY <3>1, <3>2, PausesKeepTheRest DEF Loop!Gates
    <3> QED
      BY <1>2, <1>10, <3>3, MovesKeep DEF Loop!InProcessGate
  <2> QED
    BY <2>2, <2>3
<1> QED
  BY <1>3, <1>4, <1>5, <1>6, <1>7, <1>8, <1>9, <1>10 DEF Loop!PersonStep

\* Halts, edited plans and removed worktrees.
LEMMA TroubleKeeps ==
    ASSUME AgentInvariant, Loop!Trouble
    PROVE  AgentInvariant'
<1>1. sm \in AgentCheckpoint /\ agent \in Agents /\ runs \in Nat /\ faults \in Nat
  BY DEF AgentInvariant
<1>2. /\ sm' \in AgentCheckpoint
      /\ sm'.stage = sm.stage
      /\ sm'.dispatchCount = sm.dispatchCount
  BY <1>1, PausesKeepTheRest DEF Loop!Trouble, Loop!Gates
<1> QED
  BY <1>1, <1>2, MovesKeep DEF Loop!Trouble

\* The invariant of the loop.
LEMMA AgentInvariantHolds == AgentSpec => []AgentInvariant
<1>1. Loop!Init => AgentInvariant
  <2> SUFFICES ASSUME Loop!Init PROVE AgentInvariant
    OBVIOUS
  <2>1. sm \in AgentCheckpoint /\ sm.stage = "INITIALIZED"
    BY LoopBounds DEF Loop!Init, AgentCheckpoint, Loop!Stages, Loop!EXECUTION_MODES
  <2>2. agent \in Agents
    BY DEF Loop!Init, Agents, Loop!Directives, Loop!Do
  <2> QED
    BY <2>1, <2>2 DEF Loop!Init, AgentInvariant, ReviewersAreCounted
<1>2. AgentInvariant /\ [Loop!Next]_(Loop!vars) => AgentInvariant'
  <2> SUFFICES ASSUME AgentInvariant, [Loop!Next]_(Loop!vars) PROVE AgentInvariant'
    OBVIOUS
  <2>1. CASE Loop!AgentStep
    BY <2>1, AgentStepKeeps
  <2>2. CASE Loop!PersonStep
    BY <2>2, PersonStepKeeps
  <2>3. CASE Loop!Trouble
    BY <2>3, TroubleKeeps
  <2>4. CASE UNCHANGED Loop!vars
    BY <2>4 DEF Loop!vars, AgentInvariant, ReviewersAreCounted
  <2> QED
    BY <2>1, <2>2, <2>3, <2>4 DEF Loop!Next
<1> QED
  BY <1>1, <1>2, PTL DEF AgentSpec, Loop!Spec

-----------------------------------------------------------------------------
(* What lies outside of the checkpoint, and the bound on failing saves.    *)

\* The documents, the tree and the evidence keep their kinds in every step.
LEMMA FindingsKeepType ==
    ASSUME sm \in AgentCheckpoint, work \in Findings, faults \in 0 .. MaxFaults, Loop!Next
    PROVE  work' \in Findings /\ faults' \in 0 .. MaxFaults
<1>1. CASE Loop!NextAction
  <2>1. work' = work /\ (faults' = faults \/ (faults < MaxFaults /\ faults' = faults + 1))
    BY <1>1 DEF Loop!NextAction
  <2> QED
    BY <2>1, LoopBounds
<1>2. CASE Loop!RouteToTriage \/ Loop!LeaveTriage \/ Loop!Fruitless \/ Loop!DiscoveryWrites \/ Loop!PlannerWrites
  BY <1>2 DEF Loop!RouteToTriage, Loop!LeaveTriage, Loop!Fruitless, Loop!DiscoveryWrites, Loop!PlannerWrites, Findings
<1>3. CASE Loop!DiscoveryStrays
  BY <1>3 DEF Loop!DiscoveryStrays, Findings
<1>4. CASE Loop!ImplementerWorks
  BY <1>4 DEF Loop!ImplementerWorks, Findings
<1>5. ASSUME NEW verdict \in Loop!GateVerdicts, Loop!GateFiles(verdict)
      PROVE  work' \in Findings /\ faults' \in 0 .. MaxFaults
  BY <1>5 DEF Loop!GateFiles, Findings
<1>6. ASSUME NEW approved \in BOOLEAN, Loop!ReviewerFiles(approved)
      PROVE  work' \in Findings /\ faults' \in 0 .. MaxFaults
  BY <1>6 DEF Loop!ReviewerFiles
<1>7. CASE Loop!Advance
  <2>1. ASSUME NEW to \in Loop!Stages,
               work' = [work EXCEPT !.evidence = Loop!EvidenceAfter(sm, to),
                                    !.planDir = @ \/ to = "DISCOVERY",
                                    !.stray = @ /\ to # "PLAN"]
        PROVE  work' \in Findings
    <3>1. Loop!EvidenceAfter(sm, to) \in Loop!GateVerdicts \union {"none"}
      BY DEF Loop!EvidenceAfter, Findings
    <3> QED
      BY <2>1, <3>1 DEF Findings
  <2>2. UNCHANGED work \/ \E to \in Loop!Stages :
               work' = [work EXCEPT !.evidence = Loop!EvidenceAfter(sm, to),
                                    !.planDir = @ \/ to = "DISCOVERY",
                                    !.stray = @ /\ to # "PLAN"]
    BY <1>7 DEF Loop!Advance, Loop!Stages, AgentCheckpoint
  <2> QED
    BY <1>7, <2>1, <2>2 DEF Loop!Advance
<1>8. CASE Loop!AnswerDiscovery \/ Loop!AnswerWork
  BY <1>8 DEF Loop!AnswerDiscovery, Loop!AnswerWork, Loop!PersonActs, Findings
<1>9. CASE Loop!AnswerApproval
  <2>1. PICK to \in {"IMPLEMENT", "PLAN"} :
           work' = [work EXCEPT !.blocked = FALSE, !.readable = TRUE, !.plan = @ /\ to = "IMPLEMENT"]
    BY <1>9 DEF Loop!AnswerApproval
  <2> QED
    BY <1>9, <2>1 DEF Loop!AnswerApproval, Loop!PersonActs, Findings
<1>10. CASE Loop!AnswerReview \/ Loop!AnswerCommit \/ Loop!AnswerTriage \/ Loop!Resume
  BY <1>10 DEF Loop!AnswerReview, Loop!AnswerCommit, Loop!AnswerTriage, Loop!Resume, Loop!PersonActs
<1>11. CASE Loop!Restart
  BY <1>11 DEF Loop!Restart, Findings
<1>12. ASSUME NEW passed \in BOOLEAN, Loop!InProcessGate(passed)
       PROVE  work' \in Findings /\ faults' \in 0 .. MaxFaults
  BY <1>12 DEF Loop!InProcessGate, Loop!PersonActs, Findings
<1>13. CASE Loop!Trouble
  BY <1>13 DEF Loop!Trouble, Findings
<1> QED
  BY <1>1, <1>2, <1>3, <1>4, <1>5, <1>6, <1>7, <1>8, <1>9, <1>10, <1>11, <1>12, <1>13
  DEF Loop!Next, Loop!AgentStep, Loop!PersonStep

-----------------------------------------------------------------------------
(* Theorems.                                                               *)

\* Every variable keeps its type, in every mode and under any troubles.
THEOREM AgentTypeCorrect == AgentSpec => []Loop!TypeOK
<1> DEFINE Typed == work \in Findings /\ faults \in 0 .. MaxFaults
<1>1. Loop!Init => Typed
  BY LoopBounds DEF Loop!Init, Findings
<1>2. AgentInvariant /\ Typed /\ [Loop!Next]_(Loop!vars) => Typed'
  <2> SUFFICES ASSUME AgentInvariant, Typed, [Loop!Next]_(Loop!vars) PROVE Typed'
    OBVIOUS
  <2>1. CASE Loop!Next
    BY <2>1, FindingsKeepType DEF AgentInvariant
  <2>2. CASE UNCHANGED Loop!vars
    BY <2>2 DEF Loop!vars
  <2> QED
    BY <2>1, <2>2
<1>3. AgentInvariant /\ Typed => Loop!TypeOK
  BY DEF AgentInvariant, Loop!TypeOK, AgentCheckpoint, Findings, Agents
<1> QED
  BY <1>1, <1>2, <1>3, AgentInvariantHolds, PTL DEF AgentSpec, Loop!Spec

\* In a visit of REVIEW no more reviewers run than the cap of
\* buildReviewAction allows, plus one for every counter that was not saved, for
\* any number of those.
THEOREM ReviewersStayWithinCap == AgentSpec => []ReviewersWithinCap
<1>1. AgentInvariant => ReviewersWithinCap
  BY DEF AgentInvariant, ReviewersAreCounted, ReviewersWithinCap, Loop!ReviewersWithinCap, AgentCheckpoint,
     Loop!MAX_REVIEW_DISPATCH_LOOPS
<1> QED
  BY <1>1, AgentInvariantHolds, PTL

\* No answer of `next` sends a sub-agent or a command out while the task waits at
\* a gate for people: whatever directive its stage has.
THEOREM NobodyIsSentOutAtAGate == AgentSpec => NobodyWorksAtAGate
<1> DEFINE Kept == agent.pc = "ask" /\ agent'.pc = "obey" => sm.pausedAtGate = Loop!NoGate
<1>1. AgentInvariant /\ [Loop!Next]_(Loop!vars) => [Kept]_(Loop!vars)
  <2> SUFFICES ASSUME AgentInvariant, Loop!Next, agent.pc = "ask", agent'.pc = "obey"
               PROVE  sm.pausedAtGate = Loop!NoGate
    OBVIOUS
  <2>1. agent \in Agents
    BY DEF AgentInvariant
  <2>2. ~Loop!AskAgain
    BY <2>1, AskingIsOne
  <2>3. ~Loop!PersonActs
    BY <2>2 DEF Loop!PersonActs
  <2>4. agent' # agent
    OBVIOUS
  <2>5. ~Loop!PersonStep
    <3>1. ~Loop!Restart
      BY DEF Loop!Restart
    <3> QED
      BY <2>3, <3>1 DEF Loop!PersonStep, Loop!AnswerDiscovery, Loop!AnswerApproval, Loop!AnswerWork,
         Loop!AnswerReview, Loop!AnswerCommit, Loop!AnswerTriage, Loop!Resume, Loop!InProcessGate
  <2>6. Loop!NextAction
    BY <2>2, <2>4, <2>5 DEF Loop!Next, Loop!AgentStep, Loop!Trouble, Loop!RouteToTriage, Loop!LeaveTriage, Loop!Fruitless,
       Loop!DiscoveryWrites, Loop!DiscoveryStrays, Loop!PlannerWrites, Loop!ImplementerWorks, Loop!GateFiles,
       Loop!ReviewerFiles, Loop!Advance
  <2> QED
    BY <2>6 DEF Loop!NextAction, Loop!Heed, Loop!Actionable
<1> QED
  BY <1>1, AgentInvariantHolds, PTL DEF AgentSpec, Loop!Spec, NobodyWorksAtAGate, Loop!NobodyWorksAtAGate

=============================================================================
