----------------------------- MODULE QualityGate -----------------------------
(***************************************************************************)
(* One task at its quality gate: the run of the gate inside codeloop       *)
(* (application/run-quality-gate.ts, resolve-gate-verification.ts), the    *)
(* evidence it files, the sub-agent that runs the same commands and files  *)
(* a report instead, and the certification of a filed report on the way    *)
(* to REVIEW (application/certify-review-exit.ts).  The documents, command *)
(* lists and coverage rules are those of GateContracts.                    *)
(*                                                                         *)
(* A run reads the plan once, runs for minutes and hashes the plan again   *)
(* before it saves; a person may edit or delete the plan between any two   *)
(* steps, the process may crash, and the evidence file may fail to be      *)
(* written after the checkpoint was.  Reading the plan and hashing it the  *)
(* first time are one synchronous block of the code and one step here.     *)
(*                                                                         *)
(* Bounds: MaxRounds gate entries in the history, MaxEdits edits of the    *)
(* plan.  The checkpoint has no other writer here: TaskPipeline and        *)
(* CheckpointStore are about commands that overlap.                        *)
(***************************************************************************)
EXTENDS GateContracts

CONSTANTS
    Drafts,         \* the documents a planner may write
    Approvable,     \* the drafts a person is ready to approve
    Settings,       \* the workspaces, configurations and flags of a run
    MetricsRead,    \* the test summaries a test command may print
    CheckOutcomes,  \* how a smoke check may behave
    MaxRounds, MaxEdits

Workspaces ==
    [node : BOOLEAN, scripts : SUBSET {"typecheck", "build", "lint", "test"}, go : BOOLEAN,
     act : BOOLEAN, actionlint : BOOLEAN, workflowChanged : BOOLEAN]

\* What a run is given is made of lines, commands and outcomes the gate knows.
ASSUME GateAssumption ==
    /\ Drafts \subseteq Seq(Lines) /\ Approvable \subseteq Seq(Lines)
    /\ Settings \subseteq [workspace : Workspaces, explicit : Seq(Commands),
                           configured : Seq(Commands), unchanged : BOOLEAN, dryRun : BOOLEAN]
    /\ MetricsRead \subseteq [passed : Nat \union {-1}, failed : Nat, skipped : Nat]
    /\ CheckOutcomes \subseteq {"ok", "fails", "prints FAIL", "hangs"}
    /\ MaxRounds \in Nat /\ MaxEdits \in Nat

Deleted == <<"deleted">>   \* the file is gone: it reads as empty, hashes to nothing
NoDigest == <<"none">>
NoReport == [verdict |-> "none"]
NoRun == [pc |-> "idle"]

VARIABLES
    doc,       \* the plan document on disk; its digest is the document itself
    digest,    \* approvedPlanDigest of the checkpoint
    task,      \* the checkpoint: stage, gate rounds in the history, gate loops
    report,    \* the task's .gate.json, or none
    run,       \* the gate run in progress
    edits,     \* how many edits of the plan were made
    last       \* what the last completed run did: history for the properties

vars == <<doc, digest, task, report, run, edits, last>>

Round(t) == IF t.rounds > 1 THEN t.rounds ELSE 1

Content(d) == IF d = Deleted THEN <<>> ELSE d

NothingRan == [ran |-> {}, checked |-> 0, source |-> "none", doc |-> <<>>, filed |-> FALSE]

Init ==
    /\ doc \in Drafts
    /\ digest = NoDigest
    /\ task = [stage |-> "PLAN", rounds |-> 0, loops |-> 0]
    /\ report = NoReport
    /\ run = NoRun
    /\ edits = 0
    /\ last = NothingRan

\* What approval asks of the declared targets and of the smoke protocol.
PlanContracts(d) ==
    /\ ~TargetFindings(parseQualityGateTargets(d))
    /\ SmokeProtocolOf(d).findings = 0

\* Approval records the digest, but for a plan document that cannot be hashed.
ApprovePlan(d) ==
    /\ task.stage = "PLAN"
    /\ doc \in Approvable
    /\ d \in {doc, NoDigest}
    /\ PlanContracts(doc)
    /\ task' = [task EXCEPT !.stage = "IMPLEMENT"]
    /\ digest' = d
    /\ UNCHANGED <<doc, report, run, edits, last>>

-----------------------------------------------------------------------------
(* The run inside codeloop.                                                *)

\* The stage a run starts from; nothing is saved before it ends.  From the
\* gate itself no entry is added to the history.
EnterGate(t) ==
    IF t.stage = "QUALITY_GATE" THEN t
    ELSE [t EXCEPT !.stage = "QUALITY_GATE", !.rounds = @ + 1]

\* A measured tree without any change certifies nothing: the run ends at once.
StartRun(s) ==
    /\ run.pc = "idle"
    /\ task.stage \in {"IMPLEMENT", "QUALITY_GATE", "COMMIT", "COMPLETED"}
    /\ task.stage # "QUALITY_GATE" => task.rounds < MaxRounds
    /\ run' = IF s.unchanged THEN NoRun
              ELSE [pc |-> "resolve", settings |-> s, task |-> EnterGate(task)]
    /\ UNCHANGED <<doc, digest, task, report, edits, last>>

\* No expected digest is no comparison; a plan that is gone is a refusal.
Integrity ==
    IF digest = NoDigest THEN "UNVERIFIED"
    ELSE IF doc = Deleted THEN "MISSING"
    ELSE IF doc = digest THEN "VERIFIED" ELSE "MISMATCH"

\* Mutant: a plan that differs from the approved one is run all the same.
PreflightFails_ignoresTheDigest(targets, smoke, plan) ==
    TargetFindings(targets) \/ plan.unlinted \/ smoke.findings > 0

\* What refuses the run before its first command.  WithLint leaves no list
\* without a required lint command, so that last refusal never fires.
PreflightFails(targets, smoke, plan) ==
    \/ Integrity \in {"MISMATCH", "MISSING"}
    \/ TargetFindings(targets) \/ plan.unlinted
    \/ smoke.findings > 0

ResolveVerification ==
    /\ run.pc = "resolve"
    /\ LET targets == parseQualityGateTargets(Content(doc))
           smoke == SmokeProtocolOf(Content(doc))
           s == run.settings
           plan == ResolveCommandPlan(s.explicit, targets.commands, s.configured, s.workspace)
           refused == PreflightFails(targets, smoke, plan)
       IN run' = [pc |-> IF refused THEN "save" ELSE "commands",
                  dryRun |-> s.dryRun, task |-> run.task, doc |-> doc,
                  todo |-> IF refused THEN <<>> ELSE plan.commands,
                  source |-> plan.source, passed |-> ~refused,
                  executed |-> {}, ran |-> {}, tests |-> -1,
                  smokeChecks |-> smoke.checks,
                  smoke |-> IF smoke.found THEN "FAILED" ELSE "NOT_DECLARED",
                  checked |-> 0]
    /\ UNCHANGED <<doc, digest, task, report, edits, last>>

\* One command; the first that does not pass ends the list.
RunCommand(exit, m) ==
    /\ run.pc = "commands"
    /\ run.todo # <<>>
    /\ LET c == Head(run.todo)
           ok == CommandPasses(c, exit, m)
       IN /\ c \notin TestCommands => m = NoMetrics
          /\ run' = [run EXCEPT
                        !.executed = @ \union {c},
                        !.ran = IF ok THEN @ \union {c} ELSE @,
                        !.tests = IF c \in TestCommands /\ m # NoMetrics
                                  THEN MeasuredPassedCount(m) ELSE @,
                        !.passed = ok,
                        !.todo = IF ok THEN Tail(@) ELSE <<>>,
                        !.pc = IF ok THEN "commands" ELSE "rehash"]
    /\ UNCHANGED <<doc, digest, task, report, edits, last>>

\* How the checks of the run may behave.
Outcomes == IF run.pc = "commands" THEN [1..run.smokeChecks -> CheckOutcomes] ELSE {}

\* The smoke script runs when every command passed and the plan declares one.
RunSmokeProtocol(outcomes, hasMarker) ==
    /\ run.pc = "commands"
    /\ run.todo = <<>>
    /\ IF run.smokeChecks = 0
       THEN run' = [run EXCEPT !.pc = "rehash"]
       ELSE /\ Len(outcomes) = run.smokeChecks
            /\ run' = [run EXCEPT !.smoke = SmokeStatus(outcomes, hasMarker),
                                  !.checked = ChecksStarted(outcomes),
                                  !.passed = SmokeStatus(outcomes, hasMarker) = "PASSED",
                                  !.pc = "rehash"]
    /\ UNCHANGED <<doc, digest, task, report, edits, last>>

\* A plan that changed while its commands ran fails the run; one that cannot
\* be hashed any more, or could not before, does not.
RehashPlan ==
    /\ run.pc = "rehash"
    /\ run' = [run EXCEPT !.pc = "save",
                          !.passed = @ /\ (Deleted \in {doc, run.doc} \/ doc = run.doc)]
    /\ UNCHANGED <<doc, digest, task, report, edits, last>>

\* The verdict moves the task and is saved; a dry run saves nothing.
SaveVerdict ==
    /\ run.pc = "save"
    /\ IF run.dryRun
       THEN run' = NoRun /\ UNCHANGED <<task, last>>
       ELSE /\ task' = IF run.passed THEN [run.task EXCEPT !.stage = "REVIEW", !.loops = 0]
                       ELSE [run.task EXCEPT !.stage = "IMPLEMENT", !.loops = @ + 1]
            /\ run' = [run EXCEPT !.pc = "file"]
            /\ last' = [ran |-> run.ran, checked |-> run.checked, source |-> run.source,
                        doc |-> run.doc, filed |-> FALSE]
    /\ UNCHANGED <<doc, digest, report, edits>>

\* Mutant: the evidence of a run says nothing of the smoke checks.
Evidence_withoutSmokeChecks ==
    [verdict |-> IF run.passed THEN "PASSED" ELSE "FAILED",
     commands |-> run.executed, testsPassed |-> run.tests,
     smoke |-> IF run.smoke = "TIMED_OUT" THEN "FAILED" ELSE run.smoke,
     checks |-> {}, round |-> Round(run.task)]

Evidence ==
    [verdict |-> IF run.passed THEN "PASSED" ELSE "FAILED",
     commands |-> run.executed, testsPassed |-> run.tests,
     smoke |-> IF run.smoke = "TIMED_OUT" THEN "FAILED" ELSE run.smoke,
     checks |-> IF run.smoke = "PASSED" THEN 1..run.smokeChecks ELSE {},
     round |-> Round(run.task)]

\* Filing the evidence is best effort: a failure leaves the old file.
FileEvidence(written) ==
    /\ run.pc = "file"
    /\ report' = IF written THEN Evidence ELSE report
    /\ last' = [last EXCEPT !.filed = written]
    /\ run' = NoRun
    /\ UNCHANGED <<doc, digest, task, edits>>

Crash ==
    /\ run.pc # "idle"
    /\ run' = NoRun
    /\ UNCHANGED <<doc, digest, task, report, edits, last>>

-----------------------------------------------------------------------------
(* The sub-agent's run, its report, and the way to REVIEW.                 *)

\* Removing the evidence file is best effort.
Clear(removed) == report' = IF removed THEN NoReport ELSE report

\* transition QUALITY_GATE: old evidence goes, the stage is entered and a
\* sub-agent dispatched.
DispatchGate(removed) ==
    /\ run.pc = "idle"
    /\ task.stage = "IMPLEMENT"
    /\ task.rounds < MaxRounds
    /\ Clear(removed)
    /\ task' = EnterGate(task)
    /\ last' = NothingRan
    /\ UNCHANGED <<doc, digest, run, edits>>

\* An honest sub-agent reports what it ran and passed, but it may not have
\* run everything, nor the checks.
SubAgentReport(ran, checks, verdict) ==
    [verdict |-> verdict, commands |-> ran,
     testsPassed |-> IF ran \intersect TestCommands = {} THEN -1 ELSE 1,
     smoke |-> IF checks = 0 THEN "NOT_DECLARED" ELSE "PASSED",
     checks |-> 1..checks, round |-> Round(task)]

\* gate-report: filed at the gate only, for its round, if it covers the plan as
\* it reads now; whether that is the approved plan is asked on the way out.
FileReport(ran, checks, verdict) ==
    /\ run.pc = "idle"
    /\ task.stage = "QUALITY_GATE"
    /\ Covers(SubAgentReport(ran, checks, verdict), Content(doc))
    /\ report' = SubAgentReport(ran, checks, verdict)
    /\ last' = [ran |-> ran, checked |-> checks, source |-> "report",
                doc |-> doc, filed |-> TRUE]
    /\ UNCHANGED <<doc, digest, task, run, edits>>

\* Mutant: any filed report will do, of whatever round.
CertifyReviewExit_anyRound(r, t) ==
    /\ r # NoReport
    /\ digest # NoDigest => doc = digest
    /\ Covers(r, Content(doc))

CertifyReviewExit(r, t) ==
    /\ r # NoReport
    /\ r.round = Round(t)
    /\ digest # NoDigest => doc = digest
    /\ Covers(r, Content(doc))

\* transition REVIEW, or review: certified, then the report is consumed; the
\* verdict of the report is recorded and does not decide the stage.
EnterReview(removed) ==
    /\ run.pc = "idle"
    /\ task.stage = "QUALITY_GATE"
    /\ CertifyReviewExit(report, task)
    /\ task' = [task EXCEPT !.stage = "REVIEW"]
    /\ last' = [last EXCEPT !.doc = doc, !.source =
                    IF report.verdict = "PASSED" THEN @ ELSE "failed report"]
    /\ Clear(removed)
    /\ UNCHANGED <<doc, digest, run, edits>>

\* transition away from the gate without certification, which consumes the
\* report, and what the stages after it do with the task.
LeaveReview(to, removed) ==
    /\ run.pc = "idle"
    /\ \/ task.stage = "QUALITY_GATE" /\ to = "IMPLEMENT"
       \/ task.stage = "REVIEW" /\ to \in {"IMPLEMENT", "COMMIT"}
       \/ task.stage = "COMMIT" /\ to \in {"IMPLEMENT", "COMPLETED"}
    /\ task' = [task EXCEPT !.stage = to]
    /\ Clear(removed /\ task.stage = "QUALITY_GATE")
    /\ last' = IF to = "IMPLEMENT" THEN NothingRan ELSE last
    /\ UNCHANGED <<doc, digest, run, edits>>

\* A person adds an entry, undoes every edit, or deletes the file.
Edited ==
    {Deleted, Append(Content(doc), "go vet"), Append(Content(doc), "refused")} \union ({digest} \ {NoDigest})

EditPlan(d) ==
    /\ task.stage # "PLAN"
    /\ edits < MaxEdits
    /\ d # doc
    /\ doc' = d
    /\ edits' = edits + 1
    /\ UNCHANGED <<digest, task, report, run, last>>

Next ==
    \/ \E d \in {doc, NoDigest} : ApprovePlan(d)
    \/ \E s \in Settings : StartRun(s)
    \/ ResolveVerification
    \/ \E exit \in {"ok", "failed", "timed out"}, m \in MetricsRead : RunCommand(exit, m)
    \/ \E o \in Outcomes, marker \in BOOLEAN : RunSmokeProtocol(o, marker)
    \/ RehashPlan
    \/ SaveVerdict
    \/ \E written \in BOOLEAN : FileEvidence(written)
    \/ Crash
    \/ \E removed \in BOOLEAN : DispatchGate(removed)
    \/ \E ran \in SUBSET Range(parseQualityGateTargets(Content(doc)).commands),
          checks \in 0..SmokeProtocolOf(Content(doc)).checks, v \in {"PASSED", "FAILED"} : FileReport(ran, checks, v)
    \/ \E removed \in BOOLEAN : EnterReview(removed)
    \/ \E to \in {"IMPLEMENT", "COMMIT", "COMPLETED"}, removed \in BOOLEAN : LeaveReview(to, removed)
    \/ \E d \in Edited : EditPlan(d)

Spec == Init /\ [][Next]_vars

-----------------------------------------------------------------------------
(* Properties.                                                             *)

Verdicts == {"PASSED", "FAILED"}
SmokeVerdicts == {"PASSED", "FAILED", "NOT_DECLARED"}
StagesHere == {"PLAN", "IMPLEMENT", "QUALITY_GATE", "REVIEW", "COMMIT", "COMPLETED"}

\* The types of the checkpoint, the evidence file and the run.
TypeOK ==
    /\ doc \in Seq(Lines) \union {Deleted}
    /\ digest \in Approvable \union {NoDigest}
    /\ task \in [stage : StagesHere, rounds : 0..MaxRounds, loops : 0..MaxRounds + 1]
    /\ edits \in 0..MaxEdits
    /\ report # NoReport =>
        /\ report.verdict \in Verdicts /\ report.smoke \in SmokeVerdicts
        /\ report.commands \subseteq Commands /\ report.testsPassed \in Nat \union {-1}
        /\ report.round \in 1..MaxRounds
    /\ run.pc \in {"idle", "resolve", "commands", "rehash", "save", "file"}

\* The two ways to REVIEW agree: the evidence a passed run of codeloop files
\* is evidence certification would accept for the plan that was run, unless
\* the commands were given on the command line in place of the plan's.
PassedRunIsCertifiable ==
    /\ task.stage = "REVIEW" /\ run.pc = "idle" /\ report # NoReport
    /\ last.filed /\ last.source # "explicit" /\ doc = last.doc
    => CertifyReviewExit(report, task)

\* Work in REVIEW had every target its plan declares executed with success
\* and every smoke check started, whichever of the two ways it came, and that
\* plan is the approved one where a digest was recorded.
ReviewedWorkRanItsPlan ==
    task.stage = "REVIEW" /\ last.source \notin {"explicit", "failed report"}
    => /\ Range(parseQualityGateTargets(Content(last.doc)).commands) \subseteq last.ran
       /\ last.checked >= SmokeProtocolOf(Content(last.doc)).checks
       /\ digest # NoDigest => last.doc = digest

-----------------------------------------------------------------------------
(* A second reading of a document, line by line, to compare the parsers    *)
(* with: whether line i stands in a fence, and which section it is in.     *)
(* The smoke protocol begins at the first line that reads as its heading,  *)
(* even one inside a fence, and fences are counted from there.             *)

InFence(d, from, i) == Cardinality({j \in from..(i - 1) : d[j] \in Fences}) % 2 = 1
Opener(d, i) == d[CHOOSE j \in 1..(i - 1) : d[j] \in Fences
                        /\ \A k \in (j + 1)..(i - 1) : d[k] \notin Fences]
IsHeading(d, from, i) == d[i] \in Headings /\ ~InFence(d, from, i)

\* Line i is in the smoke section whose heading is line j.
InSmokeSection(d, j, i) ==
    /\ d[j] = "smoke"
    /\ \A k \in 1..(j - 1) : d[k] # "smoke"
    /\ \A k \in (j + 1)..i : IsHeading(d, j, k) => HeadingLevel[d[k]] > 2

InTargetSection(d, i) ==
    \E j \in 1..(i - 1) :
        /\ IsHeading(d, 1, j) /\ d[j] = "targets"
        /\ \A k \in 1..(j - 1) : IsHeading(d, 1, k) => d[k] \notin {"targets", "alias"}
        /\ \A k \in (j + 1)..i : ~IsHeading(d, 1, k)

\* No entry of the targets section is dropped: it is executed, or it refuses
\* the plan; and every shell fence of the smoke protocol is a check.
NothingDeclaredIsDropped ==
    LET d == Content(doc)
        targets == parseQualityGateTargets(d)
        smokeFences == {i \in DOMAIN d : \E j \in 1..(i - 1) :
                            InSmokeSection(d, j, i) /\ d[i] = "fence" /\ ~InFence(d, j, i)}
    IN  /\ \A i \in DOMAIN d :
              InTargetSection(d, i) /\ (InFence(d, 1, i) => Opener(d, i) = "fence")
              => /\ d[i] \in Commands => Contains(targets.commands, d[i])
                 /\ d[i] = "refused" => targets.rejected > 0
        /\ SmokeProtocolOf(d).checks = Cardinality(smokeFences)
=============================================================================
