---------------------------- MODULE GateContracts ----------------------------
(***************************************************************************)
(* The contracts of the quality gate that are pure functions: what a plan  *)
(* document declares (value-objects/quality-gate-targets.ts and            *)
(* smoke-protocol.ts), which commands a gate run executes                  *)
(* (infrastructure/file-build-detector.ts, value-objects/                  *)
(* gate-command-plan.ts), what a run's output amounts to (test-metrics.ts, *)
(* run-quality-gate.ts) and when a filed report covers a plan              *)
(* (gate-evidence-coverage.ts, gate-target-coverage.ts,                    *)
(* smoke-check-coverage.ts, gate-result-report.ts).                        *)
(*                                                                         *)
(* A document is a sequence of lines, a line one of                        *)
(*   "targets", "alias"   a heading of the targets section, level 2 and 3; *)
(*   "smoke"              the heading of the smoke protocol, level 2;      *)
(*   "other", "sub"       any other heading of level 2 and 3;              *)
(*   "fence", "data fence"  a fence line: shell or no language, and data;  *)
(*   a command            alone in a fence line or a bullet;               *)
(*   "refused"            an entry that looks like a command and is none:  *)
(*                        compound syntax, an unknown runner, a            *)
(*                        continuation without its end; inside a smoke     *)
(*                        check a line its static rules refuse;            *)
(*   "prose", "blank"     a bullet of words, an empty line or a comment.   *)
(* A heading inside a fence reads as a comment there.                      *)
(* How one line is told from another is left out, but for this: which      *)
(* section, fence and level a line is read in is the parsers' own state.   *)
(***************************************************************************)
EXTENDS Integers, FiniteSets, SequencesExt

CONSTANTS
    Commands,       \* commands that gates know
    TestCommands,   \* those isTestCommand recognises by their text
    LintCommands,   \* those that are or name the lint command
    TreeAssertions  \* those that can only pass on a committed tree

ASSUME CommandsAssumption ==
    /\ TestCommands \union LintCommands \union TreeAssertions \subseteq Commands
    /\ {"act", "actionlint", "npm run typecheck", "npm run build", "npm run lint",
        "npm test", "go vet", "go test"} \subseteq Commands

WorkflowLinters == {"act", "actionlint"}

-----------------------------------------------------------------------------
(* Reading the declared targets.                                           *)

HeadingLevel == [targets |-> 2, alias |-> 3, smoke |-> 2, other |-> 2, sub |-> 3]
Headings == DOMAIN HeadingLevel
Fences == {"fence", "data fence"}
Words == Headings \union Fences \union {"refused", "prose", "blank"}
Lines == Commands \union Words

\* A line that reads as a command reads as nothing else.
ASSUME LinesAssumption == Commands \intersect Words = {}

\* Mutant: an entry that is not executable is dropped without a word.
Entry_dropsWhatItCannotRun(s, line) ==
    IF line \in Commands
    THEN [s EXCEPT !.commands = IF Contains(@, line) THEN @ ELSE Append(@, line)]
    ELSE s

\* An entry line, in a command fence or as a bullet.
Entry(s, line) ==
    IF line \in Commands
    THEN [s EXCEPT !.commands = IF Contains(@, line) THEN @ ELSE Append(@, line)]
    ELSE IF line = "refused" THEN [s EXCEPT !.rejected = @ + 1] ELSE s

\* The section starts at its first heading; a deeper alias re-anchors it; a
\* heading of its level, or the smoke protocol, ends it.
TargetHeading(s, line) ==
    IF s.level = 0
    THEN IF line \in {"targets", "alias"} THEN [s EXCEPT !.level = HeadingLevel[line]] ELSE s
    ELSE IF line = "alias" /\ HeadingLevel[line] > s.level
    THEN [s EXCEPT !.level = HeadingLevel[line]]
    ELSE [s EXCEPT !.done = line = "smoke" \/ HeadingLevel[line] <= s.level]

TargetLine(s, line) ==
    IF s.done THEN s
    ELSE IF s.fence # "none"
    THEN IF line \in Fences THEN [s EXCEPT !.fence = "none"]
         ELSE IF s.fence # "commands" THEN s
         ELSE Entry(s, IF line = "prose" THEN "refused" ELSE line)
    ELSE IF line \in Fences
    THEN [s EXCEPT !.fence = IF s.level > 0 /\ line = "fence" THEN "commands" ELSE "data"]
    ELSE IF line \in Headings THEN TargetHeading(s, line)
    ELSE IF s.level > 0 THEN Entry(s, line) ELSE s

parseQualityGateTargets(doc) ==
    FoldLeft(TargetLine,
             [level |-> 0, fence |-> "none", commands |-> <<>>, rejected |-> 0, done |-> FALSE],
             doc)

TargetFindings(targets) ==
    targets.rejected > 0 \/ \E i \in DOMAIN targets.commands : targets.commands[i] \in TreeAssertions

-----------------------------------------------------------------------------
(* Reading the smoke protocol: one check per shell fence of its section.   *)

NoBody == [open |-> FALSE, runs |-> FALSE, refused |-> FALSE]

\* The fence that ends becomes a check; an empty or refused body is a finding.
FinishFence(s) ==
    IF ~s.body.open THEN s
    ELSE [s EXCEPT !.checks = @ + 1, !.body = NoBody,
                   !.findings = IF s.body.runs /\ ~s.body.refused THEN @ ELSE @ + 1]

SmokeLine(s, line) ==
    IF s.done THEN s
    ELSE IF s.fence # "none"
    THEN IF line \in Fences THEN [FinishFence(s) EXCEPT !.fence = "none"]
         ELSE IF line = "blank" \/ line \in Headings \/ ~s.body.open THEN s
         ELSE [s EXCEPT !.body.runs = TRUE, !.body.refused = @ \/ line = "refused"]
    ELSE IF ~s.in
    THEN IF line = "smoke" THEN [s EXCEPT !.in = TRUE] ELSE s
    ELSE IF line \in Headings
    THEN [s EXCEPT !.done = HeadingLevel[line] <= HeadingLevel["smoke"]]
    ELSE IF line \in Fences
    THEN [s EXCEPT !.sawFence = TRUE,
                   !.fence = "open",
                   !.body = IF line = "fence" THEN [NoBody EXCEPT !.open = TRUE] ELSE NoBody]
    ELSE [s EXCEPT !.sawContent = @ \/ line # "blank"]

\* A fence left open by the end of the document is a check all the same; a
\* section with content and no check is a finding of its own.
SmokeProtocolOf(doc) ==
    LET read == FoldLeft(SmokeLine,
                         [in |-> FALSE, fence |-> "none", body |-> NoBody, checks |-> 0,
                          findings |-> 0, sawFence |-> FALSE, sawContent |-> FALSE, done |-> FALSE],
                         doc)
        s == FinishFence(read)
        something == s.sawFence \/ s.sawContent
    IN [found |-> s.in /\ (s.checks > 0 \/ something),
        checks |-> s.checks,
        findings |-> s.findings + (IF s.in /\ s.checks = 0 /\ something THEN 1 ELSE 0)]

-----------------------------------------------------------------------------
(* The commands of a run.  A workspace is what the detector finds at its   *)
(* root: the scripts of package.json if there is one, a go.mod or not, the *)
(* usable workflow linters, and whether a workflow file is changed.        *)

NodeCommands(scripts) ==
    LET script(name, command) == IF name \in scripts THEN <<command>> ELSE <<>>
        all == script("typecheck", "npm run typecheck")
               \o (IF "typecheck" \in scripts THEN <<>> ELSE script("build", "npm run build"))
               \o script("lint", "npm run lint")
               \o script("test", "npm test")
    IN IF all = <<>> THEN <<"npm test">> ELSE all

GoCommands == <<"go vet", "go test">>

\* A directory may hold several ecosystems: their commands follow each other.
Detect(w) ==
    (IF w.node THEN NodeCommands(w.scripts) ELSE <<>>) \o (IF w.go THEN GoCommands ELSE <<>>)

DEFAULT_GATE_COMMANDS == <<"npm run typecheck", "npm test">>

IsLint(command) == command \in LintCommands
HasLint(commands) == \E i \in DOMAIN commands : IsLint(commands[i])

\* The lint script of the workspace always runs: appended when it is missing.
WithLint(commands, w) ==
    IF w.node /\ "lint" \in w.scripts /\ ~HasLint(commands)
    THEN Append(commands, "npm run lint") ELSE commands

\* A plan that declares targets replaces the act gate, so a changed workflow
\* file calls for a linter of its own, or the plan cannot be run.
WorkflowLintNeeded(commands, w) ==
    w.workflowChanged /\ \A i \in DOMAIN commands : commands[i] \notin WorkflowLinters

WorkflowLint(w) ==
    IF w.act THEN <<"act">> ELSE IF w.actionlint THEN <<"actionlint">> ELSE <<>>

\* explicit > plan > config > act > auto-detect > default.
ResolveCommandPlan(explicit, targets, configured, w) ==
    LET plan(commands, source, extra) ==
            [commands |-> WithLint(commands, w) \o extra, source |-> source,
             unlinted |-> source = "plan" /\ WorkflowLintNeeded(commands, w) /\ extra = <<>>]
    IN  CASE explicit # <<>> -> plan(explicit, "explicit", <<>>)
          [] explicit = <<>> /\ targets # <<>> ->
                plan(targets, "plan",
                     IF WorkflowLintNeeded(targets, w) THEN WorkflowLint(w) ELSE <<>>)
          [] explicit = <<>> /\ targets = <<>> /\ configured # <<>> ->
                plan(configured, "config", <<>>)
          [] explicit = <<>> /\ targets = <<>> /\ configured = <<>> ->
                IF w.act THEN plan(<<"act">>, "act", <<>>)
                ELSE IF w.node \/ w.go THEN plan(Detect(w), "auto-detect", <<>>)
                ELSE plan(DEFAULT_GATE_COMMANDS, "default", <<>>)

-----------------------------------------------------------------------------
(* What a run's output amounts to.                                         *)

NoMetrics == [passed |-> -1, failed |-> 0, skipped |-> 0]

Total(m) == m.passed + m.failed + m.skipped

\* An exit status of zero is not enough: a test command must report tests, and
\* none of them failed.
CommandPasses(command, exit, m) ==
    /\ exit = "ok"
    /\ command \in TestCommands => m # NoMetrics /\ m.failed = 0 /\ Total(m) > 0

\* The one count of passed tests a run records; -1 when none was measured.
MeasuredPassedCount(m) ==
    IF m = NoMetrics \/ m.passed > 0 THEN m.passed
    ELSE IF m.failed = 0 /\ Total(m) > 0 THEN Total(m) ELSE m.passed

\* The checks run as one script under `set -e`: it stops at the first check
\* that fails, hangs or exits, whatever its exit status.
ChecksStarted(outcomes) ==
    LET ending == {i \in DOMAIN outcomes : outcomes[i] \notin {"ok", "prints FAIL"}}
    IN IF ending = {} THEN Len(outcomes) ELSE CHOOSE i \in ending : \A j \in ending : i <= j

\* hasMarker: the marker of the first check came out at all.
SmokeStatus(outcomes, hasMarker) ==
    LET last == ChecksStarted(outcomes)
    IN  CASE outcomes[last] = "hangs" -> "TIMED_OUT"
          [] outcomes[last] # "hangs"
             /\ (~hasMarker \/ outcomes[last] = "fails"
                 \/ \E i \in 1..last : outcomes[i] = "prints FAIL") -> "FAILED"
          [] OTHER -> "PASSED"

-----------------------------------------------------------------------------
(* Whether a filed report covers a document.  A report names the commands  *)
(* it executed, the smoke protocol's verdict and the checks it reports.    *)

\* Mutant: the smoke part of a report is not looked at.
SmokeCovered_unread(smoke, report) == TRUE

SmokeCovered(smoke, report) ==
    smoke.found /\ smoke.checks > 0
    => report.smoke = "PASSED" /\ report.checks = 1..smoke.checks

TargetsCovered(targets, report) == Range(targets.commands) \subseteq report.commands

\* Tests that ran and left no positive count refuse the report.
TestsMeasured(report) ==
    report.commands \intersect TestCommands # {} => report.testsPassed > 0

\* Only a PASSED report is assessed: a FAILED one certifies nothing.
Covers(report, doc) ==
    report.verdict = "PASSED"
    => /\ TargetsCovered(parseQualityGateTargets(doc), report)
       /\ SmokeCovered(SmokeProtocolOf(doc), report)
       /\ TestsMeasured(report)
=============================================================================
