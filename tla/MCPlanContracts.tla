------------------------- MODULE MCPlanContracts -------------------------
(* What a plan is asked and what its gate makes of it, in three parts, of   *)
(* which a behaviour explores one: QualityGate (command sections and smoke  *)
(* protocol of any document, and the gate that runs them), SmokeStatics     *)
(* (the directories and writes of any smoke script) and PlanApproval        *)
(* (register, baseline and paths against the repository).                  *)
EXTENDS MCQualityGate

CONSTANTS
    Texts, Assigned, Shapes, MaxDepth, MaxSize,
    Plans, BaseTests, OtherTests, Prints, NoPlan, MaxChanges

VARIABLES
    track, scan, sh, findings, events, line, size,
    plan, recorded, stage, base, work, prints, accepted, attempt, changes,
    part         \* the part this behaviour explores

Statics == INSTANCE SmokeStatics
Approval == INSTANCE PlanApproval

ASSUME StaticsConstants == Statics!StaticsAssumption
ASSUME ApprovalConstants == Approval!ApprovalAssumption

(* Smoke scripts: the sandbox and what lies below and above it, the         *)
(* worktree, a variable the script sets and one it does not.               *)
Place(at, names) == [at |-> at, names |-> names]
Sandbox == Place("home", <<"cache", "smoke">>)

SomeTexts ==
    {Sandbox, Place("var", <<"a">>), Place("env", <<>>),
     Place("here", <<"..">>), Place("here", <<"st", "f">>),
     Place("PWD", <<>>), Place("home", <<"proj", "st", "f">>)}
SomeAssigned == {Sandbox, Place("PWD", <<>>), Place("env", <<>>)}

(* Plans that fit the repository, that do not, and that hide a misfit from  *)
(* a careless parser: behind fences, sub-headings, later marker lines and  *)
(* stubs.                                                                  *)
Heading(level, name) == [kind |-> "heading", level |-> level, name |-> name]
Tick == [kind |-> "fence", char |-> "tick"]
Tilde == [kind |-> "fence", char |-> "tilde"]
Says(value) == [subject |-> "limit", value |-> value]
Test(path, title, id, value) == [path |-> path, title |-> title, id |-> id, asserts |-> {Says(value)}]
Ref(title, id) == [path |-> "a.test.ts", title |-> title, id |-> id]
Pins(title, id) == [kind |-> "Pins", test |-> Ref(title, id)]
NewTest(title, id) == [kind |-> "New test", test |-> Ref(title, id)]
Asserts(value) == [kind |-> "Asserts", asserts |-> Says(value)]
Row(marks) == [kind |-> "row", marks |-> marks]
Markers(marks) == [kind |-> "markers", marks |-> marks]
Label(key, value) == [kind |-> "label", key |-> key, value |-> value]
Step(paths, adds) == [kind |-> "checkbox", paths |-> paths, adds |-> adds,
                      files |-> {"a.test.ts"}]
Out(names) == [kind |-> "out", names |-> names]
Dist == [name |-> "artifacts/x", excluded |-> TRUE, outside |-> FALSE, module |-> FALSE]

Register == Heading(2, "Test Register")
Baseline == Heading(2, "Baseline Evidence")
Claim(command, output) == <<Heading(3, "count"), Label("Declared", "7"),
                            Label("Command", command), Label("Output", output)>>

FirstPlan == <<Register, Row(<<Pins("old", "T1")>>), Markers(<<Asserts("5")>>)>>

SomePlans ==
    {FirstPlan,
     <<Register, Tick, Row(<<NewTest("old", "T1")>>), Tick, Heading(3, "other"),
       Row(<<NewTest("new", "T2"), Asserts("6")>>)>>,
     <<Register, Row(<<NewTest("new", "T2")>>), Heading(2, "other"), Step({}, {"T2"})>>,
     <<Baseline>> \o Claim("npm run count", "7"),
     <<[kind |-> "armed"], Baseline, Tilde, Heading(3, "hidden"), Tick, Tilde>>
        \o Claim("npm run count", "") \o <<Tick, [kind |-> "text", value |-> "7"], Tick>>,
     <<Baseline, Heading(3, "<claim-id>"), Label("Declared", ""), Label("Command", ""),
       Label("Output", ""), Heading(2, "Acceptance Criteria"), Step({Dist}, {}),
       Out({"artifacts/x"})>>,
     <<Register, [kind |-> "placeholder"], Heading(2, "other"), Step({Dist}, {"T3"})>>,
     <<Baseline>> \o Claim("npm run build", "7"),
     <<Register, Row(<<Asserts("5")>>), Markers(<<Pins("old", "T1"), Asserts("6")>>)>>}

SomeTests == {Test("a.test.ts", "old", "T1", "5")}
MoreTests == {Test("a.test.ts", "new", "T2", "5"), Test("a.test.ts", "other", "T2", "5")}
SomePrints == {[exit |-> "ok", lines |-> {"7"}], [exit |-> "ok", lines |-> {"8"}],
               [exit |-> "failed", lines |-> {"7"}]}

----------------------------------------------------------------------------
gateVars == <<doc, digest, task, report, run, edits, last>>
scriptVars == <<track, scan, sh, findings, events, line, size>>
planVars == <<plan, recorded, stage, base, work, prints, accepted, attempt, changes>>

PartsInit ==
    /\ part \in {"gate", "script", "plan"}
    /\ Init /\ Statics!Init /\ Approval!Init
    /\ part # "gate" => doc = <<"targets", "npm test">>
    /\ part # "plan" => plan = FirstPlan /\ prints.exit = "failed"

PartsNext ==
    /\ UNCHANGED part
    /\ \/ part = "gate" /\ Next /\ UNCHANGED <<scriptVars, planVars>>
       \/ part = "script" /\ Statics!Next /\ UNCHANGED <<gateVars, planVars>>
       \/ part = "plan" /\ Approval!Next /\ UNCHANGED <<gateVars, scriptVars>>

PartsSpec == PartsInit /\ [][PartsNext]_<<gateVars, scriptVars, planVars, part>>

-----------------------------------------------------------------------------
(* The properties of the parts, under the names this module is run with.   *)

\* SmokeStatics: a CLI that ran outside every sandbox was found by the rule
\* that follows the directory (smoke-protocol.ts).
CliStaysInSandbox == part = "script" => Statics!CliStaysInSandbox

\* SmokeStatics: a write whose directory nobody created was found by the rule
\* that collects what was created (smoke-protocol.ts).
WritesHaveParents == part = "script" => Statics!WritesHaveParents

\* PlanApproval: what a task implemented itself is never held against its plan
\* (plan-test-register-contract.ts).
OwnTestsAreNotRefused == part = "plan" => Approval!OwnTestsAreNotRefused

\* PlanApproval: a task starts only from a plan that fits the repository at
\* that time (start-implementation.ts).
StartsFromAFittingPlan == Approval!StartsFromAFittingPlan
=============================================================================
