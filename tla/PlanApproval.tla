---------------------------- MODULE PlanApproval ----------------------------
(***************************************************************************)
(* The contracts that compare a plan document with the repository before a *)
(* task is implemented: its test register and the ids of its new tests     *)
(* (plan-test-register-contract.ts, test-register.ts), its baseline        *)
(* evidence (plan-baseline-contract.ts, baseline-evidence.ts) and the      *)
(* paths it promises (plan-evidence-contract.ts, plan-evidence-paths.ts).  *)
(* They are asked at APPROVAL and again on every fresh way into IMPLEMENT, *)
(* never when the task loops back from a gate, while the plan, the base    *)
(* branch, the worktree and what commands print all move.                  *)
(*                                                                         *)
(* A plan is a sequence of lines, each what the parsers tell apart:        *)
(*   heading  level, name; `claim` is the id a heading below "Baseline     *)
(*            Evidence" gives                                              *)
(*   fence    its character; only the baseline parser knows "tilde"        *)
(*   row      `- **TR-1** ...` or its table form, with the marks on it     *)
(*   markers  a further line of marks: Pins, New test, Asserts             *)
(*   checkbox, bullet   the paths on it, the test files among them and the *)
(*            test ids it says to add; `label` is an acceptance criterion  *)
(*   placeholder   the scaffold's comment in an empty register             *)
(*   out      an out-of-scope declaration of paths                         *)
(*   label    Declared, Command or Output with its value, "" when a fence  *)
(*            holds it; text  such a value                                 *)
(*   armed    "the baseline values were reproduced"; figure  a baseline    *)
(*            with a digit; restates  a claim's id beside values           *)
(* How a line is recognised, quotes, JSON and number equality of values,   *)
(* and how a test's body is cut out of its file, are left out; so are dry  *)
(* runs, which warn where these refuse.                                    *)
(***************************************************************************)
EXTENDS Naturals, Sequences, FiniteSets, SequencesExt

CONSTANTS
    Plans,        \* the documents the task may have
    BaseTests,    \* the tests on the base branch at first
    OtherTests,   \* tests other tasks may merge into the base branch
    Prints,       \* what the measuring command may print: results
    NoPlan,       \* no plan recorded
    MaxChanges    \* bound: edits, merges, resets and changes of the worktree

\* Tests are what the register tells apart of them; the module that
\* instantiates this one assumes it.
ApprovalAssumption ==
    \A t \in BaseTests : t = [path |-> t.path, title |-> t.title, id |-> t.id, asserts |-> t.asserts]

VARIABLES
    plan,         \* the document on disk
    recorded,     \* the document whose digest approval recorded
    stage,
    base, work,   \* the tests on the base branch and in the worktree
    prints,       \* what the measuring command prints in the worktree
    accepted,     \* history: what the last accepted attempt was asked about
    attempt,      \* history: how the last attempt ended
    changes

vars == <<plan, recorded, stage, base, work, prints, accepted, attempt, changes>>

----------------------------------------------------------------------------
(* Fences.  isFence of the test register toggles on every backtick fence;  *)
(* the baseline parser matches the closing fence with the opening one.     *)

Backticks(d, n) == {k \in 1 .. n : d[k].kind = "fence" /\ d[k].char = "tick"}
InFence(d, n) == (d[n].kind = "fence" /\ d[n].char = "tick") \/ Cardinality(Backticks(d, n)) % 2 = 1

computeFenceMask(d) ==
    LET open[n \in 0 .. Len(d)] ==
            IF n = 0 THEN "none"
            ELSE IF d[n].kind # "fence" THEN open[n - 1]
            ELSE IF open[n - 1] = "none" THEN d[n].char
            ELSE IF open[n - 1] = d[n].char THEN "none" ELSE open[n - 1]
    IN [n \in DOMAIN d |-> d[n].kind = "fence" \/ open[n] # "none"]

IsHeading(d, n) == d[n].kind = "heading"

----------------------------------------------------------------------------
(* Test register.                                                          *)

\* The heading whose section line n is in, 0 when in none: a section is left
\* at a heading of its level or above.
extractRegisterSection(d) ==
    LET opened[n \in 0 .. Len(d)] ==
            IF n = 0 THEN 0
            ELSE IF ~IsHeading(d, n) \/ InFence(d, n) THEN opened[n - 1]
            ELSE IF opened[n - 1] # 0
                 THEN IF d[n].level <= d[opened[n - 1]].level THEN 0 ELSE opened[n - 1]
            ELSE IF d[n].name = "Test Register" THEN n ELSE 0
    IN opened

Given(marks, kind) == SelectSeq(marks, LAMBDA m : m.kind = kind)
LastOf(marks, kind) == LET g == Given(marks, kind) IN IF g = <<>> THEN {} ELSE {Last(g).test}

\* A row collects the marks of the lines up to the next row; the last mark
\* of a kind counts.  No row is known outside a register.
readTestRegister(d) ==
    LET section == extractRegisterSection(d)
        here    == {n \in DOMAIN d : section[n] # 0 /\ section[n] # n /\ ~InFence(d, n)}
        starts  == {n \in here : d[n].kind = "row"}
        Marks(n) == LET own == {k \in here : k >= n /\ d[k].kind \in {"row", "markers"}
                                                /\ \A s \in starts : s <= n \/ s > k}
                        seq == SetToSortSeq(own, <)
                    IN FlattenSeq([k \in DOMAIN seq |-> d[seq[k]].marks])
        body == {n \in DOMAIN d : section[n] # 0 /\ section[n] # n}
    IN [present |-> /\ \E n \in DOMAIN d : section[n] = n
                    /\ ~(Cardinality(body) = 1 /\ \A n \in body : d[n].kind = "placeholder"),
        rows    |-> {[line |-> n, pins |-> LastOf(Marks(n), "Pins"),
                      newTest |-> LastOf(Marks(n), "New test"),
                      asserts |-> {m.asserts : m \in Range(Given(Marks(n), "Asserts"))}] : n \in starts}]

extractTestBlock(tree, ref) == {t \in tree : t.path = ref.path /\ t.title = ref.title}

findContradiction(asserts, test) ==
    \E a \in asserts, p \in test.asserts : a.subject = p.subject /\ a.value # p.value

\* The file a new test goes to, at the base when the revision can be read;
\* a file absent there holds nothing.
readTargetSource_workspace(path, readable) == {t \in work : t.path = path}

readTargetSource(path, readable) ==
    {t \in IF readable THEN base ELSE work : t.path = path}

RowRefused(row, readable) ==
    \/ row.pins = {} /\ row.newTest = {}
    \/ \E ref \in row.pins :
          LET blocks == extractTestBlock(work, ref)
          IN blocks = {} \/ \E t \in blocks : findContradiction(row.asserts, t)
    \/ /\ row.pins = {}
       /\ \E ref \in row.newTest : extractTestBlock(readTargetSource(ref.path, readable), ref) # {}

\* Ids of new tests, from rows and from checklist steps that name one test
\* file; an acceptance criterion's label is no test id.
extractPlannedTestIds(d) ==
    LET labels == {d[n].label : n \in {k \in DOMAIN d : d[k].kind = "bullet" /\ ~InFence(d, k)}}
        steps  == {n \in DOMAIN d : /\ d[n].kind = "checkbox" /\ ~InFence(d, n)
                                    /\ Cardinality(d[n].files) = 1}
    IN UNION {{[id |-> ref.id, path |-> ref.path] : ref \in row.newTest} :
                 row \in readTestRegister(d).rows}
         \union UNION {{[id |-> id, path |-> path] : id \in d[n].adds \ labels, path \in d[n].files} :
                          n \in steps}

TestRegisterContract(d, readable) ==
    LET register == readTestRegister(d)
    IN /\ register.present => register.rows # {}
       /\ \A row \in register.rows : ~RowRefused(row, readable)
       /\ \A planned \in extractPlannedTestIds(d) :
             \A t \in readTargetSource(planned.path, readable) : t.id # planned.id

----------------------------------------------------------------------------
(* Baseline evidence.                                                      *)

\* The deepest heading of that name, the first of several.
findSection(d, mask) ==
    LET found == {n \in DOMAIN d : /\ ~mask[n] /\ IsHeading(d, n) /\ d[n].level > 1
                                   /\ d[n].name = "Baseline Evidence"}
        deepest == {n \in found : \A k \in found : d[k].level <= d[n].level}
        start == Min(deepest)
        after == {n \in start + 1 .. Len(d) : ~mask[n] /\ IsHeading(d, n) /\ d[n].level <= d[start].level}
    IN IF found = {} THEN {}
       ELSE start .. (IF after = {} THEN Len(d) ELSE Min(after) - 1)

\* The value beside the label, or in the fence that follows it.
readLabelValue(d, n, end) ==
    IF d[n].value # "" THEN d[n].value
    ELSE IF n + 2 <= end /\ d[n + 1].kind = "fence" /\ d[n + 2].kind = "text" THEN d[n + 2].value
    ELSE ""

claimRegions(d, mask, section) ==
    LET starts == {n \in section : n # Min(section) /\ ~mask[n] /\ IsHeading(d, n)}
    IN {[first |-> n, last |-> Min({k - 1 : k \in {s \in starts : s > n}} \union {Max(section)})] :
           n \in starts}

BaselineClaims(d) ==
    LET mask    == computeFenceMask(d)
        section == findSection(d, mask)
        Value(r, key) ==
            LET given == {n \in r.first + 1 .. r.last : ~mask[n] /\ d[n].kind = "label" /\ d[n].key = key}
            IN IF given = {} THEN "" ELSE readLabelValue(d, Max(given), r.last)
    IN IF section = {} THEN {}
       ELSE {[id |-> d[r.first].name, line |-> r.first, declared |-> Value(r, "Declared"),
              command |-> Value(r, "Command"), output |-> Value(r, "Output")] :
                r \in claimRegions(d, mask, section)}

untouchedStub(c) == c.id = "<claim-id>" /\ {c.declared, c.command, c.output} = {""}

\* The structural findings: a label without a value, a reproduction claimed
\* without a claim, or with a figure no claim covers, a value restated
\* differently outside the section.
BaselineFindings(d) ==
    LET mask   == computeFenceMask(d)
        section == findSection(d, mask)
        claims == {c \in BaselineClaims(d) : ~untouchedStub(c)}
        twos   == {n \in DOMAIN d : ~mask[n] /\ IsHeading(d, n) /\ d[n].level = 2}
        headerEnd == IF twos = {} THEN Len(d) + 1 ELSE Min(twos)
        claimed == \E n \in 1 .. headerEnd - 1 : ~mask[n] /\ d[n].kind = "armed"
        body   == {n \in headerEnd .. Len(d) : ~mask[n] /\ n \notin section}
    IN \/ \E c \in claims : "" \in {c.declared, c.command, c.output}
       \/ claimed /\ claims = {}
       \/ claimed /\ \E n \in body : d[n].kind = "figure"
       \/ \E n \in body, c \in claims :
             /\ d[n].kind = "restates" /\ d[n].name = c.id /\ c.declared # ""
             /\ c.declared \notin d[n].values

evaluateBaselineClaim(c, printed) ==
    c.output \in printed /\ (c.declared \in printed \/ c.declared = "in words")

BaselineContract(d) ==
    /\ ~BaselineFindings(d)
    /\ \A c \in BaselineClaims(d) :
          ~untouchedStub(c) =>
             /\ c.command \notin {"npm run build", "node dist/x"}
             /\ prints.exit = "ok"
             /\ evaluateBaselineClaim(c, prints.lines)

----------------------------------------------------------------------------
(* Evidence paths: list items of the acceptance criteria and checklist      *)
(* steps may not promise what a commit leaves out or what lies outside.    *)

CriteriaAt(d) ==
    LET opened[n \in 0 .. Len(d)] ==
            IF n = 0 THEN 0
            ELSE IF InFence(d, n) \/ ~IsHeading(d, n) THEN opened[n - 1]
            ELSE IF d[n].name = "Acceptance Criteria"
                 THEN IF opened[n - 1] # 0 THEN opened[n - 1] ELSE n
            ELSE IF opened[n - 1] # 0 /\ d[n].level <= d[opened[n - 1]].level THEN 0
            ELSE opened[n - 1]
    IN opened

extractPlanTargetPaths(d) ==
    LET inAc  == CriteriaAt(d)
        items == {n \in DOMAIN d : d[n].kind \in {"checkbox", "bullet"} /\ ~InFence(d, n)}
    IN UNION {{[path |-> p, module |-> FALSE] : p \in d[n].paths} :
                 n \in {k \in items : inAc[k] # 0}}
         \union UNION {{[path |-> p, module |-> p.module] : p \in d[n].paths} :
                          n \in {k \in items : d[k].kind = "checkbox"}}

extractOutOfScopeDeclarations(d) ==
    UNION {d[n].names : n \in {k \in DOMAIN d : d[k].kind = "out" /\ ~InFence(d, k)}}

EvidenceContract(d) ==
    \A t \in extractPlanTargetPaths(d) :
        \/ t.path.name \in extractOutOfScopeDeclarations(d)
        \/ ~t.path.excluded /\ (t.module \/ ~t.path.outside)

Contracts(d, readable) ==
    /\ BaselineContract(d)
    /\ TestRegisterContract(d, readable)
    /\ EvidenceContract(d)

----------------------------------------------------------------------------
(* The task.                                                               *)

Nothing == [verdict |-> "none", readable |-> FALSE]

Asked(readable) == [plan |-> plan, base |-> base, prints |-> prints, readable |-> readable]

Enter(to, readable) ==
    /\ stage' = to
    /\ attempt' = [verdict |-> "entered", readable |-> readable]
    /\ accepted' = Asked(readable)

Refuse(readable) ==
    /\ attempt' = [verdict |-> "refused", readable |-> readable]
    /\ UNCHANGED <<stage, recorded, accepted>>

\* transition APPROVAL: the contracts, then the digest.
TransitionToApproval(readable) ==
    /\ stage = "PLAN"
    /\ \/ /\ Contracts(plan, readable)
          /\ Enter("APPROVAL", readable)
          /\ recorded' = plan
       \/ ~Contracts(plan, readable) /\ Refuse(readable)
    /\ UNCHANGED <<plan, base, work, prints, changes>>

\* transition IMPLEMENT or the implement command, on a fresh way in: after an
\* approval the plan must be the approved one, and the contracts are asked
\* again of the repository as it is now.
StartImplementation_trustsApproval(readable) ==
    /\ stage \in {"PLAN", "APPROVAL", "COMPLETED"}
    /\ LET fits == IF stage = "APPROVAL" THEN recorded = plan ELSE Contracts(plan, readable)
       IN \/ /\ fits
             /\ Enter("IMPLEMENT", readable)
             /\ recorded' = plan
          \/ ~fits /\ Refuse(readable)
    /\ UNCHANGED <<plan, base, work, prints, changes>>

StartImplementation(readable) ==
    /\ stage \in {"PLAN", "APPROVAL", "COMPLETED"}
    /\ LET fits == /\ stage = "APPROVAL" => recorded = plan
                   /\ Contracts(plan, readable)
       IN \/ /\ fits
             /\ Enter("IMPLEMENT", readable)
             /\ recorded' = plan
          \/ ~fits /\ Refuse(readable)
    /\ UNCHANGED <<plan, base, work, prints, changes>>

Change == changes < MaxChanges /\ changes' = changes + 1 /\ attempt' = Nothing

EditPlan ==
    /\ Change
    /\ stage \in {"PLAN", "APPROVAL"}
    /\ \E d \in Plans \ {plan} : plan' = d
    /\ UNCHANGED <<recorded, stage, base, work, prints, accepted>>

\* The implementer writes a planned test, or changes one that was there.
WriteTest ==
    /\ Change
    /\ stage = "IMPLEMENT"
    /\ \/ \E row \in readTestRegister(plan).rows : \E ref \in row.newTest :
             /\ extractTestBlock(work, ref) = {}
             /\ work' = work \union {[path |-> ref.path, title |-> ref.title, id |-> ref.id,
                                      asserts |-> row.asserts]}
       \/ \E t \in work : work' = (work \ {t}) \union {[t EXCEPT !.asserts = {}]}
    /\ UNCHANGED <<plan, recorded, stage, base, prints, accepted>>

CommandPrints ==
    /\ Change
    /\ \E p \in Prints \ {prints} : prints' = p
    /\ UNCHANGED <<plan, recorded, stage, base, work, accepted>>

OtherTaskMerges ==
    /\ Change
    /\ \E t \in OtherTests \ base : base' = base \union {t}
    /\ UNCHANGED <<plan, recorded, stage, work, prints, accepted>>

\* The task goes through its gates, and is merged or not before it is
\* opened anew; reset forgets the task and leaves its worktree.
Complete ==
    /\ Change
    /\ stage = "IMPLEMENT" /\ stage' = "COMPLETED"
    /\ base' \in {base, base \union work}
    /\ UNCHANGED <<plan, recorded, work, prints, accepted>>

Reset ==
    /\ Change
    /\ stage' = "PLAN" /\ recorded' = NoPlan
    /\ UNCHANGED <<plan, base, work, prints, accepted>>

Init ==
    /\ plan \in Plans
    /\ recorded = NoPlan /\ stage = "PLAN"
    /\ base = BaseTests /\ work = BaseTests
    /\ prints \in Prints
    /\ accepted = NoPlan /\ attempt = Nothing /\ changes = 0

Next ==
    \/ \E readable \in BOOLEAN : TransitionToApproval(readable)
    \/ \E readable \in BOOLEAN : StartImplementation(readable)
    \/ EditPlan \/ WriteTest \/ CommandPrints \/ OtherTaskMerges \/ Complete \/ Reset

Spec == Init /\ [][Next]_vars
----------------------------------------------------------------------------
(* Properties.                                                             *)

TypeOK ==
    /\ plan \in Plans /\ recorded \in Plans \union {NoPlan}
    /\ stage \in {"PLAN", "APPROVAL", "IMPLEMENT", "COMPLETED"}
    /\ prints \in Prints

Open(d, n) == ~computeFenceMask(d)[n]

\* The line stands in a section of that name, as a reader sees it.
Under(d, n, name) ==
    \E h \in 1 .. n - 1 :
        /\ IsHeading(d, h) /\ Open(d, h) /\ d[h].name = name
        /\ \A k \in h + 1 .. n : IsHeading(d, k) /\ Open(d, k) => d[k].level > d[h].level

\* Mark m is said of the row at line n.
SaidOf(d, n, m) ==
    \E k \in n .. Len(d) :
        /\ d[k].kind \in {"row", "markers"} /\ Open(d, k) /\ Under(d, k, "Test Register")
        /\ m \in Range(d[k].marks)
        /\ \A j \in n + 1 .. k : d[j].kind # "row" \/ ~Open(d, j)

RowFits(d, n, readable) ==
    LET marks == UNION {Range(d[k].marks) : k \in {j \in DOMAIN d : d[j].kind \in {"row", "markers"}}}
        said == {m \in marks : SaidOf(d, n, m)}
    IN /\ \E m \in said : m.kind # "Asserts"
       /\ \A m \in said : m.kind = "Pins" =>
             \E t \in work : /\ t.path = m.test.path /\ t.title = m.test.title
                            /\ \A a \in said : a.kind = "Asserts" =>
                                  ~\E p \in t.asserts : p.subject = a.asserts.subject
                                                        /\ p.value # a.asserts.value
       /\ \A m \in said : m.kind = "New test" /\ readable =>
             ~\E t \in base : /\ t.path = m.test.path
                             /\ (t.title = m.test.title \/ t.id = m.test.id)

OutputFits(d, n) ==
    LET value == IF d[n].value # "" THEN d[n].value
                 ELSE IF n + 2 <= Len(d) /\ d[n + 2].kind = "text" THEN d[n + 2].value ELSE "stub"
    IN value = "stub" \/ (prints.exit = "ok" /\ value \in prints.lines)

\* A task starts to be implemented, by whatever way in, only from a plan that
\* fits the repository at that time (start-implementation.ts:224-247,
\* transition-stage.ts:396-405): the tests its register pins exist and say
\* what the rows say, its new tests are new on the base branch, its measured
\* values are printed, and no step promises a path a commit would leave out.
StartsFromAFittingPlan ==
    [][ (stage # "IMPLEMENT" /\ stage' = "IMPLEMENT") =>
          \A n \in DOMAIN plan : Open(plan, n) =>
             /\ plan[n].kind = "row" /\ Under(plan, n, "Test Register")
                    => RowFits(plan, n, attempt'.readable)
             /\ plan[n].kind = "label" /\ plan[n].key = "Output" /\ Under(plan, n, "Baseline Evidence")
                    => OutputFits(plan, n)
             /\ plan[n].kind = "checkbox" =>
                    \A p \in plan[n].paths :
                       p.excluded => \E k \in DOMAIN plan : /\ plan[k].kind = "out" /\ Open(plan, k)
                                                           /\ p.name \in plan[k].names ]_vars

\* What a task implemented itself is never held against its plan: when the
\* base branch can be read, a plan that was accepted is accepted again, after
\* a reset or a reopening, as long as plan, base, measured values and pinned
\* tests are the same (plan-test-register-contract.ts:117-132, :243-276).
OwnTestsAreNotRefused ==
    (attempt.verdict = "refused" /\ accepted # NoPlan /\ BaseTests \subseteq work)
        => accepted # Asked(TRUE) \/ ~attempt.readable
=============================================================================
