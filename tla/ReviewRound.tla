----------------------------- MODULE ReviewRound -----------------------------
(***************************************************************************)
(* A review round: the command with which a dispatched reviewer runs the   *)
(* critique (Tier 1, resolve-subagent.ts), the evidence it publishes, and  *)
(* `codeloop review`, which reads the reviewer's verdict and that evidence *)
(* and decides (run-review.ts, review-verdict.ts, finding-refutation.ts,   *)
(* ac-evidence.ts, critique-provenance.ts).                                *)
(*                                                                         *)
(* Reviewers, the review command and somebody who edits the worktree       *)
(* interleave.  A worktree is its content, a number, and HEAD.  A report   *)
(* is a sequence of findings; a verdict text a status and lines, whose     *)
(* wording, spelling and blank lines are left out; refutations name a line *)
(* and perhaps a severity.  Left out: what leads to REVIEW and the         *)
(* evidence of the gate (TaskPipeline, QualityGate), installing and        *)
(* updating the critique, the dry run, the plan's out-of-scope clauses,    *)
(* which only word the diagnostics, and the summary log.                   *)
(***************************************************************************)
EXTENDS Integers, SequencesExt

CONSTANTS
    Reviewers,       \* dispatched reviewers
    Bases,           \* names of base refs
    Reports,         \* the findings a critique may come to
    Texts,           \* the verdicts a reviewer may file
    RefutationLists, \* what the operator may refute
    HasCriteria,     \* does the plan state acceptance criteria
    MaxChanges,      \* bound on edits of the worktree and commits under a review
    MaxRounds,       \* bound on review records
    MaxCritiques,    \* bound on Tier 1 commands
    None

Findings ==
    [line : Nat, severity : {"critical", "error", "warning", "suggestion", "info"},
     action : {"change request", "affirmation", "ambiguous"}]

\* The operator may name the severity, one of those that block.
Refutations == [line : Nat, severity : {"any", "critical", "error"}]

ASSUME ReviewAssumption ==
    /\ MaxChanges \in Nat /\ MaxRounds \in Nat /\ MaxCritiques \in Nat
    /\ HasCriteria \in BOOLEAN
    /\ Reports \subseteq Seq(Findings) /\ RefutationLists \subseteq Seq(Refutations)

VARIABLES
    tree, head,  \* the content of the worktree, and its HEAD
    files,       \* the evidence: report and provenance sidecar
    tier,        \* the Tier 1 command of each reviewer
    critiques,   \* how many of them were started
    cmd,         \* the review command
    task         \* the checkpoint: stage, number of records, the last one

vars == <<tree, head, files, tier, critiques, cmd, task>>

NotRunning == [pc |-> "done"]

Critiques ==
    [findings : Reports, confidence : {"high", "low"}, bypassed : {FALSE},
     of : Bases \X Int, clean : BOOLEAN]
        \union [findings : {<<>>}, confidence : {"low"}, bypassed : {TRUE},
                of : Bases \X Int, clean : BOOLEAN]

Sidecars == [base : Bases, head : Int, digest : Int]

Tier1Commands ==
    {NotRunning}
        \union [pc : {"critique"}, base : Bases, clean : BOOLEAN]
        \union [pc : {"digest"}, base : Bases, clean : BOOLEAN, report : Critiques]
        \union [pc : {"publishSidecar", "publishReport"}, clean : BOOLEAN,
                report : Critiques, sidecar : Sidecars]

ReviewCommands ==
    {NotRunning}
        \union [pc : {"sidecar", "measure"}, base : Bases, supplied : BOOLEAN, clean : BOOLEAN,
                report : Critiques \union {None}, provenance : Sidecars \union {None}]
        \union [pc : {"critique", "decide"}, base : Bases, supplied : BOOLEAN, clean : BOOLEAN,
                report : Critiques \union {None}, provenance : Sidecars \union {None},
                measured : BOOLEAN, reviewed : Int, commit : Int \union {None},
                digest : Int \union {None}]

TypeOK ==
    /\ tree \in Int /\ head \in Int
    /\ files \in [report : Critiques \union {None}, sidecar : Sidecars \union {None}]
    /\ tier \in [Reviewers -> Tier1Commands]
    /\ critiques \in 0 .. MaxCritiques
    /\ cmd \in ReviewCommands
    /\ task.stage \in {"REVIEW", "IMPLEMENT", "COMMIT"}
    /\ task.rounds \in Nat

Init ==
    /\ tree = 1 /\ head = 1
    /\ files = [report |-> None, sidecar |-> None]
    /\ tier = [r \in Reviewers |-> NotRunning]
    /\ critiques = 0
    /\ cmd = NotRunning
    /\ task = [stage |-> "REVIEW", rounds |-> 0, record |-> None]

-----------------------------------------------------------------------------
(* Findings.                                                               *)

isBlocking(f) == f.severity \in {"critical", "error"}
requestsChange(f) == f.action # "affirmation"

\* Positions in a report.
blockingFindings(findings) ==
    {i \in DOMAIN findings : isBlocking(findings[i]) /\ requestsChange(findings[i])}

isPassing(report) ==
    ~report.bypassed /\ blockingFindings(report.findings) = {} /\ report.confidence = "high"

Usable(report) == report # None /\ ~report.bypassed

Targets(refutation, f) ==
    /\ isBlocking(f) /\ requestsChange(f)
    /\ f.line = refutation.line
    /\ refutation.severity \in {"any", f.severity}

Open(done, refutation) ==
    {i \in DOMAIN done.findings \ done.consumed : Targets(refutation, done.findings[i])}

\* Mutant: a refutation answers every finding at its target.
Refute_all(done, refutation) ==
    LET open == Open(done, refutation)
    IN IF open = {} THEN [done EXCEPT !.refused = TRUE]
       ELSE [done EXCEPT !.consumed = @ \union open]

\* One refutation after those before it: it must single out one open finding.
Refute(done, refutation) ==
    LET open == Open(done, refutation)
    IN IF \E i \in open : open = {i}
       THEN [done EXCEPT !.consumed = @ \union open]
       ELSE [done EXCEPT !.refused = TRUE]

NoRefutation(findings) == [findings |-> findings, consumed |-> {}, refused |-> FALSE]

resolveFindingRefutations(findings, refutations) ==
    FoldLeft(Refute, NoRefutation(findings), refutations)

-----------------------------------------------------------------------------
(* The verdict text.                                                       *)

IsBullet(line) == line.kind \in {"item", "none item", "evidence item", "bad status"}

\* A heading starts a block, any other token line ends it; a numbered item
\* counts like a bullet.
Capture(mode, line) ==
    IF line.kind \in {"unfulfilled", "remediation"} THEN line.kind
    ELSE IF line.kind \in {"evidence", "token"} THEN "none" ELSE mode

Modes(lines) ==
    FoldLeft(LAMBDA modes, line : Append(modes, Capture(Last(modes), line)), <<"none">>, lines)

Unfulfilled[text \in Texts] ==
    \E i \in DOMAIN text.lines :
        /\ Modes(text.lines)[i + 1] = "unfulfilled"
        /\ text.lines[i].kind \in {"item", "evidence item", "bad status", "numbered"}

\* The evidence block: from the first marker to the first line that is no bullet.
EvidenceBlock(lines) ==
    LET start == SelectInSeq(lines, LAMBDA line : line.kind = "evidence")
        after == SubSeq(lines, start + 1, Len(lines))
        stop == SelectInSeq(after, LAMBDA line : ~IsBullet(line))
    IN IF start = 0 THEN <<>> ELSE IF stop = 0 THEN after ELSE SubSeq(after, 1, stop - 1)

parseAcEvidence[text \in Texts] ==
    [reported |-> \E i \in DOMAIN text.lines : text.lines[i].kind = "evidence",
     entries |-> SelectSeq(EvidenceBlock(text.lines), LAMBDA line : line.kind = "evidence item")]

\* Where a cited path lies: delivered, elsewhere in the worktree, in a tree no
\* commit takes, or outside the workspace.
UnverifiablePath(place, measured) ==
    place \in {"excluded", "outside"} \/ (measured /\ place # "delivered")

classifyAcEvidence(entry, measured) ==
    CASE entry.status # "met" -> entry.status
      [] entry.status = "met" /\ entry.paths = {} -> IF measured THEN "unverifiable" ELSE "met"
      [] OTHER -> IF \E place \in entry.paths : UnverifiablePath(place, measured)
                  THEN "unverifiable" ELSE "met"

NothingReported == [reported |-> FALSE, entries |-> <<>>]

\* An approval that is filed must carry the evidence the plan asks for.
filedVerdictEvidenceRefusal(text, evidence) ==
    /\ text # None
    /\ text.status = "APPROVED"
    /\ IF evidence.reported THEN evidence.entries = <<>> ELSE HasCriteria

-----------------------------------------------------------------------------
(* The verdict.                                                            *)

critiqueProvenanceMismatch_refsOnly(provenance, base, commit, digest) ==
    \/ provenance = None
    \/ provenance.base # base
    \/ commit = None \/ provenance.head # commit

\* A supplied report counts as verified when its sidecar names this review.
critiqueProvenanceMismatch(provenance, base, commit, digest) ==
    \/ provenance = None
    \/ provenance.base # base
    \/ commit = None \/ provenance.head # commit
    \/ digest = None \/ provenance.digest # digest

\* The reviewer's verdict, else the critique's, else none.
FirstVerdict(text, report) ==
    IF text # None
    THEN [status |-> text.status, unfulfilled |-> Unfulfilled[text], source |-> "reviewer"]
    ELSE IF Usable(report)
    THEN [status |-> IF isPassing(report) THEN "APPROVED" ELSE "CHANGES_REQUESTED",
          unfulfilled |-> blockingFindings(report.findings) # {}, source |-> "critique"]
    ELSE [status |-> "SKIPPED", unfulfilled |-> FALSE, source |-> "skipped"]

\* Tier 1 and the evidence can only turn a verdict down, and say so.
applyTwoTierInvariant(verdict, remaining, unverifiable) ==
    LET outside == remaining # {} \/ (unverifiable /\ verdict.status = "APPROVED")
        own == verdict.unfulfilled /\ verdict.status = "APPROVED"
    IN [verdict EXCEPT
           !.status = IF outside \/ own THEN "CHANGES_REQUESTED" ELSE @,
           !.source = IF outside /\ @ = "reviewer" THEN "escalated" ELSE @]

-----------------------------------------------------------------------------
(* Tier 1, as the shell runs it for a reviewer.                            *)

\* What a report is about is no part of it, nor is whether anything got in
\* between: they are for VerifiedReportIsOfThisTree.
Report(base, findings, confidence, bypassed) ==
    [findings |-> findings, confidence |-> confidence, bypassed |-> bypassed,
     of |-> <<base, tree>>, clean |-> TRUE]

\* The Tier 1 commands that run now share the directory with another one.
Crowded(t) ==
    [r \in Reviewers |->
        IF t[r].pc = "done" \/ \A q \in Reviewers \ {r} : t[q].pc = "done" THEN t[r]
        ELSE [t[r] EXCEPT !.clean = FALSE]]

\* The evidence of an earlier round is cleared before the critique starts.
StartTier1(r, base) ==
    /\ task.stage = "REVIEW"
    /\ tier[r].pc = "done"
    /\ critiques < MaxCritiques /\ critiques' = critiques + 1
    /\ tier' = Crowded([tier EXCEPT ![r] = [pc |-> "critique", base |-> base, clean |-> TRUE]])
    /\ files' = [report |-> None, sidecar |-> None]
    /\ cmd' = IF cmd.pc = "sidecar" THEN [cmd EXCEPT !.clean = FALSE] ELSE cmd
    /\ UNCHANGED <<tree, head, task>>

\* A critique that fails or prints nothing ends the command.
RunCritique(r, findings) ==
    /\ tier[r].pc = "critique"
    /\ tier' = [tier EXCEPT ![r] = [pc |-> "digest", base |-> tier[r].base, clean |-> tier[r].clean,
                                    report |-> Report(tier[r].base, findings, "high", FALSE)]]
    /\ UNCHANGED <<tree, head, files, critiques, cmd, task>>

MeasureTier1(r) ==
    /\ tier[r].pc = "digest"
    /\ tier' = [tier EXCEPT ![r] =
                   [pc |-> "publishSidecar", clean |-> @.clean, report |-> @.report,
                    sidecar |-> [base |-> @.base, head |-> head, digest |-> tree]]]
    /\ UNCHANGED <<tree, head, files, critiques, cmd, task>>

PublishSidecar(r) ==
    /\ tier[r].pc = "publishSidecar"
    /\ files' = [files EXCEPT !.sidecar = tier[r].sidecar]
    /\ tier' = [tier EXCEPT ![r].pc = "publishReport"]
    /\ UNCHANGED <<tree, head, critiques, cmd, task>>

PublishReport(r) ==
    /\ tier[r].pc = "publishReport"
    /\ files' = [files EXCEPT !.report = [tier[r].report EXCEPT !.clean = tier[r].clean]]
    /\ tier' = [tier EXCEPT ![r] = NotRunning]
    /\ UNCHANGED <<tree, head, critiques, cmd, task>>

\* A step fails, or the reviewer is killed; a move that fails takes back what
\* it published.
Tier1Ends(r) ==
    /\ tier[r].pc # "done"
    /\ files' \in IF tier[r].pc \in {"publishSidecar", "publishReport"}
                  THEN {files, [files EXCEPT !.sidecar = None]} ELSE {files}
    /\ tier' = [tier EXCEPT ![r] = NotRunning]
    /\ UNCHANGED <<tree, head, critiques, cmd, task>>

-----------------------------------------------------------------------------
(* codeloop review.                                                        *)

Reviewable == task.stage \in {"REVIEW", "COMMIT"} /\ task.rounds < MaxRounds

\* A report that is named is read first; one that cannot be read ends the
\* command.
BeginReview(base, supplied) ==
    /\ cmd.pc = "done" /\ Reviewable
    /\ supplied => files.report # None
    /\ cmd' = [pc |-> IF supplied THEN "sidecar" ELSE "measure", base |-> base, supplied |-> supplied,
               report |-> IF supplied THEN files.report ELSE None, provenance |-> None, clean |-> TRUE]
    /\ UNCHANGED <<tree, head, files, tier, critiques, task>>

ReadSidecar ==
    /\ cmd.pc = "sidecar"
    /\ cmd' = [cmd EXCEPT !.pc = "measure", !.provenance = files.sidecar]
    /\ UNCHANGED <<tree, head, files, tier, critiques, task>>

\* HEAD, the digest and the change set are read from git, or git fails.
MeasureReview(answers) ==
    /\ cmd.pc = "measure"
    /\ cmd' = [pc |-> IF cmd.supplied THEN "decide" ELSE "critique", base |-> cmd.base,
               supplied |-> cmd.supplied, clean |-> cmd.clean,
               report |-> cmd.report, provenance |-> cmd.provenance,
               measured |-> answers, reviewed |-> tree,
               commit |-> IF answers THEN head ELSE None, digest |-> IF answers THEN tree ELSE None]
    /\ UNCHANGED <<tree, head, files, tier, critiques, task>>

\* What the gateway makes of a run of the critique CLI: one that cannot run, fails
\* or prints nothing readable is a bypassed report.
CritiqueAnswers(base) ==
    {Report(base, <<>>, "low", TRUE)}
        \union {Report(base, findings, "high", FALSE) : findings \in Reports}
        \union {Report(base, findings, "low", FALSE) : findings \in Reports}

\* The critique inside the command, which is not run, fails or answers.
CritiqueInside ==
    /\ cmd.pc = "critique"
    /\ \E report \in {None} \union CritiqueAnswers(cmd.base) :
           cmd' = [cmd EXCEPT !.pc = "decide", !.report = report]
    /\ UNCHANGED <<tree, head, files, tier, critiques, task>>

resolution(refutations) ==
    IF Usable(cmd.report) THEN resolveFindingRefutations(cmd.report.findings, refutations)
    ELSE NoRefutation(<<>>)

evidence(text) == IF text = None THEN NothingReported ELSE parseAcEvidence[text]

\* Refutations are for a filed approval beside a report, and all or nothing.
Refused(text, refutations) ==
    \/ filedVerdictEvidenceRefusal(text, evidence(text))
    \/ /\ refutations # <<>>
       /\ ~(text # None /\ text.status = "APPROVED" /\ Usable(cmd.report))
    \/ resolution(refutations).refused

\* What the reviewer and the operator said was read when the command began and
\* is bound here: nothing earlier depends on it.
RefuseReview(text, refutations) ==
    /\ cmd.pc = "decide" /\ Refused(text, refutations)
    /\ cmd' = NotRunning
    /\ UNCHANGED <<tree, head, files, tier, critiques, task>>

critiqueVerified ==
    /\ Usable(cmd.report)
    /\ cmd.supplied => ~critiqueProvenanceMismatch(cmd.provenance, cmd.base, cmd.commit, cmd.digest)

Verdict(text, refutations) ==
    LET remaining == IF Usable(cmd.report)
                     THEN blockingFindings(cmd.report.findings) \ resolution(refutations).consumed ELSE {}
        entries == evidence(text).entries
    IN applyTwoTierInvariant(
           FirstVerdict(text, cmd.report), remaining,
           \E i \in DOMAIN entries : classifyAcEvidence(entries[i], cmd.measured) = "unverifiable")

SaveReview(text, refutations) ==
    /\ cmd.pc = "decide" /\ ~Refused(text, refutations)
    /\ LET verdict == Verdict(text, refutations)
       IN task' = [stage |-> IF verdict.status = "CHANGES_REQUESTED" THEN "IMPLEMENT" ELSE "COMMIT",
                   rounds |-> task.rounds + 1,
                   record |-> [verdict |-> verdict.status, source |-> verdict.source,
                               verified |-> critiqueVerified]]
    /\ cmd' = NotRunning
    /\ UNCHANGED <<tree, head, files, tier, critiques>>

-----------------------------------------------------------------------------
(* Everybody else.                                                         *)

Changes == (tree - 1) + (head - 1)

\* An edit between the critique and the digest makes the two disagree.
Edit ==
    /\ Changes < MaxChanges
    /\ tree' = tree + 1
    /\ tier' = [r \in Reviewers |->
                   IF tier[r].pc = "digest" THEN [tier[r] EXCEPT !.clean = FALSE] ELSE tier[r]]
    /\ UNCHANGED <<head, files, critiques, cmd, task>>

CommitOutside == Changes < MaxChanges /\ head' = head + 1 /\ UNCHANGED <<tree, files, tier, critiques, cmd, task>>

\* The requested changes are made and the gate is passed again.
Rework ==
    /\ task.stage = "IMPLEMENT" /\ cmd.pc = "done"
    /\ task' = [stage |-> "REVIEW", rounds |-> task.rounds, record |-> task.record]
    /\ UNCHANGED <<tree, head, files, tier, critiques, cmd>>

Next ==
    \/ \E r \in Reviewers :
         \/ \E base \in Bases : StartTier1(r, base)
         \/ \E findings \in Reports : RunCritique(r, findings)
         \/ MeasureTier1(r) \/ PublishSidecar(r) \/ PublishReport(r) \/ Tier1Ends(r)
    \/ \E base \in Bases, supplied \in BOOLEAN : BeginReview(base, supplied)
    \/ ReadSidecar
    \/ \E answers \in BOOLEAN : MeasureReview(answers)
    \/ CritiqueInside
    \/ \E text \in Texts \union {None}, refutations \in RefutationLists :
          RefuseReview(text, refutations) \/ SaveReview(text, refutations)
    \/ Edit \/ CommitOutside \/ Rework

Spec == Init /\ [][Next]_vars

-----------------------------------------------------------------------------
(* Properties.                                                             *)

\* A review recorded as verified by a supplied report was made of the base and
\* the content the report is about, however the critiques, the edits and the command
\* interleaved.  Excepted is what no check can see: an edit between critique
\* and digest, and Tier 1 commands that overlap each other or the reading.
VerifiedReportIsOfThisTree ==
    [][task'.rounds # task.rounds /\ task'.record.verified
          /\ cmd.supplied /\ cmd.clean /\ cmd.report.clean
       => cmd.report.of = <<cmd.base, cmd.reviewed>>]_vars

\* A finding of its own for every refutation, and a refutation for every
\* finding that asks for a change.
AnswersEverything(findings, refutations) ==
    \E answer \in [DOMAIN refutations -> blockingFindings(findings)] :
        /\ \A i \in DOMAIN refutations : Targets(refutations[i], findings[answer[i]])
        /\ \A f \in blockingFindings(findings) : \E i \in DOMAIN refutations : answer[i] = f
        /\ \A i, j \in DOMAIN refutations : answer[i] = answer[j] => i = j

ContradictsApproval[text \in Texts] ==
    \/ Unfulfilled[text]
    \/ \E i \in DOMAIN parseAcEvidence[text].entries :
          LET entry == parseAcEvidence[text].entries[i]
          IN  \/ entry.status = "unverifiable"
              \/ entry.status = "met" /\ {"excluded", "outside"} \intersect entry.paths # {}

\* A recorded approval leaves no finding that asks for a change without a
\* refutation of its own, uses up every refutation, lists no unfulfilled
\* criterion, admits none that cannot be verified, and calls none met that
\* cites what no commit takes.
ApprovedLeavesNothingOpen ==
    [][\A text \in Texts \union {None}, refutations \in RefutationLists :
          cmd.pc = "decide" /\ task'.rounds > task.rounds /\ task'.record.verdict = "APPROVED"
          /\ SaveReview(text, refutations)
          => /\ IF Usable(cmd.report) THEN AnswersEverything(cmd.report.findings, refutations)
                ELSE refutations = <<>>
             /\ text # None => ~ContradictsApproval[text]]_vars
=============================================================================
