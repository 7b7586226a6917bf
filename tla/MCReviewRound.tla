---------------------------- MODULE MCReviewRound ----------------------------
(* An instance of ReviewRound: reports with two findings at one line, which *)
(* refutations must tell apart, and verdict texts of each kind.             *)
EXTENDS ReviewRound, TLC

Finding(severity, action) == [line |-> 1, severity |-> severity, action |-> action]

SomeReports ==
    {<<Finding("error", "affirmation"), Finding("warning", "change request")>>,
     <<Finding("error", "change request"), Finding("critical", "ambiguous")>>}

Refuting(severity) == [line |-> 1, severity |-> severity]
SomeRefutations == {<<>>, <<Refuting("any")>>, <<Refuting("critical"), Refuting("any")>>}

Line(kind) == [kind |-> kind]
Cites(status, paths) == [kind |-> "evidence item", status |-> status, paths |-> paths]
Text(status, lines) == [status |-> status, lines |-> lines]

SomeTexts ==
    {Text("CHANGES_REQUESTED", <<Line("unfulfilled"), Line("item")>>),
     Text("APPROVED", <<Line("evidence"), Line("bad status")>>),
     Text("APPROVED", <<Line("unfulfilled"), Line("none item"), Line("evidence"),
                        Cites("met", {"delivered"})>>),
     Text("APPROVED", <<Line("evidence"), Cites("met", {"delivered"}), Line("unfulfilled"), Line("numbered")>>),
     Text("APPROVED", <<Line("evidence"), Cites("met", {"excluded"}), Cites("out-of-scope", {})>>),
     Text("APPROVED", <<Line("evidence"), Cites("unverifiable", {})>>)}

Alike == Permutations(Reviewers)
=============================================================================
