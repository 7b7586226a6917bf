---------------------------- MODULE MCQualityGate ----------------------------
(* Instances of QualityGate: every short document, a few longer ones, and   *)
(* the workspaces and flags that lead to different command lists.           *)
EXTENDS QualityGate

ShortLines == {"targets", "alias", "smoke", "sub", "fence", "data fence",
               "npm test", "refused", "prose", "blank"}

\* Every document of four lines; with a command section and a smoke section;
\* with a check the document ends in, two checks, an empty one, a refused one.
ShortDocuments ==
    {<<a>> \o d : a \in {"targets", "smoke"}, d \in UNION {[1..n -> ShortLines] : n \in 0..3}}

LongDocuments ==
    {<<"targets", "npm test", "smoke", "fence", "prose">>,
     <<"targets", "npm test", "smoke", "fence", "prose", "fence", "sub", "fence", "prose">>}

MoreDrafts ==
    {<<"targets", "fence", "npm test", "data fence", "smoke", "fence", "prose", "fence">>,
     <<"other">>, <<"targets", "git diff --exit-code">>, <<"other", "targets", "npm test", "other">>}

AllDrafts == ShortDocuments \union LongDocuments \union MoreDrafts

SomeApprovable ==
    LongDocuments \union {<<"targets", "git diff --exit-code">>, <<"smoke", "fence", "blank">>}

Bare == [node |-> FALSE, scripts |-> {}, go |-> FALSE, act |-> FALSE,
         actionlint |-> FALSE, workflowChanged |-> FALSE]
Node == [Bare EXCEPT !.node = TRUE, !.scripts = {"build", "lint", "test"}]

Plain(w) == [workspace |-> w, explicit |-> <<>>, configured |-> <<>>,
             unchanged |-> FALSE, dryRun |-> FALSE]

AllSettings ==
    {Plain(Bare), Plain(Node),
     Plain([Bare EXCEPT !.go = TRUE, !.workflowChanged = TRUE, !.actionlint = TRUE]),
     [Plain(Bare) EXCEPT !.explicit = <<"go vet">>],
     [Plain(Bare) EXCEPT !.configured = <<"go test">>],
     [Plain(Bare) EXCEPT !.dryRun = TRUE],
     [Plain([Bare EXCEPT !.act = TRUE]) EXCEPT !.unchanged = TRUE]}

Metrics(p, f, s) == [passed |-> p, failed |-> f, skipped |-> s]
SomeMetrics == {NoMetrics, Metrics(0, 0, 2), Metrics(1, 1, 0)}
=============================================================================
