---------------------------- MODULE MCCollector ----------------------------
(* Collector as an instance, for TLC and for modules that also speak of the *)
(* commit command: its names stay behind Coll, its properties keep theirs. *)
(* Commits whose level stands in the header, in a footer, in a bullet, in a *)
(* wrapped bullet; pull requests with and without an issue and a source.   *)
EXTENDS Naturals, Sequences

CONSTANTS Issues, None, Pulls, PageSize, Ceiling, MaxMerged, MaxTrouble
VARIABLES merged, issue, releases, labels, released, local, localBase, sync, rel, trouble

Coll == INSTANCE Collector

ASSUME CollectorConstants == Coll!CollectorAssumption

CollectorSpec == Coll!Spec
FairCollectorSpec == Coll!FairSpec

\* Collector: the issue of every task whose source change was merged is closed in
\* the end (sync.ts).
MergedWorkIsClosed == Coll!MergedWorkIsClosed

\* Collector: a sync that ends well and warns of nothing left no issue of a merged
\* source change open (sync.ts:299-307).
SuccessIsTheTruth == Coll!SuccessIsTheTruth

\* Collector: a merged release pull request is labelled for every commit it
\* releases (milestone-release.ts, semver-calculator.ts).
ReleaseCoversItsCommits == Coll!ReleaseCoversItsCommits

Line(type, bang, words) == [type |-> type, bang |-> bang, words |-> <<words>>]
Body(kind, type, bang, words) ==
    [kind |-> kind, type |-> type, bang |-> bang, words |-> <<words>>]

Fix     == [header |-> Line("fix", FALSE, "a"), body |-> <<>>]
Footer  == [header |-> Line("fix", FALSE, "b"),
            body   |-> <<Body("BREAKING CHANGE", "none", FALSE, "c")>>]
Squashed == [header |-> Line("none", FALSE, "d"),
             body   |-> <<Body("bullet", "fix", FALSE, "e"), Body("text", "none", FALSE, "f"),
                          Body("stop", "none", FALSE, ""), Body("text", "none", FALSE, "g"),
                          Body("bullet", "feat", FALSE, "e")>>]
Pull(closes, source, commit) == [closes |-> closes, source |-> source, commit |-> commit]

SomePulls == {Pull("i1", TRUE, Squashed), Pull("i1", FALSE, Fix), Pull("none", TRUE, Footer)}
=============================================================================
