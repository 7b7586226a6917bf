----------------------------- MODULE Collector -----------------------------
(***************************************************************************)
(* A collector branch (phase/... or feature/...) on GitHub and in the      *)
(* clone: pull requests of tasks are merged into it, `codeloop sync`       *)
(* fast-forwards the local branch and closes the issues of the merged pull *)
(* requests (application/sync.ts), `codeloop release` predicts a version   *)
(* from the commits and prepares the pull request that merges the branch   *)
(* into its base (application/milestone-release.ts,                        *)
(* domain/value-objects/semver-calculator.ts).  The two commands run in    *)
(* processes of their own, people merge, close and reopen meanwhile, and   *)
(* every call of gh or git may fail, MaxTrouble times in all.              *)
(*                                                                         *)
(* A pull request is squashed to one commit.  A commit message is a header *)
(* line and a body of lines; a line's words are model values, since only   *)
(* their equality matters.  The dry runs, which write nothing, the         *)
(* changelog's wording and the migration hook, whose failure is only       *)
(* printed, are left out.                                                  *)
(***************************************************************************)
EXTENDS Naturals, Sequences, FiniteSets, SequencesExt

CONSTANTS
    Issues,      \* the issues of the tracker
    None,        \* "no issue": a pull request without "Closes #n"
    Pulls,       \* the pull requests people may merge into the collector
    PageSize,    \* SYNC_MERGED_PR_PAGE_SIZE
    Ceiling,     \* SYNC_MERGED_PR_SCAN_CEILING
    MaxMerged,   \* bound: pull requests merged into the collector
    MaxTrouble   \* bound: calls of gh or git that fail, and issues and release
                 \* pull requests people close or reopen

\* What pull requests, messages and pages are; the module that instantiates this
\* one assumes it.
CollectorAssumption ==
    /\ PageSize \in Nat \ {0} /\ Ceiling \in Nat /\ Ceiling >= PageSize
    /\ None \notin Issues
    /\ \A p \in Pulls : /\ p.closes \in Issues \union {None}
                        /\ DOMAIN p.commit.body = 1 .. Len(p.commit.body)

VARIABLES
    merged,      \* GitHub: the pull requests merged into the collector, in order
    issue,       \* GitHub: the state of each issue
    releases,    \* GitHub: the pull requests from the collector into its base
    labels,      \* GitHub: the release labels the repository has
    released,    \* GitHub: how many of the merged commits the base branch has
    local,       \* clone: how many of them the local collector branch has
    localBase,   \* clone: how many of them the local base branch has
    sync,        \* the sync command
    rel,         \* the release command
    trouble

vars == <<merged, issue, releases, labels, released, local, localBase, sync, rel, trouble>>

GitHub == <<merged, issue, releases, labels, released>>
Clone == <<local, localBase>>

Trouble == trouble < MaxTrouble /\ trouble' = trouble + 1
Works == UNCHANGED trouble

----------------------------------------------------------------------------
(* The version a range of commits asks for.                                *)

(* A parsed header or bullet: an unconventional one is a chore, and its     *)
(* "!" is not looked for.                                                  *)
ParseCommit(line, footer) ==
    [type     |-> IF line.type = "none" THEN "chore" ELSE line.type,
     breaking |-> footer \/ (line.type # "none" /\ line.bang),
     words    |-> line.words]

BreakingFooter(body) == \E n \in DOMAIN body : body[n].kind = "BREAKING CHANGE"

(* The bullets of a body, by line; a wrapped bullet goes on over the lines  *)
(* that follow it, until a blank line, a heading or a footer.              *)
ExtractDeliverableBullets(body) ==
    LET Wrapped(n) == LET stops == {k \in n + 1 .. Len(body) : body[k].kind # "text"}
                          last  == IF stops = {} THEN Len(body) ELSE Min(stops) - 1
                      IN FlattenSeq([k \in 1 .. last - n + 1 |-> body[n + k - 1].words])
    IN [n \in {k \in DOMAIN body : body[k].kind = "bullet"} |->
          [type |-> body[n].type, bang |-> body[n].bang, words |-> Wrapped(n)]]

Headed(commit) == IF commit.header.type = "none" THEN {} ELSE {0}

EntriesOf_headersOnly(commit) ==
    [n \in Headed(commit) |-> ParseCommit(commit.header, BreakingFooter(commit.body))]

(* What a commit delivers, by line: a conventional header, at 0, and the    *)
(* bullets of the body.                                                    *)
EntriesOf(commit) ==
    LET bullets == ExtractDeliverableBullets(commit.body)
    IN [n \in Headed(commit) \union DOMAIN bullets |->
          IF n = 0 THEN ParseCommit(commit.header, BreakingFooter(commit.body))
                   ELSE ParseCommit(bullets[n], FALSE)]

(* Every header and bullet once; the first with the same words stands.     *)
ExpandDeliverables(commits) ==
    LET places       == UNION {{n} \X DOMAIN EntriesOf(commits[n]) : n \in DOMAIN commits}
        Entry(at)    == EntriesOf(commits[at[1]])[at[2]]
        Before(a, b) == a[1] < b[1] \/ (a[1] = b[1] /\ a[2] < b[2])
    IN {Entry(at) : at \in {b \in places :
                               \A a \in places : Before(a, b) => Entry(a).words # Entry(b).words}}

Evaluate(commits) ==
    LET deliverables == ExpandDeliverables(commits)
    IN IF \E d \in deliverables : d.breaking       THEN "major"
       ELSE IF \E d \in deliverables : d.type = "feat" THEN "minor"
       ELSE "patch"

(* git log localBase..local, newest first.                                 *)
GetCommitsBetween ==
    [n \in 1 .. local - localBase |-> merged[local + 1 - n].commit]

----------------------------------------------------------------------------
(* People and GitHub.                                                      *)

MergePull ==
    /\ Len(merged) < MaxMerged
    /\ \E p \in Pulls : merged' = Append(merged, p)
    /\ UNCHANGED <<issue, releases, labels, released, Clone, sync, rel, trouble>>

Syncing == sync.pc \notin {"idle", "end"}

CloseOrReopen(i) ==
    /\ Trouble
    /\ issue' = [issue EXCEPT ![i] = IF @ = "OPEN" THEN "CLOSED" ELSE "OPEN"]
    /\ sync' = [sync EXCEPT !.reopened = IF Syncing /\ issue[i] = "CLOSED" THEN @ \union {i} ELSE @]
    /\ UNCHANGED <<merged, releases, labels, released, Clone, rel>>

NothingOpen == \A n \in DOMAIN releases : releases[n].state # "open"

MergeRelease ==
    /\ ~NothingOpen
    /\ releases' = [releases EXCEPT ![Len(releases)].state = "merged"]
    /\ released' = Len(merged)
    /\ UNCHANGED <<merged, issue, labels, Clone, sync, rel, trouble>>

CloseRelease ==
    /\ Trouble
    /\ ~NothingOpen
    /\ releases' = [releases EXCEPT ![Len(releases)].state = "closed"]
    /\ UNCHANGED <<merged, issue, labels, released, Clone, sync, rel>>

PullBase ==
    /\ localBase # released
    /\ localBase' = released
    /\ UNCHANGED <<GitHub, local, sync, rel, trouble>>

----------------------------------------------------------------------------
(* sync, by hand or by `implement` before it starts.  Away from the         *)
(* collector it takes the base branch of the checkpoint for it, and         *)
(* without a checkpoint 'main', for which nothing is scanned.              *)

CollectorBranch(place) == IF place \in {"collector", "its task"} THEN "collector" ELSE "main"

NoSync == [pc |-> "idle", limit |-> 0, list |-> <<>>, at |-> 0,
           incomplete |-> FALSE, warned |-> FALSE, reopened |-> {}]

StartSync(place) ==
    /\ ~Syncing
    /\ sync' = [NoSync EXCEPT !.pc = IF CollectorBranch(place) = "main" THEN "end" ELSE "pull"]
    /\ UNCHANGED <<GitHub, Clone, rel, trouble>>

(* A fetch or pull that exits non-zero is not noticed; one that throws is  *)
(* a warning.  A pull that changed the sources of the running build ends   *)
(* the command.                                                            *)
FastForward ==
    /\ sync.pc = "pull"
    /\ \/ /\ Works
          /\ local' = Len(merged)
          /\ \/ sync' = [sync EXCEPT !.pc = "list", !.limit = PageSize]
             \/ /\ local # Len(merged)
                /\ sync' = [NoSync EXCEPT !.pc = "end", !.incomplete = TRUE]
       \/ /\ Trouble
          /\ \E warned \in BOOLEAN :
                sync' = [sync EXCEPT !.pc = "list", !.limit = PageSize, !.warned = warned]
          /\ UNCHANGED local
    /\ UNCHANGED <<GitHub, localBase, rel>>

Ended(s) == [NoSync EXCEPT !.pc = "end", !.incomplete = s.incomplete, !.warned = s.warned]

Refuse == [NoSync EXCEPT !.pc = "end", !.incomplete = TRUE, !.warned = TRUE]

Newest(limit) == SubSeq(Reverse(merged), 1, Min({limit, Len(merged)}))

ListMergedPrs_firstPage ==
    /\ sync.pc = "list"
    /\ Works
    /\ sync' = [sync EXCEPT !.pc = "next", !.list = Newest(sync.limit)]
    /\ UNCHANGED <<GitHub, Clone, rel>>

(* gh lists the newest first.  A page that is not full is all there is; a  *)
(* full one is asked for again, twice as long, up to the ceiling.          *)
ListMergedPrs ==
    /\ sync.pc = "list"
    /\ \/ /\ Works
          /\ LET prs == Newest(sync.limit)
             IN \/ /\ Len(prs) < sync.limit
                   /\ sync' = [sync EXCEPT !.pc = "next", !.list = prs, !.limit = 0]
                \/ /\ Len(prs) >= sync.limit /\ sync.limit >= Ceiling
                   /\ sync' = Refuse
                \/ /\ Len(prs) >= sync.limit /\ sync.limit < Ceiling
                   /\ sync' = [sync EXCEPT !.limit = Min({sync.limit * 2, Ceiling})]
       \/ Trouble /\ sync' = Refuse
    /\ UNCHANGED <<GitHub, Clone, rel>>

CurrentPull == sync.list[sync.at]

(* The next pull request that names an issue, the first it names.          *)
NextPull ==
    /\ sync.pc = "next"
    /\ sync' = IF sync.at = Len(sync.list) THEN Ended(sync)
               ELSE [sync EXCEPT !.at = @ + 1,
                                 !.pc = IF sync.list[sync.at + 1].closes = None
                                        THEN "next" ELSE "view"]
    /\ UNCHANGED <<GitHub, Clone, rel, trouble>>

(* gh pr view: without a file list, or without a source file in it, the    *)
(* issue is left alone with a warning, and the sync is not incomplete.     *)
VerifyDiff ==
    /\ sync.pc = "view"
    /\ \/ /\ Works
          /\ sync' = IF CurrentPull.source THEN [sync EXCEPT !.pc = "read"]
                     ELSE [sync EXCEPT !.pc = "next", !.warned = TRUE]
       \/ /\ Trouble
          /\ sync' = [sync EXCEPT !.pc = "next", !.warned = TRUE]
    /\ UNCHANGED <<GitHub, Clone, rel>>

(* The lenient reading: what was not measured is taken for closed.         *)
FetchIssueStrict_lenient ==
    /\ sync.pc = "read"
    /\ \/ /\ Works
          /\ sync' = [sync EXCEPT !.pc = IF issue[CurrentPull.closes] = "CLOSED"
                                         THEN "next" ELSE "close"]
       \/ /\ Trouble
          /\ sync' = [sync EXCEPT !.pc = "next"]
    /\ UNCHANGED <<GitHub, Clone, rel>>

(* fetchIssueStrict: an issue whose state was not measured is reported.    *)
FetchIssueStrict ==
    /\ sync.pc = "read"
    /\ \/ /\ Works
          /\ sync' = [sync EXCEPT !.pc = IF issue[CurrentPull.closes] = "CLOSED"
                                         THEN "next" ELSE "close"]
       \/ /\ Trouble
          /\ sync' = [sync EXCEPT !.pc = "next", !.incomplete = TRUE, !.warned = TRUE]
    /\ UNCHANGED <<GitHub, Clone, rel>>

WriteFailed == sync' = [sync EXCEPT !.pc = "next", !.incomplete = TRUE, !.warned = TRUE]

CloseIssue ==
    /\ sync.pc = "close"
    /\ \/ /\ Works
          /\ issue' = [issue EXCEPT ![CurrentPull.closes] = "CLOSED"]
          /\ sync' = [sync EXCEPT !.pc = "comment", !.reopened = @ \ {CurrentPull.closes}]
       \/ Trouble /\ WriteFailed /\ UNCHANGED issue
    /\ UNCHANGED <<merged, releases, labels, released, Clone, rel>>

(* A comment that fails is never written: the issue is closed by then.     *)
CommentOnIssue ==
    /\ sync.pc = "comment"
    /\ \/ Works /\ sync' = [sync EXCEPT !.pc = "next"]
       \/ Trouble /\ WriteFailed
    /\ UNCHANGED <<GitHub, Clone, rel>>

SyncStep ==
    \/ FastForward \/ ListMergedPrs \/ NextPull \/ VerifyDiff
    \/ FetchIssueStrict \/ CloseIssue \/ CommentOnIssue

----------------------------------------------------------------------------
(* release.                                                                *)

NoRelease == [pc |-> "idle", refresh |-> FALSE, label |-> "patch", upTo |-> 0]

(* The commits are those of the local branches: release fetches nothing.   *)
StartRelease(refresh) ==
    /\ rel.pc = "idle"
    /\ localBase < local
    /\ rel' = [pc |-> "label", refresh |-> refresh, upTo |-> local,
               label |-> Evaluate(GetCommitsBetween)]
    /\ UNCHANGED <<GitHub, Clone, sync, trouble>>

StopRelease == rel' = NoRelease

(* A missing label is created first, since gh refuses a pull request with  *)
(* a label the repository has not.                                         *)
EnsureReleaseLabel ==
    /\ rel.pc = "label"
    /\ \/ /\ Works
          /\ labels' = labels \union {rel.label}
          /\ rel' = [rel EXCEPT !.pc = "find"]
       \/ Trouble /\ StopRelease /\ UNCHANGED labels
    /\ UNCHANGED <<merged, issue, releases, released, Clone, sync>>

(* The newest pull request of the branch, whatever its state, is taken for *)
(* the one to prepare; its label is added only with --refresh, and a label *)
(* that could not be added is not noticed.                                 *)
FindRelease ==
    /\ rel.pc = "find"
    /\ \/ /\ releases = <<>> /\ Works
          /\ rel' = [rel EXCEPT !.pc = "create"]
          /\ UNCHANGED releases
       \/ /\ releases # <<>> /\ Works
          /\ StopRelease
          /\ releases' = IF rel.refresh
                         THEN [releases EXCEPT ![Len(releases)].labels = @ \union {rel.label},
                                               ![Len(releases)].upTo = rel.upTo]
                         ELSE releases
       \/ releases # <<>> /\ rel.refresh /\ Trouble /\ StopRelease /\ UNCHANGED releases
       \/ Trouble /\ rel' = [rel EXCEPT !.pc = "create"] /\ UNCHANGED releases
    /\ UNCHANGED <<merged, issue, labels, released, Clone, sync>>

(* gh refuses a second open pull request of the branch, and one without    *)
(* commits.                                                                *)
CreateRelease ==
    /\ rel.pc = "create"
    /\ StopRelease
    /\ \/ /\ Works
          /\ rel.label \in labels
          /\ NothingOpen
          /\ released < Len(merged)
          /\ releases' = Append(releases, [state |-> "open", labels |-> {rel.label},
                                           upTo  |-> rel.upTo])
       \/ /\ ~NothingOpen \/ released = Len(merged)
          /\ Works /\ UNCHANGED releases
       \/ Trouble /\ UNCHANGED releases
    /\ UNCHANGED <<merged, issue, labels, released, Clone, sync>>

ReleaseStep == EnsureReleaseLabel \/ FindRelease \/ CreateRelease

----------------------------------------------------------------------------
Init ==
    /\ merged = <<>>
    /\ issue = [i \in Issues |-> "OPEN"]
    /\ releases = <<>> /\ labels = {}
    /\ released = 0 /\ local = 0 /\ localBase = 0
    /\ sync = NoSync /\ rel = NoRelease
    /\ trouble = 0

Next ==
    \/ MergePull
    \/ \E i \in Issues : CloseOrReopen(i)
    \/ MergeRelease \/ CloseRelease \/ PullBase
    \/ \E place \in {"collector", "its task", "elsewhere"} : StartSync(place)
    \/ SyncStep
    \/ \E refresh \in BOOLEAN : StartRelease(refresh)
    \/ ReleaseStep

Spec == Init /\ [][Next]_vars

(* A command that runs goes on by itself; syncs on the collector are run   *)
(* again and again.  Nobody need merge, close, reopen or release.          *)
FairSpec == Spec /\ WF_vars(SyncStep) /\ SF_vars(StartSync("collector"))

----------------------------------------------------------------------------
TypeOK ==
    /\ merged \in Seq(Pulls)
    /\ issue \in [Issues -> {"OPEN", "CLOSED"}]
    /\ local \in 0 .. Len(merged) /\ localBase \in 0 .. released /\ released \in 0 .. Len(merged)
    /\ sync.at \in 0 .. Len(sync.list)
    /\ labels \subseteq {"patch", "minor", "major"}

Does(pull, i) == pull.closes = i /\ pull.source

(* The issue of every task whose source change was merged is closed in the *)
(* end: neither a page of gh, nor an issue or diff that could not be read  *)
(* at a time, nor a write that failed keeps it open (sync.ts, one          *)
(* idempotent scan a run).  A branch at the ceiling of the scan is         *)
(* excepted: its syncs refuse.                                             *)
MergedWorkIsClosed ==
    [](Len(merged) < Ceiling) =>
        \A i \in Issues : (\E n \in DOMAIN merged : Does(merged[n], i)) ~> (issue[i] = "CLOSED")

(* A sync that ends well and warns of nothing left no issue of a merged    *)
(* source change open (sync.ts:299-307): all were listed, read and closed, *)
(* except the pull requests merged after the listing and the issues a      *)
(* person reopened after.  `reopened` is a history variable of the run.    *)
SuccessIsTheTruth ==
    [][ (sync.pc = "next" /\ sync'.pc = "end" /\ ~sync'.incomplete /\ ~sync'.warned)
          => \A n \in 1 .. local' : \A i \in Issues \ sync.reopened :
                Does(merged[n], i) => issue[i] = "CLOSED" ]_vars

Bullets(c) == {n \in DOMAIN c.body : c.body[n].kind = "bullet"}

(* What a commit asks for, read off its lines.                             *)
Breaks(c) ==
    \/ c.header.type # "none" /\ (c.header.bang \/ BreakingFooter(c.body))
    \/ \E n \in Bullets(c) : c.body[n].type # "none" /\ c.body[n].bang
Adds(c) == c.header.type = "feat" \/ \E n \in Bullets(c) : c.body[n].type = "feat"

(* A release pull request that is merged, and was labelled for all that is *)
(* merged with it, carries a label at least as high as every commit needs: *)
(* a breaking change, in a header, a footer or the bullets of a squashed   *)
(* body, does not go out as a minor version (milestone-release.ts,         *)
(* semver-calculator.ts).  Lines with the same words are taken to mean the *)
(* same (Pulls): of two that differ, the code counts the newer one only.   *)
ReleaseCoversItsCommits ==
    [][ (released' # released /\ Last(releases).upTo = Len(merged))
          => \A n \in released + 1 .. Len(merged) :
                /\ Breaks(merged[n].commit) => "major" \in Last(releases).labels
                /\ Adds(merged[n].commit) => Last(releases).labels \cap {"minor", "major"} # {} ]_vars
=============================================================================
