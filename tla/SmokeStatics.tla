---------------------------- MODULE SmokeStatics ----------------------------
(***************************************************************************)
(* The static rules that follow the working directory of a smoke script    *)
(* (value-objects/smoke-protocol.ts, smoke-sandbox.ts) beside the shell    *)
(* that runs it: sandbox-cwd and sandbox-missing, which refuse a check     *)
(* that runs the codeloop CLI outside a sandbox, and                       *)
(* missing-parent-directory, which refuses a write whose directory nobody  *)
(* created.  Every step is one statement of the script: each rule reads it *)
(* and the shell executes it, so that every prefix of a behaviour is a     *)
(* script, and a rule that accepted it can be compared with what it did.   *)
(*                                                                         *)
(* All checks are one script under `set -e`: a failing statement ends it   *)
(* unless `&&` follows, which skips the rest of the list.  The two rules   *)
(* track the directory each for itself.  The first starts in the worktree  *)
(* and carries its state from check to check; the second starts every      *)
(* check anew, in an unknown directory.                                    *)
(*                                                                         *)
(* A path is where it starts and the names after that.  Left out: how a    *)
(* line is split into statements and words, comments, heredocs and quoted  *)
(* programs, which both rules skip; `$HOME/..`, taken to be $HOME as the   *)
(* rules take it; variables in assigned values.                            *)
(*                                                                         *)
(* Shapes names ways of writing the rules do not follow the shell in:      *)
(*   "quiet"     a statement that fails before an `&&`;                    *)
(*   "midline"   a statement on the same line after a group ended;         *)
(*   "late"      a group that starts after another statement of its line;  *)
(*   "reassign"  a variable assigned anew with a value the rules skip;     *)
(*   "grouped"   a relative path in a group, for the parent rule;          *)
(*   "deeper"    a write below the directory a CLI makes, not right in it; *)
(*   "checks"    a check after the first one.                              *)
(***************************************************************************)
EXTENDS Integers, SequencesExt

CONSTANTS
    Texts,       \* the paths that statements name
    Assigned,    \* the paths that are assigned
    Shapes,      \* which of the shapes above occur
    MaxDepth,    \* how deep a path of the script goes
    MaxSize      \* how many statements a script has

Anchors == {"home", "tmp"}                \* $HOME and absolute paths
Starts == Anchors \union {"here", "PWD", "var", "env"}

\* What the texts of a script start with; the module that instantiates this one
\* assumes it.
StaticsAssumption == Texts \union Assigned \subseteq [at : Starts, names : Seq(STRING)]

Path(at, names) == [at |-> at, names |-> names]

Unknown == Path("unknown", <<>>)
Worktree == Path("home", <<"proj">>)
Home == Path("home", <<>>)
SandboxRoot == Path("home", <<"cache">>)     \* $HOME/.cache/codeloop

-----------------------------------------------------------------------------
(* Lexical paths.                                                          *)

Anchored(p) == p.at \in Anchors

Up(names, name) ==
    IF name # ".." THEN Append(names, name)
    ELSE IF names = <<>> THEN names ELSE Front(names)

Fold(names) == FoldLeft(Up, <<>>, names)

\* `..` never walks above an anchor; $PWD is a name like others and may be
\* walked out of, which leaves a path that starts nowhere.
normaliseLexicalPath(p) ==
    IF p.at # "PWD" THEN Path(p.at, Fold(p.names))
    ELSE LET names == Fold(<<"PWD">> \o p.names)
         IN IF names # <<>> /\ Head(names) = "PWD" THEN Path("PWD", Tail(names))
            ELSE Path("nowhere", names)

Below(cwd, p) == normaliseLexicalPath(Path(cwd.at, cwd.names \o p.names))

resolvePathAgainstCwd(cwd, p) ==
    IF Anchored(p) THEN normaliseLexicalPath(p)
    ELSE IF cwd = Unknown \/ cwd = Path("nowhere", <<>>) THEN Unknown
    ELSE Below(cwd, p)

isWithinSmokeSandbox(p) ==
    /\ p.at = "home"
    /\ Len(p.names) >= 2
    /\ p.names[1] = "cache" /\ p.names[2] = "smoke"

\* The value of the one variable before the names that follow it.
Expand(p, var) ==
    IF p.at = "var" /\ var # Unknown THEN Path(var.at, var.names \o p.names) ELSE p

-----------------------------------------------------------------------------
VARIABLES
    track,     \* the sandbox rules: directory, variable, and that at the line's start
    scan,      \* the parent rule: directory, variable, what was created, where a CLI ran
    sh,        \* the shell: status, directory, variables, directories, group
    findings,  \* the rules that refuse the script so far
    events,    \* what the shell did that a rule is about
    line,      \* where in a line the script is
    size       \* how many statements it has

vars == <<track, scan, sh, findings, events, line, size>>

Init ==
    /\ track = [cwd |-> Path("PWD", <<>>), var |-> Unknown,
                start |-> Path("PWD", <<>>), restore |-> FALSE]
    /\ scan = [cwd |-> Unknown, var |-> Unknown, covered |-> {}, roots |-> {}]
    /\ sh = [status |-> "ok", cwd |-> Worktree, var |-> Unknown, env |-> Worktree,
             dirs |-> {Home, SandboxRoot, Worktree, Path("tmp", <<>>)}, outer |-> Unknown]
    /\ findings = {}
    /\ events = {}
    /\ line = "fresh"
    /\ size = 0

-----------------------------------------------------------------------------
(* The shell.                                                              *)

\* What a text means to the shell.
Real(s, p) ==
    CASE Anchored(p) -> normaliseLexicalPath(p)
      [] p.at = "PWD" \/ p.at = "here" -> Below(s.cwd, p)
      [] p.at = "env" -> Below(s.env, p)
      [] OTHER -> Below(s.var, p)

\* The status a statement meets, given how it follows the one before it.
Joined(sep) ==
    CASE sh.status = "ok" -> "ok"
      [] sh.status # "ok" /\ sep = "&&" -> "skipping"
      [] sh.status = "failed" /\ sep # "&&" -> "dead"
      [] sh.status = "skipping" /\ sep # "&&" -> "ok"
      [] OTHER -> sh.status

Parent(p) == Path(p.at, Front(p.names))
Ancestors(p) == {Path(p.at, SubSeq(p.names, 1, n)) : n \in 0..Len(p.names)}

\* The shell after a statement with this effect, and after the group it ends.
Shell(sep, close, effect) ==
    LET met == [sh EXCEPT !.status = Joined(sep)]
        s == IF met.status = "ok" THEN effect ELSE met
    IN IF ~close THEN s
       ELSE [s EXCEPT !.cwd = s.outer, !.outer = Unknown,
                      !.status = IF @ = "skipping" THEN "failed" ELSE @]

Failed == [sh EXCEPT !.status = "failed"]
Ran == [sh EXCEPT !.status = "ok"]

\* A statement can follow here, and be the last of its group.
Follows(sep, close) ==
    /\ findings = {}
    /\ size < MaxSize
    /\ size' = size + 1
    /\ sh.status # "dead"
    /\ (sep = "first") = (line = "fresh")
    /\ line = "closed" => "midline" \in Shapes
    /\ sep = "&&" /\ sh.status = "failed" => "quiet" \in Shapes \/ sh.outer # Unknown
    /\ sep = ";" /\ sh.status = "skipping" => "quiet" \in Shapes
    /\ close => sh.outer # Unknown

Known(p) == p.at = "var" => sh.var # Unknown /\ Len(sh.var.names \o p.names) <= MaxDepth
FollowedHere(p) == p.at = "here" /\ sh.outer # Unknown => "grouped" \in Shapes
Shallow(p) == Known(p) /\ Len(Real(sh, p).names) <= MaxDepth

Seps == {"first", ";", "&&"}

-----------------------------------------------------------------------------
(* The rules.                                                              *)

sandboxCwdTarget(p) ==
    LET r == Expand(p, track.var)
    IN  IF r.at \in {"var", "env"} THEN Unknown
        ELSE IF r.at \in {"PWD", "nowhere"} THEN normaliseLexicalPath(r)
        ELSE resolvePathAgainstCwd(track.cwd, r)

Unresolved(p) == p.at \in {"var", "env", "PWD"}

\* The cd the parent rule takes for known.
cdTarget(p) ==
    LET r == Expand(p, scan.var)
    IN IF Unresolved(r) THEN Unknown ELSE resolvePathAgainstCwd(scan.cwd, r)

\* A relative path in an unknown directory is compared with such paths; one
\* whose variable is unknown stays as it is and is not compared.
resolveComparable(p) ==
    LET r == Expand(p, scan.var)
    IN IF r.at = "here" /\ scan.cwd # Unknown THEN Below(scan.cwd, r) ELSE normaliseLexicalPath(r)

Created(p, recursive) ==
    LET r == resolveComparable(p)
    IN IF Unresolved(r) THEN {} ELSE IF recursive THEN Ancestors(r) ELSE {r}

\* Mutant: what a CLI made in one sandbox is taken for there in every other.
isToolScaffolded_anywhere(parent) ==
    /\ "st" \in Range(parent.names)
    /\ scan.roots # {}

isToolScaffolded(parent) ==
    /\ "st" \in Range(parent.names)
    /\ IF Anchored(parent)
       THEN \E root \in scan.roots : root.at = parent.at /\ IsPrefix(root.names, parent.names)
       ELSE Unknown \in scan.roots

\* A write that counts as scaffolded although no CLI made its directory.
Deeper(p) ==
    LET parent == Parent(resolveComparable(p))
    IN  /\ "st" \in Range(parent.names)
        /\ \E root \in scan.roots : /\ root.at = parent.at /\ IsPrefix(root.names, parent.names)
                                     /\ parent.names # Append(root.names, "st")

AlwaysPresent == {Home, SandboxRoot, Path("tmp", <<>>)}

\* The write the parent rule refuses.
MissingParent(p) ==
    LET r == resolveComparable(p)
    IN  /\ ~Unresolved(r)
        /\ Anchored(r) \/ Len(r.names) > 1
        /\ LET parent == Parent(r)
           IN  parent \notin AlwaysPresent \union scan.covered /\ ~isToolScaffolded(parent)

-----------------------------------------------------------------------------
(* The statements.                                                         *)

\* Mutant: a group's cd lasts beyond the end of its line.
EndLine_keepsTheGroup(t) == [t EXCEPT !.start = t.cwd, !.restore = FALSE]

\* The end of a line ends the group that was opened on it.
EndLine(t) ==
    LET cwd == IF t.restore THEN t.start ELSE t.cwd
    IN [t EXCEPT !.cwd = cwd, !.start = cwd, !.restore = FALSE]

AfterLine ==
    /\ findings = {}
    /\ line # "fresh" /\ sh.outer = Unknown
    /\ sh.status # "dead"
    /\ line' = "fresh"
    /\ track' = EndLine(track)
    /\ sh' = [sh EXCEPT !.status = Joined(";")]
    /\ UNCHANGED <<findings, events, size>>

NextLine == AfterLine /\ UNCHANGED scan

NextCheck ==
    /\ "checks" \in Shapes
    /\ AfterLine
    /\ scan' = [scan EXCEPT !.cwd = Unknown, !.var = Unknown]

\* VAR=path: the rules keep what they can resolve, each in its own way.
Assign(p) ==
    /\ Follows("first", FALSE)
    /\ Shallow(p)
    /\ track.var # Unknown /\ sandboxCwdTarget(p) = Unknown => "reassign" \in Shapes
    /\ scan.var # Unknown /\ ~Anchored(p) => "reassign" \in Shapes
    /\ track' = IF sandboxCwdTarget(p) = Unknown THEN track
                ELSE [track EXCEPT !.var = sandboxCwdTarget(p)]
    /\ scan' = IF Anchored(p) THEN [scan EXCEPT !.var = p] ELSE scan
    /\ sh' = [Ran EXCEPT !.var = Real(sh, p)]
    /\ line' = "open"
    /\ UNCHANGED <<findings, events>>

\* cd path, or (cd path that opens a group.
ChangeDir(p, sep, open) ==
    /\ Follows(sep, FALSE)
    /\ Shallow(p)
    /\ open => sh.outer = Unknown /\ (sep = "first" \/ "late" \in Shapes)
    /\ track' = [track EXCEPT !.cwd = sandboxCwdTarget(p), !.restore = @ \/ open]
    /\ scan' = IF open THEN scan ELSE [scan EXCEPT !.cwd = cdTarget(p)]
    /\ LET moved == IF Real(sh, p) \in sh.dirs THEN [Ran EXCEPT !.cwd = Real(sh, p)] ELSE Failed
           s == Shell(sep, FALSE, moved)
       IN sh' = IF open THEN [s EXCEPT !.outer = sh.cwd] ELSE s
    /\ events' = events \union
         (IF ~open /\ sh.outer # Unknown /\ Joined(sep) = "ok" THEN {"outlasting cd"} ELSE {})
    /\ line' = "open"
    /\ UNCHANGED findings

\* mkdir, and what creates a directory like it.
MakeDir(p, recursive, sep, close) ==
    /\ Follows(sep, close)
    /\ Shallow(p) /\ FollowedHere(p) /\ Real(sh, p).names # <<>>
    /\ scan' = [scan EXCEPT !.covered = @ \union Created(p, recursive)]
    /\ sh' = LET dir == Real(sh, p) IN
             Shell(sep, close,
                   IF recursive THEN [Ran EXCEPT !.dirs = @ \union Ancestors(dir)]
                   ELSE IF Parent(dir) \in sh.dirs /\ dir \notin sh.dirs
                   THEN [Ran EXCEPT !.dirs = @ \union {dir}] ELSE Failed)
    /\ line' = IF close THEN "closed" ELSE "open"
    /\ UNCHANGED <<track, findings, events>>

\* A write to a file: a redirection, tee, or a literal write of a program.
WriteFile(p, sep, close) ==
    /\ Follows(sep, close)
    /\ Shallow(p) /\ FollowedHere(p) /\ p.names # <<>> /\ Real(sh, p).names # <<>>
    /\ Deeper(p) => "deeper" \in Shapes
    /\ findings' = IF MissingParent(p) THEN findings \union {"missing-parent-directory"} ELSE findings
    /\ LET lost == Parent(Real(sh, p)) \notin sh.dirs
       IN  /\ events' = IF lost /\ Joined(sep) = "ok" /\ Anchored(resolveComparable(p))
                        THEN events \union {"lost write"} ELSE events
           /\ sh' = Shell(sep, close, IF lost THEN Failed ELSE Ran)
    /\ line' = IF close THEN "closed" ELSE "open"
    /\ UNCHANGED <<track, scan>>

\* The CLI in the current directory, for a --workspace, or in a substitution
\* that changes the directory first.
RunCli(form, p, sep, close) ==
    /\ Follows(sep, close)
    /\ form # "plain" => Shallow(p)
    /\ LET named == IF form = "plain" THEN track.cwd ELSE sandboxCwdTarget(p)
           target == IF form = "workspace" /\ named = Unknown THEN track.cwd ELSE named
           place == IF form = "plain" THEN sh.cwd ELSE Real(sh, p)
           runs == Joined(sep) = "ok" /\ (form = "inline" => place \in sh.dirs)
       IN  /\ findings' = IF target = Unknown \/ isWithinSmokeSandbox(target) THEN findings
                          ELSE findings \union {"sandbox"}
           /\ events' = events \union
                (IF ~runs \/ isWithinSmokeSandbox(place) THEN {}
                 ELSE {IF named = Unknown THEN "outside unseen" ELSE "outside"})
                 \union (IF runs /\ (form # "plain" \/ sh.outer # Unknown) THEN {"elsewhere"} ELSE {})
           /\ sh' = Shell(sep, close,
                          IF form = "inline" /\ place \notin sh.dirs THEN Failed
                          ELSE [Ran EXCEPT !.dirs =
                                   @ \union Ancestors(Path(place.at, Append(place.names, "st")))])
    /\ scan' = [scan EXCEPT !.roots = @ \union {scan.cwd}]
    /\ line' = IF close THEN "closed" ELSE "open"
    /\ UNCHANGED track

Next ==
    \/ NextLine
    \/ NextCheck
    \/ \E p \in Assigned : Assign(p)
    \/ \E p \in Texts, sep \in Seps, open \in BOOLEAN : ChangeDir(p, sep, open)
    \/ \E p \in Texts, sep \in Seps, recursive, close \in BOOLEAN : MakeDir(p, recursive, sep, close)
    \/ \E p \in Texts, sep \in Seps, close \in BOOLEAN : WriteFile(p, sep, close)
    \/ \E p \in Texts, sep \in Seps, close \in BOOLEAN, form \in {"plain", "workspace", "inline"} :
            RunCli(form, p, sep, close)

Spec == Init /\ [][Next]_vars

-----------------------------------------------------------------------------
(* Properties.                                                             *)

TypeOK ==
    /\ sh.status \in {"ok", "failed", "skipping", "dead"}
    /\ sh.cwd \in sh.dirs
    /\ sh.outer \in sh.dirs \union {Unknown}
    /\ findings \subseteq {"sandbox", "missing-parent-directory"}
    /\ scan.cwd = Unknown \/ Anchored(scan.cwd)
    /\ line \in {"fresh", "open", "closed"}
    /\ size \in 0..MaxSize

\* A CLI that ran outside every sandbox from a directory the rule followed is
\* a finding: a script the rule accepts does not leave its sandboxes.
CliStaysInSandbox == "outside" \in events => "sandbox" \in findings

\* A write that failed for want of its directory, at a path the rule resolved
\* to an absolute one, is a finding.  The CLI's own directories are expected
\* where it was run, so a CLI that was sent elsewhere is left out; so is a cd
\* later in a group, which the rule follows and the group's end does not undo.
WritesHaveParents ==
    "lost write" \in events /\ events \intersect {"elsewhere", "outlasting cd"} = {}
    => "missing-parent-directory" \in findings
=============================================================================
