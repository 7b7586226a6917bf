--------------------------- MODULE CheckpointStore ---------------------------
(***************************************************************************)
(* The checkpoint files of a workspace (infrastructure/                    *)
(* file-state-repository.ts), the one rule that picks the file a command   *)
(* works on (application/resolve-task-checkpoint.ts), and commands that    *)
(* run concurrently over them, as several agents and an operator do.       *)
(*                                                                         *)
(* A command resolves its file, loads it, computes and saves; no lock is   *)
(* taken.  A scan of the workspace is one step and so is one load; a save  *)
(* is two, because writeFileSync truncates the file before it writes, and  *)
(* the process may be killed in between.                                   *)
(*                                                                         *)
(* A snapshot keeps what the resolution compares (its issue, whether the   *)
(* task is finished, updatedAt), the pause, and `version`, the number of   *)
(* updates it descends from: a history that shows lost ones.  Repositories *)
(* bound to a worktree and the smoke-test guard are left out: they refuse  *)
(* writes and choose no other file.                                        *)
(***************************************************************************)
EXTENDS Naturals, SequencesExt

CONSTANTS
    Procs,      \* the commands that may run at a time
    Issues,     \* the issues that may have a task checkpoint
    MaxClock,   \* bound: the instants updatedAt distinguishes
    MaxSaves    \* bound: saves begun in a run

CONSTANTS Absent, Torn

\* .agyloop/state.json, and the issue of a snapshot that names none.  The
\* ranking puts it before every numbered task.
Root == 0

\* What is assumed of the constants, here and of the missing and the torn file
\* below, by the module that declares them.
StoreAssumption ==
    /\ Issues \subseteq Nat \ {Root}
    /\ MaxClock \in Nat
    /\ MaxSaves \in Nat

Files == Issues \union {Root}

VARIABLES
    content,    \* what each file holds
    proc,       \* the running commands
    clock,      \* the newest instant a snapshot was stamped with
    saves,      \* how many saves were begun
    writes,     \* history: completed saves of a file since it was last removed
    raced       \* history: files saved by a command that another one overtook

vars == <<content, proc, clock, saves, writes, raced>>

\* What toSnapshot writes and fromSnapshot reads back, as far as files are ranked
\* and repaired by it; `version` tells two saves apart.
Snapshots ==
    [issue : Files, done : BOOLEAN, paused : BOOLEAN, at : Nat, version : Nat]

\* A file that is missing, empty or cut off is told from one that can be read.
NoFileAssumption == Absent # Torn /\ Absent \notin Snapshots /\ Torn \notin Snapshots

\* `target` is the file the command loads and saves.  `overtaken` is history: another command touched the
\* target after this one loaded it.  What a command no longer needs is reset, to
\* keep the states few: `named` after the last resolution, `kind` after the load.
Commands ==
    [pc : {"idle", "resolveAgain", "load", "truncate", "write"},
     kind : {"update", "halt", "resume"}, named : Files,
     target : Files,
     snapshot : Snapshots \union {Absent}, overtaken : BOOLEAN]

IdleCommand ==
    [pc |-> "idle", kind |-> "update", named |-> Root, target |-> Root,
     snapshot |-> Absent, overtaken |-> FALSE]

TypeOK ==
    /\ content \in [Files -> Snapshots \union {Absent, Torn}]
    /\ proc \in [Procs -> Commands]
    /\ clock \in Nat
    /\ saves \in Nat
    /\ writes \in [Files -> Nat]
    /\ raced \in [Files -> BOOLEAN]

Init ==
    /\ content = [f \in Files |-> Absent]
    /\ proc = [p \in Procs |-> IdleCommand]
    /\ clock = 0
    /\ saves = 0
    /\ writes = [f \in Files |-> 0]
    /\ raced = [f \in Files |-> FALSE]

-----------------------------------------------------------------------------
(* Which checkpoint is authoritative.                                      *)

Readable(f) == content[f] \notin {Absent, Torn}

\* collectCandidates: the root, and every issue some readable snapshot names
\* whose own file can be loaded.  A file that cannot be read is no evidence.
Candidate(f) == [issue |-> f, inFlight |-> ~content[f].done, updatedAt |-> content[f].at]

ListedIssues == {content[f].issue : f \in {g \in Files : Readable(g)}} \ {Root}

Candidates == {Candidate(f) : f \in {g \in {Root} \union ListedIssues : Readable(g)}}

\* In flight beats finished, then the newest update, then the lowest issue.
Outranks(c, d) ==
    \/ c.inFlight /\ ~d.inFlight
    \/ c.inFlight = d.inFlight /\ c.updatedAt > d.updatedAt
    \/ c.inFlight = d.inFlight /\ c.updatedAt = d.updatedAt /\ c.issue < d.issue

\* The scan keeps the best so far in the order the directory was read.
SelectAuthoritative(candidates) ==
    FoldLeft(LAMBDA best, c : IF Outranks(c, best) THEN c ELSE best,
             Head(candidates), Tail(candidates))

\* The files a resolution without a named issue may pick.
Resolved ==
    IF Candidates = {} THEN {Root}
    ELSE {SelectAuthoritative(order).issue : order \in SetToSeqs(Candidates)}

\* resolveCheckpointScope: a named issue is that one file, and an unreadable
\* one is an error that ends the command.
Scope(named) ==
    IF named = Root THEN Resolved
    ELSE IF content[named] = Torn THEN {} ELSE {named}

-----------------------------------------------------------------------------
(* One command.                                                            *)

Finish(p) == proc' = [proc EXCEPT ![p] = IdleCommand]

\* `resume` asks the resolver twice: once for the file it reports, once for the
\* one it writes.
Resolve(p, kind, named) ==
    /\ proc[p].pc = "idle"
    /\ \E f \in Scope(named) :
         proc' = [proc EXCEPT ![p] =
                    [IdleCommand EXCEPT !.pc = IF kind = "resume" THEN "resolveAgain" ELSE "load",
                                        !.kind = kind, !.target = f,
                                        !.named = IF kind = "resume" THEN named ELSE Root]]
    /\ UNCHANGED <<content, clock, saves, writes, raced>>

ResolveAgain(p) ==
    /\ proc[p].pc = "resolveAgain"
    /\ IF Scope(proc[p].named) = {} THEN Finish(p)
       ELSE \E f \in Scope(proc[p].named) :
              proc' = [proc EXCEPT ![p].pc = "load", ![p].named = Root, ![p].target = f]
    /\ UNCHANGED <<content, clock, saves, writes, raced>>

\* Mutant: a new checkpoint of a task is about the issue that was inferred.
Created_fromTheInferredIssue(f, now) ==
    {[issue |-> i, done |-> FALSE, paused |-> FALSE, at |-> now, version |-> 1] : i \in Files}

\* The snapshot a creating command starts from: the file's own issue, and for
\* the root the one it was inferred to be about, if any.
Created(f, now) ==
    {[issue |-> i, done |-> FALSE, paused |-> FALSE, at |-> now, version |-> 1] :
        i \in IF f = Root THEN Files ELSE {f}}

\* The snapshot a command makes of the one it loaded.
Changed(s, done, paused, now) ==
    [s EXCEPT !.done = done, !.paused = paused, !.at = now, !.version = @ + 1]

\* An update may finish the task or re-open it, and may consume its pause.
Updated(s, now) ==
    {Changed(s, done, s.paused, now) : done \in BOOLEAN}
        \union {Changed(s, done, FALSE, now) : done \in BOOLEAN}

\* Mutant: a file that cannot be read counts as no checkpoint.
Results_tornIsAbsent(kind, found, f, now) ==
    IF found \in {Absent, Torn} THEN (IF kind = "update" THEN Created(f, now) ELSE {})
    ELSE {[found EXCEPT !.paused = kind = "halt", !.at = now, !.version = @ + 1]}

\* What the command saves: nothing when the file cannot be read, when `halt` or
\* `resume` find none, or when `resume` finds no pause.
Results(kind, found, f, now) ==
    IF found = Torn THEN {}
    ELSE IF found = Absent THEN (IF kind = "update" THEN Created(f, now) ELSE {})
    ELSE IF kind = "update" THEN Updated(found, now)
    ELSE IF kind = "halt" THEN {Changed(found, found.done, TRUE, now)}
    ELSE IF found.paused THEN {Changed(found, found.done, FALSE, now)}
    ELSE {}

Load(p) ==
    LET f == proc[p].target
    IN /\ proc[p].pc = "load"
       /\ \/ /\ Results(proc[p].kind, content[f], f, clock) = {}
             /\ Finish(p)
             /\ UNCHANGED <<clock, saves>>
          \/ /\ saves < MaxSaves
             /\ \E now \in {clock, clock + 1} :
                  /\ now <= MaxClock
                  /\ clock' = now
                  /\ saves' = saves + 1
                  /\ \E s \in Results(proc[p].kind, content[f], f, now) :
                       proc' = [proc EXCEPT ![p] =
                                  [IdleCommand EXCEPT !.pc = "truncate", !.target = f,
                                                      !.snapshot = s]]
    /\ UNCHANGED <<content, writes, raced>>

\* Every other command that already loaded f works on a snapshot now stale.
Overtake(f, p, next) ==
    [q \in Procs |->
        IF q # p /\ next[q].target = f /\ next[q].pc \in {"truncate", "write"}
        THEN [next[q] EXCEPT !.overtaken = TRUE] ELSE next[q]]

\* save(): the file is emptied, then written.
Truncate(p) ==
    LET f == proc[p].target
    IN /\ proc[p].pc = "truncate"
       /\ content' = [content EXCEPT ![f] = Torn]
       /\ proc' = Overtake(f, p, [proc EXCEPT ![p].pc = "write"])
       /\ UNCHANGED <<clock, saves, writes, raced>>

Write(p) ==
    LET f == proc[p].target
    IN /\ proc[p].pc = "write"
       /\ content' = [content EXCEPT ![f] = proc[p].snapshot]
       /\ writes' = [writes EXCEPT ![f] = @ + 1]
       /\ raced' = [raced EXCEPT ![f] = @ \/ proc[p].overtaken]
       /\ proc' = Overtake(f, p, [proc EXCEPT ![p] = IdleCommand])
       /\ UNCHANGED <<clock, saves>>

\* The process is killed; between the two halves of a save the file stays torn.
Crash(p) ==
    /\ proc[p].pc # "idle"
    /\ Finish(p)
    /\ UNCHANGED <<content, clock, saves, writes, raced>>

\* reset removes a file, reset --all those it manages to remove.
Removed(fs) ==
    /\ content' = [f \in Files |-> IF f \in fs THEN Absent ELSE content[f]]
    /\ writes' = [f \in Files |-> IF f \in fs THEN 0 ELSE writes[f]]
    /\ raced' = [f \in Files |-> IF f \in fs THEN FALSE ELSE raced[f]]
    /\ proc' = [q \in Procs |->
                  IF proc[q].target \in fs /\ proc[q].pc \in {"truncate", "write"}
                  THEN [proc[q] EXCEPT !.overtaken = TRUE] ELSE proc[q]]
    /\ UNCHANGED <<clock, saves>>

Reset(f) == content[f] # Absent /\ Removed({f})

ResetAll ==
    \E fs \in SUBSET {f \in Files : content[f] # Absent} : fs # {} /\ Removed(fs)

-----------------------------------------------------------------------------
Next ==
    \/ \E p \in Procs :
         \/ \E kind \in {"update", "halt", "resume"}, named \in Files : Resolve(p, kind, named)
         \/ ResolveAgain(p)
         \/ Load(p)
         \/ Truncate(p)
         \/ Write(p)
         \/ Crash(p)
    \/ \E f \in Files : Reset(f)
    \/ ResetAll

Spec == Init /\ [][Next]_vars

-----------------------------------------------------------------------------
(* Safety.                                                                 *)

\* A task file never holds another task's checkpoint, whatever order resolves,
\* loads and saves of concurrent commands take (#226 D6, #250).
TaskFileHoldsItsIssue ==
    \A i \in Issues : Readable(i) => content[i].issue = i

\* A checkpoint holds every update saved to its file since it was created, also
\* after crashes and unreadable files, unless two commands worked on that same
\* file at once: then the last save wins, and nothing in the code prevents it.
NothingLostWithoutRace ==
    \A f \in Files : Readable(f) /\ ~raced[f] => content[f].version = writes[f]

=============================================================================
