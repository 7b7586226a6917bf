--------------------------- MODULE WorkspaceProofs ---------------------------
(***************************************************************************)
(* What holds of the worktrees of any tasks, with any trees of the         *)
(* operator, whichever commands run at once and whichever calls fail, as   *)
(* long as the repository is Undisturbed: a refused run leaves what it     *)
(* found, no task is bound to another's tree, and no uncommitted work is   *)
(* lost.  What holds of the files a task's checkpoint is kept in, however  *)
(* loads, saves and clears interleave: Store in MCCheckpointStore.  And    *)
(* what holds of its plan documents, whoever writes them: Plans in         *)
(* MCPlanning.                                                             *)
(***************************************************************************)
EXTENDS Worktrees, MCCheckpointStore, MCPlanning, FiniteSets,
        SequenceTheorems, WellFoundedInduction, TLAPS

\* The registry can be listed, no directory lies unregistered at a task's path, and no
\* sub-agent has a tree: what the sweeps take for orphans are none of a task's trees.
Undisturbed ==
    /\ "list" \notin MayFail
    /\ Leftovers \intersect Tasks = {}
    /\ Brain = {}

\* A task's own directory is registered and has its branch, or the quarantine's.
Registry ==
    /\ registered \intersect Leftovers = {}
    /\ dirs \intersect Tasks \subseteq registered
    /\ \A t \in Tasks \intersect registered : head[t] \in {t, Quarantine}

\* The trees a task's checkpoint or its running command has to do with.
Claims(t, p) ==
    \/ cp[t] # None /\ cp[t].place = p
    \/ /\ op[t] # None
       /\ \/ op[t].tree # None /\ op[t].tree.place = p
          \/ op[t].old # None /\ op[t].old.place = p
          \/ p \in op[t].was

\* They are its own directory and trees outside that have its branch.
OwnTrees(t) ==
    \A p \in Places : Claims(t, p) =>
        /\ p = t \/ p \in Outside
        /\ p \in registered => head[p] \in {t, Quarantine}

Exclusive == \A t, u \in Tasks, p \in Places : Claims(t, p) /\ Claims(u, p) => t = u

\* Which command a step belongs to, and the tree it has by then.
CommandOf(t) ==
    op[t] # None =>
        /\ op[t].at \in {"probe", "discard", "branch", "restore"} => op[t].cmd = "implement"
        /\ op[t].at \in {"look", "add", "save", "unsave", "start"} => op[t].cmd \in {"implement", "leg"}
        /\ op[t].at \in {"commit", "sweep"} => op[t].cmd = "commit" /\ op[t].old # None
        /\ op[t].at = "remove" => op[t].cmd = "remove"
        /\ op[t].at \in {"sweep", "save", "unsave", "start", "discard", "branch", "teardown"} => op[t].tree # None
        /\ op[t].cmd \in {"implement", "leg"} /\ op[t].tree # None =>
              op[t].tree.branch \in {t, Quarantine}

\* Until the end of a run that provisions, what it found is there, and what the probe
\* answered has it.
Found(t) ==
    op[t] # None /\ op[t].at \in {"probe", "look", "add", "save", "start", "discard", "branch", "restore"} =>
        /\ op[t].was \subseteq dirs \intersect registered
        /\ op[t].trees # Unknown => op[t].was \subseteq op[t].trees
        /\ op[t].wasBranch => t \in branches
        /\ op[t].named # Unknown /\ op[t].wasBranch => t \in op[t].named

\* The sweeper only has leftover directories in hand.
Sweeping == op[Sweeper] # None => op[Sweeper].seen \subseteq Leftovers

TaskInvariant(t) == OwnTrees(t) /\ CommandOf(t) /\ Found(t)

WorktreeInvariant ==
    /\ TypeOK
    /\ Registry
    /\ Exclusive
    /\ Sweeping
    /\ \A t \in Tasks : TaskInvariant(t)

-----------------------------------------------------------------------------
(* The parts of a step.                                                    *)

OpTypeOK ==
    /\ op \in [Tasks \union {Sweeper} -> Ops \union Sweeps \union {None}]
    /\ op[Sweeper] \in Sweeps \union {None}
    /\ \A t \in Tasks : op[t] \in Ops \union {None}

DiskTypeOK ==
    /\ dirs \subseteq Places
    /\ registered \subseteq Places
    /\ head \in [Places \union {Root} -> Heads]
    /\ branches \subseteq Tasks
    /\ work \subseteq dirs
    /\ safe \subseteq Places

\* Nobody else's command moves.
Alone(t) == \A a \in (Tasks \union {Sweeper}) \ {t} : op'[a] = op[a]

\* The command goes on with what it knew when it began.
Keeps(t) ==
    /\ op'[t] \in Ops
    /\ op'[t].cmd = op[t].cmd /\ op'[t].had = op[t].had /\ op'[t].old = op[t].old
    /\ op'[t].was = op[t].was /\ op'[t].wasBranch = op[t].wasBranch

\* And with the tree and the answers it has.
Same(t) ==
    /\ Keeps(t)
    /\ op'[t].tree = op[t].tree /\ op'[t].trees = op[t].trees /\ op'[t].named = op[t].named

\* The trees a task may take up: its directory, and what has its branch.
Takes(t, p) == p = t \/ (p \in registered /\ head[p] = t)

\* What a step of a task may do to the trees of the others.
Effect(t) ==
    /\ Alone(t)
    /\ \A u \in Tasks \ {t} : cp'[u] \in {cp[u], None}
    /\ \A p \in dirs \intersect registered :
          p \in dirs' \intersect registered' \/ Claims(t, p) \/ p = t
    /\ dirs' \subseteq dirs \union registered'
    /\ dirs' \intersect registered \subseteq registered'
    /\ \A p \in registered' :
          \/ p \in registered /\ head'[p] \in {head[p], Quarantine}
          \/ p = t /\ head'[p] = t
    /\ \A u \in branches : u \in branches' \/ u = t
    /\ \A p \in Places : Claims(t, p)' => Claims(t, p) \/ Takes(t, p)

\* Uncommitted work the step makes away with is safe, or was the command's to destroy.
Spares == \A p \in (work \ work') \intersect registered :
             p \in safe' \/ \E t \in Tasks : MayDestroy(t, p)

-----------------------------------------------------------------------------
(* The commands' records.                                                  *)

LEMMA Names ==
    /\ Sweeper \notin Tasks /\ None \notin Tasks
    /\ Quarantine \notin Tasks
    /\ Tasks \subseteq Places /\ Outside \subseteq Places
    /\ Root \notin Places
    /\ Inside \intersect Outside = {}
    /\ Tasks \subseteq Inside
  BY ConstantsAssumption DEF Places, Inside

LEMMA GotoStep ==
    ASSUME OpTypeOK, NEW t \in Tasks, NEW step \in Steps, op[t] # None, Goto(t, step)
    PROVE  OpTypeOK' /\ Alone(t) /\ Same(t) /\ op'[t].at = step
<1>1. op[t] \in Ops /\ Sweeper # t
  BY Names DEF OpTypeOK
<1>2. op' = [op EXCEPT ![t] = [op[t] EXCEPT !.at = step]]
  BY DEF Goto
<1>3. [op[t] EXCEPT !.at = step] \in Ops
  BY <1>1 DEF Ops
<1>4. op'[t] = [op[t] EXCEPT !.at = step] /\ Alone(t)
  BY <1>2 DEF OpTypeOK, Alone
<1>5. OpTypeOK'
  BY <1>1, <1>2, <1>3, <1>4 DEF OpTypeOK, Alone
<1>6. Same(t) /\ op'[t].at = step
  BY <1>1, <1>3, <1>4 DEF Same, Keeps, Ops
<1> QED
  BY <1>4, <1>5, <1>6

LEMMA EndStep ==
    ASSUME OpTypeOK, NEW t \in Tasks, End(t)
    PROVE  OpTypeOK' /\ Alone(t) /\ op'[t] = None
  BY Names DEF OpTypeOK, End, Alone

LEMMA ProvisionedStep ==
    ASSUME OpTypeOK, NEW t \in Tasks, op[t] # None,
           NEW p \in Tasks \union Outside, NEW b \in Heads, Provisioned(t, p, b)
    PROVE  /\ OpTypeOK' /\ Alone(t) /\ Keeps(t)
           /\ op'[t].at = "save" /\ op'[t].tree = [place |-> p, branch |-> b]
           /\ op'[t].trees = op[t].trees /\ op'[t].named = op[t].named
<1> DEFINE next == [op[t] EXCEPT !.at = "save", !.tree = [place |-> p, branch |-> b]]
<1>1. op[t] \in Ops /\ Sweeper # t
  BY Names DEF OpTypeOK
<1>2. op' = [op EXCEPT ![t] = next]
  BY DEF Provisioned, OpTypeOK
<1>3. next \in Ops
  BY <1>1 DEF Ops, Descriptors, Steps
<1>4. op'[t] = next /\ Alone(t)
  BY <1>2 DEF OpTypeOK, Alone
<1>5. OpTypeOK'
  BY <1>1, <1>3, <1>4, <1>2 DEF OpTypeOK, Alone
<1>6. /\ Keeps(t) /\ op'[t].at = "save" /\ op'[t].tree = [place |-> p, branch |-> b]
      /\ op'[t].trees = op[t].trees /\ op'[t].named = op[t].named
  BY <1>1, <1>3, <1>4 DEF Keeps, Ops
<1> QED
  BY <1>4, <1>5, <1>6

LEMMA BeginStep ==
    ASSUME TypeOK, NEW t \in Tasks, NEW command, NEW step \in Steps, Begin(t, command, step)
    PROVE  /\ OpTypeOK' /\ Alone(t) /\ op[t] = None
           /\ op'[t] \in Ops
           /\ op'[t].cmd = command /\ op'[t].at = step
           /\ op'[t].had = (cp[t] # None)
           /\ op'[t].tree = None /\ op'[t].old = cp[t]
           /\ op'[t].trees = Unknown /\ op'[t].named = Unknown
           /\ op'[t].was =
                {p \in dirs \intersect registered : p \in Tasks \union Outside /\ head[p] = t}
           /\ op'[t].wasBranch <=> t \in branches
<1> DEFINE there == t \in branches
           had == cp[t] # None
<1>1. PICK new : new = [cmd |-> command, at |-> step, had |-> had, tree |-> None, old |-> cp[t],
          trees |-> Unknown, named |-> Unknown,
          was |-> {p \in dirs \intersect registered : p \in Tasks \union Outside /\ head[p] = t},
          wasBranch |-> there]
  OBVIOUS
<1>2. op' = [op EXCEPT ![t] = new]
  BY <1>1 DEF Begin
<1>3. command \in AllCommands
  BY ConstantsAssumption DEF Begin
<1>4. had \in BOOLEAN /\ there \in BOOLEAN
  OBVIOUS
<1>5. cp[t] \in Descriptors \union {None}
  BY DEF TypeOK
<1>6. {p \in dirs \intersect registered : p \in Tasks \union Outside /\ head[p] = t} \in SUBSET Places
  BY DEF TypeOK
<1> HIDE DEF had, there
<1>7. new \in Ops
  BY <1>1, <1>3, <1>4, <1>5, <1>6 DEF Ops
<1>8. op'[t] = new /\ Alone(t) /\ op[t] = None
  BY <1>2 DEF TypeOK, Alone, Begin
<1>9. OpTypeOK'
  BY <1>2, <1>7, <1>8, Names DEF OpTypeOK, TypeOK, Alone
<1>10. op'[t].had = had /\ (op'[t].wasBranch <=> there)
  BY <1>1, <1>8
<1> QED
  BY <1>1, <1>7, <1>8, <1>9, <1>10 DEF had, there

-----------------------------------------------------------------------------
(* The calls of the manager.                                               *)

\* What pruning may take.
LEMMA PrunedTrees ==
    ASSUME NEW reg, NEW d, NEW r \in Pruned(reg, d)
    PROVE  r \subseteq reg /\ reg \intersect d \subseteq r
  BY DEF Pruned

\* A removal takes its own directory, and registrations without one.
LEMMA RemoveKeeps ==
    ASSUME DiskTypeOK, NEW p, NEW external, NEW tolerate, NEW done,
           RemoveTree(p, external, tolerate, done)
    PROVE  /\ dirs' \subseteq dirs /\ dirs \ {p} \subseteq dirs'
           /\ registered' \subseteq registered /\ registered \intersect dirs' \subseteq registered'
           /\ work' \subseteq dirs' /\ work \ {p} \subseteq work'
<1>1. PICK found \in Outcomes("find"), removed \in Outcomes("remove") :
        IF Refused(p, external, tolerate, found) \/ (p \in dirs /\ ~removed /\ p \notin Inside)
        THEN ~done /\ UNCHANGED <<dirs, registered, work>>
        ELSE /\ done
             /\ dirs' = dirs \ {p}
             /\ work' = work \ {p}
             /\ registered' \in Pruned(IF removed /\ p \in dirs THEN registered \ {p} ELSE registered,
                                       dirs \ {p})
  BY DEF RemoveTree
<1>2. CASE UNCHANGED <<dirs, registered, work>>
  BY <1>2 DEF DiskTypeOK
<1>3. CASE /\ dirs' = dirs \ {p}
           /\ work' = work \ {p}
           /\ registered' \in Pruned(IF removed /\ p \in dirs THEN registered \ {p} ELSE registered,
                                     dirs \ {p})
  <2>1. CASE removed /\ p \in dirs
    <3>1. registered' \in Pruned(registered \ {p}, dirs \ {p})
      BY <1>3, <2>1
    <3>2. registered' \subseteq registered \ {p} /\ (registered \ {p}) \intersect (dirs \ {p}) \subseteq registered'
      BY <3>1, PrunedTrees
    <3> QED
      BY <3>2, <1>3 DEF DiskTypeOK
  <2>2. CASE ~(removed /\ p \in dirs)
    <3>1. registered' \in Pruned(registered, dirs \ {p})
      BY <1>3, <2>2
    <3>2. registered' \subseteq registered /\ registered \intersect (dirs \ {p}) \subseteq registered'
      BY <3>1, PrunedTrees
    <3> QED
      BY <3>2, <1>3 DEF DiskTypeOK
  <2> QED
    BY <2>1, <2>2
<1> QED
  BY <1>1, <1>2, <1>3

\* The sweeps take the directories they are told to, and no sub-agent has one.
LEMMA SweepKeeps ==
    ASSUME Undisturbed, DiskTypeOK, NEW orphans, NEW listing, SweepTo(orphans, listing)
    PROVE  /\ dirs' = dirs \ orphans
           /\ registered' \subseteq registered /\ registered \intersect dirs' \subseteq registered'
           /\ work' = work \ orphans
<1>1. PICK found \in Outcomes("find") :
        LET gone == orphans \union (IF found THEN listing \intersect Brain ELSE {}) IN
        /\ dirs' = dirs \ gone
        /\ work' = work \ gone
        /\ registered' \in Pruned(registered, dirs \ gone)
  BY DEF SweepTo
<1>2. /\ dirs' = dirs \ orphans
      /\ work' = work \ orphans
      /\ registered' \in Pruned(registered, dirs \ orphans)
  BY <1>1 DEF Undisturbed
<1> QED
  BY <1>2, PrunedTrees

-----------------------------------------------------------------------------
(* Tasks do not get in each other's way.                                   *)

\* Where a task's claims can come from.
LEMMA ClaimsOfStep ==
    ASSUME NEW t \in Tasks, op[t] # None,
           cp'[t] \in {cp[t], None, op[t].old, op[t].tree},
           \/ op'[t] = None
           \/ /\ Keeps(t)
              /\ op'[t].tree \in {op[t].tree, op[t].old} \/ Takes(t, op'[t].tree.place)
    PROVE  \A p \in Places : Claims(t, p)' => Claims(t, p) \/ Takes(t, p)
  BY DEF Claims, Keeps

LEMMA ClaimsOfBeginning ==
    ASSUME TypeOK, NEW t \in Tasks, NEW command, NEW step \in Steps, Begin(t, command, step)
    PROVE  \A p \in Places : Claims(t, p)' => Claims(t, p) \/ Takes(t, p)
<1>1. /\ op'[t].tree = None /\ op'[t].old = cp[t] /\ cp' = cp
      /\ op'[t].was = {p \in dirs \intersect registered : p \in Tasks \union Outside /\ head[p] = t}
  BY BeginStep DEF Begin
<1> QED
  BY <1>1 DEF Claims, Takes

\* What a task may take up no other task has to do with.
LEMMA TakesIsOwn ==
    ASSUME Undisturbed, WorktreeInvariant, NEW t \in Tasks, NEW p \in Places, Takes(t, p)
    PROVE  /\ p = t \/ p \in Outside
           /\ p \in registered => head[p] \in {t, Quarantine}
           /\ \A u \in Tasks : Claims(u, p) => u = t
<1>1. p = t \/ (p \in registered /\ head[p] = t)
  BY DEF Takes
<1>2. /\ registered \intersect Leftovers = {}
      /\ \A q \in Tasks \intersect registered : head[q] \in {q, Quarantine}
      /\ \A u \in Tasks : OwnTrees(u)
  BY DEF WorktreeInvariant, Registry, TaskInvariant
<1>3. p = t \/ p \in Outside
  BY <1>1, <1>2, Names DEF Undisturbed, Places, Inside
<1>4. p \in registered => head[p] \in {t, Quarantine}
  BY <1>1, <1>2
<1>5. ASSUME NEW u \in Tasks, Claims(u, p) PROVE u = t
  <2>1. (p = u \/ p \in Outside) /\ (p \in registered => head[p] \in {u, Quarantine})
    BY <1>2, <1>5 DEF OwnTrees
  <2>2. CASE p = t
    BY <2>1, <2>2, Names
  <2>3. CASE p \in registered /\ head[p] = t
    BY <2>1, <2>3, Names
  <2> QED
    BY <1>1, <2>2, <2>3
<1> QED
  BY <1>3, <1>4, <1>5

\* A step with such an effect leaves the others what they rely on, and takes up
\* nothing of theirs.
LEMMA EffectKeeps ==
    ASSUME Undisturbed, WorktreeInvariant, NEW t \in Tasks, Effect(t)
    PROVE  /\ Registry' /\ Exclusive' /\ Sweeping'
           /\ OwnTrees(t)'
           /\ \A u \in Tasks \ {t} : TaskInvariant(u)'
<1>1. /\ Registry /\ Exclusive /\ Sweeping
      /\ \A u \in Tasks : OwnTrees(u) /\ CommandOf(u) /\ Found(u)
      /\ registered \subseteq Places
  BY DEF WorktreeInvariant, TaskInvariant, TypeOK
<1>2. Registry'
  <2>1. registered' \intersect Leftovers = {}
    BY <1>1 DEF Effect, Registry, Undisturbed
  <2>2. dirs' \intersect Tasks \subseteq registered'
    BY <1>1 DEF Effect, Registry
  <2>3. ASSUME NEW u \in Tasks \intersect registered' PROVE head'[u] \in {u, Quarantine}
    BY <1>1 DEF Effect, Registry
  <2> QED
    BY <2>1, <2>2, <2>3 DEF Registry
<1>3. Sweeping'
  BY <1>1, Names DEF Effect, Alone, Sweeping
<1>4. ASSUME NEW u \in Tasks \ {t}, NEW p \in Places, Claims(u, p)'
      PROVE  Claims(u, p) /\ p # t
  <2>1. op'[u] = op[u] /\ cp'[u] \in {cp[u], None}
    BY DEF Effect, Alone
  <2>2. Claims(u, p)
    BY <1>4, <2>1 DEF Claims
  <2>3. p = u \/ p \in Outside
    BY <1>1, <2>2 DEF OwnTrees
  <2> QED
    BY <2>2, <2>3, Names
<1>5. ASSUME NEW p \in Places, Claims(t, p)'
      PROVE  /\ p = t \/ p \in Outside
             /\ p \in registered => head[p] \in {t, Quarantine}
             /\ \A u \in Tasks : Claims(u, p) => u = t
  <2>1. CASE Claims(t, p)
    BY <1>1, <2>1 DEF OwnTrees, Exclusive
  <2>2. CASE Takes(t, p)
    BY <2>2, TakesIsOwn
  <2> QED
    BY <1>5, <2>1, <2>2 DEF Effect
<1>6. Exclusive'
  <2> SUFFICES ASSUME NEW u \in Tasks, NEW v \in Tasks, NEW p \in Places, Claims(u, p)', Claims(v, p)'
               PROVE  u = v
    BY DEF Exclusive
  <2>1. CASE u = t /\ v # t
    BY <2>1, <1>4, <1>5
  <2>2. CASE v = t /\ u # t
    BY <2>2, <1>4, <1>5
  <2>3. CASE u # t /\ v # t
    BY <2>3, <1>1, <1>4 DEF Exclusive
  <2> QED
    BY <2>1, <2>2, <2>3
<1>7. OwnTrees(t)'
  BY <1>5 DEF OwnTrees, Effect
<1>8. ASSUME NEW u \in Tasks \ {t} PROVE TaskInvariant(u)'
  <2>1. op'[u] = op[u]
    BY DEF Effect, Alone
  <2>2. OwnTrees(u)'
    BY <1>1, <1>4 DEF OwnTrees, Effect
  <2>3. CommandOf(u)'
    BY <1>1, <2>1 DEF CommandOf
  <2>4. Found(u)'
    <3> SUFFICES ASSUME op[u] # None, op[u].at \in {"probe", "look", "add", "save", "start",
                                                    "discard", "branch", "restore"}
                 PROVE  /\ op[u].was \subseteq dirs' \intersect registered'
                        /\ op[u].wasBranch => u \in branches'
      BY <1>1, <2>1 DEF Found
    <3>1. op[u].was \subseteq dirs \intersect registered /\ (op[u].wasBranch => u \in branches)
      BY <1>1 DEF Found
    <3>2. \A p \in op[u].was : p \in Places /\ Claims(u, p) /\ Claims(u, p)'
      <4>1. \A p \in op[u].was : Claims(u, p) /\ Claims(u, p)'
        BY <2>1 DEF Claims
      <4> QED
        BY <3>1, <4>1, <1>1
    <3>3. \A p \in op[u].was : p # t /\ ~Claims(t, p)
      BY <3>2, <1>1, <1>4 DEF Exclusive
    <3> QED
      BY <3>1, <3>3 DEF Effect
  <2> QED
    BY <2>2, <2>3, <2>4 DEF TaskInvariant
<1> QED
  BY <1>2, <1>3, <1>6, <1>7, <1>8

-----------------------------------------------------------------------------
(* The steps of a task.                                                    *)

StepKeeps(t) == TypeOK' /\ Effect(t) /\ CommandOf(t)' /\ Found(t)' /\ Spares

\* The command of t is at this step.
LEMMA AtStep ==
    ASSUME WorktreeInvariant, NEW t \in Tasks, NEW step, At(t, step)
    PROVE  /\ op[t] # None /\ op[t] \in Ops /\ op[t].at = step
           /\ OpTypeOK /\ DiskTypeOK /\ cp \in [Tasks -> Descriptors \union {None}]
           /\ OwnTrees(t) /\ CommandOf(t) /\ Found(t) /\ Registry
           /\ op[t].tree # None => op[t].tree \in Descriptors /\ Claims(t, op[t].tree.place)
           /\ op[t].old # None => op[t].old \in Descriptors /\ Claims(t, op[t].old.place)
<1>1. op[t] # None /\ op[t] \in Ops /\ op[t].at = step
  BY DEF At, WorktreeInvariant, TypeOK
<1>2. op[t].tree # None => op[t].tree \in Descriptors /\ Claims(t, op[t].tree.place)
  BY <1>1 DEF Ops, Claims
<1>3. op[t].old # None => op[t].old \in Descriptors /\ Claims(t, op[t].old.place)
  BY <1>1 DEF Ops, Claims
<1> QED
  BY <1>1, <1>2, <1>3 DEF WorktreeInvariant, TaskInvariant, TypeOK, OpTypeOK, DiskTypeOK

\* A step that leaves the trees alone.
LEMMA QuietEffect ==
    ASSUME WorktreeInvariant, NEW t \in Tasks, UNCHANGED disk, Alone(t),
           \A u \in Tasks \ {t} : cp'[u] \in {cp[u], None},
           \A p \in Places : Claims(t, p)' => Claims(t, p) \/ Takes(t, p)
    PROVE  Effect(t) /\ Spares /\ DiskTypeOK'
  BY DEF Effect, Spares, DiskTypeOK, disk, WorktreeInvariant, TypeOK

\* A step that removes one of the task's trees.
LEMMA RemoveEffect ==
    ASSUME WorktreeInvariant, NEW t \in Tasks, NEW p, NEW external, NEW tolerate, NEW done,
           RemoveTree(p, external, tolerate, done), UNCHANGED <<head, branches, safe, cp>>,
           p = t \/ Claims(t, p),
           MayDestroy(t, p),
           Alone(t),
           \A q \in Places : Claims(t, q)' => Claims(t, q) \/ Takes(t, q)
    PROVE  Effect(t) /\ Spares /\ DiskTypeOK'
<1>1. DiskTypeOK
  BY DEF WorktreeInvariant, TypeOK, DiskTypeOK
<1>2. /\ dirs' \subseteq dirs /\ dirs \ {p} \subseteq dirs'
      /\ registered' \subseteq registered /\ registered \intersect dirs' \subseteq registered'
      /\ work' \subseteq dirs' /\ work \ {p} \subseteq work'
  BY <1>1, RemoveKeeps
<1>3. Registry
  BY DEF WorktreeInvariant
<1>4. dirs' \subseteq dirs \union registered' /\ dirs' \intersect registered \subseteq registered'
  BY <1>2
<1>5. Effect(t)
  BY <1>2, <1>4 DEF Effect
<1>6. Spares
  BY <1>2 DEF Spares
<1>7. DiskTypeOK'
  BY <1>1, <1>2 DEF DiskTypeOK
<1> QED
  BY <1>5, <1>6, <1>7

LEMMA TypeParts ==
    ASSUME OpTypeOK', DiskTypeOK', cp' \in [Tasks -> Descriptors \union {None}]
    PROVE  TypeOK'
  BY DEF OpTypeOK, DiskTypeOK, TypeOK

LEMMA Ended ==
    ASSUME NEW t, op'[t] = None
    PROVE  CommandOf(t)' /\ Found(t)'
  BY DEF CommandOf, Found

LEMMA BeginKeeps ==
    ASSUME WorktreeInvariant, NEW t \in Tasks, NEW command, NEW step \in Steps,
           Begin(t, command, step),
           \/ command = "implement" /\ step = "probe"
           \/ command = "leg" /\ step = "look"
           \/ command = "commit" /\ step = "commit" /\ cp[t] # None
           \/ command = "remove" /\ step = "remove"
           \/ command = "pruneStale" /\ step = "clear"
    PROVE  StepKeeps(t)
<1>1. TypeOK
  BY DEF WorktreeInvariant
<1>2. /\ OpTypeOK' /\ Alone(t) /\ op[t] = None
      /\ op'[t].cmd = command /\ op'[t].at = step
      /\ op'[t].tree = None /\ op'[t].old = cp[t]
      /\ op'[t].trees = Unknown /\ op'[t].named = Unknown
      /\ op'[t].was =
           {p \in dirs \intersect registered : p \in Tasks \union Outside /\ head[p] = t}
      /\ op'[t].wasBranch <=> t \in branches
  BY <1>1, BeginStep
<1>3. UNCHANGED disk /\ cp' = cp
  BY DEF Begin
<1>4. Effect(t) /\ Spares /\ DiskTypeOK'
  BY <1>1, <1>2, <1>3, ClaimsOfBeginning, QuietEffect
<1>5. TypeOK'
  BY <1>1, <1>2, <1>3, <1>4, TypeParts DEF TypeOK
<1>6. CommandOf(t)'
  BY <1>2 DEF CommandOf
<1>7. Found(t)'
  BY <1>2, <1>3 DEF Found, disk
<1> QED
  BY <1>4, <1>5, <1>6, <1>7 DEF StepKeeps

\* A step that only moves on, or ends.
LEMMA MoveKeeps ==
    ASSUME WorktreeInvariant, NEW t \in Tasks, op[t] # None, NEW step \in Steps,
           Goto(t, step) \/ End(t), UNCHANGED disk,
           cp' \in [Tasks -> Descriptors \union {None}],
           cp'[t] \in {cp[t], None, op[t].old, op[t].tree},
           \A u \in Tasks \ {t} : cp'[u] \in {cp[u], None}
    PROVE  /\ TypeOK' /\ Effect(t) /\ Spares
           /\ op'[t] = None \/ (Same(t) /\ op'[t].at = step)
<1>1. OpTypeOK
  BY DEF WorktreeInvariant, TypeOK, OpTypeOK
<1>2. OpTypeOK' /\ Alone(t) /\ (op'[t] = None \/ (Same(t) /\ op'[t].at = step))
  BY <1>1, GotoStep, EndStep
<1>3. \A p \in Places : Claims(t, p)' => Claims(t, p) \/ Takes(t, p)
  BY <1>2, ClaimsOfStep DEF Same
<1> QED
  BY <1>2, <1>3, QuietEffect, TypeParts

\* What it knows it still knows.
LEMMA KnowsStill ==
    ASSUME NEW t \in Tasks, op[t] # None, Same(t), CommandOf(t), Found(t), UNCHANGED disk,
           op[t].at \in {"probe", "look", "add", "save", "start", "discard", "branch", "restore"}
    PROVE  Found(t)'
  BY DEF Found, Same, Keeps, disk
-----------------------------------------------------------------------------
(* Provisioning.                                                           *)

LEMMA ProbeKeeps ==
    ASSUME Undisturbed, WorktreeInvariant, NEW t \in Tasks, Probe(t)
    PROVE  StepKeeps(t)
<1>1. At(t, "probe") /\ UNCHANGED disk /\ cp' = cp
  BY DEF Probe
<1>2. /\ op[t] # None /\ op[t] \in Ops /\ op[t].at = "probe"
      /\ OpTypeOK /\ DiskTypeOK /\ cp \in [Tasks -> Descriptors \union {None}]
      /\ CommandOf(t) /\ Found(t)
  BY <1>1, AtStep
<1>3. PICK paths \in Outcomes("probe"), names \in Outcomes("probe") :
        op' = [op EXCEPT ![t].at = "look",
                 ![t].trees = IF paths /\ ~op[t].had THEN registered ELSE Unknown,
                 ![t].named = IF names /\ ~op[t].had THEN branches ELSE Unknown]
  BY DEF Probe
<1>4. PICK answer : /\ answer = IF paths /\ ~op[t].had THEN registered ELSE Unknown
                    /\ answer \in (SUBSET Places) \union {Unknown}
  BY <1>2 DEF DiskTypeOK
<1>5. PICK heard : /\ heard = IF names /\ ~op[t].had THEN branches ELSE Unknown
                   /\ heard \in (SUBSET Tasks) \union {Unknown}
  BY <1>2 DEF DiskTypeOK
<1> DEFINE next == [op[t] EXCEPT !.at = "look", !.trees = answer, !.named = heard]
<1>6. op' = [op EXCEPT ![t] = next]
  BY <1>2, <1>3, <1>4, <1>5 DEF OpTypeOK
<1>7. next \in Ops
  BY <1>2, <1>4, <1>5 DEF Ops, Steps
<1>8. op'[t] = next /\ Alone(t)
  BY <1>2, <1>6 DEF OpTypeOK, Alone
<1>9. OpTypeOK'
  BY <1>2, <1>6, <1>7, <1>8, Names DEF OpTypeOK, Alone
<1>10. /\ Keeps(t) /\ op'[t].at = "look" /\ op'[t].tree = op[t].tree
       /\ op'[t].trees = answer /\ op'[t].named = heard
  BY <1>2, <1>7, <1>8 DEF Keeps, Ops
<1> HIDE DEF next
<1>11. \A p \in Places : Claims(t, p)' => Claims(t, p) \/ Takes(t, p)
  BY <1>1, <1>2, <1>10, ClaimsOfStep
<1>12. Effect(t) /\ Spares /\ DiskTypeOK'
  BY <1>1, <1>8, <1>11, QuietEffect
<1>13. TypeOK'
  BY <1>1, <1>2, <1>9, <1>12, TypeParts
<1>14. CommandOf(t)'
  BY <1>2, <1>10 DEF CommandOf, Keeps
<1>15. answer # Unknown => answer = registered
  BY <1>4
<1>16. heard # Unknown => heard = branches
  BY <1>5
<1>17. Found(t)'
  BY <1>1, <1>2, <1>10, <1>15, <1>16 DEF Found, Keeps, disk
<1> QED
  BY <1>12, <1>13, <1>14, <1>17 DEF StepKeeps

\* The command has a tree, for this branch.
LEMMA ProvisionedKeeps ==
    ASSUME WorktreeInvariant, NEW t \in Tasks, op[t] # None, op[t].cmd \in {"implement", "leg"},
           op[t].at \in {"look", "add"},
           NEW p \in Tasks \union Outside, NEW b \in {t, Quarantine}, Takes(t, p),
           Provisioned(t, p, b), UNCHANGED cp
    PROVE  /\ OpTypeOK' /\ Alone(t) /\ CommandOf(t)'
           /\ \A q \in Places : Claims(t, q)' => Claims(t, q) \/ Takes(t, q)
           /\ op[t].was \subseteq dirs' \intersect registered' /\ (op[t].wasBranch => t \in branches')
                => Found(t)'
<1>1. At(t, op[t].at) /\ b \in Heads
  BY DEF At, Heads
<1>2. OpTypeOK /\ CommandOf(t) /\ Found(t)
  BY <1>1, AtStep
<1>3. /\ OpTypeOK' /\ Alone(t) /\ Keeps(t)
      /\ op'[t].at = "save" /\ op'[t].tree = [place |-> p, branch |-> b]
      /\ op'[t].trees = op[t].trees /\ op'[t].named = op[t].named
  BY <1>1, <1>2, ProvisionedStep
<1>4. [place |-> p, branch |-> b] # None
  BY <1>1, ConstantsAssumption DEF Descriptors
<1>5. CommandOf(t)'
  BY <1>3, <1>4 DEF CommandOf, Keeps
<1>6. \A q \in Places : Claims(t, q)' => Claims(t, q) \/ Takes(t, q)
  BY <1>3, ClaimsOfStep
<1>7. op[t].was \subseteq dirs' \intersect registered' /\ (op[t].wasBranch => t \in branches')
        => Found(t)'
  BY <1>2, <1>3 DEF Found, Keeps
<1> QED
  BY <1>3, <1>5, <1>6, <1>7

LEMMA LookKeeps ==
    ASSUME Undisturbed, WorktreeInvariant, NEW t \in Tasks, Look(t)
    PROVE  StepKeeps(t)
<1>1. At(t, "look") /\ UNCHANGED <<head, branches, safe, cp>>
  BY DEF Look
<1>2. /\ op[t] # None /\ op[t] \in Ops /\ op[t].at = "look" /\ op[t].cmd \in {"implement", "leg"}
      /\ DiskTypeOK /\ cp \in [Tasks -> Descriptors \union {None}]
      /\ CommandOf(t) /\ Found(t) /\ Registry
  BY <1>1, AtStep DEF CommandOf
<1>3. Listings = {registered}
  BY DEF Listings, Undisturbed
<1>4. t \in dirs => t \in registered /\ head[t] \in {t, Quarantine}
  BY <1>2 DEF Registry
<1>5. CASE Goto(t, "add") /\ UNCHANGED <<dirs, registered, work>>
  <2>1. UNCHANGED disk
    BY <1>1, <1>5 DEF disk
  <2>2. /\ TypeOK' /\ Effect(t) /\ Spares
        /\ op'[t] = None \/ (Same(t) /\ op'[t].at = "add")
    BY <1>1, <1>2, <1>5, <2>1, MoveKeeps DEF Steps
  <2>3. CommandOf(t)'
    BY <1>2, <2>2 DEF CommandOf, Same, Keeps
  <2>4. Found(t)'
    BY <1>2, <2>1, <2>2, Ended, KnowsStill
  <2> QED
    BY <2>2, <2>3, <2>4 DEF StepKeeps
<1>6. CASE t \in dirs /\ Provisioned(t, t, head[t]) /\ UNCHANGED <<dirs, registered, work>>
  <2>1. UNCHANGED disk
    BY <1>1, <1>6 DEF disk
  <2>2. Takes(t, t)
    BY DEF Takes
  <2>3. head[t] \in {t, Quarantine}
    BY <1>4, <1>6
  <2>4. /\ OpTypeOK' /\ Alone(t) /\ CommandOf(t)'
        /\ \A q \in Places : Claims(t, q)' => Claims(t, q) \/ Takes(t, q)
        /\ op[t].was \subseteq dirs' \intersect registered' /\ (op[t].wasBranch => t \in branches')
             => Found(t)'
    BY <1>1, <1>2, <1>6, <2>2, <2>3, ProvisionedKeeps
  <2>5. Found(t)'
    BY <1>2, <2>1, <2>4 DEF Found, disk
  <2>6. Effect(t) /\ Spares /\ DiskTypeOK'
    BY <1>1, <2>1, <2>4, QuietEffect
  <2>7. TypeOK'
    BY <1>1, <1>2, <2>4, <2>6, TypeParts
  <2> QED
    BY <2>4, <2>5, <2>6, <2>7 DEF StepKeeps
<1> QED
  BY <1>3, <1>4, <1>5, <1>6 DEF Look

\* A tree is added to a registry that lists, of the trees there were, all that have
\* their directory.
LEMMA AddTreeKeeps ==
    ASSUME Undisturbed, WorktreeInvariant, NEW t \in Tasks, At(t, "add"),
           NEW reuse, NEW reg, reg \subseteq registered, registered \intersect dirs \subseteq reg,
           AddTree(t, reuse, reg), UNCHANGED <<safe, cp>>
    PROVE  StepKeeps(t)
<1>1. /\ op[t] # None /\ op[t].at = "add" /\ op[t].cmd \in {"implement", "leg"}
      /\ OpTypeOK /\ DiskTypeOK /\ cp \in [Tasks -> Descriptors \union {None}]
      /\ CommandOf(t) /\ Found(t) /\ Registry
  BY AtStep DEF CommandOf
<1>2. /\ dirs' = dirs \union {t} /\ registered' = reg \union {t}
      /\ head' = [head EXCEPT ![t] = t]
      /\ branches' = branches \union {t}
      /\ work' = work
      /\ Provisioned(t, t, t) \/ End(t)
  BY DEF AddTree
<1>3. t \in Places /\ t \in Heads /\ Takes(t, t)
  BY Names DEF Heads, Takes
<1>4. DiskTypeOK'
  <2>1. head' \in [Places \union {Root} -> Heads]
    BY <1>1, <1>2, <1>3 DEF DiskTypeOK
  <2> QED
    BY <1>1, <1>2, <1>3, <2>1 DEF DiskTypeOK
<1>5. /\ OpTypeOK' /\ Alone(t) /\ CommandOf(t)' /\ Found(t)'
      /\ \A q \in Places : Claims(t, q)' => Claims(t, q) \/ Takes(t, q)
  <2>1. CASE Provisioned(t, t, t)
    <3>1. /\ OpTypeOK' /\ Alone(t) /\ CommandOf(t)'
          /\ \A q \in Places : Claims(t, q)' => Claims(t, q) \/ Takes(t, q)
          /\ op[t].was \subseteq dirs' \intersect registered' /\ (op[t].wasBranch => t \in branches')
               => Found(t)'
      BY <1>1, <1>3, <2>1, ProvisionedKeeps
    <3> QED
      BY <1>1, <1>2, <3>1 DEF Found
  <2>2. CASE End(t)
    <3>1. OpTypeOK' /\ Alone(t) /\ op'[t] = None
      BY <1>1, <2>2, EndStep
    <3> QED
      BY <1>1, <3>1, Ended, ClaimsOfStep
  <2> QED
    BY <1>2, <2>1, <2>2
<1>6. \A p \in registered' : \/ p \in registered /\ head'[p] \in {head[p], Quarantine}
                             \/ p = t /\ head'[p] = t
  BY <1>1, <1>2, <1>3 DEF DiskTypeOK
<1>7. /\ dirs' \subseteq dirs \union registered' /\ dirs' \intersect registered \subseteq registered'
      /\ dirs \intersect registered \subseteq dirs' \intersect registered'
  BY <1>2
<1>8. Effect(t) /\ Spares
  BY <1>2, <1>5, <1>6, <1>7 DEF Effect, Spares
<1>9. TypeOK'
  BY <1>1, <1>4, <1>5, TypeParts
<1> QED
  BY <1>5, <1>8, <1>9 DEF StepKeeps

LEMMA AdoptKeeps ==
    ASSUME Undisturbed, WorktreeInvariant, NEW t \in Tasks, At(t, "add"), Adopt(t),
           UNCHANGED <<safe, cp>>
    PROVE  StepKeeps(t)
<1>1. /\ op[t] # None /\ op[t].at = "add" /\ op[t].cmd \in {"implement", "leg"}
      /\ DiskTypeOK /\ cp \in [Tasks -> Descriptors \union {None}]
      /\ CommandOf(t) /\ Found(t) /\ Registry
  BY AtStep DEF CommandOf
<1>2. PICK p \in Holders(t) \ {Root} : p \in dirs /\ Provisioned(t, p, t)
  BY DEF Adopt
<1>3. UNCHANGED disk
  BY DEF Adopt, disk
<1>4. p \in registered /\ head[p] = t /\ p \in Places
  BY <1>1, <1>2 DEF Holders, DiskTypeOK
<1>5. Takes(t, p) /\ p \in Tasks \union Outside
  BY <1>1, <1>4 DEF Takes, Registry, Undisturbed, Places, Inside
<1>6. /\ OpTypeOK' /\ Alone(t) /\ CommandOf(t)'
      /\ \A q \in Places : Claims(t, q)' => Claims(t, q) \/ Takes(t, q)
      /\ op[t].was \subseteq dirs' \intersect registered' /\ (op[t].wasBranch => t \in branches')
           => Found(t)'
  BY <1>1, <1>2, <1>5, ProvisionedKeeps
<1>7. Found(t)'
  BY <1>1, <1>3, <1>6 DEF Found, disk
<1>8. Effect(t) /\ Spares /\ DiskTypeOK'
  BY <1>3, <1>6, QuietEffect
<1> QED
  BY <1>1, <1>6, <1>7, <1>8, TypeParts DEF StepKeeps

\* The add failed, after pruning or not.
LEMMA AddFailedKeeps ==
    ASSUME Undisturbed, WorktreeInvariant, NEW t \in Tasks, At(t, "add"), End(t),
           registered' \subseteq registered, registered \intersect dirs \subseteq registered',
           UNCHANGED <<dirs, head, branches, work, safe, cp>>
    PROVE  StepKeeps(t)
<1>1. /\ op[t] # None /\ OpTypeOK /\ DiskTypeOK /\ cp \in [Tasks -> Descriptors \union {None}]
  BY AtStep
<1>2. OpTypeOK' /\ Alone(t) /\ op'[t] = None
  BY <1>1, EndStep
<1>3. \A q \in Places : Claims(t, q)' => Claims(t, q) \/ Takes(t, q)
  BY <1>1, <1>2, ClaimsOfStep
<1>4. Effect(t) /\ Spares /\ DiskTypeOK'
  BY <1>1, <1>2, <1>3 DEF Effect, Spares, DiskTypeOK
<1> QED
  BY <1>1, <1>2, <1>4, TypeParts, Ended DEF StepKeeps

LEMMA AddKeeps ==
    ASSUME Undisturbed, WorktreeInvariant, NEW t \in Tasks, Add(t)
    PROVE  StepKeeps(t)
<1>1. At(t, "add") /\ UNCHANGED <<safe, cp>>
  BY DEF Add
<1>2. PICK reuse \in {t \in branches} \union (IF "branches" \in MayFail THEN {FALSE} ELSE {}) :
         \/ AddTree(t, reuse, registered)
         \/ Adopt(t)
         \/ PruneAndRetry(t)
         \/ End(t) /\ UNCHANGED <<dirs, registered, head, branches, work>>
  BY DEF Add
<1>3. CASE AddTree(t, reuse, registered)
  BY <1>1, <1>3, AddTreeKeeps
<1>4. CASE Adopt(t)
  BY <1>1, <1>4, AdoptKeeps
<1>5. CASE PruneAndRetry(t)
  <2>1. PICK reg \in Pruned(registered, dirs) :
         \/ AddTree(t, TRUE, reg)
         \/ End(t) /\ registered' = reg /\ UNCHANGED <<dirs, head, branches, work>>
    BY <1>5 DEF PruneAndRetry
  <2>2. reg \subseteq registered /\ registered \intersect dirs \subseteq reg
    BY <2>1, PrunedTrees
  <2>3. CASE AddTree(t, TRUE, reg)
    BY <1>1, <2>2, <2>3, AddTreeKeeps
  <2>4. CASE End(t) /\ registered' = reg /\ UNCHANGED <<dirs, head, branches, work>>
    BY <1>1, <2>2, <2>4, AddFailedKeeps
  <2> QED
    BY <2>1, <2>3, <2>4
<1>6. CASE End(t) /\ UNCHANGED <<dirs, registered, head, branches, work>>
  BY <1>1, <1>6, AddFailedKeeps
<1> QED
  BY <1>2, <1>3, <1>4, <1>5, <1>6

-----------------------------------------------------------------------------
(* The save of the descriptor, the start, and the ways back.               *)

LEMMA SaveDescriptorKeeps ==
    ASSUME WorktreeInvariant, NEW t \in Tasks, SaveDescriptor(t)
    PROVE  StepKeeps(t)
<1>1. At(t, "save") /\ UNCHANGED disk
  BY DEF SaveDescriptor
<1>2. /\ op[t] # None /\ op[t] \in Ops /\ op[t].at = "save"
      /\ cp \in [Tasks -> Descriptors \union {None}]
      /\ CommandOf(t) /\ Found(t) /\ op[t].tree \in Descriptors /\ op[t].tree # None
  BY <1>1, AtStep DEF CommandOf
<1>3. \/ cp' = [cp EXCEPT ![t] = op[t].tree] /\ Goto(t, "start")
      \/ cp' = cp /\ Goto(t, "unsave")
  BY DEF SaveDescriptor
<1>4. PICK step \in {"start", "unsave"} : Goto(t, step) /\ (step = "unsave" => cp' = cp)
  BY <1>3
<1>5. /\ cp' \in [Tasks -> Descriptors \union {None}]
      /\ cp'[t] \in {cp[t], op[t].tree} /\ \A u \in Tasks \ {t} : cp'[u] = cp[u]
  BY <1>2, <1>3
<1>6. /\ TypeOK' /\ Effect(t) /\ Spares
      /\ op'[t] = None \/ (Same(t) /\ op'[t].at = step)
  BY <1>1, <1>2, <1>4, <1>5, MoveKeeps DEF Steps
<1>7. CommandOf(t)'
  BY <1>2, <1>6 DEF CommandOf, Same, Keeps
<1>8. Found(t)'
  BY <1>1, <1>2, <1>6, Ended, KnowsStill
<1> QED
  BY <1>6, <1>7, <1>8 DEF StepKeeps

LEMMA UndoProvisioningKeeps ==
    ASSUME WorktreeInvariant, NEW t \in Tasks, UndoProvisioning(t)
    PROVE  StepKeeps(t)
<1>1. At(t, "unsave") /\ End(t) /\ UNCHANGED <<head, branches, safe, cp>>
  BY DEF UndoProvisioning
<1>2. /\ op[t] # None /\ op[t].at = "unsave" /\ OpTypeOK
      /\ cp \in [Tasks -> Descriptors \union {None}]
      /\ op[t].tree # None /\ Claims(t, op[t].tree.place)
  BY <1>1, AtStep DEF CommandOf
<1>3. PICK done \in BOOLEAN : RemoveTree(op[t].tree.place, TRUE, TRUE, done)
  BY DEF UndoProvisioning
<1>4. MayDestroy(t, op[t].tree.place)
  BY <1>2 DEF MayDestroy
<1>5. OpTypeOK' /\ Alone(t) /\ op'[t] = None
  BY <1>1, <1>2, EndStep
<1>6. \A q \in Places : Claims(t, q)' => Claims(t, q) \/ Takes(t, q)
  BY <1>1, <1>2, <1>5, ClaimsOfStep
<1>7. Effect(t) /\ Spares /\ DiskTypeOK'
  BY <1>1, <1>2, <1>3, <1>4, <1>5, <1>6, RemoveEffect
<1> QED
  BY <1>1, <1>2, <1>5, <1>7, TypeParts, Ended DEF StepKeeps

LEMMA StartImplementationKeeps ==
    ASSUME WorktreeInvariant, NEW t \in Tasks, NEW r, StartImplementation(t, r)
    PROVE  StepKeeps(t)
<1>1. At(t, "start") /\ UNCHANGED disk /\ cp' = cp
  BY DEF StartImplementation
<1>2. /\ op[t] # None /\ op[t].at = "start" /\ op[t].cmd \in {"implement", "leg"}
      /\ cp \in [Tasks -> Descriptors \union {None}]
      /\ CommandOf(t) /\ Found(t)
  BY <1>1, AtStep DEF CommandOf
<1>3. PICK step \in {"teardown", "discard"} :
        /\ Goto(t, step) \/ End(t)
        /\ op[t].cmd = "leg" => step = "teardown"
  BY DEF StartImplementation
<1>4. /\ TypeOK' /\ Effect(t) /\ Spares
      /\ op'[t] = None \/ (Same(t) /\ op'[t].at = step)
  BY <1>1, <1>2, <1>3, MoveKeeps DEF Steps
<1>5. CommandOf(t)'
  BY <1>2, <1>3, <1>4 DEF CommandOf, Same, Keeps
<1>6. Found(t)'
  BY <1>1, <1>2, <1>4, Ended, KnowsStill
<1> QED
  BY <1>4, <1>5, <1>6 DEF StepKeeps

\* The removal of one of the task's trees, after which the command goes on or ends.
LEMMA RemovedKeeps ==
    ASSUME WorktreeInvariant, NEW t \in Tasks, NEW step, At(t, step),
           NEW p, NEW external, NEW tolerate, NEW done,
           RemoveTree(p, external, tolerate, done), UNCHANGED <<head, branches, safe, cp>>,
           p = t \/ Claims(t, p), MayDestroy(t, p),
           NEW next \in Steps, Goto(t, next) \/ End(t)
    PROVE  /\ TypeOK' /\ Effect(t) /\ Spares
           /\ op'[t] = None \/ (Same(t) /\ op'[t].at = next)
           /\ dirs \ {p} \subseteq dirs' /\ registered \intersect dirs' \subseteq registered'
<1>1. op[t] # None /\ OpTypeOK /\ DiskTypeOK /\ cp \in [Tasks -> Descriptors \union {None}]
  BY AtStep
<1>2. OpTypeOK' /\ Alone(t) /\ (op'[t] = None \/ (Same(t) /\ op'[t].at = next))
  BY <1>1, GotoStep, EndStep
<1>3. \A q \in Places : Claims(t, q)' => Claims(t, q) \/ Takes(t, q)
  BY <1>1, <1>2, ClaimsOfStep DEF Same
<1>4. Effect(t) /\ Spares /\ DiskTypeOK'
  BY <1>2, <1>3, RemoveEffect
<1>5. dirs \ {p} \subseteq dirs' /\ registered \intersect dirs' \subseteq registered'
  BY <1>1, RemoveKeeps
<1> QED
  BY <1>1, <1>2, <1>4, <1>5, TypeParts

LEMMA DiscardKeeps ==
    ASSUME WorktreeInvariant, NEW t \in Tasks, Discard(t)
    PROVE  StepKeeps(t)
<1> DEFINE p == op[t].tree.place
<1>1. At(t, "discard") /\ UNCHANGED <<head, branches, safe, cp>>
  BY DEF Discard
<1>2. /\ op[t] # None /\ op[t].at = "discard" /\ op[t].cmd = "implement"
      /\ cp \in [Tasks -> Descriptors \union {None}]
      /\ CommandOf(t) /\ Found(t) /\ op[t].tree # None /\ Claims(t, p)
  BY <1>1, AtStep DEF CommandOf
<1>3. CASE End(t) /\ UNCHANGED <<dirs, registered, work>>
  <2>1. UNCHANGED disk
    BY <1>1, <1>3 DEF disk
  <2>2. /\ TypeOK' /\ Effect(t) /\ Spares
        /\ op'[t] = None \/ (Same(t) /\ op'[t].at = "branch")
    BY <1>1, <1>2, <1>3, <2>1, MoveKeeps DEF Steps
  <2>3. CommandOf(t)' /\ Found(t)'
    BY <1>2, <1>3, EndStep, Ended, AtStep, <1>1
  <2> QED
    BY <2>2, <2>3 DEF StepKeeps
<1>4. ASSUME op[t].trees # Unknown, p \notin op[t].trees, p = t, NEW done \in BOOLEAN,
             RemoveTree(p, FALSE, TRUE, done), Goto(t, "branch") \/ End(t)
      PROVE  StepKeeps(t)
  <2>1. op[t].was \subseteq dirs \intersect registered /\ p \notin op[t].was
    BY <1>2, <1>4 DEF Found
  <2>2. MayDestroy(t, p)
    BY <1>2, <2>1 DEF MayDestroy
  <2> HIDE DEF p
  <2>3. /\ TypeOK' /\ Effect(t) /\ Spares
        /\ op'[t] = None \/ (Same(t) /\ op'[t].at = "branch")
        /\ dirs \ {p} \subseteq dirs' /\ registered \intersect dirs' \subseteq registered'
    BY <1>1, <1>2, <1>4, <2>2, RemovedKeeps DEF Steps
  <2>4. CommandOf(t)'
    BY <1>2, <2>3 DEF CommandOf, Same, Keeps
  <2>5. op[t].was \subseteq dirs' \intersect registered'
    BY <2>1, <2>3
  <2>6. Found(t)'
    BY <1>1, <1>2, <2>3, <2>5 DEF Found, Same, Keeps
  <2> QED
    BY <2>3, <2>4, <2>6 DEF StepKeeps
<1>5. \/ End(t) /\ UNCHANGED <<dirs, registered, work>>
      \/ /\ op[t].trees # Unknown /\ p \notin op[t].trees /\ p = t
         /\ \E done \in BOOLEAN : RemoveTree(p, FALSE, TRUE, done) /\ (Goto(t, "branch") \/ End(t))
  BY DEF Discard
<1> HIDE DEF p
<1> QED
  BY <1>3, <1>4, <1>5

LEMMA DiscardBranchKeeps ==
    ASSUME WorktreeInvariant, NEW t \in Tasks, DiscardBranch(t)
    PROVE  StepKeeps(t)
<1> DEFINE b == op[t].tree.branch
<1>1. At(t, "branch") /\ Goto(t, "restore") /\ UNCHANGED <<dirs, registered, head, work, safe, cp>>
  BY DEF DiscardBranch
<1>2. /\ op[t] # None /\ op[t].at = "branch" /\ op[t].cmd = "implement" /\ OpTypeOK /\ DiskTypeOK
      /\ cp \in [Tasks -> Descriptors \union {None}]
      /\ CommandOf(t) /\ Found(t) /\ b \in {t, Quarantine}
  BY <1>1, AtStep DEF CommandOf
<1>3. branches' = branches \/ (branches' = branches \ {b} /\ op[t].named # Unknown /\ b \notin op[t].named)
  BY DEF DiscardBranch
<1> HIDE DEF b
<1>4. /\ branches' \subseteq branches
      /\ \A u \in branches : u \in branches' \/ u = t
      /\ op[t].wasBranch => t \in branches'
  <2>1. \A u \in branches : u # t => u # Quarantine
    BY <1>2, Names DEF DiskTypeOK
  <2>2. op[t].wasBranch => t \in branches /\ (op[t].named # Unknown => t \in op[t].named)
    BY <1>2 DEF Found
  <2>3. t # Quarantine
    BY Names
  <2> QED
    BY <1>2, <1>3, <2>1, <2>2, <2>3
<1>5. OpTypeOK' /\ Alone(t) /\ Same(t) /\ op'[t].at = "restore"
  BY <1>1, <1>2, GotoStep DEF Steps
<1>6. \A q \in Places : Claims(t, q)' => Claims(t, q) \/ Takes(t, q)
  BY <1>1, <1>2, <1>5, ClaimsOfStep DEF Same
<1>7. Effect(t) /\ Spares /\ DiskTypeOK'
  BY <1>1, <1>2, <1>4, <1>5, <1>6 DEF Effect, Spares, DiskTypeOK
<1>8. CommandOf(t)'
  BY <1>2, <1>5 DEF CommandOf, Same, Keeps
<1>9. Found(t)'
  BY <1>1, <1>2, <1>4, <1>5 DEF Found, Same, Keeps
<1> QED
  BY <1>1, <1>2, <1>5, <1>7, <1>8, <1>9, TypeParts DEF StepKeeps

LEMMA RestoreKeeps ==
    ASSUME WorktreeInvariant, NEW t \in Tasks, RestoreCheckpoint(t) \/ ForgetDescriptor(t)
    PROVE  StepKeeps(t)
<1>1. PICK step \in {"restore", "forget"} : At(t, step)
  BY DEF RestoreCheckpoint, ForgetDescriptor
<1>2. /\ op[t] # None /\ op[t] \in Ops /\ OpTypeOK
      /\ cp \in [Tasks -> Descriptors \union {None}] /\ op[t].old \in Descriptors \union {None}
  BY <1>1, AtStep DEF Ops
<1>3. End(t) /\ UNCHANGED disk
  BY DEF RestoreCheckpoint, ForgetDescriptor
<1>4. cp' = cp \/ cp' = [cp EXCEPT ![t] = op[t].old] \/ cp' = [cp EXCEPT ![t] = None]
  BY DEF RestoreCheckpoint, ForgetDescriptor
<1>5. /\ cp' \in [Tasks -> Descriptors \union {None}]
      /\ cp'[t] \in {cp[t], None, op[t].old} /\ \A u \in Tasks \ {t} : cp'[u] = cp[u]
  BY <1>2, <1>4
<1>6. TypeOK' /\ Effect(t) /\ Spares
  BY <1>2, <1>3, <1>5, MoveKeeps DEF Steps
<1>7. op'[t] = None
  BY <1>2, <1>3, EndStep
<1> QED
  BY <1>6, <1>7, Ended DEF StepKeeps

LEMMA TeardownKeeps ==
    ASSUME WorktreeInvariant, NEW t \in Tasks, Teardown(t)
    PROVE  StepKeeps(t)
<1> DEFINE p == op[t].tree.place
<1>1. /\ At(t, "teardown") /\ UNCHANGED <<head, branches, safe, cp>>
      /\ Goto(t, "forget") \/ End(t)
  BY DEF Teardown
<1>2. op[t] # None /\ op[t].at = "teardown" /\ op[t].tree # None /\ Claims(t, p) /\ CommandOf(t)
  BY <1>1, AtStep DEF CommandOf
<1>3. MayDestroy(t, p)
  BY <1>2 DEF MayDestroy
<1>4. PICK done \in BOOLEAN : RemoveTree(p, TRUE, TRUE, done)
  BY DEF Teardown
<1> HIDE DEF p
<1>5. /\ TypeOK' /\ Effect(t) /\ Spares
      /\ op'[t] = None \/ (Same(t) /\ op'[t].at = "forget")
  BY <1>1, <1>2, <1>3, <1>4, RemovedKeeps DEF Steps
<1>6. CommandOf(t)' /\ Found(t)'
  BY <1>2, <1>5 DEF CommandOf, Found, Same, Keeps
<1> QED
  BY <1>5, <1>6 DEF StepKeeps

-----------------------------------------------------------------------------
(* commit, remove and abort.                                               *)

LEMMA CommitWorkKeeps ==
    ASSUME WorktreeInvariant, NEW t \in Tasks, CommitWork(t)
    PROVE  StepKeeps(t)
<1> DEFINE p == op[t].old.place
<1>1. At(t, "commit") /\ UNCHANGED <<dirs, registered, head, branches, cp>>
  BY DEF CommitWork
<1>2. /\ op[t] # None /\ op[t] \in Ops /\ op[t].at = "commit" /\ op[t].cmd = "commit"
      /\ OpTypeOK /\ DiskTypeOK /\ cp \in [Tasks -> Descriptors \union {None}]
      /\ CommandOf(t) /\ op[t].old \in Descriptors
  BY <1>1, AtStep DEF CommandOf
<1>3. p \in Places /\ work' = work \ {p} /\ safe' = safe \union {p}
  BY <1>2, Names DEF CommitWork, Descriptors
<1> HIDE DEF p
<1> DEFINE next == [op[t] EXCEPT !.at = "sweep", !.tree = op[t].old]
<1>4. op' = [op EXCEPT ![t] = next]
  BY <1>2 DEF CommitWork, OpTypeOK
<1>5. next \in Ops
  BY <1>2 DEF Ops, Steps
<1>6. op'[t] = next /\ Alone(t)
  BY <1>2, <1>4 DEF OpTypeOK, Alone
<1>7. OpTypeOK'
  BY <1>2, <1>4, <1>5, <1>6, Names DEF OpTypeOK, Alone
<1>8. /\ Keeps(t) /\ op'[t].at = "sweep" /\ op'[t].tree = op[t].old
  BY <1>2, <1>5, <1>6 DEF Keeps, Ops
<1> HIDE DEF next
<1>9. \A q \in Places : Claims(t, q)' => Claims(t, q) \/ Takes(t, q)
  BY <1>1, <1>2, <1>8, ClaimsOfStep
<1>10. Effect(t) /\ Spares /\ DiskTypeOK'
  BY <1>1, <1>2, <1>3, <1>6, <1>9 DEF Effect, Spares, DiskTypeOK
<1>11. CommandOf(t)' /\ Found(t)'
  BY <1>2, <1>8 DEF CommandOf, Found, Keeps
<1> QED
  BY <1>1, <1>2, <1>7, <1>10, <1>11, TypeParts DEF StepKeeps

LEMMA NothingToCommitKeeps ==
    ASSUME WorktreeInvariant, NEW t \in Tasks, NothingToCommit(t)
    PROVE  StepKeeps(t)
<1>1. At(t, "commit") /\ End(t) /\ UNCHANGED disk /\ cp' = cp
  BY DEF NothingToCommit
<1>2. op[t] # None /\ OpTypeOK /\ cp \in [Tasks -> Descriptors \union {None}]
  BY <1>1, AtStep
<1>3. TypeOK' /\ Effect(t) /\ Spares
  BY <1>1, <1>2, MoveKeeps DEF Steps
<1>4. op'[t] = None
  BY <1>1, <1>2, EndStep
<1> QED
  BY <1>3, <1>4, Ended DEF StepKeeps

\* What the sweep takes for orphans is not registered.
LEMMA SweepAfterCommitKeeps ==
    ASSUME Undisturbed, WorktreeInvariant, NEW t \in Tasks, SweepAfterCommit(t)
    PROVE  StepKeeps(t)
<1>1. At(t, "sweep") /\ Goto(t, "teardown") /\ UNCHANGED <<head, branches, safe, cp>>
  BY DEF SweepAfterCommit
<1>2. /\ op[t] # None /\ op[t].at = "sweep" /\ op[t].cmd = "commit" /\ OpTypeOK /\ DiskTypeOK
      /\ cp \in [Tasks -> Descriptors \union {None}] /\ CommandOf(t)
  BY <1>1, AtStep DEF CommandOf
<1>3. PICK orphans : orphans \intersect registered = {} /\ SweepTo(orphans, registered)
  BY DEF SweepAfterCommit, Listings, Undisturbed
<1>4. /\ dirs' = dirs \ orphans
      /\ registered' \subseteq registered /\ registered \intersect dirs' \subseteq registered'
      /\ work' = work \ orphans
  BY <1>2, <1>3, SweepKeeps
<1>5. OpTypeOK' /\ Alone(t) /\ Same(t) /\ op'[t].at = "teardown"
  BY <1>1, <1>2, GotoStep DEF Steps
<1>6. \A q \in Places : Claims(t, q)' => Claims(t, q) \/ Takes(t, q)
  BY <1>1, <1>2, <1>5, ClaimsOfStep DEF Same
<1>7. dirs \intersect registered \subseteq dirs' \intersect registered'
  BY <1>3, <1>4
<1>8. Effect(t) /\ Spares /\ DiskTypeOK'
  BY <1>1, <1>2, <1>3, <1>4, <1>5, <1>6, <1>7 DEF Effect, Spares, DiskTypeOK
<1>9. CommandOf(t)' /\ Found(t)'
  BY <1>2, <1>5 DEF CommandOf, Found, Same, Keeps
<1> QED
  BY <1>1, <1>2, <1>5, <1>8, <1>9, TypeParts DEF StepKeeps

LEMMA RemoveByNameKeeps ==
    ASSUME WorktreeInvariant, NEW t \in Tasks, RemoveByName(t)
    PROVE  StepKeeps(t)
<1>1. At(t, "remove") /\ UNCHANGED <<head, branches, safe, cp>>
  BY DEF RemoveByName
<1>2. op[t] # None /\ op[t].at = "remove" /\ op[t].cmd = "remove" /\ CommandOf(t)
  BY <1>1, AtStep DEF CommandOf
<1>3. PICK done \in BOOLEAN : RemoveTree(t, FALSE, FALSE, done) /\ (Goto(t, "clear") \/ End(t))
  BY DEF RemoveByName
<1>4. MayDestroy(t, t)
  BY <1>2 DEF MayDestroy
<1>5. /\ TypeOK' /\ Effect(t) /\ Spares
      /\ op'[t] = None \/ (Same(t) /\ op'[t].at = "clear")
  BY <1>1, <1>3, <1>4, RemovedKeeps DEF Steps
<1>6. CommandOf(t)' /\ Found(t)'
  BY <1>2, <1>5 DEF CommandOf, Found, Same, Keeps
<1> QED
  BY <1>5, <1>6 DEF StepKeeps

LEMMA ClearDescriptorKeeps ==
    ASSUME WorktreeInvariant, NEW t \in Tasks, ClearDescriptor(t)
    PROVE  StepKeeps(t)
<1>1. At(t, "clear") /\ End(t) /\ UNCHANGED disk
  BY DEF ClearDescriptor
<1>2. op[t] # None /\ OpTypeOK /\ cp \in [Tasks -> Descriptors \union {None}]
  BY <1>1, AtStep
<1>3. PICK saved \in [Tasks -> Outcomes("restore")] :
        cp' = [u \in Tasks |-> IF saved[u] /\ cp[u] # None /\ cp[u].place = t THEN None ELSE cp[u]]
  BY DEF ClearDescriptor
<1>4. \A u \in Tasks : cp'[u] \in {cp[u], None}
  BY <1>3
<1>5. cp' \in [Tasks -> Descriptors \union {None}]
  BY <1>2, <1>3
<1>6. TypeOK' /\ Effect(t) /\ Spares
  BY <1>1, <1>2, <1>4, <1>5, MoveKeeps DEF Steps
<1>7. op'[t] = None
  BY <1>1, <1>2, EndStep
<1> QED
  BY <1>6, <1>7, Ended DEF StepKeeps

LEMMA AbortKeeps ==
    ASSUME WorktreeInvariant, NEW t \in Tasks, NEW toBranch \in BOOLEAN, Abort(t, toBranch)
    PROVE  StepKeeps(t)
<1> DEFINE p == cp[t].place
<1>1. UNCHANGED <<dirs, registered, branches, cp, op>>
  BY DEF Abort
<1>2. cp[t] \in Descriptors /\ DiskTypeOK /\ OpTypeOK /\ CommandOf(t) /\ Found(t)
  BY DEF Abort, WorktreeInvariant, TypeOK, TaskInvariant, DiskTypeOK, OpTypeOK
<1>3. p \in Places
  BY <1>2, Names DEF Descriptors
<1>4. /\ head' = head \/ head' = [head EXCEPT ![p] = Quarantine]
      /\ \/ work' = work /\ safe' = safe
         \/ work' = work \ {p} /\ safe' = safe \union {p}
  BY DEF Abort
<1> HIDE DEF p
<1>5. /\ head' \in [Places \union {Root} -> Heads]
      /\ \A q \in Places : head'[q] \in {head[q], Quarantine}
  BY <1>2, <1>3, <1>4 DEF DiskTypeOK, Heads
<1>6. Effect(t) /\ Spares
  <2>1. \A q \in registered' : q \in registered /\ head'[q] \in {head[q], Quarantine}
    BY <1>1, <1>2, <1>5 DEF DiskTypeOK
  <2>2. \A q \in Places : Claims(t, q)' => Claims(t, q)
    BY <1>1 DEF Claims
  <2> QED
    BY <1>1, <1>4, <2>1, <2>2 DEF Effect, Spares, Alone
<1>7. TypeOK'
  BY <1>1, <1>2, <1>3, <1>4, <1>5 DEF DiskTypeOK, TypeOK, WorktreeInvariant
<1>8. CommandOf(t)' /\ Found(t)'
  BY <1>1, <1>2 DEF CommandOf, Found
<1> QED
  BY <1>6, <1>7, <1>8 DEF StepKeeps

-----------------------------------------------------------------------------
(* The steps of nobody's command, and the theorems.                        *)

\* The sweeper and the edits leave every registered tree that has its directory.
LEMMA SharedKeeps ==
    ASSUME Undisturbed, WorktreeInvariant, StartClean \/ Clean \/ \E p \in Places : Edit(p)
    PROVE  WorktreeInvariant' /\ Spares
<1>1. /\ TypeOK /\ Registry /\ Exclusive /\ Sweeping
      /\ \A t \in Tasks : OwnTrees(t) /\ CommandOf(t) /\ Found(t)
      /\ OpTypeOK /\ DiskTypeOK
  BY DEF WorktreeInvariant, TaskInvariant, TypeOK, OpTypeOK, DiskTypeOK
<1>2. UNCHANGED <<head, branches, cp>>
  BY DEF StartClean, Clean, Edit, disk
<1>3. /\ OpTypeOK' /\ Sweeping' /\ \A t \in Tasks : op'[t] = op[t]
      /\ DiskTypeOK' /\ dirs' \subseteq dirs /\ registered' \subseteq registered
      /\ registered \intersect dirs' \subseteq registered'
      /\ dirs \intersect registered \subseteq dirs'
      /\ Spares
  <2>1. CASE StartClean
    <3>1. PICK new : /\ new = [seen |-> (dirs \intersect Inside) \ registered]
                     /\ op' = [op EXCEPT ![Sweeper] = new]
      BY <2>1 DEF StartClean, Listings, Undisturbed
    <3>2. new \in Sweeps /\ new.seen \subseteq Leftovers
      BY <1>1, <3>1 DEF Registry, Inside, Sweeps
    <3>3. OpTypeOK' /\ Sweeping' /\ \A t \in Tasks : op'[t] = op[t]
      BY <1>1, <3>1, <3>2, Names DEF OpTypeOK, Sweeping
    <3>4. UNCHANGED disk
      BY <2>1 DEF StartClean
    <3> QED
      BY <1>1, <3>3, <3>4 DEF disk, DiskTypeOK, Spares
  <2>2. CASE Clean
    <3>1. op[Sweeper].seen \subseteq Leftovers /\ SweepTo(op[Sweeper].seen, {}) /\ safe' = safe
      BY <1>1, <2>2 DEF Clean, Sweeping
    <3>2. /\ dirs' = dirs \ op[Sweeper].seen
          /\ registered' \subseteq registered /\ registered \intersect dirs' \subseteq registered'
          /\ work' = work \ op[Sweeper].seen
      BY <1>1, <3>1, SweepKeeps
    <3>3. op' = [op EXCEPT ![Sweeper] = None]
      BY <2>2 DEF Clean
    <3>4. OpTypeOK' /\ Sweeping' /\ \A t \in Tasks : op'[t] = op[t]
      BY <1>1, <3>3, Names DEF OpTypeOK, Sweeping
    <3>5. op[Sweeper].seen \intersect registered = {}
      BY <1>1, <3>1 DEF Registry
    <3> QED
      BY <1>1, <1>2, <3>1, <3>2, <3>4, <3>5 DEF DiskTypeOK, Spares
  <2>3. CASE \E p \in Places : Edit(p)
    <3>1. PICK p \in Places : Edit(p)
      BY <2>3
    <3> QED
      BY <1>1, <3>1 DEF Edit, OpTypeOK, DiskTypeOK, Sweeping, Spares
  <2> QED
    BY <2>1, <2>2, <2>3
<1>4. TypeOK'
  BY <1>1, <1>2, <1>3, TypeParts DEF TypeOK
<1>5. Registry'
  BY <1>1, <1>2, <1>3 DEF Registry
<1>6. \A t \in Tasks, p \in Places : Claims(t, p)' => Claims(t, p)
  BY <1>2, <1>3 DEF Claims
<1>7. Exclusive'
  BY <1>1, <1>6 DEF Exclusive
<1>8. ASSUME NEW t \in Tasks PROVE TaskInvariant(t)'
  <2>1. OwnTrees(t)'
    BY <1>1, <1>2, <1>3, <1>6 DEF OwnTrees
  <2>2. CommandOf(t)'
    BY <1>1, <1>3 DEF CommandOf
  <2>3. dirs \intersect registered \subseteq dirs' \intersect registered'
    BY <1>3
  <2>4. Found(t)'
    BY <1>1, <1>2, <1>3, <2>3 DEF Found
  <2> QED
    BY <2>1, <2>2, <2>4 DEF TaskInvariant
<1> QED
  BY <1>3, <1>4, <1>5, <1>7, <1>8 DEF WorktreeInvariant

LEMMA TaskStepKeeps ==
    ASSUME Undisturbed, WorktreeInvariant, NEW t \in Tasks, StepKeeps(t)
    PROVE  WorktreeInvariant' /\ Spares
<1>1. TypeOK' /\ Effect(t) /\ CommandOf(t)' /\ Found(t)' /\ Spares
  BY DEF StepKeeps
<1>2. /\ Registry' /\ Exclusive' /\ Sweeping' /\ OwnTrees(t)'
      /\ \A u \in Tasks \ {t} : TaskInvariant(u)'
  BY <1>1, EffectKeeps
<1>3. \A u \in Tasks : TaskInvariant(u)'
  BY <1>1, <1>2 DEF TaskInvariant
<1> QED
  BY <1>1, <1>2, <1>3 DEF WorktreeInvariant

LEMMA NextKeeps ==
    ASSUME Undisturbed, WorktreeInvariant, Next
    PROVE  WorktreeInvariant' /\ Spares
<1>1. CASE StartClean \/ Clean \/ \E p \in Places : Edit(p)
  BY <1>1, SharedKeeps
<1>2. ASSUME NEW t \in Tasks,
             \/ StartImplement(t) \/ StartLeg(t) \/ StartCommit(t) \/ StartRemove(t)
             \/ StartPruneStale(t)
      PROVE  StepKeeps(t)
  BY <1>2, BeginKeeps DEF StartImplement, StartLeg, StartCommit, StartRemove, StartPruneStale, Steps
<1>3. ASSUME NEW t \in Tasks,
             \/ Probe(t) \/ Look(t) \/ Add(t) \/ SaveDescriptor(t) \/ UndoProvisioning(t)
             \/ \E r \in {"started", "refused", "failed"} : StartImplementation(t, r)
      PROVE  StepKeeps(t)
  BY <1>3, ProbeKeeps, LookKeeps, AddKeeps, SaveDescriptorKeeps, UndoProvisioningKeeps,
     StartImplementationKeeps
<1>4. ASSUME NEW t \in Tasks,
             \/ Discard(t) \/ DiscardBranch(t) \/ RestoreCheckpoint(t) \/ Teardown(t)
             \/ ForgetDescriptor(t)
      PROVE  StepKeeps(t)
  BY <1>4, DiscardKeeps, DiscardBranchKeeps, RestoreKeeps, TeardownKeeps
<1>5. ASSUME NEW t \in Tasks,
             \/ CommitWork(t) \/ NothingToCommit(t) \/ SweepAfterCommit(t) \/ RemoveByName(t)
             \/ ClearDescriptor(t) \/ \E b \in BOOLEAN : Abort(t, b)
      PROVE  StepKeeps(t)
  BY <1>5, CommitWorkKeeps, NothingToCommitKeeps, SweepAfterCommitKeeps, RemoveByNameKeeps,
     ClearDescriptorKeeps, AbortKeeps
<1>6. ASSUME NEW t \in Tasks, StepKeeps(t) PROVE WorktreeInvariant' /\ Spares
  BY <1>6, TaskStepKeeps
<1> QED
  BY <1>1, <1>2, <1>3, <1>4, <1>5, <1>6 DEF Next

LEMMA StutterKeeps ==
    ASSUME WorktreeInvariant, UNCHANGED vars
    PROVE  WorktreeInvariant'
  BY DEF WorktreeInvariant, vars, TypeOK, Registry, Exclusive, Claims, Sweeping, TaskInvariant,
         OwnTrees, CommandOf, Found

LEMMA InitHolds ==
    ASSUME Undisturbed, Init
    PROVE  WorktreeInvariant
<1>1. \A a \in Tasks \union {Sweeper} : op[a] = None
  BY DEF Init
<1>2. /\ \A t \in Tasks : cp[t] \in {None, [place |-> t, branch |-> t]}
      /\ \A t \in Tasks : cp[t] # None => t \in registered
      /\ cp \in [Tasks -> Descriptors \union {None}]
  <2>1. \A t \in Tasks : [place |-> t, branch |-> t] \in Descriptors
    BY DEF Descriptors, Heads
  <2>2. CASE cp \in [Tasks -> {None}]
    BY <2>2
  <2>3. CASE cp = [t \in Tasks |-> IF t \in registered THEN [place |-> t, branch |-> t] ELSE None]
    BY <2>1, <2>3
  <2> QED
    BY <2>2, <2>3 DEF Init
<1>3. \A t \in Tasks \intersect registered : head[t] = t
  BY Names DEF Init
<1>4. DiskTypeOK
  <2>1. work \subseteq dirs
    BY DEF Init
  <2> QED
    BY <2>1 DEF Init, DiskTypeOK
<1>5. OpTypeOK
  BY <1>1 DEF Init, OpTypeOK
<1>6. Registry
  BY <1>3 DEF Init, Registry, Undisturbed
<1>7. \A t \in Tasks, p \in Places : Claims(t, p) => p = t
  BY <1>1, <1>2 DEF Claims
<1>8. \A t \in Tasks : TaskInvariant(t)
  BY <1>1, <1>3, <1>7 DEF TaskInvariant, OwnTrees, CommandOf, Found
<1>9. Exclusive
  BY <1>7 DEF Exclusive
<1>10. Sweeping
  BY <1>1 DEF Sweeping
<1>11. TypeOK
  BY <1>2, <1>4, <1>5 DEF TypeOK, DiskTypeOK, OpTypeOK
<1> QED
  BY <1>6, <1>8, <1>9, <1>10, <1>11 DEF WorktreeInvariant

LEMMA InvariantHolds == Undisturbed /\ Spec => []WorktreeInvariant
<1>1. Undisturbed /\ Init => WorktreeInvariant
  BY InitHolds
<1>2. Undisturbed /\ WorktreeInvariant /\ [Next]_vars => WorktreeInvariant'
  BY NextKeeps, StutterKeeps
<1>3. Undisturbed => []Undisturbed
  <2>1. Undisturbed => Undisturbed'
    BY DEF Undisturbed
  <2> QED
    OBVIOUS
<1> QED
  BY <1>1, <1>2, <1>3, PTL DEF Spec

\* The worktrees' state is of its type, in an undisturbed repository.
THEOREM WorktreeTypeCorrect == Undisturbed /\ Spec => []TypeOK
<1>1. WorktreeInvariant => TypeOK
  BY DEF WorktreeInvariant
<1> QED
  BY <1>1, InvariantHolds, PTL

\* A refused `implement` (executeImplementMode with discardProvisionedWorktree) gives
\* back every tree and the branch of the task that were there when it began.
THEOREM RefusalIsClean == Undisturbed /\ Spec => []RefusedRunLeavesWhatItFound
<1>1. WorktreeInvariant => RefusedRunLeavesWhatItFound
  BY DEF WorktreeInvariant, TaskInvariant, Found, RefusedRunLeavesWhatItFound, At
<1> QED
  BY <1>1, InvariantHolds, PTL

\* No checkpoint names another task's tree: createWorktree takes the task's own
\* directory or the tree that has its branch.
THEOREM BoundToItsOwnTree == Undisturbed /\ Spec => []BoundTreeCarriesTheTask
<1>1. WorktreeInvariant => BoundTreeCarriesTheTask
  <2> SUFFICES ASSUME WorktreeInvariant, NEW t \in Tasks, cp[t] # None, cp[t].place \in registered
               PROVE  head[cp[t].place] \in {t, Quarantine}
    BY DEF BoundTreeCarriesTheTask
  <2>1. OwnTrees(t) /\ cp[t].place \in Places
    BY DEF WorktreeInvariant, TaskInvariant, TypeOK
  <2>2. Claims(t, cp[t].place)
    BY DEF Claims
  <2> QED
    BY <2>1, <2>2 DEF OwnTrees
<1> QED
  BY <1>1, InvariantHolds, PTL

\* Uncommitted work in a registered tree goes to a stash, a quarantine branch or a
\* commit, or with a tree its own task's command may destroy; the removals, the sweep
\* after a commit and `worktree clean` take none else.
THEOREM WorkIsKept == Undisturbed /\ Spec => UncommittedWorkSurvives
<1>1. Undisturbed /\ WorktreeInvariant /\ [Next]_vars =>
        [\A p \in (work \ work') \intersect registered :
            p \in safe' \/ \E t \in Tasks : MayDestroy(t, p)]_vars
  BY NextKeeps DEF Spares
<1>2. Undisturbed => []Undisturbed
  <2>1. Undisturbed => Undisturbed'
    BY DEF Undisturbed
  <2> QED
    OBVIOUS
<1> QED
  BY <1>1, <1>2, InvariantHolds, PTL DEF Spec, UncommittedWorkSurvives

-----------------------------------------------------------------------------
(* The checkpoint files.                                                   *)

\* What CheckpointStore assumes of its constants.
LEMMA StoreBounds ==
    /\ Issues \subseteq Nat \ {Store!Root} /\ MaxClock \in Nat /\ MaxSaves \in Nat
    /\ Absent # Torn /\ Absent \notin Store!Snapshots /\ Torn \notin Store!Snapshots
BY StoreConstants DEF Store!StoreAssumption, Store!NoFileAssumption

\* A command, whatever its target.
IsCommand(c) ==
    c \in [pc : {"idle", "resolveAgain", "load", "truncate", "write"},
           kind : {c.kind}, named : {c.named}, target : {c.target},
           snapshot : {c.snapshot}, overtaken : BOOLEAN]

\* A command between its load and the end of its save.
Saving(c) == c.pc \in {"truncate", "write"}

StoreTypes ==
    /\ content \in [Store!Files -> Store!Snapshots \union {Absent, Torn}]
    /\ writes \in [Store!Files -> Nat]
    /\ DOMAIN raced = Store!Files
    /\ clock \in Nat
    /\ DOMAIN proc = Procs
    /\ proc = [p \in Procs |-> proc[p]]
    /\ \A p \in Procs : IsCommand(proc[p])

\* What a command is about to save is a snapshot of the task of its file, and,
\* while nobody overtook it, one update ahead of the file.
Carries(c) ==
    c.target \in Store!Files /\ Saving(c) =>
        /\ c.snapshot \in Store!Snapshots
        /\ c.target \in Issues => c.snapshot.issue = c.target
        /\ ~c.overtaken /\ ~raced[c.target] => c.snapshot.version = writes[c.target] + 1

\* A file that is not there has no history.
AbsentIsNew == \A f \in Store!Files : content[f] = Absent => writes[f] = 0 /\ ~raced[f]

StoreInvariant ==
    /\ StoreTypes
    /\ Store!TaskFileHoldsItsIssue
    /\ Store!NothingLostWithoutRace
    /\ AbsentIsNew
    /\ \A p \in Procs : Carries(proc[p])

-----------------------------------------------------------------------------
(* What a command saves.                                                   *)

\* A result is a snapshot; it is about the file's task, and one update ahead.
LEMMA ResultsCarryOn ==
    ASSUME StoreInvariant, NEW f \in Store!Files, NEW kind, NEW now \in Nat,
           NEW s \in Store!Results(kind, content[f], f, now)
    PROVE  /\ s \in Store!Snapshots
           /\ f \in Issues => s.issue = f
           /\ ~raced[f] => s.version = writes[f] + 1
<1>1. content[f] \in Store!Snapshots \union {Absent, Torn} /\ content[f] # Torn
  BY DEF StoreInvariant, StoreTypes, Store!Results
<1>2. CASE content[f] = Absent
  <2>1. s \in Store!Created(f, now)
    BY <1>2 DEF Store!Results
  <2>2. PICK i \in IF f = Store!Root THEN Store!Files ELSE {f} :
          s = [issue |-> i, done |-> FALSE, paused |-> FALSE, at |-> now, version |-> 1]
    BY <2>1 DEF Store!Created
  <2>3. f \in Issues => f # Store!Root
    BY StoreBounds DEF StoreInvariant
  <2>4. writes[f] = 0
    BY <1>2 DEF StoreInvariant, AbsentIsNew
  <2> QED
    BY <2>2, <2>3, <2>4 DEF Store!Snapshots
<1>3. CASE content[f] \in Store!Snapshots
  <2> DEFINE found == content[f]
  <2>1. found # Absent /\ found # Torn
    BY <1>3, StoreBounds DEF StoreInvariant
  <2>2. PICK d \in BOOLEAN, k \in BOOLEAN : s = Store!Changed(found, d, k, now)
    <3>1. found.done \in BOOLEAN /\ found.paused \in BOOLEAN
      BY <1>3 DEF Store!Snapshots
    <3> HIDE DEF found
    <3>2. \/ s \in Store!Updated(found, now)
          \/ s = Store!Changed(found, found.done, TRUE, now)
          \/ s = Store!Changed(found, found.done, FALSE, now)
      BY <2>1 DEF Store!Results, found
    <3>3. s \in Store!Updated(found, now) =>
            \E d \in BOOLEAN, k \in {found.paused, FALSE} : s = Store!Changed(found, d, k, now)
      BY DEF Store!Updated
    <3> QED
      BY <3>1, <3>2, <3>3
  <2>3. /\ s \in Store!Snapshots
        /\ s.issue = found.issue
        /\ s.version = found.version + 1
    <3>1. found.version + 1 \in Nat
      BY <1>3 DEF Store!Snapshots
    <3> HIDE DEF found
    <3> QED
      BY <1>3, <2>2, <3>1 DEF Store!Changed, Store!Snapshots, found
  <2>4. f \in Issues => found.issue = f
    BY <2>1 DEF StoreInvariant, Store!TaskFileHoldsItsIssue, Store!Readable
  <2>5. ~raced[f] => found.version = writes[f]
    BY <2>1 DEF StoreInvariant, Store!NothingLostWithoutRace, Store!Readable
  <2> QED
    BY <2>3, <2>4, <2>5
<1> QED
  BY <1>1, <1>2, <1>3

-----------------------------------------------------------------------------
(* One step of each action.                                                *)

\* Commands that touch no file, and carry what they carried or nothing.
LEMMA QuietKeeps ==
    ASSUME StoreInvariant, UNCHANGED <<content, writes, raced>>, clock' \in Nat,
           NEW p \in Procs, NEW c, IsCommand(c), Carries(c),
           proc' = [proc EXCEPT ![p] = c]
    PROVE  StoreInvariant'
<1>1. /\ DOMAIN proc' = Procs
      /\ proc' = [q \in Procs |-> proc'[q]]
      /\ \A q \in Procs : proc'[q] = IF q = p THEN c ELSE proc[q]
  BY DEF StoreInvariant, StoreTypes
<1>2. \A q \in Procs : IsCommand(proc'[q]) /\ Carries(proc'[q])
  BY <1>1 DEF StoreInvariant, StoreTypes
<1>3. \A q \in Procs : Carries(proc[q])'
  BY <1>2 DEF Carries
<1>4. \A q \in Procs : IsCommand(proc[q])'
  BY <1>2 DEF IsCommand
<1> QED
  BY <1>1, <1>3, <1>4 DEF StoreInvariant, StoreTypes, Store!TaskFileHoldsItsIssue, Store!Readable,
     Store!NothingLostWithoutRace, AbsentIsNew

\* The resolution and its repetition.
LEMMA ResolveKeeps ==
    ASSUME StoreInvariant, NEW p \in Procs,
           \/ \E kind \in {"update", "halt", "resume"}, named \in Store!Files : Store!Resolve(p, kind, named)
           \/ Store!ResolveAgain(p)
           \/ Store!Crash(p)
    PROVE  StoreInvariant'
<1>1. IsCommand(Store!IdleCommand) /\ Carries(Store!IdleCommand)
  BY DEF IsCommand, Carries, Store!IdleCommand, Saving
<1>2. clock' \in Nat /\ UNCHANGED <<content, writes, raced>>
  BY DEF StoreInvariant, StoreTypes, Store!Resolve, Store!ResolveAgain, Store!Crash
<1>3. CASE \E kind \in {"update", "halt", "resume"}, named \in Store!Files : Store!Resolve(p, kind, named)
  <2>1. PICK kind \in {"update", "halt", "resume"}, named \in Store!Files : Store!Resolve(p, kind, named)
    BY <1>3
  <2> DEFINE pc == IF kind = "resume" THEN "resolveAgain" ELSE "load"
             n == IF kind = "resume" THEN named ELSE Store!Root
  <2>2. PICK f \in Store!Scope(named) :
           proc' = [proc EXCEPT ![p] = [Store!IdleCommand EXCEPT !.pc = pc, !.kind = kind, !.target = f,
                                                           !.named = n]]
    BY <2>1 DEF Store!Resolve
  <2> DEFINE c == [Store!IdleCommand EXCEPT !.pc = pc, !.kind = kind, !.target = f, !.named = n]
  <2>3. IsCommand(c) /\ Carries(c)
    BY <2>2 DEF IsCommand, Carries, Store!IdleCommand, Saving
  <2>4. proc' = [proc EXCEPT ![p] = c]
    BY <2>2
  <2> HIDE DEF c
  <2> QED
    BY <1>2, <2>3, <2>4, QuietKeeps
<1>4. CASE Store!ResolveAgain(p)
  <2>1. CASE Store!Finish(p)
    BY <1>1, <1>2, <2>1, QuietKeeps DEF Store!Finish
  <2>2. CASE \E f : proc' = [proc EXCEPT ![p].pc = "load", ![p].named = Store!Root, ![p].target = f]
    <3>1. PICK f : proc' = [proc EXCEPT ![p].pc = "load", ![p].named = Store!Root, ![p].target = f]
      BY <2>2
    <3> DEFINE c == [proc[p] EXCEPT !.pc = "load", !.named = Store!Root, !.target = f]
    <3>2. IsCommand(proc[p]) /\ p \in DOMAIN proc
      BY DEF StoreInvariant, StoreTypes
    <3>3. proc' = [proc EXCEPT ![p] = c]
      BY <3>1, <3>2 DEF StoreInvariant, StoreTypes
    <3>4. IsCommand(c) /\ Carries(c)
      BY <3>2 DEF IsCommand, Carries, Saving
    <3> HIDE DEF c
    <3> QED
      BY <1>2, <3>3, <3>4, QuietKeeps
  <2> QED
    BY <1>4, <2>1, <2>2 DEF Store!ResolveAgain
<1>5. CASE Store!Crash(p)
  BY <1>1, <1>2, <1>5, QuietKeeps DEF Store!Crash, Store!Finish
<1> QED
  BY <1>3, <1>4, <1>5

\* The load, and what the command computes from it.
LEMMA LoadKeeps ==
    ASSUME StoreInvariant, NEW p \in Procs, Store!Load(p)
    PROVE  StoreInvariant'
<1> DEFINE f == proc[p].target
<1>1. IsCommand(Store!IdleCommand) /\ Carries(Store!IdleCommand)
  BY DEF IsCommand, Carries, Store!IdleCommand, Saving
<1>2. CASE Store!Finish(p) /\ UNCHANGED clock
  BY <1>1, <1>2, QuietKeeps DEF Store!Load, Store!Finish, StoreInvariant, StoreTypes
<1>3. CASE \E now \in {clock, clock + 1} :
              /\ clock' = now
              /\ \E s \in Store!Results(proc[p].kind, content[f], f, now) :
                   proc' = [proc EXCEPT ![p] =
                              [Store!IdleCommand EXCEPT !.pc = "truncate", !.target = f, !.snapshot = s]]
  <2>1. PICK now \in {clock, clock + 1} :
              /\ clock' = now
              /\ \E s \in Store!Results(proc[p].kind, content[f], f, now) :
                   proc' = [proc EXCEPT ![p] =
                              [Store!IdleCommand EXCEPT !.pc = "truncate", !.target = f, !.snapshot = s]]
    BY <1>3
  <2>2. PICK s \in Store!Results(proc[p].kind, content[f], f, now) :
                   proc' = [proc EXCEPT ![p] =
                              [Store!IdleCommand EXCEPT !.pc = "truncate", !.target = f, !.snapshot = s]]
    BY <2>1
  <2>3. now \in Nat
    BY <2>1 DEF StoreInvariant, StoreTypes
  <2>4. f \in Store!Files => /\ s \in Store!Snapshots
                             /\ f \in Issues => s.issue = f
                             /\ ~raced[f] => s.version = writes[f] + 1
    BY <2>2, <2>3, ResultsCarryOn
  <2> DEFINE c == [Store!IdleCommand EXCEPT !.pc = "truncate", !.target = f, !.snapshot = s]
  <2>5. IsCommand(c)
    BY DEF IsCommand, Store!IdleCommand
  <2>6. c.target = f /\ c.snapshot = s
    BY DEF Store!IdleCommand
  <2>7. Carries(c)
    BY <2>4, <2>6 DEF Carries
  <2> HIDE DEF c
  <2>8. proc' = [proc EXCEPT ![p] = c]
    BY <2>2 DEF c
  <2> QED
    BY <2>1, <2>3, <2>5, <2>7, <2>8, QuietKeeps DEF Store!Load
<1> QED
  BY <1>2, <1>3 DEF Store!Load

\* Overtaking changes nothing but the mark: every other command that saves the
\* file bears it.
LEMMA OvertakenOnly ==
    ASSUME NEW f, NEW p \in Procs, NEW q \in Procs, NEW next, IsCommand(next[q])
    PROVE  /\ IsCommand(Store!Overtake(f, p, next)[q])
           /\ Store!Overtake(f, p, next)[q].pc = next[q].pc
           /\ Store!Overtake(f, p, next)[q].target = next[q].target
           /\ Store!Overtake(f, p, next)[q].snapshot = next[q].snapshot
           /\ q # p /\ next[q].target = f /\ Saving(next[q]) => Store!Overtake(f, p, next)[q].overtaken
           /\ ~(q # p /\ next[q].target = f /\ Saving(next[q])) =>
                 Store!Overtake(f, p, next)[q] = next[q]
BY DEF Store!Overtake, IsCommand, Saving

\* The first half of a save leaves the file cut off.
LEMMA TruncateKeeps ==
    ASSUME StoreInvariant, NEW p \in Procs, Store!Truncate(p)
    PROVE  StoreInvariant'
<1> DEFINE f == proc[p].target
           next == [proc EXCEPT ![p].pc = "write"]
<1>1. \A q \in Procs : /\ IsCommand(next[q])
                       /\ (Saving(next[q]) <=> Saving(proc[q]))
                       /\ next[q].target = proc[q].target
                       /\ next[q].snapshot = proc[q].snapshot
                       /\ next[q].overtaken = proc[q].overtaken
  BY DEF StoreInvariant, StoreTypes, IsCommand, Saving, Store!Truncate
<1>2. proc' = Store!Overtake(f, p, next)
  BY DEF Store!Truncate
<1> HIDE DEF next
<1>3. /\ DOMAIN proc' = Procs
      /\ proc' = [q \in Procs |-> proc'[q]]
  BY <1>2 DEF Store!Overtake
<1>4. \A q \in Procs : IsCommand(proc[q])'
  BY <1>1, <1>2, OvertakenOnly DEF IsCommand
<1>5. content' = [content EXCEPT ![f] = Torn] /\ UNCHANGED <<clock, writes, raced>>
  BY DEF Store!Truncate
<1>6. content' \in [Store!Files -> Store!Snapshots \union {Absent, Torn}]
  BY <1>5 DEF StoreInvariant, StoreTypes
<1>7. \A g \in Store!Files : content'[g] = IF g = f THEN Torn ELSE content[g]
  BY <1>5 DEF StoreInvariant, StoreTypes
<1>8. \A q \in Procs : Carries(proc[q])'
  <2> SUFFICES ASSUME NEW q \in Procs PROVE Carries(proc[q])'
    OBVIOUS
  <2>1. /\ proc'[q].target = proc[q].target /\ proc'[q].snapshot = proc[q].snapshot
        /\ (Saving(proc'[q]) <=> Saving(proc[q]))
        /\ proc[q].overtaken => proc'[q].overtaken
    BY <1>1, <1>2, OvertakenOnly DEF Saving
  <2> QED
    BY <1>5, <2>1 DEF StoreInvariant, Carries, Saving
<1>9. Store!TaskFileHoldsItsIssue'
  BY <1>7 DEF StoreInvariant, Store!TaskFileHoldsItsIssue, Store!Readable, Store!Files
<1>10. Store!NothingLostWithoutRace' /\ AbsentIsNew'
  BY <1>5, <1>7, StoreBounds DEF StoreInvariant, Store!NothingLostWithoutRace, AbsentIsNew, Store!Readable
<1> QED
  BY <1>3, <1>4, <1>5, <1>6, <1>8, <1>9, <1>10 DEF StoreInvariant, StoreTypes

\* The second half writes what the command carries.
LEMMA WriteKeeps ==
    ASSUME StoreInvariant, NEW p \in Procs, Store!Write(p)
    PROVE  StoreInvariant'
<1> DEFINE f == proc[p].target
           next == [proc EXCEPT ![p] = Store!IdleCommand]
<1>1. \A q \in Procs : next[q] = IF q = p THEN Store!IdleCommand ELSE proc[q]
  BY DEF StoreInvariant, StoreTypes
<1>2. \A q \in Procs : IsCommand(next[q])
  BY <1>1 DEF StoreInvariant, StoreTypes, IsCommand, Store!IdleCommand
<1>3. proc' = Store!Overtake(f, p, next)
  BY DEF Store!Write
<1> HIDE DEF next
<1>4. /\ DOMAIN proc' = Procs
      /\ proc' = [q \in Procs |-> proc'[q]]
  BY <1>3 DEF Store!Overtake
<1>5. \A q \in Procs : IsCommand(proc[q])'
  BY <1>2, <1>3, OvertakenOnly DEF IsCommand
<1>6. /\ proc[p].pc = "write" /\ UNCHANGED clock
      /\ content' = [content EXCEPT ![f] = proc[p].snapshot]
      /\ writes' = [writes EXCEPT ![f] = @ + 1]
      /\ raced' = [raced EXCEPT ![f] = @ \/ proc[p].overtaken]
  BY DEF Store!Write
<1>7. IsCommand(proc[p]) /\ Carries(proc[p])
  BY DEF StoreInvariant, StoreTypes
<1>8. proc[p].overtaken \in BOOLEAN
  BY <1>7 DEF IsCommand
<1>9. /\ f \in Store!Files => proc[p].snapshot \in Store!Snapshots
      /\ f \in Issues => proc[p].snapshot.issue = f
      /\ f \in Store!Files /\ ~proc[p].overtaken /\ ~raced[f] => proc[p].snapshot.version = writes[f] + 1
  BY <1>6, <1>7 DEF Carries, Saving, Store!Files
<1>10. \A g \in Store!Files : /\ content'[g] = IF g = f THEN proc[p].snapshot ELSE content[g]
                              /\ writes'[g] = IF g = f THEN writes[g] + 1 ELSE writes[g]
                              /\ g # f => raced'[g] = raced[g]
                              /\ g = f => (raced'[g] <=> (raced[g] \/ proc[p].overtaken))
  BY <1>6 DEF StoreInvariant, StoreTypes
<1>11. /\ content' \in [Store!Files -> Store!Snapshots \union {Absent, Torn}]
       /\ writes' \in [Store!Files -> Nat]
       /\ DOMAIN raced' = Store!Files
  <2>1. DOMAIN raced = Store!Files /\ DOMAIN raced' = DOMAIN raced
    BY <1>6 DEF StoreInvariant, StoreTypes
  <2>2. writes' \in [Store!Files -> Nat]
    <3>1. writes \in [Store!Files -> Nat] /\ (f \in Store!Files => writes[f] + 1 \in Nat)
      BY DEF StoreInvariant, StoreTypes
    <3>2. writes' = [writes EXCEPT ![f] = writes[f] + 1]
      BY <1>6
    <3> HIDE DEF f
    <3> QED
      BY <3>1, <3>2
  <2>3. content' \in [Store!Files -> Store!Snapshots \union {Absent, Torn}]
    BY <1>6, <1>9 DEF StoreInvariant, StoreTypes
  <2> QED
    BY <2>1, <2>2, <2>3
<1>12. \A q \in Procs : Carries(proc[q])'
  <2> SUFFICES ASSUME NEW q \in Procs PROVE Carries(proc[q])'
    OBVIOUS
  <2>1. CASE q = p
    BY <1>1, <1>2, <1>3, <2>1, OvertakenOnly DEF Carries, Saving, Store!IdleCommand
  <2>2. CASE q # p /\ proc[q].target = f /\ Saving(proc[q])
    <3>1. proc'[q].overtaken /\ proc'[q].target = proc[q].target
          /\ proc'[q].snapshot = proc[q].snapshot
      BY <1>1, <1>2, <1>3, <2>2, OvertakenOnly
    <3> QED
      BY <2>2, <3>1 DEF StoreInvariant, Carries
  <2>3. CASE q # p /\ ~(proc[q].target = f /\ Saving(proc[q]))
    <3>1. /\ proc'[q].overtaken = proc[q].overtaken /\ proc'[q].target = proc[q].target
          /\ proc'[q].snapshot = proc[q].snapshot /\ proc'[q].pc = proc[q].pc
      BY <1>1, <1>2, <1>3, <2>3, OvertakenOnly
    <3> QED
      BY <1>10, <2>3, <3>1 DEF StoreInvariant, Carries, Saving
  <2> QED
    BY <2>1, <2>2, <2>3
<1>13. Store!TaskFileHoldsItsIssue'
  BY <1>9, <1>10 DEF StoreInvariant, Store!TaskFileHoldsItsIssue, Store!Readable, Store!Files
<1>14. Store!NothingLostWithoutRace'
  <2> SUFFICES ASSUME NEW g \in Store!Files, Store!Readable(g)', ~raced'[g]
               PROVE  content'[g].version = writes'[g]
    BY DEF Store!NothingLostWithoutRace
  <2>1. CASE g = f
    BY <1>9, <1>10, <2>1
  <2>2. CASE g # f
    BY <1>10, <2>2 DEF StoreInvariant, Store!NothingLostWithoutRace, Store!Readable
  <2> QED
    BY <2>1, <2>2
<1>15. AbsentIsNew'
  BY <1>9, <1>10, StoreBounds DEF StoreInvariant, AbsentIsNew
<1> QED
  BY <1>4, <1>5, <1>6, <1>11, <1>12, <1>13, <1>14, <1>15 DEF StoreInvariant, StoreTypes

\* Removal starts the history of a file anew.
LEMMA ClearedKeeps ==
    ASSUME StoreInvariant, NEW fs \in SUBSET Store!Files, Store!Removed(fs)
    PROVE  StoreInvariant'
<1>1. /\ UNCHANGED clock
      /\ content' = [f \in Store!Files |-> IF f \in fs THEN Absent ELSE content[f]]
      /\ writes' = [f \in Store!Files |-> IF f \in fs THEN 0 ELSE writes[f]]
      /\ raced' = [f \in Store!Files |-> IF f \in fs THEN FALSE ELSE raced[f]]
  BY DEF Store!Removed
<1>2. proc' = [q \in Procs |->
                  IF proc[q].target \in fs /\ Saving(proc[q])
                  THEN [proc[q] EXCEPT !.overtaken = TRUE] ELSE proc[q]]
  BY DEF Store!Removed, Saving
<1>3. \A q \in Procs : IsCommand(proc[q])
  BY DEF StoreInvariant, StoreTypes
<1>4. \A q \in Procs :
        /\ IsCommand(proc'[q])
        /\ proc'[q].target = proc[q].target /\ proc'[q].snapshot = proc[q].snapshot
        /\ (Saving(proc'[q]) <=> Saving(proc[q]))
        /\ proc[q].target \in fs /\ Saving(proc[q]) => proc'[q].overtaken
        /\ proc[q].target \notin fs => proc'[q] = proc[q]
  BY <1>2, <1>3 DEF IsCommand, Saving
<1>5. /\ DOMAIN proc' = Procs
      /\ proc' = [q \in Procs |-> proc'[q]]
  BY <1>2
<1>6. \A q \in Procs : IsCommand(proc[q])'
  BY <1>4 DEF IsCommand
<1>7. /\ content' \in [Store!Files -> Store!Snapshots \union {Absent, Torn}]
      /\ writes' \in [Store!Files -> Nat]
      /\ DOMAIN raced' = Store!Files
  BY <1>1 DEF StoreInvariant, StoreTypes
<1>8. \A q \in Procs : Carries(proc[q])'
  BY <1>1, <1>4 DEF StoreInvariant, Carries, Saving
<1>9. Store!TaskFileHoldsItsIssue' /\ Store!NothingLostWithoutRace' /\ AbsentIsNew'
  BY <1>1 DEF StoreInvariant, Store!TaskFileHoldsItsIssue, Store!NothingLostWithoutRace, AbsentIsNew,
     Store!Readable, Store!Files
<1> QED
  BY <1>1, <1>5, <1>6, <1>7, <1>8, <1>9 DEF StoreInvariant, StoreTypes

\* The invariant of the store.
LEMMA StoreInvariantHolds == StoreSpec => []StoreInvariant
<1>1. Store!Init => StoreInvariant
  <2> SUFFICES ASSUME Store!Init PROVE StoreInvariant
    OBVIOUS
  <2>1. StoreTypes
    BY DEF Store!Init, StoreTypes, IsCommand, Store!IdleCommand
  <2>2. \A p \in Procs : Carries(proc[p])
    BY DEF Store!Init, Carries, Saving, Store!IdleCommand
  <2>3. Store!TaskFileHoldsItsIssue /\ Store!NothingLostWithoutRace /\ AbsentIsNew
    BY DEF Store!Init, Store!TaskFileHoldsItsIssue, Store!NothingLostWithoutRace, AbsentIsNew, Store!Readable, Store!Files
  <2> QED
    BY <2>1, <2>2, <2>3 DEF StoreInvariant
<1>2. StoreInvariant /\ [Store!Next]_(Store!vars) => StoreInvariant'
  <2> SUFFICES ASSUME StoreInvariant, [Store!Next]_(Store!vars) PROVE StoreInvariant'
    OBVIOUS
  <2>1. ASSUME NEW p \in Procs,
               \/ \E kind \in {"update", "halt", "resume"}, named \in Store!Files : Store!Resolve(p, kind, named)
               \/ Store!ResolveAgain(p)
               \/ Store!Crash(p)
        PROVE  StoreInvariant'
    BY <2>1, ResolveKeeps
  <2>2. ASSUME NEW p \in Procs, Store!Load(p) \/ Store!Truncate(p) \/ Store!Write(p)
        PROVE  StoreInvariant'
    BY <2>2, LoadKeeps, TruncateKeeps, WriteKeeps
  <2>3. ASSUME NEW f \in Store!Files, Store!Reset(f) PROVE StoreInvariant'
    BY <2>3, ClearedKeeps DEF Store!Reset
  <2>4. CASE Store!ResetAll
    BY <2>4, ClearedKeeps DEF Store!ResetAll
  <2>5. CASE UNCHANGED Store!vars
    BY <2>5 DEF Store!vars, StoreInvariant, StoreTypes, IsCommand, Carries, Store!TaskFileHoldsItsIssue,
       Store!NothingLostWithoutRace, AbsentIsNew, Store!Readable
  <2> QED
    BY <2>1, <2>2, <2>3, <2>4, <2>5 DEF Store!Next
<1> QED
  BY <1>1, <1>2, PTL DEF StoreSpec, Store!Spec

-----------------------------------------------------------------------------
(* Theorems.                                                               *)

\* No task file ever holds a checkpoint of another task: whatever file the
\* resolution picks, however many commands run, wherever saves are cut off.
THEOREM TaskFilesHoldTheirIssues == StoreSpec => []TaskFileHoldsItsIssue
<1>1. StoreInvariant => TaskFileHoldsItsIssue
  BY DEF StoreInvariant, TaskFileHoldsItsIssue
<1> QED
  BY <1>1, StoreInvariantHolds, PTL

\* An update is lost only where one command saved a file while another had
\* loaded it, for any number of commands, saves, crashes and resets.
THEOREM OnlyRacesLoseUpdates == StoreSpec => []NothingLostWithoutRace
<1>1. StoreInvariant => NothingLostWithoutRace
  BY DEF StoreInvariant, NothingLostWithoutRace
<1> QED
  BY <1>1, StoreInvariantHolds, PTL

\* The ranking of resolveTaskCheckpoint decides between any two candidates of
\* different tasks, and no circle of candidates beats itself.
THEOREM RankingIsAStrictOrder ==
    ASSUME NEW c \in [issue : Nat, inFlight : BOOLEAN, updatedAt : Nat],
           NEW d \in [issue : Nat, inFlight : BOOLEAN, updatedAt : Nat],
           NEW e \in [issue : Nat, inFlight : BOOLEAN, updatedAt : Nat]
    PROVE  /\ c.issue # d.issue => Store!Outranks(c, d) \/ Store!Outranks(d, c)
           /\ ~(Store!Outranks(c, d) /\ Store!Outranks(d, c))
           /\ Store!Outranks(c, d) /\ Store!Outranks(d, e) => Store!Outranks(c, e)
BY DEF Store!Outranks

----------------------------------------------------------------------------
(* Plan documents: no command writes over what somebody has written, for   *)
(* any titles, folders and supplied plans, whatever stops a command.       *)

Stages == {"INITIALIZED", "DISCOVERY", "PLAN", "APPROVAL", "IMPLEMENT", "COMPLETED"}
Contents == {"absent", "torn", "discovery template", "legacy template", "report",
             "plan template", "plan"}

Somewhere == Plans!Folders \union {"none"}
Recorded == Supplied \X {Plans!Mirror}
Checkpoints == [stage : Stages, hasIssue : BOOLEAN, planDir : Somewhere,
                planPath : Recorded \union {Plans!NoPath}]

\* The scaffolds of the plan command and of a transition.
Entries == [stage : {"DISCOVERY", "PLAN"}, type : Plans!Kinds]
PlanSteps == {"scaffold", "primary", "mirror", "summary", "save"}
PlanRuns ==
    [at : PlanSteps, op : {"plan"}, sm : Checkpoints, title : Plans!TitleSet, skip : BOOLEAN,
     revise : BOOLEAN, entry : Entries, recorded : Somewhere, want : {"none", Plans!Custom},
     dir : Somewhere, made : BOOLEAN, primary : Plans!Paths \union {Plans!NoPath}]
TransitionRuns ==
    [at : PlanSteps \ {"save"}, op : {"transition"}, sm : Checkpoints, title : Plans!TitleSet,
     skip : BOOLEAN, entry : Entries, recorded : Somewhere, want : {"none"}, dir : Somewhere,
     made : BOOLEAN, primary : Plans!Paths \union {Plans!NoPath}]

Agents == [role : {"discovery", "planner"}, dir : Somewhere,
           path : Plans!Paths \union {Plans!NoPath}]

PlanTypes ==
    /\ folders \subseteq Plans!Folders
    /\ doc \in [Plans!Paths -> Contents]
    /\ ck \in Checkpoints
    /\ cmd \in {Plans!Idle} \union PlanRuns \union TransitionRuns
    /\ (cmd # Plans!Idle /\ cmd.at \in {"primary", "mirror", "summary"}) => cmd.dir \in Plans!Folders
    /\ (cmd # Plans!Idle /\ cmd.at = "primary") => cmd.primary \in Plans!Paths
    /\ asked \in {"none", "plan", "directory", "approve"}
    /\ agent \in {Plans!NoAgent} \union Agents
    /\ whims \in 0 .. MaxWhims

DiscoveryAlias == <<"discovery", Plans!Alias>>

\* Where a sub-agent without a document of its own writes there is none, or one of
\* its kind; nobody else makes a document of that name.
AliasesAreReports ==
    /\ \A f \in Plans!Folders : doc[<<f, DiscoveryAlias>>] \in {"absent", "report"}
    /\ (cmd # Plans!Idle /\ cmd.at = "primary" /\ cmd.primary[2] = DiscoveryAlias)
         => doc[cmd.primary] # "absent"

PlansHoldNoReport ==
    \A path \in Plans!Paths : path[2][1] = "implementation" => doc[path] # "report"

\* The document a sub-agent was given holds nothing of the other kind.
GivenWell ==
    agent # Plans!NoAgent /\ agent.path # Plans!NoPath =>
        /\ agent.role = "discovery" => agent.path[2][1] = "discovery" /\ doc[agent.path] # "plan"
        /\ agent.role = "planner" => agent.path[2] # DiscoveryAlias /\ doc[agent.path] # "report"

PlanInvariant == PlanTypes /\ AliasesAreReports /\ PlansHoldNoReport /\ GivenWell

\* Somewhere the report lies that lets a run out of DISCOVERY.
Evidence ==
    \/ cmd.recorded # "none" /\ Plans!HasPopulatedDiscoveryReport(cmd.recorded)
    \/ \E f \in folders \intersect Plans!TitleSet : Plans!HasPopulatedDiscoveryReport(f)

\* A run that may leave DISCOVERY has its evidence, and scaffolds no new directory.
OnTheWay ==
    /\ (cmd # Plans!Idle /\ cmd.op = "transition") => cmd.sm.stage = "DISCOVERY"
    /\ (cmd # Plans!Idle /\ cmd.op = "plan" /\ cmd.at = "scaffold") => ~cmd.made
    /\ (cmd # Plans!Idle /\ cmd.op = "plan" /\ ck.hasIssue /\ ck.stage = "DISCOVERY" /\ ~cmd.skip) =>
         /\ cmd.at = "scaffold" => Evidence
         /\ (cmd.at # "scaffold" /\ cmd.dir # "none") => ~cmd.made /\ Plans!Leads(cmd.dir)
         /\ (cmd.at = "save" /\ cmd.dir # "none") => cmd.sm.planDir = cmd.dir

FollowInvariant == PlanInvariant /\ OnTheWay

\* A non-empty set of numbers has a least one.
LEMMA LeastNumber ==
    ASSUME NEW T \in SUBSET Nat, T # {}
    PROVE  \E m \in T : \A k \in T : m <= k
<1>1. IsWellFoundedOn(OpToRel(<, Nat), Nat)
  BY NatLessThanWellFounded
<1>2. PICK m \in T : \A k \in T : ~(<<k, m>> \in OpToRel(<, Nat))
  BY <1>1, WFMin
<1>3. \A k \in T : ~(k < m)
  BY <1>2 DEF OpToRel
<1> QED
  BY <1>3

LEMMA TitlesAre ==
    /\ \A t \in Plans!TitleSet : Plans!Slug(t) \in DOMAIN Titles
    /\ DOMAIN Titles \subseteq Nat /\ Len(Titles) \in Nat
    /\ Plans!TitleSet \intersect {Plans!Custom, "none", Plans!Alias} = {}
    /\ Plans!Folders = Plans!TitleSet \union {Plans!Custom}
<1>1. Titles \in Seq(STRING) /\ Plans!TitleSet \intersect {Plans!Custom, Plans!None, Plans!Alias} = {}
  BY PlanningConstants DEF Plans!PlanningAssumption
<1>2. \A t \in Plans!TitleSet : \E n \in DOMAIN Titles : Titles[n] = t
  BY <1>1 DEF Plans!TitleSet, Plans!ToSet
<1>3. \A t \in Plans!TitleSet : Plans!Slug(t) \in DOMAIN Titles
  BY <1>2 DEF Plans!Slug
<1>4. DOMAIN Titles = 1 .. Len(Titles) /\ Len(Titles) \in Nat
  BY <1>1
<1> QED
  BY <1>1, <1>3, <1>4 DEF Plans!None, Plans!Folders

\* The first document of a listing is one of them.
LEMMA FirstIs ==
    ASSUME NEW found \in SUBSET Plans!Docs, found # {}
    PROVE  Plans!First(found) \in found
<1>1. \A d \in found : Plans!Place(d) \in Nat
  <2> SUFFICES ASSUME NEW d \in found PROVE Plans!Place(d) \in Nat
    OBVIOUS
  <2>1. d[2] \in Plans!TitleSet \union {Plans!Alias}
    BY DEF Plans!Docs
  <2>2. d[2] # Plans!Alias => Plans!Slug(d[2]) \in Nat
    BY <2>1, TitlesAre
  <2> QED
    BY <2>2, TitlesAre DEF Plans!Place
<1>2. PICK m \in {Plans!Place(d) : d \in found} :
         \A k \in {Plans!Place(d) : d \in found} : m <= k
  <2>1. {Plans!Place(d) : d \in found} \in SUBSET Nat /\ {Plans!Place(d) : d \in found} # {}
    BY <1>1
  <2> QED
    BY <2>1, LeastNumber
<1>3. \E d \in found : \A e \in found : Plans!Place(d) <= Plans!Place(e)
  BY <1>2
<1> QED
  BY <1>3 DEF Plans!First

\* The best of some folders is one of them.
LEMMA BestIs ==
    ASSUME NEW candidates \in SUBSET Plans!TitleSet, candidates # {}, NEW title
    PROVE  Plans!Best(candidates, title) \in candidates
<1> DEFINE Attains(r) == /\ \E f \in candidates : Plans!Rank(f, title) = r
                         /\ \A f \in candidates : Plans!Rank(f, title) >= r
           least == CHOOSE r \in 0 .. 3 : Attains(r)
           best == {f \in candidates : Plans!Rank(f, title) = least}
<1>1. \A f \in candidates : Plans!Rank(f, title) \in 0 .. 3
  BY DEF Plans!Rank
<1>2. PICK m \in {Plans!Rank(f, title) : f \in candidates} :
         \A k \in {Plans!Rank(f, title) : f \in candidates} : m <= k
  <2>1. /\ {Plans!Rank(f, title) : f \in candidates} \in SUBSET Nat
        /\ {Plans!Rank(f, title) : f \in candidates} # {}
    BY <1>1
  <2> QED
    BY <2>1, LeastNumber
<1>3. m \in 0 .. 3 /\ Attains(m)
  BY <1>1, <1>2
<1>4. Attains(least)
  BY <1>3
<1>5. best \in SUBSET candidates /\ best # {}
  BY <1>4
<1>6. PICK k \in {Plans!Slug(f) : f \in best} : \A j \in {Plans!Slug(f) : f \in best} : k <= j
  <2>1. {Plans!Slug(f) : f \in best} \in SUBSET Nat /\ {Plans!Slug(f) : f \in best} # {}
    BY <1>5, TitlesAre
  <2> HIDE DEF best
  <2> QED
    BY <2>1, LeastNumber
<1>7. \E f \in best : \A g \in best : Plans!Slug(f) <= Plans!Slug(g)
  BY <1>6
<1>8. (CHOOSE f \in best : \A g \in best : Plans!Slug(f) <= Plans!Slug(g)) \in best
  BY <1>7
<1> QED
  BY <1>5, <1>8 DEF Plans!Best

\* Listings name documents of their kind that are there.
LEMMA ListingIs ==
    ASSUME PlanTypes, NEW f \in Plans!Folders, NEW kind \in Plans!Kinds
    PROVE  /\ Plans!ListArtifacts(kind, f) \in SUBSET Plans!Docs
           /\ \A d \in Plans!ListArtifacts(kind, f) :
                 d[1] = kind /\ doc[<<f, d>>] # "absent" /\ <<f, d>> \in Plans!Paths
  BY DEF Plans!ListArtifacts, Plans!Paths

LEMMA DiscoveryIs ==
    ASSUME PlanTypes, NEW f \in Plans!Folders
    PROVE  LET path == Plans!ResolveDiscovery(f)
           IN  path # Plans!NoPath => path \in Plans!Paths /\ path[2][1] = "discovery"
<1> DEFINE artifacts == Plans!ListArtifacts("discovery", f)
           populated == {d \in artifacts : Plans!IsPopulated(doc[<<f, d>>])}
           chosen == IF populated # {} THEN populated ELSE artifacts
<1>1. /\ artifacts \in SUBSET Plans!Docs
      /\ \A d \in artifacts : d[1] = "discovery" /\ <<f, d>> \in Plans!Paths
  BY ListingIs DEF Plans!Kinds
<1>2. CASE artifacts = {}
  BY <1>2 DEF Plans!ResolveDiscovery
<1>3. CASE artifacts # {}
  <2>1. chosen \in SUBSET Plans!Docs /\ chosen # {} /\ chosen \subseteq artifacts
    BY <1>1, <1>3
  <2>2. Plans!ResolveDiscovery(f) = <<f, Plans!First(chosen)>>
    BY <1>3 DEF Plans!ResolveDiscovery
  <2> HIDE DEF chosen
  <2>3. Plans!First(chosen) \in artifacts
    BY <2>1, FirstIs
  <2> QED
    BY <1>1, <2>2, <2>3
<1> QED
  BY <1>2, <1>3

\* What is taken for the plan is there and is no discovery document.
LEMMA ImplementationIs ==
    ASSUME PlanTypes, NEW f \in Plans!Folders
    PROVE  LET path == Plans!ResolveImplementation(f)
           IN  path # Plans!NoPath =>
                  /\ path \in Plans!Paths /\ doc[path] # "absent"
                  /\ ~Plans!IsDiscoveryShaped(doc[path])
<1> DEFINE artifacts == Plans!ListArtifacts("implementation", f)
                          \union Plans!ListArtifacts("discovery", f)
           plain == {d \in artifacts : ~Plans!IsDiscoveryShaped(doc[<<f, d>>])}
           written == {d \in plain : d[1] = "implementation"
                                       /\ Plans!IsPlanContentSubstantive(doc[<<f, d>>])}
           chosen == IF written # {} THEN written ELSE plain
<1>1. /\ artifacts \in SUBSET Plans!Docs
      /\ \A d \in artifacts : doc[<<f, d>>] # "absent" /\ <<f, d>> \in Plans!Paths
  BY ListingIs DEF Plans!Kinds
<1>2. CASE plain = {}
  BY <1>2 DEF Plans!ResolveImplementation
<1>3. CASE plain # {}
  <2>1. chosen \in SUBSET Plans!Docs /\ chosen # {} /\ chosen \subseteq plain
    BY <1>1, <1>3
  <2>2. Plans!ResolveImplementation(f) = <<f, Plans!First(chosen)>>
    BY <1>3 DEF Plans!ResolveImplementation
  <2> HIDE DEF chosen
  <2>3. Plans!First(chosen) \in plain
    BY <2>1, FirstIs
  <2> QED
    BY <1>1, <2>2, <2>3
<1> QED
  BY <1>2, <1>3

LEMMA FoundIs ==
    ASSUME PlanTypes, NEW title
    PROVE  Plans!FindPlanDirectory(title) \in Plans!TitleSet \union {"none"}
<1>1. folders \intersect Plans!TitleSet # {} =>
        Plans!Best(folders \intersect Plans!TitleSet, title) \in Plans!TitleSet
  BY BestIs
<1> QED
  BY <1>1 DEF Plans!FindPlanDirectory, Plans!None

\* What a checkpoint resolves to: its supplied plan, or one that is no discovery
\* document.
LEMMA PlanFileIs ==
    ASSUME PlanTypes, NEW sm \in Checkpoints
    PROVE  LET path == Plans!ResolvePlanFile(sm)
           IN  path # Plans!NoPath =>
                  /\ path \in Plans!Paths /\ doc[path] # "absent"
                  /\ path \in Recorded \/ ~Plans!IsDiscoveryShaped(doc[path])
<1> DEFINE f == IF sm.planDir # Plans!None THEN sm.planDir ELSE Plans!FindPlanDirectory(Plans!None)
<1>1. CASE sm.planPath # Plans!NoPath
  <2>1. sm.planPath \in Recorded
    BY <1>1 DEF Checkpoints
  <2>2. Recorded \subseteq Plans!Paths
    BY PlanningConstants DEF Plans!PlanningAssumption, Recorded, Plans!Paths, Plans!Docs,
       Plans!Mirror, Plans!Kinds
  <2> QED
    BY <1>1, <2>1, <2>2 DEF Plans!ResolvePlanFile, Plans!Content
<1>2. CASE sm.planPath = Plans!NoPath /\ f \in folders
  <2>1. f \in Plans!Folders
    BY <1>2 DEF PlanTypes
  <2>2. Plans!ResolvePlanFile(sm) = Plans!ResolveImplementation(f)
    BY <1>2 DEF Plans!ResolvePlanFile
  <2> QED
    BY <2>1, <2>2, ImplementationIs
<1>3. CASE sm.planPath = Plans!NoPath /\ f \notin folders
  BY <1>3 DEF Plans!ResolvePlanFile
<1> QED
  BY <1>1, <1>2, <1>3

\* Titles, places and names are told apart.
LEMMA NamesDiffer ==
    /\ Plans!Folders \subseteq Somewhere /\ "none" \notin Plans!Folders
    /\ Plans!Kinds = {"discovery", "implementation"}
    /\ Plans!Mirror \in Plans!Docs /\ DiscoveryAlias \in Plans!Docs
    /\ Plans!Mirror # DiscoveryAlias
    /\ \A t \in Plans!TitleSet : t # Plans!Alias /\ t \in Plans!Folders
    /\ \A path \in Plans!Paths : path # Plans!NoPath
    /\ Recorded \subseteq Plans!Paths
<1>1. Supplied \subseteq Plans!Folders
  BY PlanningConstants DEF Plans!PlanningAssumption
<1>2. "none" \notin Plans!Folders
  BY TitlesAre DEF Plans!Custom
<1>3. Plans!Mirror \in Plans!Docs /\ DiscoveryAlias \in Plans!Docs /\ Plans!Mirror # DiscoveryAlias
  BY DEF Plans!Mirror, DiscoveryAlias, Plans!Docs, Plans!Kinds
<1>4. \A path \in Plans!Paths : path # Plans!NoPath
  BY DEF Plans!Paths, Plans!NoPath
<1> QED
  BY <1>1, <1>2, <1>3, <1>4, TitlesAre DEF Somewhere, Recorded, Plans!Paths, Plans!Kinds

\* A run of the plan command, and of a transition, whose step is taken.
LEMMA RunsAre ==
    ASSUME PlanTypes, cmd # Plans!Idle
    PROVE  /\ cmd \in PlanRuns \union TransitionRuns
           /\ cmd.sm \in Checkpoints /\ cmd.title \in Plans!TitleSet
           /\ cmd.entry \in Entries /\ cmd.recorded \in Somewhere
           /\ cmd.want \in {"none", Plans!Custom} /\ cmd.dir \in Somewhere
           /\ cmd.primary \in Plans!Paths \union {Plans!NoPath}
           /\ cmd.made \in BOOLEAN /\ cmd.op \in {"plan", "transition"}
           /\ cmd.skip \in BOOLEAN /\ cmd.at \in PlanSteps
           /\ cmd.op = "plan" => cmd \in PlanRuns
           /\ cmd.op = "transition" => cmd \in TransitionRuns
  BY DEF PlanTypes, PlanRuns, TransitionRuns, PlanSteps

\* A step that moves the command on keeps its type.
LEMMA MovesOn ==
    ASSUME PlanTypes, cmd # Plans!Idle, NEW to \in {"primary", "mirror", "summary"}
    PROVE  [cmd EXCEPT !.at = to] \in PlanRuns \union TransitionRuns
<1>1. CASE cmd \in PlanRuns
  BY <1>1 DEF PlanRuns, PlanSteps
<1>2. CASE cmd \in TransitionRuns
  BY <1>2 DEF TransitionRuns, PlanSteps
<1> QED
  BY <1>1, <1>2, RunsAre

LEMMA TargetIs ==
    ASSUME PlanTypes, cmd # Plans!Idle
    PROVE  Plans!ScaffoldTarget \in Plans!Folders
<1> DEFINE candidates == IF ck.hasIssue THEN folders \intersect Plans!TitleSet
                         ELSE folders \intersect {cmd.title}
           populated == {f \in candidates : Plans!IsPopulatedPlanDirectory(f)}
           supplied == IF cmd.want # Plans!None THEN cmd.want
                       ELSE IF Plans!Ignored THEN Plans!None ELSE cmd.recorded
<1>1. candidates \in SUBSET Plans!TitleSet /\ populated \in SUBSET Plans!TitleSet
  BY RunsAre
<1>2. populated # {} => Plans!Best(populated, cmd.title) \in Plans!TitleSet
  BY <1>1, BestIs
<1>3. candidates # {} => Plans!Best(candidates, cmd.title) \in Plans!TitleSet
  BY <1>1, BestIs
<1>4. supplied # Plans!None => supplied \in Plans!Folders
  BY RunsAre, TitlesAre DEF Somewhere, Plans!None
<1>5. cmd.title \in Plans!Folders /\ Plans!TitleSet \subseteq Plans!Folders
  BY RunsAre, TitlesAre
<1>6. Plans!ScaffoldTarget =
        IF supplied # Plans!None /\ (Plans!IsPopulatedPlanDirectory(supplied) \/ populated = {})
        THEN supplied
        ELSE IF populated # {} THEN Plans!Best(populated, cmd.title)
        ELSE IF cmd.title \in folders \/ candidates = {} THEN cmd.title
        ELSE Plans!Best(candidates, cmd.title)
  BY DEF Plans!ScaffoldTarget
<1> HIDE DEF candidates, populated, supplied
<1> QED
  BY <1>2, <1>3, <1>4, <1>5, <1>6

\* The document a scaffold writes is one of its directory; a document of no title is
\* one that is already there.
LEMMA PrimaryIs ==
    ASSUME PlanTypes, NEW f \in Plans!Folders, NEW type \in Plans!Kinds,
           NEW title \in Plans!TitleSet
    PROVE  LET primary == Plans!PrimaryDocument(f, type, title)
           IN  /\ primary \in Plans!Paths
               /\ primary[2] = DiscoveryAlias => doc[primary] # "absent"
<1> DEFINE artifacts == Plans!ListArtifacts(type, f)
           populated == {d \in artifacts : Plans!IsPopulated(doc[<<f, d>>])}
           chosen == IF type = "discovery" /\ populated # {} THEN populated ELSE artifacts
<1>1. /\ artifacts \in SUBSET Plans!Docs
      /\ \A d \in artifacts : doc[<<f, d>>] # "absent" /\ <<f, d>> \in Plans!Paths
  BY ListingIs
<1>2. CASE artifacts = {}
  <2>1. Plans!PrimaryDocument(f, type, title) = <<f, <<type, title>>>>
    BY <1>2 DEF Plans!PrimaryDocument
  <2>2. <<type, title>> \in Plans!Docs /\ title # Plans!Alias
    BY NamesDiffer DEF Plans!Docs
  <2> QED
    BY <2>1, <2>2 DEF DiscoveryAlias, Plans!Paths
<1>3. CASE artifacts # {}
  <2>1. chosen \in SUBSET Plans!Docs /\ chosen # {} /\ chosen \subseteq artifacts
    BY <1>1, <1>3
  <2>2. Plans!PrimaryDocument(f, type, title) = <<f, Plans!First(chosen)>>
    BY <1>3 DEF Plans!PrimaryDocument
  <2> HIDE DEF chosen
  <2>3. Plans!First(chosen) \in artifacts
    BY <2>1, FirstIs
  <2> QED
    BY <1>1, <2>2, <2>3
<1> QED
  BY <1>2, <1>3

\* What no command does: write what is authored, or a discovery document of no title,
\* or a report into a plan.
Tidy ==
    /\ \A path \in Plans!Paths : doc'[path] = doc[path] \/ doc'[path] \notin Plans!Authored
    /\ \A f \in Plans!Folders :
         doc'[<<f, DiscoveryAlias>>] \in {doc[<<f, DiscoveryAlias>>], "absent"}

LEMMA TidyStepsKeep ==
    ASSUME PlanInvariant, PlanTypes', Tidy, UNCHANGED agent
    PROVE  /\ \A f \in Plans!Folders : doc'[<<f, DiscoveryAlias>>] \in {"absent", "report"}
           /\ PlansHoldNoReport' /\ GivenWell'
<1>1. \A f \in Plans!Folders : doc'[<<f, DiscoveryAlias>>] \in {"absent", "report"}
  BY DEF PlanInvariant, AliasesAreReports, Tidy
<1>2. PlansHoldNoReport'
  BY DEF PlanInvariant, PlansHoldNoReport, Tidy, Plans!Authored
<1>3. GivenWell'
  <2>1. agent # Plans!NoAgent /\ agent.path # Plans!NoPath => agent.path \in Plans!Paths
    BY DEF PlanInvariant, PlanTypes, Agents
  <2> QED
    BY <2>1 DEF PlanInvariant, GivenWell, Tidy, Plans!Authored
<1> QED
  BY <1>1, <1>2, <1>3

\* A step that leaves the documents alone is tidy; so is one that takes directories away.
LEMMA RemovalsAreTidy ==
    ASSUME PlanTypes, NEW gone,
           doc' = [p \in Plans!Paths |-> IF p[1] \in gone THEN "absent" ELSE doc[p]]
    PROVE  Tidy /\ doc' \in [Plans!Paths -> Contents]
<1>1. doc' \in [Plans!Paths -> Contents]
  BY DEF PlanTypes, Contents
<1>2. \A path \in Plans!Paths : doc'[path] \in {doc[path], "absent"}
  OBVIOUS
<1>3. \A f \in Plans!Folders : <<f, DiscoveryAlias>> \in Plans!Paths
  BY NamesDiffer DEF Plans!Paths
<1> QED
  BY <1>1, <1>2, <1>3 DEF Tidy, Plans!Authored

LEMMA WritesAreTidy ==
    ASSUME PlanTypes, NEW path \in Plans!Paths, path[2] # DiscoveryAlias,
           NEW written \in Contents \ Plans!Authored,
           doc' = [doc EXCEPT ![path] = written]
    PROVE  Tidy /\ doc' \in [Plans!Paths -> Contents]
<1>1. doc' \in [Plans!Paths -> Contents]
  BY DEF PlanTypes
<1>2. \A p \in Plans!Paths : doc'[p] = IF p = path THEN written ELSE doc[p]
  BY DEF PlanTypes
<1>3. \A f \in Plans!Folders : <<f, DiscoveryAlias>> \in Plans!Paths /\ <<f, DiscoveryAlias>> # path
  BY NamesDiffer DEF Plans!Paths
<1> QED
  BY <1>1, <1>2, <1>3 DEF Tidy

LEMMA MirrorsAre ==
    ASSUME PlanTypes, NEW f \in Plans!Folders
    PROVE  <<f, Plans!Mirror>> \in Plans!Paths /\ <<f, Plans!Mirror>>[2] # DiscoveryAlias
  BY NamesDiffer DEF Plans!Paths

LEMMA PlanningStarts == Plans!Init => PlanInvariant
<1> SUFFICES ASSUME Plans!Init PROVE PlanInvariant
  OBVIOUS
<1> USE DEF Plans!None
<1>1. PICK hasIssue \in BOOLEAN, legacy \in {{}, Legacy} :
         /\ ck = Plans!New(hasIssue)
         /\ folders = Supplied \union legacy
         /\ doc = [p \in Plans!Paths |->
                     CASE p[1] \in Supplied /\ p[2] = Plans!Mirror -> "plan"
                       [] p[1] \in legacy /\ p[2] \in {Plans!Mirror, <<"discovery", p[1]>>}
                            -> "legacy template"
                       [] OTHER -> "absent"]
  BY DEF Plans!Init
<1>2. folders \subseteq Plans!Folders
  BY <1>1, PlanningConstants DEF Plans!PlanningAssumption
<1>3. doc \in [Plans!Paths -> Contents]
  BY <1>1 DEF Contents
<1>4. ck \in Checkpoints
  BY <1>1 DEF Plans!New, Checkpoints, Stages, Somewhere
<1>5. PlanTypes
  <2>1. cmd = Plans!Idle /\ asked = "none" /\ agent = Plans!NoAgent /\ whims = 0
    BY DEF Plans!Init
  <2>2. whims \in 0 .. MaxWhims
    BY <2>1, PlanningConstants DEF Plans!PlanningAssumption
  <2> QED
    BY <1>2, <1>3, <1>4, <2>1, <2>2 DEF PlanTypes
<1>6. \A f \in Plans!Folders : doc[<<f, DiscoveryAlias>>] = "absent"
  <2> SUFFICES ASSUME NEW f \in Plans!Folders PROVE doc[<<f, DiscoveryAlias>>] = "absent"
    OBVIOUS
  <2>1. <<f, DiscoveryAlias>> \in Plans!Paths /\ DiscoveryAlias # Plans!Mirror
    BY NamesDiffer DEF Plans!Paths
  <2>2. DiscoveryAlias # <<"discovery", f>>
    BY TitlesAre DEF DiscoveryAlias, Plans!Alias, Plans!Custom
  <2> QED
    BY <1>1, <2>1, <2>2
<1>7. \A path \in Plans!Paths : doc[path] # "report"
  BY <1>1
<1>8. cmd = Plans!Idle /\ agent = Plans!NoAgent
  BY DEF Plans!Init
<1> QED
  BY <1>5, <1>6, <1>7, <1>8 DEF PlanInvariant, AliasesAreReports, PlansHoldNoReport, GivenWell

LEMMA MakingADirectory ==
    ASSUME PlanInvariant, Plans!MakeDirectory
    PROVE  PlanInvariant'
<1> DEFINE f == Plans!ScaffoldTarget
           primary == Plans!PrimaryDocument(f, cmd.entry.type, cmd.title)
<1>1. PlanTypes /\ cmd # Plans!Idle
  BY DEF PlanInvariant, Plans!MakeDirectory, Plans!Idle
<1>2. f \in Plans!Folders
  BY <1>1, TargetIs
<1>3. cmd.title \in Plans!TitleSet /\ cmd.entry.type \in Plans!Kinds
  BY <1>1, RunsAre DEF Entries
<1> HIDE DEF f
<1>4. /\ primary \in Plans!Paths
      /\ primary[2] = DiscoveryAlias => doc[primary] # "absent"
  BY <1>1, <1>2, <1>3, PrimaryIs
<1> HIDE DEF primary
<1>5. /\ cmd' = [cmd EXCEPT !.at = "primary", !.dir = f, !.made = f \notin folders,
                            !.primary = primary]
      /\ folders' = folders \union {f}
      /\ UNCHANGED <<doc, ck, asked, agent, whims>>
  BY DEF Plans!MakeDirectory, f, primary
<1>6. cmd' \in PlanRuns \union TransitionRuns /\ cmd'.dir = f /\ cmd'.primary = primary
  <2>0. f \in Somewhere
    BY <1>2 DEF Somewhere
  <2>1. CASE cmd \in PlanRuns
    BY <1>4, <1>5, <2>0, <2>1 DEF PlanRuns, PlanSteps
  <2>2. CASE cmd \in TransitionRuns
    BY <1>4, <1>5, <2>0, <2>2 DEF TransitionRuns, PlanSteps
  <2> QED
    BY <1>1, <2>1, <2>2, RunsAre
<1>7. PlanTypes'
  BY <1>1, <1>2, <1>4, <1>5, <1>6 DEF PlanTypes
<1>8. Tidy /\ UNCHANGED agent
  BY <1>5, NamesDiffer DEF Tidy
<1>9. (cmd'.primary[2] = DiscoveryAlias) => doc'[cmd'.primary] # "absent"
  BY <1>4, <1>5, <1>6
<1> QED
  BY <1>7, <1>8, <1>9, TidyStepsKeep DEF PlanInvariant, AliasesAreReports

\* A tidy step that does not come to the primary document.
LEMMA TidyStepsPreserve ==
    ASSUME PlanInvariant, PlanTypes', Tidy, UNCHANGED agent,
           cmd' = Plans!Idle \/ cmd'.at # "primary"
    PROVE  PlanInvariant'
  BY TidyStepsKeep DEF PlanInvariant, AliasesAreReports

\* What is authored stays, save in the directory that the running command has made.
SparesTheWritten ==
    \A p \in Plans!Paths :
        doc[p] \in Plans!Authored /\ ~(cmd.made /\ p[1] = cmd.dir) => doc'[p] = doc[p]

LEMMA WritingThePrimary ==
    ASSUME PlanInvariant, Plans!WritePrimary
    PROVE  PlanInvariant' /\ SparesTheWritten
<1> DEFINE written == Plans!Template(cmd.entry.type)
<1>1. PlanTypes /\ cmd # Plans!Idle /\ cmd.at = "primary"
  BY DEF PlanInvariant, Plans!WritePrimary, Plans!Idle
<1>2. cmd.primary \in Plans!Paths /\ cmd.dir \in Plans!Folders
  BY <1>1 DEF PlanTypes
<1>3. /\ cmd' = [cmd EXCEPT !.at = "mirror"]
      /\ UNCHANGED <<folders, ck, asked, agent, whims>>
      /\ \/ UNCHANGED doc
         \/ doc[cmd.primary] = "absent" /\ doc' = [doc EXCEPT ![cmd.primary] = written]
  BY DEF Plans!WritePrimary, Plans!ToWrite
<1>4. written \in Contents \ Plans!Authored
  BY DEF Plans!Template, Contents, Plans!Authored
<1> HIDE DEF written
<1>5. Tidy /\ doc' \in [Plans!Paths -> Contents] /\ SparesTheWritten
  <2>1. CASE UNCHANGED doc
    BY <1>1, <2>1, NamesDiffer DEF Tidy, PlanTypes, SparesTheWritten
  <2>2. CASE doc[cmd.primary] = "absent" /\ doc' = [doc EXCEPT ![cmd.primary] = written]
    <3>1. cmd.primary[2] # DiscoveryAlias
      BY <1>1, <2>2 DEF PlanInvariant, AliasesAreReports
    <3>2. Tidy /\ doc' \in [Plans!Paths -> Contents]
      BY <1>1, <1>2, <1>4, <2>2, <3>1, WritesAreTidy
    <3> QED
      BY <1>1, <2>2, <3>2 DEF PlanTypes, SparesTheWritten, Plans!Authored
  <2> QED
    BY <1>3, <2>1, <2>2
<1>6. cmd' \in PlanRuns \union TransitionRuns
  BY <1>1, <1>3, MovesOn
<1>7. cmd'.at = "mirror" /\ cmd'.dir = cmd.dir
  BY <1>1, <1>3, RunsAre DEF PlanRuns, TransitionRuns
<1>8. PlanTypes'
  BY <1>1, <1>2, <1>3, <1>5, <1>6, <1>7 DEF PlanTypes
<1> QED
  BY <1>3, <1>5, <1>7, <1>8, TidyStepsPreserve

LEMMA WritingTheMirror ==
    ASSUME PlanInvariant, Plans!WriteMirror
    PROVE  PlanInvariant' /\ SparesTheWritten
<1> DEFINE mirror == <<cmd.dir, Plans!Mirror>>
<1>1. PlanTypes /\ cmd # Plans!Idle /\ cmd.at = "mirror"
  <2>1. cmd.at = "mirror"
    BY DEF Plans!WriteMirror
  <2> QED
    BY <2>1 DEF PlanInvariant, Plans!Idle
<1>2. cmd.dir \in Plans!Folders
  BY <1>1 DEF PlanTypes
<1>3. mirror \in Plans!Paths /\ mirror[2] # DiscoveryAlias
  BY <1>1, <1>2, MirrorsAre
<1>4. /\ cmd' = [cmd EXCEPT !.at = "summary"]
      /\ UNCHANGED <<folders, ck, asked, agent, whims>>
      /\ \/ UNCHANGED doc
         \/ doc[mirror] \in {"absent", "legacy template"}
            /\ doc' = [doc EXCEPT ![mirror] = "plan template"]
  BY DEF Plans!WriteMirror, Plans!HealsLegacyMirror, Plans!IsDiscoveryShaped,
     Plans!IsPlanContentSubstantive
<1> HIDE DEF mirror
<1>5. Tidy /\ doc' \in [Plans!Paths -> Contents] /\ SparesTheWritten
  <2>1. CASE UNCHANGED doc
    BY <1>1, <2>1, NamesDiffer DEF Tidy, PlanTypes, SparesTheWritten
  <2>2. CASE doc[mirror] \in {"absent", "legacy template"}
             /\ doc' = [doc EXCEPT ![mirror] = "plan template"]
    <3>1. "plan template" \in Contents \ Plans!Authored
      BY DEF Contents, Plans!Authored
    <3>2. Tidy /\ doc' \in [Plans!Paths -> Contents]
      BY <1>1, <1>3, <2>2, <3>1, WritesAreTidy
    <3> QED
      BY <1>1, <2>2, <3>2 DEF PlanTypes, SparesTheWritten, Plans!Authored
  <2> QED
    BY <1>4, <2>1, <2>2
<1>6. cmd' \in PlanRuns \union TransitionRuns
  BY <1>1, <1>4, MovesOn
<1>7. cmd'.at = "summary" /\ cmd'.dir = cmd.dir
  BY <1>1, <1>4, RunsAre DEF PlanRuns, TransitionRuns
<1>8. PlanTypes'
  BY <1>1, <1>2, <1>4, <1>5, <1>6, <1>7 DEF PlanTypes
<1> QED
  BY <1>4, <1>5, <1>7, <1>8, TidyStepsPreserve

\* A step that leaves the documents alone.
LEMMA StillDocuments ==
    ASSUME PlanTypes, UNCHANGED doc
    PROVE  Tidy /\ SparesTheWritten /\ doc' \in [Plans!Paths -> Contents]
  BY NamesDiffer DEF Tidy, PlanTypes, SparesTheWritten

LEMMA EndingTheScaffold ==
    ASSUME PlanInvariant, Plans!EndScaffold
    PROVE  PlanInvariant' /\ SparesTheWritten
<1>1. PlanTypes /\ cmd # Plans!Idle /\ cmd.at = "summary"
  BY DEF PlanInvariant, Plans!EndScaffold, Plans!Idle
<1>2. cmd.dir \in Plans!Folders /\ cmd.dir \in Somewhere
  BY <1>1, RunsAre DEF PlanTypes
<1>3. UNCHANGED <<folders, doc, asked, agent, whims>>
  BY DEF Plans!EndScaffold
<1>4. CASE cmd.op = "plan"
  <2> DEFINE adopted == IF Plans!ShouldAdopt THEN cmd.dir ELSE cmd.sm.planDir
  <2>1. UNCHANGED ck /\ cmd' = [cmd EXCEPT !.at = "save", !.sm.planDir = adopted]
    BY <1>4 DEF Plans!EndScaffold
  <2>2. adopted \in Somewhere
    BY <1>1, <1>2, RunsAre DEF Checkpoints
  <2> HIDE DEF adopted
  <2>3. cmd' \in PlanRuns /\ cmd'.at = "save"
    BY <1>1, <1>4, <2>1, <2>2, RunsAre DEF PlanRuns, PlanSteps, Checkpoints
  <2>4. PlanTypes'
    BY <1>1, <1>3, <2>1, <2>3 DEF PlanTypes
  <2> QED
    BY <1>1, <1>3, <2>3, <2>4, StillDocuments, TidyStepsPreserve
<1>5. CASE cmd.op # "plan"
  <2>1. cmd' = Plans!Idle /\ ck' = [cmd.sm EXCEPT !.planDir = cmd.dir]
    BY <1>5 DEF Plans!EndScaffold
  <2>2. ck' \in Checkpoints
    BY <1>1, <1>2, <2>1, RunsAre DEF Checkpoints
  <2>3. PlanTypes'
    BY <1>1, <1>3, <2>1, <2>2 DEF PlanTypes
  <2> QED
    BY <1>1, <1>3, <2>1, <2>3, StillDocuments, TidyStepsPreserve
<1> QED
  BY <1>4, <1>5

LEMMA SavingThePlan ==
    ASSUME PlanInvariant, Plans!SavePlan
    PROVE  PlanInvariant' /\ SparesTheWritten
<1>1. PlanTypes /\ cmd # Plans!Idle
  BY DEF PlanInvariant, Plans!SavePlan, Plans!Idle
<1>2. Plans!PlannedStage \in Stages
  <2>1. cmd.sm.stage \in Stages
    BY <1>1, RunsAre DEF Checkpoints
  <2> QED
    BY <2>1 DEF Plans!PlannedStage, Stages
<1>3. /\ cmd' = Plans!Idle
      /\ ck' = [cmd.sm EXCEPT !.stage = Plans!PlannedStage]
      /\ UNCHANGED <<folders, doc, asked, agent, whims>>
  BY DEF Plans!SavePlan
<1>4. ck' \in Checkpoints
  BY <1>1, <1>2, <1>3, RunsAre DEF Checkpoints
<1>5. PlanTypes'
  BY <1>1, <1>3, <1>4 DEF PlanTypes
<1> QED
  BY <1>1, <1>3, <1>5, StillDocuments, TidyStepsPreserve

\* What the disjuncts of Next say of the bounds and of what was asked.
Tallied ==
    asked' \in {"none", "plan", "directory", "approve"} /\ whims' \in 0 .. MaxWhims

LEMMA FailingTheScaffold ==
    ASSUME PlanInvariant, Plans!ScaffoldFails, Tallied
    PROVE  PlanInvariant' /\ SparesTheWritten
<1> DEFINE gone == Plans!RemovedAfterFailure
<1>1. PlanTypes /\ cmd # Plans!Idle
  BY DEF PlanInvariant, Plans!ScaffoldFails, Plans!Idle
<1>2. /\ folders' = folders \ gone
      /\ doc' = [p \in Plans!Paths |-> IF p[1] \in gone THEN "absent" ELSE doc[p]]
      /\ cmd' = Plans!Idle /\ UNCHANGED <<ck, agent>>
  BY DEF Plans!ScaffoldFails
<1>3. SparesTheWritten
  BY <1>2 DEF SparesTheWritten, Plans!RemovedAfterFailure
<1> HIDE DEF gone
<1>4. Tidy /\ doc' \in [Plans!Paths -> Contents]
  BY <1>1, <1>2, RemovalsAreTidy
<1>5. PlanTypes'
  BY <1>1, <1>2, <1>4 DEF PlanTypes, Tallied
<1> QED
  BY <1>2, <1>3, <1>4, <1>5, TidyStepsPreserve

LEMMA Crashing ==
    ASSUME PlanInvariant, Plans!Crash, Tallied
    PROVE  PlanInvariant' /\ SparesTheWritten
<1> DEFINE mirror == <<cmd.dir, Plans!Mirror>>
<1>1. PlanTypes /\ cmd # Plans!Idle /\ cmd' = Plans!Idle /\ UNCHANGED <<folders, ck, agent>>
  BY DEF PlanInvariant, Plans!Crash
<1>2. Tidy /\ doc' \in [Plans!Paths -> Contents] /\ SparesTheWritten
  <2>0. "torn" \in Contents \ Plans!Authored
    BY DEF Contents, Plans!Authored
  <2>1. CASE UNCHANGED doc
    BY <1>1, <2>1, StillDocuments
  <2>2. CASE /\ cmd.at = "primary" /\ doc[cmd.primary] = "absent"
             /\ doc' = [doc EXCEPT ![cmd.primary] = "torn"]
    <3>1. cmd.primary \in Plans!Paths /\ cmd.primary[2] # DiscoveryAlias
      BY <1>1, <2>2 DEF PlanInvariant, PlanTypes, AliasesAreReports
    <3>2. Tidy /\ doc' \in [Plans!Paths -> Contents]
      BY <1>1, <2>0, <2>2, <3>1, WritesAreTidy
    <3> QED
      BY <1>1, <2>2, <3>2 DEF PlanTypes, SparesTheWritten, Plans!Authored
  <2>3. CASE /\ cmd.at = "mirror" /\ doc[mirror] = "absent"
             /\ doc' = [doc EXCEPT ![mirror] = "torn"]
    <3>1. mirror \in Plans!Paths /\ mirror[2] # DiscoveryAlias
      <4>1. cmd.dir \in Plans!Folders
        BY <1>1, <2>3 DEF PlanTypes
      <4> QED
        BY <1>1, <4>1, MirrorsAre
    <3> HIDE DEF mirror
    <3>2. Tidy /\ doc' \in [Plans!Paths -> Contents]
      BY <1>1, <2>0, <2>3, <3>1, WritesAreTidy
    <3> QED
      BY <1>1, <2>3, <3>2 DEF PlanTypes, SparesTheWritten, Plans!Authored
  <2> QED
    BY <2>1, <2>2, <2>3 DEF Plans!Crash, Plans!ToWrite
<1>3. PlanTypes'
  BY <1>1, <1>2 DEF PlanTypes, Tallied
<1> QED
  BY <1>1, <1>2, <1>3, TidyStepsPreserve

LEMMA StartingThePlan ==
    ASSUME PlanInvariant, NEW title \in Plans!TitleSet, NEW requested \in Plans!Kinds \union {"auto"},
           NEW kind \in Plans!IssueKinds, NEW skip \in BOOLEAN, NEW feedback \in BOOLEAN,
           NEW want \in {Plans!None, Plans!Custom}, NEW supply \in {Plans!NoPath} \union Recorded,
           Plans!StartPlanning(title, requested, kind, skip, feedback, want, supply), Tallied
    PROVE  PlanInvariant'
<1> DEFINE sm == IF ck.stage = "COMPLETED" THEN Plans!New(ck.hasIssue) ELSE ck
           entry == Plans!ResolvePlanEntry(requested, kind, skip)
           new == [at |-> "scaffold", op |-> "plan", sm |-> sm, title |-> title,
                   skip |-> skip /\ sm.stage = "DISCOVERY",
                   revise |-> feedback /\ sm.stage = "APPROVAL", entry |-> entry,
                   recorded |-> sm.planDir, want |-> want, dir |-> Plans!None,
                   made |-> FALSE, primary |-> Plans!NoPath]
<1>1. PlanTypes
  BY DEF PlanInvariant
<1>2. sm \in Checkpoints /\ sm.planDir \in Somewhere
  <2>1. ck \in Checkpoints
    BY <1>1 DEF PlanTypes
  <2>2. ck.hasIssue \in BOOLEAN
    BY <2>1 DEF Checkpoints
  <2>3. Plans!New(ck.hasIssue) \in Checkpoints
    BY <2>2 DEF Plans!New, Checkpoints, Stages, Somewhere, Plans!None
  <2> QED
    BY <2>1, <2>3 DEF Checkpoints
<1>3. entry \in Entries
  BY NamesDiffer DEF Plans!ResolvePlanEntry, Entries
<1>4. /\ UNCHANGED <<folders, doc, ck, agent>>
      /\ cmd' \in {Plans!Idle, new} \/ (supply # Plans!NoPath /\
                                        cmd' = [new EXCEPT !.at = "save", !.sm.planPath = supply])
  BY DEF Plans!StartPlanning
<1> HIDE DEF sm, entry
<1>5. new \in PlanRuns /\ new.at = "scaffold"
  <2>1. Plans!None \in Somewhere /\ want \in {"none", Plans!Custom}
    BY DEF Somewhere, Plans!None
  <2> QED
    BY <1>2, <1>3, <2>1 DEF PlanRuns, PlanSteps
<1> HIDE DEF new
<1>6. supply # Plans!NoPath =>
        /\ [new EXCEPT !.at = "save", !.sm.planPath = supply] \in PlanRuns
        /\ [new EXCEPT !.at = "save", !.sm.planPath = supply].at = "save"
  BY <1>5 DEF PlanRuns, PlanSteps, Checkpoints
<1>7. cmd' = Plans!Idle \/ (cmd' \in PlanRuns /\ cmd'.at \notin {"primary", "mirror", "summary"})
  BY <1>4, <1>5, <1>6
<1>8. PlanTypes'
  BY <1>1, <1>4, <1>7 DEF PlanTypes, Tallied
<1> QED
  BY <1>1, <1>4, <1>7, <1>8, StillDocuments, TidyStepsPreserve

LEMMA Transitioning ==
    ASSUME PlanInvariant, NEW target \in {"DISCOVERY", "PLAN", "APPROVAL"},
           NEW title \in Plans!TitleSet, Plans!TransitionStage(target, title), Tallied
    PROVE  PlanInvariant'
<1> DEFINE sm == [ck EXCEPT !.stage = target]
           entering == [at |-> "scaffold", op |-> "transition", sm |-> sm, title |-> title,
                        skip |-> FALSE, entry |-> [stage |-> "DISCOVERY", type |-> "discovery"],
                        recorded |-> ck.planDir, want |-> Plans!None, dir |-> Plans!None,
                        made |-> FALSE, primary |-> Plans!NoPath]
<1>1. PlanTypes
  BY DEF PlanInvariant
<1>2. sm \in Checkpoints /\ ck.planDir \in Somewhere
  BY <1>1 DEF PlanTypes, Checkpoints, Stages
<1>3. UNCHANGED <<folders, doc, agent>> /\ ck' = sm /\ cmd' \in {Plans!Idle, entering}
  BY DEF Plans!TransitionStage
<1> HIDE DEF sm
<1>4. entering \in TransitionRuns /\ entering.at = "scaffold"
  <2>1. Plans!None \in Somewhere /\ Plans!None = "none"
    BY DEF Somewhere, Plans!None
  <2>2. [stage |-> "DISCOVERY", type |-> "discovery"] \in Entries
    BY DEF Entries, Plans!Kinds
  <2> QED
    BY <1>2, <2>1, <2>2 DEF TransitionRuns, PlanSteps
<1> HIDE DEF entering
<1>5. cmd' = Plans!Idle \/ (cmd' \in TransitionRuns /\ cmd'.at \notin {"primary", "mirror", "summary"})
  BY <1>3, <1>4
<1>6. PlanTypes'
  BY <1>1, <1>2, <1>3, <1>5 DEF PlanTypes, Tallied
<1> QED
  BY <1>1, <1>3, <1>5, <1>6, StillDocuments, TidyStepsPreserve

LEMMA Proceeding ==
    ASSUME PlanInvariant, Plans!StartImplementation \/ Plans!Finish, Tallied
    PROVE  PlanInvariant'
<1>1. PlanTypes /\ ck \in Checkpoints
  BY DEF PlanInvariant, PlanTypes
<1>2. UNCHANGED <<folders, doc, cmd, agent>> /\ cmd = Plans!Idle
  BY DEF Plans!StartImplementation, Plans!Finish
<1>3. ASSUME Plans!StartImplementation PROVE ck' \in Checkpoints
  <2> DEFINE resolved == Plans!ResolvePlanFile(ck)
             where == IF ck.planDir = Plans!None /\ ck.planPath = Plans!NoPath
                      THEN resolved[1] ELSE ck.planDir
  <2>1. resolved # Plans!NoPath /\ ck' = [ck EXCEPT !.stage = "IMPLEMENT", !.planDir = where]
    BY <1>3 DEF Plans!StartImplementation
  <2>2. resolved \in Plans!Paths
    BY <1>1, <2>1, PlanFileIs
  <2>3. resolved[1] \in Somewhere
    BY <2>2 DEF Plans!Paths, Somewhere
  <2> HIDE DEF resolved
  <2>4. where \in Somewhere
    BY <1>1, <2>3 DEF Checkpoints
  <2> HIDE DEF where
  <2> QED
    BY <1>1, <2>1, <2>4 DEF Checkpoints, Stages
<1>4. ASSUME Plans!Finish PROVE ck' \in Checkpoints
  BY <1>1, <1>4 DEF Plans!Finish, Checkpoints, Stages
<1>5. PlanTypes'
  BY <1>1, <1>2, <1>3, <1>4 DEF PlanTypes, Tallied
<1> QED
  BY <1>1, <1>2, <1>5, StillDocuments, TidyStepsPreserve

LEMMA Directing ==
    ASSUME PlanInvariant, Plans!GetNextAction
    PROVE  PlanInvariant'
<1>1. PlanTypes /\ ck \in Checkpoints
  BY DEF PlanInvariant, PlanTypes
<1>2. UNCHANGED <<folders, doc, ck, cmd, whims>> /\ cmd = Plans!Idle /\ agent = Plans!NoAgent
  BY DEF Plans!GetNextAction
<1> DEFINE given == IF Plans!IsDiscoveryShaped(Plans!Content(Plans!DiscoveryPath))
                    THEN Plans!DiscoveryPath ELSE Plans!NoPath
           plan == Plans!ResolvePlanFile(ck)
           scout == [role |-> "discovery", dir |-> Plans!DiscoveryDir, path |-> given]
           planner == [role |-> "planner", dir |-> ck.planDir, path |-> plan]
<1>3. \/ UNCHANGED agent /\ asked' \in {"plan", "directory", "approve"}
      \/ UNCHANGED asked /\ Plans!DiscoveryDir # Plans!None /\ agent' = scout
      \/ UNCHANGED asked /\ ~Plans!IsPlanContentSubstantive(Plans!Content(plan)) /\ agent' = planner
  BY DEF Plans!GetNextAction, Plans!Ask, Plans!Send
<1>4. Plans!DiscoveryDir \in Somewhere
  BY <1>1, FoundIs, NamesDiffer DEF Plans!DiscoveryDir, Checkpoints, Somewhere
<1>5. given # Plans!NoPath =>
        given \in Plans!Paths /\ given[2][1] = "discovery" /\ doc[given] # "plan"
  <2> SUFFICES ASSUME given # Plans!NoPath
               PROVE  given \in Plans!Paths /\ given[2][1] = "discovery" /\ doc[given] # "plan"
    OBVIOUS
  <2>1. given = Plans!DiscoveryPath /\ Plans!IsDiscoveryShaped(Plans!Content(given))
    OBVIOUS
  <2>2. Plans!DiscoveryDir \in folders /\ given = Plans!ResolveDiscovery(Plans!DiscoveryDir)
    BY <2>1 DEF Plans!DiscoveryPath
  <2>3. given \in Plans!Paths /\ given[2][1] = "discovery"
    <3>1. Plans!DiscoveryDir \in Plans!Folders
      BY <1>1, <2>2 DEF PlanTypes
    <3> QED
      BY <1>1, <2>2, <3>1, DiscoveryIs
  <2> QED
    BY <2>1, <2>3 DEF Plans!Content, Plans!IsDiscoveryShaped
<1>6. plan # Plans!NoPath =>
        plan \in Plans!Paths /\ plan[2] # DiscoveryAlias /\ doc[plan] # "report"
  <2> SUFFICES ASSUME plan # Plans!NoPath
               PROVE  plan[2] # DiscoveryAlias /\ doc[plan] # "report"
    BY <1>1, PlanFileIs
  <2>1. /\ plan \in Plans!Paths /\ doc[plan] # "absent"
        /\ plan \in Recorded \/ ~Plans!IsDiscoveryShaped(doc[plan])
    BY <1>1, PlanFileIs
  <2> HIDE DEF plan
  <2>2. CASE plan \in Recorded
    <3>1. plan[2] = Plans!Mirror /\ plan[2][1] = "implementation"
      BY <2>2 DEF Recorded, Plans!Mirror
    <3> QED
      BY <2>1, <3>1, NamesDiffer DEF PlanInvariant, PlansHoldNoReport
  <2>3. CASE ~Plans!IsDiscoveryShaped(doc[plan])
    <3>1. doc[plan] # "report"
      BY <2>3 DEF Plans!IsDiscoveryShaped
    <3>2. \E f \in Plans!Folders : plan = <<f, plan[2]>>
      BY <2>1 DEF Plans!Paths
    <3>3. plan[2] # DiscoveryAlias
      BY <2>1, <3>1, <3>2 DEF PlanInvariant, AliasesAreReports
    <3> QED
      BY <3>1, <3>3
  <2> QED
    BY <2>1, <2>2, <2>3
<1> HIDE DEF given, plan
<1>7. ck.planDir \in Somewhere
  BY <1>1 DEF Checkpoints
<1>8. scout \in Agents /\ planner \in Agents
  BY <1>4, <1>5, <1>6, <1>7 DEF Agents
<1>9. PlanTypes'
  <2>1. agent' \in {Plans!NoAgent} \union Agents
    BY <1>2, <1>3, <1>8
  <2>2. asked' \in {"none", "plan", "directory", "approve"}
    BY <1>1, <1>3 DEF PlanTypes
  <2> QED
    BY <1>1, <1>2, <2>1, <2>2 DEF PlanTypes
<1>10. GivenWell'
  BY <1>2, <1>3, <1>5, <1>6 DEF GivenWell
<1> QED
  BY <1>2, <1>9, <1>10 DEF PlanInvariant, AliasesAreReports, PlansHoldNoReport

LEMMA AgentWriting ==
    ASSUME PlanInvariant, Plans!AgentWrites
    PROVE  PlanInvariant' /\ SparesTheWritten
<1>1. PlanTypes /\ agent \in Agents
  BY DEF PlanInvariant, PlanTypes, Plans!AgentWrites
<1>2. /\ agent' = Plans!NoAgent /\ UNCHANGED <<ck, cmd, asked, whims>>
      /\ folders' = folders \union
           ({IF agent.path # Plans!NoPath THEN agent.path[1] ELSE agent.dir} \ {Plans!None})
  BY DEF Plans!AgentWrites
<1>3. folders' \subseteq Plans!Folders
  <2>1. agent.path # Plans!NoPath => agent.path[1] \in Plans!Folders
    BY <1>1 DEF Agents, Plans!Paths
  <2>2. agent.dir \in Plans!Folders \union {Plans!None}
    BY <1>1 DEF Agents, Somewhere, Plans!None
  <2> QED
    BY <1>1, <1>2, <2>1, <2>2 DEF PlanTypes
<1> DEFINE written == Plans!Written(agent.role)
<1>4. /\ written = IF agent.role = "discovery" THEN "report" ELSE "plan"
      /\ agent.role \in {"discovery", "planner"}
  BY <1>1 DEF Plans!Written, Agents
<1> HIDE DEF written
<1>5. \/ UNCHANGED doc
      \/ \E path \in Plans!Paths :
            /\ doc' = [doc EXCEPT ![path] = written]
            /\ agent.role = "discovery" => path[2][1] = "discovery" /\ doc[path] # "plan"
            /\ agent.role = "planner" => path[2] # DiscoveryAlias /\ doc[path] # "report"
  <2>1. CASE agent.path # Plans!NoPath
    <3>1. agent.path \in Plans!Paths
      BY <1>1, <2>1 DEF Agents
    <3>2. doc' = [doc EXCEPT ![agent.path] = written]
      BY <2>1 DEF Plans!AgentWrites, written
    <3> QED
      BY <1>1, <2>1, <3>1, <3>2 DEF PlanInvariant, GivenWell, Plans!AgentWrites
  <2>2. CASE agent.path = Plans!NoPath /\ agent.dir # Plans!None
    <3>0. agent.dir \in Plans!Folders
      BY <1>1, <2>2 DEF Agents, Somewhere, Plans!None
    <3>1. CASE agent.role = "discovery"
      <4>1. doc' = [doc EXCEPT ![<<agent.dir, DiscoveryAlias>>] = written]
        BY <2>2, <3>1 DEF Plans!AgentWrites, written, DiscoveryAlias
      <4>2. <<agent.dir, DiscoveryAlias>> \in Plans!Paths /\ DiscoveryAlias[1] = "discovery"
        BY <3>0, NamesDiffer DEF Plans!Paths, DiscoveryAlias
      <4>3. doc[<<agent.dir, DiscoveryAlias>>] # "plan"
        BY <3>0 DEF PlanInvariant, AliasesAreReports
      <4> QED
        BY <3>1, <4>1, <4>2, <4>3
    <3>2. CASE agent.role = "planner"
      <4>1. doc' = [doc EXCEPT ![<<agent.dir, Plans!Mirror>>] = written]
        BY <2>2, <3>2 DEF Plans!AgentWrites, written
      <4>2. <<agent.dir, Plans!Mirror>> \in Plans!Paths /\ Plans!Mirror # DiscoveryAlias
        BY <3>0, NamesDiffer DEF Plans!Paths
      <4>3. doc[<<agent.dir, Plans!Mirror>>] # "report"
        BY <4>2 DEF PlanInvariant, PlansHoldNoReport, Plans!Mirror
      <4> QED
        BY <3>2, <4>1, <4>2, <4>3
    <3> QED
      BY <1>4, <3>1, <3>2
  <2>3. CASE agent.path = Plans!NoPath /\ agent.dir = Plans!None
    BY <2>3 DEF Plans!AgentWrites
  <2> QED
    BY <2>1, <2>2, <2>3
<1>6. doc' \in [Plans!Paths -> Contents]
  BY <1>1, <1>4, <1>5 DEF PlanTypes, Contents
<1>7. PlanTypes'
  BY <1>1, <1>2, <1>3, <1>6 DEF PlanTypes
<1>8. SparesTheWritten
  BY <1>1, <1>4, <1>5 DEF SparesTheWritten, PlanTypes, Plans!Authored
<1>9. AliasesAreReports'
  <2>1. \A f \in Plans!Folders : <<f, DiscoveryAlias>> \in Plans!Paths
    BY NamesDiffer DEF Plans!Paths
  <2>2. \A path \in Plans!Paths : doc'[path] = doc[path] \/ doc'[path] = written
    BY <1>1, <1>5 DEF PlanTypes
  <2>3. \A path \in Plans!Paths : path[2] = DiscoveryAlias =>
          doc'[path] = doc[path] \/ doc'[path] = "report"
    BY <1>1, <1>4, <1>5 DEF PlanTypes
  <2>4. \A f \in Plans!Folders : doc'[<<f, DiscoveryAlias>>] \in {"absent", "report"}
    BY <2>1, <2>3 DEF PlanInvariant, AliasesAreReports
  <2>5. (cmd # Plans!Idle /\ cmd.at = "primary") => cmd.primary \in Plans!Paths
    BY <1>1 DEF PlanTypes
  <2>6. (cmd # Plans!Idle /\ cmd.at = "primary" /\ cmd.primary[2] = DiscoveryAlias)
          => doc'[cmd.primary] # "absent"
    BY <1>4, <2>2, <2>5 DEF PlanInvariant, AliasesAreReports
  <2> QED
    BY <1>2, <2>4, <2>6 DEF AliasesAreReports
<1>10. PlansHoldNoReport'
  BY <1>1, <1>4, <1>5 DEF PlanInvariant, PlansHoldNoReport, PlanTypes
<1>11. GivenWell'
  BY <1>2 DEF GivenWell
<1> QED
  BY <1>7, <1>8, <1>9, <1>10, <1>11 DEF PlanInvariant

LEMMA Whims ==
    ASSUME PlanInvariant, Plans!Whim
    PROVE  PlanInvariant' /\ (cmd # Plans!Idle => SparesTheWritten)
<1>1. PlanTypes
  BY DEF PlanInvariant
<1>2. Tallied
  <2>1. MaxWhims \in Nat /\ whims \in 0 .. MaxWhims
    BY <1>1, PlanningConstants DEF PlanTypes, Plans!PlanningAssumption
  <2> QED
    BY <2>1 DEF Plans!Whim, Tallied, Plans!None
<1>3. CASE \E title \in Plans!TitleSet, kind \in Plans!IssueKinds,
              requested \in Plans!Kinds \union {"auto"}, skip, feedback \in BOOLEAN,
              want \in {Plans!None, Plans!Custom},
              supply \in {Plans!NoPath} \union (Supplied \X {Plans!Mirror}) :
           Plans!StartPlanning(title, requested, kind, skip, feedback, want, supply)
  <2>1. PlanInvariant'
    BY <1>2, <1>3, StartingThePlan DEF Recorded
  <2>2. cmd = Plans!Idle
    BY <1>3 DEF Plans!StartPlanning
  <2> QED
    BY <2>1, <2>2
<1>4. CASE \E title \in Plans!TitleSet, target \in {"DISCOVERY", "PLAN", "APPROVAL"} :
             Plans!TransitionStage(target, title)
  <2>1. PlanInvariant'
    BY <1>2, <1>4, Transitioning
  <2>2. cmd = Plans!Idle
    BY <1>4 DEF Plans!TransitionStage
  <2> QED
    BY <2>1, <2>2
<1>5. CASE Plans!DirectoryRemoved
  <2>1. PICK f \in folders :
           /\ folders' = folders \ {f}
           /\ doc' = [p \in Plans!Paths |-> IF p[1] = f THEN "absent" ELSE doc[p]]
    BY <1>5 DEF Plans!DirectoryRemoved
  <2>2. doc' = [p \in Plans!Paths |-> IF p[1] \in {f} THEN "absent" ELSE doc[p]]
    BY <2>1
  <2>3. Tidy /\ doc' \in [Plans!Paths -> Contents]
    BY <1>1, <2>2, RemovalsAreTidy
  <2>4. UNCHANGED <<ck, cmd, agent>> /\ cmd = Plans!Idle
    BY <1>5 DEF Plans!DirectoryRemoved
  <2>5. PlanTypes'
    BY <1>1, <1>2, <2>1, <2>3, <2>4 DEF PlanTypes, Tallied
  <2> QED
    BY <2>3, <2>4, <2>5, TidyStepsPreserve
<1>6. CASE Plans!AgentStops
  <2>1. agent' = Plans!NoAgent /\ UNCHANGED <<folders, doc, ck, cmd>>
    BY <1>6 DEF Plans!AgentStops
  <2>2. PlanTypes'
    BY <1>1, <1>2, <2>1 DEF PlanTypes, Tallied
  <2> QED
    BY <1>1, <2>1, <2>2, StillDocuments
       DEF PlanInvariant, AliasesAreReports, PlansHoldNoReport, GivenWell
<1>7. CASE Plans!ScaffoldFails
  BY <1>2, <1>7, FailingTheScaffold
<1>8. CASE Plans!Crash
  BY <1>2, <1>8, Crashing
<1> QED
  BY <1>3, <1>4, <1>5, <1>6, <1>7, <1>8 DEF Plans!Whim, Plans!Unprompted

LEMMA PlanningGoesOn ==
    ASSUME PlanInvariant, [Plans!Next]_(Plans!vars)
    PROVE  PlanInvariant' /\ (cmd # Plans!Idle => SparesTheWritten)
<1>1. PlanTypes
  BY DEF PlanInvariant
<1>2. CASE UNCHANGED Plans!vars
  BY <1>1, <1>2, StillDocuments
     DEF Plans!vars, PlanInvariant, PlanTypes, AliasesAreReports, PlansHoldNoReport, GivenWell
<1>3. CASE Plans!GetNextAction
  BY <1>3, Directing DEF Plans!GetNextAction
<1>4. CASE Plans!Obey
  <2>1. Tallied
    BY <1>1, <1>4 DEF Plans!Obey, Tallied, PlanTypes, Plans!None
  <2>2. CASE \E title \in Plans!TitleSet, kind \in Plans!IssueKinds :
               Plans!StartPlanning(title, "auto", kind, FALSE, FALSE, Plans!None, Plans!NoPath)
    <3>1. PlanInvariant'
      BY <2>1, <2>2, StartingThePlan
    <3>2. cmd = Plans!Idle
      BY <2>2 DEF Plans!StartPlanning
    <3> QED
      BY <3>1, <3>2
  <2>3. CASE \E title \in Plans!TitleSet : Plans!TransitionStage("APPROVAL", title)
    <3>1. PlanInvariant'
      BY <2>1, <2>3, Transitioning
    <3>2. cmd = Plans!Idle
      BY <2>3 DEF Plans!TransitionStage
    <3> QED
      BY <3>1, <3>2
  <2> QED
    BY <1>4, <2>2, <2>3 DEF Plans!Obey
<1>5. CASE Plans!CommandStep
  <2>1. CASE Plans!MakeDirectory
    <3>1. PlanInvariant'
      BY <2>1, MakingADirectory
    <3>2. UNCHANGED doc
      BY <2>1 DEF Plans!MakeDirectory
    <3> QED
      BY <1>1, <3>1, <3>2, StillDocuments
  <2> QED
    BY <1>5, <2>1, WritingThePrimary, WritingTheMirror, EndingTheScaffold, SavingThePlan
       DEF Plans!CommandStep
<1>6. CASE Plans!AgentWrites
  BY <1>6, AgentWriting
<1>7. CASE Plans!Proceeds
  <2>1. Tallied
    BY <1>1, <1>7 DEF Plans!Proceeds, Tallied, PlanTypes, Plans!None
  <2>2. PlanInvariant'
    BY <1>7, <2>1, Proceeding DEF Plans!Proceeds
  <2>3. cmd = Plans!Idle
    BY <1>7 DEF Plans!Proceeds, Plans!StartImplementation, Plans!Finish
  <2> QED
    BY <2>2, <2>3
<1>8. CASE Plans!Whim
  BY <1>8, Whims
<1> QED
  BY <1>2, <1>3, <1>4, <1>5, <1>6, <1>7, <1>8 DEF Plans!Next

LEMMA PlanningInvariant == PlanningSpec => []PlanInvariant
<1>1. PlanInvariant /\ [Plans!Next]_(Plans!vars) => PlanInvariant'
  BY PlanningGoesOn
<1> QED
  BY PlanningStarts, <1>1, PTL DEF PlanningSpec, Plans!Spec

\* The folders, the documents, the checkpoint and the commands of a task stay of their
\* kinds, for any titles (start-planning.ts, file-plan-generator.ts).
THEOREM PlanningTypeCorrect == PlanningSpec => []Plans!TypeOK
<1>1. PlanInvariant => Plans!TypeOK
  <2> SUFFICES ASSUME PlanInvariant PROVE Plans!TypeOK
    OBVIOUS
  <2>1. PlanTypes
    BY DEF PlanInvariant
  <2>2. Recorded \subseteq Plans!Paths
    BY NamesDiffer
  <2>3. ck \in [stage : Stages, hasIssue : BOOLEAN, planDir : Plans!Folders \union {Plans!None},
                planPath : Plans!Paths \union {Plans!NoPath}]
    BY <2>1, <2>2 DEF PlanTypes, Checkpoints, Somewhere, Plans!None
  <2>4. cmd.at \in {"idle", "scaffold", "primary", "mirror", "summary", "save"}
    <3>1. CASE cmd = Plans!Idle
      BY <3>1 DEF Plans!Idle
    <3>2. CASE cmd # Plans!Idle
      BY <2>1, <3>2, RunsAre DEF PlanSteps
    <3> QED
      BY <3>1, <3>2
  <2>5. agent.role \in {"none", "discovery", "planner"}
    BY <2>1 DEF PlanTypes, Agents, Plans!NoAgent, Plans!None
  <2> QED
    BY <2>1, <2>3, <2>4, <2>5 DEF PlanTypes, Plans!TypeOK, Stages, Contents, Plans!None
<1> QED
  BY PlanningInvariant, <1>1, PTL

\* While a command runs, what a sub-agent or a person has written stays as it is, for
\* any titles and folders and wherever the command is stopped, except in a directory
\* the command has made itself (file-plan-generator.ts).
THEOREM WrittenWorkIsKept == PlanningSpec => WrittenWorkStays
<1> DEFINE Kept == cmd # Plans!Idle => \A p \in Plans!Paths :
                     doc[p] \in Plans!Authored /\ ~(cmd.made /\ p[1] = cmd.dir) => doc'[p] = doc[p]
<1>1. PlanInvariant /\ [Plans!Next]_(Plans!vars) => Kept
  BY PlanningGoesOn DEF SparesTheWritten
<1>2. WrittenWorkStays <=> [][Kept]_(Plans!vars)
  BY DEF WrittenWorkStays, Plans!WrittenWorkStays
<1> HIDE DEF Kept
<1>3. PlanInvariant /\ [Plans!Next]_(Plans!vars) => [Kept]_(Plans!vars)
  BY <1>1
<1>4. []PlanInvariant /\ [][Plans!Next]_(Plans!vars) => [][Kept]_(Plans!vars)
  BY <1>3, PTL
<1> QED
  BY PlanningInvariant, <1>2, <1>4, PTL DEF PlanningSpec, Plans!Spec

\* A directory that holds a report, or a plan, is there; what it holds is so in any state
\* whose documents keep what is authored.
LEMMA PopulatedIsThere ==
    ASSUME NEW f, Plans!IsPopulatedPlanDirectory(f)
    PROVE  f \in folders
  BY DEF Plans!IsPopulatedPlanDirectory, Plans!HasPopulatedDiscoveryReport,
     Plans!HasSubstantiveImplementation, Plans!ListArtifacts

LEMMA EvidenceStays ==
    ASSUME NEW f \in Plans!Folders, folders \subseteq folders',
           \A p \in Plans!Paths : doc[p] \in Plans!Authored => doc'[p] = doc[p]
    PROVE  /\ Plans!HasPopulatedDiscoveryReport(f) => Plans!HasPopulatedDiscoveryReport(f)'
           /\ Plans!HasSubstantiveImplementation(f) => Plans!HasSubstantiveImplementation(f)'
<1>1. \A d \in Plans!Docs : doc[<<f, d>>] \in Plans!Authored => doc'[<<f, d>>] = doc[<<f, d>>]
  BY DEF Plans!Paths
<1>2. ASSUME Plans!HasPopulatedDiscoveryReport(f) PROVE Plans!HasPopulatedDiscoveryReport(f)'
  <2>1. PICK d \in Plans!Docs : f \in folders /\ d[1] = "discovery" /\ doc[<<f, d>>] = "report"
    BY <1>2 DEF Plans!HasPopulatedDiscoveryReport, Plans!ListArtifacts, Plans!IsPopulated
  <2>2. f \in folders' /\ doc'[<<f, d>>] = "report"
    BY <1>1, <2>1 DEF Plans!Authored
  <2> QED
    BY <2>1, <2>2 DEF Plans!HasPopulatedDiscoveryReport, Plans!ListArtifacts, Plans!IsPopulated
<1>3. ASSUME Plans!HasSubstantiveImplementation(f) PROVE Plans!HasSubstantiveImplementation(f)'
  <2>1. PICK d \in Plans!Docs : f \in folders /\ d[1] = "implementation" /\ doc[<<f, d>>] = "plan"
    BY <1>3 DEF Plans!HasSubstantiveImplementation, Plans!ListArtifacts, Plans!IsDiscoveryShaped,
       Plans!IsPlanContentSubstantive
  <2>2. f \in folders' /\ doc'[<<f, d>>] = "plan"
    BY <1>1, <2>1 DEF Plans!Authored
  <2> QED
    BY <2>1, <2>2 DEF Plans!HasSubstantiveImplementation, Plans!ListArtifacts,
       Plans!IsDiscoveryShaped, Plans!IsPlanContentSubstantive
<1> QED
  BY <1>2, <1>3

\* What is resolved to holds the report, so it lies in the directory.
LEMMA ResolvedReport ==
    ASSUME PlanTypes, NEW f \in Plans!Folders, Plans!Content(Plans!ResolveDiscovery(f)) = "report"
    PROVE  Plans!HasPopulatedDiscoveryReport(f)
<1> DEFINE artifacts == Plans!ListArtifacts("discovery", f)
           populated == {d \in artifacts : Plans!IsPopulated(doc[<<f, d>>])}
           chosen == IF populated # {} THEN populated ELSE artifacts
<1>1. artifacts \in SUBSET Plans!Docs
  BY ListingIs DEF Plans!Kinds
<1>2. artifacts # {}
  BY DEF Plans!ResolveDiscovery, Plans!Content
<1>3. Plans!ResolveDiscovery(f) = <<f, Plans!First(chosen)>>
  BY <1>2 DEF Plans!ResolveDiscovery
<1>4. Plans!First(chosen) \in artifacts
  <2>1. chosen \in SUBSET Plans!Docs /\ chosen # {} /\ chosen \subseteq artifacts
    BY <1>1, <1>2
  <2> HIDE DEF chosen
  <2> QED
    BY <2>1, FirstIs
<1>5. doc[<<f, Plans!First(chosen)>>] = "report"
  <2>1. <<f, Plans!First(chosen)>> # Plans!NoPath
    BY DEF Plans!NoPath
  <2> QED
    BY <1>3, <2>1 DEF Plans!Content
<1> QED
  BY <1>4, <1>5 DEF Plans!HasPopulatedDiscoveryReport, Plans!IsPopulated

\* A folder with a report outranks every folder without one.
LEMMA BestHoldsTheReport ==
    ASSUME NEW candidates \in SUBSET Plans!TitleSet, NEW title,
           NEW g \in candidates, Plans!HasPopulatedDiscoveryReport(g)
    PROVE  Plans!HasPopulatedDiscoveryReport(Plans!Best(candidates, title))
<1> DEFINE Attains(r) == /\ \E f \in candidates : Plans!Rank(f, title) = r
                         /\ \A f \in candidates : Plans!Rank(f, title) >= r
           least == CHOOSE r \in 0 .. 3 : Attains(r)
           best == {f \in candidates : Plans!Rank(f, title) = least}
<1>1. \A f \in candidates : Plans!Rank(f, title) \in 0 .. 3
  BY DEF Plans!Rank
<1>2. Plans!Rank(g, title) = 0
  BY DEF Plans!Rank
<1>3. Attains(0)
  BY <1>1, <1>2
<1>4. Attains(least) /\ least \in 0 .. 3
  BY <1>3
<1>5. least = 0
  BY <1>2, <1>4
<1>6. best \in SUBSET candidates /\ best # {}
  BY <1>4
<1>7. PICK k \in {Plans!Slug(f) : f \in best} : \A j \in {Plans!Slug(f) : f \in best} : k <= j
  <2>1. {Plans!Slug(f) : f \in best} \in SUBSET Nat /\ {Plans!Slug(f) : f \in best} # {}
    BY <1>6, TitlesAre
  <2> HIDE DEF best
  <2> QED
    BY <2>1, LeastNumber
<1>8. \E f \in best : \A h \in best : Plans!Slug(f) <= Plans!Slug(h)
  BY <1>7
<1>9. (CHOOSE f \in best : \A h \in best : Plans!Slug(f) <= Plans!Slug(h)) \in best
  BY <1>8
<1>10. Plans!Rank(Plans!Best(candidates, title), title) = 0
  BY <1>5, <1>9 DEF Plans!Best
<1> QED
  BY <1>10 DEF Plans!Rank

\* With evidence, a run scaffolds where the report lies or where it has to work.
LEMMA TargetLeads ==
    ASSUME PlanTypes, cmd # Plans!Idle, ck.hasIssue, Evidence
    PROVE  Plans!Leads(Plans!ScaffoldTarget)
<1> DEFINE candidates == folders \intersect Plans!TitleSet
           populated == {f \in candidates : Plans!IsPopulatedPlanDirectory(f)}
           supplied == IF cmd.want # Plans!None THEN cmd.want ELSE cmd.recorded
<1>1. Plans!ScaffoldTarget =
        IF supplied # Plans!None /\ (Plans!IsPopulatedPlanDirectory(supplied) \/ populated = {})
        THEN supplied
        ELSE IF populated # {} THEN Plans!Best(populated, cmd.title)
        ELSE IF cmd.title \in folders \/ candidates = {} THEN cmd.title
        ELSE Plans!Best(candidates, cmd.title)
  BY DEF Plans!ScaffoldTarget, Plans!Ignored
<1>2. /\ cmd.want \in {"none", Plans!Custom} /\ cmd.recorded \in Somewhere
      /\ Plans!Folders = Plans!TitleSet \union {Plans!Custom} /\ Plans!None = "none"
  BY RunsAre, TitlesAre DEF Plans!None
<1>3. \A f : Plans!HasPopulatedDiscoveryReport(f) =>
               f \in folders /\ Plans!IsPopulatedPlanDirectory(f)
  BY PopulatedIsThere DEF Plans!IsPopulatedPlanDirectory
<1>4. \/ cmd.recorded = Plans!Custom /\ Plans!HasPopulatedDiscoveryReport(cmd.recorded)
      \/ \E g \in populated : Plans!HasPopulatedDiscoveryReport(g)
  BY <1>2, <1>3 DEF Evidence, Somewhere
<1>5. supplied \in {cmd.recorded, cmd.want}
  OBVIOUS
<1>6. populated \in SUBSET Plans!TitleSet
  OBVIOUS
<1>7. ASSUME NEW g \in populated, Plans!HasPopulatedDiscoveryReport(g)
      PROVE  Plans!HasPopulatedDiscoveryReport(Plans!Best(populated, cmd.title))
  BY <1>6, <1>7, BestHoldsTheReport
<1>8. Plans!IsPopulatedPlanDirectory(supplied) => Plans!Leads(supplied)
  BY <1>5 DEF Plans!IsPopulatedPlanDirectory, Plans!Leads
<1>9. ASSUME cmd.recorded = Plans!Custom, Plans!HasPopulatedDiscoveryReport(cmd.recorded)
      PROVE  supplied = cmd.recorded /\ supplied # Plans!None /\ Plans!IsPopulatedPlanDirectory(supplied)
  <2>1. supplied = cmd.recorded
    BY <1>2, <1>9
  <2> QED
    BY <1>3, <1>9, <2>1 DEF Plans!Custom, Plans!None
<1> HIDE DEF supplied, populated, candidates
<1>10. CASE supplied # Plans!None /\ Plans!IsPopulatedPlanDirectory(supplied)
  BY <1>1, <1>8, <1>10
<1>11. CASE ~(supplied # Plans!None /\ Plans!IsPopulatedPlanDirectory(supplied))
  <2>1. PICK g \in populated : Plans!HasPopulatedDiscoveryReport(g)
    BY <1>4, <1>9, <1>11
  <2>2. Plans!ScaffoldTarget = Plans!Best(populated, cmd.title)
    BY <1>1, <1>11, <2>1
  <2> QED
    BY <1>7, <2>1, <2>2 DEF Plans!Leads
<1> QED
  BY <1>10, <1>11

\* A run that does not park has its evidence.
LEMMA UnparkedIsEvident ==
    ASSUME PlanTypes, NEW title, NEW skip, ck.stage = "DISCOVERY", ~skip,
           ~Plans!Parks(ck, title, skip)
    PROVE  \/ ck.planDir # "none" /\ Plans!HasPopulatedDiscoveryReport(ck.planDir)
           \/ \E f \in folders \intersect Plans!TitleSet : Plans!HasPopulatedDiscoveryReport(f)
<1>1. Plans!InspectDiscoveryReport(ck.planDir, Plans!None, Plans!NoPath, title)
  BY DEF Plans!Parks
<1>2. PICK f \in {ck.planDir, Plans!None, Plans!FindPlanDirectory(title)} \ {Plans!None} :
         Plans!Content(Plans!ResolveDiscovery(f)) = "report"
  BY <1>1 DEF Plans!InspectDiscoveryReport, Plans!Content
<1>3. /\ Plans!FindPlanDirectory(title) \in Plans!TitleSet \union {"none"}
      /\ ck.planDir \in Somewhere /\ Plans!None = "none"
  BY FoundIs DEF PlanTypes, Checkpoints, Plans!None
<1>4. f \in Plans!Folders
  BY <1>2, <1>3, TitlesAre DEF Somewhere
<1>5. Plans!HasPopulatedDiscoveryReport(f)
  BY <1>2, <1>4, ResolvedReport
<1>6. f \in folders
  BY <1>5, PopulatedIsThere DEF Plans!IsPopulatedPlanDirectory
<1> QED
  BY <1>2, <1>3, <1>5, <1>6

\* A step that carries the command on.
CarriesOn ==
    /\ cmd # Plans!Idle /\ cmd' # Plans!Idle /\ UNCHANGED ck /\ folders \subseteq folders'
    /\ cmd'.dir = cmd.dir /\ cmd'.made = cmd.made /\ cmd'.op = cmd.op /\ cmd'.skip = cmd.skip
    /\ cmd'.recorded = cmd.recorded /\ cmd'.want = cmd.want
    /\ cmd'.at = "scaffold" <=> cmd.at = "scaffold"
    /\ cmd.op = "transition" => cmd'.sm = cmd.sm
    /\ cmd'.at = "save" => \/ cmd.at = "save" /\ cmd'.sm = cmd.sm
                           \/ ~cmd.made => cmd'.sm.planDir = cmd.dir

LEMMA StaysOnTheWay ==
    ASSUME PlanTypes, OnTheWay, SparesTheWritten, CarriesOn
    PROVE  OnTheWay'
<1> DEFINE bound == cmd.op = "plan" /\ ck.hasIssue /\ ck.stage = "DISCOVERY" /\ ~cmd.skip
<1>1. (cmd' # Plans!Idle /\ cmd'.op = "transition") => cmd'.sm.stage = "DISCOVERY"
  BY DEF OnTheWay, CarriesOn
<1>2. (cmd' # Plans!Idle /\ cmd'.op = "plan" /\ cmd'.at = "scaffold") => ~cmd'.made
  BY DEF OnTheWay, CarriesOn
<1>3. ASSUME ~cmd.made
      PROVE  \A p \in Plans!Paths : doc[p] \in Plans!Authored => doc'[p] = doc[p]
  BY <1>3 DEF SparesTheWritten
<1>4. /\ cmd.recorded \in Somewhere /\ cmd.dir \in Somewhere
      /\ Plans!TitleSet \subseteq Plans!Folders
  BY RunsAre, TitlesAre DEF CarriesOn
<1>5. ASSUME bound, cmd.at = "scaffold" PROVE Evidence'
  <2>1. Evidence /\ ~cmd.made
    BY <1>5 DEF OnTheWay, CarriesOn
  <2>2. \A p \in Plans!Paths : doc[p] \in Plans!Authored => doc'[p] = doc[p]
    BY <1>3, <2>1
  <2>3. folders \subseteq folders' /\ cmd'.recorded = cmd.recorded
    BY DEF CarriesOn
  <2>4. ASSUME NEW f \in Plans!Folders, Plans!HasPopulatedDiscoveryReport(f)
        PROVE  Plans!HasPopulatedDiscoveryReport(f)'
    BY <2>2, <2>3, <2>4, EvidenceStays
  <2>5. CASE cmd.recorded # "none" /\ Plans!HasPopulatedDiscoveryReport(cmd.recorded)
    <3>1. cmd.recorded \in Plans!Folders
      BY <1>4, <2>5 DEF Somewhere
    <3>2. PICK g \in Plans!Folders : g = cmd.recorded /\ Plans!HasPopulatedDiscoveryReport(g)
      BY <2>5, <3>1
    <3>3. Plans!HasPopulatedDiscoveryReport(g)' /\ cmd'.recorded = g
      BY <2>3, <2>4, <3>2
    <3> QED
      BY <2>3, <2>5, <3>3 DEF Evidence, Plans!HasPopulatedDiscoveryReport, Plans!ListArtifacts
  <2>6. CASE \E f \in folders \intersect Plans!TitleSet : Plans!HasPopulatedDiscoveryReport(f)
    <3>1. PICK f \in folders \intersect Plans!TitleSet : Plans!HasPopulatedDiscoveryReport(f)
      BY <2>6
    <3>2. Plans!HasPopulatedDiscoveryReport(f)' /\ f \in folders' \intersect Plans!TitleSet
      BY <1>4, <2>3, <2>4, <3>1
    <3> QED
      BY <3>2 DEF Evidence
  <2> QED
    BY <2>1, <2>5, <2>6 DEF Evidence
<1>6. ASSUME bound, cmd.at # "scaffold", cmd.dir # "none" PROVE ~cmd'.made /\ Plans!Leads(cmd.dir)'
  <2>1. ~cmd.made /\ Plans!Leads(cmd.dir)
    BY <1>6 DEF OnTheWay, CarriesOn
  <2>2. PICK f \in Plans!Folders : f = cmd.dir
    BY <1>4, <1>6 DEF Somewhere
  <2>3. folders \subseteq folders' /\ cmd'.dir = f /\ cmd'.made = cmd.made
        /\ cmd'.recorded = cmd.recorded /\ cmd'.want = cmd.want
    BY <2>2 DEF CarriesOn
  <2>4. /\ Plans!HasPopulatedDiscoveryReport(f) => Plans!HasPopulatedDiscoveryReport(f)'
        /\ Plans!HasSubstantiveImplementation(f) => Plans!HasSubstantiveImplementation(f)'
    BY <1>3, <2>1, <2>3, EvidenceStays
  <2>5. \/ Plans!HasPopulatedDiscoveryReport(f)
        \/ f \in {cmd.recorded, cmd.want} /\ Plans!HasSubstantiveImplementation(f)
    BY <2>1, <2>2 DEF Plans!Leads
  <2>6. Plans!Leads(f)'
    BY <2>3, <2>4, <2>5 DEF Plans!Leads
  <2> QED
    BY <2>1, <2>2, <2>3, <2>6
<1>7. ASSUME bound, cmd'.at = "save", cmd.dir # "none" PROVE cmd'.sm.planDir = cmd'.dir
  <2>1. cmd.at # "scaffold" => ~cmd.made
    BY <1>7 DEF OnTheWay, CarriesOn
  <2>2. cmd'.at # "scaffold"
    BY <1>7
  <2>3. ~cmd.made
    BY <2>1, <2>2 DEF CarriesOn
  <2>4. cmd.at = "save" => cmd.sm.planDir = cmd.dir
    BY <1>7 DEF OnTheWay, CarriesOn
  <2> QED
    BY <1>7, <2>3, <2>4 DEF CarriesOn
<1>8. bound <=> (cmd'.op = "plan" /\ ck'.hasIssue /\ ck'.stage = "DISCOVERY" /\ ~cmd'.skip)
  BY DEF CarriesOn
<1>9. (cmd'.at = "scaffold" <=> cmd.at = "scaffold") /\ cmd'.dir = cmd.dir
  BY DEF CarriesOn
<1> HIDE DEF bound
<1> QED
  BY <1>1, <1>2, <1>5, <1>6, <1>7, <1>8, <1>9 DEF OnTheWay

\* The plan command and the transitions begin in an idle repository.
LEMMA CommandsBegin ==
    /\ \A title, requested, kind, skip, feedback, want, supply :
         Plans!StartPlanning(title, requested, kind, skip, feedback, want, supply)
           => cmd = Plans!Idle
    /\ \A target, title : Plans!TransitionStage(target, title) => cmd = Plans!Idle
<1>1. ASSUME NEW title, NEW requested, NEW kind, NEW skip, NEW feedback, NEW want, NEW supply,
             Plans!StartPlanning(title, requested, kind, skip, feedback, want, supply)
      PROVE  cmd = Plans!Idle
  BY <1>1, Zenon DEF Plans!StartPlanning
<1>2. ASSUME NEW target, NEW title, Plans!TransitionStage(target, title) PROVE cmd = Plans!Idle
  BY <1>2, Zenon DEF Plans!TransitionStage
<1> QED
  BY <1>1, <1>2, Zenon

\* What a run of the plan command begins with.
LEMMA PlansBegin ==
    ASSUME NEW title, NEW requested, NEW kind, NEW skip, NEW feedback, NEW want, NEW supply,
           Plans!StartPlanning(title, requested, kind, skip, feedback, want, supply),
           cmd' # Plans!Idle
    PROVE  /\ UNCHANGED <<folders, doc, ck>>
           /\ cmd'.op = "plan" /\ cmd'.dir = "none" /\ ~cmd'.made
           /\ (cmd'.at = "scaffold" /\ ck.stage = "DISCOVERY") =>
                 /\ cmd'.recorded = ck.planDir
                 /\ cmd'.skip = (skip /\ ck.stage = "DISCOVERY")
                 /\ ~Plans!Parks(ck, title, skip)
<1> DEFINE sm == IF ck.stage = "COMPLETED" THEN Plans!New(ck.hasIssue) ELSE ck
           entry == Plans!ResolvePlanEntry(requested, kind, skip)
           skipping == skip /\ sm.stage = "DISCOVERY"
           revising == feedback /\ sm.stage = "APPROVAL"
           recorded == sm.planDir
           new == [at |-> "scaffold", op |-> "plan", sm |-> sm, title |-> title,
                   skip |-> skipping, revise |-> revising, entry |-> entry,
                   recorded |-> recorded, want |-> want, dir |-> Plans!None,
                   made |-> FALSE, primary |-> Plans!NoPath]
<1>1. /\ UNCHANGED <<folders, doc, ck>>
      /\ \/ ~Plans!Parks(sm, title, skip) /\ cmd' = new
         \/ cmd' = [new EXCEPT !.at = "save", !.sm.planPath = supply]
  BY DEF Plans!StartPlanning
<1>2. ck.stage = "DISCOVERY" => sm = ck
  OBVIOUS
<1> HIDE DEF sm, entry
<1>3. CASE ~Plans!Parks(sm, title, skip) /\ cmd' = new
  <2>1. /\ cmd'.op = "plan" /\ cmd'.dir = "none" /\ cmd'.made = FALSE
        /\ cmd'.recorded = recorded /\ cmd'.skip = skipping
    <3> HIDE DEF skipping, revising, recorded
    <3> QED
      BY <1>3 DEF Plans!None
  <2> QED
    BY <1>1, <1>2, <1>3, <2>1
<1>4. CASE cmd' = [new EXCEPT !.at = "save", !.sm.planPath = supply]
  <2>1. cmd'.op = "plan" /\ cmd'.dir = "none" /\ cmd'.made = FALSE /\ cmd'.at = "save"
    <3> HIDE DEF skipping, revising, recorded
    <3> QED
      BY <1>4 DEF Plans!None
  <2> QED
    BY <1>1, <2>1
<1> QED
  BY <1>1, <1>3, <1>4

LEMMA FollowsOn ==
    ASSUME PlanInvariant, PlanInvariant', OnTheWay, [Plans!Next]_(Plans!vars)
    PROVE  OnTheWay'
<1>1. PlanTypes /\ PlanTypes' /\ (cmd # Plans!Idle => SparesTheWritten)
  BY PlanningGoesOn DEF PlanInvariant
<1>2. CASE cmd' = Plans!Idle
  BY <1>2 DEF OnTheWay
<1>3. CASE cmd' # Plans!Idle /\ cmd = Plans!Idle
  <2>1. \/ \E title \in Plans!TitleSet, requested \in Plans!Kinds \union {"auto"},
              kind \in Plans!IssueKinds, skip, feedback \in BOOLEAN,
              want \in {Plans!None, Plans!Custom},
              supply \in {Plans!NoPath} \union (Supplied \X {Plans!Mirror}) :
           Plans!StartPlanning(title, requested, kind, skip, feedback, want, supply)
        \/ \E title \in Plans!TitleSet, target \in {"DISCOVERY", "PLAN", "APPROVAL"} :
             Plans!TransitionStage(target, title)
    <3>1. ~Plans!GetNextAction /\ ~Plans!AgentWrites /\ ~Plans!Proceeds /\ ~UNCHANGED Plans!vars
          /\ ~Plans!DirectoryRemoved /\ ~Plans!AgentStops /\ ~Plans!ScaffoldFails /\ ~Plans!Crash
      BY <1>3 DEF Plans!GetNextAction, Plans!AgentWrites, Plans!Proceeds, Plans!StartImplementation,
         Plans!Finish, Plans!vars, Plans!DirectoryRemoved, Plans!AgentStops, Plans!ScaffoldFails,
         Plans!Crash
    <3>2. ~Plans!CommandStep
      BY <1>3 DEF Plans!CommandStep, Plans!MakeDirectory, Plans!WritePrimary, Plans!WriteMirror,
         Plans!EndScaffold, Plans!SavePlan, Plans!Idle
    <3>3. CASE Plans!Obey
      <4>1. CASE \E title \in Plans!TitleSet, kind \in Plans!IssueKinds :
              Plans!StartPlanning(title, "auto", kind, FALSE, FALSE, Plans!None, Plans!NoPath)
        BY <4>1
      <4>2. CASE \E title \in Plans!TitleSet : Plans!TransitionStage("APPROVAL", title)
        BY <4>2
      <4> QED
        BY <3>3, <4>1, <4>2 DEF Plans!Obey
    <3>4. CASE Plans!Whim
      BY <3>1, <3>4 DEF Plans!Whim, Plans!Unprompted
    <3> QED
      BY <3>1, <3>2, <3>3, <3>4 DEF Plans!Next
  <2>2. ASSUME NEW title \in Plans!TitleSet, NEW requested \in Plans!Kinds \union {"auto"},
               NEW kind \in Plans!IssueKinds, NEW skip \in BOOLEAN, NEW feedback \in BOOLEAN,
               NEW want \in {Plans!None, Plans!Custom},
               NEW supply \in {Plans!NoPath} \union (Supplied \X {Plans!Mirror}),
               Plans!StartPlanning(title, requested, kind, skip, feedback, want, supply)
        PROVE  OnTheWay'
    <3>1. /\ UNCHANGED <<folders, doc, ck>>
          /\ cmd'.op = "plan" /\ cmd'.dir = "none" /\ ~cmd'.made
          /\ (cmd'.at = "scaffold" /\ ck.stage = "DISCOVERY") =>
                /\ cmd'.recorded = ck.planDir
                /\ cmd'.skip = (skip /\ ck.stage = "DISCOVERY")
                /\ ~Plans!Parks(ck, title, skip)
      BY <1>3, <2>2, PlansBegin
    <3>2. ASSUME cmd'.at = "scaffold", ck.stage = "DISCOVERY", ~cmd'.skip PROVE Evidence'
      <4>1. ~skip
        BY <3>1, <3>2
      <4>2. \/ ck.planDir # "none" /\ Plans!HasPopulatedDiscoveryReport(ck.planDir)
            \/ \E f \in folders \intersect Plans!TitleSet : Plans!HasPopulatedDiscoveryReport(f)
        BY <1>1, <3>1, <3>2, <4>1, UnparkedIsEvident
      <4> QED
        BY <3>1, <3>2, <4>2
           DEF Evidence, Plans!HasPopulatedDiscoveryReport, Plans!ListArtifacts
    <3> QED
      BY <3>1, <3>2 DEF OnTheWay
  <2>3. ASSUME NEW title \in Plans!TitleSet, NEW target \in {"DISCOVERY", "PLAN", "APPROVAL"},
               Plans!TransitionStage(target, title)
        PROVE  OnTheWay'
    <3>1. cmd'.op = "transition"
      BY <1>3, <2>3 DEF Plans!TransitionStage
    <3>2. cmd'.sm = [ck EXCEPT !.stage = "DISCOVERY"]
      BY <1>3, <2>3 DEF Plans!TransitionStage
    <3>3. cmd'.sm.stage = "DISCOVERY"
      BY <1>1, <3>2 DEF PlanTypes, Checkpoints
    <3> QED
      BY <3>1, <3>3 DEF OnTheWay
  <2> QED
    BY <2>1, <2>2, <2>3
<1>4. CASE cmd' # Plans!Idle /\ cmd # Plans!Idle
  <2>1. \/ UNCHANGED Plans!vars \/ Plans!CommandStep \/ Plans!AgentWrites \/ Plans!AgentStops
    <3>1. ~Plans!GetNextAction /\ ~Plans!Proceeds /\ ~Plans!DirectoryRemoved
          /\ ~Plans!ScaffoldFails /\ ~Plans!Crash
      BY <1>4 DEF Plans!GetNextAction, Plans!Proceeds, Plans!StartImplementation,
         Plans!Finish, Plans!DirectoryRemoved, Plans!ScaffoldFails, Plans!Crash
    <3>2. ~Plans!Obey
      BY <1>4, CommandsBegin DEF Plans!Obey
    <3>3. Plans!Whim => Plans!AgentStops
      BY <1>4, <3>1, CommandsBegin DEF Plans!Whim, Plans!Unprompted
    <3> QED
      BY <3>1, <3>2, <3>3 DEF Plans!Next
  <2>2. CASE UNCHANGED Plans!vars \/ Plans!AgentWrites \/ Plans!AgentStops
    <3>1. UNCHANGED <<cmd, ck>> /\ folders \subseteq folders'
      BY <2>2 DEF Plans!vars, Plans!AgentWrites, Plans!AgentStops
    <3>2. CarriesOn
      BY <1>4, <3>1 DEF CarriesOn
    <3> QED
      BY <1>1, <1>4, <3>2, StaysOnTheWay
  <2>3. CASE Plans!WritePrimary \/ Plans!WriteMirror
    <3>1. /\ UNCHANGED <<folders, ck>> /\ cmd.at \in {"primary", "mirror"}
          /\ \E to \in {"mirror", "summary"} : cmd' = [cmd EXCEPT !.at = to]
      BY <2>3 DEF Plans!WritePrimary, Plans!WriteMirror
    <3>2. PICK to \in {"mirror", "summary"} : cmd' = [cmd EXCEPT !.at = to]
      BY <3>1
    <3>3. /\ cmd'.at = to /\ cmd'.dir = cmd.dir /\ cmd'.made = cmd.made /\ cmd'.op = cmd.op
          /\ cmd'.skip = cmd.skip /\ cmd'.recorded = cmd.recorded /\ cmd'.want = cmd.want
          /\ cmd'.sm = cmd.sm
      BY <1>1, <1>4, <3>2, RunsAre DEF PlanRuns, TransitionRuns
    <3>4. CarriesOn
      BY <1>4, <3>1, <3>3 DEF CarriesOn
    <3> QED
      BY <1>1, <1>4, <3>4, StaysOnTheWay
  <2>4. CASE Plans!EndScaffold
    <3> DEFINE adopted == IF Plans!ShouldAdopt THEN cmd.dir ELSE cmd.sm.planDir
    <3>1. /\ cmd.op = "plan" /\ cmd.at = "summary" /\ UNCHANGED <<folders, ck>>
          /\ cmd' = [cmd EXCEPT !.at = "save", !.sm.planDir = adopted]
      BY <1>4, <2>4 DEF Plans!EndScaffold
    <3>2. ~cmd.made => adopted = cmd.dir
      BY DEF Plans!ShouldAdopt
    <3> HIDE DEF adopted
    <3>3. cmd \in PlanRuns /\ cmd.sm \in Checkpoints
      BY <1>1, <1>4, <3>1, RunsAre
    <3>4. /\ cmd'.at = "save" /\ cmd'.dir = cmd.dir /\ cmd'.made = cmd.made /\ cmd'.op = cmd.op
          /\ cmd'.skip = cmd.skip /\ cmd'.recorded = cmd.recorded /\ cmd'.want = cmd.want
          /\ cmd'.sm.planDir = adopted
      BY <3>1, <3>3 DEF PlanRuns, Checkpoints
    <3>5. CarriesOn
      BY <1>4, <3>1, <3>2, <3>4 DEF CarriesOn
    <3> QED
      BY <1>1, <1>4, <3>5, StaysOnTheWay
  <2>5. CASE Plans!MakeDirectory
    <3> DEFINE f == Plans!ScaffoldTarget
               primary == Plans!PrimaryDocument(f, cmd.entry.type, cmd.title)
    <3>1. /\ cmd.at = "scaffold" /\ folders' = folders \union {f} /\ UNCHANGED <<doc, ck>>
          /\ cmd' = [cmd EXCEPT !.at = "primary", !.dir = f, !.made = f \notin folders,
                                !.primary = primary]
      BY <2>5 DEF Plans!MakeDirectory
    <3> HIDE DEF f, primary
    <3>2. /\ cmd'.at = "primary" /\ cmd'.dir = f /\ cmd'.made = (f \notin folders)
          /\ cmd'.op = cmd.op /\ cmd'.sm = cmd.sm
          /\ cmd'.skip = cmd.skip /\ cmd'.recorded = cmd.recorded /\ cmd'.want = cmd.want
      BY <1>1, <1>4, <3>1, RunsAre DEF PlanRuns, TransitionRuns
    <3>3. ASSUME cmd.op = "plan", ck.hasIssue, ck.stage = "DISCOVERY", ~cmd.skip
          PROVE  ~cmd'.made /\ Plans!Leads(cmd.dir)'
      <4>1. Evidence
        BY <1>4, <3>1, <3>3 DEF OnTheWay
      <4>2. Plans!Leads(f)
        BY <1>1, <1>4, <3>3, <4>1, TargetLeads DEF f
      <4>3. f \in folders
        BY <4>2, PopulatedIsThere DEF Plans!Leads, Plans!IsPopulatedPlanDirectory
      <4>4. folders' = folders
        BY <3>1, <4>3
      <4> QED
        BY <3>1, <3>2, <4>2, <4>3, <4>4
           DEF Plans!Leads, Plans!HasPopulatedDiscoveryReport, Plans!HasSubstantiveImplementation,
               Plans!ListArtifacts
    <3> QED
      BY <1>4, <3>1, <3>2, <3>3 DEF OnTheWay
  <2>6. CASE Plans!SavePlan
    BY <1>4, <2>6 DEF Plans!SavePlan
  <2> QED
    BY <2>1, <2>2, <2>3, <2>4, <2>5, <2>6 DEF Plans!CommandStep
<1> QED
  BY <1>2, <1>3, <1>4

\* The plan command of an issue goes on from DISCOVERY where the report lies, or in the
\* directory it was to work in if a plan lies there, for any titles and folders, however
\* the sub-agents that write run beside it (start-planning.ts, file-plan-generator.ts).
THEOREM PlanGoesWithItsReport == PlanningSpec => PlanFollowsItsReport
<1> DEFINE Follows == ck.hasIssue /\ ck.stage = "DISCOVERY" /\ ck'.stage = "PLAN"
                        /\ cmd # Plans!Idle /\ ~cmd.skip /\ cmd.dir # Plans!None
                      => Plans!Leads(ck'.planDir)
<1>1. Plans!Init => OnTheWay
  BY DEF Plans!Init, OnTheWay
<1>2. PlanInvariant /\ PlanInvariant' /\ OnTheWay /\ [Plans!Next]_(Plans!vars) => OnTheWay'
  BY FollowsOn
<1>3. ASSUME PlanInvariant, OnTheWay, [Plans!Next]_(Plans!vars)
      PROVE  Follows
  <2> SUFFICES ASSUME ck.hasIssue, ck.stage = "DISCOVERY", ck'.stage = "PLAN",
                      cmd # Plans!Idle, ~cmd.skip, cmd.dir # Plans!None
               PROVE  Plans!Leads(ck'.planDir)
    OBVIOUS
  <2>1. PlanTypes
    BY <1>3 DEF PlanInvariant
  <2>2. Plans!EndScaffold \/ Plans!SavePlan
    <3>1. ck' # ck
      OBVIOUS
    <3>2. ~Plans!Obey /\ ~Plans!Proceeds /\ ~Plans!Whim
      <4>1. ~Plans!Obey
        BY CommandsBegin DEF Plans!Obey
      <4>2. ~Plans!Proceeds
        BY DEF Plans!Proceeds, Plans!StartImplementation, Plans!Finish
      <4>3. ~Plans!DirectoryRemoved /\ ~Plans!AgentStops /\ ~Plans!ScaffoldFails /\ ~Plans!Crash
        BY <3>1 DEF Plans!DirectoryRemoved, Plans!AgentStops, Plans!ScaffoldFails, Plans!Crash
      <4> QED
        BY <4>1, <4>2, <4>3, CommandsBegin DEF Plans!Whim, Plans!Unprompted
    <3>3. ~Plans!GetNextAction /\ ~Plans!AgentWrites /\ ~UNCHANGED Plans!vars
      BY <1>3, <3>1 DEF Plans!GetNextAction, Plans!AgentWrites, Plans!vars
    <3>4. ~Plans!MakeDirectory /\ ~Plans!WritePrimary /\ ~Plans!WriteMirror
      BY <3>1 DEF Plans!MakeDirectory, Plans!WritePrimary, Plans!WriteMirror
    <3> QED
      BY <1>3, <3>2, <3>3, <3>4 DEF Plans!Next, Plans!CommandStep
  <2>3. ~Plans!EndScaffold
    <3> SUFFICES ASSUME Plans!EndScaffold PROVE FALSE
      OBVIOUS
    <3>1. cmd.op # "plan" /\ ck' = [cmd.sm EXCEPT !.planDir = cmd.dir]
      BY DEF Plans!EndScaffold
    <3>2. cmd.op = "transition" /\ cmd.sm \in Checkpoints
      BY <2>1, <3>1, RunsAre
    <3>3. ck'.stage = cmd.sm.stage
      BY <3>1, <3>2 DEF Checkpoints
    <3> QED
      BY <1>3, <3>2, <3>3 DEF OnTheWay
  <2>4. cmd.at = "save" /\ ck' = [cmd.sm EXCEPT !.stage = Plans!PlannedStage]
    BY <2>2, <2>3 DEF Plans!SavePlan
  <2>5. cmd.op = "plan" /\ cmd.sm \in Checkpoints
    BY <2>1, <2>4, RunsAre DEF TransitionRuns, PlanSteps
  <2>6. ck'.planDir = cmd.sm.planDir
    BY <2>4, <2>5 DEF Checkpoints
  <2>7. Plans!Leads(cmd.dir) /\ cmd.sm.planDir = cmd.dir
    BY <1>3, <2>4, <2>5 DEF OnTheWay, Plans!None
  <2> QED
    BY <2>6, <2>7
<1>4. PlanningSpec => []OnTheWay
  BY <1>1, <1>2, PlanningInvariant, PTL DEF PlanningSpec, Plans!Spec
<1>5. PlanFollowsItsReport <=> [][Follows]_(Plans!vars)
  BY DEF PlanFollowsItsReport, Plans!PlanFollowsItsReport
<1> HIDE DEF Follows
<1>6. PlanInvariant /\ OnTheWay /\ [Plans!Next]_(Plans!vars) => [Follows]_(Plans!vars)
  BY <1>3
<1>7. []PlanInvariant /\ []OnTheWay /\ [][Plans!Next]_(Plans!vars) => [][Follows]_(Plans!vars)
  BY <1>6, PTL
<1> QED
  BY PlanningInvariant, <1>4, <1>5, <1>7, PTL DEF PlanningSpec, Plans!Spec

=============================================================================
