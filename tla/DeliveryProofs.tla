------------------------- MODULE DeliveryProofs -------------------------
(***************************************************************************)
(* What holds of the commit command for any paths, places, edits and number*)
(* of visits of COMMIT: what it delivers, what its teardown destroys, what *)
(* stays out of the branch and what the checkpoint records, wherever a call*)
(* fails, loses its answer or is never made.  And what holds of what       *)
(* follows on the collector branch: Coll in MCCollector.                   *)
(***************************************************************************)
EXTENDS CommitDelivery, MCCollector, FiniteSets, SequenceTheorems, WellFoundedInduction, TLAPS

\* The steps of a command that works on the tree, and those of one that has
\* committed.
BeforeCommit == {"confirm", "status", "add", "untrack", "commit"}
AfterPush == {"createPr", "save", "teardown", "saveUnbound", "report"}
AfterCommit == {"prList", "push", "fallback"} \union AfterPush

\* A file is never staged in a version the tree has yet to reach.
TreeLeads == \A p \in Paths : index[p] <= tree[p]

\* What was shown is what will be committed, or less: in the index where it was
\* staged, and until `git add` in the tree where not.
Wanted ==
    /\ \A p \in Excluded : op.wanted[p] = 0
    /\ op.pc \in BeforeCommit =>
         \A p \in Paths :
           op.wanted[p] <= IF op.staged \/ op.pc \in {"untrack", "commit"}
                           THEN index[p] ELSE tree[p]
    /\ op.pc \in AfterCommit => \A p \in Paths : op.wanted[p] <= head[p]

\* What a finished task has delivered, and what a command that has pushed will.
Delivery ==
    /\ op.pc \in AfterPush /\ HasBranch => origin = head
    /\ disk.stage # "COMMIT" => op.pc \in {"idle", "teardown", "saveUnbound", "report"}
    /\ CompletedIsDelivered

\* Only a worktree is torn down, and only after the push; what git has not by
\* then was edited late.
Destruction ==
    /\ disk.bound => HasBranch
    /\ op.pc = "teardown" => HasBranch
    /\ op.pc \in BeforeCommit \union (AfterCommit \ {"saveUnbound", "report"}) => exists
    /\ op.pc \in {"untrack", "commit"} /\ ~op.staged =>
         \A p \in Paths \ Excluded : tree[p] # index[p] => p \in late
    /\ op.pc \in AfterCommit /\ ~handStaged =>
         \A p \in Paths \ Excluded : tree[p] # head[p] => p \in late
    /\ TeardownDestroysOnlyLateEdits

\* Nothing excluded is staged when git commits, unless by hand.
Exclusion ==
    /\ op.pc = "commit" /\ ~op.staged /\ ~handStaged => \A p \in Excluded : index[p] = 0
    /\ ExcludedStayOut

\* A pull request that was seen or recorded exists.
Recording ==
    /\ op.prSeen => pr
    /\ op.record \in {"created", "existing"} => pr
    /\ RecordedPullRequestExists

CommitInvariant ==
    /\ TypeOK
    /\ TreeLeads
    /\ Wanted
    /\ Delivery
    /\ Destruction
    /\ Exclusion
    /\ Recording

-----------------------------------------------------------------------------
(* The types a step is made of.                                            *)

\* No content, and that without the scratch paths, are contents.
LEMMA ContentsOfPaths ==
    /\ Nothing \in Contents
    /\ \A c \in Contents : Ordinary(c) \in Contents
BY CommitAssumption DEF Nothing, Contents, Ordinary

\* No command is one.
LEMMA IdleIsCommand == Idle \in Commands /\ Idle.pc = "idle"
BY ContentsOfPaths DEF Idle, Commands

\* A command that goes on to its next step is one.
LEMMA GotoIsCommand ==
    ASSUME op \in Commands,
           NEW pc \in {"confirm", "status", "add", "untrack", "commit", "prList", "push",
                       "fallback", "createPr", "save", "teardown", "saveUnbound", "report"},
           Goto(pc)
    PROVE  op' \in Commands
BY DEF Goto, Commands

\* So is one that gives up, and what it says is a report.
LEMMA FailIsCommand ==
    ASSUME Fail
    PROVE  op' \in Commands /\ said' \in Reports
BY IdleIsCommand DEF Fail, Reports

\* An edit only moves the tree ahead, and counts as late.
LEMMA EditKeeps ==
    ASSUME CommitInvariant, NEW p \in Paths, Edit(p)
    PROVE  CommitInvariant'
<1>1. TypeOK'
  <2>1. op' \in Commands
    BY IdleIsCommand, GotoIsCommand, FailIsCommand, ContentsOfPaths DEF CommitInvariant,
     TypeOK, Edit
  <2>2. {tree', index', head', origin'} \subseteq Contents
    BY CommitAssumption, ContentsOfPaths DEF CommitInvariant, TypeOK, Edit, gitVars,
     Contents
  <2>3. disk' \in [stage : {"COMMIT", "COMPLETED", "IMPLEMENT", "PLAN"}, bound : BOOLEAN,
                    pullRequest : {"none", "created", "existing", "missing"},
                    promised : Contents]
    BY ContentsOfPaths DEF CommitInvariant, TypeOK, Edit
  <2>4. /\ place' \in {"worktree", "root", "detached"} /\ exists' \in BOOLEAN /\ pr' \in BOOLEAN
        /\ said' \in Reports /\ {late', lost'} \subseteq SUBSET Paths
        /\ handStaged' \in BOOLEAN
    BY FailIsCommand, CommitAssumption DEF CommitInvariant, TypeOK, Edit, gitVars,
     HasBranch, Reports
  <2>5. rounds' \in 0 .. MaxRounds
    BY CommitAssumption DEF CommitInvariant, TypeOK, Edit
  <2> QED
    BY <2>1, <2>2, <2>3, <2>4, <2>5 DEF TypeOK
<1>2. TreeLeads' /\ Recording'
  BY CommitAssumption DEF CommitInvariant, Edit, gitVars, TypeOK, Commands, Contents,
     TreeLeads, Recording, RecordedPullRequestExists, HasBranch
<1>3. Wanted'
  BY CommitAssumption DEF CommitInvariant, Edit, gitVars, TypeOK, Commands, Contents,
     Wanted, TreeLeads, BeforeCommit, AfterCommit, AfterPush
<1>4. Delivery'
  BY CommitAssumption DEF CommitInvariant, Edit, gitVars, TypeOK, Commands, Contents,
     Wanted, Delivery, CompletedIsDelivered, BeforeCommit, AfterCommit, AfterPush,
     HasBranch
<1>5. Destruction'
  BY CommitAssumption DEF CommitInvariant, Edit, gitVars, TypeOK, Commands, Contents,
     Destruction, Delivery, TeardownDestroysOnlyLateEdits, BeforeCommit, AfterCommit,
     AfterPush, HasBranch
<1>6. Exclusion'
  BY CommitAssumption DEF CommitInvariant, Edit, gitVars, TypeOK, Commands, Contents,
     Exclusion, Destruction, ExcludedStayOut, BeforeCommit, AfterCommit, AfterPush
<1> QED
  BY <1>1, <1>2, <1>3, <1>4, <1>5, <1>6 DEF CommitInvariant

\* Staging by hand moves the index up to the tree, and git remembers nothing else.
LEMMA StageByHandKeeps ==
    ASSUME CommitInvariant, NEW p \in Paths, StageByHand(p)
    PROVE  CommitInvariant'
<1>1. TypeOK'
  <2>1. op' \in Commands
    BY IdleIsCommand, GotoIsCommand, FailIsCommand, ContentsOfPaths DEF CommitInvariant,
     TypeOK, StageByHand
  <2>2. {tree', index', head', origin'} \subseteq Contents
    BY CommitAssumption, ContentsOfPaths DEF CommitInvariant, TypeOK, StageByHand, gitVars,
     Contents
  <2>3. disk' \in [stage : {"COMMIT", "COMPLETED", "IMPLEMENT", "PLAN"}, bound : BOOLEAN,
                    pullRequest : {"none", "created", "existing", "missing"},
                    promised : Contents]
    BY ContentsOfPaths DEF CommitInvariant, TypeOK, StageByHand
  <2>4. /\ place' \in {"worktree", "root", "detached"} /\ exists' \in BOOLEAN /\ pr' \in BOOLEAN
        /\ said' \in Reports /\ {late', lost'} \subseteq SUBSET Paths
        /\ handStaged' \in BOOLEAN
    BY FailIsCommand, CommitAssumption DEF CommitInvariant, TypeOK, StageByHand, gitVars,
     HasBranch, Reports
  <2>5. rounds' \in 0 .. MaxRounds
    BY CommitAssumption DEF CommitInvariant, TypeOK, StageByHand
  <2> QED
    BY <2>1, <2>2, <2>3, <2>4, <2>5 DEF TypeOK
<1>2. TreeLeads' /\ Recording'
  BY CommitAssumption DEF CommitInvariant, StageByHand, gitVars, TypeOK, Commands,
     Contents, TreeLeads, Recording, RecordedPullRequestExists, HasBranch
<1>3. Wanted'
  BY CommitAssumption DEF CommitInvariant, StageByHand, gitVars, TypeOK, Commands,
     Contents, Wanted, TreeLeads, BeforeCommit, AfterCommit, AfterPush
<1>4. Delivery'
  BY CommitAssumption DEF CommitInvariant, StageByHand, gitVars, TypeOK, Commands,
     Contents, Wanted, Delivery, CompletedIsDelivered, BeforeCommit, AfterCommit,
     AfterPush, HasBranch
<1>5. Destruction'
  BY CommitAssumption DEF CommitInvariant, StageByHand, gitVars, TypeOK, Commands,
     Contents, Destruction, Delivery, TeardownDestroysOnlyLateEdits, BeforeCommit,
     AfterCommit, AfterPush, HasBranch
<1>6. Exclusion'
  BY CommitAssumption DEF CommitInvariant, StageByHand, gitVars, TypeOK, Commands,
     Contents, Exclusion, Destruction, ExcludedStayOut, BeforeCommit, AfterCommit,
     AfterPush
<1> QED
  BY <1>1, <1>2, <1>3, <1>4, <1>5, <1>6 DEF CommitInvariant

\* A task that comes back owes nothing and has lost nothing.
LEMMA ReturnToCommitKeeps ==
    ASSUME CommitInvariant, ReturnToCommit
    PROVE  CommitInvariant'
<1>1. TypeOK'
  <2>1. op' \in Commands
    BY IdleIsCommand, GotoIsCommand, FailIsCommand, ContentsOfPaths DEF CommitInvariant,
     TypeOK, ReturnToCommit
  <2>2. {tree', index', head', origin'} \subseteq Contents
    BY CommitAssumption, ContentsOfPaths DEF CommitInvariant, TypeOK, ReturnToCommit,
     gitVars
  <2>3. disk' \in [stage : {"COMMIT", "COMPLETED", "IMPLEMENT", "PLAN"}, bound : BOOLEAN,
                    pullRequest : {"none", "created", "existing", "missing"},
                    promised : Contents]
    BY ContentsOfPaths DEF CommitInvariant, TypeOK, ReturnToCommit
  <2>4. /\ place' \in {"worktree", "root", "detached"} /\ exists' \in BOOLEAN /\ pr' \in BOOLEAN
        /\ said' \in Reports /\ {late', lost'} \subseteq SUBSET Paths
        /\ handStaged' \in BOOLEAN
    BY FailIsCommand, CommitAssumption DEF CommitInvariant, TypeOK, ReturnToCommit, gitVars,
     HasBranch, Reports
  <2>5. rounds' \in 0 .. MaxRounds
    BY CommitAssumption DEF CommitInvariant, TypeOK, ReturnToCommit
  <2> QED
    BY <2>1, <2>2, <2>3, <2>4, <2>5 DEF TypeOK
<1>2. TreeLeads' /\ Recording'
  BY CommitAssumption DEF CommitInvariant, ReturnToCommit, gitVars, TypeOK, Commands,
     Contents, TreeLeads, Recording, RecordedPullRequestExists, HasBranch, Nothing
<1>3. Wanted'
  BY CommitAssumption DEF CommitInvariant, ReturnToCommit, gitVars, TypeOK, Commands,
     Contents, Wanted, TreeLeads, BeforeCommit, AfterCommit, AfterPush, Nothing
<1>4. Delivery'
  BY CommitAssumption DEF CommitInvariant, ReturnToCommit, gitVars, TypeOK, Commands,
     Contents, Wanted, Delivery, CompletedIsDelivered, BeforeCommit, AfterCommit,
     AfterPush, HasBranch, Nothing
<1>5. Destruction'
  BY CommitAssumption DEF CommitInvariant, ReturnToCommit, gitVars, TypeOK, Commands,
     Contents, Destruction, Delivery, TeardownDestroysOnlyLateEdits, BeforeCommit,
     AfterCommit, AfterPush, HasBranch, Nothing
<1>6. Exclusion'
  BY CommitAssumption DEF CommitInvariant, ReturnToCommit, gitVars, TypeOK, Commands,
     Contents, Exclusion, Destruction, ExcludedStayOut, BeforeCommit, AfterCommit,
     AfterPush, Nothing
<1> QED
  BY <1>1, <1>2, <1>3, <1>4, <1>5, <1>6 DEF CommitInvariant

\* What a draft lists is in the tree, or in the index, as it is listed.
LEMMA DraftCommitKeeps ==
    ASSUME CommitInvariant, NEW staged \in BOOLEAN, DraftCommit(staged)
    PROVE  CommitInvariant'
<1>1. TypeOK'
  <2>1. op' \in Commands
    BY IdleIsCommand, GotoIsCommand, FailIsCommand, ContentsOfPaths DEF CommitInvariant,
     TypeOK, DraftCommit, Commands
  <2>2. {tree', index', head', origin'} \subseteq Contents
    BY CommitAssumption, ContentsOfPaths DEF CommitInvariant, TypeOK, DraftCommit, gitVars
  <2>3. disk' \in [stage : {"COMMIT", "COMPLETED", "IMPLEMENT", "PLAN"}, bound : BOOLEAN,
                    pullRequest : {"none", "created", "existing", "missing"},
                    promised : Contents]
    BY ContentsOfPaths DEF CommitInvariant, TypeOK, DraftCommit
  <2>4. /\ place' \in {"worktree", "root", "detached"} /\ exists' \in BOOLEAN /\ pr' \in BOOLEAN
        /\ said' \in Reports /\ {late', lost'} \subseteq SUBSET Paths
        /\ handStaged' \in BOOLEAN
    BY FailIsCommand, CommitAssumption DEF CommitInvariant, TypeOK, DraftCommit, gitVars,
     HasBranch, Reports
  <2>5. rounds' \in 0 .. MaxRounds
    BY CommitAssumption DEF CommitInvariant, TypeOK, DraftCommit
  <2> QED
    BY <2>1, <2>2, <2>3, <2>4, <2>5 DEF TypeOK
<1>2. TreeLeads' /\ Recording'
  BY CommitAssumption DEF CommitInvariant, DraftCommit, gitVars, TypeOK, Commands,
     Contents, TreeLeads, Recording, RecordedPullRequestExists, HasBranch, Idle, Ordinary,
     Nothing
<1>3. Wanted'
  BY CommitAssumption DEF CommitInvariant, DraftCommit, gitVars, TypeOK, Commands,
     Contents, Wanted, TreeLeads, BeforeCommit, AfterCommit, AfterPush, Idle, Ordinary,
     Nothing
<1>4. Delivery'
  BY CommitAssumption DEF CommitInvariant, DraftCommit, gitVars, TypeOK, Commands,
     Contents, Wanted, Delivery, CompletedIsDelivered, BeforeCommit, AfterCommit,
     AfterPush, HasBranch, Idle, Ordinary, Nothing
<1>5. Destruction'
  BY CommitAssumption DEF CommitInvariant, DraftCommit, gitVars, TypeOK, Commands,
     Contents, Destruction, Delivery, TeardownDestroysOnlyLateEdits, BeforeCommit,
     AfterCommit, AfterPush, HasBranch, Idle, Ordinary, Nothing
<1>6. Exclusion'
  BY CommitAssumption DEF CommitInvariant, DraftCommit, gitVars, TypeOK, Commands,
     Contents, Exclusion, Destruction, ExcludedStayOut, BeforeCommit, AfterCommit,
     AfterPush, Idle, Ordinary, Nothing
<1> QED
  BY <1>1, <1>2, <1>3, <1>4, <1>5, <1>6 DEF CommitInvariant

\* The operator's word changes nothing in git.
LEMMA ConfirmedKeeps ==
    ASSUME CommitInvariant, Confirmed
    PROVE  CommitInvariant'
<1>1. TypeOK'
  <2>1. op' \in Commands
    BY IdleIsCommand, GotoIsCommand, FailIsCommand, ContentsOfPaths DEF CommitInvariant,
     TypeOK, Confirmed
  <2>2. {tree', index', head', origin'} \subseteq Contents
    BY CommitAssumption, ContentsOfPaths DEF CommitInvariant, TypeOK, Confirmed, gitVars
  <2>3. disk' \in [stage : {"COMMIT", "COMPLETED", "IMPLEMENT", "PLAN"}, bound : BOOLEAN,
                    pullRequest : {"none", "created", "existing", "missing"},
                    promised : Contents]
    BY ContentsOfPaths DEF CommitInvariant, TypeOK, Confirmed
  <2>4. /\ place' \in {"worktree", "root", "detached"} /\ exists' \in BOOLEAN /\ pr' \in BOOLEAN
        /\ said' \in Reports /\ {late', lost'} \subseteq SUBSET Paths
        /\ handStaged' \in BOOLEAN
    BY FailIsCommand, CommitAssumption DEF CommitInvariant, TypeOK, Confirmed, gitVars,
     HasBranch, Reports
  <2>5. rounds' \in 0 .. MaxRounds
    BY CommitAssumption DEF CommitInvariant, TypeOK, Confirmed
  <2> QED
    BY <2>1, <2>2, <2>3, <2>4, <2>5 DEF TypeOK
<1>2. TreeLeads' /\ Recording'
  BY CommitAssumption DEF CommitInvariant, Confirmed, gitVars, TypeOK, Commands, Contents,
     TreeLeads, Recording, RecordedPullRequestExists, HasBranch, Goto
<1>3. Wanted'
  BY CommitAssumption DEF CommitInvariant, Confirmed, gitVars, TypeOK, Commands, Contents,
     Wanted, TreeLeads, BeforeCommit, AfterCommit, AfterPush, Goto
<1>4. Delivery'
  BY CommitAssumption DEF CommitInvariant, Confirmed, gitVars, TypeOK, Commands, Contents,
     Wanted, Delivery, CompletedIsDelivered, BeforeCommit, AfterCommit, AfterPush,
     HasBranch, Goto
<1>5. Destruction'
  BY CommitAssumption DEF CommitInvariant, Confirmed, gitVars, TypeOK, Commands, Contents,
     Destruction, Delivery, TeardownDestroysOnlyLateEdits, BeforeCommit, AfterCommit,
     AfterPush, HasBranch, Goto
<1>6. Exclusion'
  BY CommitAssumption DEF CommitInvariant, Confirmed, gitVars, TypeOK, Commands, Contents,
     Exclusion, Destruction, ExcludedStayOut, BeforeCommit, AfterCommit, AfterPush, Goto
<1> QED
  BY <1>1, <1>2, <1>3, <1>4, <1>5, <1>6 DEF CommitInvariant

\* A rejection sends the task back without finishing it.
LEMMA RejectedKeeps ==
    ASSUME CommitInvariant, Rejected
    PROVE  CommitInvariant'
<1>1. TypeOK'
  <2>1. op' \in Commands
    BY IdleIsCommand, GotoIsCommand, FailIsCommand, ContentsOfPaths DEF CommitInvariant,
     TypeOK, Rejected
  <2>2. {tree', index', head', origin'} \subseteq Contents
    BY CommitAssumption, ContentsOfPaths DEF CommitInvariant, TypeOK, Rejected, gitVars
  <2>3. disk' \in [stage : {"COMMIT", "COMPLETED", "IMPLEMENT", "PLAN"}, bound : BOOLEAN,
                    pullRequest : {"none", "created", "existing", "missing"},
                    promised : Contents]
    BY ContentsOfPaths DEF CommitInvariant, TypeOK, Rejected
  <2>4. /\ place' \in {"worktree", "root", "detached"} /\ exists' \in BOOLEAN /\ pr' \in BOOLEAN
        /\ said' \in Reports /\ {late', lost'} \subseteq SUBSET Paths
        /\ handStaged' \in BOOLEAN
    BY FailIsCommand, CommitAssumption DEF CommitInvariant, TypeOK, Rejected, gitVars,
     HasBranch, Reports
  <2>5. rounds' \in 0 .. MaxRounds
    BY CommitAssumption DEF CommitInvariant, TypeOK, Rejected
  <2> QED
    BY <2>1, <2>2, <2>3, <2>4, <2>5 DEF TypeOK
<1>2. TreeLeads' /\ Recording'
  BY CommitAssumption DEF CommitInvariant, Rejected, gitVars, TypeOK, Commands, Contents,
     TreeLeads, Recording, RecordedPullRequestExists, HasBranch, Idle
<1>3. Wanted'
  BY CommitAssumption DEF CommitInvariant, Rejected, gitVars, TypeOK, Commands, Contents,
     Wanted, TreeLeads, BeforeCommit, AfterCommit, AfterPush, Nothing, Idle
<1>4. Delivery'
  BY CommitAssumption DEF CommitInvariant, Rejected, gitVars, TypeOK, Commands, Contents,
     Wanted, Delivery, CompletedIsDelivered, BeforeCommit, AfterCommit, AfterPush,
     HasBranch, Idle
<1>5. Destruction'
  BY CommitAssumption DEF CommitInvariant, Rejected, gitVars, TypeOK, Commands, Contents,
     Destruction, Delivery, TeardownDestroysOnlyLateEdits, BeforeCommit, AfterCommit,
     AfterPush, HasBranch, Idle
<1>6. Exclusion'
  BY CommitAssumption DEF CommitInvariant, Rejected, gitVars, TypeOK, Commands, Contents,
     Exclusion, Destruction, ExcludedStayOut, BeforeCommit, AfterCommit, AfterPush, Idle
<1> QED
  BY <1>1, <1>2, <1>3, <1>4, <1>5, <1>6 DEF CommitInvariant

\* From the look at git on, a commit of staged files holds nothing late.
LEMMA CheckStatusKeeps ==
    ASSUME CommitInvariant, CheckStatus
    PROVE  CommitInvariant'
<1>1. TypeOK'
  <2>1. op' \in Commands
    BY IdleIsCommand, GotoIsCommand, FailIsCommand, ContentsOfPaths DEF CommitInvariant,
     TypeOK, CheckStatus
  <2>2. {tree', index', head', origin'} \subseteq Contents
    BY CommitAssumption, ContentsOfPaths DEF CommitInvariant, TypeOK, CheckStatus, gitVars
  <2>3. disk' \in [stage : {"COMMIT", "COMPLETED", "IMPLEMENT", "PLAN"}, bound : BOOLEAN,
                    pullRequest : {"none", "created", "existing", "missing"},
                    promised : Contents]
    BY ContentsOfPaths DEF CommitInvariant, TypeOK, CheckStatus
  <2>4. /\ place' \in {"worktree", "root", "detached"} /\ exists' \in BOOLEAN /\ pr' \in BOOLEAN
        /\ said' \in Reports /\ {late', lost'} \subseteq SUBSET Paths
        /\ handStaged' \in BOOLEAN
    BY FailIsCommand, CommitAssumption DEF CommitInvariant, TypeOK, CheckStatus, gitVars,
     HasBranch, Reports
  <2>5. rounds' \in 0 .. MaxRounds
    BY CommitAssumption DEF CommitInvariant, TypeOK, CheckStatus
  <2> QED
    BY <2>1, <2>2, <2>3, <2>4, <2>5 DEF TypeOK
<1>2. TreeLeads' /\ Recording'
  BY CommitAssumption DEF CommitInvariant, CheckStatus, gitVars, TypeOK, Commands,
     Contents, TreeLeads, Recording, RecordedPullRequestExists, HasBranch, Goto, Fail,
     Idle
<1>3. Wanted'
  BY CommitAssumption DEF CommitInvariant, CheckStatus, gitVars, TypeOK, Commands,
     Contents, Wanted, TreeLeads, BeforeCommit, AfterCommit, AfterPush, Nothing, Goto,
     Fail, Idle
<1>4. Delivery'
  BY CommitAssumption DEF CommitInvariant, CheckStatus, gitVars, TypeOK, Commands,
     Contents, Wanted, Delivery, CompletedIsDelivered, BeforeCommit, AfterCommit,
     AfterPush, HasBranch, Goto, Fail, Idle
<1>5. Destruction'
  BY CommitAssumption DEF CommitInvariant, CheckStatus, gitVars, TypeOK, Commands,
     Contents, Destruction, Delivery, TeardownDestroysOnlyLateEdits, BeforeCommit,
     AfterCommit, AfterPush, HasBranch, Goto, Fail, Idle
<1>6. Exclusion'
  BY CommitAssumption DEF CommitInvariant, CheckStatus, gitVars, TypeOK, Commands,
     Contents, Exclusion, Destruction, ExcludedStayOut, BeforeCommit, AfterCommit,
     AfterPush, Goto, Fail, Idle
<1> QED
  BY <1>1, <1>2, <1>3, <1>4, <1>5, <1>6 DEF CommitInvariant

\* After `git add` the index holds what was listed and all edits but the late.
LEMMA AddAllKeeps ==
    ASSUME CommitInvariant, AddAll
    PROVE  CommitInvariant'
<1>1. TypeOK'
  <2>1. op' \in Commands
    BY IdleIsCommand, GotoIsCommand, FailIsCommand, ContentsOfPaths DEF CommitInvariant,
     TypeOK, AddAll
  <2>2. {tree', index', head', origin'} \subseteq Contents
    BY CommitAssumption, ContentsOfPaths DEF CommitInvariant, TypeOK, AddAll, gitVars
  <2>3. disk' \in [stage : {"COMMIT", "COMPLETED", "IMPLEMENT", "PLAN"}, bound : BOOLEAN,
                    pullRequest : {"none", "created", "existing", "missing"},
                    promised : Contents]
    BY ContentsOfPaths DEF CommitInvariant, TypeOK, AddAll
  <2>4. /\ place' \in {"worktree", "root", "detached"} /\ exists' \in BOOLEAN /\ pr' \in BOOLEAN
        /\ said' \in Reports /\ {late', lost'} \subseteq SUBSET Paths
        /\ handStaged' \in BOOLEAN
    BY FailIsCommand, CommitAssumption DEF CommitInvariant, TypeOK, AddAll, gitVars,
     HasBranch, Reports
  <2>5. rounds' \in 0 .. MaxRounds
    BY CommitAssumption DEF CommitInvariant, TypeOK, AddAll
  <2> QED
    BY <2>1, <2>2, <2>3, <2>4, <2>5 DEF TypeOK
<1>2. TreeLeads' /\ Recording'
  BY CommitAssumption DEF CommitInvariant, AddAll, gitVars, TypeOK, Commands, Contents,
     TreeLeads, Recording, RecordedPullRequestExists, HasBranch, Goto, Fail, Idle
<1>3. Wanted'
  BY CommitAssumption DEF CommitInvariant, AddAll, gitVars, TypeOK, Commands, Contents,
     Wanted, TreeLeads, BeforeCommit, AfterCommit, AfterPush, Nothing, Goto, Fail, Idle
<1>4. Delivery'
  BY CommitAssumption DEF CommitInvariant, AddAll, gitVars, TypeOK, Commands, Contents,
     Wanted, Delivery, CompletedIsDelivered, BeforeCommit, AfterCommit, AfterPush,
     HasBranch, Goto, Fail, Idle
<1>5. Destruction'
  BY CommitAssumption DEF CommitInvariant, AddAll, gitVars, TypeOK, Commands, Contents,
     Destruction, Delivery, TeardownDestroysOnlyLateEdits, BeforeCommit, AfterCommit,
     AfterPush, HasBranch, Goto, Fail, Idle
<1>6. Exclusion'
  BY CommitAssumption DEF CommitInvariant, AddAll, gitVars, TypeOK, Commands, Contents,
     Exclusion, Destruction, ExcludedStayOut, BeforeCommit, AfterCommit, AfterPush, Goto,
     Fail, Idle
<1> QED
  BY <1>1, <1>2, <1>3, <1>4, <1>5, <1>6 DEF CommitInvariant

\* After `git rm --cached` nothing excluded is left in the index.
LEMMA UntrackKeeps ==
    ASSUME CommitInvariant, Untrack
    PROVE  CommitInvariant'
<1>1. TypeOK'
  <2>1. op' \in Commands
    BY IdleIsCommand, GotoIsCommand, FailIsCommand, ContentsOfPaths DEF CommitInvariant,
     TypeOK, Untrack
  <2>2. {tree', index', head', origin'} \subseteq Contents
    BY CommitAssumption, ContentsOfPaths DEF CommitInvariant, TypeOK, Untrack, gitVars
  <2>3. disk' \in [stage : {"COMMIT", "COMPLETED", "IMPLEMENT", "PLAN"}, bound : BOOLEAN,
                    pullRequest : {"none", "created", "existing", "missing"},
                    promised : Contents]
    BY ContentsOfPaths DEF CommitInvariant, TypeOK, Untrack
  <2>4. /\ place' \in {"worktree", "root", "detached"} /\ exists' \in BOOLEAN /\ pr' \in BOOLEAN
        /\ said' \in Reports /\ {late', lost'} \subseteq SUBSET Paths
        /\ handStaged' \in BOOLEAN
    BY FailIsCommand, CommitAssumption DEF CommitInvariant, TypeOK, Untrack, gitVars,
     HasBranch, Reports
  <2>5. rounds' \in 0 .. MaxRounds
    BY CommitAssumption DEF CommitInvariant, TypeOK, Untrack
  <2> QED
    BY <2>1, <2>2, <2>3, <2>4, <2>5 DEF TypeOK
<1>2. TreeLeads' /\ Recording'
  BY CommitAssumption DEF CommitInvariant, Untrack, gitVars, TypeOK, Commands, Contents,
     TreeLeads, Recording, RecordedPullRequestExists, HasBranch, Ordinary, Goto, Fail,
     Idle
<1>3. Wanted'
  BY CommitAssumption DEF CommitInvariant, Untrack, gitVars, TypeOK, Commands, Contents,
     Wanted, TreeLeads, BeforeCommit, AfterCommit, AfterPush, Nothing, Ordinary, Goto,
     Fail, Idle
<1>4. Delivery'
  BY CommitAssumption DEF CommitInvariant, Untrack, gitVars, TypeOK, Commands, Contents,
     Wanted, Delivery, CompletedIsDelivered, BeforeCommit, AfterCommit, AfterPush,
     HasBranch, Ordinary, Goto, Fail, Idle
<1>5. Destruction'
  BY CommitAssumption DEF CommitInvariant, Untrack, gitVars, TypeOK, Commands, Contents,
     Destruction, Delivery, TeardownDestroysOnlyLateEdits, BeforeCommit, AfterCommit,
     AfterPush, HasBranch, Ordinary, Goto, Fail, Idle
<1>6. Exclusion'
  BY CommitAssumption DEF CommitInvariant, Untrack, gitVars, TypeOK, Commands, Contents,
     Exclusion, Destruction, ExcludedStayOut, BeforeCommit, AfterCommit, AfterPush,
     Ordinary, Goto, Fail, Idle
<1> QED
  BY <1>1, <1>2, <1>3, <1>4, <1>5, <1>6 DEF CommitInvariant

\* The commit takes over what the index holds.
LEMMA GitCommitKeeps ==
    ASSUME CommitInvariant, GitCommit
    PROVE  CommitInvariant'
<1>1. TypeOK'
  <2>1. op' \in Commands
    BY IdleIsCommand, GotoIsCommand, FailIsCommand, ContentsOfPaths DEF CommitInvariant,
     TypeOK, GitCommit
  <2>2. {tree', index', head', origin'} \subseteq Contents
    BY CommitAssumption, ContentsOfPaths DEF CommitInvariant, TypeOK, GitCommit, gitVars
  <2>3. disk' \in [stage : {"COMMIT", "COMPLETED", "IMPLEMENT", "PLAN"}, bound : BOOLEAN,
                    pullRequest : {"none", "created", "existing", "missing"},
                    promised : Contents]
    BY ContentsOfPaths DEF CommitInvariant, TypeOK, GitCommit
  <2>4. /\ place' \in {"worktree", "root", "detached"} /\ exists' \in BOOLEAN /\ pr' \in BOOLEAN
        /\ said' \in Reports /\ {late', lost'} \subseteq SUBSET Paths
        /\ handStaged' \in BOOLEAN
    BY FailIsCommand, CommitAssumption DEF CommitInvariant, TypeOK, GitCommit, gitVars,
     HasBranch, Reports
  <2>5. rounds' \in 0 .. MaxRounds
    BY CommitAssumption DEF CommitInvariant, TypeOK, GitCommit
  <2> QED
    BY <2>1, <2>2, <2>3, <2>4, <2>5 DEF TypeOK
<1>2. TreeLeads' /\ Recording'
  BY CommitAssumption DEF CommitInvariant, GitCommit, gitVars, TypeOK, Commands, Contents,
     TreeLeads, Recording, RecordedPullRequestExists, HasBranch, Goto, Fail, Idle
<1>3. Wanted'
  BY CommitAssumption DEF CommitInvariant, GitCommit, gitVars, TypeOK, Commands, Contents,
     Wanted, TreeLeads, BeforeCommit, AfterCommit, AfterPush, Nothing, Goto, Fail, Idle
<1>4. Delivery'
  BY CommitAssumption DEF CommitInvariant, GitCommit, gitVars, TypeOK, Commands, Contents,
     Wanted, Delivery, CompletedIsDelivered, BeforeCommit, AfterCommit, AfterPush,
     HasBranch, Goto, Fail, Idle
<1>5. Destruction'
  BY CommitAssumption DEF CommitInvariant, GitCommit, gitVars, TypeOK, Commands, Contents,
     Destruction, Delivery, TeardownDestroysOnlyLateEdits, BeforeCommit, AfterCommit,
     AfterPush, HasBranch, Goto, Fail, Idle
<1>6. Exclusion'
  BY CommitAssumption DEF CommitInvariant, GitCommit, gitVars, TypeOK, Commands, Contents,
     Exclusion, Destruction, ExcludedStayOut, BeforeCommit, AfterCommit, AfterPush, Goto,
     Fail, Idle
<1> QED
  BY <1>1, <1>2, <1>3, <1>4, <1>5, <1>6 DEF CommitInvariant

\* A pull request that is seen exists.
LEMMA ListPullRequestsKeeps ==
    ASSUME CommitInvariant, ListPullRequests
    PROVE  CommitInvariant'
<1>1. TypeOK'
  <2>1. op' \in Commands
    BY IdleIsCommand, GotoIsCommand, FailIsCommand, ContentsOfPaths DEF CommitInvariant,
     TypeOK, ListPullRequests, Commands
  <2>2. {tree', index', head', origin'} \subseteq Contents
    BY CommitAssumption, ContentsOfPaths DEF CommitInvariant, TypeOK, ListPullRequests,
     gitVars
  <2>3. disk' \in [stage : {"COMMIT", "COMPLETED", "IMPLEMENT", "PLAN"}, bound : BOOLEAN,
                    pullRequest : {"none", "created", "existing", "missing"},
                    promised : Contents]
    BY ContentsOfPaths DEF CommitInvariant, TypeOK, ListPullRequests
  <2>4. /\ place' \in {"worktree", "root", "detached"} /\ exists' \in BOOLEAN /\ pr' \in BOOLEAN
        /\ said' \in Reports /\ {late', lost'} \subseteq SUBSET Paths
        /\ handStaged' \in BOOLEAN
    BY FailIsCommand, CommitAssumption DEF CommitInvariant, TypeOK, ListPullRequests,
     gitVars, HasBranch, Reports
  <2>5. rounds' \in 0 .. MaxRounds
    BY CommitAssumption DEF CommitInvariant, TypeOK, ListPullRequests
  <2> QED
    BY <2>1, <2>2, <2>3, <2>4, <2>5 DEF TypeOK
<1>2. TreeLeads' /\ Recording'
  BY CommitAssumption DEF CommitInvariant, ListPullRequests, gitVars, TypeOK, Commands,
     Contents, TreeLeads, Recording, RecordedPullRequestExists, HasBranch
<1>3. Wanted'
  BY CommitAssumption DEF CommitInvariant, ListPullRequests, gitVars, TypeOK, Commands,
     Contents, Wanted, TreeLeads, BeforeCommit, AfterCommit, AfterPush
<1>4. Delivery'
  BY CommitAssumption DEF CommitInvariant, ListPullRequests, gitVars, TypeOK, Commands,
     Contents, Wanted, Delivery, CompletedIsDelivered, BeforeCommit, AfterCommit,
     AfterPush, HasBranch
<1>5. Destruction'
  BY CommitAssumption DEF CommitInvariant, ListPullRequests, gitVars, TypeOK, Commands,
     Contents, Destruction, Delivery, TeardownDestroysOnlyLateEdits, BeforeCommit,
     AfterCommit, AfterPush, HasBranch
<1>6. Exclusion'
  BY CommitAssumption DEF CommitInvariant, ListPullRequests, gitVars, TypeOK, Commands,
     Contents, Exclusion, Destruction, ExcludedStayOut, BeforeCommit, AfterCommit,
     AfterPush
<1> QED
  BY <1>1, <1>2, <1>3, <1>4, <1>5, <1>6 DEF CommitInvariant

\* A push that answers has arrived, and one that fails delivers or does not.
LEMMA PushKeeps ==
    ASSUME CommitInvariant, op.pc \in {"push", "fallback"},
           NEW onFailure \in {"throw", "fallback"}, Push(onFailure)
    PROVE  CommitInvariant'
<1>1. TypeOK'
  <2>1. op' \in Commands
    BY IdleIsCommand, GotoIsCommand, FailIsCommand, ContentsOfPaths DEF CommitInvariant,
     TypeOK, Push
  <2>2. {tree', index', head', origin'} \subseteq Contents
    BY CommitAssumption, ContentsOfPaths DEF CommitInvariant, TypeOK, Push, gitVars
  <2>3. disk' \in [stage : {"COMMIT", "COMPLETED", "IMPLEMENT", "PLAN"}, bound : BOOLEAN,
                    pullRequest : {"none", "created", "existing", "missing"},
                    promised : Contents]
    BY ContentsOfPaths DEF CommitInvariant, TypeOK, Push
  <2>4. /\ place' \in {"worktree", "root", "detached"} /\ exists' \in BOOLEAN /\ pr' \in BOOLEAN
        /\ said' \in Reports /\ {late', lost'} \subseteq SUBSET Paths
        /\ handStaged' \in BOOLEAN
    BY FailIsCommand, CommitAssumption DEF CommitInvariant, TypeOK, Push, gitVars,
     HasBranch, Reports
  <2>5. rounds' \in 0 .. MaxRounds
    BY CommitAssumption DEF CommitInvariant, TypeOK, Push
  <2> QED
    BY <2>1, <2>2, <2>3, <2>4, <2>5 DEF TypeOK
<1>2. TreeLeads' /\ Recording'
  BY CommitAssumption DEF CommitInvariant, Push, gitVars, TypeOK, Commands, Contents,
     TreeLeads, Recording, RecordedPullRequestExists, HasBranch, Goto, Fail, Idle
<1>3. Wanted'
  BY CommitAssumption DEF CommitInvariant, Push, gitVars, TypeOK, Commands, Contents,
     Wanted, TreeLeads, BeforeCommit, AfterCommit, AfterPush, Nothing, Goto, Fail, Idle
<1>4. Delivery'
  BY CommitAssumption DEF CommitInvariant, Push, gitVars, TypeOK, Commands, Contents,
     Wanted, Delivery, CompletedIsDelivered, BeforeCommit, AfterCommit, AfterPush,
     HasBranch, Goto, Fail, Idle
<1>5. Destruction'
  BY CommitAssumption DEF CommitInvariant, Push, gitVars, TypeOK, Commands, Contents,
     Destruction, Delivery, TeardownDestroysOnlyLateEdits, BeforeCommit, AfterCommit,
     AfterPush, HasBranch, Goto, Fail, Idle
<1>6. Exclusion'
  BY CommitAssumption DEF CommitInvariant, Push, gitVars, TypeOK, Commands, Contents,
     Exclusion, Destruction, ExcludedStayOut, BeforeCommit, AfterCommit, AfterPush, Goto,
     Fail, Idle
<1> QED
  BY <1>1, <1>2, <1>3, <1>4, <1>5, <1>6 DEF CommitInvariant

\* The first push may end either way, the second may only throw.
LEMMA PushesKeep ==
    ASSUME CommitInvariant, FirstPush \/ FallbackPush
    PROVE  CommitInvariant'
BY PushKeeps DEF FirstPush, FallbackPush

\* A pull request counts as created when gh says so.
LEMMA CreatePullRequestKeeps ==
    ASSUME CommitInvariant, CreatePullRequest
    PROVE  CommitInvariant'
<1>1. TypeOK'
  <2>1. op' \in Commands
    BY IdleIsCommand, GotoIsCommand, FailIsCommand, ContentsOfPaths DEF CommitInvariant,
     TypeOK, CreatePullRequest, Commands
  <2>2. {tree', index', head', origin'} \subseteq Contents
    BY CommitAssumption, ContentsOfPaths DEF CommitInvariant, TypeOK, CreatePullRequest,
     gitVars
  <2>3. disk' \in [stage : {"COMMIT", "COMPLETED", "IMPLEMENT", "PLAN"}, bound : BOOLEAN,
                    pullRequest : {"none", "created", "existing", "missing"},
                    promised : Contents]
    BY ContentsOfPaths DEF CommitInvariant, TypeOK, CreatePullRequest
  <2>4. /\ place' \in {"worktree", "root", "detached"} /\ exists' \in BOOLEAN /\ pr' \in BOOLEAN
        /\ said' \in Reports /\ {late', lost'} \subseteq SUBSET Paths
        /\ handStaged' \in BOOLEAN
    BY FailIsCommand, CommitAssumption DEF CommitInvariant, TypeOK, CreatePullRequest,
     gitVars, HasBranch, Reports
  <2>5. rounds' \in 0 .. MaxRounds
    BY CommitAssumption DEF CommitInvariant, TypeOK, CreatePullRequest
  <2> QED
    BY <2>1, <2>2, <2>3, <2>4, <2>5 DEF TypeOK
<1>2. TreeLeads' /\ Recording'
  BY CommitAssumption DEF CommitInvariant, CreatePullRequest, gitVars, TypeOK, Commands,
     Contents, TreeLeads, Recording, RecordedPullRequestExists, HasBranch
<1>3. Wanted'
  BY CommitAssumption DEF CommitInvariant, CreatePullRequest, gitVars, TypeOK, Commands,
     Contents, Wanted, TreeLeads, BeforeCommit, AfterCommit, AfterPush
<1>4. Delivery'
  BY CommitAssumption DEF CommitInvariant, CreatePullRequest, gitVars, TypeOK, Commands,
     Contents, Wanted, Delivery, CompletedIsDelivered, BeforeCommit, AfterCommit,
     AfterPush, HasBranch
<1>5. Destruction'
  BY CommitAssumption DEF CommitInvariant, CreatePullRequest, gitVars, TypeOK, Commands,
     Contents, Destruction, Delivery, TeardownDestroysOnlyLateEdits, BeforeCommit,
     AfterCommit, AfterPush, HasBranch
<1>6. Exclusion'
  BY CommitAssumption DEF CommitInvariant, CreatePullRequest, gitVars, TypeOK, Commands,
     Contents, Exclusion, Destruction, ExcludedStayOut, BeforeCommit, AfterCommit,
     AfterPush
<1> QED
  BY <1>1, <1>2, <1>3, <1>4, <1>5, <1>6 DEF CommitInvariant

\* COMPLETED is saved after the push.
LEMMA SaveKeeps ==
    ASSUME CommitInvariant, Save
    PROVE  CommitInvariant'
<1>1. TypeOK'
  <2>1. op' \in Commands
    BY IdleIsCommand, GotoIsCommand, FailIsCommand, ContentsOfPaths DEF CommitInvariant,
     TypeOK, Save
  <2>2. {tree', index', head', origin'} \subseteq Contents
    BY CommitAssumption, ContentsOfPaths DEF CommitInvariant, TypeOK, Save, gitVars
  <2>3. disk' \in [stage : {"COMMIT", "COMPLETED", "IMPLEMENT", "PLAN"}, bound : BOOLEAN,
                    pullRequest : {"none", "created", "existing", "missing"},
                    promised : Contents]
    BY ContentsOfPaths DEF CommitInvariant, TypeOK, Save, Commands
  <2>4. /\ place' \in {"worktree", "root", "detached"} /\ exists' \in BOOLEAN /\ pr' \in BOOLEAN
        /\ said' \in Reports /\ {late', lost'} \subseteq SUBSET Paths
        /\ handStaged' \in BOOLEAN
    BY FailIsCommand, CommitAssumption DEF CommitInvariant, TypeOK, Save, gitVars,
     HasBranch, Reports
  <2>5. rounds' \in 0 .. MaxRounds
    BY CommitAssumption DEF CommitInvariant, TypeOK, Save
  <2> QED
    BY <2>1, <2>2, <2>3, <2>4, <2>5 DEF TypeOK
<1>2. TreeLeads' /\ Recording'
  BY CommitAssumption DEF CommitInvariant, Save, gitVars, TypeOK, Commands, Contents,
     TreeLeads, Recording, RecordedPullRequestExists, HasBranch, Goto
<1>3. Wanted'
  BY CommitAssumption DEF CommitInvariant, Save, gitVars, TypeOK, Commands, Contents,
     Wanted, TreeLeads, BeforeCommit, AfterCommit, AfterPush, Goto
<1>4. Delivery'
  BY CommitAssumption DEF CommitInvariant, Save, gitVars, TypeOK, Commands, Contents,
     Wanted, Delivery, CompletedIsDelivered, BeforeCommit, AfterCommit, AfterPush,
     HasBranch, Goto
<1>5. Destruction'
  BY CommitAssumption DEF CommitInvariant, Save, gitVars, TypeOK, Commands, Contents,
     Destruction, Delivery, TeardownDestroysOnlyLateEdits, BeforeCommit, AfterCommit,
     AfterPush, HasBranch, Goto
<1>6. Exclusion'
  BY CommitAssumption DEF CommitInvariant, Save, gitVars, TypeOK, Commands, Contents,
     Exclusion, Destruction, ExcludedStayOut, BeforeCommit, AfterCommit, AfterPush, Goto
<1> QED
  BY <1>1, <1>2, <1>3, <1>4, <1>5, <1>6 DEF CommitInvariant

\* What goes with the worktree was edited late.
LEMMA TeardownKeeps ==
    ASSUME CommitInvariant, Teardown
    PROVE  CommitInvariant'
<1>1. TypeOK'
  <2>1. op' \in Commands
    BY IdleIsCommand, GotoIsCommand, FailIsCommand, ContentsOfPaths DEF CommitInvariant,
     TypeOK, Teardown
  <2>2. {tree', index', head', origin'} \subseteq Contents
    BY CommitAssumption, ContentsOfPaths DEF CommitInvariant, TypeOK, Teardown, gitVars
  <2>3. disk' \in [stage : {"COMMIT", "COMPLETED", "IMPLEMENT", "PLAN"}, bound : BOOLEAN,
                    pullRequest : {"none", "created", "existing", "missing"},
                    promised : Contents]
    BY ContentsOfPaths DEF CommitInvariant, TypeOK, Teardown
  <2>4. /\ place' \in {"worktree", "root", "detached"} /\ exists' \in BOOLEAN /\ pr' \in BOOLEAN
        /\ said' \in Reports /\ {late', lost'} \subseteq SUBSET Paths
        /\ handStaged' \in BOOLEAN
    BY FailIsCommand, CommitAssumption DEF CommitInvariant, TypeOK, Teardown, gitVars,
     HasBranch, Reports
  <2>5. rounds' \in 0 .. MaxRounds
    BY CommitAssumption DEF CommitInvariant, TypeOK, Teardown
  <2> QED
    BY <2>1, <2>2, <2>3, <2>4, <2>5 DEF TypeOK
<1>2. TreeLeads' /\ Recording'
  BY CommitAssumption DEF CommitInvariant, Teardown, gitVars, TypeOK, Commands, Contents,
     TreeLeads, Recording, RecordedPullRequestExists, HasBranch, Goto
<1>3. Wanted'
  BY CommitAssumption DEF CommitInvariant, Teardown, gitVars, TypeOK, Commands, Contents,
     Wanted, TreeLeads, BeforeCommit, AfterCommit, AfterPush, Goto
<1>4. Delivery'
  BY CommitAssumption DEF CommitInvariant, Teardown, gitVars, TypeOK, Commands, Contents,
     Wanted, Delivery, CompletedIsDelivered, BeforeCommit, AfterCommit, AfterPush,
     HasBranch, Goto
<1>5. Destruction'
  BY CommitAssumption DEF CommitInvariant, Teardown, gitVars, TypeOK, Commands, Contents,
     Destruction, Delivery, TeardownDestroysOnlyLateEdits, BeforeCommit, AfterCommit,
     AfterPush, HasBranch, Goto
<1>6. Exclusion'
  BY CommitAssumption DEF CommitInvariant, Teardown, gitVars, TypeOK, Commands, Contents,
     Exclusion, Destruction, ExcludedStayOut, BeforeCommit, AfterCommit, AfterPush, Goto
<1> QED
  BY <1>1, <1>2, <1>3, <1>4, <1>5, <1>6 DEF CommitInvariant

\* Forgetting the worktree changes nothing else.
LEMMA SaveUnboundKeeps ==
    ASSUME CommitInvariant, SaveUnbound
    PROVE  CommitInvariant'
<1>1. TypeOK'
  <2>1. op' \in Commands
    BY IdleIsCommand, GotoIsCommand, FailIsCommand, ContentsOfPaths DEF CommitInvariant,
     TypeOK, SaveUnbound
  <2>2. {tree', index', head', origin'} \subseteq Contents
    BY CommitAssumption, ContentsOfPaths DEF CommitInvariant, TypeOK, SaveUnbound, gitVars
  <2>3. disk' \in [stage : {"COMMIT", "COMPLETED", "IMPLEMENT", "PLAN"}, bound : BOOLEAN,
                    pullRequest : {"none", "created", "existing", "missing"},
                    promised : Contents]
    BY ContentsOfPaths DEF CommitInvariant, TypeOK, SaveUnbound
  <2>4. /\ place' \in {"worktree", "root", "detached"} /\ exists' \in BOOLEAN /\ pr' \in BOOLEAN
        /\ said' \in Reports /\ {late', lost'} \subseteq SUBSET Paths
        /\ handStaged' \in BOOLEAN
    BY FailIsCommand, CommitAssumption DEF CommitInvariant, TypeOK, SaveUnbound, gitVars,
     HasBranch, Reports
  <2>5. rounds' \in 0 .. MaxRounds
    BY CommitAssumption DEF CommitInvariant, TypeOK, SaveUnbound
  <2> QED
    BY <2>1, <2>2, <2>3, <2>4, <2>5 DEF TypeOK
<1>2. TreeLeads' /\ Recording'
  BY CommitAssumption DEF CommitInvariant, SaveUnbound, gitVars, TypeOK, Commands,
     Contents, TreeLeads, Recording, RecordedPullRequestExists, HasBranch, Goto
<1>3. Wanted'
  BY CommitAssumption DEF CommitInvariant, SaveUnbound, gitVars, TypeOK, Commands,
     Contents, Wanted, TreeLeads, BeforeCommit, AfterCommit, AfterPush, Goto
<1>4. Delivery'
  BY CommitAssumption DEF CommitInvariant, SaveUnbound, gitVars, TypeOK, Commands,
     Contents, Wanted, Delivery, CompletedIsDelivered, BeforeCommit, AfterCommit,
     AfterPush, HasBranch, Goto
<1>5. Destruction'
  BY CommitAssumption DEF CommitInvariant, SaveUnbound, gitVars, TypeOK, Commands,
     Contents, Destruction, Delivery, TeardownDestroysOnlyLateEdits, BeforeCommit,
     AfterCommit, AfterPush, HasBranch, Goto
<1>6. Exclusion'
  BY CommitAssumption DEF CommitInvariant, SaveUnbound, gitVars, TypeOK, Commands,
     Contents, Exclusion, Destruction, ExcludedStayOut, BeforeCommit, AfterCommit,
     AfterPush, Goto
<1> QED
  BY <1>1, <1>2, <1>3, <1>4, <1>5, <1>6 DEF CommitInvariant

\* A report changes nothing but what the operator knows.
LEMMA ReportKeeps ==
    ASSUME CommitInvariant, Report
    PROVE  CommitInvariant'
<1>1. TypeOK'
  <2>1. op' \in Commands
    BY IdleIsCommand, GotoIsCommand, FailIsCommand, ContentsOfPaths DEF CommitInvariant,
     TypeOK, Report
  <2>2. {tree', index', head', origin'} \subseteq Contents
    BY CommitAssumption, ContentsOfPaths DEF CommitInvariant, TypeOK, Report, gitVars
  <2>3. disk' \in [stage : {"COMMIT", "COMPLETED", "IMPLEMENT", "PLAN"}, bound : BOOLEAN,
                    pullRequest : {"none", "created", "existing", "missing"},
                    promised : Contents]
    BY ContentsOfPaths DEF CommitInvariant, TypeOK, Report
  <2>4. /\ place' \in {"worktree", "root", "detached"} /\ exists' \in BOOLEAN /\ pr' \in BOOLEAN
        /\ said' \in Reports /\ {late', lost'} \subseteq SUBSET Paths
        /\ handStaged' \in BOOLEAN
    BY FailIsCommand, CommitAssumption DEF CommitInvariant, TypeOK, Report, gitVars,
     HasBranch, Reports
  <2>5. rounds' \in 0 .. MaxRounds
    BY CommitAssumption DEF CommitInvariant, TypeOK, Report
  <2> QED
    BY <2>1, <2>2, <2>3, <2>4, <2>5 DEF TypeOK
<1>2. TreeLeads' /\ Recording'
  BY CommitAssumption DEF CommitInvariant, Report, gitVars, TypeOK, Commands, Contents,
     TreeLeads, Recording, RecordedPullRequestExists, HasBranch, Idle
<1>3. Wanted'
  BY CommitAssumption DEF CommitInvariant, Report, gitVars, TypeOK, Commands, Contents,
     Wanted, TreeLeads, BeforeCommit, AfterCommit, AfterPush, Nothing, Idle
<1>4. Delivery'
  BY CommitAssumption DEF CommitInvariant, Report, gitVars, TypeOK, Commands, Contents,
     Wanted, Delivery, CompletedIsDelivered, BeforeCommit, AfterCommit, AfterPush,
     HasBranch, Idle
<1>5. Destruction'
  BY CommitAssumption DEF CommitInvariant, Report, gitVars, TypeOK, Commands, Contents,
     Destruction, Delivery, TeardownDestroysOnlyLateEdits, BeforeCommit, AfterCommit,
     AfterPush, HasBranch, Idle
<1>6. Exclusion'
  BY CommitAssumption DEF CommitInvariant, Report, gitVars, TypeOK, Commands, Contents,
     Exclusion, Destruction, ExcludedStayOut, BeforeCommit, AfterCommit, AfterPush, Idle
<1> QED
  BY <1>1, <1>2, <1>3, <1>4, <1>5, <1>6 DEF CommitInvariant

\* A killed command leaves what git and the checkpoint hold.
LEMMA CrashKeeps ==
    ASSUME CommitInvariant, Crash
    PROVE  CommitInvariant'
<1>1. TypeOK'
  <2>1. op' \in Commands
    BY IdleIsCommand, GotoIsCommand, FailIsCommand, ContentsOfPaths DEF CommitInvariant,
     TypeOK, Crash
  <2>2. {tree', index', head', origin'} \subseteq Contents
    BY CommitAssumption, ContentsOfPaths DEF CommitInvariant, TypeOK, Crash, gitVars
  <2>3. disk' \in [stage : {"COMMIT", "COMPLETED", "IMPLEMENT", "PLAN"}, bound : BOOLEAN,
                    pullRequest : {"none", "created", "existing", "missing"},
                    promised : Contents]
    BY ContentsOfPaths DEF CommitInvariant, TypeOK, Crash
  <2>4. /\ place' \in {"worktree", "root", "detached"} /\ exists' \in BOOLEAN /\ pr' \in BOOLEAN
        /\ said' \in Reports /\ {late', lost'} \subseteq SUBSET Paths
        /\ handStaged' \in BOOLEAN
    BY FailIsCommand, CommitAssumption DEF CommitInvariant, TypeOK, Crash, gitVars,
     HasBranch, Reports
  <2>5. rounds' \in 0 .. MaxRounds
    BY CommitAssumption DEF CommitInvariant, TypeOK, Crash
  <2> QED
    BY <2>1, <2>2, <2>3, <2>4, <2>5 DEF TypeOK
<1>2. TreeLeads' /\ Recording'
  BY CommitAssumption DEF CommitInvariant, Crash, gitVars, TypeOK, Commands, Contents,
     TreeLeads, Recording, RecordedPullRequestExists, HasBranch, Idle
<1>3. Wanted'
  BY CommitAssumption DEF CommitInvariant, Crash, gitVars, TypeOK, Commands, Contents,
     Wanted, TreeLeads, BeforeCommit, AfterCommit, AfterPush, Nothing, Idle
<1>4. Delivery'
  BY CommitAssumption DEF CommitInvariant, Crash, gitVars, TypeOK, Commands, Contents,
     Wanted, Delivery, CompletedIsDelivered, BeforeCommit, AfterCommit, AfterPush,
     HasBranch, Idle
<1>5. Destruction'
  BY CommitAssumption DEF CommitInvariant, Crash, gitVars, TypeOK, Commands, Contents,
     Destruction, Delivery, TeardownDestroysOnlyLateEdits, BeforeCommit, AfterCommit,
     AfterPush, HasBranch, Idle
<1>6. Exclusion'
  BY CommitAssumption DEF CommitInvariant, Crash, gitVars, TypeOK, Commands, Contents,
     Exclusion, Destruction, ExcludedStayOut, BeforeCommit, AfterCommit, AfterPush, Idle
<1> QED
  BY <1>1, <1>2, <1>3, <1>4, <1>5, <1>6 DEF CommitInvariant

-----------------------------------------------------------------------------
(* The theorems.                                                           *)

\* A task comes to COMMIT with everything committed and nothing lost.
LEMMA InitEstablishes ==
    ASSUME Init
    PROVE  CommitInvariant
<1>1. BranchContent \in Contents
  BY CommitAssumption DEF BranchContent, Contents
<1>2. TypeOK
  <2>1. {tree, index, head, origin} \subseteq Contents /\ op \in Commands
    BY <1>1, IdleIsCommand DEF Init
  <2>2. disk \in [stage : {"COMMIT", "COMPLETED", "IMPLEMENT", "PLAN"}, bound : BOOLEAN,
                  pullRequest : {"none", "created", "existing", "missing"},
                  promised : Contents]
    BY ContentsOfPaths DEF Init
  <2>3. place \in {"worktree", "root", "detached"} /\ rounds \in 0 .. MaxRounds
    BY CommitAssumption DEF Init
  <2> QED
    BY <2>1, <2>2, <2>3 DEF Init, TypeOK, Reports
<1>3. \A p \in Excluded : head[p] = 0
  BY CommitAssumption DEF Init, BranchContent
<1>4. TreeLeads /\ Wanted /\ Exclusion
  BY <1>1, <1>3, CommitAssumption DEF Init, TreeLeads, Wanted, Exclusion, ExcludedStayOut,
     Idle, Nothing, BeforeCommit, AfterCommit, AfterPush, Contents
<1>5. Delivery /\ Destruction /\ Recording
  BY DEF Init, Delivery, CompletedIsDelivered, Destruction, TeardownDestroysOnlyLateEdits,
     Recording, RecordedPullRequestExists, Idle, BeforeCommit, AfterCommit, AfterPush, HasBranch
<1> QED
  BY <1>2, <1>4, <1>5 DEF CommitInvariant

\* Every step of the command and of its surroundings keeps the invariant.
LEMMA NextKeeps ==
    ASSUME CommitInvariant, [Next]_vars
    PROVE  CommitInvariant'
<1>1. CASE Next
  BY <1>1, EditKeeps, StageByHandKeeps, ReturnToCommitKeeps, DraftCommitKeeps,
     ConfirmedKeeps, RejectedKeeps, CheckStatusKeeps, AddAllKeeps, UntrackKeeps,
     GitCommitKeeps, ListPullRequestsKeeps, PushesKeep, CreatePullRequestKeeps, SaveKeeps,
     TeardownKeeps, SaveUnboundKeeps, ReportKeeps, CrashKeeps DEF Next
<1>2. CASE UNCHANGED vars
  BY <1>2 DEF vars, gitVars, CommitInvariant, TypeOK, TreeLeads, Wanted, Delivery,
     CompletedIsDelivered, Destruction, TeardownDestroysOnlyLateEdits, Exclusion,
     ExcludedStayOut, Recording, RecordedPullRequestExists, HasBranch
<1> QED
  BY <1>1, <1>2

\* The inductive invariant holds of every behaviour of the command.
THEOREM CommitInvariantHolds == Spec => []CommitInvariant
<1>1. Init => CommitInvariant
  BY InitEstablishes
<1>2. CommitInvariant /\ [Next]_vars => CommitInvariant'
  BY NextKeeps
<1> QED
  BY <1>1, <1>2, PTL DEF Spec

\* The variables keep their types: what git holds of a path stays a version of
\* it, whatever call of execute-commit.ts fails or is never made.
THEOREM CommitTypeCorrect == Spec => []TypeOK
<1>1. CommitInvariant => TypeOK
  BY DEF CommitInvariant
<1> QED
  BY <1>1, CommitInvariantHolds, PTL

\* A task saved as COMPLETED that had a branch is on the remote, each listed
\* path at least as the operator confirmed it: execute-commit.ts saves after
\* the push, and a failed push throws.
THEOREM FinishedTasksAreDelivered == Spec => []CompletedIsDelivered
<1>1. CommitInvariant => CompletedIsDelivered
  BY DEF CommitInvariant, Delivery
<1> QED
  BY <1>1, CommitInvariantHolds, PTL

\* The forced removal of a worktree destroys only what was edited after the
\* command staged the tree, or what a commit of staged files left out.
THEOREM TeardownSparesTheRest == Spec => []TeardownDestroysOnlyLateEdits
<1>1. CommitInvariant => TeardownDestroysOnlyLateEdits
  BY DEF CommitInvariant, Destruction
<1> QED
  BY <1>1, CommitInvariantHolds, PTL

\* COMMIT_EXCLUDED_PATHSPECS stay out of the branch after any failure or crash
\* between `git add` and `git rm --cached`.
THEOREM ScratchPathsStayOut == Spec => []ExcludedStayOut
<1>1. CommitInvariant => ExcludedStayOut
  BY DEF CommitInvariant, Exclusion
<1> QED
  BY <1>1, CommitInvariantHolds, PTL

\* The checkpoint never records a pull request that GitHub does not have,
\* whichever answers of gh are lost.
THEOREM RecordedPullRequestsExist == Spec => []RecordedPullRequestExists
<1>1. CommitInvariant => RecordedPullRequestExists
  BY DEF CommitInvariant, Recording
<1> QED
  BY <1>1, CommitInvariantHolds, PTL

----------------------------------------------------------------------------
(* The collector: what a sync that reports success closed, and what the    *)
(* label of a release covers, for any pull requests, messages, page sizes  *)
(* and failing calls.                                                      *)

\* Collector's operators under their own names.
Levels == {"patch", "minor", "major"}
Working == {"next", "view", "read", "close", "comment"}
AtPull == Working \ {"next"}

\* A release pull request.
PullRequest == [state : {"open", "merged", "closed"}, labels : SUBSET Levels, upTo : Nat]

\* The release command.
Releases == [pc : {"idle", "label", "find", "create"}, refresh : BOOLEAN, label : Levels, upTo : Nat]

\* The sync command.
Syncs == [pc : {"idle", "end", "pull", "list"} \union Working, limit : Nat, list : Seq(Pulls),
          at : Nat, incomplete : BOOLEAN, warned : BOOLEAN, reopened : SUBSET Issues]

CollectorTypes ==
    /\ merged \in Seq(Pulls)
    /\ issue \in [Issues -> {"OPEN", "CLOSED"}]
    /\ releases \in Seq(PullRequest)
    /\ labels \subseteq Levels
    /\ local \in 0 .. Len(merged) /\ localBase \in 0 .. released /\ released \in 0 .. Len(merged)
    /\ sync \in Syncs
    /\ rel \in Releases

\* A sync that works on pull requests has the merged ones, the newest first, and
\* among them all that the local branch has.
Listed ==
    /\ sync.at <= Len(sync.list)
    /\ sync.pc \in {"pull", "list"} => sync.at = 0
    /\ sync.pc \in AtPull => sync.at > 0 /\ sync.list[sync.at].closes \in Issues
    /\ sync.pc \in Working =>
          /\ local <= Len(sync.list) /\ Len(sync.list) <= Len(merged)
          /\ \A n \in 1 .. Len(sync.list) : sync.list[n] = merged[Len(sync.list) + 1 - n]

\* Of the pull requests behind it every issue is closed, unless the sync has said
\* otherwise or a person opened it again.
Handled ==
    sync.pc \in Working /\ ~sync.incomplete /\ ~sync.warned =>
        \A k \in 1 .. sync.at : k < sync.at \/ sync.pc \in {"next", "comment"} =>
            \A i \in Issues \ sync.reopened : Coll!Does(sync.list[k], i) => issue[i] = "CLOSED"

\* Lines with the same words mean the same: of two that differ, the code counts the
\* newer one only.
SameWordsMeanTheSame ==
    \A p, q \in Pulls :
        \A m \in DOMAIN Coll!EntriesOf(p.commit), n \in DOMAIN Coll!EntriesOf(q.commit) :
            Coll!EntriesOf(p.commit)[m].words = Coll!EntriesOf(q.commit)[n].words
              => Coll!EntriesOf(p.commit)[m] = Coll!EntriesOf(q.commit)[n]

\* The labels are as high as the commits after `from` need, as long as the same words
\* mean the same.
Covered(given, from, to) ==
    SameWordsMeanTheSame =>
        \A n \in from + 1 .. to :
            /\ Coll!Breaks(merged[n].commit) => "major" \in given
            /\ Coll!Adds(merged[n].commit) => given \intersect {"minor", "major"} # {}

\* The label a release is to get, and the labels of the newest one, cover what is
\* not released of the commits they were computed for.
Labelled ==
    /\ rel.pc # "idle" => rel.upTo <= Len(merged) /\ Covered({rel.label}, released, rel.upTo)
    /\ releases # <<>> =>
          /\ releases[Len(releases)].upTo <= Len(merged)
          /\ Covered(releases[Len(releases)].labels, released, releases[Len(releases)].upTo)

CollectorInvariant == CollectorTypes /\ Listed /\ Handled /\ Labelled

\* A non-empty set of numbers has a least one.
LEMMA LeastNumber ==
    ASSUME NEW T \in SUBSET Nat, T # {}
    PROVE  \E m \in T : \A k \in T : m <= k
<1>1. IsWellFoundedOn(OpToRel(<, Nat), Nat)
  BY NatLessThanWellFounded
<1>2. PICK m \in T : \A k \in T : ~(<<k, m>> \in OpToRel(<, Nat))
  BY <1>1, WFMin
<1>3. \A k \in T : ~(k < m)
  BY <1>2 DEF OpToRel
<1> QED
  BY <1>3

\* Lines are numbered from 0, the header's place.
LEMMA LinesAreNumbered ==
    ASSUME NEW p \in Pulls
    PROVE  DOMAIN Coll!EntriesOf(p.commit) \subseteq Nat
<1>1. DOMAIN p.commit.body \subseteq Nat
  <2>1. DOMAIN p.commit.body = 1 .. Len(p.commit.body)
    BY CollectorConstants DEF Coll!CollectorAssumption
  <2> QED
    BY <2>1
<1> QED
  BY <1>1 DEF Coll!EntriesOf, Coll!Headed, Coll!ExtractDeliverableBullets

\* Each line of a commit stands for itself among the deliverables, or a line that
\* means the same does.
LEMMA EveryLineIsDelivered ==
    ASSUME SameWordsMeanTheSame,
           NEW commits, DOMAIN commits \subseteq Nat,
           \A n \in DOMAIN commits : \E p \in Pulls : commits[n] = p.commit,
           NEW x \in DOMAIN commits, NEW y \in DOMAIN Coll!EntriesOf(commits[x])
    PROVE  Coll!EntriesOf(commits[x])[y] \in Coll!ExpandDeliverables(commits)
<1> DEFINE places == UNION {{n} \X DOMAIN Coll!EntriesOf(commits[n]) : n \in DOMAIN commits}
           Entry(at) == Coll!EntriesOf(commits[at[1]])[at[2]]
           Before(a, b) == a[1] < b[1] \/ (a[1] = b[1] /\ a[2] < b[2])
           firsts == {b \in places :
                        \A a \in places : Before(a, b) => Entry(a).words # Entry(b).words}
           same == {a \in places : Entry(a).words = Entry(<<x, y>>).words}
<1>1. Coll!ExpandDeliverables(commits) = {Entry(at) : at \in firsts}
  BY Zenon DEF Coll!ExpandDeliverables
<1>2. \A at \in places : /\ at[1] \in DOMAIN commits /\ at[2] \in DOMAIN Coll!EntriesOf(commits[at[1]])
                         /\ at = <<at[1], at[2]>>
  OBVIOUS
<1>3. \A at \in places : at[1] \in Nat /\ at[2] \in Nat
  <2> SUFFICES ASSUME NEW at \in places PROVE at[1] \in Nat /\ at[2] \in Nat
    OBVIOUS
  <2>1. PICK p \in Pulls : commits[at[1]] = p.commit
    BY <1>2
  <2> QED
    BY <1>2, <2>1, LinesAreNumbered
<1>4. <<x, y>> \in same
  OBVIOUS
<1>5. PICK n \in {a[1] : a \in same} : \A k \in {a[1] : a \in same} : n <= k
  <2>1. {a[1] : a \in same} \in SUBSET Nat /\ {a[1] : a \in same} # {}
    BY <1>3, <1>4
  <2> HIDE DEF same
  <2> QED
    BY <2>1, LeastNumber
<1>6. PICK m \in {a[2] : a \in {b \in same : b[1] = n}} :
              \A k \in {a[2] : a \in {b \in same : b[1] = n}} : m <= k
  <2>1. /\ {a[2] : a \in {b \in same : b[1] = n}} \in SUBSET Nat
        /\ {a[2] : a \in {b \in same : b[1] = n}} # {}
    BY <1>3, <1>5
  <2> HIDE DEF same
  <2> QED
    BY <2>1, LeastNumber
<1>7. <<n, m>> \in same
  BY <1>2, <1>6
<1>8. <<n, m>> \in firsts
  <2> SUFFICES ASSUME NEW a \in places, Before(a, <<n, m>>), a \in same
               PROVE  FALSE
    BY <1>7
  <2>1. a[1] \in Nat /\ a[2] \in Nat /\ n \in Nat /\ m \in Nat
    BY <1>3, <1>7
  <2>2. n <= a[1]
    BY <1>5
  <2>3. a[1] = n => m <= a[2]
    BY <1>6
  <2> QED
    BY <2>1, <2>2, <2>3
<1>9. Entry(<<n, m>>) = Entry(<<x, y>>)
  <2>1. PICK p \in Pulls : commits[n] = p.commit
    BY <1>2, <1>7
  <2>2. PICK q \in Pulls : commits[x] = q.commit
    OBVIOUS
  <2>3. m \in DOMAIN Coll!EntriesOf(p.commit) /\ y \in DOMAIN Coll!EntriesOf(q.commit)
    BY <1>2, <1>7, <2>1, <2>2
  <2>4. Coll!EntriesOf(p.commit)[m].words = Coll!EntriesOf(q.commit)[y].words
    BY <1>7, <2>1, <2>2
  <2> QED
    BY <2>1, <2>2, <2>3, <2>4 DEF SameWordsMeanTheSame
<1> QED
  BY <1>1, <1>8, <1>9

\* The version is high enough for each of the commits.
LEMMA VersionCoversCommits ==
    ASSUME SameWordsMeanTheSame,
           NEW commits, DOMAIN commits \subseteq Nat,
           \A n \in DOMAIN commits : \E p \in Pulls : commits[n] = p.commit,
           NEW x \in DOMAIN commits
    PROVE  /\ Coll!Breaks(commits[x]) => Coll!Evaluate(commits) = "major"
           /\ Coll!Adds(commits[x]) => Coll!Evaluate(commits) \in {"minor", "major"}
<1> DEFINE c == commits[x]
           entries == Coll!EntriesOf(c)
<1>1. PICK p \in Pulls : c = p.commit
  OBVIOUS
<1>2. \A n \in DOMAIN c.body : n \in Nat /\ n # 0
  <2>1. DOMAIN c.body = 1 .. Len(c.body)
    BY <1>1, CollectorConstants DEF Coll!CollectorAssumption
  <2> QED
    BY <2>1
<1>3. \A y \in DOMAIN entries : entries[y] \in Coll!ExpandDeliverables(commits)
  BY EveryLineIsDelivered
<1>4. c.header.type # "none" =>
        /\ 0 \in DOMAIN entries
        /\ entries[0].breaking = (Coll!BreakingFooter(c.body) \/ c.header.bang)
        /\ entries[0].type = c.header.type
  BY DEF Coll!EntriesOf, Coll!Headed, Coll!ParseCommit
<1>5. ASSUME NEW n \in Coll!Bullets(c)
      PROVE  /\ n \in DOMAIN entries
             /\ entries[n].breaking = (c.body[n].type # "none" /\ c.body[n].bang)
             /\ c.body[n].type # "none" => entries[n].type = c.body[n].type
  <2>1. n \in DOMAIN Coll!ExtractDeliverableBullets(c.body)
    BY DEF Coll!ExtractDeliverableBullets, Coll!Bullets
  <2>2. /\ Coll!ExtractDeliverableBullets(c.body)[n].type = c.body[n].type
        /\ Coll!ExtractDeliverableBullets(c.body)[n].bang = c.body[n].bang
    BY DEF Coll!ExtractDeliverableBullets, Coll!Bullets
  <2>3. n # 0
    BY <1>2 DEF Coll!Bullets
  <2>4. /\ n \in DOMAIN entries
        /\ entries[n] = Coll!ParseCommit(Coll!ExtractDeliverableBullets(c.body)[n], FALSE)
    BY <2>1, <2>3 DEF Coll!EntriesOf
  <2> QED
    BY <2>2, <2>4 DEF Coll!ParseCommit
<1>6. ASSUME Coll!Breaks(c) PROVE Coll!Evaluate(commits) = "major"
  <2>1. \E y \in DOMAIN entries : entries[y].breaking
    BY <1>4, <1>5, <1>6 DEF Coll!Breaks
  <2> QED
    BY <1>3, <2>1 DEF Coll!Evaluate
<1>7. ASSUME Coll!Adds(c) PROVE Coll!Evaluate(commits) \in {"minor", "major"}
  <2>1. \E y \in DOMAIN entries : entries[y].type = "feat"
    BY <1>4, <1>5, <1>7 DEF Coll!Adds
  <2> QED
    BY <1>3, <2>1 DEF Coll!Evaluate
<1> QED
  BY <1>6, <1>7

\* A page is the newest of what is merged, all of it when it is not full.
LEMMA PageIs ==
    ASSUME merged \in Seq(Pulls), NEW limit \in Nat
    PROVE  /\ Coll!Newest(limit) \in Seq(Pulls)
           /\ Len(Coll!Newest(limit)) < limit =>
                 /\ Len(Coll!Newest(limit)) = Len(merged)
                 /\ \A n \in 1 .. Len(merged) :
                       Coll!Newest(limit)[n] = merged[Len(merged) + 1 - n]
<1> DEFINE back == Coll!Reverse(merged)
           most == Coll!Min({limit, Len(merged)})
<1>1. /\ back \in Seq(Pulls) /\ Len(back) = Len(merged)
      /\ \A n \in 1 .. Len(merged) : back[n] = merged[Len(merged) + 1 - n]
  <2>1. back = [n \in 1 .. Len(merged) |-> merged[(Len(merged) - n) + 1]]
    BY DEF Coll!Reverse
  <2>2. Len(merged) \in Nat
    OBVIOUS
  <2>3. \A n \in 1 .. Len(merged) : merged[(Len(merged) - n) + 1] \in Pulls
    OBVIOUS
  <2>4. \A n \in 1 .. Len(merged) : (Len(merged) - n) + 1 = Len(merged) + 1 - n
    BY <2>2
  <2>5. back \in [1 .. Len(merged) -> Pulls]
    BY <2>1, <2>3
  <2> HIDE DEF back
  <2>6. back \in Seq(Pulls) /\ Len(back) = Len(merged)
    BY <2>2, <2>5
  <2> QED
    BY <2>1, <2>4, <2>6
<1>2. most \in Nat /\ most <= Len(merged) /\ most <= limit /\ (most = limit \/ most = Len(merged))
  <2>1. \E k \in {limit, Len(merged)} : \A j \in {limit, Len(merged)} : k <= j
    BY Len(merged) \in Nat
  <2>2. most \in {limit, Len(merged)} /\ \A j \in {limit, Len(merged)} : most <= j
    BY <2>1 DEF Coll!Min
  <2> QED
    BY <2>2
<1>3. Coll!Newest(limit) = SubSeq(back, 1, most)
  BY DEF Coll!Newest
<1> HIDE DEF back, most
<1>4. /\ SubSeq(back, 1, most) \in Seq(Pulls) /\ Len(SubSeq(back, 1, most)) = most
      /\ \A n \in 1 .. most : SubSeq(back, 1, most)[n] = back[n]
  BY <1>1, <1>2
<1> QED
  BY <1>1, <1>2, <1>3, <1>4

LEMMA NewestIs ==
    ASSUME CollectorTypes, releases # <<>>
    PROVE  /\ releases \in Seq(PullRequest) /\ Len(releases) \in DOMAIN releases
           /\ releases[Len(releases)] \in PullRequest
  BY DEF CollectorTypes

\* What became of the newest leaves the others and what they are labelled with.
LEMMA SettledKeeps ==
    ASSUME CollectorTypes, releases # <<>>, NEW state \in {"open", "merged", "closed"},
           releases' = [releases EXCEPT ![Len(releases)].state = state]
    PROVE  /\ releases' \in Seq(PullRequest) /\ releases' # <<>>
           /\ releases'[Len(releases')].labels = releases[Len(releases)].labels
           /\ releases'[Len(releases')].upTo = releases[Len(releases)].upTo
<1> DEFINE u == [releases[Len(releases)] EXCEPT !.state = state]
<1>1. /\ u \in PullRequest /\ u.labels = releases[Len(releases)].labels
      /\ u.upTo = releases[Len(releases)].upTo
  BY NewestIs DEF PullRequest
<1>2. releases' = [releases EXCEPT ![Len(releases)] = u]
  OBVIOUS
<1> HIDE DEF u
<1> QED
  BY <1>1, <1>2, NewestIs

LEMMA NoSyncIs == Coll!NoSync \in Syncs
<1>1. <<>> \in Seq(Pulls)
  OBVIOUS
<1> QED
  BY <1>1 DEF Coll!NoSync, Syncs

LEMMA NoReleaseIs == Coll!NoRelease \in Releases /\ Coll!NoRelease.pc = "idle"
  BY DEF Coll!NoRelease, Releases, Levels

LEMMA CollectorStarts == Coll!Init => CollectorInvariant
<1> SUFFICES ASSUME Coll!Init PROVE CollectorInvariant
  OBVIOUS
<1>1. CollectorTypes
  BY NoSyncIs, NoReleaseIs DEF Coll!Init, CollectorTypes
<1>2. Listed /\ Handled /\ Labelled
  BY DEF Coll!Init, Coll!NoSync, Coll!NoRelease, Listed, Handled, Labelled, Working, AtPull
<1> QED
  BY <1>1, <1>2 DEF CollectorInvariant

\* A pull request more leaves the others where they are.
LEMMA MergePullKeeps == CollectorInvariant /\ Coll!MergePull => CollectorInvariant'
<1> SUFFICES ASSUME CollectorInvariant, Coll!MergePull PROVE CollectorInvariant'
  OBVIOUS
<1> USE DEF CollectorInvariant
<1>1. PICK p \in Pulls : merged' = Append(merged, p)
  BY DEF Coll!MergePull
<1>2. UNCHANGED <<issue, releases, labels, released, local, localBase, sync, rel>>
  BY DEF Coll!MergePull, Coll!Clone
<1>3. /\ merged' \in Seq(Pulls) /\ Len(merged') = Len(merged) + 1
      /\ \A n \in 1 .. Len(merged) : merged'[n] = merged[n]
  BY <1>1 DEF CollectorTypes
<1>4. CollectorTypes'
  BY <1>2, <1>3 DEF CollectorTypes
<1>5. Listed'
  <2>1. Len(sync.list) \in Nat /\ Len(merged) \in Nat /\ local \in Nat
    BY DEF CollectorTypes, Syncs
  <2>2. Len(sync.list) <= Len(merged) =>
          \A n \in 1 .. Len(sync.list) : Len(sync.list) + 1 - n \in 1 .. Len(merged)
    BY <2>1
  <2>3. sync'.pc \in Working =>
          /\ local' <= Len(sync'.list) /\ Len(sync'.list) <= Len(merged')
          /\ \A n \in 1 .. Len(sync'.list) : sync'.list[n] = merged'[Len(sync'.list) + 1 - n]
    <3> SUFFICES ASSUME sync.pc \in Working
                 PROVE  /\ local <= Len(sync.list) /\ Len(sync.list) <= Len(merged')
                        /\ \A n \in 1 .. Len(sync.list) :
                              sync.list[n] = merged'[Len(sync.list) + 1 - n]
      BY <1>2
    <3>1. /\ local <= Len(sync.list) /\ Len(sync.list) <= Len(merged)
          /\ \A n \in 1 .. Len(sync.list) : sync.list[n] = merged[Len(sync.list) + 1 - n]
      BY DEF Listed
    <3>2. \A n \in 1 .. Len(sync.list) :
            merged'[Len(sync.list) + 1 - n] = merged[Len(sync.list) + 1 - n]
      BY <1>3, <2>2, <3>1
    <3>3. Len(sync.list) <= Len(merged')
      BY <1>3, <2>1, <3>1
    <3> QED
      BY <3>1, <3>2, <3>3
  <2> QED
    BY <1>2, <2>3 DEF Listed
<1>6. Handled'
  BY <1>2 DEF Handled
<1>7. ASSUME NEW given, NEW to \in Nat, to <= Len(merged), Covered(given, released, to)
      PROVE  Covered(given, released, to)'
  <2>1. released \in Nat /\ Len(merged) \in Nat
    BY DEF CollectorTypes
  <2>2. \A n \in released + 1 .. to : n \in 1 .. Len(merged)
    BY <1>7, <2>1
  <2> QED
    BY <1>2, <1>3, <1>7, <2>2 DEF Covered
<1>8. Labelled'
  <2>1. rel.upTo \in Nat /\ Len(merged) \in Nat
    BY DEF CollectorTypes, Releases
  <2>2. releases # <<>> => releases[Len(releases)].upTo \in Nat
    BY NewestIs DEF CollectorTypes, PullRequest
  <2>3. rel'.pc # "idle" => rel'.upTo <= Len(merged') /\ Covered({rel.label}, released, rel.upTo)'
    BY <1>2, <1>3, <1>7, <2>1 DEF Labelled
  <2>4. releases' # <<>> =>
          /\ releases'[Len(releases')].upTo <= Len(merged')
          /\ Covered(releases[Len(releases)].labels, released, releases[Len(releases)].upTo)'
    BY <1>2, <1>3, <1>7, <2>1, <2>2 DEF Labelled
  <2> QED
    BY <2>3, <2>4 DEF Labelled
<1> QED
  BY <1>4, <1>5, <1>6, <1>8

\* What closes and reopens issues disturbs Handled only.
LEMMA CloseOrReopenKeeps ==
    ASSUME CollectorInvariant, NEW i \in Issues, Coll!CloseOrReopen(i)
    PROVE  CollectorInvariant'
<1> USE DEF CollectorInvariant
<1>1. UNCHANGED <<merged, releases, labels, released, local, localBase, rel>>
  BY DEF Coll!CloseOrReopen, Coll!Clone
<1>2. /\ issue' = [issue EXCEPT ![i] = IF @ = "OPEN" THEN "CLOSED" ELSE "OPEN"]
      /\ sync' = [sync EXCEPT !.reopened = IF Coll!Syncing /\ issue[i] = "CLOSED"
                                           THEN @ \union {i} ELSE @]
  BY DEF Coll!CloseOrReopen
<1>3. CollectorTypes'
  BY <1>1, <1>2 DEF CollectorTypes, Syncs
<1>4. Listed'
  BY <1>1, <1>2 DEF Listed, CollectorTypes, Syncs
<1>5. Labelled'
  BY <1>1 DEF Labelled, Covered
<1>6. Handled'
  <2>1. /\ sync'.pc = sync.pc /\ sync'.at = sync.at /\ sync'.list = sync.list
        /\ sync'.incomplete = sync.incomplete /\ sync'.warned = sync.warned
    BY <1>2 DEF CollectorTypes, Syncs
  <2>2. sync.pc \in Working => Coll!Syncing
    BY DEF Working, Coll!Syncing
  <2>3. \A j \in Issues : sync.pc \in Working /\ j \notin sync'.reopened
          => j \notin sync.reopened /\ (issue[j] = "CLOSED" => issue'[j] = "CLOSED")
    BY <1>2, <2>2 DEF CollectorTypes, Syncs
  <2> QED
    BY <2>1, <2>3 DEF Handled
<1> QED
  BY <1>3, <1>4, <1>5, <1>6

\* A release covers its commits when it is merged, and no fewer are released after.
LEMMA MergeReleaseKeeps == CollectorInvariant /\ Coll!MergeRelease => CollectorInvariant'
<1> SUFFICES ASSUME CollectorInvariant, Coll!MergeRelease PROVE CollectorInvariant'
  OBVIOUS
<1> USE DEF CollectorInvariant
<1>1. /\ UNCHANGED <<merged, issue, labels, local, localBase, sync, rel>>
      /\ releases' = [releases EXCEPT ![Len(releases)].state = "merged"]
      /\ released' = Len(merged)
  BY DEF Coll!MergeRelease, Coll!Clone
<1>2. Len(merged) \in Nat /\ released <= Len(merged)
  BY DEF CollectorTypes
<1>3. releases # <<>>
  BY DEF Coll!MergeRelease, Coll!NothingOpen
<1>4. /\ releases' \in Seq(PullRequest) /\ releases' # <<>>
      /\ releases'[Len(releases')].labels = releases[Len(releases)].labels
      /\ releases'[Len(releases')].upTo = releases[Len(releases)].upTo
  BY <1>1, <1>3, SettledKeeps
<1>5. CollectorTypes'
  BY <1>1, <1>2, <1>4 DEF CollectorTypes
<1>6. Listed' /\ Handled'
  BY <1>1 DEF Listed, Handled
<1>7. Labelled'
  <2>1. released \in Nat /\ rel.upTo \in Nat /\ releases[Len(releases)].upTo \in Nat
    BY <1>3, NewestIs DEF CollectorTypes, PullRequest, Releases
  <2>2. \A to \in Nat : \A n \in released' + 1 .. to : n \in released + 1 .. to
    BY <1>1, <1>2, <2>1
  <2> QED
    BY <1>1, <1>3, <1>4, <2>1, <2>2 DEF Labelled, Covered
<1> QED
  BY <1>5, <1>6, <1>7

LEMMA CloseReleaseKeeps == CollectorInvariant /\ Coll!CloseRelease => CollectorInvariant'
<1> SUFFICES ASSUME CollectorInvariant, Coll!CloseRelease PROVE CollectorInvariant'
  OBVIOUS
<1> USE DEF CollectorInvariant
<1>1. /\ UNCHANGED <<merged, issue, labels, released, local, localBase, sync, rel>>
      /\ releases' = [releases EXCEPT ![Len(releases)].state = "closed"]
  BY DEF Coll!CloseRelease, Coll!Clone
<1>2. releases # <<>>
  BY DEF Coll!CloseRelease, Coll!NothingOpen
<1>3. /\ releases' \in Seq(PullRequest) /\ releases' # <<>>
      /\ releases'[Len(releases')].labels = releases[Len(releases)].labels
      /\ releases'[Len(releases')].upTo = releases[Len(releases)].upTo
  BY <1>1, <1>2, SettledKeeps
<1>4. CollectorTypes'
  BY <1>1, <1>3 DEF CollectorTypes
<1>5. Listed' /\ Handled'
  BY <1>1 DEF Listed, Handled
<1>6. Labelled'
  BY <1>1, <1>3, <1>2 DEF Labelled, Covered
<1> QED
  BY <1>4, <1>5, <1>6

LEMMA PullBaseKeeps == CollectorInvariant /\ Coll!PullBase => CollectorInvariant'
<1> SUFFICES ASSUME CollectorInvariant, Coll!PullBase PROVE CollectorInvariant'
  OBVIOUS
<1>1. /\ UNCHANGED <<merged, issue, releases, labels, released, local, sync, rel>>
      /\ localBase' = released
  BY DEF Coll!PullBase, Coll!GitHub
<1>2. CollectorTypes'
  BY <1>1 DEF CollectorTypes, CollectorInvariant
<1> QED
  BY <1>1, <1>2 DEF CollectorInvariant, Listed, Handled, Labelled, Covered

\* A step of the sync leaves the releases alone.
LEMMA SyncSparesReleases ==
    ASSUME CollectorInvariant, UNCHANGED <<merged, releases, released, rel>>
    PROVE  Labelled'
  BY DEF CollectorInvariant, Labelled, Covered

LEMMA StartSyncKeeps ==
    ASSUME CollectorInvariant, NEW where, Coll!StartSync(where)
    PROVE  CollectorInvariant'
<1>1. /\ UNCHANGED <<merged, issue, releases, labels, released, local, localBase, rel>>
      /\ \E pc \in {"end", "pull"} : sync' = [Coll!NoSync EXCEPT !.pc = pc]
  BY DEF Coll!StartSync, Coll!GitHub, Coll!Clone
<1>2. CollectorTypes'
  <2>1. sync' \in Syncs
    BY <1>1, NoSyncIs DEF Syncs
  <2> QED
    BY <1>1, <2>1 DEF CollectorInvariant, CollectorTypes
<1>3. Listed' /\ Handled'
  BY <1>1 DEF Coll!NoSync, Listed, Handled, Working, AtPull
<1> QED
  BY <1>1, <1>2, <1>3, SyncSparesReleases DEF CollectorInvariant

LEMMA FastForwardKeeps == CollectorInvariant /\ Coll!FastForward => CollectorInvariant'
<1> SUFFICES ASSUME CollectorInvariant, Coll!FastForward PROVE CollectorInvariant'
  OBVIOUS
<1>1. /\ UNCHANGED <<merged, issue, releases, labels, released, localBase, rel>>
      /\ sync.pc = "pull" /\ sync.at = 0
      /\ local' \in {local, Len(merged)}
  BY DEF Coll!FastForward, Coll!GitHub, CollectorInvariant, Listed
<1>2. \/ \E warned \in BOOLEAN :
            sync' = [sync EXCEPT !.pc = "list", !.limit = PageSize, !.warned = warned]
      \/ sync' = [sync EXCEPT !.pc = "list", !.limit = PageSize]
      \/ sync' = [Coll!NoSync EXCEPT !.pc = "end", !.incomplete = TRUE]
  BY DEF Coll!FastForward
<1>3. PageSize \in Nat
  BY CollectorConstants DEF Coll!CollectorAssumption
<1>4. CollectorTypes'
  <2>1. sync \in Syncs /\ merged \in Seq(Pulls)
    BY DEF CollectorInvariant, CollectorTypes
  <2>2. sync' \in Syncs
    BY <1>2, <1>3, <2>1, NoSyncIs DEF Syncs, Working
  <2>3. local' \in 0 .. Len(merged)
    BY <1>1, <2>1 DEF CollectorInvariant, CollectorTypes
  <2> QED
    BY <1>1, <2>2, <2>3 DEF CollectorInvariant, CollectorTypes
<1>5. sync'.pc \in {"list", "end"} /\ sync'.at = 0 /\ sync'.list \in Seq(Pulls)
  <2>1. sync \in Syncs
    BY DEF CollectorInvariant, CollectorTypes
  <2>2. sync' = [Coll!NoSync EXCEPT !.pc = "end", !.incomplete = TRUE]
          => sync'.pc = "end" /\ sync'.at = 0 /\ sync'.list \in Seq(Pulls)
    <3>1. Coll!NoSync.at = 0 /\ Coll!NoSync.list \in Seq(Pulls)
      BY NoSyncIs DEF Coll!NoSync, Syncs
    <3> QED
      BY <3>1 DEF Coll!NoSync
  <2>3. \A warned \in BOOLEAN :
          sync' = [sync EXCEPT !.pc = "list", !.limit = PageSize, !.warned = warned]
            => sync'.pc = "list" /\ sync'.at = sync.at /\ sync'.list = sync.list
    BY <2>1 DEF Syncs
  <2>4. sync' = [sync EXCEPT !.pc = "list", !.limit = PageSize]
          => sync'.pc = "list" /\ sync'.at = sync.at /\ sync'.list = sync.list
    BY <2>1 DEF Syncs
  <2>5. sync.list \in Seq(Pulls)
    BY <2>1 DEF Syncs
  <2> QED
    BY <1>1, <1>2, <2>2, <2>3, <2>4, <2>5
<1>6. Listed' /\ Handled'
  BY <1>5 DEF Listed, Handled, Working, AtPull
<1> QED
  BY <1>1, <1>4, <1>6, SyncSparesReleases DEF CollectorInvariant

\* The listing is of all that is merged, or it goes on or gives up.
LEMMA ListMergedPrsKeeps == CollectorInvariant /\ Coll!ListMergedPrs => CollectorInvariant'
<1> SUFFICES ASSUME CollectorInvariant, Coll!ListMergedPrs PROVE CollectorInvariant'
  OBVIOUS
<1> USE DEF CollectorInvariant
<1> DEFINE prs == Coll!Newest(sync.limit)
<1>1. /\ UNCHANGED <<merged, issue, releases, labels, released, local, localBase, rel>>
      /\ sync.pc = "list" /\ sync.at = 0
  BY DEF Coll!ListMergedPrs, Coll!GitHub, Coll!Clone, Listed
<1>2. merged \in Seq(Pulls) /\ sync.limit \in Nat
  BY DEF CollectorTypes, Syncs
<1>3. CASE Len(prs) < sync.limit /\ sync' = [sync EXCEPT !.pc = "next", !.list = prs, !.limit = 0]
  <2>1. /\ prs \in Seq(Pulls) /\ Len(prs) = Len(merged)
        /\ \A n \in 1 .. Len(merged) : prs[n] = merged[Len(merged) + 1 - n]
    BY <1>2, <1>3, PageIs
  <2> HIDE DEF prs
  <2>2. CollectorTypes'
    BY <1>1, <1>3, <2>1 DEF CollectorTypes, Syncs, Working
  <2>3. sync'.pc = "next" /\ sync'.list = prs /\ sync'.at = 0
    BY <1>1, <1>3 DEF CollectorTypes, Syncs
  <2>4. Len(merged) \in Nat /\ local <= Len(merged)
    BY <1>2 DEF CollectorTypes, Syncs
  <2>5. Listed'
    BY <1>1, <2>1, <2>3, <2>4 DEF Listed, AtPull
  <2>6. Handled'
    BY <2>3 DEF Handled
  <2> QED
    BY <1>1, <2>2, <2>5, <2>6, SyncSparesReleases
<1>4. CASE sync' = [sync EXCEPT !.limit = Coll!Min({sync.limit * 2, Ceiling})]
  <2>1. sync.limit * 2 \in Nat /\ Ceiling \in Nat
    BY <1>2, CollectorConstants DEF Coll!CollectorAssumption
  <2>2. \E k \in {sync.limit * 2, Ceiling} : \A j \in {sync.limit * 2, Ceiling} : k <= j
    BY <2>1
  <2>3. Coll!Min({sync.limit * 2, Ceiling}) \in Nat
    BY <2>1, <2>2 DEF Coll!Min
  <2>4. CollectorTypes'
    BY <1>1, <1>4, <2>3 DEF CollectorTypes, Syncs
  <2>5. sync'.pc = "list" /\ sync'.at = 0 /\ sync'.list = sync.list
    BY <1>1, <1>4 DEF CollectorTypes, Syncs
  <2>6. Listed' /\ Handled'
    BY <2>5, <1>1 DEF Listed, Handled, Working, AtPull
  <2> QED
    BY <1>1, <2>4, <2>6, SyncSparesReleases
<1>5. CASE sync' = Coll!Refuse
  <2>1. CollectorTypes'
    <3>1. sync' \in Syncs
      BY <1>5, NoSyncIs DEF Syncs, Coll!Refuse
    <3> QED
      BY <1>1, <3>1 DEF CollectorTypes
  <2>2. Listed' /\ Handled'
    BY <1>5 DEF Listed, Handled, Working, AtPull, Coll!Refuse, Coll!NoSync
  <2> QED
    BY <1>1, <2>1, <2>2, SyncSparesReleases
<1> QED
  BY <1>3, <1>4, <1>5 DEF Coll!ListMergedPrs

\* The next pull request has an issue of the tracker, or none to be closed.
LEMMA NextPullKeeps == CollectorInvariant /\ Coll!NextPull => CollectorInvariant'
<1> SUFFICES ASSUME CollectorInvariant, Coll!NextPull PROVE CollectorInvariant'
  OBVIOUS
<1> USE DEF CollectorInvariant
<1>1. /\ UNCHANGED <<merged, issue, releases, labels, released, local, localBase, rel>>
      /\ sync.pc = "next"
  BY DEF Coll!NextPull, Coll!GitHub, Coll!Clone
<1>2. /\ sync.at \in Nat /\ sync.list \in Seq(Pulls) /\ Len(sync.list) \in Nat
      /\ sync.at <= Len(sync.list)
  BY DEF CollectorTypes, Syncs, Listed
<1>3. CASE sync.at = Len(sync.list) /\ sync' = Coll!Ended(sync)
  <2>1. CollectorTypes'
    <3>1. sync' \in Syncs
      BY <1>3, NoSyncIs DEF Syncs, Coll!Ended, CollectorTypes
    <3> QED
      BY <1>1, <3>1 DEF CollectorTypes
  <2>2. Listed' /\ Handled'
    BY <1>3 DEF Listed, Handled, Working, AtPull, Coll!Ended, Coll!NoSync
  <2> QED
    BY <1>1, <2>1, <2>2, SyncSparesReleases
<1>4. CASE sync.at # Len(sync.list)
  <2> DEFINE pull == sync.list[sync.at + 1]
  <2>1. sync.at + 1 \in 1 .. Len(sync.list)
    BY <1>2, <1>4
  <2>2. pull \in Pulls /\ pull.closes \in Issues \union {None} /\ None \notin Issues
    BY <1>2, <2>1, CollectorConstants DEF Coll!CollectorAssumption
  <2>3. sync' = [sync EXCEPT !.at = sync.at + 1,
                             !.pc = IF pull.closes = None THEN "next" ELSE "view"]
    BY <1>4 DEF Coll!NextPull
  <2>4. /\ sync'.at = sync.at + 1 /\ sync'.list = sync.list
        /\ sync'.pc = IF pull.closes = None THEN "next" ELSE "view"
        /\ sync'.incomplete = sync.incomplete /\ sync'.warned = sync.warned
        /\ sync'.reopened = sync.reopened
    BY <2>3 DEF CollectorTypes, Syncs
  <2>5. CollectorTypes'
    <3>1. sync \in Syncs /\ sync.at + 1 \in Nat
      BY <1>2 DEF CollectorTypes
    <3>2. sync' \in Syncs
      BY <2>3, <3>1 DEF Syncs, Working
    <3> QED
      BY <1>1, <3>2 DEF CollectorTypes
  <2> HIDE DEF pull
  <2>6. Listed'
    BY <1>1, <1>2, <2>1, <2>2, <2>4 DEF Listed, Working, AtPull, pull
  <2>7. Handled'
    <3> SUFFICES ASSUME sync.pc \in Working, ~sync.incomplete, ~sync.warned,
                        NEW k \in 1 .. sync.at + 1, k < sync.at + 1 \/ sync'.pc = "next",
                        NEW i \in Issues \ sync.reopened, Coll!Does(sync.list[k], i)
                 PROVE  issue[i] = "CLOSED"
      BY <1>1, <2>4 DEF Handled, Working
    <3>1. k # sync.at + 1
      BY <2>2, <2>4, <1>2 DEF Coll!Does, pull
    <3>2. k \in 1 .. sync.at
      BY <1>2, <3>1
    <3> QED
      BY <1>1, <3>2 DEF Handled
  <2> QED
    BY <1>1, <2>5, <2>6, <2>7, SyncSparesReleases
<1> QED
  BY <1>3, <1>4 DEF Coll!NextPull

\* The sync goes on with a pull request, or leaves it with its issue closed or with
\* a warning.
LEMMA PullIsWorkedOn ==
    ASSUME CollectorInvariant, sync.pc \in AtPull,
           UNCHANGED <<merged, issue, releases, labels, released, local, localBase, rel>>,
           NEW pc \in {"next", "read", "close"}, NEW failed \in BOOLEAN, NEW warned \in BOOLEAN,
           sync' = [sync EXCEPT !.pc = pc, !.incomplete = failed, !.warned = warned],
           sync.incomplete => failed, sync.warned => warned,
           pc = "next" =>
              \/ warned \/ sync.pc = "comment"
              \/ \A i \in Issues : Coll!Does(sync.list[sync.at], i) => issue[i] = "CLOSED"
    PROVE  CollectorInvariant'
<1> USE DEF CollectorInvariant
<1>1. sync \in Syncs
  BY DEF CollectorTypes
<1>2. sync' \in Syncs
  BY <1>1 DEF Syncs, Working
<1>3. /\ sync'.pc = pc /\ sync'.incomplete = failed /\ sync'.warned = warned
      /\ sync'.list = sync.list /\ sync'.at = sync.at /\ sync'.reopened = sync.reopened
      /\ sync.at \in Nat
  BY <1>1 DEF Syncs
<1>4. CollectorTypes'
  BY <1>2 DEF CollectorTypes
<1>5. sync.pc \in Working /\ pc \in Working
  BY DEF Working, AtPull
<1>6. Listed'
  BY <1>3, <1>5 DEF Listed
<1>7. Handled'
  <2> SUFFICES ASSUME ~failed, ~warned, NEW k \in 1 .. sync.at, k < sync.at \/ pc = "next",
                      NEW i \in Issues \ sync.reopened, Coll!Does(sync.list[k], i)
               PROVE  issue[i] = "CLOSED"
    BY <1>3 DEF Handled
  <2>1. CASE k < sync.at \/ sync.pc = "comment"
    BY <1>5, <2>1 DEF Handled
  <2>2. CASE k = sync.at /\ sync.pc # "comment"
    BY <2>2
  <2> QED
    BY <1>3, <2>1, <2>2
<1> QED
  BY <1>4, <1>6, <1>7, SyncSparesReleases

LEMMA VerifyDiffKeeps == CollectorInvariant /\ Coll!VerifyDiff => CollectorInvariant'
<1> SUFFICES ASSUME CollectorInvariant, Coll!VerifyDiff PROVE CollectorInvariant'
  OBVIOUS
<1>1. /\ UNCHANGED <<merged, issue, releases, labels, released, local, localBase, rel>>
      /\ sync.pc = "view"
      /\ sync' = [sync EXCEPT !.pc = "read"] \/ sync' = [sync EXCEPT !.pc = "next", !.warned = TRUE]
  BY DEF Coll!VerifyDiff, Coll!GitHub, Coll!Clone
<1>2. sync.pc \in AtPull /\ sync.incomplete \in BOOLEAN /\ sync.warned \in BOOLEAN /\ sync \in Syncs
  BY <1>1 DEF CollectorInvariant, CollectorTypes, Syncs, AtPull, Working
<1>3. CASE sync' = [sync EXCEPT !.pc = "read"]
  <2>1. sync' = [sync EXCEPT !.pc = "read", !.incomplete = sync.incomplete, !.warned = sync.warned]
    BY <1>2, <1>3 DEF Syncs
  <2> QED
    BY <1>1, <1>2, <2>1, PullIsWorkedOn
<1>4. CASE sync' = [sync EXCEPT !.pc = "next", !.warned = TRUE]
  <2>1. sync' = [sync EXCEPT !.pc = "next", !.incomplete = sync.incomplete, !.warned = TRUE]
    BY <1>2, <1>4 DEF Syncs
  <2> QED
    BY <1>1, <1>2, <2>1, PullIsWorkedOn
<1> QED
  BY <1>1, <1>3, <1>4

\* The issue was read as closed, or will be closed, or the sync says it was not read.
LEMMA FetchIssueStrictKeeps == CollectorInvariant /\ Coll!FetchIssueStrict => CollectorInvariant'
<1> SUFFICES ASSUME CollectorInvariant, Coll!FetchIssueStrict PROVE CollectorInvariant'
  OBVIOUS
<1> DEFINE closed == issue[sync.list[sync.at].closes] = "CLOSED"
<1>1. /\ UNCHANGED <<merged, issue, releases, labels, released, local, localBase, rel>>
      /\ sync.pc = "read"
      /\ \/ sync' = [sync EXCEPT !.pc = IF closed THEN "next" ELSE "close"]
         \/ sync' = [sync EXCEPT !.pc = "next", !.incomplete = TRUE, !.warned = TRUE]
  BY DEF Coll!FetchIssueStrict, Coll!CurrentPull, Coll!GitHub, Coll!Clone
<1>2. sync.pc \in AtPull /\ sync.incomplete \in BOOLEAN /\ sync.warned \in BOOLEAN /\ sync \in Syncs
  BY <1>1 DEF CollectorInvariant, CollectorTypes, Syncs, AtPull, Working
<1>3. CASE sync' = [sync EXCEPT !.pc = IF closed THEN "next" ELSE "close"]
  <2>1. PICK pc \in {"next", "close"} :
          /\ sync' = [sync EXCEPT !.pc = pc, !.incomplete = sync.incomplete, !.warned = sync.warned]
          /\ pc = "next" => closed
    <3>1. CASE closed
      BY <1>2, <1>3, <3>1 DEF Syncs
    <3>2. CASE ~closed
      BY <1>2, <1>3, <3>2 DEF Syncs
    <3> QED
      BY <3>1, <3>2
  <2>2. pc = "next" =>
          \A i \in Issues : Coll!Does(sync.list[sync.at], i) => issue[i] = "CLOSED"
    BY <2>1 DEF Coll!Does
  <2> QED
    BY <1>1, <1>2, <2>1, <2>2, PullIsWorkedOn
<1>4. CASE sync' = [sync EXCEPT !.pc = "next", !.incomplete = TRUE, !.warned = TRUE]
  BY <1>1, <1>2, <1>4, PullIsWorkedOn
<1> QED
  BY <1>1, <1>3, <1>4

LEMMA CommentOnIssueKeeps == CollectorInvariant /\ Coll!CommentOnIssue => CollectorInvariant'
<1> SUFFICES ASSUME CollectorInvariant, Coll!CommentOnIssue PROVE CollectorInvariant'
  OBVIOUS
<1>1. /\ UNCHANGED <<merged, issue, releases, labels, released, local, localBase, rel>>
      /\ sync.pc = "comment"
      /\ \/ sync' = [sync EXCEPT !.pc = "next"]
         \/ sync' = [sync EXCEPT !.pc = "next", !.incomplete = TRUE, !.warned = TRUE]
  BY DEF Coll!CommentOnIssue, Coll!WriteFailed, Coll!GitHub, Coll!Clone
<1>2. sync.pc \in AtPull /\ sync.incomplete \in BOOLEAN /\ sync.warned \in BOOLEAN /\ sync \in Syncs
  BY <1>1 DEF CollectorInvariant, CollectorTypes, Syncs, AtPull, Working
<1>3. CASE sync' = [sync EXCEPT !.pc = "next"]
  <2>1. sync' = [sync EXCEPT !.pc = "next", !.incomplete = sync.incomplete, !.warned = sync.warned]
    BY <1>2, <1>3 DEF Syncs
  <2> QED
    BY <1>1, <1>2, <2>1, PullIsWorkedOn
<1>4. CASE sync' = [sync EXCEPT !.pc = "next", !.incomplete = TRUE, !.warned = TRUE]
  BY <1>1, <1>2, <1>4, PullIsWorkedOn
<1> QED
  BY <1>1, <1>3, <1>4

\* Closing an issue handles the pull request and undoes no other.
LEMMA CloseIssueKeeps == CollectorInvariant /\ Coll!CloseIssue => CollectorInvariant'
<1> SUFFICES ASSUME CollectorInvariant, Coll!CloseIssue PROVE CollectorInvariant'
  OBVIOUS
<1> DEFINE closing == sync.list[sync.at].closes
<1>1. /\ UNCHANGED <<merged, releases, labels, released, local, localBase, rel>>
      /\ sync.pc = "close"
  BY DEF Coll!CloseIssue, Coll!Clone
<1>2. sync.pc \in AtPull /\ sync.incomplete \in BOOLEAN /\ sync.warned \in BOOLEAN /\ sync \in Syncs
  BY <1>1 DEF CollectorInvariant, CollectorTypes, Syncs, AtPull, Working
<1>3. CASE Coll!WriteFailed /\ UNCHANGED issue
  BY <1>1, <1>2, <1>3, PullIsWorkedOn DEF Coll!WriteFailed
<1>4. CASE /\ issue' = [issue EXCEPT ![closing] = "CLOSED"]
           /\ sync' = [sync EXCEPT !.pc = "comment", !.reopened = @ \ {closing}]
  <2>1. /\ sync'.pc = "comment" /\ sync'.reopened = sync.reopened \ {closing}
        /\ sync'.list = sync.list /\ sync'.at = sync.at /\ sync.at \in Nat
        /\ sync'.incomplete = sync.incomplete /\ sync'.warned = sync.warned
        /\ sync' \in Syncs
    BY <1>2, <1>4 DEF Syncs, Working
  <2>2. closing \in Issues /\ issue \in [Issues -> {"OPEN", "CLOSED"}]
    BY <1>2 DEF CollectorInvariant, CollectorTypes, Listed
  <2>3. \A i \in Issues : issue[i] = "CLOSED" \/ i = closing => issue'[i] = "CLOSED"
    BY <1>4, <2>2
  <2>4. issue' \in [Issues -> {"OPEN", "CLOSED"}]
    BY <1>4, <2>2
  <2>5. CollectorTypes'
    BY <1>1, <2>1, <2>4 DEF CollectorInvariant, CollectorTypes
  <2>6. sync.pc \in Working /\ "comment" \in Working
    BY <1>2 DEF Working, AtPull
  <2>7. Listed'
    BY <1>1, <1>2, <2>1, <2>6 DEF CollectorInvariant, Listed
  <2>8. Handled'
    <3> SUFFICES ASSUME ~sync.incomplete, ~sync.warned, NEW k \in 1 .. sync.at,
                        NEW i \in Issues \ (sync.reopened \ {closing}),
                        Coll!Does(sync.list[k], i)
                 PROVE  issue'[i] = "CLOSED"
      BY <2>1 DEF Handled
    <3>1. CASE i = closing
      BY <2>3, <3>1
    <3>2. CASE i # closing
      <4>1. k # sync.at
        BY <3>2 DEF Coll!Does
      <4>2. k < sync.at
        BY <2>1, <4>1
      <4>3. issue[i] = "CLOSED"
        BY <2>6, <3>2, <4>2 DEF CollectorInvariant, Handled
      <4> QED
        BY <2>3, <4>3
    <3> QED
      BY <3>1, <3>2
  <2> QED
    BY <1>1, <2>5, <2>7, <2>8, SyncSparesReleases DEF CollectorInvariant
<1> QED
  BY <1>3, <1>4 DEF Coll!CloseIssue, Coll!CurrentPull

\* A step of the release command that leaves the sync and GitHub's side of it alone.
LEMMA ReleaseSparesSync ==
    ASSUME CollectorInvariant, UNCHANGED <<merged, issue, local, sync>>
    PROVE  Listed' /\ Handled'
  BY DEF CollectorInvariant, Listed, Handled

\* The label is for the commits the local branches differ in, and these are all that
\* is not released and more.
LEMMA StartReleaseKeeps ==
    ASSUME CollectorInvariant, NEW refresh \in BOOLEAN,
           Coll!StartRelease(refresh)
    PROVE  CollectorInvariant'
<1> USE DEF CollectorInvariant
<1> DEFINE commits == Coll!GetCommitsBetween
           asked == Coll!Evaluate(commits)
<1>1. /\ UNCHANGED <<merged, issue, releases, labels, released, local, localBase, sync>>
      /\ rel' = [pc |-> "label", refresh |-> refresh, upTo |-> local, label |-> asked]
  BY DEF Coll!StartRelease, Coll!GitHub, Coll!Clone
<1>2. /\ local \in Nat /\ localBase \in Nat /\ released \in Nat /\ Len(merged) \in Nat
      /\ local <= Len(merged) /\ localBase <= released /\ merged \in Seq(Pulls)
  BY DEF CollectorTypes
<1>3. asked \in Levels
  BY DEF Coll!Evaluate, Levels
<1>4. CollectorTypes'
  <2>1. rel' \in Releases
    BY <1>1, <1>2, <1>3 DEF Releases
  <2> QED
    BY <1>1, <2>1 DEF CollectorTypes
<1>5. commits = [n \in 1 .. local - localBase |-> merged[local + 1 - n].commit]
  BY DEF Coll!GetCommitsBetween
<1>6. /\ DOMAIN commits = 1 .. local - localBase
      /\ \A n \in 1 .. local - localBase : commits[n] = merged[local + 1 - n].commit
  BY <1>5
<1> HIDE DEF commits
<1>7. DOMAIN commits \subseteq Nat /\ \A n \in DOMAIN commits : \E p \in Pulls : commits[n] = p.commit
  <2>1. ASSUME NEW n \in DOMAIN commits PROVE \E p \in Pulls : commits[n] = p.commit
    <3>1. local + 1 - n \in 1 .. Len(merged)
      BY <1>2, <1>6
    <3>2. merged[local + 1 - n] \in Pulls
      BY <1>2, <3>1
    <3> QED
      BY <1>6, <3>2
  <2> QED
    BY <1>2, <1>6, <2>1
<1>8. Covered({asked}, released, local)
  <2> SUFFICES ASSUME SameWordsMeanTheSame, NEW n \in released + 1 .. local
               PROVE  /\ Coll!Breaks(merged[n].commit) => "major" \in {asked}
                      /\ Coll!Adds(merged[n].commit) => {asked} \intersect {"minor", "major"} # {}
    BY DEF Covered
  <2>1. local + 1 - n \in DOMAIN commits /\ local + 1 - (local + 1 - n) = n
    BY <1>2, <1>6
  <2>2. commits[local + 1 - n] = merged[n].commit
    BY <1>6, <2>1
  <2>3. /\ Coll!Breaks(commits[local + 1 - n]) => asked = "major"
        /\ Coll!Adds(commits[local + 1 - n]) => asked \in {"minor", "major"}
    BY <1>7, <2>1, VersionCoversCommits
  <2> QED
    BY <2>2, <2>3
<1>9. Labelled'
  <2>1. rel'.upTo = local /\ rel'.label = asked
    BY <1>1
  <2> QED
    BY <1>1, <1>2, <1>8, <2>1 DEF Labelled, Covered
<1> QED
  BY <1>1, <1>4, <1>9, ReleaseSparesSync

LEMMA EnsureReleaseLabelKeeps ==
    CollectorInvariant /\ Coll!EnsureReleaseLabel => CollectorInvariant'
<1> SUFFICES ASSUME CollectorInvariant, Coll!EnsureReleaseLabel PROVE CollectorInvariant'
  OBVIOUS
<1> USE DEF CollectorInvariant
<1>1. /\ UNCHANGED <<merged, issue, releases, released, local, localBase, sync>>
      /\ rel.pc = "label"
      /\ labels' \in {labels, labels \union {rel.label}}
      /\ rel' = [rel EXCEPT !.pc = "find"] \/ rel' = Coll!NoRelease
  BY DEF Coll!EnsureReleaseLabel, Coll!StopRelease, Coll!Clone
<1>2. rel \in Releases
  BY DEF CollectorTypes
<1>3. rel' \in Releases /\ (rel'.pc # "idle" => rel'.label = rel.label /\ rel'.upTo = rel.upTo)
  BY <1>1, <1>2, NoReleaseIs DEF Releases
<1>4. labels' \subseteq Levels
  BY <1>1, <1>2 DEF CollectorTypes, Releases
<1>5. CollectorTypes'
  BY <1>1, <1>3, <1>4 DEF CollectorTypes
<1>6. Labelled'
  BY <1>1, <1>3 DEF Labelled, Covered
<1> QED
  BY <1>1, <1>5, <1>6, ReleaseSparesSync

\* A label that is added to what a pull request has covers the commits it is for.
LEMMA FindReleaseKeeps == CollectorInvariant /\ Coll!FindRelease => CollectorInvariant'
<1> SUFFICES ASSUME CollectorInvariant, Coll!FindRelease PROVE CollectorInvariant'
  OBVIOUS
<1> USE DEF CollectorInvariant
<1>1. /\ UNCHANGED <<merged, issue, labels, released, local, localBase, sync>>
      /\ rel.pc = "find"
      /\ rel' = [rel EXCEPT !.pc = "create"] \/ rel' = Coll!NoRelease
  BY DEF Coll!FindRelease, Coll!StopRelease, Coll!Clone
<1>2. rel \in Releases /\ rel.label \in Levels /\ rel.upTo \in Nat
  BY DEF CollectorTypes, Releases
<1>3. CASE UNCHANGED releases
  <2>1. rel' \in Releases /\ (rel'.pc # "idle" => rel'.label = rel.label /\ rel'.upTo = rel.upTo)
    BY <1>1, <1>2, NoReleaseIs DEF Releases
  <2>2. CollectorTypes' /\ Labelled'
    BY <1>1, <1>3, <2>1 DEF CollectorTypes, Labelled, Covered
  <2> QED
    BY <1>1, <2>2, ReleaseSparesSync
<1>4. CASE /\ releases # <<>> /\ rel' = Coll!NoRelease
           /\ releases' = [releases EXCEPT ![Len(releases)].labels = @ \union {rel.label},
                                           ![Len(releases)].upTo = rel.upTo]
  <2> DEFINE newest == releases[Len(releases)]
             u == [newest EXCEPT !.labels = @ \union {rel.label}, !.upTo = rel.upTo]
  <2>1. newest \in PullRequest /\ Len(releases) \in DOMAIN releases /\ releases \in Seq(PullRequest)
    BY <1>4, NewestIs
  <2>2. u \in PullRequest /\ u.labels = newest.labels \union {rel.label} /\ u.upTo = rel.upTo
    BY <1>2, <2>1 DEF PullRequest
  <2>3. releases' = [releases EXCEPT ![Len(releases)] = u]
    BY <1>4, <2>1
  <2> HIDE DEF u
  <2>4. /\ releases' \in Seq(PullRequest) /\ Len(releases') = Len(releases)
        /\ releases'[Len(releases')] = u
    BY <2>1, <2>2, <2>3
  <2>5. CollectorTypes'
    BY <1>1, <1>4, <2>4, NoReleaseIs DEF CollectorTypes
  <2>6. rel.upTo <= Len(merged) /\ Covered({rel.label}, released, rel.upTo)
    BY <1>1 DEF Labelled
  <2>7. Covered(u.labels, released, u.upTo)
    BY <2>2, <2>6 DEF Covered
  <2>8. Labelled'
    BY <1>1, <1>4, <2>2, <2>4, <2>6, <2>7, NoReleaseIs DEF Labelled, Covered
  <2> QED
    BY <1>1, <2>5, <2>8, ReleaseSparesSync
<1> QED
  BY <1>3, <1>4 DEF Coll!FindRelease, Coll!StopRelease

LEMMA CreateReleaseKeeps == CollectorInvariant /\ Coll!CreateRelease => CollectorInvariant'
<1> SUFFICES ASSUME CollectorInvariant, Coll!CreateRelease PROVE CollectorInvariant'
  OBVIOUS
<1> USE DEF CollectorInvariant
<1> DEFINE u == [state |-> "open", labels |-> {rel.label}, upTo |-> rel.upTo]
<1>1. /\ UNCHANGED <<merged, issue, labels, released, local, localBase, sync>>
      /\ rel.pc = "create" /\ rel' = Coll!NoRelease
      /\ UNCHANGED releases \/ releases' = Append(releases, u)
  BY DEF Coll!CreateRelease, Coll!StopRelease, Coll!Clone
<1>2. rel.label \in Levels /\ rel.upTo \in Nat /\ releases \in Seq(PullRequest)
  BY DEF CollectorTypes, Releases
<1>3. u \in PullRequest
  BY <1>2 DEF PullRequest
<1>4. CASE UNCHANGED releases
  <2>1. CollectorTypes' /\ Labelled'
    BY <1>1, <1>4, NoReleaseIs DEF CollectorTypes, Labelled, Covered
  <2> QED
    BY <1>1, <2>1, ReleaseSparesSync
<1>5. CASE releases' = Append(releases, u)
  <2>1. /\ releases' \in Seq(PullRequest) /\ releases' # <<>>
        /\ releases'[Len(releases')] = u
    BY <1>2, <1>3, <1>5
  <2>2. CollectorTypes'
    BY <1>1, <2>1, NoReleaseIs DEF CollectorTypes
  <2>3. rel.upTo <= Len(merged) /\ Covered({rel.label}, released, rel.upTo)
    BY <1>1 DEF Labelled
  <2>4. Labelled'
    BY <1>1, <2>1, <2>3, NoReleaseIs DEF Labelled, Covered
  <2> QED
    BY <1>1, <2>2, <2>4, ReleaseSparesSync
<1> QED
  BY <1>1, <1>4, <1>5

LEMMA CollectorKeeps ==
    CollectorInvariant /\ [Coll!Next]_Coll!vars => CollectorInvariant'
<1> SUFFICES ASSUME CollectorInvariant, [Coll!Next]_Coll!vars
             PROVE  CollectorInvariant'
  OBVIOUS
<1>1. CASE UNCHANGED Coll!vars
  BY <1>1 DEF Coll!vars, CollectorInvariant, CollectorTypes, Listed, Handled, Labelled, Covered
<1>2. CASE \E i \in Issues : Coll!CloseOrReopen(i)
  BY <1>2, CloseOrReopenKeeps
<1>3. CASE \E where \in {"collector", "its task", "elsewhere"} : Coll!StartSync(where)
  BY <1>3, StartSyncKeeps
<1>4. CASE \E refresh \in BOOLEAN : Coll!StartRelease(refresh)
  BY <1>4, StartReleaseKeeps
<1>5. CASE Coll!MergePull \/ Coll!MergeRelease \/ Coll!CloseRelease \/ Coll!PullBase
  BY <1>5, MergePullKeeps, MergeReleaseKeeps, CloseReleaseKeeps, PullBaseKeeps
<1>6. CASE Coll!SyncStep
  BY <1>6, FastForwardKeeps, ListMergedPrsKeeps, NextPullKeeps, VerifyDiffKeeps,
     FetchIssueStrictKeeps, CloseIssueKeeps, CommentOnIssueKeeps DEF Coll!SyncStep
<1>7. CASE Coll!ReleaseStep
  BY <1>7, EnsureReleaseLabelKeeps, FindReleaseKeeps, CreateReleaseKeeps DEF Coll!ReleaseStep
<1> QED
  BY <1>1, <1>2, <1>3, <1>4, <1>5, <1>6, <1>7 DEF Coll!Next

LEMMA AlwaysCollector == CollectorSpec => []CollectorInvariant
<1>1. Coll!Init => CollectorInvariant
  BY CollectorStarts
<1>2. CollectorInvariant /\ [Coll!Next]_Coll!vars => CollectorInvariant'
  BY CollectorKeeps
<1> QED
  BY <1>1, <1>2, PTL DEF CollectorSpec, Coll!Spec

\* What the variables of Collector may be, for any pull requests and any bounds.
THEOREM CollectorTypeCorrect == CollectorSpec => []Coll!TypeOK
<1>1. CollectorInvariant => Coll!TypeOK
  BY DEF CollectorInvariant, CollectorTypes, Syncs, Listed, Levels, Coll!TypeOK
<1> QED
  BY <1>1, AlwaysCollector, PTL

\* A sync that ends without a warning has closed the issues of all merged source
\* changes the local branch has, except those a person opened again: the listing was
\* of all that was merged, no issue it passed was open, and only people open issues
\* (application/sync.ts).
THEOREM SuccessfulSyncsCloseTheirIssues == CollectorSpec => SuccessIsTheTruth
<1> DEFINE A == (sync.pc = "next" /\ sync'.pc = "end" /\ ~sync'.incomplete /\ ~sync'.warned)
                  => \A n \in 1 .. local' : \A i \in Issues \ sync.reopened :
                        Coll!Does(merged[n], i) => issue[i] = "CLOSED"
<1>1. ASSUME CollectorInvariant, [Coll!Next]_Coll!vars PROVE [A]_Coll!vars
  <2> SUFFICES ASSUME Coll!Next, sync.pc = "next", sync'.pc = "end", ~sync'.incomplete,
                      ~sync'.warned, NEW n \in 1 .. local', NEW i \in Issues \ sync.reopened,
                      Coll!Does(merged[n], i)
               PROVE  issue[i] = "CLOSED"
    BY <1>1 DEF Coll!vars
  <2>1. sync \in Syncs /\ sync.at \in Nat /\ Len(sync.list) \in Nat
    BY <1>1 DEF CollectorInvariant, CollectorTypes, Syncs
  <2>2. Coll!NextPull
    BY <2>1 DEF Coll!Next, Coll!MergePull, Coll!CloseOrReopen, Coll!MergeRelease,
       Coll!CloseRelease, Coll!PullBase, Coll!StartSync, Coll!Syncing, Coll!SyncStep,
       Coll!FastForward, Coll!ListMergedPrs, Coll!VerifyDiff, Coll!FetchIssueStrict,
       Coll!CloseIssue, Coll!CommentOnIssue, Coll!StartRelease, Coll!ReleaseStep,
       Coll!EnsureReleaseLabel, Coll!FindRelease, Coll!CreateRelease, Syncs
  <2>3. sync.at = Len(sync.list) /\ sync' = Coll!Ended(sync) /\ local' = local
    <3>1. sync.at # Len(sync.list) => sync'.pc # "end"
      BY <2>1, <2>2 DEF Coll!NextPull, Syncs
    <3> QED
      BY <2>2, <3>1 DEF Coll!NextPull, Coll!Clone
  <2>4. ~sync.incomplete /\ ~sync.warned
    BY <2>3 DEF Coll!Ended, Coll!NoSync
  <2>5. /\ local \in Nat /\ local <= Len(sync.list)
        /\ \A k \in 1 .. Len(sync.list) : sync.list[k] = merged[Len(sync.list) + 1 - k]
    BY <1>1 DEF CollectorInvariant, CollectorTypes, Listed, Working
  <2>6. /\ Len(sync.list) + 1 - n \in 1 .. sync.at
        /\ Len(sync.list) + 1 - (Len(sync.list) + 1 - n) = n
    BY <2>1, <2>3, <2>5
  <2>7. sync.list[Len(sync.list) + 1 - n] = merged[n]
    BY <2>3, <2>5, <2>6
  <2> QED
    BY <1>1, <2>4, <2>6, <2>7 DEF CollectorInvariant, Handled, Working
<1>2. CollectorInvariant /\ [Coll!Next]_Coll!vars => [A]_Coll!vars
  BY <1>1
<1>3. CollectorSpec => [][A]_Coll!vars
  BY <1>2, AlwaysCollector, PTL DEF CollectorSpec, Coll!Spec
<1> QED
  BY <1>3 DEF SuccessIsTheTruth, Coll!SuccessIsTheTruth

\* A release pull request that is merged with the commits it was labelled for carries
\* a label high enough for each of them, wherever in its message a commit says what it
\* is and whichever calls failed, as long as the same words mean the same
\* (milestone-release.ts, semver-calculator.ts).
THEOREM ReleasesAreLabelledForTheirCommits ==
    SameWordsMeanTheSame /\ CollectorSpec => ReleaseCoversItsCommits
<1> DEFINE newest == Coll!Last(releases)
           A == (released' # released /\ newest.upTo = Len(merged))
                  => \A n \in released + 1 .. Len(merged) :
                        /\ Coll!Breaks(merged[n].commit) => "major" \in newest.labels
                        /\ Coll!Adds(merged[n].commit)
                             => newest.labels \cap {"minor", "major"} # {}
<1>1. SameWordsMeanTheSame /\ CollectorInvariant /\ [Coll!Next]_Coll!vars => [A]_Coll!vars
  <2> SUFFICES ASSUME SameWordsMeanTheSame, CollectorInvariant, Coll!Next,
                      released' # released, newest.upTo = Len(merged),
                      NEW n \in released + 1 .. Len(merged)
               PROVE  /\ Coll!Breaks(merged[n].commit) => "major" \in newest.labels
                      /\ Coll!Adds(merged[n].commit)
                           => newest.labels \cap {"minor", "major"} # {}
    BY DEF Coll!vars
  <2>1. Coll!MergeRelease
    BY DEF Coll!Next, Coll!MergePull, Coll!CloseOrReopen, Coll!CloseRelease, Coll!PullBase,
       Coll!StartSync, Coll!SyncStep, Coll!FastForward, Coll!ListMergedPrs, Coll!NextPull,
       Coll!VerifyDiff, Coll!FetchIssueStrict, Coll!CloseIssue, Coll!CommentOnIssue,
       Coll!StartRelease, Coll!ReleaseStep, Coll!EnsureReleaseLabel, Coll!FindRelease,
       Coll!CreateRelease, Coll!GitHub
  <2>2. releases # <<>>
    BY <2>1 DEF Coll!MergeRelease, Coll!NothingOpen
  <2>3. newest = releases[Len(releases)]
    BY DEF Coll!Last
  <2> HIDE DEF newest
  <2>4. Covered(newest.labels, released, Len(merged))
    BY <2>2, <2>3 DEF CollectorInvariant, Labelled
  <2> QED
    BY <2>4 DEF Covered
<1>2. SameWordsMeanTheSame => []SameWordsMeanTheSame
  <2>1. SameWordsMeanTheSame => SameWordsMeanTheSame'
    BY DEF SameWordsMeanTheSame
  <2> QED
    BY <2>1, PTL
<1>3. SameWordsMeanTheSame /\ CollectorSpec => [][A]_Coll!vars
  BY <1>1, <1>2, AlwaysCollector, PTL DEF CollectorSpec, Coll!Spec
<1> QED
  BY <1>3 DEF ReleaseCoversItsCommits, Coll!ReleaseCoversItsCommits
================================================================================
