---------------------------- MODULE TriageFeedback ----------------------------
(***************************************************************************)
(* Review feedback on the pull request of a finished task, and what becomes*)
(* of it: `codeloop next` and the lifecycle run route the task to TRIAGE,  *)
(* `codeloop triage <action>` (application/triage-pr-comments.ts) routes it*)
(* on, answers the comments when the action is `dismiss`, and records the  *)
(* disposition that keeps the same comments from routing it again          *)
(* (domain/value-objects/triage-disposition.ts).                           *)
(*                                                                         *)
(* The triage command talks to GitHub once per comment.  A call may fail,  *)
(* or fail after it took effect, the command may be killed between two of  *)
(* them, and people go on commenting.  A comment is its identity, its      *)
(* surface and its text; the tool's replies are the other entries of the   *)
(* timeline.  Automated status posts are never feedback and left out.      *)
(***************************************************************************)
EXTENDS Naturals, Sequences, FiniteSets, SequencesExt

CONSTANTS
    Inline,        \* comments of a review thread, one thread each
    Conversation,  \* comments of the conversation
    Reviews,       \* the texts of reviews themselves
    General,       \* conversation comments without a severity marker
    Text,          \* the text of each comment, apart from header and footer
    MaxKeys        \* MAX_TRIAGE_DISPOSITION_FEEDBACK_KEYS, 200 in the code

Comments == Inline \union Conversation \union Reviews

ASSUME TriageAssumption ==
    /\ IsFiniteSet(Comments)
    /\ General \subseteq Conversation
    /\ Inline \intersect Conversation = {}
    /\ Reviews \intersect (Inline \union Conversation) = {}
    /\ MaxKeys \in Nat

VARIABLES
    timeline,     \* what the pull request shows, oldest first
    prOpen,       \* it is neither merged nor closed
    stage,        \* of the saved checkpoint; IMPLEMENT stands for PLAN and DISCOVERY too
    disposition,  \* of the saved checkpoint: the keys disposed of, oldest first
    op,           \* the running triage command
    triaged       \* history: comments another action than dismiss disposed of

vars == <<timeline, prOpen, stage, disposition, op, triaged>>

Actions == {"implement", "completed", "dismiss"}

Comment(c) == [kind |-> "comment", about |-> c]
Answer(c) == [kind |-> "answer", about |-> c]
Entries == [kind : {"comment", "answer"}, about : Comments]

Commands ==
    [pc : {"idle", "threads", "inline", "conversation", "route"}, action : Actions,
     fetched : Seq(Entries), todo : SUBSET Comments, handled : SUBSET Comments,
     texts : SUBSET {Text[c] : c \in Comments}, performed : BOOLEAN]

Idle == [pc |-> "idle", action |-> "completed", fetched |-> <<>>, todo |-> {},
         handled |-> {}, texts |-> {}, performed |-> FALSE]

TypeOK ==
    /\ timeline \in Seq(Entries)
    /\ prOpen \in BOOLEAN
    /\ stage \in {"TRIAGE", "COMPLETED", "IMPLEMENT"}
    /\ disposition \in Seq(Comments) /\ IsInjective(disposition)
    /\ Len(disposition) <= MaxKeys
    /\ op \in Commands
    /\ triaged \subseteq Comments

Init ==
    /\ timeline = <<>>
    /\ prOpen = TRUE
    /\ stage = "COMPLETED"
    /\ disposition = <<>>
    /\ op = Idle
    /\ triaged = {}

-----------------------------------------------------------------------------
(* Reading the pull request.                                               *)

\* actionableReviewFeedback: everything but the tool's own replies.
Actionable(entries) == {e.about : e \in {x \in ToSet(entries) : x.kind = "comment"}}

\* The threads or comments that carry, or are named by, a reply of the tool.
AnsweredIn(entries) == {e.about : e \in {x \in ToSet(entries) : x.kind = "answer"}}

\* Mutant: what earlier runs answered is not remembered (their memory died with
\* the process).
AnsweredIds_ofThisRunOnly(entries) == {}

\* What the fetched state proves to have been answered by an earlier run.
AnsweredIds(entries) == AnsweredIn(entries)

\* isUnattributablePriorAnswer: a comment without marker that is older than the
\* newest reply in the conversation counts as an answer itself.
PriorAnswer(c, entries) ==
    /\ c \in General
    /\ \E i, j \in DOMAIN entries :
         /\ i < j
         /\ entries[i] = Comment(c)
         /\ entries[j].kind = "answer" /\ entries[j].about \in Conversation

-----------------------------------------------------------------------------
(* The disposition.                                                        *)

\* TriageDisposition.merge: the keys of both, each once, the newest MaxKeys.
Merge(old, keys) ==
    LET all == old \o SetToSeq(keys \ ToSet(old))
    IN SubSeq(all, IF Len(all) > MaxKeys THEN Len(all) - MaxKeys + 1 ELSE 1, Len(all))

CoversAll(d, keys) == keys # {} /\ keys \subseteq ToSet(d)

\* Mutant: the disposition is shaped and never stored (#269).
DispositionAfter_notStored(old, keys) == old

\* An empty set of keys records nothing.
DispositionAfter(old, keys) == IF keys = {} THEN old ELSE Merge(old, keys)

-----------------------------------------------------------------------------
(* People and GitHub.                                                      *)

Post(c) ==
    /\ prOpen
    /\ Comment(c) \notin ToSet(timeline)
    /\ timeline' = Append(timeline, Comment(c))
    /\ UNCHANGED <<prOpen, stage, disposition, op, triaged>>

ClosePullRequest ==
    /\ prOpen
    /\ prOpen' = FALSE
    /\ UNCHANGED <<timeline, stage, disposition, op, triaged>>

-----------------------------------------------------------------------------
(* The commands that route.                                                *)

\* What `next` finds: a read that fails finds nothing, and feedback that has all
\* been disposed of is none.
OpenFeedback ==
    IF prOpen /\ ~CoversAll(disposition, Actionable(timeline))
    THEN Actionable(timeline) ELSE {}

\* What the preflight check of the lifecycle run finds.
PreflightFeedback == IF prOpen THEN Actionable(timeline) ELSE {}

ShouldRouteToTriage(feedback) == feedback # {} /\ stage # "TRIAGE"

\* `next` routes a finished task.
NextRoutes ==
    /\ stage = "COMPLETED"
    /\ ShouldRouteToTriage(OpenFeedback)
    /\ stage' = "TRIAGE"
    /\ UNCHANGED <<timeline, prOpen, disposition, op, triaged>>

\* The lifecycle run routes from every stage.
RunRoutes ==
    /\ ShouldRouteToTriage(PreflightFeedback)
    /\ stage' = "TRIAGE"
    /\ UNCHANGED <<timeline, prOpen, disposition, op, triaged>>

\* The gate ends by itself when the pull request is over.
ResolveTriageReentry == IF prOpen THEN "REPORT_TRIAGE_GATE" ELSE "EXIT_TO_COMPLETED"

NextLeavesTriage ==
    /\ stage = "TRIAGE"
    /\ ResolveTriageReentry = "EXIT_TO_COMPLETED"
    /\ stage' = "COMPLETED"
    /\ UNCHANGED <<timeline, prOpen, disposition, op, triaged>>

\* The work is done once more and delivered.
Deliver ==
    /\ stage = "IMPLEMENT"
    /\ stage' = "COMPLETED"
    /\ UNCHANGED <<timeline, prOpen, disposition, op, triaged>>

-----------------------------------------------------------------------------
(* codeloop triage <action>, only at the gate.                             *)

\* The read of the pull request; one that fails is no error.
FetchPullRequestComments(read) == IF read THEN timeline ELSE <<>>

DismissalPrecondition(comments) == comments # <<>>

Triage(action, read) ==
    /\ op.pc = "idle"
    /\ stage = "TRIAGE"
    /\ action = "dismiss" => DismissalPrecondition(FetchPullRequestComments(read))
    /\ op' = [Idle EXCEPT !.pc = IF action = "dismiss" THEN "threads" ELSE "route",
                          !.action = action,
                          !.fetched = FetchPullRequestComments(read)]
    /\ UNCHANGED <<timeline, prOpen, stage, disposition, triaged>>

\* The threads whose comments were fetched; a list that fails has none.
ListThreads ==
    /\ op.pc = "threads"
    /\ \E listed \in {{}, Actionable(op.fetched) \intersect Inline} :
         op' = [op EXCEPT !.pc = "inline", !.todo = listed]
    /\ UNCHANGED <<timeline, prOpen, stage, disposition, triaged>>

Dispose(c) == [op EXCEPT !.todo = @ \ {c}, !.handled = @ \union {c}]

\* Mutant: feedback counts as disposed of when its reply failed (#336).
Reply_failureIsHandled(c, texts) ==
    \E arrived, answered \in BOOLEAN :
        /\ answered => arrived
        /\ timeline' = IF arrived THEN Append(timeline, Answer(c)) ELSE timeline
        /\ op' = [Dispose(c) EXCEPT !.performed = @ \/ answered, !.texts = @ \union texts]

\* One call of GitHub: the reply arrives or not, and one that arrived may still
\* end in an error.  Only an acknowledged reply disposes of the feedback.
Reply(c, texts) ==
    \E arrived, answered \in BOOLEAN :
        /\ answered => arrived
        /\ timeline' = IF arrived THEN Append(timeline, Answer(c)) ELSE timeline
        /\ op' = IF answered
                 THEN [Dispose(c) EXCEPT !.performed = TRUE, !.texts = @ \union texts]
                 ELSE [op EXCEPT !.todo = @ \ {c}]

\* A thread with a reply of the tool is skipped, whatever its resolution state;
\* the resolution that follows a reply changes nothing here.
TriageThread ==
    /\ op.pc = "inline"
    /\ \E c \in op.todo :
         IF c \in AnsweredIds(op.fetched)
         THEN /\ op' = [Dispose(c) EXCEPT !.texts = @ \union {Text[c]}]
              /\ UNCHANGED timeline
         ELSE Reply(c, {Text[c]})
    /\ UNCHANGED <<prOpen, stage, disposition, triaged>>

TurnToConversation ==
    /\ op.pc = "inline"
    /\ op.todo = {}
    /\ op' = [op EXCEPT !.pc = "conversation",
                        !.todo = Actionable(op.fetched) \intersect Conversation]
    /\ UNCHANGED <<timeline, prOpen, stage, disposition, triaged>>

\* What was answered before, repeats a thread that has an answer or counts as an
\* answer is disposed of without a reply.
DismissConversation ==
    /\ op.pc = "conversation"
    /\ \E c \in op.todo :
         IF \/ c \in AnsweredIds(op.fetched)
            \/ Text[c] \in op.texts
            \/ PriorAnswer(c, op.fetched)
         THEN op' = Dispose(c) /\ UNCHANGED timeline
         ELSE Reply(c, {})
    /\ UNCHANGED <<prOpen, stage, disposition, triaged>>

\* A dismissal that performed nothing is refused and writes nothing.
FinishDismissal ==
    /\ op.pc = "conversation"
    /\ op.todo = {}
    /\ op' = IF op.performed THEN [op EXCEPT !.pc = "route"] ELSE Idle
    /\ UNCHANGED <<timeline, prOpen, stage, disposition, triaged>>

\* A dismissal disposes of what it handled, the other actions of all they read.
DispositionKeys ==
    IF op.action = "dismiss" THEN op.handled ELSE Actionable(op.fetched)

TargetStage(action) == IF action = "implement" THEN "IMPLEMENT" ELSE "COMPLETED"

\* The transition, the disposition and the one save.
Route ==
    /\ op.pc = "route"
    /\ stage' = TargetStage(op.action)
    /\ disposition' = DispositionAfter(disposition, DispositionKeys)
    /\ triaged' = IF op.action = "dismiss" THEN triaged
                  ELSE triaged \union Actionable(op.fetched)
    /\ op' = Idle
    /\ UNCHANGED <<timeline, prOpen>>

\* The worktree of `implement` cannot be made, or the command is killed.
Abandon ==
    /\ op.pc # "idle"
    /\ op' = Idle
    /\ UNCHANGED <<timeline, prOpen, stage, disposition, triaged>>

-----------------------------------------------------------------------------
Next ==
    \/ \E c \in Comments : Post(c)
    \/ ClosePullRequest
    \/ NextRoutes \/ RunRoutes \/ NextLeavesTriage \/ Deliver
    \/ \E action \in Actions, read \in BOOLEAN : Triage(action, read)
    \/ ListThreads \/ TriageThread \/ TurnToConversation
    \/ DismissConversation \/ FinishDismissal
    \/ Route \/ Abandon

Spec == Init /\ [][Next]_vars

\* The operator comes back to the gate and some time chooses an action other than
\* dismiss while GitHub can be read; a command tried again and again comes
\* through; work sent back is delivered.
AnswersTheGate == \E action \in Actions \ {"dismiss"} : Triage(action, TRUE)
AnswerIsRecorded == op.action # "dismiss" /\ op.fetched # <<>> /\ Route

FairSpec ==
    /\ Spec
    /\ WF_vars(Deliver)
    /\ SF_vars(AnswersTheGate)
    /\ SF_vars(AnswerIsRecorded)
    /\ WF_vars(Route \/ ListThreads \/ TriageThread \/ TurnToConversation
               \/ DismissConversation \/ FinishDismissal)

-----------------------------------------------------------------------------
(* Properties.                                                             *)

\* No comment gets a second reply of the tool, over retries of a dismissal that
\* failed half way, was killed or lost the answer of GitHub.
AnsweredOnce ==
    \A i, j \in DOMAIN timeline :
        timeline[i].kind = "answer" /\ timeline[i] = timeline[j] => i = j

\* Feedback is recorded as disposed of only when the tool answered it, answered a
\* thread with the same text, took it for an answer, or the operator chose another
\* action than dismiss over it.
DisposedWasHandled ==
    \A c \in ToSet(disposition) :
        \/ c \in triaged
        \/ \E d \in AnsweredIn(timeline) : d = c \/ (d \in Inline /\ Text[d] = Text[c])
        \/ PriorAnswer(c, timeline)

\* The lifecycle run routes a task whose feedback has all been disposed of.
RoutedAgain == RunRoutes /\ CoversAll(disposition, Actionable(timeline))

\* The gate ends: once people have said all they will say, a task whose operator
\* answers the gate stays finished and is not sent back by the same comments,
\* unless the lifecycle run, which does not look at the disposition, is started
\* again and again.
TriageComesToAnEnd == []<><<RoutedAgain>>_vars \/ <>[](stage = "COMPLETED")

=============================================================================
