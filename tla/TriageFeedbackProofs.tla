------------------------- MODULE TriageFeedbackProofs -------------------------
(***************************************************************************)
(* What holds of the triage command for any comments, texts and bound of   *)
(* the disposition, whichever calls of GitHub fail, lose their answer or   *)
(* are never made, and however often the command is killed and repeated:   *)
(* no comment is answered twice, and none is disposed of that nobody dealt *)
(* with.                                                                   *)
(***************************************************************************)
EXTENDS TriageFeedback, SequenceTheorems, FiniteSetTheorems, TLAPS

\* The read that a command works from is the beginning of the timeline: entries
\* are only added.
Reading ==
    \A i \in DOMAIN op.fetched : i \in DOMAIN timeline /\ op.fetched[i] = timeline[i]

\* Whatever a dismissal has yet to turn to and already carries an answer carries
\* it in the read too: it gives each comment one reply, and nobody else replies.
Known(cs) == \A c \in cs : c \in AnsweredIn(timeline) => c \in AnsweredIn(op.fetched)

Remembering ==
    /\ op.pc = "threads" => Known(Comments)
    /\ op.pc = "inline" => op.todo \subseteq Inline /\ Known(op.todo \union Conversation)
    /\ op.pc = "conversation" => op.todo \subseteq Conversation /\ Known(op.todo)

\* What a disposed comment must have behind it on a timeline.
Dealt(c, entries) ==
    \/ \E d \in AnsweredIn(entries) : d = c \/ (d \in Inline /\ Text[d] = Text[c])
    \/ PriorAnswer(c, entries)

\* The texts a dismissal remembers are of threads with an answer, and what it
\* counts as handled has been dealt with.
Handling ==
    /\ \A t \in op.texts : \E d \in Inline : d \in AnsweredIn(timeline) /\ Text[d] = t
    /\ \A c \in op.handled : Dealt(c, timeline)

Recorded == \A c \in ToSet(disposition) : c \in triaged \/ Dealt(c, timeline)

TriageInvariant ==
    /\ TypeOK
    /\ Reading
    /\ Remembering
    /\ Handling
    /\ Recorded
    /\ AnsweredOnce

-----------------------------------------------------------------------------
(* Sequences and sets.                                                     *)

\* The elements of a finite set, as a sequence, are those and each is there once.
LEMMA ListOfSet ==
    ASSUME NEW S, IsFiniteSet(S)
    PROVE  /\ SetToSeq(S) \in Seq(S)
           /\ \A i, j \in 1 .. Len(SetToSeq(S)) :
                 SetToSeq(S)[i] = SetToSeq(S)[j] => i = j
<1> DEFINE n == Cardinality(S)
           IsList(f) == f \in [1 .. n -> S] /\ IsInjective(f)
<1>1. n \in Nat /\ ExistsBijection(1 .. n, S)
  BY FS_CardinalityType
<1>2. PICK f : f \in Bijection(1 .. n, S)
  BY <1>1 DEF ExistsBijection
<1>3. f \in [1 .. n -> S] /\ IsInjective(f)
  BY <1>2 DEF Bijection, Injection, IsInjective
<1>4. SetToSeq(S) \in [1 .. n -> S] /\ IsInjective(SetToSeq(S))
  BY <1>3 DEF SetToSeq
<1> HIDE DEF n
<1>5. SetToSeq(S) \in Seq(S) /\ Len(SetToSeq(S)) = n
  BY <1>1, <1>4
<1> QED
  BY <1>4, <1>5 DEF IsInjective

\* Merged keys are keys, each once, no more than the bound, and none that is new.
LEMMA MergeKeeps ==
    ASSUME NEW old \in Seq(Comments), IsInjective(old), NEW keys \in SUBSET Comments
    PROVE  /\ Merge(old, keys) \in Seq(Comments)
           /\ IsInjective(Merge(old, keys))
           /\ Len(Merge(old, keys)) <= MaxKeys
           /\ ToSet(Merge(old, keys)) \subseteq ToSet(old) \union keys
<1> DEFINE new == SetToSeq(keys \ ToSet(old))
           all == old \o new
           first == IF Len(all) > MaxKeys THEN Len(all) - MaxKeys + 1 ELSE 1
           rest == SubSeq(all, first, Len(all))
<1>1. IsFiniteSet(keys \ ToSet(old))
  BY FS_Subset, TriageAssumption
<1>2. new \in Seq(keys \ ToSet(old)) /\ \A i, j \in 1 .. Len(new) : new[i] = new[j] => i = j
  BY <1>1, ListOfSet
<1> HIDE DEF new
<1>3. new \in Seq(Comments) /\ \A i \in 1 .. Len(new) : new[i] \in keys \ ToSet(old)
  BY <1>2, SeqMonotonic, ElementOfSeq
<1>4. /\ all \in Seq(Comments) /\ Len(all) = Len(old) + Len(new)
      /\ \A i \in 1 .. Len(old) + Len(new) :
            all[i] = IF i <= Len(old) THEN old[i] ELSE new[i - Len(old)]
  BY <1>3, ConcatProperties
<1>5. Len(old) \in Nat /\ Len(new) \in Nat /\ DOMAIN old = 1 .. Len(old)
  BY <1>3, LenProperties
<1> HIDE DEF all
<1>6. \A i \in 1 .. Len(all) : all[i] \in ToSet(old) \union keys
  <2> SUFFICES ASSUME NEW i \in 1 .. Len(all) PROVE all[i] \in ToSet(old) \union keys
    OBVIOUS
  <2>1. CASE i <= Len(old)
    BY <2>1, <1>4, <1>5 DEF ToSet
  <2>2. CASE ~(i <= Len(old))
    <3>1. i - Len(old) \in 1 .. Len(new)
      BY <2>2, <1>4, <1>5
    <3> QED
      BY <3>1, <2>2, <1>3, <1>4
  <2> QED
    BY <2>1, <2>2
<1>7. \A i, j \in 1 .. Len(all) : all[i] = all[j] => i = j
  <2> SUFFICES ASSUME NEW i \in 1 .. Len(all), NEW j \in 1 .. Len(all), all[i] = all[j]
               PROVE  i = j
    OBVIOUS
  <2>1. CASE i <= Len(old) /\ j <= Len(old)
    BY <2>1, <1>4, <1>5 DEF IsInjective
  <2>2. CASE ~(i <= Len(old)) /\ ~(j <= Len(old))
    <3>1. i - Len(old) \in 1 .. Len(new) /\ j - Len(old) \in 1 .. Len(new)
      BY <2>2, <1>4, <1>5
    <3>2. i - Len(old) = j - Len(old)
      BY <3>1, <2>2, <1>2, <1>4
    <3> QED
      BY <3>2, <1>5, <1>4
  <2>3. ASSUME NEW k \in 1 .. Len(all), NEW l \in 1 .. Len(all),
               k <= Len(old), ~(l <= Len(old))
        PROVE  all[k] # all[l]
    <3>1. l - Len(old) \in 1 .. Len(new)
      BY <2>3, <1>4, <1>5
    <3>2. all[l] \notin ToSet(old)
      BY <3>1, <2>3, <1>3, <1>4
    <3>3. all[k] \in ToSet(old)
      BY <2>3, <1>4, <1>5 DEF ToSet
    <3> QED
      BY <3>2, <3>3
  <2> QED
    BY <2>1, <2>2, <2>3
<1>8. /\ first \in 1 .. Len(all) + 1
      /\ Len(all) - first + 1 <= MaxKeys
  BY <1>4, <1>5, TriageAssumption
<1>9. \A i \in first .. Len(all) : all[i] \in Comments
  BY <1>4, <1>5, <1>8, ElementOfSeq
<1> HIDE DEF first
<1>10. /\ rest \in Seq(Comments)
       /\ Len(rest) = IF first <= Len(all) THEN Len(all) - first + 1 ELSE 0
       /\ \A i \in 1 .. Len(all) - first + 1 : rest[i] = all[first + i - 1]
  BY <1>4, <1>5, <1>8, <1>9, SubSeqProperties
<1>11. DOMAIN rest = 1 .. Len(rest) /\ Len(rest) \in Nat
  BY <1>10, LenProperties
<1> HIDE DEF rest
<1>12. \A i \in DOMAIN rest : first + i - 1 \in 1 .. Len(all) /\ rest[i] = all[first + i - 1]
  BY <1>4, <1>5, <1>8, <1>10, <1>11
<1>13. IsInjective(rest)
  <2> SUFFICES ASSUME NEW i \in DOMAIN rest, NEW j \in DOMAIN rest, rest[i] = rest[j]
               PROVE  i = j
    BY DEF IsInjective
  <2>1. first + i - 1 = first + j - 1
    BY <1>7, <1>12
  <2> QED
    BY <2>1, <1>8, <1>11, <1>4, <1>5
<1>14. ToSet(rest) \subseteq ToSet(old) \union keys
  BY <1>6, <1>12 DEF ToSet
<1>15. Len(rest) <= MaxKeys
  BY <1>4, <1>5, <1>8, <1>10, TriageAssumption
<1>16. Merge(old, keys) = rest
  BY DEF Merge, rest, first, all, new
<1> QED
  BY <1>10, <1>13, <1>14, <1>15, <1>16

\* An entry added to a timeline is its last one and leaves those before it.
LEMMA Added ==
    ASSUME NEW old \in Seq(Entries), NEW e \in Entries
    PROVE  /\ Append(old, e) \in Seq(Entries)
           /\ Len(old) \in Nat
           /\ DOMAIN old = 1 .. Len(old)
           /\ DOMAIN Append(old, e) = 1 .. Len(old) + 1
           /\ \A i \in 1 .. Len(old) : Append(old, e)[i] = old[i]
           /\ Append(old, e)[Len(old) + 1] = e
<1>1. /\ Append(old, e) \in Seq(Entries)
      /\ Len(Append(old, e)) = Len(old) + 1
      /\ \A i \in 1 .. Len(old) : Append(old, e)[i] = old[i]
      /\ Append(old, e)[Len(old) + 1] = e
  BY AppendProperties
<1>2. Len(old) \in Nat /\ DOMAIN old = 1 .. Len(old)
  BY LenProperties
<1>3. DOMAIN Append(old, e) = 1 .. Len(old) + 1
  BY <1>1, LenProperties
<1> QED
  BY <1>1, <1>2, <1>3

\* Answered is what an entry says so of.
LEMMA AnsweredBy ==
    ASSUME NEW entries, NEW c
    PROVE  c \in AnsweredIn(entries) <=>
              \E i \in DOMAIN entries : entries[i].kind = "answer" /\ entries[i].about = c
BY DEF AnsweredIn, ToSet

\* What is answered and what counts as an answer stays so.
LEMMA DealtStays ==
    ASSUME NEW old \in Seq(Entries), NEW e \in Entries
    PROVE  /\ AnsweredIn(Append(old, e)) =
                 AnsweredIn(old) \union (IF e.kind = "answer" THEN {e.about} ELSE {})
           /\ \A c : Dealt(c, old) => Dealt(c, Append(old, e))
<1> DEFINE new == Append(old, e)
<1>1. /\ Len(old) \in Nat /\ DOMAIN old = 1 .. Len(old) /\ DOMAIN new = 1 .. Len(old) + 1
      /\ \A i \in 1 .. Len(old) : new[i] = old[i]
      /\ new[Len(old) + 1] = e
  BY Added
<1> HIDE DEF new
<1>2. \A i \in DOMAIN old : i \in DOMAIN new /\ new[i] = old[i]
  BY <1>1
<1>3. \A i \in DOMAIN new : i \in DOMAIN old \/ new[i] = e
  BY <1>1
<1>4. Len(old) + 1 \in DOMAIN new
  BY <1>1
<1>5. ASSUME NEW c
      PROVE  c \in AnsweredIn(new) <=>
                c \in AnsweredIn(old) \/ (e.kind = "answer" /\ c = e.about)
  BY <1>1, <1>2, <1>3, <1>4, AnsweredBy
<1>6. AnsweredIn(new) = AnsweredIn(old) \union (IF e.kind = "answer" THEN {e.about} ELSE {})
  BY <1>5
<1>7. ASSUME NEW c, PriorAnswer(c, old)
      PROVE  PriorAnswer(c, new)
  BY <1>2, <1>7 DEF PriorAnswer
<1>8. ASSUME NEW c, Dealt(c, old)
      PROVE  Dealt(c, new)
  BY <1>6, <1>7, <1>8 DEF Dealt
<1> QED
  BY <1>6, <1>8 DEF new

-----------------------------------------------------------------------------
(* The steps.                                                              *)

\* The fields of a command that is not running.
LEMMA IdleCommand ==
    /\ Idle \in Commands
    /\ Idle.pc = "idle" /\ Idle.fetched = <<>> /\ Idle.texts = {} /\ Idle.handled = {}
BY EmptySeq DEF Idle, Commands, Actions

\* Without a command there is nothing to remember.
LEMMA IdleKeeps ==
    ASSUME TriageInvariant, op' = Idle, UNCHANGED <<timeline, triaged>>, UNCHANGED disposition,
           prOpen' = prOpen, stage' = stage
    PROVE  TriageInvariant'
<1>1. TypeOK'
  BY IdleCommand DEF TriageInvariant, TypeOK
<1>2. Reading' /\ Remembering' /\ Handling'
  BY IdleCommand DEF Reading, Remembering, Handling
<1>3. Recorded' /\ AnsweredOnce'
  BY DEF TriageInvariant, Recorded, AnsweredOnce, Dealt, PriorAnswer, AnsweredIn
<1> QED
  BY <1>1, <1>2, <1>3 DEF TriageInvariant

\* Another entry on the timeline takes nothing back, and a second answer is the
\* only one that could break the rule.
LEMMA Grown ==
    ASSUME TriageInvariant, NEW e \in Entries, timeline' = Append(timeline, e),
           UNCHANGED <<disposition, triaged>>
    PROVE  /\ timeline' \in Seq(Entries)
           /\ \A i \in DOMAIN timeline : i \in DOMAIN timeline' /\ timeline'[i] = timeline[i]
           /\ AnsweredIn(timeline') =
                 AnsweredIn(timeline) \union (IF e.kind = "answer" THEN {e.about} ELSE {})
           /\ \A c : Dealt(c, timeline) => Dealt(c, timeline')
           /\ Recorded'
           /\ (e.kind = "answer" /\ e.about \in AnsweredIn(timeline)) \/ AnsweredOnce'
<1>1. timeline \in Seq(Entries)
  BY DEF TriageInvariant, TypeOK
<1>2. /\ timeline' \in Seq(Entries)
      /\ Len(timeline) \in Nat
      /\ DOMAIN timeline = 1 .. Len(timeline)
      /\ DOMAIN timeline' = 1 .. Len(timeline) + 1
      /\ \A i \in 1 .. Len(timeline) : timeline'[i] = timeline[i]
      /\ timeline'[Len(timeline) + 1] = e
  BY <1>1, Added
<1>3. \A i \in DOMAIN timeline : i \in DOMAIN timeline' /\ timeline'[i] = timeline[i]
  BY <1>2
<1>4. /\ AnsweredIn(timeline') =
            AnsweredIn(timeline) \union (IF e.kind = "answer" THEN {e.about} ELSE {})
      /\ \A c : Dealt(c, timeline) => Dealt(c, timeline')
  BY <1>1, DealtStays
<1>5. Recorded'
  BY <1>4 DEF TriageInvariant, Recorded
<1>6. ASSUME ~(e.kind = "answer" /\ e.about \in AnsweredIn(timeline))
      PROVE  AnsweredOnce'
  <2> SUFFICES ASSUME NEW i \in DOMAIN timeline', NEW j \in DOMAIN timeline',
                      timeline'[i].kind = "answer", timeline'[i] = timeline'[j]
               PROVE  i = j
    BY DEF AnsweredOnce
  <2>1. CASE i \in DOMAIN timeline /\ j \in DOMAIN timeline
    BY <2>1, <1>3 DEF TriageInvariant, AnsweredOnce
  <2>2. CASE i \notin DOMAIN timeline /\ j \notin DOMAIN timeline
    BY <2>2, <1>2
  <2>3. ASSUME NEW k \in DOMAIN timeline, NEW l \in DOMAIN timeline', l \notin DOMAIN timeline
        PROVE  ~(timeline'[l].kind = "answer" /\ timeline'[k] = timeline'[l])
    <3>1. timeline'[l] = e /\ timeline'[k] = timeline[k]
      BY <2>3, <1>2
    <3>2. timeline[k].kind = "answer" => timeline[k].about \in AnsweredIn(timeline)
      BY AnsweredBy
    <3> QED
      BY <3>1, <3>2, <1>6
  <2> QED
    BY <2>1, <2>2, <2>3
<1> QED
  BY <1>2, <1>3, <1>4, <1>5, <1>6

\* What the read shows the timeline shows.
LEMMA ReadIsShown ==
    ASSUME Reading
    PROVE  /\ AnsweredIn(op.fetched) \subseteq AnsweredIn(timeline)
           /\ Actionable(op.fetched) \subseteq Actionable(timeline)
           /\ \A c : PriorAnswer(c, op.fetched) => PriorAnswer(c, timeline)
<1>1. ASSUME NEW c \in AnsweredIn(op.fetched)
      PROVE  c \in AnsweredIn(timeline)
  BY <1>1, AnsweredBy DEF Reading
<1>2. Actionable(op.fetched) \subseteq Actionable(timeline)
  BY DEF Reading, Actionable, ToSet
<1>3. ASSUME NEW c, PriorAnswer(c, op.fetched)
      PROVE  PriorAnswer(c, timeline)
  BY <1>3 DEF Reading, PriorAnswer
<1> QED
  BY <1>1, <1>2, <1>3

\* Feedback is of comments.
LEMMA FeedbackIsComments ==
    ASSUME NEW entries \in Seq(Entries)
    PROVE  Actionable(entries) \subseteq Comments
<1>1. \A i \in DOMAIN entries : entries[i] \in Entries
  BY LenProperties, ElementOfSeq
<1> QED
  BY <1>1 DEF Actionable, ToSet, Entries

\* A comment that is posted.
LEMMA PostKeeps ==
    ASSUME TriageInvariant, NEW c \in Comments, Post(c)
    PROVE  TriageInvariant'
<1>1. Comment(c) \in Entries /\ Comment(c).kind = "comment"
  BY DEF Comment, Entries
<1>2. timeline' = Append(timeline, Comment(c)) /\ UNCHANGED <<prOpen, stage, disposition, op, triaged>>
  BY DEF Post
<1>3. /\ timeline' \in Seq(Entries)
      /\ \A i \in DOMAIN timeline : i \in DOMAIN timeline' /\ timeline'[i] = timeline[i]
      /\ AnsweredIn(timeline') = AnsweredIn(timeline)
      /\ \A d : Dealt(d, timeline) => Dealt(d, timeline')
      /\ Recorded' /\ AnsweredOnce'
  BY <1>1, <1>2, Grown
<1>4. TypeOK'
  BY <1>2, <1>3 DEF TriageInvariant, TypeOK
<1>5. Reading'
  BY <1>2, <1>3 DEF TriageInvariant, Reading
<1>6. Remembering'
  BY <1>2, <1>3 DEF TriageInvariant, Remembering, Known
<1>7. Handling'
  BY <1>2, <1>3 DEF TriageInvariant, Handling
<1> QED
  BY <1>3, <1>4, <1>5, <1>6, <1>7 DEF TriageInvariant

\* Steps that only the stage or the pull request knows of.
LEMMA RoutingKeeps ==
    ASSUME TriageInvariant,
           ClosePullRequest \/ NextRoutes \/ RunRoutes \/ NextLeavesTriage \/ Deliver
    PROVE  TriageInvariant'
<1>1. UNCHANGED <<timeline, disposition, op, triaged>>
  BY DEF ClosePullRequest, NextRoutes, RunRoutes, NextLeavesTriage, Deliver
<1>2. prOpen' \in BOOLEAN /\ stage' \in {"TRIAGE", "COMPLETED", "IMPLEMENT"}
  BY DEF TriageInvariant, TypeOK, ClosePullRequest, NextRoutes, RunRoutes, NextLeavesTriage, Deliver
<1>3. TypeOK' /\ Reading' /\ Remembering' /\ Handling' /\ Recorded' /\ AnsweredOnce'
  BY <1>1, <1>2 DEF TriageInvariant, TypeOK, Reading, Remembering, Known, Handling, Recorded,
     AnsweredOnce, Dealt, PriorAnswer, AnsweredIn
<1> QED
  BY <1>3 DEF TriageInvariant

\* A dismissal starts from a read that shows every answer there is.
LEMMA TriageKeeps ==
    ASSUME TriageInvariant, NEW action \in Actions, NEW read \in BOOLEAN, Triage(action, read)
    PROVE  TriageInvariant'
<1> DEFINE fetched == FetchPullRequestComments(read)
<1>1. UNCHANGED <<timeline, prOpen, stage, disposition, triaged>>
  BY DEF Triage
<1>2. fetched \in Seq(Entries) /\ (fetched = timeline \/ fetched = <<>>)
  BY EmptySeq DEF FetchPullRequestComments, TriageInvariant, TypeOK
<1>3. action = "dismiss" => fetched = timeline
  BY <1>2 DEF Triage, DismissalPrecondition
<1>4. op' = [Idle EXCEPT !.pc = IF action = "dismiss" THEN "threads" ELSE "route",
                         !.action = action, !.fetched = fetched]
  BY DEF Triage
<1> HIDE DEF fetched
<1>5. /\ op' \in Commands /\ op'.fetched = fetched /\ op'.texts = {} /\ op'.handled = {}
      /\ op'.pc = IF action = "dismiss" THEN "threads" ELSE "route"
  BY <1>2, <1>4 DEF Idle, Commands
<1>6. TypeOK'
  BY <1>1, <1>5 DEF TriageInvariant, TypeOK
<1>7. Reading'
  BY <1>1, <1>2, <1>5 DEF Reading
<1>8. Remembering'
  BY <1>1, <1>3, <1>5 DEF Remembering, Known
<1>9. Handling'
  BY <1>5 DEF Handling
<1>10. Recorded' /\ AnsweredOnce'
  BY <1>1 DEF TriageInvariant, Recorded, AnsweredOnce, Dealt, PriorAnswer, AnsweredIn
<1> QED
  BY <1>6, <1>7, <1>8, <1>9, <1>10 DEF TriageInvariant

\* The turns of a dismissal: to the threads, to the conversation, to the route.
LEMMA TurnKeeps ==
    ASSUME TriageInvariant, ListThreads \/ TurnToConversation \/ FinishDismissal
    PROVE  TriageInvariant'
<1>1. UNCHANGED <<timeline, prOpen, stage, disposition, triaged>>
  BY DEF ListThreads, TurnToConversation, FinishDismissal
<1>2. op \in Commands /\ Actionable(op.fetched) \subseteq Comments
  BY FeedbackIsComments DEF TriageInvariant, TypeOK, Commands
<1> DEFINE Turned(pc, todo) ==
             /\ op' \in Commands /\ op'.pc = pc /\ op'.todo \subseteq todo
             /\ op'.fetched = op.fetched /\ op'.texts = op.texts /\ op'.handled = op.handled
<1>3. /\ ListThreads => op.pc = "threads" /\ Turned("inline", Inline)
      /\ TurnToConversation => op.pc = "inline" /\ Turned("conversation", Conversation)
      /\ FinishDismissal => op' = Idle \/ Turned("route", Comments)
  <2>1. ASSUME ListThreads
        PROVE  op.pc = "threads" /\ Turned("inline", Inline)
    <3>1. PICK listed \in {{}, Actionable(op.fetched) \intersect Inline} :
            op' = [op EXCEPT !.pc = "inline", !.todo = listed]
      BY <2>1 DEF ListThreads
    <3>2. listed \subseteq Inline /\ listed \subseteq Comments
      BY <1>2
    <3> QED
      BY <1>2, <2>1, <3>1, <3>2 DEF ListThreads, Commands
  <2>2. ASSUME TurnToConversation
        PROVE  op.pc = "inline" /\ Turned("conversation", Conversation)
    BY <1>2, <2>2 DEF TurnToConversation, Commands
  <2>3. ASSUME FinishDismissal, op' # Idle
        PROVE  Turned("route", Comments)
    <3>1. op' = [op EXCEPT !.pc = "route"]
      BY <2>3 DEF FinishDismissal
    <3> QED
      BY <1>2, <3>1 DEF Commands
  <2> QED
    BY <2>1, <2>2, <2>3
<1>4. \/ op' = Idle
      \/ op.pc = "threads" /\ Turned("inline", Inline)
      \/ op.pc = "inline" /\ Turned("conversation", Conversation)
      \/ Turned("route", Comments)
  BY <1>3
<1>5. CASE op' = Idle
  BY <1>1, <1>5, IdleKeeps
<1>6. ASSUME op' # Idle
      PROVE  TriageInvariant'
  <2>. /\ op' \in Commands
       /\ op'.fetched = op.fetched /\ op'.texts = op.texts /\ op'.handled = op.handled
    BY <1>4, <1>6
  <2>1. TypeOK'
    BY <1>1 DEF TriageInvariant, TypeOK
  <2>2. Reading' /\ Handling'
    BY <1>1 DEF TriageInvariant, Reading, Handling, Dealt, PriorAnswer, AnsweredIn
  <2>3. op'.todo \subseteq Comments /\ op.todo \subseteq Comments
    BY <1>2 DEF Commands
  <2>4. Remembering'
    <3>1. CASE op.pc = "threads" /\ Turned("inline", Inline)
      <4>1. \A c \in Comments : c \in AnsweredIn(timeline) => c \in AnsweredIn(op.fetched)
        BY <3>1 DEF TriageInvariant, Remembering, Known
      <4> QED
        BY <4>1, <3>1, <1>1, <2>3 DEF Remembering, Known, Comments
    <3>2. CASE op.pc = "inline" /\ Turned("conversation", Conversation)
      <4>1. \A c \in Conversation : c \in AnsweredIn(timeline) => c \in AnsweredIn(op.fetched)
        BY <3>2 DEF TriageInvariant, Remembering, Known
      <4> QED
        BY <4>1, <3>2, <1>1, <2>3 DEF Remembering, Known
    <3>3. CASE Turned("route", Comments)
      BY <3>3 DEF Remembering
    <3> QED
      BY <3>1, <3>2, <3>3, <1>4, <1>6
  <2>5. Recorded' /\ AnsweredOnce'
    BY <1>1 DEF TriageInvariant, Recorded, AnsweredOnce, Dealt, PriorAnswer, AnsweredIn
  <2> QED
    BY <2>1, <2>2, <2>4, <2>5 DEF TriageInvariant
<1> QED
  BY <1>5, <1>6

\* What is disposed of without a reply was dealt with before.
LEMMA DisposeKeeps ==
    ASSUME TriageInvariant, NEW c \in op.todo, NEW texts \in SUBSET {Text[d] : d \in Comments},
           op.pc \in {"inline", "conversation"},
           op' = [Dispose(c) EXCEPT !.texts = @ \union texts],
           UNCHANGED <<timeline, prOpen, stage, disposition, triaged>>,
           Dealt(c, timeline),
           \A t \in texts : \E d \in Inline : d \in AnsweredIn(timeline) /\ Text[d] = t
    PROVE  TriageInvariant'
<1>1. op \in Commands /\ c \in Comments
  BY DEF TriageInvariant, TypeOK, Commands
<1>2. /\ op' \in Commands /\ op'.pc = op.pc /\ op'.fetched = op.fetched
      /\ op'.todo \subseteq op.todo /\ op'.texts = op.texts \union texts
      /\ op'.handled = op.handled \union {c}
  BY <1>1 DEF Dispose, Commands
<1>3. TypeOK'
  BY <1>2 DEF TriageInvariant, TypeOK
<1>4. Reading' /\ Handling'
  BY <1>2 DEF TriageInvariant, Reading, Handling, Dealt, PriorAnswer, AnsweredIn
<1>5. Remembering'
  BY <1>2 DEF TriageInvariant, Remembering, Known
<1>6. Recorded' /\ AnsweredOnce'
  BY DEF TriageInvariant, Recorded, AnsweredOnce, Dealt, PriorAnswer, AnsweredIn
<1> QED
  BY <1>3, <1>4, <1>5, <1>6 DEF TriageInvariant

\* A reply to what has none, whether it arrives and whether that is known.
LEMMA ReplyKeeps ==
    ASSUME TriageInvariant, NEW c \in op.todo, NEW texts,
           Reply(c, texts), UNCHANGED <<prOpen, stage, disposition, triaged>>,
           c \notin AnsweredIn(timeline),
           \/ op.pc = "inline" /\ texts = {Text[c]}
           \/ op.pc = "conversation" /\ texts = {}
    PROVE  TriageInvariant'
<1>1. op \in Commands /\ c \in Comments /\ op.todo \subseteq Comments
  BY DEF TriageInvariant, TypeOK, Commands
<1>2. PICK arrived \in BOOLEAN, answered \in BOOLEAN :
        /\ answered => arrived
        /\ timeline' = IF arrived THEN Append(timeline, Answer(c)) ELSE timeline
        /\ op' = IF answered
                 THEN [Dispose(c) EXCEPT !.performed = TRUE, !.texts = @ \union texts]
                 ELSE [op EXCEPT !.todo = @ \ {c}]
  BY DEF Reply
<1>3. texts \subseteq {Text[d] : d \in Comments}
  BY <1>1
<1>4. /\ op' \in Commands /\ op'.pc = op.pc /\ op'.fetched = op.fetched
      /\ op'.todo = op.todo \ {c}
      /\ \/ answered /\ op'.texts = op.texts \union texts /\ op'.handled = op.handled \union {c}
         \/ op'.texts = op.texts /\ op'.handled = op.handled
  <2>1. CASE answered
    BY <1>1, <1>2, <1>3, <2>1 DEF Dispose, Commands
  <2>2. CASE ~answered
    BY <1>1, <1>2, <2>2 DEF Commands
  <2> QED
    BY <2>1, <2>2
<1>5. Answer(c) \in Entries /\ Answer(c).kind = "answer" /\ Answer(c).about = c
  BY <1>1 DEF Answer, Entries
<1>6. /\ timeline' \in Seq(Entries)
      /\ \A i \in DOMAIN timeline : i \in DOMAIN timeline' /\ timeline'[i] = timeline[i]
      /\ AnsweredIn(timeline') = AnsweredIn(timeline) \union (IF arrived THEN {c} ELSE {})
      /\ \A d : Dealt(d, timeline) => Dealt(d, timeline')
      /\ Recorded' /\ AnsweredOnce'
  <2>1. CASE arrived
    <3>1. timeline' = Append(timeline, Answer(c))
      BY <1>2, <2>1
    <3> QED
      BY <1>5, <2>1, <3>1, Grown
  <2>2. CASE ~arrived
    <3>1. timeline' = timeline
      BY <1>2, <2>2
    <3>2. /\ timeline' \in Seq(Entries) /\ AnsweredOnce'
          /\ \A d : Dealt(d, timeline) => Dealt(d, timeline')
      BY <3>1 DEF TriageInvariant, TypeOK, AnsweredOnce
    <3>3. Recorded'
      BY <3>2 DEF TriageInvariant, Recorded
    <3> QED
      BY <2>2, <3>1, <3>2, <3>3
  <2> QED
    BY <2>1, <2>2
<1>7. TypeOK'
  BY <1>4, <1>6 DEF TriageInvariant, TypeOK
<1>8. Reading'
  BY <1>4, <1>6 DEF TriageInvariant, Reading
<1>9. Remembering'
  <2>1. CASE op.pc = "inline"
    <3>1. op.todo \subseteq Inline /\ Known(op.todo \union Conversation)
      BY <2>1 DEF TriageInvariant, Remembering
    <3>2. c \notin Conversation
      BY <3>1, TriageAssumption
    <3>3. Known(op.todo \union Conversation)'
      BY <1>4, <1>6, <3>1, <3>2 DEF Known
    <3> QED
      BY <1>4, <2>1, <3>1, <3>3 DEF Remembering
  <2>2. CASE op.pc = "conversation"
    <3>1. op.todo \subseteq Conversation /\ Known(op.todo)
      BY <2>2 DEF TriageInvariant, Remembering
    <3>2. Known(op.todo)'
      BY <1>4, <1>6, <3>1 DEF Known
    <3> QED
      BY <1>4, <2>2, <3>1, <3>2 DEF Remembering
  <2> QED
    BY <2>1, <2>2
<1>10. Handling'
  <2>1. \A t \in op'.texts : \E d \in Inline : d \in AnsweredIn(timeline') /\ Text[d] = t
    <3>1. \A t \in op.texts : \E d \in Inline : d \in AnsweredIn(timeline) /\ Text[d] = t
      BY DEF TriageInvariant, Handling
    <3>2. answered /\ op.pc = "inline" => c \in Inline /\ c \in AnsweredIn(timeline')
      BY <1>2, <1>6 DEF TriageInvariant, Remembering
    <3> QED
      BY <1>4, <1>6, <3>1, <3>2
  <2>2. \A d \in op'.handled : Dealt(d, timeline')
    <3>1. answered => Dealt(c, timeline')
      BY <1>2, <1>6 DEF Dealt
    <3> QED
      BY <1>4, <1>6, <3>1 DEF TriageInvariant, Handling
  <2> QED
    BY <2>1, <2>2 DEF Handling
<1> QED
  BY <1>6, <1>7, <1>8, <1>9, <1>10 DEF TriageInvariant

\* One comment of a dismissal.
LEMMA DismissalKeeps ==
    ASSUME TriageInvariant, TriageThread \/ DismissConversation
    PROVE  TriageInvariant'
<1>1. op \in Commands /\ op.todo \subseteq Comments /\ Reading
  BY DEF TriageInvariant, TypeOK, Commands
<1>2. /\ AnsweredIn(op.fetched) \subseteq AnsweredIn(timeline)
      /\ \A c : PriorAnswer(c, op.fetched) => PriorAnswer(c, timeline)
  BY <1>1, ReadIsShown
<1>3. CASE TriageThread
  <2>1. PICK c \in op.todo :
          IF c \in AnsweredIds(op.fetched)
          THEN op' = [Dispose(c) EXCEPT !.texts = @ \union {Text[c]}] /\ UNCHANGED timeline
          ELSE Reply(c, {Text[c]})
    BY <1>3 DEF TriageThread
  <2>2. /\ op.pc = "inline" /\ UNCHANGED <<prOpen, stage, disposition, triaged>>
        /\ c \in Inline /\ (c \in AnsweredIn(timeline) => c \in AnsweredIn(op.fetched))
    BY <1>3 DEF TriageThread, TriageInvariant, Remembering, Known
  <2>3. CASE c \in AnsweredIds(op.fetched)
    <3>1. c \in AnsweredIn(timeline)
      BY <1>2, <2>3 DEF AnsweredIds
    <3>2. Dealt(c, timeline)
      BY <3>1 DEF Dealt
    <3>3. {Text[c]} \in SUBSET {Text[d] : d \in Comments}
      BY <1>1
    <3>4. \A t \in {Text[c]} : \E d \in Inline : d \in AnsweredIn(timeline) /\ Text[d] = t
      BY <2>2, <3>1
    <3>5. op' = [Dispose(c) EXCEPT !.texts = @ \union {Text[c]}] /\ UNCHANGED timeline
      BY <2>1, <2>3
    <3> QED
      BY <2>2, <3>2, <3>3, <3>4, <3>5, DisposeKeeps
  <2>4. CASE c \notin AnsweredIds(op.fetched)
    <3>1. c \notin AnsweredIn(timeline)
      BY <2>2, <2>4 DEF AnsweredIds
    <3> QED
      BY <2>1, <2>2, <2>4, <3>1, ReplyKeeps
  <2> QED
    BY <2>3, <2>4
<1>4. CASE DismissConversation
  <2> DEFINE Skipped(c) == \/ c \in AnsweredIds(op.fetched)
                           \/ Text[c] \in op.texts
                           \/ PriorAnswer(c, op.fetched)
  <2>1. PICK c \in op.todo :
          IF Skipped(c) THEN op' = Dispose(c) /\ UNCHANGED timeline ELSE Reply(c, {})
    BY <1>4 DEF DismissConversation
  <2>2. /\ op.pc = "conversation" /\ UNCHANGED <<prOpen, stage, disposition, triaged>>
        /\ c \in AnsweredIn(timeline) => c \in AnsweredIn(op.fetched)
    BY <1>4 DEF DismissConversation, TriageInvariant, Remembering, Known
  <2>3. CASE Skipped(c)
    <3>1. Dealt(c, timeline)
      <4>1. CASE c \in AnsweredIds(op.fetched)
        BY <1>2, <4>1 DEF AnsweredIds, Dealt
      <4>2. CASE Text[c] \in op.texts
        BY <4>2 DEF TriageInvariant, Handling, Dealt
      <4>3. CASE PriorAnswer(c, op.fetched)
        BY <1>2, <4>3 DEF Dealt
      <4> QED
        BY <2>3, <4>1, <4>2, <4>3
    <3>2. op' = [Dispose(c) EXCEPT !.texts = @ \union {}]
      <4>1. Dispose(c) \in Commands
        BY <1>1 DEF Dispose, Commands
      <4> QED
        BY <2>1, <2>3, <4>1 DEF Commands
    <3> QED
      BY <2>1, <2>2, <2>3, <3>1, <3>2, DisposeKeeps
  <2>4. CASE ~Skipped(c)
    BY <2>1, <2>2, <2>4, ReplyKeeps DEF AnsweredIds
  <2> QED
    BY <2>3, <2>4
<1> QED
  BY <1>3, <1>4

\* What the disposition comes to hold is what was handled, or what another action
\* was chosen over.
LEMMA RouteKeeps ==
    ASSUME TriageInvariant, Route
    PROVE  TriageInvariant'
<1>1. /\ op' = Idle /\ UNCHANGED <<timeline, prOpen>>
      /\ stage' = TargetStage(op.action)
      /\ disposition' = DispositionAfter(disposition, DispositionKeys)
      /\ triaged' = IF op.action = "dismiss" THEN triaged
                    ELSE triaged \union Actionable(op.fetched)
  BY DEF Route
<1>2. op \in Commands /\ Actionable(op.fetched) \subseteq Comments
  BY FeedbackIsComments DEF TriageInvariant, TypeOK, Commands
<1>3. DispositionKeys \in SUBSET Comments
  BY <1>2 DEF DispositionKeys, Commands
<1>4. /\ disposition' \in Seq(Comments) /\ IsInjective(disposition')
      /\ Len(disposition') <= MaxKeys
      /\ ToSet(disposition') \subseteq ToSet(disposition) \union DispositionKeys
  BY <1>1, <1>3, MergeKeeps DEF DispositionAfter, TriageInvariant, TypeOK
<1>5. triaged' \subseteq Comments /\ stage' \in {"TRIAGE", "COMPLETED", "IMPLEMENT"}
  BY <1>1, <1>2 DEF TriageInvariant, TypeOK, TargetStage
<1>6. TypeOK'
  BY <1>1, <1>4, <1>5, IdleCommand DEF TriageInvariant, TypeOK
<1>7. Reading' /\ Remembering' /\ Handling'
  BY <1>1, IdleCommand DEF Reading, Remembering, Handling
<1>8. AnsweredOnce'
  BY <1>1 DEF TriageInvariant, AnsweredOnce
<1>9. ASSUME NEW c \in ToSet(disposition')
      PROVE  c \in triaged' \/ Dealt(c, timeline)
  <2>1. CASE c \in ToSet(disposition)
    BY <2>1, <1>1 DEF TriageInvariant, Recorded
  <2>2. CASE c \in DispositionKeys /\ op.action = "dismiss"
    BY <2>2 DEF TriageInvariant, Handling, DispositionKeys
  <2>3. CASE c \in DispositionKeys /\ op.action # "dismiss"
    BY <2>3, <1>1 DEF DispositionKeys
  <2> QED
    BY <1>4, <1>9, <2>1, <2>2, <2>3
<1>10. Recorded'
  BY <1>1, <1>9 DEF Recorded
<1> QED
  BY <1>6, <1>7, <1>8, <1>10 DEF TriageInvariant

-----------------------------------------------------------------------------
(* The invariant, and what it says of the specification.                   *)

\* The invariant holds from the start and after every step.
LEMMA TriageInvariantHolds == Spec => []TriageInvariant
<1>1. Init => TriageInvariant
  <2> SUFFICES ASSUME Init PROVE TriageInvariant
    OBVIOUS
  <2>1. timeline = <<>> /\ disposition = <<>> /\ DOMAIN timeline = {} /\ DOMAIN disposition = {}
    BY DEF Init
  <2>2. TypeOK
    BY <2>1, IdleCommand, EmptySeq, TriageAssumption DEF Init, TypeOK, IsInjective
  <2>3. Reading /\ Remembering /\ Handling
    BY IdleCommand DEF Init, Reading, Remembering, Handling
  <2>4. Recorded /\ AnsweredOnce
    BY <2>1 DEF Recorded, AnsweredOnce, ToSet
  <2> QED
    BY <2>2, <2>3, <2>4 DEF TriageInvariant
<1>2. TriageInvariant /\ [Next]_vars => TriageInvariant'
  <2> SUFFICES ASSUME TriageInvariant, [Next]_vars PROVE TriageInvariant'
    OBVIOUS
  <2>1. CASE \E c \in Comments : Post(c)
    BY <2>1, PostKeeps
  <2>2. CASE ClosePullRequest \/ NextRoutes \/ RunRoutes \/ NextLeavesTriage \/ Deliver
    BY <2>2, RoutingKeeps
  <2>3. CASE \E action \in Actions, read \in BOOLEAN : Triage(action, read)
    BY <2>3, TriageKeeps
  <2>4. CASE ListThreads \/ TurnToConversation \/ FinishDismissal
    BY <2>4, TurnKeeps
  <2>5. CASE TriageThread \/ DismissConversation
    BY <2>5, DismissalKeeps
  <2>6. CASE Route
    BY <2>6, RouteKeeps
  <2>7. CASE Abandon
    BY <2>7, IdleKeeps DEF Abandon
  <2>8. CASE UNCHANGED vars
    BY <2>8 DEF vars, TriageInvariant, TypeOK, Reading, Remembering, Known, Handling, Recorded,
       AnsweredOnce, Dealt, PriorAnswer, AnsweredIn
  <2> QED
    BY <2>1, <2>2, <2>3, <2>4, <2>5, <2>6, <2>7, <2>8 DEF Next
<1> QED
  BY <1>1, <1>2, PTL DEF Spec

\* The type invariant, for every instance.
THEOREM TriageTypeCorrect == Spec => []TypeOK
<1>1. TriageInvariant => TypeOK
  BY DEF TriageInvariant
<1> QED
  BY <1>1, TriageInvariantHolds, PTL

\* No comment gets a second reply, although a dismissal may be killed after any
\* reply, lose the answer of GitHub to it and be repeated any number of times: what
\* a repeated dismissal reads shows every reply made before it, and it turns to
\* each comment once.
THEOREM NoSecondReply == Spec => []AnsweredOnce
<1>1. TriageInvariant => AnsweredOnce
  BY DEF TriageInvariant
<1> QED
  BY <1>1, TriageInvariantHolds, PTL

\* What is recorded as disposed of was answered, repeats a thread that was, counts
\* as answered, or was there when another action was chosen; also where the
\* disposition forgets its oldest keys.
THEOREM DispositionIsEarned == Spec => []DisposedWasHandled
<1>1. TriageInvariant => DisposedWasHandled
  BY DEF TriageInvariant, Recorded, DisposedWasHandled, Dealt
<1> QED
  BY <1>1, TriageInvariantHolds, PTL

=============================================================================
