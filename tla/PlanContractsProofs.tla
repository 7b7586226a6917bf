-------------------------- MODULE PlanContractsProofs --------------------------
(***************************************************************************)
(* What holds of the three parts MCPlanContracts puts together.            *)
(*                                                                         *)
(* Of the quality gate, for any documents, workspaces, configurations,     *)
(* test summaries and outcomes, and any number of rounds: its types, that a*)
(* passed run files evidence the exit to REVIEW accepts, and that work in  *)
(* REVIEW ran the plan that was approved.  The last rests on the two       *)
(* parsers of the plan, which are folds over its lines: they drop no entry *)
(* and no shell fence of a document of any length.                         *)
(*                                                                         *)
(* Of plan approval, for any plans, tests and output: what was accepted is *)
(* not refused for what the implementer wrote since.                       *)
(*                                                                         *)
(* Of the static rules, for scripts of any length and paths: a CLI does not*)
(* leave the sandboxes unseen, and a write whose directory nobody created  *)
(* does not pass.                                                          *)
(***************************************************************************)
EXTENDS MCPlanContracts, SequenceTheorems, FiniteSetTheorems, TLAPS

-----------------------------------------------------------------------------
(* The two parsers as runs through the lines of a document.                *)

TargetStates ==
    [level : Nat, fence : {"none", "commands", "data"}, commands : Seq(Commands),
     rejected : Nat, done : BOOLEAN]

NoTargets == [level |-> 0, fence |-> "none", commands |-> <<>>, rejected |-> 0, done |-> FALSE]

SmokeStates ==
    [in : BOOLEAN, fence : {"none", "open"},
     body : [open : BOOLEAN, runs : BOOLEAN, refused : BOOLEAN],
     checks : Nat, findings : Nat, sawFence : BOOLEAN, sawContent : BOOLEAN, done : BOOLEAN]

NoSmoke ==
    [in |-> FALSE, fence |-> "none", body |-> NoBody, checks |-> 0,
     findings |-> 0, sawFence |-> FALSE, sawContent |-> FALSE, done |-> FALSE]

\* What a line does to a state of the targets parser.
LEMMA EntryTyped ==
    ASSUME NEW s \in TargetStates, NEW ln
    PROVE  Entry(s, ln) \in TargetStates
<1>1. ASSUME NEW c \in Seq(Commands) PROVE [s EXCEPT !.commands = c] \in TargetStates
  BY DEF TargetStates
<1>2. [s EXCEPT !.rejected = @ + 1] \in TargetStates
  BY DEF TargetStates
<1>3. s.commands \in Seq(Commands) /\ (ln \in Commands => Append(s.commands, ln) \in Seq(Commands))
  BY DEF TargetStates
<1> DEFINE c == IF Contains(s.commands, ln) THEN s.commands ELSE Append(s.commands, ln)
<1>4. ln \in Commands => c \in Seq(Commands)
  BY <1>3
<1>5. Entry(s, ln) = IF ln \in Commands THEN [s EXCEPT !.commands = c]
                       ELSE IF ln = "refused" THEN [s EXCEPT !.rejected = @ + 1] ELSE s
  BY DEF Entry
<1> HIDE DEF c
<1> QED BY <1>1, <1>2, <1>4, <1>5

\* Every line leads from one state of the targets parser to another.
LEMMA TargetLineTyped ==
    ASSUME NEW s \in TargetStates, NEW ln \in Lines
    PROVE  TargetLine(s, ln) \in TargetStates
<1>1. Entry(s, ln) \in TargetStates /\ Entry(s, "refused") \in TargetStates
  BY EntryTyped
<1>2. \A h \in Headings : HeadingLevel[h] \in Nat
  BY DEF Headings, HeadingLevel
<1>3. ln \in Headings => TargetHeading(s, ln) \in TargetStates
  BY <1>2 DEF TargetHeading, TargetStates, Headings, HeadingLevel
<1>4. ln \in Fences => [s EXCEPT !.fence = IF s.level > 0 /\ ln = "fence" THEN "commands" ELSE "data"] \in TargetStates
                      /\ [s EXCEPT !.fence = "none"] \in TargetStates
  BY DEF TargetStates
<1> QED BY <1>1, <1>3, <1>4 DEF TargetLine

\* A check that ends leaves a state of the smoke parser.
LEMMA FinishFenceTyped ==
    ASSUME NEW s \in SmokeStates
    PROVE  FinishFence(s) \in SmokeStates
<1>1. NoBody \in [open : BOOLEAN, runs : BOOLEAN, refused : BOOLEAN]
  BY DEF NoBody
<1>2. ASSUME NEW c \in Nat, NEW f \in Nat
      PROVE  [s EXCEPT !.checks = c, !.body = NoBody, !.findings = f] \in SmokeStates
  BY <1>1 DEF SmokeStates
<1>3. s.findings \in Nat /\ s.findings + 1 \in Nat /\ s.checks + 1 \in Nat
  BY DEF SmokeStates
<1> HIDE DEF NoBody
<1> QED BY <1>2, <1>3 DEF FinishFence

\* Every line leads from one state of the smoke parser to another.
LEMMA SmokeLineTyped ==
    ASSUME NEW s \in SmokeStates, NEW ln \in Lines
    PROVE  SmokeLine(s, ln) \in SmokeStates
<1>1. FinishFence(s) \in SmokeStates
  BY FinishFenceTyped
<1>2. ASSUME NEW t \in SmokeStates PROVE [t EXCEPT !.fence = "none"] \in SmokeStates
  BY DEF SmokeStates
<1>3. [s EXCEPT !.body.runs = TRUE, !.body.refused = @ \/ ln = "refused"] \in SmokeStates
  BY DEF SmokeStates
<1>4. [s EXCEPT !.in = TRUE] \in SmokeStates /\ [s EXCEPT !.sawContent = @ \/ ln # "blank"] \in SmokeStates
  BY DEF SmokeStates
<1>5. ln \in Headings => [s EXCEPT !.done = HeadingLevel[ln] <= HeadingLevel["smoke"]] \in SmokeStates
  <2>1. ASSUME NEW b \in BOOLEAN PROVE [s EXCEPT !.done = b] \in SmokeStates
    BY DEF SmokeStates
  <2>2. ln \in Headings => (HeadingLevel[ln] <= HeadingLevel["smoke"]) \in BOOLEAN
    BY DEF Headings, HeadingLevel
  <2> QED BY <2>1, <2>2
<1>6. [s EXCEPT !.sawFence = TRUE, !.fence = "open",
                !.body = IF ln = "fence" THEN [NoBody EXCEPT !.open = TRUE] ELSE NoBody] \in SmokeStates
  BY DEF SmokeStates, NoBody
<1> QED BY <1>1, <1>2, <1>3, <1>4, <1>5, <1>6 DEF SmokeLine

TargetFold == INSTANCE FoldTheorems
    WITH Add <- TargetLine, Values <- TargetStates, Elements <- Lines

SmokeFold == INSTANCE FoldTheorems
    WITH Add <- SmokeLine, Values <- SmokeStates, Elements <- Lines

\* p is the run of the targets parser through d.
ReadsTargets(p, d) ==
    /\ p \in [0..Len(d) -> TargetStates]
    /\ p[0] = NoTargets
    /\ \A k \in 1..Len(d) : p[k] = TargetLine(p[k - 1], d[k])

\* The targets parser goes through its states line by line.
LEMMA TargetsRun ==
    ASSUME NEW d \in Seq(Lines)
    PROVE  \E p : ReadsTargets(p, d) /\ parseQualityGateTargets(d) = p[Len(d)]
<1>1. NoTargets \in TargetStates
  BY DEF NoTargets, TargetStates
<1>2. \A s \in TargetStates, ln \in Lines : TargetLine(s, ln) \in TargetStates
  BY TargetLineTyped
<1>3. parseQualityGateTargets(d) = TargetFold!Fold(NoTargets, d)
  BY DEF parseQualityGateTargets, NoTargets, FoldLeft, MapThenFoldSet, Max,
         TargetFold!Fold, TargetFold!FoldLeft, TargetFold!MapThenFoldSet, TargetFold!Max
<1>4. PICK p \in [0..Len(d) -> TargetStates] :
              /\ p[0] = NoTargets
              /\ \A k \in 1..Len(d) : p[k] = TargetLine(p[k - 1], d[k])
              /\ TargetFold!Fold(NoTargets, d) = p[Len(d)]
  BY <1>1, <1>2, TargetFold!FoldRuns
<1> QED BY <1>3, <1>4 DEF ReadsTargets

\* q is the run of the smoke parser through d.
ReadsSmoke(q, d) ==
    /\ q \in [0..Len(d) -> SmokeStates]
    /\ q[0] = NoSmoke
    /\ \A k \in 1..Len(d) : q[k] = SmokeLine(q[k - 1], d[k])

\* So does the smoke parser; a fence left open ends with the document.
LEMMA SmokeRuns ==
    ASSUME NEW d \in Seq(Lines)
    PROVE  \E q : /\ ReadsSmoke(q, d)
                  /\ SmokeProtocolOf(d).checks = FinishFence(q[Len(d)]).checks
                  /\ SmokeProtocolOf(d).checks > 0 /\ FinishFence(q[Len(d)]).in => SmokeProtocolOf(d).found
<1>1. NoSmoke \in SmokeStates
  BY DEF NoSmoke, SmokeStates, NoBody
<1>2. \A s \in SmokeStates, ln \in Lines : SmokeLine(s, ln) \in SmokeStates
  BY SmokeLineTyped
<1> DEFINE read == FoldLeft(SmokeLine, NoSmoke, d)
<1>3. read = SmokeFold!Fold(NoSmoke, d)
  BY DEF FoldLeft, MapThenFoldSet, Max,
         SmokeFold!Fold, SmokeFold!FoldLeft, SmokeFold!MapThenFoldSet, SmokeFold!Max
<1>4. PICK q \in [0..Len(d) -> SmokeStates] :
              /\ q[0] = NoSmoke
              /\ \A k \in 1..Len(d) : q[k] = SmokeLine(q[k - 1], d[k])
              /\ SmokeFold!Fold(NoSmoke, d) = q[Len(d)]
  BY <1>1, <1>2, SmokeFold!FoldRuns
<1>5. /\ SmokeProtocolOf(d).checks = FinishFence(read).checks
      /\ SmokeProtocolOf(d).found = (FinishFence(read).in
             /\ (FinishFence(read).checks > 0 \/ FinishFence(read).sawFence \/ FinishFence(read).sawContent))
  BY DEF SmokeProtocolOf, NoSmoke
<1> HIDE DEF read
<1> QED BY <1>3, <1>4, <1>5 DEF ReadsSmoke

-----------------------------------------------------------------------------
(* Fences, counted and by the last one.                                    *)

\* A line opens or closes a fence exactly when it is a fence line.
LEMMA FenceStep ==
    ASSUME NEW d \in Seq(Lines), NEW from \in Nat, NEW i \in Nat, from <= i, i \in DOMAIN d
    PROVE  InFence(d, from, i + 1) <=> (InFence(d, from, i) <=> d[i] \notin Fences)
<1> DEFINE S == {j \in from..(i - 1) : d[j] \in Fences}
           S1 == {j \in from..((i + 1) - 1) : d[j] \in Fences}
<1>1. IsFiniteSet(S) /\ Cardinality(S) \in Nat
  <2>1. IsFiniteSet(from..(i - 1))
    BY FS_Interval
  <2>2. S \in SUBSET (from..(i - 1))
    OBVIOUS
  <2> HIDE DEF S
  <2> QED BY <2>1, <2>2, FS_Subset, FS_CardinalityType
<1>2. i \notin S /\ S1 = IF d[i] \in Fences THEN S \union {i} ELSE S
  <2>1. \A j : j \in from..((i + 1) - 1) <=> j \in from..(i - 1) \/ j = i
    OBVIOUS
  <2> QED BY <2>1
<1>3. Cardinality(S1) = IF d[i] \in Fences THEN Cardinality(S) + 1 ELSE Cardinality(S)
  <2> HIDE DEF S, S1
  <2> QED BY <1>1, <1>2, FS_AddElement
<1>4. (Cardinality(S) + 1) % 2 = 1 <=> ~(Cardinality(S) % 2 = 1)
  <2> HIDE DEF S
  <2> QED BY <1>1
<1>5. InFence(d, from, i + 1) <=> Cardinality(S1) % 2 = 1
  BY DEF InFence
<1>6. InFence(d, from, i) <=> Cardinality(S) % 2 = 1
  BY DEF InFence
<1> HIDE DEF S, S1
<1> QED BY <1>3, <1>4, <1>5, <1>6

\* Before the first fence line nothing stands in a fence.
LEMMA NoFenceYet ==
    ASSUME NEW d, NEW from \in Nat
    PROVE  ~InFence(d, from, from)
<1>1. {j \in from..(from - 1) : d[j] \in Fences} = {}
  OBVIOUS
<1> QED BY <1>1, FS_EmptySet DEF InFence

-----------------------------------------------------------------------------
(* Nothing declared in the targets section is dropped.                     *)

\* What an entry line changes, and that nothing collected is lost.
LEMMA EntryCollects ==
    ASSUME NEW s \in TargetStates, NEW ln
    PROVE  LET t == Entry(s, ln)
           IN  /\ t.fence = s.fence /\ t.level = s.level /\ t.done = s.done
               /\ \A c : Contains(s.commands, c) => Contains(t.commands, c)
               /\ t.rejected >= s.rejected
               /\ ln \in Commands => Contains(t.commands, ln)
               /\ ln = "refused" /\ ln \notin Commands => t.rejected > 0
<1>1. s.rejected \in Nat /\ s.commands \in Seq(Commands)
  BY DEF TargetStates
<1>2. CASE ln \in Commands /\ ~Contains(s.commands, ln)
  <2> DEFINE c == Append(s.commands, ln)
  <2>1. Entry(s, ln) = [s EXCEPT !.commands = c]
    BY <1>2 DEF Entry
  <2>2. Len(c) = Len(s.commands) + 1 /\ c[Len(s.commands) + 1] = ln
        /\ \A i \in 1..Len(s.commands) : c[i] = s.commands[i]
    BY <1>1, <1>2
  <2>3. Len(s.commands) \in Nat
    BY <1>1
  <2> HIDE DEF c
  <2>4. \A x : Contains(s.commands, x) => Contains(c, x)
    BY <2>2, <2>3 DEF Contains
  <2>5. Contains(c, ln)
    BY <2>2, <2>3 DEF Contains
  <2>6. LET t == [s EXCEPT !.commands = c]
        IN  t.fence = s.fence /\ t.level = s.level /\ t.done = s.done /\ t.rejected = s.rejected /\ t.commands = c
    BY DEF TargetStates
  <2> QED BY <2>1, <2>4, <2>5, <2>6, <1>1, <1>2
<1>3. CASE ln \in Commands /\ Contains(s.commands, ln)
  <2>1. Entry(s, ln) = s
    BY <1>3 DEF Entry, TargetStates
  <2> QED BY <2>1, <1>1, <1>3
<1>4. CASE ln \notin Commands
  BY <1>1, <1>4 DEF Entry, TargetStates
<1> QED BY <1>2, <1>3, <1>4

\* No line makes the parser forget a command or a refusal.
LEMMA TargetLineCollects ==
    ASSUME NEW s \in TargetStates, NEW ln \in Lines
    PROVE  LET t == TargetLine(s, ln)
           IN  /\ \A c : Contains(s.commands, c) => Contains(t.commands, c)
               /\ t.rejected >= s.rejected
<1>1. s.rejected >= s.rejected
  BY DEF TargetStates
<1>2. ASSUME NEW x PROVE LET t == Entry(s, x) IN
             /\ \A c : Contains(s.commands, c) => Contains(t.commands, c)
             /\ t.rejected >= s.rejected
  BY EntryCollects
<1>3. ASSUME NEW x PROVE LET t == [s EXCEPT !.fence = x] IN t.commands = s.commands /\ t.rejected = s.rejected
  BY DEF TargetStates
<1>4. LET t == TargetHeading(s, ln) IN t.commands = s.commands /\ t.rejected = s.rejected
  BY DEF TargetStates, TargetHeading
<1> QED BY <1>1, <1>2, <1>3, <1>4 DEF TargetLine

\* The targets section began at line j and goes on up to line k.
Anchored(d, j, k) ==
    /\ IsHeading(d, 1, j) /\ d[j] = "targets"
    /\ \A m \in 1..(j - 1) : IsHeading(d, 1, m) => d[m] \notin {"targets", "alias"}
    /\ \A m \in (j + 1)..k : ~IsHeading(d, 1, m)

\* Line o is the last fence line up to line k.
LastFence(d, o, k) == o \in 1..k /\ d[o] \in Fences /\ \A m \in (o + 1)..k : d[m] \notin Fences

\* Line i is one whose entry must be collected.
Counts(d, i) == InTargetSection(d, i) /\ (InFence(d, 1, i) => Opener(d, i) = "fence")

\* After k lines the parser's state agrees with the second reading.
FenceKnown(s, d, k) == ~s.done => (s.fence # "none" <=> InFence(d, 1, k + 1))
LevelKnown(s, d, k) ==
    /\ s.level = 0 => ~s.done
    /\ s.level > 0 => \E j \in 1..k : IsHeading(d, 1, j) /\ d[j] \in {"targets", "alias"}
SectionKnown(s, d, k) ==
    \A j \in 1..k : Anchored(d, j, k) =>
        /\ ~s.done /\ s.level > 0
        /\ s.fence # "none" =>
              \E o : LastFence(d, o, k) /\ (d[o] = "fence" => s.fence = "commands")
Collected(s, d, k) ==
    \A i \in 1..k : Counts(d, i) =>
        /\ d[i] \in Commands => Contains(s.commands, d[i])
        /\ d[i] = "refused" => s.rejected > 0
TargetsAgree(s, d, k) ==
    FenceKnown(s, d, k) /\ LevelKnown(s, d, k) /\ SectionKnown(s, d, k) /\ Collected(s, d, k)

\* A line moves fence, level and end of the parser like this.
LEMMA TargetLineMoves ==
    ASSUME NEW s \in TargetStates, NEW ln \in Lines
    PROVE  LET t == TargetLine(s, ln)
           IN  /\ s.done => t = s
               /\ ~s.done /\ ln \notin Fences => t.fence = s.fence
               /\ ~s.done /\ ln \in Fences => (t.fence # "none" <=> s.fence = "none")
                       /\ t.level = s.level /\ ~t.done
                       /\ (s.fence = "none" /\ s.level > 0 /\ ln = "fence" => t.fence = "commands")
               /\ ~s.done /\ ln \notin Fences /\ (s.fence # "none" \/ ln \notin Headings)
                       => t.level = s.level /\ ~t.done
               /\ ~s.done /\ s.fence = "none" /\ ln \in Headings => t = TargetHeading(s, ln)
<1>1. ASSUME NEW x PROVE LET t == Entry(s, x) IN t.fence = s.fence /\ t.level = s.level /\ t.done = s.done
  BY EntryCollects
<1>2. ASSUME NEW x PROVE LET t == [s EXCEPT !.fence = x] IN t.fence = x /\ t.level = s.level /\ t.done = s.done
  BY DEF TargetStates
<1>3. LET t == TargetHeading(s, ln) IN t.fence = s.fence
  BY DEF TargetStates, TargetHeading
<1>4. s.fence \in {"none", "commands", "data"}
  BY DEF TargetStates
<1>5. Headings \intersect Fences = {}
  BY DEF Headings, Fences, HeadingLevel
<1>6. CASE s.done
  BY <1>6 DEF TargetLine
<1>7. CASE ~s.done /\ s.fence # "none"
  BY <1>7, <1>1, <1>2, <1>4 DEF TargetLine
<1>8. CASE ~s.done /\ s.fence = "none"
  BY <1>8, <1>1, <1>2, <1>3, <1>5 DEF TargetLine
<1> QED BY <1>6, <1>7, <1>8

\* The parser stands in a fence where a reader counts an odd number of fence lines.
LEMMA FenceKnownKept ==
    ASSUME NEW d \in Seq(Lines), NEW k \in Nat, k + 1 \in DOMAIN d, NEW s \in TargetStates,
           TargetsAgree(s, d, k)
    PROVE  FenceKnown(TargetLine(s, d[k + 1]), d, k + 1)
<1> DEFINE t == TargetLine(s, d[k + 1])
<1>1. d[k + 1] \in Lines
  OBVIOUS
<1>2. InFence(d, 1, (k + 1) + 1) <=> (InFence(d, 1, k + 1) <=> d[k + 1] \notin Fences)
  BY FenceStep
<1>3. CASE s.done
  BY <1>1, <1>3, TargetLineMoves DEF FenceKnown
<1>4. CASE ~s.done
  BY <1>1, <1>2, <1>4, TargetLineMoves DEF FenceKnown, TargetsAgree
<1> QED BY <1>3, <1>4

\* The section is entered at the first heading of a targets section outside of fences.
LEMMA LevelKnownKept ==
    ASSUME NEW d \in Seq(Lines), NEW k \in Nat, k + 1 \in DOMAIN d, NEW s \in TargetStates,
           TargetsAgree(s, d, k)
    PROVE  LevelKnown(TargetLine(s, d[k + 1]), d, k + 1)
<1> DEFINE ln == d[k + 1]
           t == TargetLine(s, ln)
<1>1. ln \in Lines
  OBVIOUS
<1>2. 1..k \subseteq 1..(k + 1) /\ k + 1 \in 1..(k + 1)
  OBVIOUS
<1>3. CASE t.level = s.level /\ t.done = s.done
  BY <1>2, <1>3 DEF LevelKnown, TargetsAgree
<1>4. CASE ~s.done /\ s.fence = "none" /\ ln \in Headings
  <2>1. t = TargetHeading(s, ln)
    BY <1>1, <1>4, TargetLineMoves
  <2>2. IsHeading(d, 1, k + 1)
    BY <1>4 DEF IsHeading, FenceKnown, TargetsAgree
  <2>3. CASE s.level = 0 /\ ln \in {"targets", "alias"}
    <3>1. t.level = HeadingLevel[ln] /\ t.level > 0
      BY <2>1, <2>3 DEF TargetHeading, TargetStates, HeadingLevel
    <3> QED BY <3>1, <2>2, <2>3, <1>2 DEF LevelKnown
  <2>4. CASE s.level = 0 /\ ln \notin {"targets", "alias"}
    <3>1. t = s
      BY <2>1, <2>4 DEF TargetHeading
    <3> QED BY <3>1, <1>2 DEF LevelKnown, TargetsAgree
  <2>5. CASE s.level # 0
    <3>1. s.level > 0
      BY <2>5 DEF TargetStates
    <3>2. t.level > 0
      BY <2>1, <2>5, <3>1 DEF TargetHeading, TargetStates, HeadingLevel
    <3>3. \E j \in 1..k : IsHeading(d, 1, j) /\ d[j] \in {"targets", "alias"}
      BY <3>1 DEF LevelKnown, TargetsAgree
    <3> QED BY <3>2, <3>3, <1>2 DEF LevelKnown
  <2> QED BY <2>3, <2>4, <2>5
<1>5. \/ t.level = s.level /\ t.done = s.done
      \/ ~s.done /\ s.fence = "none" /\ ln \in Headings
  <2>1. CASE s.done
    BY <1>1, <2>1, TargetLineMoves
  <2>2. CASE ~s.done /\ ln \in Fences
    BY <1>1, <2>2, TargetLineMoves, TargetLineTyped DEF TargetStates
  <2>3. CASE ~s.done /\ ln \notin Fences /\ (s.fence # "none" \/ ln \notin Headings)
    BY <1>1, <2>3, TargetLineMoves, TargetLineTyped DEF TargetStates
  <2> QED BY <2>1, <2>2, <2>3
<1> QED BY <1>3, <1>4, <1>5

\* While the parser is in the section, a reader is in it too, and the other way round.
LEMMA SectionKnownKept ==
    ASSUME NEW d \in Seq(Lines), NEW k \in Nat, k + 1 \in DOMAIN d, NEW s \in TargetStates,
           TargetsAgree(s, d, k)
    PROVE  SectionKnown(TargetLine(s, d[k + 1]), d, k + 1)
<1> DEFINE ln == d[k + 1]
           t == TargetLine(s, ln)
<1>1. ln \in Lines /\ t \in TargetStates
  BY TargetLineTyped
<1> SUFFICES ASSUME NEW j \in 1..(k + 1), Anchored(d, j, k + 1)
             PROVE  /\ ~t.done /\ t.level > 0
                    /\ t.fence # "none" =>
                          \E o : LastFence(d, o, k + 1) /\ (d[o] = "fence" => t.fence = "commands")
  BY DEF SectionKnown
<1>2. CASE j = k + 1
  <2>1. ln = "targets" /\ IsHeading(d, 1, k + 1)
        /\ \A m \in 1..k : IsHeading(d, 1, m) => d[m] \notin {"targets", "alias"}
    BY <1>2 DEF Anchored
  <2>2. s.level = 0
    <3>1. ~(s.level > 0)
      BY <2>1 DEF LevelKnown, TargetsAgree
    <3> QED BY <3>1 DEF TargetStates
  <2>3. ~s.done /\ s.fence = "none" /\ ln \in Headings
    BY <2>1, <2>2 DEF LevelKnown, FenceKnown, TargetsAgree, IsHeading
  <2>4. t = [s EXCEPT !.level = HeadingLevel[ln]]
    BY <1>1, <2>1, <2>2, <2>3, TargetLineMoves DEF TargetHeading
  <2>5. HeadingLevel[ln] = 2
    BY <2>1 DEF HeadingLevel
  <2> QED BY <2>3, <2>4, <2>5 DEF TargetStates
<1>3. CASE j # k + 1
  <2>1. j \in 1..k /\ Anchored(d, j, k) /\ ~IsHeading(d, 1, k + 1)
    BY <1>3 DEF Anchored
  <2>2. /\ ~s.done /\ s.level > 0
        /\ s.fence # "none" =>
              \E o : LastFence(d, o, k) /\ (d[o] = "fence" => s.fence = "commands")
    BY <2>1 DEF SectionKnown, TargetsAgree
  <2>3. s.fence = "none" => ln \notin Headings
    BY <2>1, <2>2 DEF IsHeading, FenceKnown, TargetsAgree
  <2>4. t.level = s.level /\ ~t.done
    BY <1>1, <2>2, <2>3, TargetLineMoves
  <2>5. CASE ln \in Fences
    <3>1. t.fence # "none" => s.fence = "none" /\ (ln = "fence" => t.fence = "commands")
      BY <1>1, <2>2, <2>5, TargetLineMoves
    <3>2. LastFence(d, k + 1, k + 1)
      <4>1. k + 1 \in 1..(k + 1) /\ (k + 1 + 1)..(k + 1) = {}
        OBVIOUS
      <4> QED BY <2>5, <4>1 DEF LastFence
    <3> QED BY <2>2, <2>4, <3>1, <3>2
  <2>6. CASE ln \notin Fences
    <3>1. t.fence = s.fence
      BY <1>1, <2>2, <2>6, TargetLineMoves
    <3>2. ASSUME NEW o, LastFence(d, o, k) PROVE LastFence(d, o, k + 1)
      <4>1. o \in 1..k /\ o \in 1..(k + 1)
        BY <3>2 DEF LastFence
      <4>2. \A m \in (o + 1)..(k + 1) : m \in (o + 1)..k \/ m = k + 1
        BY <4>1
      <4> QED BY <3>2, <4>1, <4>2, <2>6 DEF LastFence
    <3>3. ASSUME s.fence # "none"
          PROVE  \E o : LastFence(d, o, k + 1) /\ (d[o] = "fence" => s.fence = "commands")
      <4>1. PICK o : LastFence(d, o, k) /\ (d[o] = "fence" => s.fence = "commands")
        BY <2>2, <3>3
      <4> QED BY <4>1, <3>2
    <3> HIDE DEF t
    <3> QED BY <2>2, <2>4, <3>1, <3>3
  <2> QED BY <2>5, <2>6
<1> QED BY <1>2, <1>3

\* The last fence before a line is the one that is open there.
LEMMA OpenerIs ==
    ASSUME NEW d, NEW k \in Nat, NEW o, LastFence(d, o, k)
    PROVE  Opener(d, k + 1) = d[o]
<1> DEFINE P(j) == d[j] \in Fences /\ \A m \in (j + 1)..((k + 1) - 1) : d[m] \notin Fences
           c == CHOOSE j \in 1..((k + 1) - 1) : P(j)
<1>1. (k + 1) - 1 = k
  OBVIOUS
<1>2. c \in 1..k /\ P(c)
  <2>1. o \in 1..((k + 1) - 1) /\ P(o)
    BY <1>1 DEF LastFence
  <2> HIDE DEF P
  <2> QED BY <1>1, <2>1
<1>3. c = o
  <2> HIDE DEF c
  <2>1. ~(c < o) /\ ~(o < c)
    BY <1>1, <1>2 DEF LastFence
  <2>2. o \in 1..k
    BY DEF LastFence
  <2> QED BY <1>2, <2>1, <2>2
<1> QED BY <1>3 DEF Opener

\* A line a reader counts to the section is collected or refused when it is read.
LEMMA CollectedKept ==
    ASSUME NEW d \in Seq(Lines), NEW k \in Nat, k + 1 \in DOMAIN d, NEW s \in TargetStates,
           TargetsAgree(s, d, k)
    PROVE  Collected(TargetLine(s, d[k + 1]), d, k + 1)
<1> DEFINE ln == d[k + 1]
           t == TargetLine(s, ln)
<1>1. ln \in Lines /\ t \in TargetStates
  BY TargetLineTyped
<1> SUFFICES ASSUME NEW i \in 1..(k + 1), Counts(d, i)
             PROVE  /\ d[i] \in Commands => Contains(t.commands, d[i])
                    /\ d[i] = "refused" => t.rejected > 0
  BY DEF Collected
<1>2. CASE i \in 1..k
  <2>1. (d[i] \in Commands => Contains(s.commands, d[i])) /\ (d[i] = "refused" => s.rejected > 0)
    BY <1>2 DEF Collected, TargetsAgree
  <2>2. (\A c : Contains(s.commands, c) => Contains(t.commands, c)) /\ t.rejected >= s.rejected
    BY <1>1, TargetLineCollects
  <2>3. t.rejected \in Nat /\ s.rejected \in Nat
    BY <1>1 DEF TargetStates
  <2> HIDE DEF t
  <2> QED BY <2>1, <2>2, <2>3
<1>3. CASE i = k + 1 /\ ln \in Commands \union {"refused"}
  <2>1. ln \notin Fences /\ ln \notin Headings /\ ln # "prose"
        /\ ~(ln \in Commands /\ ln = "refused")
    BY <1>3, LinesAssumption DEF Words, Fences, Headings, HeadingLevel
  <2>2. PICK j \in 1..k : Anchored(d, j, k)
    <3>1. PICK j \in 1..(k + 1 - 1) :
              /\ IsHeading(d, 1, j) /\ d[j] = "targets"
              /\ \A m \in 1..(j - 1) : IsHeading(d, 1, m) => d[m] \notin {"targets", "alias"}
              /\ \A m \in (j + 1)..(k + 1) : ~IsHeading(d, 1, m)
      BY <1>3 DEF Counts, InTargetSection
    <3>2. j \in 1..k /\ \A m \in (j + 1)..k : ~IsHeading(d, 1, m)
      BY <3>1
    <3> QED BY <3>1, <3>2 DEF Anchored
  <2>3. /\ ~s.done /\ s.level > 0
        /\ s.fence # "none" =>
              \E o : LastFence(d, o, k) /\ (d[o] = "fence" => s.fence = "commands")
    BY <2>2 DEF SectionKnown, TargetsAgree
  <2>4. s.fence # "none" => s.fence = "commands"
    <3> SUFFICES ASSUME s.fence # "none" PROVE s.fence = "commands"
      OBVIOUS
    <3>1. Opener(d, k + 1) = "fence"
      BY <1>3, <2>3 DEF Counts, FenceKnown, TargetsAgree
    <3>2. PICK o : LastFence(d, o, k) /\ (d[o] = "fence" => s.fence = "commands")
      BY <2>3
    <3>4. Opener(d, k + 1) = d[o]
      BY <3>2, OpenerIs
    <3> QED BY <3>1, <3>2, <3>4
  <2>5. t = Entry(s, ln)
    BY <2>1, <2>3, <2>4 DEF TargetLine
  <2> QED BY <1>3, <2>1, <2>5, EntryCollects
<1>4. CASE i = k + 1 /\ ln \notin Commands \union {"refused"}
  BY <1>4
<1> QED BY <1>2, <1>3, <1>4

\* The state of the targets parser agrees with the second reading throughout.
LEMMA TargetsAgreeThroughout ==
    ASSUME NEW d \in Seq(Lines), NEW p, ReadsTargets(p, d)
    PROVE  \A k \in 0..Len(d) : TargetsAgree(p[k], d, k)
<1> DEFINE n == Len(d)
           T == {k \in 0..n : TargetsAgree(p[k], d, k)}
<1>1. n \in Nat /\ DOMAIN d = 1..n
  OBVIOUS
<1> HIDE DEF n
<1>2. 0 \in T
  <2>1. ~InFence(d, 1, 0 + 1)
    BY NoFenceYet
  <2>2. p[0] = NoTargets
    BY DEF ReadsTargets
  <2>3. TargetsAgree(NoTargets, d, 0)
    BY <2>1 DEF NoTargets, TargetsAgree, FenceKnown, LevelKnown, SectionKnown, Collected
  <2> QED BY <1>1, <2>2, <2>3
<1>3. \A k \in 0..(n - 1) : k \in T => k + 1 \in T
  <2> SUFFICES ASSUME NEW k \in 0..(n - 1), TargetsAgree(p[k], d, k)
               PROVE  TargetsAgree(p[k + 1], d, k + 1)
    BY <1>1
  <2>1. k \in Nat /\ k + 1 \in DOMAIN d /\ k + 1 \in 1..n /\ k + 1 - 1 = k
    BY <1>1
  <2>2. p[k] \in TargetStates /\ p[k + 1] = TargetLine(p[k], d[k + 1])
    BY <1>1, <2>1 DEF ReadsTargets, n
  <2> QED BY <2>1, <2>2, FenceKnownKept, LevelKnownKept, SectionKnownKept, CollectedKept DEF TargetsAgree
<1>4. T = 0..n
  <2>1. T \in SUBSET (0..n)
    OBVIOUS
  <2> HIDE DEF T
  <2> QED BY <1>1, <1>2, <1>3, <2>1, TargetFold!UpTo
<1> QED BY <1>4 DEF n

\* Every entry of the targets section is a target, or refuses the plan.
LEMMA TargetsComplete ==
    ASSUME NEW d \in Seq(Lines)
    PROVE  LET targets == parseQualityGateTargets(d)
           IN  /\ targets \in TargetStates
               /\ \A i \in DOMAIN d : Counts(d, i) =>
                     /\ d[i] \in Commands => Contains(targets.commands, d[i])
                     /\ d[i] = "refused" => targets.rejected > 0
<1>1. PICK p : ReadsTargets(p, d) /\ parseQualityGateTargets(d) = p[Len(d)]
  BY TargetsRun
<1>2. Len(d) \in Nat /\ DOMAIN d = 1..Len(d)
  OBVIOUS
<1>3. TargetsAgree(p[Len(d)], d, Len(d)) /\ p[Len(d)] \in TargetStates
  BY <1>1, <1>2, TargetsAgreeThroughout DEF ReadsTargets
<1> QED BY <1>1, <1>2, <1>3 DEF TargetsAgree, Collected

-----------------------------------------------------------------------------
(* Every shell fence of the smoke protocol is a check.                     *)

\* The smoke protocol begins at line j.
SmokeStart(d, j) == d[j] = "smoke" /\ \A m \in 1..(j - 1) : d[m] # "smoke"

\* Line i opens a shell fence of the smoke protocol.
SmokeFence(d, i) ==
    \E j \in 1..(i - 1) : InSmokeSection(d, j, i) /\ d[i] = "fence" /\ ~InFence(d, j, i)

SmokeFences(d, k) == {i \in 1..k : SmokeFence(d, i)}

Started(s) == s.checks + (IF s.body.open THEN 1 ELSE 0)

\* After k lines the smoke parser's state agrees with the second reading.
NotYetIn(s, d, k) ==
    /\ s.fence = "none" => ~s.body.open
    /\ ~s.in => /\ s.fence = "none" /\ ~s.done /\ s.checks = 0
                /\ \A j \in 1..k : d[j] # "smoke"
Within(s, d, k) ==
    s.in => \E j \in 1..k :
                /\ SmokeStart(d, j)
                /\ s.done <=> ~InSmokeSection(d, j, k)
                /\ s.done => s.fence = "none"
                /\ ~s.done => (s.fence # "none" <=> InFence(d, j, k + 1))
Counted(s, d, k) ==
    IsFiniteSet(SmokeFences(d, k)) /\ Started(s) = Cardinality(SmokeFences(d, k))
SmokeAgrees(s, d, k) == NotYetIn(s, d, k) /\ Within(s, d, k) /\ Counted(s, d, k)

\* What a line does to the smoke parser.
LEMMA SmokeLineMoves ==
    ASSUME NEW s \in SmokeStates, NEW ln \in Lines
    PROVE  LET t == SmokeLine(s, ln)
           IN  /\ s.done => t = s
               /\ ~s.done /\ s.fence # "none" /\ ln \in Fences =>
                     /\ t.fence = "none" /\ ~t.body.open /\ t.in = s.in /\ ~t.done
                     /\ t.checks = Started(s)
               /\ ~s.done /\ s.fence # "none" /\ ln \notin Fences =>
                     /\ t.fence = s.fence /\ t.body.open = s.body.open /\ t.in = s.in /\ ~t.done
                     /\ t.checks = s.checks
               /\ ~s.done /\ s.fence = "none" /\ ~s.in =>
                     /\ (t.in <=> ln = "smoke") /\ t.fence = "none" /\ ~t.done
                     /\ t.body.open = s.body.open /\ t.checks = s.checks
               /\ ~s.done /\ s.fence = "none" /\ s.in =>
                     /\ t.in /\ t.checks = s.checks
                     /\ t.fence = IF ln \in Fences THEN "open" ELSE "none"
                     /\ ln \in Fences => (t.body.open <=> ln = "fence")
                     /\ ln \notin Fences => t.body.open = s.body.open
                     /\ t.done <=> ln \in Headings /\ HeadingLevel[ln] <= 2
<1>1. CASE s.done
  BY <1>1 DEF SmokeLine
<1>2. CASE ~s.done /\ s.fence # "none" /\ ln \in Fences
  <2>1. SmokeLine(s, ln) = [FinishFence(s) EXCEPT !.fence = "none"]
    BY <1>2 DEF SmokeLine
  <2>2. LET f == FinishFence(s)
        IN  f \in SmokeStates /\ ~f.body.open /\ f.in = s.in /\ f.done = s.done /\ f.checks = Started(s)
    <3>1. CASE s.body.open
      <4>1. FinishFence(s) = [s EXCEPT !.checks = @ + 1, !.body = NoBody,
                                  !.findings = IF s.body.runs /\ ~s.body.refused THEN @ ELSE @ + 1]
        BY <3>1 DEF FinishFence
      <4>2. FinishFence(s) \in SmokeStates
        BY FinishFenceTyped
      <4>3. LET f == FinishFence(s)
            IN  f.body = NoBody /\ f.in = s.in /\ f.done = s.done /\ f.checks = s.checks + 1
        BY <4>1 DEF SmokeStates
      <4> QED BY <3>1, <4>2, <4>3 DEF NoBody, Started
    <3>2. CASE ~s.body.open
      BY <3>2 DEF FinishFence, SmokeStates, Started
    <3> QED BY <3>1, <3>2
  <2> QED BY <1>2, <2>1, <2>2 DEF SmokeStates
<1>3. CASE ~s.done /\ s.fence # "none" /\ ln \notin Fences
  BY <1>3 DEF SmokeLine, SmokeStates
<1>4. CASE ~s.done /\ s.fence = "none" /\ ~s.in
  BY <1>4 DEF SmokeLine, SmokeStates
<1>5. CASE ~s.done /\ s.fence = "none" /\ s.in
  <2>1. CASE ln \in Headings
    <3>1. SmokeLine(s, ln) = [s EXCEPT !.done = HeadingLevel[ln] <= HeadingLevel["smoke"]]
      BY <1>5, <2>1 DEF SmokeLine
    <3>2. ln \notin Fences /\ HeadingLevel["smoke"] = 2
      BY <2>1 DEF Headings, HeadingLevel, Fences
    <3>3. CASE HeadingLevel[ln] <= 2
      <4>1. SmokeLine(s, ln) = [s EXCEPT !.done = TRUE]
        BY <3>1, <3>2, <3>3
      <4> QED BY <1>5, <2>1, <3>2, <3>3, <4>1 DEF SmokeStates
    <3>4. CASE ~(HeadingLevel[ln] <= 2)
      <4>1. SmokeLine(s, ln) = s
        <5>1. SmokeLine(s, ln) \in SmokeStates /\ s.done = FALSE
          BY <1>5, SmokeLineTyped DEF SmokeStates
        <5>2. SmokeLine(s, ln).done = FALSE
          BY <3>1, <3>2, <3>4, <5>1 DEF SmokeStates
        <5> QED BY <3>1, <5>1, <5>2 DEF SmokeStates
      <4> QED BY <1>5, <2>1, <3>2, <3>4, <4>1
    <3> QED BY <3>3, <3>4
  <2>2. CASE ln \in Fences
    BY <1>5, <2>2 DEF SmokeLine, SmokeStates, Headings, HeadingLevel, Fences, NoBody
  <2>3. CASE ln \notin Headings /\ ln \notin Fences
    BY <1>5, <2>3 DEF SmokeLine, SmokeStates
  <2> QED BY <2>1, <2>2, <2>3
<1> QED BY <1>1, <1>2, <1>3, <1>4, <1>5

\* Before the first line that reads as the smoke heading nothing is a check.
LEMMA NotYetInKept ==
    ASSUME NEW d \in Seq(Lines), NEW k \in Nat, k + 1 \in DOMAIN d, NEW s \in SmokeStates,
           SmokeAgrees(s, d, k), NEW t, t = SmokeLine(s, d[k + 1])
    PROVE  NotYetIn(t, d, k + 1)
<1> DEFINE ln == d[k + 1]
<1>1. ln \in Lines /\ t \in SmokeStates
  BY SmokeLineTyped
<1>2. NotYetIn(s, d, k)
  BY DEF SmokeAgrees
<1>3. \A j \in 1..(k + 1) : j \in 1..k \/ j = k + 1
  OBVIOUS
<1>4. CASE s.done
  BY <1>1, <1>2, <1>4, SmokeLineMoves DEF NotYetIn
<1>5. CASE ~s.done /\ s.fence # "none" /\ ln \in Fences
  BY <1>1, <1>2, <1>5, SmokeLineMoves DEF NotYetIn
<1>6. CASE ~s.done /\ s.fence # "none" /\ ln \notin Fences
  BY <1>1, <1>2, <1>6, SmokeLineMoves DEF NotYetIn
<1>7. CASE ~s.done /\ s.fence = "none" /\ ~s.in
  <2>1. /\ t.in <=> ln = "smoke"
        /\ t.fence = "none" /\ ~t.done /\ t.body.open = s.body.open /\ t.checks = s.checks
    BY <1>1, <1>7, SmokeLineMoves
  <2> QED BY <1>2, <1>3, <1>7, <2>1 DEF NotYetIn
<1>8. CASE ~s.done /\ s.fence = "none" /\ s.in
  BY <1>1, <1>2, <1>8, SmokeLineMoves DEF NotYetIn
<1> QED BY <1>4, <1>5, <1>6, <1>7, <1>8

\* From then on parser and reader agree on fence and section.
LEMMA WithinKept ==
    ASSUME NEW d \in Seq(Lines), NEW k \in Nat, k + 1 \in DOMAIN d, NEW s \in SmokeStates,
           SmokeAgrees(s, d, k), NEW t, t = SmokeLine(s, d[k + 1])
    PROVE  Within(t, d, k + 1)
<1> DEFINE ln == d[k + 1]
<1>1. ln \in Lines /\ t \in SmokeStates /\ Headings \intersect Fences = {}
  BY SmokeLineTyped DEF Headings, HeadingLevel, Fences
<1>2. NotYetIn(s, d, k) /\ Within(s, d, k)
  BY DEF SmokeAgrees
<1>3. CASE ~s.in
  <2>1. ~s.done /\ s.fence = "none" /\ \A j \in 1..k : d[j] # "smoke"
    BY <1>2, <1>3 DEF NotYetIn
  <2>2. t.in <=> ln = "smoke"
    BY <1>1, <1>3, <2>1, SmokeLineMoves
  <2>3. t.fence = "none" /\ ~t.done
    BY <1>1, <1>3, <2>1, SmokeLineMoves
  <2>4. ASSUME ln = "smoke"
        PROVE  SmokeStart(d, k + 1) /\ InSmokeSection(d, k + 1, k + 1) /\ ~InFence(d, k + 1, (k + 1) + 1)
    <3>1. SmokeStart(d, k + 1)
      BY <2>1, <2>4 DEF SmokeStart
    <3>2. InSmokeSection(d, k + 1, k + 1)
      BY <2>1, <2>4 DEF InSmokeSection
    <3>3. ln \notin Fences
      BY <2>4 DEF Fences
    <3>4. ~InFence(d, k + 1, k + 1)
      BY NoFenceYet
    <3>5. InFence(d, k + 1, (k + 1) + 1) <=> (InFence(d, k + 1, k + 1) <=> ln \notin Fences)
      BY FenceStep
    <3> QED BY <3>1, <3>2, <3>3, <3>4, <3>5
  <2> QED BY <2>2, <2>3, <2>4, k + 1 \in 1..(k + 1) DEF Within
<1>4. CASE s.in
  <2>1. PICK j \in 1..k :
              /\ SmokeStart(d, j)
              /\ s.done <=> ~InSmokeSection(d, j, k)
              /\ s.done => s.fence = "none"
              /\ ~s.done => (s.fence # "none" <=> InFence(d, j, k + 1))
    BY <1>2, <1>4 DEF Within
  <2>2. InSmokeSection(d, j, k + 1) <=>
            InSmokeSection(d, j, k) /\ (IsHeading(d, j, k + 1) => HeadingLevel[ln] > 2)
    <3>1. \A m : m \in (j + 1)..(k + 1) <=> m \in (j + 1)..k \/ m = k + 1
      BY <2>1
    <3> QED BY <3>1 DEF InSmokeSection
  <2>3. InFence(d, j, (k + 1) + 1) <=> (InFence(d, j, k + 1) <=> ln \notin Fences)
    BY <2>1, FenceStep
  <2>4. j \in 1..(k + 1)
    OBVIOUS
  <2>5. CASE s.done
    <3>1. t = s
      BY <1>1, <2>5, SmokeLineMoves
    <3> QED BY <2>1, <2>2, <2>4, <2>5, <3>1 DEF Within
  <2>6. CASE ~s.done /\ s.fence # "none"
    <3>1. ~t.done /\ (t.fence # "none" <=> ln \notin Fences)
      BY <1>1, <2>6, SmokeLineMoves
    <3>2. ~IsHeading(d, j, k + 1)
      BY <2>1, <2>6 DEF IsHeading
    <3> QED BY <2>1, <2>2, <2>3, <2>4, <2>6, <3>1, <3>2 DEF Within
  <2>7. CASE ~s.done /\ s.fence = "none"
    <3>1. /\ t.fence # "none" <=> ln \in Fences
          /\ t.done <=> ln \in Headings /\ HeadingLevel[ln] <= 2
      BY <1>1, <1>4, <2>7, SmokeLineMoves
    <3>2. IsHeading(d, j, k + 1) <=> ln \in Headings
      BY <2>1, <2>7 DEF IsHeading
    <3>3. ln \in Headings => HeadingLevel[ln] \in Nat
      BY DEF Headings, HeadingLevel
    <3>4. t.done <=> ~InSmokeSection(d, j, k + 1)
      <4> QED BY <2>1, <2>2, <2>7, <3>1, <3>2, <3>3
    <3>5. t.done => t.fence = "none"
      <4> QED BY <1>1, <3>1
    <3>6. t.fence # "none" <=> InFence(d, j, (k + 1) + 1)
      <4> QED BY <2>1, <2>3, <2>7, <3>1
    <3> QED BY <2>1, <2>4, <3>4, <3>5, <3>6 DEF Within
  <2> QED BY <2>5, <2>6, <2>7
<1> QED BY <1>3, <1>4

\* There is one first line of the smoke protocol.
LEMMA OneSmokeStart ==
    ASSUME NEW d, NEW k \in Nat, NEW i \in 1..k, NEW j \in 1..k, SmokeStart(d, i), SmokeStart(d, j)
    PROVE  i = j
<1>1. ~(i < j) /\ ~(j < i)
  BY DEF SmokeStart
<1> QED BY <1>1

\* The parser is about to open a check exactly at the lines that count.
LEMMA SmokeFenceIs ==
    ASSUME NEW d \in Seq(Lines), NEW k \in Nat, k + 1 \in DOMAIN d, NEW s \in SmokeStates,
           SmokeAgrees(s, d, k)
    PROVE  SmokeFence(d, k + 1) <=> s.in /\ ~s.done /\ s.fence = "none" /\ d[k + 1] = "fence"
<1>1. NotYetIn(s, d, k) /\ Within(s, d, k) /\ (k + 1) - 1 = k
  BY DEF SmokeAgrees
<1>2. CASE d[k + 1] # "fence"
  BY <1>2 DEF SmokeFence
<1>3. CASE ~s.in
  <2>1. \A j \in 1..k : d[j] # "smoke"
    BY <1>1, <1>3 DEF NotYetIn
  <2> QED BY <1>1, <1>3, <2>1 DEF SmokeFence, InSmokeSection
<1>4. CASE s.in /\ d[k + 1] = "fence"
  <2>1. PICK j \in 1..k :
              /\ SmokeStart(d, j)
              /\ s.done <=> ~InSmokeSection(d, j, k)
              /\ s.done => s.fence = "none"
              /\ ~s.done => (s.fence # "none" <=> InFence(d, j, k + 1))
    BY <1>1, <1>4 DEF Within
  <2>2. \A i : ~IsHeading(d, i, k + 1)
    BY <1>4 DEF IsHeading, Headings, HeadingLevel
  <2>3. InSmokeSection(d, j, k + 1) <=> InSmokeSection(d, j, k)
    <3>1. \A m : m \in (j + 1)..(k + 1) <=> m \in (j + 1)..k \/ m = k + 1
      BY <2>1
    <3> QED BY <3>1, <2>2 DEF InSmokeSection
  <2>4. ASSUME NEW i \in 1..k, InSmokeSection(d, i, k + 1) PROVE i = j
    <3>1. SmokeStart(d, i)
      BY <2>4 DEF InSmokeSection, SmokeStart
    <3> QED BY <2>1, <3>1, OneSmokeStart
  <2>5. SmokeFence(d, k + 1) <=> InSmokeSection(d, j, k + 1) /\ ~InFence(d, j, k + 1)
    BY <1>1, <1>4, <2>1, <2>4 DEF SmokeFence
  <2> QED BY <1>4, <2>1, <2>3, <2>5
<1> QED BY <1>2, <1>3, <1>4

\* The checks the parser has finished are the shell fences a reader has counted.
LEMMA CountedKept ==
    ASSUME NEW d \in Seq(Lines), NEW k \in Nat, k + 1 \in DOMAIN d, NEW s \in SmokeStates,
           SmokeAgrees(s, d, k), NEW t, t = SmokeLine(s, d[k + 1])
    PROVE  Counted(t, d, k + 1)
<1> DEFINE ln == d[k + 1]
           S == SmokeFences(d, k)
           S1 == SmokeFences(d, k + 1)
<1>1. ln \in Lines /\ t \in SmokeStates /\ NotYetIn(s, d, k)
  BY SmokeLineTyped DEF SmokeAgrees
<1>2. IsFiniteSet(S) /\ Started(s) = Cardinality(S)
  BY DEF SmokeAgrees, Counted
<1>3. k + 1 \notin S /\ S1 = IF SmokeFence(d, k + 1) THEN S \union {k + 1} ELSE S
  <2>1. \A i : i \in 1..(k + 1) <=> i \in 1..k \/ i = k + 1
    OBVIOUS
  <2> QED BY <2>1 DEF SmokeFences
<1>4. IsFiniteSet(S1) /\ Cardinality(S1) = Cardinality(S) + (IF SmokeFence(d, k + 1) THEN 1 ELSE 0)
  <2>1. Cardinality(S) \in Nat
    BY <1>2, FS_CardinalityType
  <2> HIDE DEF S, S1
  <2> QED BY <1>2, <1>3, <2>1, FS_AddElement
<1>5. Started(t) = Started(s) + (IF SmokeFence(d, k + 1) THEN 1 ELSE 0)
  <2>1. SmokeFence(d, k + 1) <=> s.in /\ ~s.done /\ s.fence = "none" /\ ln = "fence"
    BY SmokeFenceIs
  <2>2. s.checks \in Nat /\ Started(s) \in Nat
    BY DEF SmokeStates, Started
  <2>3. "fence" \in Fences
    BY DEF Fences
  <2>4. CASE s.done
    BY <1>1, <2>1, <2>2, <2>4, SmokeLineMoves
  <2>5. CASE ~s.done /\ s.fence # "none" /\ ln \in Fences
    <3>1. ~t.body.open /\ t.checks = Started(s)
      BY <1>1, <2>5, SmokeLineMoves
    <3>2. Started(t) = t.checks
      BY <3>1, <2>2 DEF Started
    <3> QED BY <2>1, <2>2, <2>5, <3>1, <3>2
  <2>6. CASE ~s.done /\ s.fence # "none" /\ ln \notin Fences
    <3>1. t.body.open = s.body.open /\ t.checks = s.checks
      BY <1>1, <2>6, SmokeLineMoves
    <3>2. Started(t) = Started(s)
      BY <3>1 DEF Started
    <3> QED BY <2>1, <2>2, <2>6, <3>2
  <2>7. CASE ~s.done /\ s.fence = "none" /\ ~s.in
    <3>1. t.body.open = s.body.open /\ t.checks = s.checks
      BY <1>1, <2>7, SmokeLineMoves
    <3>2. Started(t) = Started(s)
      BY <3>1 DEF Started
    <3> QED BY <2>1, <2>2, <2>7, <3>2
  <2>8. CASE ~s.done /\ s.fence = "none" /\ s.in
    <3>1. t.checks = s.checks /\ ~s.body.open
      BY <1>1, <2>8, SmokeLineMoves DEF NotYetIn
    <3>2. t.body.open <=> ln = "fence"
      BY <1>1, <2>3, <2>8, <3>1, SmokeLineMoves
    <3> QED BY <2>1, <2>2, <2>8, <3>1, <3>2 DEF Started
  <2> QED BY <2>4, <2>5, <2>6, <2>7, <2>8
<1> QED BY <1>2, <1>4, <1>5 DEF Counted

\* The state of the smoke parser agrees with the second reading throughout.
LEMMA SmokeAgreesThroughout ==
    ASSUME NEW d \in Seq(Lines), NEW q, ReadsSmoke(q, d)
    PROVE  \A k \in 0..Len(d) : SmokeAgrees(q[k], d, k)
<1> DEFINE n == Len(d)
           T == {k \in 0..n : SmokeAgrees(q[k], d, k)}
<1>1. n \in Nat /\ DOMAIN d = 1..n
  OBVIOUS
<1> HIDE DEF n
<1>2. 0 \in T
  <2>1. SmokeFences(d, 0) = {}
    BY DEF SmokeFences
  <2>2. Counted(NoSmoke, d, 0)
    <3>1. Started(NoSmoke) = 0
      BY DEF NoSmoke, NoBody, Started
    <3> QED BY <2>1, <3>1, FS_EmptySet DEF Counted
  <2>3. NotYetIn(NoSmoke, d, 0) /\ Within(NoSmoke, d, 0)
    BY DEF NoSmoke, NoBody, NotYetIn, Within
  <2> QED BY <1>1, <2>2, <2>3 DEF ReadsSmoke, SmokeAgrees
<1>3. \A k \in 0..(n - 1) : k \in T => k + 1 \in T
  <2> SUFFICES ASSUME NEW k \in 0..(n - 1), SmokeAgrees(q[k], d, k)
               PROVE  SmokeAgrees(q[k + 1], d, k + 1)
    BY <1>1
  <2>1. k \in Nat /\ k + 1 \in DOMAIN d /\ k + 1 \in 1..n /\ k + 1 - 1 = k
    BY <1>1
  <2>2. q[k] \in SmokeStates /\ q[k + 1] = SmokeLine(q[k], d[k + 1])
    BY <1>1, <2>1 DEF ReadsSmoke, n
  <2> QED BY <2>1, <2>2, NotYetInKept, WithinKept, CountedKept DEF SmokeAgrees
<1>4. T = 0..n
  <2>1. T \in SUBSET (0..n)
    OBVIOUS
  <2> HIDE DEF T
  <2> QED BY <1>1, <1>2, <1>3, <2>1, SmokeFold!UpTo
<1> QED BY <1>4 DEF n

\* The checks of a smoke protocol are its shell fences, and a protocol with a
\* check is found.
LEMMA SmokeComplete ==
    ASSUME NEW d \in Seq(Lines)
    PROVE  LET smoke == SmokeProtocolOf(d)
           IN  /\ smoke.checks \in Nat
               /\ smoke.checks > 0 => smoke.found
               /\ smoke.checks = Cardinality(SmokeFences(d, Len(d)))
<1>1. PICK q :
              /\ ReadsSmoke(q, d)
              /\ SmokeProtocolOf(d).checks = FinishFence(q[Len(d)]).checks
              /\ SmokeProtocolOf(d).checks > 0 /\ FinishFence(q[Len(d)]).in => SmokeProtocolOf(d).found
  BY SmokeRuns
<1>2. Len(d) \in Nat /\ Len(d) \in 0..Len(d)
  OBVIOUS
<1> DEFINE s == q[Len(d)]
<1>3. SmokeAgrees(s, d, Len(d)) /\ s \in SmokeStates
  <2>1. SmokeAgrees(s, d, Len(d))
    BY <1>1, <1>2, SmokeAgreesThroughout
  <2>2. s \in SmokeStates
    BY <1>1, <1>2 DEF ReadsSmoke
  <2> QED BY <2>1, <2>2
<1>4. FinishFence(s).checks = Started(s) /\ FinishFence(s).in = s.in
  <2>1. CASE s.body.open
    BY <1>3, <2>1 DEF FinishFence, SmokeStates, Started
  <2>2. CASE ~s.body.open
    BY <1>3, <2>2 DEF FinishFence, SmokeStates, Started
  <2> QED BY <2>1, <2>2
<1>5. Started(s) \in Nat
  BY <1>3 DEF SmokeStates, Started
<1>6. Started(s) > 0 => s.in
  BY <1>3 DEF SmokeAgrees, NotYetIn, Started
<1>7. Started(s) = Cardinality(SmokeFences(d, Len(d)))
  BY <1>3 DEF SmokeAgrees, Counted
<1>8. SmokeProtocolOf(d).checks = Started(s) /\ (Started(s) > 0 /\ s.in => SmokeProtocolOf(d).found)
  BY <1>1, <1>4
<1> HIDE DEF s
<1> QED BY <1>5, <1>6, <1>7, <1>8

\* No document, however long, declares a target or a check that is lost.
LEMMA ReadingDropsNothing ==
    ASSUME doc \in Seq(Lines) \union {Deleted}
    PROVE  NothingDeclaredIsDropped
<1> DEFINE d == Content(doc)
<1>1. d \in Seq(Lines)
  BY DEF Content
<1> HIDE DEF d
<1>2. Len(d) \in Nat /\ DOMAIN d = 1..Len(d)
  BY <1>1
<1>3. {i \in DOMAIN d : \E j \in 1..(i - 1) :
            InSmokeSection(d, j, i) /\ d[i] = "fence" /\ ~InFence(d, j, i)} = SmokeFences(d, Len(d))
  BY <1>2 DEF SmokeFences, SmokeFence
<1>4. SmokeProtocolOf(d).checks = Cardinality(SmokeFences(d, Len(d)))
  BY <1>1, SmokeComplete
<1>5. \A i \in DOMAIN d : Counts(d, i) =>
          /\ d[i] \in Commands => Contains(parseQualityGateTargets(d).commands, d[i])
          /\ d[i] = "refused" => parseQualityGateTargets(d).rejected > 0
  BY <1>1, TargetsComplete
<1> QED BY <1>3, <1>4, <1>5 DEF NothingDeclaredIsDropped, Counts, d

-----------------------------------------------------------------------------
(* The command list of a run.                                              *)

Sources == {"explicit", "plan", "config", "act", "auto-detect", "default"}

\* An empty list has no members.
LEMMA RangeOfNothing ==
    ASSUME NEW s PROVE s = <<>> => Range(s) = {}
  BY DEF Range

\* The members of a list are of its kind.
LEMMA SeqRangeIn ==
    ASSUME NEW S, NEW s \in Seq(S)
    PROVE  Range(s) \subseteq S
<1>1. Len(s) \in Nat /\ DOMAIN s = 1..Len(s) /\ \A i \in 1..Len(s) : s[i] \in S
  OBVIOUS
<1> QED BY <1>1 DEF Range

\* The members of a list are its head and those of its tail.
LEMMA RangeOfHeadTail ==
    ASSUME NEW S, NEW s \in Seq(S), s # <<>>
    PROVE  Range(s) = {Head(s)} \union Range(Tail(s))
<1>1. Len(s) \in Nat /\ DOMAIN s = 1..Len(s) /\ \A i \in 1..Len(s) : s[i] \in S
  OBVIOUS
<1>2. /\ Tail(s) \in Seq(S) /\ Len(Tail(s)) = Len(s) - 1
      /\ \A i \in 1..Len(Tail(s)) : Tail(s)[i] = s[i + 1]
  BY HeadTailProperties
<1>3. Head(s) = s[1] /\ 1 \in 1..Len(s) /\ DOMAIN Tail(s) = 1..(Len(s) - 1)
  BY <1>2, EmptySeq
<1>4. ASSUME NEW i \in 1..Len(s) PROVE s[i] \in {Head(s)} \union Range(Tail(s))
  <2>1. CASE i = 1
    BY <1>3, <2>1
  <2>2. CASE i # 1
    <3>1. i - 1 \in 1..(Len(s) - 1) /\ i = (i - 1) + 1
      BY <2>2, <1>1
    <3>2. Tail(s)[i - 1] = s[i]
      BY <1>2, <3>1
    <3> QED BY <1>3, <3>1, <3>2 DEF Range
  <2> QED BY <2>1, <2>2
<1>5. ASSUME NEW i \in 1..(Len(s) - 1) PROVE Tail(s)[i] \in Range(s)
  <2>1. i + 1 \in 1..Len(s) /\ Tail(s)[i] = s[i + 1]
    BY <1>1, <1>2
  <2> QED BY <1>1, <2>1 DEF Range
<1> QED BY <1>1, <1>3, <1>4, <1>5 DEF Range

\* A list that is continued keeps its members.
LEMMA RangeOfConcat ==
    ASSUME NEW S, NEW s \in Seq(S), NEW t \in Seq(S)
    PROVE  s \o t \in Seq(S) /\ Range(s) \subseteq Range(s \o t)
<1>1. Len(s) \in Nat /\ DOMAIN s = 1..Len(s) /\ Len(t) \in Nat
  OBVIOUS
<1>2. /\ s \o t \in Seq(S) /\ Len(s \o t) = Len(s) + Len(t)
      /\ \A i \in 1..Len(s) + Len(t) : (s \o t)[i] = IF i <= Len(s) THEN s[i] ELSE t[i - Len(s)]
  BY ConcatProperties
<1>3. DOMAIN (s \o t) = 1..(Len(s) + Len(t))
  BY <1>2
<1>4. \A i \in 1..Len(s) : i \in 1..(Len(s) + Len(t)) /\ (s \o t)[i] = s[i]
  BY <1>1, <1>2
<1> DEFINE u == s \o t
<1>5. DOMAIN u = 1..(Len(s) + Len(t)) /\ \A i \in 1..Len(s) : u[i] = s[i]
  BY <1>3, <1>4
<1>6. u \in Seq(S)
  BY <1>2
<1> HIDE DEF u
<1>7. Range(s) \subseteq Range(u)
  BY <1>1, <1>4, <1>5 DEF Range
<1> QED BY <1>6, <1>7 DEF u

\* A list that is extended keeps its members.
LEMMA RangeOfAppend ==
    ASSUME NEW S, NEW s \in Seq(S), NEW e \in S
    PROVE  Append(s, e) \in Seq(S) /\ Range(s) \subseteq Range(Append(s, e))
<1>1. Len(s) \in Nat /\ DOMAIN s = 1..Len(s)
  OBVIOUS
<1>2. DOMAIN Append(s, e) = 1..(Len(s) + 1) /\ \A i \in 1..Len(s) : Append(s, e)[i] = s[i]
  OBVIOUS
<1>3. \A i \in 1..Len(s) : i \in 1..(Len(s) + 1)
  BY <1>1
<1> QED BY <1>1, <1>2, <1>3 DEF Range

\* Lists of none, one and two members.
LEMMA SmallSeqs ==
    ASSUME NEW S, NEW e \in S
    PROVE  <<>> \in Seq(S) /\ <<e>> \in Seq(S) /\ \A f \in S : <<e, f>> \in Seq(S)
  OBVIOUS

\* Whatever the workspace, the commands of a run are commands, and they hold
\* every target of the plan unless others were named on the command line.
LEMMA PlanKeepsTargets ==
    ASSUME NEW explicit \in Seq(Commands), NEW targets \in Seq(Commands),
           NEW configured \in Seq(Commands), NEW w \in Workspaces
    PROVE  LET resolved == ResolveCommandPlan(explicit, targets, configured, w)
           IN  /\ resolved.commands \in Seq(Commands) /\ resolved.source \in Sources
               /\ resolved.source # "explicit" => Range(targets) \subseteq Range(resolved.commands)
<1>1. ASSUME NEW c \in Seq(Commands), NEW extra \in Seq(Commands)
      PROVE  /\ WithLint(c, w) \o extra \in Seq(Commands)
             /\ Range(c) \subseteq Range(WithLint(c, w) \o extra)
  <2>1. "npm run lint" \in Commands
    BY CommandsAssumption
  <2>2. WithLint(c, w) \in Seq(Commands) /\ Range(c) \subseteq Range(WithLint(c, w))
    <3>1. CASE WithLint(c, w) = c
      BY <3>1
    <3>2. CASE WithLint(c, w) = Append(c, "npm run lint")
      BY <2>1, <3>2, RangeOfAppend
    <3> QED BY <3>1, <3>2 DEF WithLint
  <2> DEFINE l == WithLint(c, w)
  <2> HIDE DEF l
  <2>3. l \in Seq(Commands) /\ Range(c) \subseteq Range(l)
    BY <2>2 DEF l
  <2>4. l \o extra \in Seq(Commands) /\ Range(l) \subseteq Range(l \o extra)
    BY <2>3, RangeOfConcat
  <2> QED BY <2>3, <2>4 DEF l
<1>2. WorkflowLint(w) \in Seq(Commands) /\ <<"act">> \in Seq(Commands) /\ <<>> \in Seq(Commands)
  <2>1. "act" \in Commands /\ "actionlint" \in Commands
    BY CommandsAssumption
  <2> QED BY <2>1, SmallSeqs DEF WorkflowLint
<1>3. DEFAULT_GATE_COMMANDS \in Seq(Commands) /\ GoCommands \in Seq(Commands)
  <2>1. /\ "npm run typecheck" \in Commands /\ "npm test" \in Commands
        /\ "go vet" \in Commands /\ "go test" \in Commands
    BY CommandsAssumption
  <2> QED BY <2>1, SmallSeqs DEF DEFAULT_GATE_COMMANDS, GoCommands
<1>4. NodeCommands(w.scripts) \in Seq(Commands)
  <2> DEFINE script(name, command) == IF name \in w.scripts THEN <<command>> ELSE <<>>
             a == script("typecheck", "npm run typecheck")
             b == IF "typecheck" \in w.scripts THEN <<>> ELSE script("build", "npm run build")
             c == script("lint", "npm run lint")
             e == script("test", "npm test")
  <2>1. a \in Seq(Commands) /\ b \in Seq(Commands) /\ c \in Seq(Commands) /\ e \in Seq(Commands)
        /\ <<"npm test">> \in Seq(Commands)
    <3>1. /\ "npm run typecheck" \in Commands /\ "npm run build" \in Commands
          /\ "npm run lint" \in Commands /\ "npm test" \in Commands
      BY CommandsAssumption
    <3> QED BY <3>1, SmallSeqs
  <2>2. NodeCommands(w.scripts) = IF a \o b \o c \o e = <<>> THEN <<"npm test">> ELSE a \o b \o c \o e
    BY DEF NodeCommands
  <2> HIDE DEF a, b, c, e
  <2>3. a \o b \in Seq(Commands)
    BY <2>1, ConcatProperties
  <2>4. a \o b \o c \in Seq(Commands)
    BY <2>1, <2>3, ConcatProperties
  <2>5. a \o b \o c \o e \in Seq(Commands)
    BY <2>1, <2>4, ConcatProperties
  <2> QED BY <2>1, <2>2, <2>5
<1>5. Detect(w) \in Seq(Commands)
  <2> DEFINE a == IF w.node THEN NodeCommands(w.scripts) ELSE <<>>
             b == IF w.go THEN GoCommands ELSE <<>>
  <2>1. a \in Seq(Commands) /\ b \in Seq(Commands)
    BY <1>2, <1>3, <1>4
  <2> HIDE DEF a, b
  <2>2. a \o b \in Seq(Commands)
    BY <2>1, ConcatProperties
  <2> QED BY <2>2 DEF Detect, a, b
<1> DEFINE resolved(commands, source, extra) ==
               [commands |-> WithLint(commands, w) \o extra, source |-> source,
                unlinted |-> source = "plan" /\ WorkflowLintNeeded(commands, w) /\ extra = <<>>]
           keeps(p, source) == /\ p.commands \in Seq(Commands) /\ p.source = source
                               /\ p.source # "explicit" => Range(targets) \subseteq Range(p.commands)
<1>6. ASSUME NEW c \in Seq(Commands), NEW extra \in Seq(Commands), NEW source,
             source = "explicit" \/ targets = <<>> \/ c = targets
      PROVE  keeps(resolved(c, source, extra), source)
  <2>1. /\ resolved(c, source, extra).commands = WithLint(c, w) \o extra
        /\ resolved(c, source, extra).source = source
    OBVIOUS
  <2>2. targets = <<>> => Range(targets) = {}
    BY RangeOfNothing
  <2> HIDE DEF resolved
  <2> QED BY <1>1, <1>6, <2>1, <2>2
<1> HIDE DEF resolved
<1> DEFINE r == ResolveCommandPlan(explicit, targets, configured, w)
<1>7. \/ r = resolved(explicit, "explicit", <<>>)
      \/ r = resolved(targets, "plan", IF WorkflowLintNeeded(targets, w) THEN WorkflowLint(w) ELSE <<>>)
      \/ targets = <<>> /\ \/ r = resolved(configured, "config", <<>>)
                           \/ r = resolved(<<"act">>, "act", <<>>)
                           \/ r = resolved(Detect(w), "auto-detect", <<>>)
                           \/ r = resolved(DEFAULT_GATE_COMMANDS, "default", <<>>)
  BY DEF ResolveCommandPlan, resolved
<1> HIDE DEF r
<1>8. \E source \in Sources : keeps(r, source)
  <2> HIDE DEF keeps, Detect, WorkflowLint, DEFAULT_GATE_COMMANDS
  <2>1. CASE r = resolved(explicit, "explicit", <<>>)
    BY <1>2, <1>6, <2>1 DEF Sources
  <2>2. CASE r = resolved(targets, "plan", IF WorkflowLintNeeded(targets, w) THEN WorkflowLint(w) ELSE <<>>)
    BY <1>2, <1>6, <2>2 DEF Sources
  <2>3. CASE targets = <<>> /\ r = resolved(configured, "config", <<>>)
    BY <1>2, <1>6, <2>3 DEF Sources
  <2>4. CASE targets = <<>> /\ r = resolved(<<"act">>, "act", <<>>)
    BY <1>2, <1>6, <2>4 DEF Sources
  <2>5. CASE targets = <<>> /\ r = resolved(Detect(w), "auto-detect", <<>>)
    BY <1>2, <1>5, <1>6, <2>5 DEF Sources
  <2>6. CASE targets = <<>> /\ r = resolved(DEFAULT_GATE_COMMANDS, "default", <<>>)
    BY <1>2, <1>3, <1>6, <2>6 DEF Sources
  <2> QED BY <1>7, <2>1, <2>2, <2>3, <2>4, <2>5, <2>6
<1> QED BY <1>8 DEF r
-----------------------------------------------------------------------------
(* The inductive invariant.                                                *)

Documents == Seq(Lines) \union {Deleted}
Targets(d) == Range(parseQualityGateTargets(Content(d)).commands)
Checks(d) == SmokeProtocolOf(Content(d)).checks

Tasks == [stage : StagesHere, rounds : 0..MaxRounds, loops : 0..MaxRounds + 1]
SmokeResults == SmokeVerdicts \union {"TIMED_OUT"}
Results ==
    [ran : SUBSET Commands, checked : Nat, source : Sources \union {"none", "report", "failed report"},
     doc : Documents, filed : BOOLEAN]
Reports ==
    [verdict : Verdicts, commands : SUBSET Commands, testsPassed : Nat \union {-1},
     smoke : SmokeVerdicts, checks : SUBSET Nat, round : 1..MaxRounds]
Starting == [pc : {"resolve"}, settings : Settings, task : Tasks]
Running ==
    [pc : {"commands", "rehash", "save", "file"}, dryRun : BOOLEAN, task : Tasks, doc : Documents,
     todo : Seq(Commands), source : Sources, passed : BOOLEAN, executed : SUBSET Commands,
     ran : SUBSET Commands, tests : Nat \union {-1}, smokeChecks : Nat, smoke : SmokeResults,
     checked : Nat]

Types ==
    /\ doc \in Documents /\ digest \in Approvable \union {NoDigest}
    /\ task \in Tasks /\ edits \in 0..MaxEdits
    /\ report \in {NoReport} \union Reports /\ last \in Results
    /\ run \in {NoRun} \union Starting \union Running

\* Every stage from the gate on has a gate entry behind it, and no entry left
\* more than one loop behind.
TaskInv ==
    /\ task.stage \in {"QUALITY_GATE", "REVIEW", "COMMIT", "COMPLETED"} => task.rounds >= 1
    /\ task.loops <= task.rounds
    /\ task.stage = "QUALITY_GATE" => task.loops < task.rounds
    /\ report # NoReport => task.rounds >= 1 /\ report.round <= task.rounds

\* What a run that has passed so far has done: everything its plan declares is
\* behind it or still to do, every command passed, and its plan is approved.
PassedSoFar ==
    /\ run.executed = run.ran
    /\ run.ran \intersect TestCommands # {} => run.tests > 0
    /\ run.source # "explicit" => Targets(run.doc) \subseteq run.ran \union Range(run.todo)
    /\ digest # NoDigest => run.doc = digest

\* Nothing but the run moves the task; a run behind its commands has done them
\* all, and a run that filed its verdict has moved the task.
RunInv ==
    /\ run.pc # "idle" => task.stage # "PLAN"
    /\ run.pc \in {"resolve", "commands", "rehash", "save"} => run.task = EnterGate(task)
    /\ run.pc \in {"commands", "rehash", "save", "file"} =>
          /\ run.smokeChecks = Checks(run.doc)
          /\ run.passed => PassedSoFar
    /\ run.pc = "commands" => run.passed /\ run.checked = 0 /\ run.smoke \in {"FAILED", "NOT_DECLARED"}
    /\ run.pc \in {"rehash", "save", "file"} /\ run.passed =>
          /\ run.todo = <<>> /\ run.checked = run.smokeChecks
          /\ run.smokeChecks > 0 => run.smoke = "PASSED"
    /\ run.pc = "file" =>
          /\ task = IF run.passed THEN [run.task EXCEPT !.stage = "REVIEW", !.loops = 0]
                    ELSE [run.task EXCEPT !.stage = "IMPLEMENT", !.loops = @ + 1]
          /\ run.task.rounds >= 1
          /\ last = [ran |-> run.ran, checked |-> run.checked, source |-> run.source,
                     doc |-> run.doc, filed |-> FALSE]

\* A report of this gate entry is the one filed at it.
ReportInv ==
    /\ task.stage = "QUALITY_GATE" /\ report # NoReport /\ report.round = Round(task) =>
          /\ last.ran = report.commands /\ report.checks = 1..last.checked
          /\ last.source = "report" /\ last.filed
    /\ task.stage = "REVIEW" /\ report # NoReport /\ last.filed /\ last.source # "explicit" =>
          /\ report.round = Round(task)
          /\ digest # NoDigest => last.doc = digest
          /\ Covers(report, Content(last.doc))

Inductive == Types /\ TaskInv /\ RunInv /\ ReportInv /\ ReviewedWorkRanItsPlan

\* What is read from a document on disk.
LEMMA Read ==
    ASSUME NEW d \in Documents
    PROVE  /\ Content(d) \in Seq(Lines)
           /\ parseQualityGateTargets(Content(d)).commands \in Seq(Commands)
           /\ Targets(d) \in SUBSET Commands
           /\ Checks(d) \in Nat /\ (Checks(d) > 0 => SmokeProtocolOf(Content(d)).found)
<1>1. Content(d) \in Seq(Lines)
  BY DEF Content, Documents
<1>2. parseQualityGateTargets(Content(d)) \in TargetStates
  BY <1>1, TargetsComplete
<1>3. parseQualityGateTargets(Content(d)).commands \in Seq(Commands)
  BY <1>2 DEF TargetStates
<1>4. Targets(d) \in SUBSET Commands
  BY <1>3, SeqRangeIn DEF Targets
<1>5. Checks(d) \in Nat /\ (Checks(d) > 0 => SmokeProtocolOf(Content(d)).found)
  BY <1>1, SmokeComplete DEF Checks
<1> QED BY <1>1, <1>3, <1>4, <1>5

\* How far a smoke script came, and that it came to its end when it passed.
LEMMA SmokeRan ==
    ASSUME NEW n \in Nat, n > 0, NEW outcomes \in [1..n -> CheckOutcomes], NEW marker \in BOOLEAN
    PROVE  /\ Len(outcomes) = n
           /\ ChecksStarted(outcomes) \in Nat
           /\ SmokeStatus(outcomes, marker) \in SmokeResults
           /\ SmokeStatus(outcomes, marker) = "PASSED" => ChecksStarted(outcomes) = n
<1>1. outcomes \in Seq(CheckOutcomes) /\ Len(outcomes) = n /\ DOMAIN outcomes = 1..n
  OBVIOUS
<1> DEFINE ending == {i \in DOMAIN outcomes : outcomes[i] \notin {"ok", "prints FAIL"}}
           m == ChecksStarted(outcomes)
<1>2. CASE ending = {}
  <2>1. m = n
    BY <1>1, <1>2 DEF ChecksStarted
  <2> HIDE DEF m
  <2>2. SmokeStatus(outcomes, marker) \in SmokeResults
    BY DEF SmokeStatus, SmokeResults, SmokeVerdicts
  <2> QED BY <1>1, <2>1, <2>2 DEF m
<1>3. CASE ending # {}
  <2>1. ending \in SUBSET Nat /\ ending \subseteq 1..n
    <3>1. DOMAIN outcomes = 1..n
      BY <1>1
    <3>2. ending \subseteq DOMAIN outcomes
      OBVIOUS
    <3> HIDE DEF ending
    <3> QED BY <3>1, <3>2
  <2>2. m = CHOOSE i \in ending : \A j \in ending : i <= j
    BY <1>3 DEF ChecksStarted
  <2>3. \E i \in ending : \A j \in ending : i <= j
    <3> HIDE DEF ending
    <3> QED BY <1>3, <2>1, TargetFold!LeastNat
  <2>4. m \in ending
    <3> HIDE DEF ending, m
    <3> QED BY <2>2, <2>3
  <2>5. m \in 1..n /\ outcomes[m] \notin {"ok", "prints FAIL"} /\ outcomes[m] \in CheckOutcomes
    <3> HIDE DEF m
    <3> QED BY <1>1, <2>4
  <2>6. outcomes[m] \in {"fails", "hangs"}
    BY <2>5, GateAssumption
  <2>7. SmokeStatus(outcomes, marker) \in SmokeResults /\ SmokeStatus(outcomes, marker) # "PASSED"
    <3>1. SmokeStatus(outcomes, marker)
            = CASE outcomes[m] = "hangs" -> "TIMED_OUT"
                [] outcomes[m] # "hangs"
                   /\ (~marker \/ outcomes[m] = "fails"
                       \/ \E i \in 1..m : outcomes[i] = "prints FAIL") -> "FAILED"
                [] OTHER -> "PASSED"
      BY DEF SmokeStatus
    <3> HIDE DEF m
    <3>2. CASE outcomes[m] = "hangs"
      BY <3>1, <3>2 DEF SmokeResults, SmokeVerdicts
    <3>3. CASE outcomes[m] = "fails"
      BY <3>1, <3>3 DEF SmokeResults, SmokeVerdicts
    <3> QED BY <2>6, <3>2, <3>3
  <2>8. m \in Nat
    <3> HIDE DEF ending, m
    <3> QED BY <2>1, <2>4
  <2> QED BY <1>1, <2>7, <2>8
<1> QED BY <1>2, <1>3

\* The program counter tells which kind of run is in progress.
LEMMA RunKinds ==
    ASSUME Types
    PROVE  /\ run.pc = "idle" <=> run = NoRun
           /\ run.pc = "resolve" <=> run \in Starting
           /\ run.pc \in {"commands", "rehash", "save", "file"} <=> run \in Running
<1>1. NoRun.pc = "idle"
  BY DEF NoRun
<1>2. \A r \in Starting : r.pc = "resolve"
  BY DEF Starting
<1>3. \A r \in Running : r.pc \in {"commands", "rehash", "save", "file"}
  BY DEF Running
<1>4. run = NoRun \/ run \in Starting \/ run \in Running
  BY DEF Types
<1> QED BY <1>1, <1>2, <1>3, <1>4

\* A report that is there is one.
LEMMA ReportKinds ==
    ASSUME Types, report # NoReport
    PROVE  report \in Reports
  BY DEF Types

\* A task that waits for its approval satisfies the invariant.
LEMMA InitInductive == Init => Inductive
<1> SUFFICES ASSUME Init PROVE Inductive
  OBVIOUS
<1> USE DEF Init
<1>1. doc \in Documents
  BY GateAssumption DEF Documents
<1>0. MaxRounds \in Nat /\ MaxEdits \in Nat
  BY GateAssumption
<1>2. task \in Tasks /\ edits \in 0..MaxEdits
  <2>1. 0 \in 0..MaxRounds /\ 0 \in 0..MaxRounds + 1 /\ 0 \in 0..MaxEdits
    BY <1>0
  <2> QED BY <2>1 DEF Tasks, StagesHere
<1>3. <<>> \in Seq(Lines) /\ {} \in SUBSET Commands
  OBVIOUS
<1>4. last \in Results
  BY <1>3 DEF Results, NothingRan, Documents
<1>5. Types
  BY <1>1, <1>2, <1>4 DEF Types
<1>6. TaskInv /\ RunInv /\ ReportInv /\ ReviewedWorkRanItsPlan
  BY DEF TaskInv, RunInv, ReportInv, ReviewedWorkRanItsPlan, NoRun
<1> QED BY <1>5, <1>6 DEF Inductive

\* Entering the gate adds a round unless the task is there, and leaves room for a loop.
LEMMA Entering ==
    ASSUME Types, TaskInv
    PROVE  /\ EnterGate(task).stage = "QUALITY_GATE" /\ EnterGate(task).rounds \in Nat
           /\ EnterGate(task).rounds >= 1 /\ EnterGate(task).loops < EnterGate(task).rounds
           /\ task.rounds <= EnterGate(task).rounds
           /\ task.stage # "QUALITY_GATE" => task.rounds < EnterGate(task).rounds
           /\ (task.stage # "QUALITY_GATE" => task.rounds < MaxRounds) => EnterGate(task) \in Tasks
<1>1. /\ task \in Tasks /\ task.rounds \in 0..MaxRounds /\ task.loops \in 0..MaxRounds + 1
      /\ MaxRounds \in Nat /\ task.loops <= task.rounds
  BY GateAssumption DEF Types, Tasks, TaskInv
<1>2. CASE task.stage = "QUALITY_GATE"
  BY <1>1, <1>2 DEF EnterGate, TaskInv
<1>3. CASE task.stage # "QUALITY_GATE"
  <2>1. EnterGate(task) = [task EXCEPT !.stage = "QUALITY_GATE", !.rounds = task.rounds + 1]
    BY <1>3 DEF EnterGate
  <2>2. /\ EnterGate(task).stage = "QUALITY_GATE" /\ EnterGate(task).rounds = task.rounds + 1
        /\ EnterGate(task).loops = task.loops
    BY <1>1, <2>1 DEF Tasks
  <2>3. ASSUME NEW n \in 0..MaxRounds
        PROVE  [task EXCEPT !.stage = "QUALITY_GATE", !.rounds = n] \in Tasks
    BY <1>1 DEF Tasks, StagesHere
  <2>4. task.rounds < MaxRounds => task.rounds + 1 \in 0..MaxRounds
    BY <1>1
  <2>5. task.rounds < MaxRounds => EnterGate(task) \in Tasks
    BY <2>1, <2>3, <2>4
  <2> QED BY <1>1, <1>3, <2>2, <2>5
<1> QED BY <1>2, <1>3

\* Approval: no run is in progress, and nothing is asked of IMPLEMENT.
LEMMA ApprovePlanKeeps ==
    ASSUME Inductive, NEW d, ApprovePlan(d)
    PROVE  Inductive'
<1> USE DEF ApprovePlan
<1>1. task \in Tasks /\ run = NoRun
  BY RunKinds DEF Inductive, Types, RunInv
<1>2. task' \in Tasks /\ task'.stage = "IMPLEMENT" /\ task'.rounds = task.rounds /\ task'.loops = task.loops
  BY <1>1 DEF Tasks, StagesHere
<1>3. digest' \in Approvable \union {NoDigest}
  OBVIOUS
<1>4. Types'
  BY <1>2, <1>3 DEF Inductive, Types
<1>5. TaskInv'
  BY <1>2 DEF Inductive, TaskInv
<1>6. RunInv' /\ ReportInv' /\ ReviewedWorkRanItsPlan'
  BY <1>1, <1>2 DEF RunInv, ReportInv, ReviewedWorkRanItsPlan, NoRun
<1> QED BY <1>4, <1>5, <1>6 DEF Inductive

\* A run starts from the task it found; nothing is saved.
LEMMA StartRunKeeps ==
    ASSUME Inductive, NEW s \in Settings, StartRun(s)
    PROVE  Inductive'
<1> USE DEF StartRun
<1>1. EnterGate(task) \in Tasks
  BY Entering DEF Inductive
<1>2. run' \in {NoRun} \union Starting
  BY <1>1 DEF Starting
<1>3. Types'
  BY <1>2 DEF Inductive, Types
<1>4. TaskInv' /\ ReportInv' /\ ReviewedWorkRanItsPlan'
  BY DEF Inductive, TaskInv, ReportInv, ReviewedWorkRanItsPlan
<1>5. RunInv'
  BY DEF RunInv, NoRun
<1> QED BY <1>3, <1>4, <1>5 DEF Inductive

\* The plan is read: what is still to do holds everything it declares, and an
\* accepted plan is the approved one.
LEMMA ResolveVerificationKeeps ==
    ASSUME Inductive, ResolveVerification
    PROVE  Inductive'
<1> DEFINE targets == parseQualityGateTargets(Content(doc))
           smoke == SmokeProtocolOf(Content(doc))
           s == run.settings
           resolved == ResolveCommandPlan(s.explicit, targets.commands, s.configured, s.workspace)
           refused == PreflightFails(targets, smoke, resolved)
<1>1. doc \in Documents /\ run \in Starting
  BY RunKinds DEF ResolveVerification, Inductive, Types
<1>2. /\ s.explicit \in Seq(Commands) /\ s.configured \in Seq(Commands) /\ s.workspace \in Workspaces
      /\ s.dryRun \in BOOLEAN /\ run.task \in Tasks
  BY <1>1, GateAssumption DEF Starting
<1>3. targets.commands \in Seq(Commands) /\ smoke.checks = Checks(doc) /\ Checks(doc) \in Nat
      /\ Targets(doc) = Range(targets.commands)
  BY <1>1, Read DEF Checks, Targets
<1>4. /\ resolved.commands \in Seq(Commands) /\ resolved.source \in Sources
      /\ resolved.source # "explicit" => Targets(doc) \subseteq Range(resolved.commands)
  BY <1>2, <1>3, PlanKeepsTargets
<1>5. refused \in BOOLEAN /\ (~refused => (digest # NoDigest => doc = digest))
  <2>1. refused <=> Integrity \in {"MISMATCH", "MISSING"} \/ TargetFindings(targets) \/ resolved.unlinted \/ smoke.findings > 0
    BY DEF PreflightFails
  <2>2. refused \in BOOLEAN
    BY DEF PreflightFails
  <2>3. Integrity \notin {"MISMATCH", "MISSING"} => (digest # NoDigest => doc = digest)
    BY DEF Integrity
  <2> QED BY <2>1, <2>2, <2>3
<1> DEFINE r == [pc |-> IF refused THEN "save" ELSE "commands",
                 dryRun |-> s.dryRun, task |-> run.task, doc |-> doc,
                 todo |-> IF refused THEN <<>> ELSE resolved.commands,
                 source |-> resolved.source, passed |-> ~refused,
                 executed |-> {}, ran |-> {}, tests |-> -1,
                 smokeChecks |-> smoke.checks,
                 smoke |-> IF smoke.found THEN "FAILED" ELSE "NOT_DECLARED",
                 checked |-> 0]
<1>6. run' = r /\ UNCHANGED <<doc, digest, task, report, edits, last>> /\ run.pc = "resolve"
  BY DEF ResolveVerification
<1> HIDE DEF targets, smoke, s, resolved, refused
<1>7. r \in Running
  <2>1. <<>> \in Seq(Commands) /\ {} \in SUBSET Commands /\ -1 \in Nat \union {-1}
    OBVIOUS
  <2> QED BY <1>1, <1>2, <1>3, <1>4, <1>5, <2>1 DEF Running, SmokeResults, SmokeVerdicts
<1>8. Types'
  BY <1>6, <1>7 DEF Inductive, Types
<1>9. TaskInv' /\ ReportInv' /\ ReviewedWorkRanItsPlan'
  BY <1>6 DEF Inductive, TaskInv, ReportInv, ReviewedWorkRanItsPlan
<1>10. RunInv'
  <2>1. run.task = EnterGate(task) /\ task.stage # "PLAN"
    BY <1>6 DEF Inductive, RunInv
  <2>2. run'.passed => PassedSoFar'
    BY <1>3, <1>4, <1>5, <1>6 DEF PassedSoFar
  <2> HIDE DEF PassedSoFar
  <2> QED BY <1>3, <1>5, <1>6, <2>1, <2>2 DEF RunInv, EnterGate, Checks
<1> QED BY <1>8, <1>9, <1>10 DEF Inductive

\* A command that passed moves from what is to do to what ran, and brought a
\* measured test with it if it tests.
LEMMA RunCommandKeeps ==
    ASSUME Inductive, NEW exit, NEW m \in MetricsRead, RunCommand(exit, m)
    PROVE  Inductive'
<1> DEFINE c == Head(run.todo)
           ok == CommandPasses(c, exit, m)
           executed == run.executed \union {c}
           ran == IF ok THEN run.ran \union {c} ELSE run.ran
           tests == IF c \in TestCommands /\ m # NoMetrics THEN MeasuredPassedCount(m) ELSE run.tests
           todo == IF ok THEN Tail(run.todo) ELSE <<>>
           pc == IF ok THEN "commands" ELSE "rehash"
<1>1. /\ run' = [run EXCEPT !.executed = executed, !.ran = ran, !.tests = tests, !.passed = ok,
                            !.todo = todo, !.pc = pc]
      /\ run.pc = "commands" /\ run.todo # <<>>
      /\ UNCHANGED <<doc, digest, task, report, edits, last>>
  BY DEF RunCommand
<1>2. run \in Running
  BY <1>1, RunKinds DEF Inductive
<1>3. run.todo \in Seq(Commands) /\ run.executed \in SUBSET Commands /\ run.ran \in SUBSET Commands
      /\ run.tests \in Nat \union {-1}
  BY <1>2 DEF Running
<1>4. c \in Commands /\ Tail(run.todo) \in Seq(Commands) /\ <<>> \in Seq(Commands)
      /\ Range(run.todo) = {c} \union Range(Tail(run.todo))
  BY <1>1, <1>3, RangeOfHeadTail
<1>5. /\ m.passed \in Nat \union {-1} /\ m.failed \in Nat /\ m.skipped \in Nat
      /\ MeasuredPassedCount(m) \in Nat \union {-1}
  <2>1. m.passed \in Nat \union {-1} /\ m.failed \in Nat /\ m.skipped \in Nat
    BY GateAssumption
  <2> QED BY <2>1 DEF MeasuredPassedCount, Total
<1>6. ok \in BOOLEAN /\ (ok /\ c \in TestCommands => tests > 0)
  <2>1. ok \in BOOLEAN
    BY DEF CommandPasses
  <2>2. ASSUME ok, c \in TestCommands PROVE tests > 0
    <3>1. m # NoMetrics /\ m.failed = 0 /\ Total(m) > 0
      BY <2>2 DEF CommandPasses
    <3>2. tests = MeasuredPassedCount(m)
      BY <2>2, <3>1
    <3>3. MeasuredPassedCount(m) > 0
      BY <1>5, <3>1 DEF MeasuredPassedCount, Total
    <3> QED BY <3>2, <3>3
  <2> QED BY <2>1, <2>2
<1>7. c \notin TestCommands => tests = run.tests
  OBVIOUS
<1>8. ok => ran = run.ran \union {c} /\ todo = Tail(run.todo) /\ pc = "commands"
  OBVIOUS
<1>9. ~ok => ran = run.ran /\ todo = <<>> /\ pc = "rehash"
  OBVIOUS
<1>10. /\ executed \in SUBSET Commands /\ ran \in SUBSET Commands /\ tests \in Nat \union {-1}
       /\ todo \in Seq(Commands) /\ pc \in {"commands", "rehash", "save", "file"}
  BY <1>3, <1>4, <1>5
<1>11. /\ run.passed /\ PassedSoFar /\ run.checked = 0 /\ run.smoke \in {"FAILED", "NOT_DECLARED"}
       /\ run.task = EnterGate(task) /\ run.smokeChecks = Checks(run.doc) /\ task.stage # "PLAN"
  BY <1>1 DEF Inductive, RunInv
<1> HIDE DEF c, ok, executed, ran, tests, todo, pc
<1>12. run' \in Running
  BY <1>1, <1>2, <1>6, <1>10 DEF Running
<1>13. /\ run'.executed = executed /\ run'.ran = ran /\ run'.tests = tests /\ run'.passed = ok
       /\ run'.todo = todo /\ run'.pc = pc /\ run'.doc = run.doc /\ run'.source = run.source
       /\ run'.task = run.task /\ run'.smokeChecks = run.smokeChecks /\ run'.checked = run.checked
       /\ run'.smoke = run.smoke
  BY <1>1, <1>2 DEF Running
<1>14. Types'
  BY <1>1, <1>12 DEF Inductive, Types
<1>15. TaskInv' /\ ReportInv' /\ ReviewedWorkRanItsPlan'
  BY <1>1 DEF Inductive, TaskInv, ReportInv, ReviewedWorkRanItsPlan
<1>16. ok => PassedSoFar'
  <2> SUFFICES ASSUME ok PROVE PassedSoFar'
    OBVIOUS
  <2>1. run'.executed = run'.ran
    BY <1>8, <1>11, <1>13 DEF PassedSoFar, executed
  <2>2. run'.ran \intersect TestCommands # {} => run'.tests > 0
    BY <1>6, <1>7, <1>8, <1>11, <1>13 DEF PassedSoFar
  <2>3. run'.source # "explicit" => Targets(run'.doc) \subseteq run'.ran \union Range(run'.todo)
    BY <1>4, <1>8, <1>11, <1>13 DEF PassedSoFar
  <2>4. digest' # NoDigest => run'.doc = digest'
    BY <1>1, <1>11, <1>13 DEF PassedSoFar
  <2> QED BY <2>1, <2>2, <2>3, <2>4 DEF PassedSoFar
<1>17. RunInv'
  <2>1. EnterGate(task)' = EnterGate(task) /\ Checks(run.doc)' = Checks(run'.doc)
    BY <1>1 DEF EnterGate, Checks
  <2> HIDE DEF PassedSoFar
  <2>2. CASE ok
    BY <1>1, <1>8, <1>11, <1>13, <1>16, <2>1, <2>2 DEF RunInv
  <2>3. CASE ~ok
    BY <1>1, <1>9, <1>11, <1>13, <2>1, <2>3 DEF RunInv
  <2> QED BY <2>2, <2>3
<1> QED BY <1>14, <1>15, <1>17 DEF Inductive

\* The script passed only when its last check was started.
LEMMA RunSmokeProtocolKeeps ==
    ASSUME Inductive, NEW o \in Outcomes, NEW marker \in BOOLEAN, RunSmokeProtocol(o, marker)
    PROVE  Inductive'
<1>1. /\ run.pc = "commands" /\ run.todo = <<>> /\ UNCHANGED <<doc, digest, task, report, edits, last>>
      /\ o \in [1..run.smokeChecks -> CheckOutcomes]
  BY DEF RunSmokeProtocol, Outcomes
<1>2. run \in Running
  BY <1>1, RunKinds DEF Inductive
<1>3. /\ run.passed /\ PassedSoFar /\ run.checked = 0 /\ run.smoke \in {"FAILED", "NOT_DECLARED"}
      /\ run.task = EnterGate(task) /\ run.smokeChecks = Checks(run.doc) /\ task.stage # "PLAN"
  BY <1>1 DEF Inductive, RunInv
<1>4. run.smokeChecks \in Nat
  BY <1>2 DEF Running
<1> DEFINE smoke == IF run.smokeChecks = 0 THEN run.smoke ELSE SmokeStatus(o, marker)
           checked == IF run.smokeChecks = 0 THEN run.checked ELSE ChecksStarted(o)
           passed == IF run.smokeChecks = 0 THEN run.passed ELSE SmokeStatus(o, marker) = "PASSED"
<1>5. /\ run' = [run EXCEPT !.smoke = smoke, !.checked = checked, !.passed = passed, !.pc = "rehash"]
      /\ smoke \in SmokeResults /\ checked \in Nat /\ passed \in BOOLEAN
      /\ passed => checked = run.smokeChecks /\ (run.smokeChecks > 0 => smoke = "PASSED")
  <2>1. CASE run.smokeChecks = 0
    <3>1. run' = [run EXCEPT !.pc = "rehash"]
      BY <2>1 DEF RunSmokeProtocol
    <3>2. run' = [run EXCEPT !.smoke = run.smoke, !.checked = run.checked, !.passed = run.passed, !.pc = "rehash"]
      BY <1>2, <3>1 DEF Running
    <3> QED BY <1>2, <1>3, <2>1, <3>2 DEF Running
  <2>2. CASE run.smokeChecks > 0
    <3>1. /\ ChecksStarted(o) \in Nat /\ SmokeStatus(o, marker) \in SmokeResults
          /\ SmokeStatus(o, marker) = "PASSED" => ChecksStarted(o) = run.smokeChecks
      BY <1>1, <1>4, <2>2, SmokeRan
    <3>2. run' = [run EXCEPT !.smoke = SmokeStatus(o, marker), !.checked = ChecksStarted(o),
                             !.passed = SmokeStatus(o, marker) = "PASSED", !.pc = "rehash"]
      BY <2>2 DEF RunSmokeProtocol
    <3>3. smoke = SmokeStatus(o, marker) /\ checked = ChecksStarted(o)
          /\ passed = (SmokeStatus(o, marker) = "PASSED")
      BY <2>2
    <3> HIDE DEF smoke, checked, passed
    <3> QED BY <3>1, <3>2, <3>3
  <2> QED BY <1>4, <2>1, <2>2
<1> HIDE DEF smoke, checked, passed
<1>6. run' \in Running
  BY <1>2, <1>5 DEF Running
<1>7. /\ run'.executed = run.executed /\ run'.ran = run.ran /\ run'.tests = run.tests
      /\ run'.passed = passed /\ run'.todo = run.todo /\ run'.pc = "rehash" /\ run'.doc = run.doc
      /\ run'.source = run.source /\ run'.task = run.task /\ run'.smokeChecks = run.smokeChecks
      /\ run'.checked = checked /\ run'.smoke = smoke
  BY <1>2, <1>5 DEF Running
<1>8. Types'
  BY <1>1, <1>6 DEF Inductive, Types
<1>9. TaskInv' /\ ReportInv' /\ ReviewedWorkRanItsPlan'
  BY <1>1 DEF Inductive, TaskInv, ReportInv, ReviewedWorkRanItsPlan
<1>10. PassedSoFar'
  BY <1>1, <1>3, <1>7 DEF PassedSoFar
<1>11. RunInv'
  <2>1. EnterGate(task)' = EnterGate(task)
    BY <1>1 DEF EnterGate
  <2> HIDE DEF PassedSoFar
  <2> QED BY <1>1, <1>3, <1>5, <1>7, <1>10, <2>1 DEF RunInv
<1> QED BY <1>8, <1>9, <1>11 DEF Inductive

\* The second look at the plan may fail the run and lets nothing pass.
LEMMA RehashPlanKeeps ==
    ASSUME Inductive, RehashPlan
    PROVE  Inductive'
<1>1. /\ run.pc = "rehash" /\ UNCHANGED <<doc, digest, task, report, edits, last>>
  BY DEF RehashPlan
<1>2. run \in Running
  BY <1>1, RunKinds DEF Inductive
<1>3. PICK passed \in BOOLEAN : /\ run' = [run EXCEPT !.pc = "save", !.passed = passed]
                                /\ passed => run.passed
  <2>1. run.passed \in BOOLEAN
    BY <1>2 DEF Running
  <2> QED BY <2>1 DEF RehashPlan
<1>4. run' \in Running
  BY <1>2, <1>3 DEF Running
<1>5. /\ run'.executed = run.executed /\ run'.ran = run.ran /\ run'.tests = run.tests
      /\ run'.passed = passed /\ run'.todo = run.todo /\ run'.pc = "save" /\ run'.doc = run.doc
      /\ run'.source = run.source /\ run'.task = run.task /\ run'.smokeChecks = run.smokeChecks
      /\ run'.checked = run.checked /\ run'.smoke = run.smoke
  BY <1>2, <1>3 DEF Running
<1>6. Types'
  BY <1>1, <1>4 DEF Inductive, Types
<1>7. TaskInv' /\ ReportInv' /\ ReviewedWorkRanItsPlan'
  BY <1>1 DEF Inductive, TaskInv, ReportInv, ReviewedWorkRanItsPlan
<1>8. PassedSoFar => PassedSoFar'
  BY <1>1, <1>5 DEF PassedSoFar
<1>9. RunInv'
  <2>1. EnterGate(task)' = EnterGate(task)
    BY <1>1 DEF EnterGate
  <2> HIDE DEF PassedSoFar
  <2> QED BY <1>1, <1>3, <1>5, <1>8, <2>1 DEF Inductive, RunInv
<1> QED BY <1>6, <1>7, <1>9 DEF Inductive

\* A run that dies leaves what was saved.
LEMMA CrashKeeps ==
    ASSUME Inductive, Crash
    PROVE  Inductive'
<1> USE DEF Crash
<1>1. Types'
  BY DEF Inductive, Types
<1>2. TaskInv' /\ ReportInv' /\ ReviewedWorkRanItsPlan'
  BY DEF Inductive, TaskInv, ReportInv, ReviewedWorkRanItsPlan
<1>3. RunInv'
  BY DEF RunInv, NoRun
<1> QED BY <1>1, <1>2, <1>3 DEF Inductive

\* The verdict moves the task; the work of a passed run did what its plan declares.
LEMMA SaveVerdictKeeps ==
    ASSUME Inductive, SaveVerdict
    PROVE  Inductive'
<1>1. run.pc = "save" /\ run \in Running
  BY RunKinds DEF SaveVerdict, Inductive
<1>2. CASE run.dryRun
  <2>1. run' = NoRun /\ UNCHANGED <<doc, digest, task, report, edits, last>>
    BY <1>2 DEF SaveVerdict
  <2>2. Types'
    BY <2>1 DEF Inductive, Types
  <2>3. TaskInv' /\ ReportInv' /\ ReviewedWorkRanItsPlan'
    BY <2>1 DEF Inductive, TaskInv, ReportInv, ReviewedWorkRanItsPlan
  <2>4. RunInv'
    BY <2>1 DEF RunInv, NoRun
  <2> QED BY <2>2, <2>3, <2>4 DEF Inductive
<1>3. CASE ~run.dryRun
  <2>1. /\ task' = IF run.passed THEN [run.task EXCEPT !.stage = "REVIEW", !.loops = 0]
                   ELSE [run.task EXCEPT !.stage = "IMPLEMENT", !.loops = @ + 1]
        /\ run' = [run EXCEPT !.pc = "file"]
        /\ last' = [ran |-> run.ran, checked |-> run.checked, source |-> run.source,
                     doc |-> run.doc, filed |-> FALSE]
        /\ UNCHANGED <<doc, digest, report, edits>>
    BY <1>3 DEF SaveVerdict
  <2>2. /\ run.task \in Tasks /\ run.task.rounds >= 1 /\ run.task.loops < run.task.rounds
        /\ task.rounds <= run.task.rounds /\ run.task.rounds \in 0..MaxRounds
        /\ run.task.loops \in 0..MaxRounds + 1 /\ MaxRounds \in Nat /\ task.rounds \in Nat
    <3>1. run.task = EnterGate(task)
      BY <1>1 DEF Inductive, RunInv
    <3>2. run.task \in Tasks
      BY <1>1 DEF Running
    <3>3. task \in Tasks /\ MaxRounds \in Nat
      BY GateAssumption DEF Inductive, Types
    <3>4. task.rounds \in Nat
      BY <3>3 DEF Tasks
    <3>5. run.task.rounds \in 0..MaxRounds /\ run.task.loops \in 0..MaxRounds + 1
      BY <3>2 DEF Tasks
    <3>6. /\ run.task.rounds >= 1 /\ run.task.loops < run.task.rounds
          /\ task.rounds <= run.task.rounds
      BY <3>1, Entering DEF Inductive
    <3> QED BY <3>2, <3>3, <3>4, <3>5, <3>6
  <2>3. task' \in Tasks /\ task'.rounds = run.task.rounds /\ task'.loops <= task'.rounds
        /\ task'.stage = IF run.passed THEN "REVIEW" ELSE "IMPLEMENT"
    <3>1. CASE run.passed
      <4>1. 0 \in 0..MaxRounds + 1
        BY <2>2
      <4>2. ASSUME NEW n \in 0..MaxRounds + 1
            PROVE  /\ [run.task EXCEPT !.stage = "REVIEW", !.loops = n] \in Tasks
                   /\ [run.task EXCEPT !.stage = "REVIEW", !.loops = n].rounds = run.task.rounds
                   /\ [run.task EXCEPT !.stage = "REVIEW", !.loops = n].stage = "REVIEW"
                   /\ [run.task EXCEPT !.stage = "REVIEW", !.loops = n].loops = n
        BY <2>2 DEF Tasks, StagesHere
      <4>3. task' = [run.task EXCEPT !.stage = "REVIEW", !.loops = 0]
        BY <2>1, <3>1
      <4>4. task' \in Tasks /\ task'.rounds = run.task.rounds /\ task'.stage = "REVIEW" /\ task'.loops = 0
        BY <4>1, <4>2, <4>3
      <4> QED BY <2>2, <3>1, <4>4
    <3>2. CASE ~run.passed
      <4>1. task' = [run.task EXCEPT !.stage = "IMPLEMENT", !.loops = run.task.loops + 1]
        BY <2>1, <3>2
      <4>2. run.task.loops + 1 \in 0..MaxRounds + 1 /\ run.task.loops + 1 <= run.task.rounds
        BY <2>2
      <4>3. ASSUME NEW n \in 0..MaxRounds + 1
            PROVE  /\ [run.task EXCEPT !.stage = "IMPLEMENT", !.loops = n] \in Tasks
                   /\ [run.task EXCEPT !.stage = "IMPLEMENT", !.loops = n].rounds = run.task.rounds
                   /\ [run.task EXCEPT !.stage = "IMPLEMENT", !.loops = n].stage = "IMPLEMENT"
                   /\ [run.task EXCEPT !.stage = "IMPLEMENT", !.loops = n].loops = n
        BY <2>2 DEF Tasks, StagesHere
      <4> QED BY <3>2, <4>1, <4>2, <4>3
    <3> QED BY <3>1, <3>2
  <2>4. /\ run' \in Running /\ run'.pc = "file" /\ run'.task = run.task
        /\ run'.executed = run.executed /\ run'.ran = run.ran /\ run'.tests = run.tests
        /\ run'.passed = run.passed /\ run'.todo = run.todo /\ run'.doc = run.doc
        /\ run'.source = run.source /\ run'.smokeChecks = run.smokeChecks
        /\ run'.checked = run.checked /\ run'.smoke = run.smoke
    BY <1>1, <2>1 DEF Running
  <2>5. last' \in Results
    BY <1>1, <2>1 DEF Running, Results
  <2>6. Types'
    BY <2>1, <2>3, <2>4, <2>5 DEF Inductive, Types
  <2>7. TaskInv'
    <3>1. report # NoReport => report \in Reports /\ report.round \in Nat /\ report.round <= task.rounds
      <4>1. ASSUME report # NoReport PROVE report \in Reports /\ report.round \in 1..MaxRounds
        BY <4>1, ReportKinds DEF Inductive, Reports
      <4> QED BY <2>2, <4>1 DEF Inductive, TaskInv
    <3> QED BY <2>1, <2>2, <2>3, <3>1 DEF TaskInv
  <2>8. run.smokeChecks = Checks(run.doc) /\ (run.passed => PassedSoFar)
        /\ (run.passed => run.todo = <<>> /\ run.checked = run.smokeChecks
                          /\ (run.smokeChecks > 0 => run.smoke = "PASSED"))
    BY <1>1 DEF Inductive, RunInv
  <2>9. PassedSoFar => PassedSoFar'
    BY <2>1, <2>4 DEF PassedSoFar
  <2>10. RunInv'
    <3> HIDE DEF PassedSoFar
    <3> QED BY <2>1, <2>2, <2>3, <2>4, <2>8, <2>9 DEF RunInv
  <2>11. ReportInv'
    BY <2>1, <2>3 DEF ReportInv
  <2>12. ReviewedWorkRanItsPlan'
    <3> SUFFICES ASSUME run.passed, run.source # "explicit"
                 PROVE  /\ Targets(run.doc) \subseteq run.ran
                        /\ run.checked >= Checks(run.doc)
                        /\ digest # NoDigest => run.doc = digest
      <4>1. /\ last'.source = run.source /\ last'.doc = run.doc /\ last'.ran = run.ran
            /\ last'.checked = run.checked /\ (task'.stage = "REVIEW" => run.passed) /\ digest' = digest
        BY <2>1, <2>3
      <4> QED BY <4>1 DEF ReviewedWorkRanItsPlan, Targets, Checks
    <3>1. Range(run.todo) = {}
      BY <2>8, RangeOfNothing
    <3>2. run.checked = Checks(run.doc) /\ run.checked \in Nat
      BY <1>1, <2>8 DEF Running
    <3> QED BY <2>8, <3>1, <3>2 DEF PassedSoFar
  <2> QED BY <2>6, <2>7, <2>10, <2>11, <2>12 DEF Inductive
<1> QED BY <1>2, <1>3

\* The evidence of a passed run covers the plan that was run.
LEMMA FileEvidenceKeeps ==
    ASSUME Inductive, NEW written \in BOOLEAN, FileEvidence(written)
    PROVE  Inductive'
<1>1. /\ run.pc = "file" /\ run \in Running /\ run' = NoRun
      /\ report' = IF written THEN Evidence ELSE report
      /\ last' = [last EXCEPT !.filed = written]
      /\ UNCHANGED <<doc, digest, task, edits>>
  BY RunKinds DEF FileEvidence, Inductive
<1>2. /\ task = IF run.passed THEN [run.task EXCEPT !.stage = "REVIEW", !.loops = 0]
                 ELSE [run.task EXCEPT !.stage = "IMPLEMENT", !.loops = @ + 1]
      /\ run.task.rounds >= 1
      /\ last = [ran |-> run.ran, checked |-> run.checked, source |-> run.source,
                  doc |-> run.doc, filed |-> FALSE]
      /\ run.smokeChecks = Checks(run.doc) /\ (run.passed => PassedSoFar)
      /\ run.passed => /\ run.todo = <<>> /\ run.checked = run.smokeChecks
                       /\ run.smokeChecks > 0 => run.smoke = "PASSED"
  BY <1>1 DEF Inductive, RunInv
<1>3. run.task \in Tasks /\ run.task.rounds \in 1..MaxRounds /\ MaxRounds \in Nat
  <2>1. run.task \in Tasks
    BY <1>1 DEF Running
  <2>2. MaxRounds \in Nat
    BY GateAssumption
  <2>3. run.task.rounds \in 0..MaxRounds
    BY <2>1 DEF Tasks
  <2> QED BY <1>2, <2>1, <2>2, <2>3
<1>4. task.rounds = run.task.rounds /\ task.stage = IF run.passed THEN "REVIEW" ELSE "IMPLEMENT"
  BY <1>2, <1>3 DEF Tasks
<1>5. Round(run.task) = run.task.rounds /\ Round(task) = task.rounds
  BY <1>3, <1>4 DEF Round
<1>6. Evidence \in Reports /\ Evidence # NoReport
  <2>1. /\ run.executed \in SUBSET Commands /\ run.tests \in Nat \union {-1}
        /\ run.smoke \in SmokeResults /\ run.smokeChecks \in Nat /\ run.passed \in BOOLEAN
    BY <1>1 DEF Running
  <2>2. (IF run.smoke = "PASSED" THEN 1..run.smokeChecks ELSE {}) \in SUBSET Nat
    BY <2>1
  <2>3. (IF run.smoke = "TIMED_OUT" THEN "FAILED" ELSE run.smoke) \in SmokeVerdicts
    BY <2>1 DEF SmokeResults, SmokeVerdicts
  <2>4. (IF run.passed THEN "PASSED" ELSE "FAILED") \in Verdicts
    BY DEF Verdicts
  <2>5. Evidence \in Reports
    BY <1>3, <1>5, <2>1, <2>2, <2>3, <2>4 DEF Evidence, Reports
  <2>6. Evidence.verdict \in {"PASSED", "FAILED"} /\ NoReport.verdict = "none"
    BY DEF Evidence, NoReport
  <2> QED BY <2>5, <2>6
<1>7. Evidence.round = Round(task)
  BY <1>4, <1>5 DEF Evidence
<1>8. last \in Results /\ last' \in Results /\ last'.source = run.source /\ last'.doc = run.doc
      /\ last'.ran = run.ran /\ last'.checked = run.checked /\ last'.filed = written
      /\ last.source = run.source /\ last.doc = run.doc /\ last.ran = run.ran /\ last.checked = run.checked
  BY <1>1, <1>2 DEF Inductive, Types, Results
<1>9. Types'
  BY <1>1, <1>6, <1>8 DEF Inductive, Types
<1>10. TaskInv'
  BY <1>1, <1>3, <1>4, <1>5, <1>7 DEF Inductive, TaskInv
<1>11. RunInv'
  BY <1>1 DEF RunInv, NoRun
<1>12. ReportInv'
  <2> SUFFICES ASSUME run.passed, written, run.source # "explicit"
               PROVE  /\ digest # NoDigest => run.doc = digest
                      /\ Covers(Evidence, Content(run.doc))
    <3>1. task'.stage # "QUALITY_GATE" /\ (task'.stage = "REVIEW" <=> run.passed)
      BY <1>1, <1>4
    <3>2. Round(task)' = Round(task)
      BY <1>1 DEF Round
    <3> HIDE DEF Evidence, Covers
    <3> QED BY <1>1, <1>7, <1>8, <3>1, <3>2 DEF ReportInv
  <2>1. PassedSoFar /\ Range(run.todo) = {}
    BY <1>2, RangeOfNothing
  <2>2. digest # NoDigest => run.doc = digest
    BY <2>1 DEF PassedSoFar
  <2>3. TargetsCovered(parseQualityGateTargets(Content(run.doc)), Evidence)
    <3>1. Targets(run.doc) \subseteq run.executed
      BY <2>1 DEF PassedSoFar
    <3> QED BY <3>1 DEF TargetsCovered, Evidence, Targets
  <2>4. SmokeCovered(SmokeProtocolOf(Content(run.doc)), Evidence)
    <3>1. SmokeProtocolOf(Content(run.doc)).checks = run.smokeChecks
      BY <1>2 DEF Checks
    <3>2. run.smokeChecks > 0 => Evidence.smoke = "PASSED" /\ Evidence.checks = 1..run.smokeChecks
      BY <1>2 DEF Evidence
    <3> HIDE DEF Evidence
    <3> QED BY <3>1, <3>2 DEF SmokeCovered
  <2>5. TestsMeasured(Evidence)
    BY <2>1 DEF PassedSoFar, TestsMeasured, Evidence
  <2> QED BY <2>2, <2>3, <2>4, <2>5 DEF Covers
<1>13. ReviewedWorkRanItsPlan'
  BY <1>1, <1>8 DEF Inductive, ReviewedWorkRanItsPlan
<1> QED BY <1>9, <1>10, <1>11, <1>12, <1>13 DEF Inductive

\* A new gate entry: no report that may be left is of its round.
LEMMA DispatchGateKeeps ==
    ASSUME Inductive, NEW removed \in BOOLEAN, DispatchGate(removed)
    PROVE  Inductive'
<1>1. /\ run = NoRun /\ run' = NoRun /\ task.stage = "IMPLEMENT" /\ task.rounds < MaxRounds
      /\ report' \in {NoReport, report} /\ task' = EnterGate(task) /\ last' = NothingRan
      /\ UNCHANGED <<doc, digest, edits>>
  BY RunKinds DEF DispatchGate, Inductive, Clear
<1>2. /\ task' \in Tasks /\ task'.stage = "QUALITY_GATE" /\ task'.rounds \in Nat
      /\ task'.rounds >= 1 /\ task'.loops < task'.rounds /\ task.rounds < task'.rounds
  BY <1>1, Entering DEF Inductive
<1>3. task.rounds \in Nat /\ task'.loops \in Nat
  <2>1. task \in Tasks /\ MaxRounds \in Nat
    BY GateAssumption DEF Inductive, Types
  <2>2. task.rounds \in 0..MaxRounds /\ task'.loops \in 0..MaxRounds + 1
    BY <1>2, <2>1 DEF Tasks
  <2> QED BY <2>1, <2>2
<1>4. last' \in Results
  <2>1. <<>> \in Documents /\ {} \in SUBSET Commands
    BY DEF Documents
  <2> QED BY <1>1, <2>1 DEF Results, NothingRan
<1>5. Types'
  BY <1>1, <1>2, <1>4 DEF Inductive, Types
<1>6. report' # NoReport => report \in Reports /\ report' = report /\ report.round <= task.rounds /\ report.round \in Nat
  <2>1. report' # NoReport => report' = report /\ report \in Reports
    BY <1>1, ReportKinds DEF Inductive
  <2>2. ASSUME NEW r \in Reports PROVE r.round \in Nat
    <3>1. r.round \in 1..MaxRounds /\ MaxRounds \in Nat
      BY GateAssumption DEF Reports
    <3> QED BY <3>1
  <2> QED BY <2>1, <2>2 DEF Inductive, TaskInv
<1>7. TaskInv'
  BY <1>2, <1>3, <1>6 DEF TaskInv
<1>8. RunInv'
  BY <1>1 DEF RunInv, NoRun
<1>9. ReportInv'
  BY <1>2, <1>3, <1>6 DEF ReportInv, Round
<1>10. ReviewedWorkRanItsPlan'
  BY <1>2 DEF ReviewedWorkRanItsPlan
<1> QED BY <1>5, <1>7, <1>8, <1>9, <1>10 DEF Inductive

\* A sub-agent's report is of this entry and about the work it was filed for.
LEMMA FileReportKeeps ==
    ASSUME Inductive, NEW ran \in SUBSET Targets(doc), NEW checks \in 0..Checks(doc),
           NEW verdict \in Verdicts, FileReport(ran, checks, verdict)
    PROVE  Inductive'
<1> DEFINE r == SubAgentReport(ran, checks, verdict)
<1>1. /\ run = NoRun /\ run' = NoRun /\ task.stage = "QUALITY_GATE" /\ report' = r
      /\ last' = [ran |-> ran, checked |-> checks, source |-> "report", doc |-> doc, filed |-> TRUE]
      /\ UNCHANGED <<doc, digest, task, edits>>
  BY RunKinds DEF FileReport, Inductive
<1>2. doc \in Documents /\ task \in Tasks
  BY DEF Inductive, Types
<1>3. ran \in SUBSET Commands /\ checks \in Nat
  BY <1>2, Read
<1>4. task.rounds \in 1..MaxRounds /\ Round(task) = task.rounds
  <2>1. task.rounds \in 0..MaxRounds /\ task.rounds >= 1 /\ MaxRounds \in Nat
    BY <1>1, <1>2, GateAssumption DEF Inductive, TaskInv, Tasks
  <2> QED BY <2>1 DEF Round
<1>5. r \in Reports /\ r # NoReport /\ r.commands = ran /\ r.checks = 1..checks /\ r.round = task.rounds
  <2>1. 1..checks \in SUBSET Nat /\ -1 \in Nat \union {-1} /\ 1 \in Nat \union {-1}
    BY <1>3
  <2>2. r \in Reports
    BY <1>3, <1>4, <2>1 DEF SubAgentReport, Reports, SmokeVerdicts
  <2>3. r.verdict \in Verdicts /\ NoReport.verdict \notin Verdicts
    BY DEF SubAgentReport, NoReport, Verdicts
  <2> QED BY <1>4, <2>2, <2>3 DEF SubAgentReport
<1> HIDE DEF r
<1>6. last' \in Results
  BY <1>1, <1>2, <1>3 DEF Results
<1>7. Types'
  BY <1>1, <1>5, <1>6 DEF Inductive, Types
<1>8. TaskInv'
  BY <1>1, <1>4, <1>5 DEF Inductive, TaskInv
<1>9. RunInv'
  BY <1>1 DEF RunInv, NoRun
<1>10. ReportInv'
  BY <1>1, <1>5 DEF ReportInv
<1>11. ReviewedWorkRanItsPlan'
  BY <1>1 DEF ReviewedWorkRanItsPlan
<1> QED BY <1>7, <1>8, <1>9, <1>10, <1>11 DEF Inductive

\* Certified work did what the plan certified against declares.
LEMMA EnterReviewKeeps ==
    ASSUME Inductive, NEW removed \in BOOLEAN, EnterReview(removed)
    PROVE  Inductive'
<1>1. /\ run = NoRun /\ run' = NoRun /\ task.stage = "QUALITY_GATE" /\ CertifyReviewExit(report, task)
      /\ task' = [task EXCEPT !.stage = "REVIEW"] /\ report' \in {NoReport, report}
      /\ last' = [last EXCEPT !.doc = doc, !.source =
                      IF report.verdict = "PASSED" THEN last.source ELSE "failed report"]
      /\ UNCHANGED <<doc, digest, edits>>
  BY RunKinds DEF EnterReview, Inductive, Clear
<1>2. doc \in Documents /\ task \in Tasks /\ last \in Results
  BY DEF Inductive, Types
<1>3. /\ report \in Reports /\ report # NoReport /\ report.round = Round(task)
      /\ digest # NoDigest => doc = digest
      /\ Covers(report, Content(doc))
  BY <1>1, ReportKinds DEF CertifyReviewExit, Inductive
<1>4. last.ran = report.commands /\ report.checks = 1..last.checked /\ last.source = "report" /\ last.filed
  BY <1>1, <1>3 DEF Inductive, ReportInv
<1>5. /\ task' \in Tasks /\ task'.stage = "REVIEW" /\ task'.rounds = task.rounds /\ task'.loops = task.loops
      /\ Round(task') = Round(task)
  BY <1>1, <1>2 DEF Tasks, StagesHere, Round
<1>6. /\ last' \in Results /\ last'.ran = last.ran /\ last'.checked = last.checked /\ last'.doc = doc
      /\ last'.filed = last.filed
      /\ last'.source = IF report.verdict = "PASSED" THEN "report" ELSE "failed report"
  BY <1>1, <1>2, <1>4 DEF Results
<1>7. Types'
  BY <1>1, <1>3, <1>5, <1>6 DEF Inductive, Types
<1>8. TaskInv'
  BY <1>1, <1>3, <1>5 DEF Inductive, TaskInv
<1>9. RunInv'
  BY <1>1 DEF RunInv, NoRun
<1>10. ReportInv'
  <2>1. Round(task)' = Round(task)
    BY <1>5
  <2> HIDE DEF Covers
  <2> QED BY <1>1, <1>3, <1>5, <1>6, <2>1 DEF ReportInv
<1>11. ReviewedWorkRanItsPlan'
  <2> SUFFICES ASSUME report.verdict = "PASSED"
               PROVE  Targets(doc) \subseteq last.ran /\ last.checked >= Checks(doc)
    BY <1>1, <1>3, <1>6 DEF ReviewedWorkRanItsPlan, Targets, Checks
  <2>1. /\ TargetsCovered(parseQualityGateTargets(Content(doc)), report)
        /\ SmokeCovered(SmokeProtocolOf(Content(doc)), report)
    BY <1>3 DEF Covers
  <2>2. Targets(doc) \subseteq last.ran
    BY <1>4, <2>1 DEF TargetsCovered, Targets
  <2>3. last.checked \in Nat /\ Checks(doc) \in Nat
    BY <1>2, Read DEF Results
  <2>4. CASE Checks(doc) = 0
    BY <2>2, <2>3, <2>4
  <2>5. CASE Checks(doc) > 0
    <3>1. 1..last.checked = 1..Checks(doc)
      BY <1>2, <1>4, <2>1, <2>5, Read DEF SmokeCovered, Checks
    <3>2. Checks(doc) \in 1..Checks(doc)
      BY <2>3, <2>5
    <3>3. Checks(doc) \in 1..last.checked
      BY <3>1, <3>2
    <3> QED BY <2>2, <2>3, <3>3
  <2> QED BY <2>3, <2>4, <2>5
<1> QED BY <1>7, <1>8, <1>9, <1>10, <1>11 DEF Inductive

\* Leaving the gate or the review asks nothing of what follows.
LEMMA LeaveReviewKeeps ==
    ASSUME Inductive, NEW to \in {"IMPLEMENT", "COMMIT", "COMPLETED"}, NEW removed \in BOOLEAN,
           LeaveReview(to, removed)
    PROVE  Inductive'
<1>1. /\ run = NoRun /\ run' = NoRun /\ task' = [task EXCEPT !.stage = to]
      /\ report' \in {NoReport, report}
      /\ last' = IF to = "IMPLEMENT" THEN NothingRan ELSE last
      /\ to # "IMPLEMENT" => task.stage \in {"REVIEW", "COMMIT"}
      /\ UNCHANGED <<doc, digest, edits>>
  BY RunKinds DEF LeaveReview, Inductive, Clear
<1>2. task \in Tasks /\ last \in Results
  BY DEF Inductive, Types
<1>3. task' \in Tasks /\ task'.stage = to /\ task'.rounds = task.rounds /\ task'.loops = task.loops
  BY <1>1, <1>2 DEF Tasks, StagesHere
<1>4. last' \in Results
  <2>1. <<>> \in Documents /\ {} \in SUBSET Commands
    BY DEF Documents
  <2>2. NothingRan \in Results
    BY <2>1 DEF Results, NothingRan
  <2> QED BY <1>1, <1>2, <2>2
<1>5. Types'
  BY <1>1, <1>3, <1>4 DEF Inductive, Types
<1>6. TaskInv'
  BY <1>1, <1>3 DEF Inductive, TaskInv
<1>7. RunInv' /\ ReportInv' /\ ReviewedWorkRanItsPlan'
  BY <1>1, <1>3 DEF RunInv, NoRun, ReportInv, ReviewedWorkRanItsPlan
<1> QED BY <1>5, <1>6, <1>7 DEF Inductive

\* An edit of the plan changes nothing that was recorded of a run.
LEMMA EditPlanKeeps ==
    ASSUME Inductive, NEW d \in Edited, EditPlan(d)
    PROVE  Inductive'
<1> USE DEF EditPlan
<1>1. d \in Documents
  <2>1. "go vet" \in Lines /\ "refused" \in Lines
    BY CommandsAssumption DEF Lines, Words
  <2>2. Content(doc) \in Seq(Lines)
    BY Read DEF Inductive, Types
  <2>3. \A ln \in Lines : Append(Content(doc), ln) \in Seq(Lines)
    BY <2>2
  <2>4. digest # NoDigest => digest \in Seq(Lines)
    BY GateAssumption DEF Inductive, Types
  <2> QED BY <2>1, <2>3, <2>4 DEF Edited, Documents
<1>2. edits' \in 0..MaxEdits
  <2>1. MaxEdits \in Nat /\ edits \in 0..MaxEdits
    BY GateAssumption DEF Inductive, Types
  <2> QED BY <2>1
<1>3. Types'
  BY <1>1, <1>2 DEF Inductive, Types
<1>4. TaskInv' /\ ReportInv' /\ ReviewedWorkRanItsPlan'
  BY DEF Inductive, TaskInv, ReportInv, ReviewedWorkRanItsPlan
<1>5. RunInv'
  <2>1. EnterGate(task)' = EnterGate(task)
    BY DEF EnterGate
  <2>2. PassedSoFar' <=> PassedSoFar
    BY DEF PassedSoFar
  <2> HIDE DEF PassedSoFar
  <2> QED BY <2>1, <2>2 DEF Inductive, RunInv
<1> QED BY <1>3, <1>4, <1>5 DEF Inductive

\* Every step keeps the invariant.
LEMMA NextInductive == Inductive /\ [Next]_vars => Inductive'
<1> SUFFICES ASSUME Inductive, [Next]_vars PROVE Inductive'
  OBVIOUS
<1>1. ASSUME NEW d \in {doc, NoDigest}, ApprovePlan(d) PROVE Inductive'
  BY <1>1, ApprovePlanKeeps
<1>2. ASSUME NEW s \in Settings, StartRun(s) PROVE Inductive'
  BY <1>2, StartRunKeeps
<1>3. CASE ResolveVerification
  BY <1>3, ResolveVerificationKeeps
<1>4. ASSUME NEW exit \in {"ok", "failed", "timed out"}, NEW m \in MetricsRead, RunCommand(exit, m)
      PROVE  Inductive'
  BY <1>4, RunCommandKeeps
<1>5. ASSUME NEW o \in Outcomes, NEW marker \in BOOLEAN, RunSmokeProtocol(o, marker) PROVE Inductive'
  BY <1>5, RunSmokeProtocolKeeps
<1>6. CASE RehashPlan
  BY <1>6, RehashPlanKeeps
<1>7. CASE SaveVerdict
  BY <1>7, SaveVerdictKeeps
<1>8. ASSUME NEW written \in BOOLEAN, FileEvidence(written) PROVE Inductive'
  BY <1>8, FileEvidenceKeeps
<1>9. CASE Crash
  BY <1>9, CrashKeeps
<1>10. ASSUME NEW removed \in BOOLEAN, DispatchGate(removed) PROVE Inductive'
  BY <1>10, DispatchGateKeeps
<1>11. ASSUME NEW ran \in SUBSET Range(parseQualityGateTargets(Content(doc)).commands),
              NEW checks \in 0..SmokeProtocolOf(Content(doc)).checks,
              NEW v \in {"PASSED", "FAILED"}, FileReport(ran, checks, v)
       PROVE  Inductive'
  <2>1. ran \in SUBSET Targets(doc) /\ checks \in 0..Checks(doc) /\ v \in Verdicts
    BY DEF Targets, Checks, Verdicts
  <2> QED BY <1>11, <2>1, FileReportKeeps
<1>12. ASSUME NEW removed \in BOOLEAN, EnterReview(removed) PROVE Inductive'
  BY <1>12, EnterReviewKeeps
<1>13. ASSUME NEW to \in {"IMPLEMENT", "COMMIT", "COMPLETED"}, NEW removed \in BOOLEAN,
              LeaveReview(to, removed)
       PROVE  Inductive'
  BY <1>13, LeaveReviewKeeps
<1>14. ASSUME NEW d \in Edited, EditPlan(d) PROVE Inductive'
  BY <1>14, EditPlanKeeps
<1>15. CASE UNCHANGED vars
  <2> USE <1>15 DEF vars
  <2>1. Types' /\ TaskInv'
    BY DEF Inductive, Types, TaskInv
  <2>2. RunInv'
    BY DEF Inductive, RunInv, PassedSoFar, EnterGate
  <2>3. ReportInv' /\ ReviewedWorkRanItsPlan'
    BY DEF Inductive, ReportInv, ReviewedWorkRanItsPlan, Round
  <2> QED BY <2>1, <2>2, <2>3 DEF Inductive
<1> QED BY <1>1, <1>2, <1>3, <1>4, <1>5, <1>6, <1>7, <1>8, <1>9, <1>10, <1>11, <1>12, <1>13,
           <1>14, <1>15 DEF Next

\* The invariant of the gate.
LEMMA AlwaysInductive == Spec => []Inductive
<1>1. Init => Inductive
  BY InitInductive
<1>2. Inductive /\ [Next]_vars => Inductive'
  BY NextInductive
<1> QED BY <1>1, <1>2, PTL DEF Spec

\* The checkpoint, the evidence file and the run keep their types, for any
\* documents, workspaces, test summaries and outcomes, and any number of rounds.
THEOREM GateTypeCorrect == Spec => []TypeOK
<1>1. Inductive => TypeOK
  <2> SUFFICES ASSUME Inductive PROVE TypeOK
    OBVIOUS
  <2>1. /\ doc \in Seq(Lines) \union {Deleted} /\ digest \in Approvable \union {NoDigest}
        /\ task \in [stage : StagesHere, rounds : 0..MaxRounds, loops : 0..MaxRounds + 1]
        /\ edits \in 0..MaxEdits
    BY DEF Inductive, Types, Documents, Tasks
  <2>2. ASSUME report # NoReport
        PROVE  /\ report.verdict \in Verdicts /\ report.smoke \in SmokeVerdicts
               /\ report.commands \subseteq Commands /\ report.testsPassed \in Nat \union {-1}
               /\ report.round \in 1..MaxRounds
    <3>1. report \in Reports
      BY <2>2, ReportKinds DEF Inductive
    <3> QED BY <3>1 DEF Reports
  <2>3. run.pc \in {"idle", "resolve", "commands", "rehash", "save", "file"}
    <3>1. run = NoRun \/ run \in Starting \/ run \in Running
      BY DEF Inductive, Types
    <3> QED BY <3>1 DEF NoRun, Starting, Running
  <2> QED BY <2>1, <2>2, <2>3 DEF TypeOK
<1> QED BY <1>1, AlwaysInductive, PTL

\* Evidence filed by a passed run of codeloop, from whatever document, workspace
\* and configuration, is evidence the exit to REVIEW accepts (certify-review-exit.ts)
\* for the plan that was run.
THEOREM PassedRunsAreCertifiable == Spec => []PassedRunIsCertifiable
<1>1. Inductive => PassedRunIsCertifiable
  <2> SUFFICES ASSUME Inductive, task.stage = "REVIEW", report # NoReport, last.filed,
                      last.source # "explicit", doc = last.doc
               PROVE  CertifyReviewExit(report, task)
    BY DEF PassedRunIsCertifiable
  <2> HIDE DEF Covers
  <2> QED BY DEF Inductive, ReportInv, CertifyReviewExit
<1> QED BY <1>1, AlwaysInductive, PTL

\* Work in REVIEW ran every command its plan declares and started every smoke
\* check, in process (run-quality-gate.ts) or by a certified report, and that plan
\* is the approved one, however the document is edited in between.
THEOREM ReviewFollowsThePlan == Spec => []ReviewedWorkRanItsPlan
<1>1. Inductive => ReviewedWorkRanItsPlan
  BY DEF Inductive
<1> QED BY <1>1, AlwaysInductive, PTL

\* For documents of any length: parseQualityGateTargets drops no entry of its
\* section, and parseSmokeProtocol counts every shell fence of its own.
THEOREM NothingIsDropped == Spec => []NothingDeclaredIsDropped
<1>1. Inductive => NothingDeclaredIsDropped
  <2> SUFFICES ASSUME Inductive PROVE NothingDeclaredIsDropped
    OBVIOUS
  <2>1. doc \in Seq(Lines) \union {Deleted}
    BY DEF Inductive, Types, Documents
  <2> QED BY <2>1, ReadingDropsNothing
<1> QED BY <1>1, AlwaysInductive, PTL

-----------------------------------------------------------------------------
(* What plan approval compares.                                            *)

\* A pinned test is there, and no test of its name says otherwise.
PinsHold(row, tests) ==
    \A ref \in row.pins :
        LET named == Approval!extractTestBlock(tests, ref)
        IN named # {} /\ \A t \in named : ~Approval!findContradiction(row.asserts, t)

\* The other questions of the register, of a base branch that could be read.
RegisterHolds(d, tests) ==
    LET register == Approval!readTestRegister(d)
    IN /\ register.present => register.rows # {}
       /\ \A row \in register.rows : row.pins # {} \/ row.newTest # {}
       /\ \A row \in register.rows : row.pins = {} =>
             \A ref \in row.newTest, t \in tests : ~(t.path = ref.path /\ t.title = ref.title)
       /\ \A planned \in Approval!extractPlannedTestIds(d), t \in tests :
             t.path = planned.path => t.id # planned.id

BaselineHolds(d, printed) ==
    /\ ~Approval!BaselineFindings(d)
    /\ \A c \in Approval!BaselineClaims(d) :
          ~Approval!untouchedStub(c) =>
             /\ c.command \notin {"npm run build", "node dist/x"}
             /\ printed.exit = "ok"
             /\ Approval!evaluateBaselineClaim(c, printed.lines)

\* The contracts ask the base branch, the output and the paths, which the
\* history of an attempt names, and the worktree for the pinned tests only.
LEMMA ContractsRead ==
    ASSUME NEW d
    PROVE  Approval!Contracts(d, TRUE) <=>
              /\ BaselineHolds(d, prints)
              /\ RegisterHolds(d, base)
              /\ \A row \in Approval!readTestRegister(d).rows : PinsHold(row, work)
              /\ Approval!EvidenceContract(d)
<1> DEFINE register == Approval!readTestRegister(d)
           ids == Approval!extractPlannedTestIds(d)
<1>1. Approval!BaselineContract(d) <=> BaselineHolds(d, prints)
  BY DEF Approval!BaselineContract, BaselineHolds
<1>2. Approval!TestRegisterContract(d, TRUE) <=>
         /\ register.present => register.rows # {}
         /\ \A row \in register.rows : ~Approval!RowRefused(row, TRUE)
         /\ \A planned \in ids : \A t \in Approval!readTargetSource(planned.path, TRUE) : t.id # planned.id
  BY DEF Approval!TestRegisterContract
<1>3. \A path : Approval!readTargetSource(path, TRUE) = {t \in base : t.path = path}
  BY DEF Approval!readTargetSource
<1>4. ASSUME NEW row
      PROVE  ~Approval!RowRefused(row, TRUE) <=>
                /\ row.pins # {} \/ row.newTest # {}
                /\ PinsHold(row, work)
                /\ row.pins = {} =>
                      \A ref \in row.newTest, t \in base : ~(t.path = ref.path /\ t.title = ref.title)
  <2>1. \A ref : Approval!extractTestBlock(Approval!readTargetSource(ref.path, TRUE), ref) # {}
                    <=> \E t \in base : t.path = ref.path /\ t.title = ref.title
    <3> TAKE ref
    <3>1. Approval!readTargetSource(ref.path, TRUE) = {t \in base : t.path = ref.path}
      BY <1>3
    <3> QED BY <3>1 DEF Approval!extractTestBlock
  <2> QED BY <2>1 DEF Approval!RowRefused, PinsHold
<1>5. (\A planned \in ids : \A t \in Approval!readTargetSource(planned.path, TRUE) : t.id # planned.id)
         <=> \A planned \in ids, t \in base : t.path = planned.path => t.id # planned.id
  BY <1>3
<1> HIDE DEF register, ids
<1>6. RegisterHolds(d, base) <=>
         /\ register.present => register.rows # {}
         /\ \A row \in register.rows : row.pins # {} \/ row.newTest # {}
         /\ \A row \in register.rows : row.pins = {} =>
               \A ref \in row.newTest, t \in base : ~(t.path = ref.path /\ t.title = ref.title)
         /\ \A planned \in ids, t \in base : t.path = planned.path => t.id # planned.id
  BY DEF RegisterHolds, register, ids
<1>7. Approval!TestRegisterContract(d, TRUE) <=>
         RegisterHolds(d, base) /\ \A row \in register.rows : PinsHold(row, work)
  BY <1>2, <1>4, <1>5, <1>6
<1> QED BY <1>1, <1>7 DEF Approval!Contracts, register

\* What was accepted, asked of the base branch, still fits it, and the tests
\* its register pins are still in the worktree.
AcceptedFits ==
    accepted # NoPlan /\ accepted.readable =>
        /\ BaselineHolds(accepted.plan, accepted.prints)
        /\ RegisterHolds(accepted.plan, accepted.base)
        /\ \A row \in Approval!readTestRegister(accepted.plan).rows : PinsHold(row, work)
        /\ Approval!EvidenceContract(accepted.plan)

IsTest(t) == t = [path |-> t.path, title |-> t.title, id |-> t.id, asserts |-> t.asserts]

ApprovalInvariant ==
    /\ \A t \in work : IsTest(t)
    /\ AcceptedFits
    /\ stage = "APPROVAL" => recorded = accepted.plan
    /\ attempt.verdict = "refused" /\ accepted # NoPlan
          => accepted # Approval!Asked(TRUE) \/ ~attempt.readable

\* The implementer adds a test where none has its name and takes assertions
\* from tests; neither disturbs a pinned one.
LEMMA PinsStay ==
    ASSUME \A t \in work : IsTest(t), Approval!WriteTest,
           NEW row, PinsHold(row, work)
    PROVE  PinsHold(row, work')
<1>1. CASE \E r \in Approval!readTestRegister(plan).rows : \E ref \in r.newTest :
              /\ Approval!extractTestBlock(work, ref) = {}
              /\ work' = work \union {[path |-> ref.path, title |-> ref.title, id |-> ref.id,
                                       asserts |-> r.asserts]}
  <2>1. PICK r \in Approval!readTestRegister(plan).rows : \E ref \in r.newTest :
              /\ Approval!extractTestBlock(work, ref) = {}
              /\ work' = work \union {[path |-> ref.path, title |-> ref.title, id |-> ref.id,
                                       asserts |-> r.asserts]}
    BY <1>1
  <2>2. PICK ref \in r.newTest :
              /\ Approval!extractTestBlock(work, ref) = {}
              /\ work' = work \union {[path |-> ref.path, title |-> ref.title, id |-> ref.id,
                                       asserts |-> r.asserts]}
    BY <2>1
  <2>3. ASSUME NEW pin \in row.pins
        PROVE  Approval!extractTestBlock(work', pin) = Approval!extractTestBlock(work, pin)
    <3>1. Approval!extractTestBlock(work, pin) # {}
      BY DEF PinsHold
    <3>2. ~(ref.path = pin.path /\ ref.title = pin.title)
      BY <2>2, <3>1 DEF Approval!extractTestBlock
    <3> QED BY <2>2, <3>2 DEF Approval!extractTestBlock
  <2> QED BY <2>3 DEF PinsHold
<1>2. CASE \E t \in work : work' = (work \ {t}) \union {[t EXCEPT !.asserts = {}]}
  <2>1. PICK t \in work : work' = (work \ {t}) \union {[t EXCEPT !.asserts = {}]}
    BY <1>2
  <2> DEFINE u == [t EXCEPT !.asserts = {}]
  <2>2. u.path = t.path /\ u.title = t.title /\ u.asserts = {}
    BY DEF IsTest
  <2> HIDE DEF u
  <2>3. work' = (work \ {t}) \union {u}
    BY <2>1 DEF u
  <2>4. ASSUME NEW pin \in row.pins
        PROVE  LET named == Approval!extractTestBlock(work', pin)
               IN named # {} /\ \A n \in named : ~Approval!findContradiction(row.asserts, n)
    <3>1. ~Approval!findContradiction(row.asserts, u)
      BY <2>2 DEF Approval!findContradiction
    <3>2. /\ Approval!extractTestBlock(work, pin) # {}
          /\ \A n \in Approval!extractTestBlock(work, pin) : ~Approval!findContradiction(row.asserts, n)
      BY DEF PinsHold
    <3>3. \A n \in Approval!extractTestBlock(work', pin) : n = u \/ n \in Approval!extractTestBlock(work, pin)
      BY <2>3 DEF Approval!extractTestBlock
    <3>4. Approval!extractTestBlock(work', pin) # {}
      BY <3>2, <2>2, <2>3 DEF Approval!extractTestBlock
    <3> QED BY <3>1, <3>2, <3>3, <3>4
  <2> QED BY <2>4 DEF PinsHold
<1> QED BY <1>1, <1>2 DEF Approval!WriteTest

\* An attempt that is accepted is one of a plan that fits.
LEMMA AttemptKeeps ==
    ASSUME ApprovalInvariant, NEW readable \in BOOLEAN,
           Approval!TransitionToApproval(readable) \/ Approval!StartImplementation(readable)
    PROVE  ApprovalInvariant'
<1>1. UNCHANGED <<plan, base, work, prints>>
  BY DEF Approval!TransitionToApproval, Approval!StartImplementation
<1>2. CASE /\ Approval!Contracts(plan, readable) /\ recorded' = plan
           /\ \E to \in {"APPROVAL", "IMPLEMENT"} : Approval!Enter(to, readable)
  <2>1. accepted' = [plan |-> plan, base |-> base, prints |-> prints, readable |-> readable]
        /\ attempt' = [verdict |-> "entered", readable |-> readable]
    BY <1>2 DEF Approval!Enter, Approval!Asked
  <2>2. accepted'.plan = plan /\ accepted'.base = base /\ accepted'.prints = prints
        /\ accepted'.readable = readable /\ attempt'.verdict # "refused"
    BY <2>1
  <2>3. AcceptedFits'
    <3>1. CASE readable = TRUE
      <4>1. Approval!Contracts(plan, TRUE)
        BY <1>2, <3>1
      <4>2. /\ BaselineHolds(plan, prints) /\ RegisterHolds(plan, base)
            /\ \A row \in Approval!readTestRegister(plan).rows : PinsHold(row, work)
            /\ Approval!EvidenceContract(plan)
        BY <4>1, ContractsRead
      <4> QED BY <1>1, <2>2, <4>2 DEF AcceptedFits
    <3>2. CASE readable = FALSE
      BY <2>2, <3>2 DEF AcceptedFits
    <3> QED BY <3>1, <3>2
  <2> QED BY <1>1, <1>2, <2>2, <2>3 DEF ApprovalInvariant
<1>3. CASE /\ Approval!Refuse(readable)
           /\ ~Approval!Contracts(plan, readable) \/ (stage = "APPROVAL" /\ recorded # plan)
  <2>1. UNCHANGED <<stage, recorded, accepted>> /\ attempt' = [verdict |-> "refused", readable |-> readable]
    BY <1>3 DEF Approval!Refuse
  <2>2. AcceptedFits'
    BY <1>1, <2>1 DEF AcceptedFits, ApprovalInvariant
  <2>3. ASSUME readable = TRUE, accepted # NoPlan,
               accepted = [plan |-> plan, base |-> base, prints |-> prints, readable |-> TRUE]
        PROVE  FALSE
    <3>1. accepted.plan = plan /\ accepted.base = base /\ accepted.prints = prints /\ accepted.readable
      BY <2>3
    <3>2. Approval!Contracts(plan, TRUE)
      BY <2>3, <3>1, ContractsRead DEF AcceptedFits, ApprovalInvariant
    <3> QED BY <1>3, <2>3, <3>1, <3>2 DEF ApprovalInvariant
  <2>4. accepted' # NoPlan => accepted' # Approval!Asked(TRUE)' \/ ~attempt'.readable
    BY <1>1, <2>1, <2>3 DEF Approval!Asked
  <2> QED BY <1>1, <2>1, <2>2, <2>4 DEF ApprovalInvariant
<1> QED BY <1>2, <1>3 DEF Approval!TransitionToApproval, Approval!StartImplementation

LEMMA ApprovalKeeps ==
    ASSUME ApprovalInvariant, [Approval!Next]_planVars
    PROVE  ApprovalInvariant'
<1>1. CASE \E readable \in BOOLEAN : Approval!TransitionToApproval(readable) \/ Approval!StartImplementation(readable)
  BY <1>1, AttemptKeeps
<1>2. CASE Approval!WriteTest
  <2>1. UNCHANGED <<plan, recorded, stage, base, prints, accepted>> /\ attempt'.verdict = "none"
    BY <1>2 DEF Approval!WriteTest, Approval!Change, Approval!Nothing
  <2>2. \A t \in work' : IsTest(t)
    BY <1>2 DEF Approval!WriteTest, ApprovalInvariant, IsTest
  <2>3. \A row : PinsHold(row, work) => PinsHold(row, work')
    BY <1>2, PinsStay DEF ApprovalInvariant
  <2>4. AcceptedFits'
    BY <2>1, <2>3 DEF AcceptedFits, ApprovalInvariant
  <2> QED BY <2>1, <2>2, <2>4 DEF ApprovalInvariant
<1>3. CASE \/ Approval!EditPlan \/ Approval!CommandPrints \/ Approval!OtherTaskMerges
           \/ Approval!Complete \/ Approval!Reset
  <2>1. UNCHANGED <<accepted, work>> /\ attempt'.verdict = "none"
    BY <1>3 DEF Approval!EditPlan, Approval!CommandPrints, Approval!OtherTaskMerges,
                Approval!Complete, Approval!Reset, Approval!Change, Approval!Nothing
  <2>2. stage' = "APPROVAL" => stage = "APPROVAL" /\ recorded' = recorded
    BY <1>3 DEF Approval!EditPlan, Approval!CommandPrints, Approval!OtherTaskMerges,
                Approval!Complete, Approval!Reset
  <2>3. AcceptedFits'
    BY <2>1 DEF AcceptedFits, ApprovalInvariant
  <2> QED BY <2>1, <2>2, <2>3 DEF ApprovalInvariant
<1>4. CASE UNCHANGED planVars
  BY <1>4 DEF planVars, ApprovalInvariant, AcceptedFits, Approval!Asked
<1> QED BY <1>1, <1>2, <1>3, <1>4 DEF Approval!Next

\* What a task implemented itself is never held against its plan, for any plans,
\* tests, output of commands and number of changes: an attempt that asks what an
\* accepted one asked, of a base branch it can read, is not refused, whatever the
\* implementer wrote in between (plan-test-register-contract.ts).
THEOREM OwnTestsPass == PartsSpec => []OwnTestsAreNotRefused
<1>1. PartsInit => ApprovalInvariant
  BY ApprovalConstants DEF PartsInit, Approval!Init, ApprovalInvariant, AcceptedFits, IsTest,
     Approval!ApprovalAssumption, Approval!Nothing
<1>2. ApprovalInvariant /\ [PartsNext]_<<gateVars, scriptVars, planVars, part>> => ApprovalInvariant'
  BY ApprovalKeeps DEF PartsNext
<1>3. ApprovalInvariant => OwnTestsAreNotRefused
  BY DEF ApprovalInvariant, OwnTestsAreNotRefused, Approval!OwnTestsAreNotRefused
<1> QED BY <1>1, <1>2, <1>3, PTL DEF PartsSpec

-----------------------------------------------------------------------------
(* The sandbox rule beside the shell.                                      *)

\* A directory the rule followed to an absolute path is where the shell is.
Agree(tracked, real) == Statics!Anchored(tracked) => tracked = real

Tracked(p) == p = Statics!Unknown \/ p.at \in {"home", "tmp", "PWD", "nowhere"}
Placed(p) == p = Statics!Unknown \/ Statics!Anchored(p)

ScriptTypes ==
    /\ sh = [status |-> sh.status, cwd |-> sh.cwd, var |-> sh.var, env |-> sh.env,
             dirs |-> sh.dirs, outer |-> sh.outer]
    /\ sh.status \in {"ok", "failed", "skipping", "dead"}
    /\ Statics!Anchored(sh.cwd) /\ Statics!Anchored(sh.env) /\ Placed(sh.var) /\ Placed(sh.outer)
    /\ track = [cwd |-> track.cwd, var |-> track.var, start |-> track.start, restore |-> track.restore]
    /\ track.restore \in BOOLEAN
    /\ Tracked(track.cwd) /\ Tracked(track.var) /\ Tracked(track.start)
    /\ line \in {"fresh", "open", "closed"}

\* A group begins a line and no statement follows it there, so that the rule
\* gives up its directory at the end of the line where the shell left it.
Groups ==
    /\ line = "fresh" => /\ sh.status \in {"ok", "dead"}
                         /\ sh.outer = Statics!Unknown
                         /\ ~track.restore /\ track.start = track.cwd
    /\ line = "open" => (track.restore <=> sh.outer # Statics!Unknown)
    /\ line = "closed" => track.restore /\ sh.outer = Statics!Unknown
    /\ sh.status = "skipping" => sh.outer # Statics!Unknown

\* As long as statements succeed the rule is where the shell is; so it will be
\* again when the group ends.
RuleFollows ==
    /\ Agree(track.var, sh.var)
    /\ sh.status = "ok" /\ line # "closed" => Agree(track.cwd, sh.cwd)
    /\ sh.status = "ok" /\ line = "closed" => Agree(track.start, sh.cwd)
    /\ sh.outer # Statics!Unknown => Agree(track.start, sh.outer)

ScriptInvariant ==
    /\ ScriptTypes /\ Groups /\ RuleFollows
    /\ "outside" \in events => "sandbox" \in findings

LEMMA Anchoring ==
    ASSUME NEW p
    PROVE  /\ p.at # "PWD" => Statics!normaliseLexicalPath(p).at = p.at
           /\ p.at = "PWD" => Statics!normaliseLexicalPath(p).at \in {"PWD", "nowhere"}
BY DEF Statics!normaliseLexicalPath, Statics!Path

\* A text the shell can expand names a place.
LEMMA TextsArePlaces ==
    ASSUME ScriptTypes, NEW p, p.at \in Statics!Starts, Statics!Known(p)
    PROVE  Statics!Anchored(Statics!Real(sh, p))
<1>1. \A cwd : Statics!Anchored(cwd) => Statics!Anchored(Statics!Below(cwd, p))
  BY Anchoring DEF Statics!Below, Statics!Path, Statics!Anchored, Statics!Anchors
<1>2. p.at = "var" => sh.var # Statics!Unknown
  BY DEF Statics!Known
<1> QED
  BY <1>1, <1>2, Anchoring DEF ScriptTypes, Statics!Real, Statics!Anchored, Statics!Starts, Statics!Anchors, Statics!Anchored, Placed

\* Where the rule resolves a text to an absolute path, so does the shell.
LEMMA ResolvedAlike ==
    ASSUME ScriptTypes, Agree(track.var, sh.var), NEW p, p.at \in Statics!Starts
    PROVE  /\ Tracked(Statics!sandboxCwdTarget(p))
           /\ p.at # "here" \/ Agree(track.cwd, sh.cwd)
                 => Agree(Statics!sandboxCwdTarget(p), Statics!Real(sh, p))
<1> DEFINE r == Statics!Expand(p, track.var)
           t == Statics!sandboxCwdTarget(p)
<1>1. t = IF r.at \in {"var", "env"} THEN Statics!Unknown
          ELSE IF r.at \in {"PWD", "nowhere"} THEN Statics!normaliseLexicalPath(r)
          ELSE Statics!resolvePathAgainstCwd(track.cwd, r)
  BY DEF Statics!sandboxCwdTarget
<1>2. CASE Statics!Anchored(p)
  <2>1. r = p /\ t = Statics!normaliseLexicalPath(p)
    BY <1>1, <1>2 DEF Statics!Expand, Statics!resolvePathAgainstCwd, Statics!Anchored, Statics!Anchors
  <2>2. Statics!Real(sh, p) = t
    BY <1>2, <2>1 DEF Statics!Real, Statics!Anchored, Statics!Anchors
  <2> HIDE DEF r
  <2> QED BY <1>2, <2>1, <2>2, Anchoring DEF Tracked, Agree, Statics!Anchored, Statics!Anchors
<1>3. CASE p.at = "var" /\ track.var # Statics!Unknown
  <2>1. r = Statics!Path(track.var.at, track.var.names \o p.names) /\ r.at = track.var.at
    BY <1>3 DEF Statics!Expand, Statics!Path
  <2>2. track.var.at \in {"home", "tmp", "PWD", "nowhere"}
    BY <1>3 DEF ScriptTypes, Tracked
  <2>3. t = Statics!normaliseLexicalPath(r)
    BY <1>1, <2>1, <2>2 DEF Statics!resolvePathAgainstCwd, Statics!Anchored, Statics!Anchors
  <2>4. Statics!Anchored(track.var) => Statics!Real(sh, p) = t
    BY <1>3, <2>1, <2>3 DEF Agree, Statics!Real, Statics!Anchored, Statics!Anchors, Statics!Below
  <2> HIDE DEF r
  <2> QED BY <2>1, <2>2, <2>3, <2>4, Anchoring DEF Tracked, Agree, Statics!Anchored, Statics!Anchors
<1>4. CASE p.at = "env" \/ (p.at = "var" /\ track.var = Statics!Unknown)
  <2>1. t = Statics!Unknown
    BY <1>1, <1>4 DEF Statics!Expand
  <2> QED BY <2>1 DEF Tracked, Agree, Statics!Anchored, Statics!Unknown, Statics!Path, Statics!Anchors
<1>5. CASE p.at = "PWD"
  <2>1. t = Statics!normaliseLexicalPath(p)
    BY <1>1, <1>5 DEF Statics!Expand
  <2> QED BY <1>5, <2>1, Anchoring DEF Tracked, Agree, Statics!Anchored, Statics!Anchors
<1>6. CASE p.at = "here"
  <2>1. t = IF track.cwd = Statics!Unknown \/ track.cwd = Statics!Path("nowhere", <<>>) THEN Statics!Unknown
            ELSE Statics!Below(track.cwd, p)
    BY <1>1, <1>6 DEF Statics!Expand, Statics!resolvePathAgainstCwd, Statics!Anchored, Statics!Anchors
  <2>2. Statics!Real(sh, p) = Statics!Below(sh.cwd, p)
    BY <1>6 DEF Statics!Real, Statics!Anchored, Statics!Anchors
  <2>3. Tracked(track.cwd) /\ (Agree(track.cwd, sh.cwd) /\ Statics!Anchored(track.cwd) => track.cwd = sh.cwd)
    BY DEF ScriptTypes, Agree
  <2>4. track.cwd # Statics!Unknown =>
           /\ track.cwd.at \in {"home", "tmp", "PWD", "nowhere"}
           /\ Tracked(Statics!Below(track.cwd, p))
           /\ Statics!Anchored(Statics!Below(track.cwd, p)) => Statics!Anchored(track.cwd)
    BY <2>3, Anchoring DEF Statics!Below, Statics!Path, Tracked, Statics!Anchored, Statics!Anchors
  <2>5. ~Statics!Anchored(Statics!Unknown)
    BY DEF Statics!Anchored, Statics!Unknown, Statics!Path, Statics!Anchors
  <2> QED BY <2>1, <2>2, <2>3, <2>4, <2>5, <1>6 DEF Agree, Tracked
<1> QED BY <1>2, <1>3, <1>4, <1>5, <1>6 DEF Statics!Starts, Statics!Anchored

\* No statement follows a failure on its line but in a group, and none follows a
\* group on its line.
OnlyChecks == Shapes \subseteq {"checks"}

\* How a statement follows the one before it.
LEMMA JoinedStatus ==
    ASSUME OnlyChecks, ScriptTypes, Groups, NEW sep \in Statics!Seps, NEW close \in BOOLEAN,
           Statics!Follows(sep, close)
    PROVE  /\ findings = {} /\ line \in {"fresh", "open"}
           /\ sep = "first" <=> line = "fresh"
           /\ sep = "first" => sh.status = "ok"
           /\ close => sh.outer # Statics!Unknown
           /\ Statics!Joined(sep) \in {"ok", "failed", "skipping", "dead"}
           /\ Statics!Joined(sep) = "ok" <=> sh.status = "ok"
           /\ Statics!Joined(sep) = "skipping" => sh.outer # Statics!Unknown
<1>1. "quiet" \notin Shapes /\ "midline" \notin Shapes
  BY DEF OnlyChecks
<1>2. /\ findings = {} /\ line \in {"fresh", "open"}
      /\ sep = "first" <=> line = "fresh"
      /\ close => sh.outer # Statics!Unknown
      /\ sh.status # "dead"
      /\ sep = "&&" /\ sh.status = "failed" => sh.outer # Statics!Unknown
      /\ ~(sep = ";" /\ sh.status = "skipping")
  BY <1>1 DEF Statics!Follows, ScriptTypes
<1>3. sep = "first" => sh.status = "ok"
  BY <1>2 DEF Groups
<1>4. sep \in {"first", ";", "&&"} /\ sh.status \in {"ok", "failed", "skipping"}
  BY <1>2 DEF Statics!Seps, ScriptTypes
<1>5. CASE sh.status = "ok"
  BY <1>2, <1>5 DEF Statics!Joined
<1>6. CASE sh.status = "failed"
  BY <1>2, <1>3, <1>4, <1>6 DEF Statics!Joined
<1>7. CASE sh.status = "skipping"
  BY <1>2, <1>3, <1>4, <1>7 DEF Statics!Joined, Groups
<1> QED BY <1>4, <1>5, <1>6, <1>7

\* What the end of a group makes of a shell.
LEMMA EndOfGroup ==
    ASSUME NEW s, NEW none,
           s = [status |-> s.status, cwd |-> s.cwd, var |-> s.var, env |-> s.env,
                dirs |-> s.dirs, outer |-> s.outer]
    PROVE  [s EXCEPT !.cwd = s.outer, !.outer = none,
                     !.status = IF @ = "skipping" THEN "failed" ELSE @]
              = [status |-> IF s.status = "skipping" THEN "failed" ELSE s.status,
                 cwd |-> s.outer, var |-> s.var, env |-> s.env, dirs |-> s.dirs, outer |-> none]
<1> DEFINE u == [s EXCEPT !.cwd = s.outer, !.outer = none,
                          !.status = IF @ = "skipping" THEN "failed" ELSE @]
           status == IF s.status = "skipping" THEN "failed" ELSE s.status
           fields == {"status", "cwd", "var", "env", "dirs", "outer"}
<1>1. DOMAIN s = fields
  OBVIOUS
<1>2. u = [f \in fields |-> IF f = "status" THEN status ELSE IF f = "outer" THEN none
                            ELSE IF f = "cwd" THEN s.outer ELSE s[f]]
  BY <1>1
<1> HIDE DEF u, status
<1>3. /\ u.status = status /\ u.cwd = s.outer /\ u.var = s.var /\ u.env = s.env
      /\ u.dirs = s.dirs /\ u.outer = none /\ DOMAIN u = fields
  BY <1>2
<1>4. u = [status |-> status, cwd |-> s.outer, var |-> s.var, env |-> s.env,
           dirs |-> s.dirs, outer |-> none]
  BY <1>2, <1>3
<1> QED BY <1>4 DEF u, status

\* What a statement does that changes no directory and no variable.
Effect(status, dirs) ==
    [status |-> status, cwd |-> sh.cwd, var |-> sh.var, env |-> sh.env, dirs |-> dirs, outer |-> sh.outer]

LEMMA Effects ==
    ASSUME ScriptTypes
    PROVE  /\ Statics!Ran = Effect("ok", sh.dirs)
           /\ Statics!Failed = Effect("failed", sh.dirs)
           /\ \A more : [Statics!Ran EXCEPT !.dirs = @ \union more] = Effect("ok", sh.dirs \union more)
<1>1. sh = Effect(sh.status, sh.dirs)
  BY DEF ScriptTypes, Effect
<1>2. Statics!Ran = Effect("ok", sh.dirs) /\ Statics!Failed = Effect("failed", sh.dirs)
  BY <1>1 DEF Statics!Ran, Statics!Failed, Effect
<1>3. ASSUME NEW more
      PROVE  [Statics!Ran EXCEPT !.dirs = @ \union more] = Effect("ok", sh.dirs \union more)
  BY <1>2 DEF Effect
<1> QED BY <1>2, <1>3

\* The status a statement leaves that comes to this one, and the directories.
Met(sep, status) == IF Statics!Joined(sep) = "ok" THEN status ELSE Statics!Joined(sep)
MetDirs(sep, dirs) == IF Statics!Joined(sep) = "ok" THEN dirs ELSE sh.dirs

\* The shell after a statement that leaves directory and variables alone, and after
\* the group it ends.
LEMMA ShellAfter ==
    ASSUME OnlyChecks, ScriptTypes, Groups,
           NEW sep \in Statics!Seps, NEW close \in BOOLEAN, Statics!Follows(sep, close),
           NEW status \in {"ok", "failed"}, NEW dirs,
           sh' = Statics!Shell(sep, close, Effect(status, dirs))
    PROVE  LET met == Met(sep, status)
               after == MetDirs(sep, dirs)
           IN  /\ met \in {"ok", "failed", "skipping", "dead"}
               /\ met = "skipping" => sh.outer # Statics!Unknown
               /\ met = "ok" => sh.status = "ok" /\ status = "ok" /\ after = dirs
               /\ after \in {dirs, sh.dirs}
               /\ sh' = IF ~close
                        THEN [status |-> met, cwd |-> sh.cwd, var |-> sh.var, env |-> sh.env,
                              dirs |-> after, outer |-> sh.outer]
                        ELSE [status |-> IF met = "skipping" THEN "failed" ELSE met,
                              cwd |-> sh.outer, var |-> sh.var, env |-> sh.env,
                              dirs |-> after, outer |-> Statics!Unknown]
<1> DEFINE j == Statics!Joined(sep)
           s == [status |-> Met(sep, status), cwd |-> sh.cwd, var |-> sh.var, env |-> sh.env,
                 dirs |-> MetDirs(sep, dirs), outer |-> sh.outer]
<1>1. sh = [status |-> sh.status, cwd |-> sh.cwd, var |-> sh.var, env |-> sh.env,
            dirs |-> sh.dirs, outer |-> sh.outer]
  BY DEF ScriptTypes
<1>2. [sh EXCEPT !.status = j] = [status |-> j, cwd |-> sh.cwd, var |-> sh.var, env |-> sh.env,
                                  dirs |-> sh.dirs, outer |-> sh.outer]
  BY <1>1
<1>3. sh' = IF ~close THEN s
            ELSE [s EXCEPT !.cwd = s.outer, !.outer = Statics!Unknown,
                           !.status = IF @ = "skipping" THEN "failed" ELSE @]
  BY <1>2 DEF Statics!Shell, Effect, Met, MetDirs
<1>4. /\ j \in {"ok", "failed", "skipping", "dead"}
      /\ j = "ok" <=> sh.status = "ok"
      /\ j = "skipping" => sh.outer # Statics!Unknown
  BY JoinedStatus
<1>5. /\ s.cwd = sh.cwd /\ s.var = sh.var /\ s.env = sh.env /\ s.outer = sh.outer
      /\ s.status = Met(sep, status) /\ s.dirs = MetDirs(sep, dirs)
      /\ s = [status |-> s.status, cwd |-> s.cwd, var |-> s.var, env |-> s.env,
              dirs |-> s.dirs, outer |-> s.outer]
  OBVIOUS
<1> HIDE DEF s
<1>6. [s EXCEPT !.cwd = s.outer, !.outer = Statics!Unknown,
                !.status = IF @ = "skipping" THEN "failed" ELSE @]
        = [status |-> IF s.status = "skipping" THEN "failed" ELSE s.status,
           cwd |-> s.outer, var |-> s.var, env |-> s.env,
           dirs |-> s.dirs, outer |-> Statics!Unknown]
  BY <1>5, EndOfGroup
<1> HIDE DEF j
<1>7. LET met == Met(sep, status)
          after == MetDirs(sep, dirs)
      IN  /\ met \in {"ok", "failed", "skipping", "dead"}
          /\ met = "skipping" => sh.outer # Statics!Unknown
          /\ met = "ok" => sh.status = "ok" /\ status = "ok" /\ after = dirs
          /\ after \in {dirs, sh.dirs}
  BY <1>4 DEF Met, MetDirs, j
<1> QED BY <1>3, <1>5, <1>6, <1>7

\* A statement that leaves directory and variables alone, and the end of a group.
LEMMA StatementKeeps ==
    ASSUME OnlyChecks, ScriptTypes, Groups, RuleFollows,
           NEW sep \in Statics!Seps, NEW close \in BOOLEAN, Statics!Follows(sep, close),
           NEW status \in {"ok", "failed"}, NEW dirs,
           sh' = Statics!Shell(sep, close, Effect(status, dirs)),
           line' = IF close THEN "closed" ELSE "open",
           UNCHANGED track
    PROVE  ScriptTypes' /\ Groups' /\ RuleFollows'
<1> DEFINE met == Met(sep, status)
           after == MetDirs(sep, dirs)
<1>1. /\ met \in {"ok", "failed", "skipping", "dead"}
      /\ met = "skipping" => sh.outer # Statics!Unknown
      /\ met = "ok" => sh.status = "ok"
      /\ sh' = IF ~close
               THEN [status |-> met, cwd |-> sh.cwd, var |-> sh.var, env |-> sh.env,
                     dirs |-> after, outer |-> sh.outer]
               ELSE [status |-> IF met = "skipping" THEN "failed" ELSE met,
                     cwd |-> sh.outer, var |-> sh.var, env |-> sh.env,
                     dirs |-> after, outer |-> Statics!Unknown]
  BY ShellAfter
<1> HIDE DEF met, after
<1>2. /\ line \in {"fresh", "open"} /\ (close => sh.outer # Statics!Unknown)
      /\ line = "fresh" => sh.outer = Statics!Unknown /\ ~track.restore
      /\ line = "open" => (track.restore <=> sh.outer # Statics!Unknown)
      /\ track.restore \in BOOLEAN
  BY JoinedStatus DEF Groups, ScriptTypes
<1>3. CASE close = FALSE
  <2>1. /\ sh'.status = met /\ sh'.cwd = sh.cwd /\ sh'.var = sh.var /\ sh'.env = sh.env
        /\ sh'.dirs = after /\ sh'.outer = sh.outer
        /\ sh' = [status |-> met, cwd |-> sh.cwd, var |-> sh.var, env |-> sh.env,
                  dirs |-> after, outer |-> sh.outer]
    BY <1>1, <1>3
  <2>2. ScriptTypes'
    BY <1>1, <1>3, <2>1 DEF ScriptTypes
  <2>3. Groups'
    BY <1>1, <1>2, <1>3, <2>1 DEF Groups
  <2>4. RuleFollows'
    BY <1>1, <1>2, <1>3, <2>1 DEF RuleFollows
  <2> QED BY <2>2, <2>3, <2>4
<1>4. CASE close = TRUE
  <2> DEFINE status2 == IF met = "skipping" THEN "failed" ELSE met
  <2>1. /\ sh'.status = status2 /\ sh'.cwd = sh.outer /\ sh'.var = sh.var /\ sh'.env = sh.env
        /\ sh'.dirs = after /\ sh'.outer = Statics!Unknown
        /\ sh' = [status |-> status2, cwd |-> sh.outer, var |-> sh.var, env |-> sh.env,
                  dirs |-> after, outer |-> Statics!Unknown]
    <3>1. sh' = [status |-> status2, cwd |-> sh.outer, var |-> sh.var, env |-> sh.env,
                 dirs |-> after, outer |-> Statics!Unknown]
      BY <1>1, <1>4
    <3> HIDE DEF status2
    <3> QED BY <3>1
  <2>2. ScriptTypes'
    BY <1>1, <1>2, <1>4, <2>1 DEF ScriptTypes, Placed
  <2>3. Groups'
    BY <1>1, <1>2, <1>4, <2>1 DEF Groups
  <2>4. RuleFollows'
    BY <1>1, <1>2, <1>4, <2>1 DEF RuleFollows
  <2> QED BY <2>2, <2>3, <2>4
<1> QED BY <1>3, <1>4

\* mkdir.
LEMMA MakeDirKeeps ==
    ASSUME OnlyChecks, ScriptInvariant, NEW p \in Texts, NEW sep \in Statics!Seps,
           NEW recursive \in BOOLEAN, NEW close \in BOOLEAN, Statics!MakeDir(p, recursive, sep, close)
    PROVE  ScriptInvariant'
<1>1. Statics!Follows(sep, close) /\ UNCHANGED <<track, findings, events>>
      /\ line' = IF close THEN "closed" ELSE "open"
  BY DEF Statics!MakeDir
<1>2. PICK status \in {"ok", "failed"} : \E dirs : sh' = Statics!Shell(sep, close, Effect(status, dirs))
  <2> DEFINE dir == Statics!Real(sh, p)
  <2>1. sh' = Statics!Shell(sep, close,
                   IF recursive THEN [Statics!Ran EXCEPT !.dirs = @ \union Statics!Ancestors(dir)]
                   ELSE IF Statics!Parent(dir) \in sh.dirs /\ dir \notin sh.dirs
                   THEN [Statics!Ran EXCEPT !.dirs = @ \union {dir}] ELSE Statics!Failed)
    BY DEF Statics!MakeDir
  <2> QED BY <2>1, Effects DEF ScriptInvariant
<1> QED BY <1>1, <1>2, StatementKeeps DEF ScriptInvariant

\* A write to a file.
LEMMA WriteFileKeeps ==
    ASSUME OnlyChecks, ScriptInvariant, NEW p \in Texts, NEW sep \in Statics!Seps,
           NEW close \in BOOLEAN, Statics!WriteFile(p, sep, close)
    PROVE  ScriptInvariant'
<1>1. Statics!Follows(sep, close) /\ UNCHANGED track
      /\ line' = IF close THEN "closed" ELSE "open"
  BY DEF Statics!WriteFile
<1>2. PICK status \in {"ok", "failed"} : \E dirs : sh' = Statics!Shell(sep, close, Effect(status, dirs))
  <2>1. sh' = Statics!Shell(sep, close, IF Statics!Parent(Statics!Real(sh, p)) \notin sh.dirs
                                        THEN Statics!Failed ELSE Statics!Ran)
    BY DEF Statics!WriteFile
  <2> QED BY <2>1, Effects DEF ScriptInvariant
<1>3. findings = {}
  BY <1>1 DEF Statics!Follows
<1>4. "outside" \notin events'
  BY <1>3 DEF Statics!WriteFile, ScriptInvariant
<1> QED BY <1>1, <1>2, <1>4, StatementKeeps DEF ScriptInvariant

\* A CLI that runs outside of every sandbox from a directory the rule follows is
\* where the rule has it, and a finding.
LEMMA RunCliKeeps ==
    ASSUME OnlyChecks, ScriptInvariant, NEW p \in Texts, NEW sep \in Statics!Seps,
           NEW close \in BOOLEAN, NEW form \in {"plain", "workspace", "inline"},
           Statics!RunCli(form, p, sep, close)
    PROVE  ScriptInvariant'
<1> DEFINE named == IF form = "plain" THEN track.cwd ELSE Statics!sandboxCwdTarget(p)
           target == IF form = "workspace" /\ named = Statics!Unknown THEN track.cwd ELSE named
           place == IF form = "plain" THEN sh.cwd ELSE Statics!Real(sh, p)
           runs == Statics!Joined(sep) = "ok" /\ (form = "inline" => place \in sh.dirs)
<1>1. Statics!Follows(sep, close) /\ UNCHANGED track
      /\ line' = IF close THEN "closed" ELSE "open"
  BY DEF Statics!RunCli
<1>2. PICK status \in {"ok", "failed"} : \E dirs : sh' = Statics!Shell(sep, close, Effect(status, dirs))
  <2>1. sh' = Statics!Shell(sep, close,
                  IF form = "inline" /\ place \notin sh.dirs THEN Statics!Failed
                  ELSE [Statics!Ran EXCEPT !.dirs =
                           @ \union Statics!Ancestors(Statics!Path(place.at, Append(place.names, "st")))])
    BY DEF Statics!RunCli
  <2> QED BY <2>1, Effects DEF ScriptInvariant
<1>3. findings = {} /\ "outside" \notin events
  BY <1>1 DEF Statics!Follows, ScriptInvariant
<1>4. ASSUME "outside" \in events'
      PROVE  "sandbox" \in findings'
  <2>1. runs /\ ~Statics!isWithinSmokeSandbox(place) /\ named # Statics!Unknown
    BY <1>3, <1>4 DEF Statics!RunCli
  <2>2. findings' = IF target = Statics!Unknown \/ Statics!isWithinSmokeSandbox(target) THEN findings
                    ELSE findings \union {"sandbox"}
    BY DEF Statics!RunCli
  <2>3. target = named
    BY <2>1
  <2>4. Agree(named, place)
    <3>1. sh.status = "ok" /\ line # "closed"
      BY <1>1, <2>1, JoinedStatus DEF ScriptInvariant
    <3>2. Agree(track.cwd, sh.cwd)
      BY <3>1 DEF ScriptInvariant, RuleFollows
    <3>3. p.at \in Statics!Starts
      BY StaticsConstants DEF Statics!StaticsAssumption
    <3>4. Agree(Statics!sandboxCwdTarget(p), Statics!Real(sh, p))
      BY <3>2, <3>3, ResolvedAlike DEF ScriptInvariant, RuleFollows
    <3> QED BY <3>2, <3>4
  <2>5. Statics!isWithinSmokeSandbox(named) => Statics!Anchored(named)
    BY DEF Statics!isWithinSmokeSandbox, Statics!Anchored, Statics!Anchors
  <2>6. ~Statics!isWithinSmokeSandbox(named)
    BY <2>1, <2>4, <2>5 DEF Agree
  <2> HIDE DEF named, target, place, runs
  <2> QED BY <2>1, <2>2, <2>3, <2>6
<1> QED BY <1>1, <1>2, <1>4, StatementKeeps DEF ScriptInvariant

\* A change of directory, or one that opens a group.
LEMMA ChangeDirKeeps ==
    ASSUME OnlyChecks, ScriptInvariant, NEW p \in Texts, NEW sep \in Statics!Seps,
           NEW open \in BOOLEAN, Statics!ChangeDir(p, sep, open)
    PROVE  ScriptInvariant'
<1> DEFINE place == Statics!Real(sh, p)
           named == Statics!sandboxCwdTarget(p)
           j == Statics!Joined(sep)
           status == IF j # "ok" THEN j ELSE IF place \in sh.dirs THEN "ok" ELSE "failed"
           cwd == IF status = "ok" THEN place ELSE sh.cwd
           outer == IF open THEN sh.cwd ELSE sh.outer
<1>1. /\ Statics!Follows(sep, FALSE) /\ Statics!Shallow(p)
      /\ open => sh.outer = Statics!Unknown /\ (sep = "first" \/ "late" \in Shapes)
      /\ track' = [track EXCEPT !.cwd = named, !.restore = @ \/ open]
      /\ line' = "open" /\ UNCHANGED findings
      /\ "outside" \in events' => "outside" \in events
  BY DEF Statics!ChangeDir
<1>2. /\ line \in {"fresh", "open"}
      /\ sep = "first" <=> line = "fresh"
      /\ sep = "first" => sh.status = "ok"
      /\ j \in {"ok", "failed", "skipping", "dead"}
      /\ j = "ok" <=> sh.status = "ok"
      /\ j = "skipping" => sh.outer # Statics!Unknown
  BY <1>1, JoinedStatus DEF ScriptInvariant
<1>3. open => line = "fresh" /\ sh.status = "ok" /\ sh.outer = Statics!Unknown
  BY <1>1, <1>2 DEF OnlyChecks
<1>4. Statics!Anchored(place) /\ Tracked(named)
      /\ (sh.status = "ok" => Agree(named, place))
  <2>1. p.at \in Statics!Starts /\ Statics!Known(p)
    BY <1>1, StaticsConstants DEF Statics!StaticsAssumption, Statics!Shallow
  <2>2. sh.status = "ok" => Agree(track.cwd, sh.cwd)
    BY <1>2 DEF ScriptInvariant, RuleFollows
  <2> QED BY <2>1, <2>2, TextsArePlaces, ResolvedAlike DEF ScriptInvariant, RuleFollows
<1>5. sh' = [status |-> status, cwd |-> cwd, var |-> sh.var, env |-> sh.env, dirs |-> sh.dirs, outer |-> outer]
  <2> DEFINE moved == IF place \in sh.dirs THEN [Statics!Ran EXCEPT !.cwd = place] ELSE Statics!Failed
             s == [status |-> status, cwd |-> cwd, var |-> sh.var, env |-> sh.env,
                   dirs |-> sh.dirs, outer |-> sh.outer]
  <2>1. sh = [status |-> sh.status, cwd |-> sh.cwd, var |-> sh.var, env |-> sh.env,
              dirs |-> sh.dirs, outer |-> sh.outer]
    BY DEF ScriptInvariant, ScriptTypes
  <2>2. sh' = IF open THEN [Statics!Shell(sep, FALSE, moved) EXCEPT !.outer = sh.cwd]
              ELSE Statics!Shell(sep, FALSE, moved)
    BY DEF Statics!ChangeDir
  <2>3. [sh EXCEPT !.status = j] = [status |-> j, cwd |-> sh.cwd, var |-> sh.var, env |-> sh.env,
                                    dirs |-> sh.dirs, outer |-> sh.outer]
    BY <2>1
  <2>4. Statics!Ran = Effect("ok", sh.dirs) /\ Statics!Failed = Effect("failed", sh.dirs)
    BY Effects DEF ScriptInvariant
  <2>5. [Statics!Ran EXCEPT !.cwd = place] = [status |-> "ok", cwd |-> place, var |-> sh.var, env |-> sh.env,
                                              dirs |-> sh.dirs, outer |-> sh.outer]
    BY <2>4 DEF Effect
  <2>6. Statics!Shell(sep, FALSE, moved) = IF j = "ok" THEN moved ELSE [sh EXCEPT !.status = j]
    BY <2>3 DEF Statics!Shell
  <2>7. Statics!Shell(sep, FALSE, moved) = s
    <3>1. CASE j = "ok" /\ place \in sh.dirs
      BY <2>5, <2>6, <3>1
    <3>2. CASE j = "ok" /\ place \notin sh.dirs
      BY <2>4, <2>6, <3>2 DEF Effect
    <3>3. CASE j # "ok"
      BY <2>3, <2>6, <3>3
    <3> QED BY <3>1, <3>2, <3>3
  <2>8. [s EXCEPT !.outer = sh.cwd] = [status |-> status, cwd |-> cwd, var |-> sh.var, env |-> sh.env,
                                       dirs |-> sh.dirs, outer |-> sh.cwd]
    <3> HIDE DEF status, cwd
    <3> QED OBVIOUS
  <2> HIDE DEF moved, status, cwd
  <2> QED BY <2>2, <2>7, <2>8
<1>6. /\ status \in {"ok", "failed", "skipping", "dead"}
      /\ status = "ok" => sh.status = "ok" /\ cwd = place
      /\ status = "skipping" => sh.outer # Statics!Unknown
      /\ cwd = place \/ cwd = sh.cwd
      /\ outer = IF open THEN sh.cwd ELSE sh.outer
  BY <1>2
<1> HIDE DEF place, named, j, status, cwd, outer
<1>7. /\ sh'.status = status /\ sh'.cwd = cwd /\ sh'.var = sh.var /\ sh'.env = sh.env
      /\ sh'.dirs = sh.dirs /\ sh'.outer = outer
  BY <1>5
<1>8. track' = [cwd |-> named, var |-> track.var, start |-> track.start, restore |-> track.restore \/ open]
  BY <1>1 DEF ScriptInvariant, ScriptTypes
<1>9. /\ track'.cwd = named /\ track'.var = track.var /\ track'.start = track.start
      /\ track'.restore = (track.restore \/ open)
  BY <1>8
<1>10. Statics!Anchored(sh.cwd) /\ sh.cwd # Statics!Unknown
  BY DEF ScriptInvariant, ScriptTypes, Statics!Anchored, Statics!Unknown, Statics!Path, Statics!Anchors
<1>11. ScriptTypes'
  <2>1. Placed(outer) /\ Statics!Anchored(cwd)
    BY <1>4, <1>6, <1>10 DEF ScriptInvariant, ScriptTypes, Placed
  <2>2. track'.restore \in BOOLEAN
    BY <1>9
  <2>3. /\ sh' = [status |-> sh'.status, cwd |-> sh'.cwd, var |-> sh'.var, env |-> sh'.env,
                 dirs |-> sh'.dirs, outer |-> sh'.outer]
        /\ track' = [cwd |-> track'.cwd, var |-> track'.var, start |-> track'.start, restore |-> track'.restore]
    BY <1>5, <1>7, <1>8, <1>9
  <2> QED BY <1>1, <1>4, <1>6, <1>7, <1>9, <2>1, <2>2, <2>3 DEF ScriptInvariant, ScriptTypes
<1>12. Groups'
  <2>1. outer # Statics!Unknown <=> (track.restore \/ open)
    BY <1>2, <1>3, <1>6, <1>10 DEF ScriptInvariant, Groups
  <2>2. status = "skipping" => outer # Statics!Unknown
    BY <1>6, <1>10
  <2> QED BY <1>1, <1>7, <1>9, <2>1, <2>2 DEF Groups
<1>13. RuleFollows'
  <2>1. Agree(track'.var, sh'.var)
    BY <1>7, <1>9 DEF ScriptInvariant, RuleFollows
  <2>2. status = "ok" => Agree(named, cwd)
    BY <1>4, <1>6
  <2>3. outer # Statics!Unknown => Agree(track.start, outer)
    <3>1. CASE open = TRUE
      BY <1>3, <1>6, <3>1 DEF ScriptInvariant, RuleFollows, Groups
    <3>2. CASE open = FALSE
      BY <1>6, <3>2 DEF ScriptInvariant, RuleFollows
    <3> QED BY <3>1, <3>2
  <2> QED BY <1>1, <1>7, <1>9, <2>1, <2>2, <2>3 DEF RuleFollows
<1> QED BY <1>1, <1>11, <1>12, <1>13 DEF ScriptInvariant

\* The one variable is assigned first on a line, and followed where it can be.
LEMMA AssignKeeps ==
    ASSUME OnlyChecks, ScriptInvariant, NEW p \in Assigned, Statics!Assign(p)
    PROVE  ScriptInvariant'
<1> DEFINE place == Statics!Real(sh, p)
           named == Statics!sandboxCwdTarget(p)
           var == IF named = Statics!Unknown THEN track.var ELSE named
<1>1. /\ Statics!Follows("first", FALSE) /\ Statics!Shallow(p)
      /\ track.var # Statics!Unknown => named # Statics!Unknown
      /\ track' = IF named = Statics!Unknown THEN track ELSE [track EXCEPT !.var = named]
      /\ sh' = [Statics!Ran EXCEPT !.var = place]
      /\ line' = "open" /\ UNCHANGED <<findings, events>>
  BY DEF Statics!Assign, OnlyChecks
<1>2. line = "fresh" /\ sh.status = "ok"
  BY <1>1, JoinedStatus DEF ScriptInvariant, Statics!Seps
<1>3. sh.outer = Statics!Unknown /\ ~track.restore /\ Agree(track.cwd, sh.cwd)
  BY <1>2 DEF ScriptInvariant, Groups, RuleFollows
<1>4. Statics!Anchored(place) /\ Tracked(named) /\ Agree(named, place)
  <2>1. p.at \in Statics!Starts /\ Statics!Known(p)
    BY <1>1, StaticsConstants DEF Statics!StaticsAssumption, Statics!Shallow
  <2> QED BY <1>3, <2>1, TextsArePlaces, ResolvedAlike DEF ScriptInvariant, RuleFollows
<1>5. sh' = [status |-> "ok", cwd |-> sh.cwd, var |-> place, env |-> sh.env, dirs |-> sh.dirs, outer |-> sh.outer]
  <2>1. Statics!Ran = Effect("ok", sh.dirs)
    BY Effects DEF ScriptInvariant
  <2> QED BY <1>1, <2>1 DEF Effect
<1>6. track' = [cwd |-> track.cwd, var |-> var, start |-> track.start, restore |-> track.restore]
  BY <1>1 DEF ScriptInvariant, ScriptTypes
<1>7. Tracked(var) /\ Agree(var, place)
  <2>1. ~Statics!Anchored(Statics!Unknown)
    BY DEF Statics!Anchored, Statics!Unknown, Statics!Path, Statics!Anchors
  <2> QED BY <1>1, <1>4, <2>1 DEF Agree, ScriptInvariant, ScriptTypes
<1> HIDE DEF place, named, var
<1>8. /\ sh'.status = "ok" /\ sh'.cwd = sh.cwd /\ sh'.var = place /\ sh'.env = sh.env
      /\ sh'.dirs = sh.dirs /\ sh'.outer = sh.outer
      /\ track'.cwd = track.cwd /\ track'.var = var /\ track'.start = track.start
      /\ track'.restore = track.restore
  BY <1>5, <1>6
<1>9. ScriptTypes'
  <2>1. /\ sh' = [status |-> sh'.status, cwd |-> sh'.cwd, var |-> sh'.var, env |-> sh'.env,
                  dirs |-> sh'.dirs, outer |-> sh'.outer]
        /\ track' = [cwd |-> track'.cwd, var |-> track'.var, start |-> track'.start, restore |-> track'.restore]
    BY <1>5, <1>6, <1>8
  <2> QED BY <1>1, <1>4, <1>7, <1>8, <2>1 DEF ScriptInvariant, ScriptTypes, Placed
<1>10. Groups'
  BY <1>1, <1>3, <1>8 DEF Groups
<1>11. RuleFollows'
  BY <1>1, <1>3, <1>7, <1>8 DEF RuleFollows
<1> QED BY <1>1, <1>9, <1>10, <1>11 DEF ScriptInvariant

\* The end of a line, or of a check.
LEMMA AfterLineKeeps ==
    ASSUME ScriptInvariant, Statics!AfterLine
    PROVE  ScriptInvariant'
<1> DEFINE cwd == IF track.restore THEN track.start ELSE track.cwd
           status == Statics!Joined(";")
<1>1. /\ line # "fresh" /\ sh.outer = Statics!Unknown /\ sh.status # "dead"
      /\ line' = "fresh" /\ UNCHANGED <<findings, events>>
      /\ track' = [track EXCEPT !.cwd = cwd, !.start = cwd, !.restore = FALSE]
      /\ sh' = [sh EXCEPT !.status = status]
  BY DEF Statics!AfterLine, Statics!EndLine
<1>2. sh' = [status |-> status, cwd |-> sh.cwd, var |-> sh.var, env |-> sh.env, dirs |-> sh.dirs, outer |-> sh.outer]
  BY <1>1 DEF ScriptInvariant, ScriptTypes
<1>3. track' = [cwd |-> cwd, var |-> track.var, start |-> cwd, restore |-> FALSE]
  BY <1>1 DEF ScriptInvariant, ScriptTypes
<1>4. sh.status \in {"ok", "failed"} /\ line \in {"open", "closed"}
  BY <1>1 DEF ScriptInvariant, ScriptTypes, Groups
<1>5. status \in {"ok", "dead"} /\ (status = "ok" => sh.status = "ok")
  BY <1>4 DEF Statics!Joined
<1>6. /\ Tracked(cwd)
      /\ sh.status = "ok" => Agree(cwd, sh.cwd)
  BY <1>1, <1>4 DEF ScriptInvariant, ScriptTypes, Groups, RuleFollows
<1> HIDE DEF cwd, status
<1>7. /\ sh'.status = status /\ sh'.cwd = sh.cwd /\ sh'.var = sh.var /\ sh'.env = sh.env
      /\ sh'.dirs = sh.dirs /\ sh'.outer = sh.outer
      /\ track'.cwd = cwd /\ track'.var = track.var /\ track'.start = cwd /\ track'.restore = FALSE
  BY <1>2, <1>3
<1>8. ScriptTypes'
  <2>1. /\ sh' = [status |-> sh'.status, cwd |-> sh'.cwd, var |-> sh'.var, env |-> sh'.env,
                  dirs |-> sh'.dirs, outer |-> sh'.outer]
        /\ track' = [cwd |-> track'.cwd, var |-> track'.var, start |-> track'.start, restore |-> track'.restore]
    BY <1>2, <1>3, <1>7
  <2> QED BY <1>1, <1>5, <1>6, <1>7, <2>1 DEF ScriptInvariant, ScriptTypes
<1>9. Groups'
  BY <1>1, <1>5, <1>7 DEF Groups
<1>10. RuleFollows'
  BY <1>1, <1>5, <1>6, <1>7 DEF RuleFollows, ScriptInvariant
<1> QED BY <1>1, <1>8, <1>9, <1>10 DEF ScriptInvariant

LEMMA ScriptKeeps ==
    ASSUME OnlyChecks, ScriptInvariant, [Statics!Next]_scriptVars
    PROVE  ScriptInvariant'
<1>1. CASE Statics!NextLine \/ Statics!NextCheck
  BY <1>1, AfterLineKeeps DEF Statics!NextLine, Statics!NextCheck
<1>2. CASE \E p \in Assigned : Statics!Assign(p)
  BY <1>2, AssignKeeps
<1>3. CASE \E p \in Texts, sep \in Statics!Seps, open \in BOOLEAN : Statics!ChangeDir(p, sep, open)
  BY <1>3, ChangeDirKeeps
<1>4. CASE \E p \in Texts, sep \in Statics!Seps, recursive, close \in BOOLEAN :
              Statics!MakeDir(p, recursive, sep, close)
  BY <1>4, MakeDirKeeps
<1>5. CASE \E p \in Texts, sep \in Statics!Seps, close \in BOOLEAN : Statics!WriteFile(p, sep, close)
  BY <1>5, WriteFileKeeps
<1>6. CASE \E p \in Texts, sep \in Statics!Seps, close \in BOOLEAN, form \in {"plain", "workspace", "inline"} :
              Statics!RunCli(form, p, sep, close)
  BY <1>6, RunCliKeeps
<1>7. CASE UNCHANGED scriptVars
  BY <1>7 DEF scriptVars, ScriptInvariant, ScriptTypes, Groups, RuleFollows
<1> QED BY <1>1, <1>2, <1>3, <1>4, <1>5, <1>6, <1>7 DEF Statics!Next

LEMMA ScriptStarts ==
    ASSUME Statics!Init
    PROVE  ScriptInvariant
<1>1. /\ sh.status = "ok" /\ sh.cwd.at = "home" /\ sh.env.at = "home"
      /\ sh.var = Statics!Unknown /\ sh.outer = Statics!Unknown
      /\ sh = [status |-> sh.status, cwd |-> sh.cwd, var |-> sh.var, env |-> sh.env,
               dirs |-> sh.dirs, outer |-> sh.outer]
  BY DEF Statics!Init, Statics!Worktree, Statics!Path
<1>2. /\ track.cwd.at = "PWD" /\ track.start = track.cwd /\ track.var = Statics!Unknown
      /\ track.restore = FALSE
      /\ track = [cwd |-> track.cwd, var |-> track.var, start |-> track.start, restore |-> track.restore]
  BY DEF Statics!Init, Statics!Path
<1>3. line = "fresh" /\ events = {}
  BY DEF Statics!Init
<1>4. Statics!Unknown.at = "unknown"
  BY DEF Statics!Unknown, Statics!Path
<1>5. ScriptTypes
  BY <1>1, <1>2, <1>3 DEF ScriptTypes, Tracked, Placed, Statics!Anchored, Statics!Anchors
<1>6. Groups
  BY <1>1, <1>2, <1>3 DEF Groups
<1>7. RuleFollows
  BY <1>1, <1>2, <1>3, <1>4 DEF RuleFollows, Agree, Statics!Anchored, Statics!Anchors
<1> QED BY <1>3, <1>5, <1>6, <1>7 DEF ScriptInvariant

\* A script of any number of statements and checks, over any paths, runs the CLI
\* outside of every sandbox from a directory the rule followed only with a finding,
\* if it is written in none of the ways SmokeStatics names in Shapes
\* (smoke-protocol.ts).
THEOREM SandboxesHold == OnlyChecks /\ PartsSpec => []CliStaysInSandbox
<1>1. PartsInit => ScriptInvariant
  BY ScriptStarts DEF PartsInit
<1>2. OnlyChecks /\ ScriptInvariant /\ [PartsNext]_<<gateVars, scriptVars, planVars, part>>
        => ScriptInvariant'
  BY ScriptKeeps DEF PartsNext
<1>3. ScriptInvariant => CliStaysInSandbox
  BY DEF ScriptInvariant, CliStaysInSandbox, Statics!CliStaysInSandbox
<1>4. OnlyChecks => []OnlyChecks
  <2>1. OnlyChecks => OnlyChecks'
    BY DEF OnlyChecks
  <2> QED
    OBVIOUS
<1> QED BY <1>1, <1>2, <1>3, <1>4, PTL DEF PartsSpec

-----------------------------------------------------------------------------
(* Lists of names, walked in two parts.                                    *)

UpFold == INSTANCE FoldTheorems
    WITH Add <- Statics!Up, Values <- Seq(STRING), Elements <- STRING

\* A name leads from one list of names to another.
LEMMA UpTyped ==
    ASSUME NEW s \in Seq(STRING), NEW e \in STRING
    PROVE  /\ Statics!Up(s, e) \in Seq(STRING)
           /\ e # ".." => Statics!Up(s, e) = Append(s, e)
           /\ e = ".." => Len(Statics!Up(s, e)) <= Len(s)
                          /\ \A i \in 1..Len(Statics!Up(s, e)) : Statics!Up(s, e)[i] = s[i]
<1>1. CASE e # ".."
  BY <1>1 DEF Statics!Up
<1>2. CASE e = ".." /\ s = <<>>
  BY <1>2 DEF Statics!Up
<1>3. CASE e = ".." /\ s # <<>>
  <2>1. Statics!Up(s, e) = SubSeq(s, 1, Len(s) - 1) /\ Len(s) \in Nat \ {0}
    BY <1>3 DEF Statics!Up, Statics!Front
  <2>2. /\ SubSeq(s, 1, Len(s) - 1) \in Seq(STRING) /\ Len(SubSeq(s, 1, Len(s) - 1)) = Len(s) - 1
        /\ \A i \in 1..(Len(s) - 1) : SubSeq(s, 1, Len(s) - 1)[i] = s[i]
    <3>1. \A i \in 1..(Len(s) - 1) : s[i] \in STRING
      OBVIOUS
    <3> DEFINE n == Len(s) - 1
    <3>2. n \in Nat /\ \A i \in 1..n : s[i] \in STRING
      BY <2>1, <3>1
    <3>3. /\ SubSeq(s, 1, n) \in Seq(STRING)
          /\ Len(SubSeq(s, 1, n)) = IF 1 <= n THEN n - 1 + 1 ELSE 0
          /\ \A i \in 1..(n - 1 + 1) : SubSeq(s, 1, n)[i] = s[1 + i - 1]
      <4> HIDE DEF n
      <4> QED BY <3>2, SubSeqProperties, 1 \in Int, n \in Int
    <3>4. Len(SubSeq(s, 1, n)) = n /\ \A i \in 1..n : SubSeq(s, 1, n)[i] = s[i]
      <4> HIDE DEF n
      <4> QED BY <3>2, <3>3
    <3> QED BY <3>3, <3>4
  <2> QED BY <1>3, <2>1, <2>2
<1> QED BY <1>1, <1>2, <1>3

\* p is the run of names through a path.
Walks(p, names) ==
    /\ p \in [0..Len(names) -> Seq(STRING)]
    /\ p[0] = <<>>
    /\ \A k \in 1..Len(names) : p[k] = Statics!Up(p[k - 1], names[k])

LEMMA FoldWalks ==
    ASSUME NEW names \in Seq(STRING)
    PROVE  \E p : Walks(p, names) /\ Statics!Fold(names) = p[Len(names)]
<1>1. \A s \in Seq(STRING), e \in STRING : Statics!Up(s, e) \in Seq(STRING)
  BY UpTyped
<1>2. Statics!Fold(names) = UpFold!Fold(<<>>, names)
  BY DEF Statics!Fold, Statics!FoldLeft, Statics!MapThenFoldSet, Statics!Max,
         UpFold!Fold, UpFold!FoldLeft, UpFold!MapThenFoldSet, UpFold!Max
<1>3. <<>> \in Seq(STRING)
  OBVIOUS
<1>4. PICK p \in [0..Len(names) -> Seq(STRING)] :
              /\ p[0] = <<>>
              /\ \A k \in 1..Len(names) : p[k] = Statics!Up(p[k - 1], names[k])
              /\ UpFold!Fold(<<>>, names) = p[Len(names)]
  BY <1>1, <1>3, UpFold!FoldRuns
<1> QED BY <1>2, <1>4 DEF Walks

\* A path that was walked holds no `..` any more.
LEMMA FoldClean ==
    ASSUME NEW names \in Seq(STRING)
    PROVE  /\ Statics!Fold(names) \in Seq(STRING)
           /\ \A i \in 1..Len(Statics!Fold(names)) : Statics!Fold(names)[i] # ".."
<1>1. PICK p : Walks(p, names) /\ Statics!Fold(names) = p[Len(names)]
  BY FoldWalks
<1> DEFINE n == Len(names)
           Clean(s) == \A i \in 1..Len(s) : s[i] # ".."
           T == {k \in 0..n : Clean(p[k])}
<1>2. n \in Nat /\ p[0] = <<>> /\ \A k \in 1..n : /\ p[k] = Statics!Up(p[k - 1], names[k])
                                                  /\ p[k - 1] \in Seq(STRING) /\ names[k] \in STRING
  BY <1>1 DEF Walks
<1> HIDE DEF n
<1>3. 0 \in T
  BY <1>2
<1>4. ASSUME NEW k \in 0..(n - 1), k \in T PROVE k + 1 \in T
  <2> DEFINE s == p[k]
             e == names[k + 1]
             u == Statics!Up(s, e)
  <2>1. k + 1 \in 1..n /\ (k + 1) - 1 = k
    BY <1>2
  <2>2. p[k + 1] = u /\ s \in Seq(STRING) /\ e \in STRING /\ Clean(s)
    BY <1>2, <1>4, <2>1
  <2>3. /\ e # ".." => u = Append(s, e)
        /\ e = ".." => Len(u) <= Len(s) /\ \A i \in 1..Len(u) : u[i] = s[i]
        /\ u \in Seq(STRING)
    BY <2>2, UpTyped
  <2>4. Clean(u)
    <3> HIDE DEF u, s, e
    <3>1. CASE e = ".."
      BY <2>2, <2>3, <3>1
    <3>2. CASE e # ".."
      BY <2>2, <2>3, <3>2
    <3> QED BY <3>1, <3>2
  <2> QED BY <1>2, <2>1, <2>2, <2>4
<1>5. T = 0..n
  <2> HIDE DEF T
  <2> QED BY <1>2, <1>3, <1>4, UpFold!UpTo, T \in SUBSET (0..n) DEF T
<1>6. n \in T /\ p[n] \in Seq(STRING)
  BY <1>1, <1>2, <1>5 DEF Walks, n
<1> QED BY <1>1, <1>6 DEF n

\* The names of a path are the same whether its beginning was walked before.
LEMMA FoldsOnce ==
    ASSUME NEW a \in Seq(STRING), NEW b \in Seq(STRING)
    PROVE  Statics!Fold(Statics!Fold(a) \o b) = Statics!Fold(a \o b)
<1> DEFINE c == Statics!Fold(a)
           n == Len(a)
           m == Len(c)
           l == Len(b)
<1>1. c \in Seq(STRING) /\ \A i \in 1..m : c[i] # ".."
  BY FoldClean
<1>2. PICK p : Walks(p, a) /\ c = p[n]
  BY FoldWalks
<1> HIDE DEF c
<1>3. n \in Nat /\ m \in Nat /\ l \in Nat
  BY <1>1
<1>12. /\ c \o b \in Seq(STRING) /\ a \o b \in Seq(STRING)
       /\ Len(c \o b) = m + l /\ Len(a \o b) = n + l
       /\ \A i \in 1..m : (c \o b)[i] = c[i]
       /\ \A i \in 1..n : (a \o b)[i] = a[i]
       /\ \A i \in 1..l : (c \o b)[m + i] = b[i] /\ (a \o b)[n + i] = b[i]
  BY <1>1
<1>4. PICK q : Walks(q, c \o b) /\ Statics!Fold(c \o b) = q[Len(c \o b)]
  BY <1>12, FoldWalks
<1>5. PICK r : Walks(r, a \o b) /\ Statics!Fold(a \o b) = r[Len(a \o b)]
  BY <1>12, FoldWalks
<1>6. p[0] = <<>> /\ \A k \in 1..n : p[k] = Statics!Up(p[k - 1], a[k])
  BY <1>2 DEF Walks
<1>7. q[0] = <<>> /\ \A k \in 1..(m + l) : q[k] = Statics!Up(q[k - 1], (c \o b)[k])
  BY <1>12, <1>4 DEF Walks
<1>8. r[0] = <<>> /\ \A k \in 1..(n + l) : r[k] = Statics!Up(r[k - 1], (a \o b)[k])
  BY <1>12, <1>5 DEF Walks
<1> HIDE DEF n, m, l
<1>9. q[m] = c
  <2> DEFINE T == {k \in 0..m : q[k] = SubSeq(c, 1, k)}
  <2>1. 0 \in T
    <3>1. SubSeq(c, 1, 0) = <<>>
      BY SubSeqEmpty, 1 \in Int, 0 \in Int, 0 < 1
    <3>2. 0 \in 0..m /\ q[0] = SubSeq(c, 1, 0)
      BY <1>3, <1>7, <3>1
    <3> QED BY <3>2
  <2>2. ASSUME NEW k \in 0..(m - 1), k \in T PROVE k + 1 \in T
    <3>1. k + 1 \in 1..(m + l) /\ k + 1 \in 1..m /\ k + 1 \in 0..m /\ (k + 1) - 1 = k
      BY <1>3
    <3>2. c[k + 1] \in STRING /\ c[k + 1] # ".." /\ SubSeq(c, 1, k) \in Seq(STRING)
      BY <1>1, <3>1 DEF m
    <3>3. q[k + 1] = Statics!Up(SubSeq(c, 1, k), c[k + 1])
      BY <1>12, <1>3, <1>7, <2>2, <3>1
    <3>4. q[k + 1] = Append(SubSeq(c, 1, k), c[k + 1])
      BY <3>2, <3>3, UpTyped
    <3>5. Append(SubSeq(c, 1, k), c[k + 1]) = SubSeq(c, 1, k + 1)
      BY <1>1, <3>1 DEF m
    <3> QED BY <3>1, <3>4, <3>5
  <2>3. T = 0..m
    <3> HIDE DEF T
    <3> QED BY <1>3, <2>1, <2>2, UpFold!UpTo, T \in SUBSET (0..m) DEF T
  <2>4. m \in T
    <3>1. m \in 0..m
      BY <1>3
    <3> HIDE DEF T
    <3> QED BY <2>3, <3>1
  <2> QED BY <1>1, <2>4 DEF m
<1>10. r[n] = c
  <2> DEFINE T == {k \in 0..n : r[k] = p[k]}
  <2>1. 0 \in T
    BY <1>3, <1>6, <1>8
  <2>2. ASSUME NEW k \in 0..(n - 1), k \in T PROVE k + 1 \in T
    <3>1. k + 1 \in 1..(n + l) /\ k + 1 \in 1..n /\ k + 1 \in 0..n /\ (k + 1) - 1 = k
      BY <1>3
    <3>2. (a \o b)[k + 1] = a[k + 1]
      BY <1>12, <3>1
    <3>3. r[k + 1] = Statics!Up(r[k], a[k + 1]) /\ p[k + 1] = Statics!Up(p[k], a[k + 1])
      BY <1>6, <1>8, <3>1, <3>2
    <3> QED BY <2>2, <3>1, <3>3
  <2>3. T = 0..n
    <3> HIDE DEF T
    <3> QED BY <1>3, <2>1, <2>2, UpFold!UpTo, T \in SUBSET (0..n) DEF T
  <2>4. n \in T
    <3>1. n \in 0..n
      BY <1>3
    <3> HIDE DEF T
    <3> QED BY <2>3, <3>1
  <2> QED BY <1>2, <2>4
<1>11. q[m + l] = r[n + l]
  <2> DEFINE T == {j \in 0..l : q[m + j] = r[n + j]}
  <2>1. 0 \in T
    BY <1>3, <1>9, <1>10
  <2>2. ASSUME NEW j \in 0..(l - 1), j \in T PROVE j + 1 \in T
    <3>1. /\ j + 1 \in 1..l /\ j + 1 \in 0..l
          /\ m + (j + 1) \in 1..(m + l) /\ n + (j + 1) \in 1..(n + l)
          /\ (m + (j + 1)) - 1 = m + j /\ (n + (j + 1)) - 1 = n + j
      BY <1>3
    <3>2. q[m + (j + 1)] = Statics!Up(q[m + j], b[j + 1])
      BY <1>12, <1>7, <3>1
    <3>3. r[n + (j + 1)] = Statics!Up(r[n + j], b[j + 1])
      BY <1>12, <1>8, <3>1
    <3> QED BY <2>2, <3>1, <3>2, <3>3
  <2>3. T = 0..l
    <3> HIDE DEF T
    <3> QED BY <1>3, <2>1, <2>2, UpFold!UpTo, T \in SUBSET (0..l) DEF T
  <2>4. l \in T
    <3>1. l \in 0..l
      BY <1>3
    <3> HIDE DEF T
    <3> QED BY <2>3, <3>1
  <2> QED BY <2>4
<1> QED BY <1>12, <1>4, <1>5, <1>11 DEF c

-----------------------------------------------------------------------------
(* The parent rule beside the shell.                                       *)

\* What the rule is not about: a CLI that was sent elsewhere, a later cd of a group.
Excused == events \intersect {"elsewhere", "outlasting cd"} # {}

ScanTypes ==
    /\ scan = [cwd |-> scan.cwd, var |-> scan.var, covered |-> scan.covered, roots |-> scan.roots]
    /\ scan.var = Statics!Unknown \/ (scan.var \in Assigned /\ Statics!Anchored(scan.var))
    /\ scan.cwd = Statics!Unknown
       \/ (Statics!Anchored(scan.cwd) /\ scan.cwd.names \in Seq(STRING)
           /\ scan.cwd = Statics!Path(scan.cwd.at, scan.cwd.names))

\* A directory the rule knows is the shell's, or the one a group returns to; what
\* it holds for created is there, and what a CLI makes is where the rule saw one run.
ScanFollows ==
    /\ scan.cwd # Statics!Unknown
          => scan.cwd = IF sh.outer = Statics!Unknown THEN sh.cwd ELSE sh.outer
    /\ \A d \in scan.covered : Statics!Anchored(d) => d \in sh.dirs
    /\ \A root \in scan.roots :
          Statics!Anchored(root) => Statics!Path(root.at, Append(root.names, "st")) \in sh.dirs

ScanInvariant ==
    /\ ScanTypes
    /\ scan.var # Statics!Unknown => sh.var = Statics!normaliseLexicalPath(scan.var)
    /\ sh.status = "ok" /\ ~Excused => ScanFollows
    /\ Statics!AlwaysPresent \subseteq sh.dirs
    /\ "lost write" \in events /\ ~Excused => "missing-parent-directory" \in findings

LEMMA TextsTyped ==
    ASSUME NEW p \in Texts \union Assigned
    PROVE  p.at \in Statics!Starts /\ p.names \in Seq(STRING) /\ p = Statics!Path(p.at, p.names)
BY StaticsConstants DEF Statics!StaticsAssumption, Statics!Path

\* A path with an anchor keeps it, and its names are walked.
LEMMA AnchoredPaths ==
    ASSUME NEW p, Statics!Anchored(p), p.names \in Seq(STRING)
    PROVE  LET q == Statics!normaliseLexicalPath(p)
           IN  /\ q = Statics!Path(p.at, Statics!Fold(p.names))
               /\ Statics!Anchored(q) /\ q.at = p.at /\ q.names \in Seq(STRING)
               /\ q = Statics!Path(q.at, q.names)
<1>1. p.at # "PWD"
  BY DEF Statics!Anchored, Statics!Anchors
<1>2. Statics!normaliseLexicalPath(p) = Statics!Path(p.at, Statics!Fold(p.names))
  BY <1>1 DEF Statics!normaliseLexicalPath
<1> QED BY <1>2, FoldClean DEF Statics!Path, Statics!Anchored

\* The value of the variable the rule knows, and names after it.
LEMMA VariableAlike ==
    ASSUME ScanInvariant, NEW p \in Texts \union Assigned, p.at = "var", scan.var # Statics!Unknown
    PROVE  LET r == Statics!Expand(p, scan.var)
           IN  /\ Statics!Anchored(r) /\ r.at = scan.var.at /\ r.names \in Seq(STRING)
               /\ Statics!normaliseLexicalPath(r) = Statics!Real(sh, p)
<1> DEFINE r == Statics!Expand(p, scan.var)
           v == scan.var
<1>1. p.names \in Seq(STRING) /\ v \in Assigned /\ Statics!Anchored(v)
      /\ v.names \in Seq(STRING)
  BY TextsTyped DEF ScanInvariant, ScanTypes
<1>2. r = Statics!Path(v.at, v.names \o p.names)
  BY DEF Statics!Expand
<1>3. r.at = v.at /\ r.names = v.names \o p.names /\ Statics!Anchored(r) /\ r.names \in Seq(STRING)
  <2>1. v.names \o p.names \in Seq(STRING)
    BY <1>1
  <2>2. r.at = v.at /\ r.names = v.names \o p.names
    <3> DEFINE names == v.names \o p.names
    <3>1. r = Statics!Path(v.at, names)
      BY <1>2
    <3> HIDE DEF r, v, names
    <3>2. r.at = v.at /\ r.names = names
      BY <3>1 DEF Statics!Path
    <3> QED BY <3>2 DEF names
  <2> HIDE DEF r
  <2> QED BY <1>1, <2>1, <2>2 DEF Statics!Anchored
<1>4. Statics!normaliseLexicalPath(r) = Statics!Path(v.at, Statics!Fold(v.names \o p.names))
  BY <1>3, AnchoredPaths
<1>5. sh.var = Statics!Path(v.at, Statics!Fold(v.names))
  BY <1>1, AnchoredPaths DEF ScanInvariant
<1>6. Statics!Real(sh, p) = Statics!Below(sh.var, p)
  BY DEF Statics!Real, Statics!Anchored, Statics!Anchors
<1> DEFINE u == Statics!Path(v.at, Statics!Fold(v.names) \o p.names)
<1>7. Statics!Real(sh, p) = Statics!normaliseLexicalPath(u)
  BY <1>5, <1>6 DEF Statics!Below, Statics!Path
<1>8. Statics!Anchored(u) /\ u.at = v.at /\ u.names = Statics!Fold(v.names) \o p.names
      /\ u.names \in Seq(STRING)
  <2>1. Statics!Fold(v.names) \in Seq(STRING)
    BY <1>1, FoldClean
  <2>2. Statics!Fold(v.names) \o p.names \in Seq(STRING)
    BY <1>1, <2>1
  <2> QED BY <1>1, <2>2 DEF Statics!Path, Statics!Anchored
<1>9. Statics!Real(sh, p) = Statics!Path(v.at, Statics!Fold(Statics!Fold(v.names) \o p.names))
  <2> HIDE DEF u
  <2> QED BY <1>7, <1>8, AnchoredPaths
<1> HIDE DEF r
<1>10. Statics!normaliseLexicalPath(r) = Statics!Real(sh, p)
  BY <1>1, <1>4, <1>9, FoldsOnce
<1> QED BY <1>3, <1>10 DEF r

\* Where the rule knows the directory and the shell is in it, a path it resolves
\* is the one the shell means.
LEMMA ComparedAlike ==
    ASSUME ScanInvariant, ScanFollows, NEW p \in Texts \union Assigned,
           p.at = "here" => sh.outer = Statics!Unknown,
           Statics!Anchored(Statics!resolveComparable(p))
    PROVE  /\ Statics!resolveComparable(p) = Statics!Real(sh, p)
           /\ Statics!resolveComparable(p).names \in Seq(STRING)
<1> DEFINE r == Statics!Expand(p, scan.var)
           c == Statics!resolveComparable(p)
<1>1. c = IF r.at = "here" /\ scan.cwd # Statics!Unknown THEN Statics!Below(scan.cwd, r)
          ELSE Statics!normaliseLexicalPath(r)
  BY DEF Statics!resolveComparable
<1>2. p.at \in Statics!Starts /\ p.names \in Seq(STRING)
  BY TextsTyped
<1>3. CASE Statics!Anchored(p)
  <2>1. r = p /\ p.at # "here" /\ c = Statics!normaliseLexicalPath(p)
    BY <1>1, <1>3 DEF Statics!Expand, Statics!Anchored, Statics!Anchors
  <2>2. Statics!Real(sh, p) = Statics!normaliseLexicalPath(p)
    BY <1>3 DEF Statics!Real, Statics!Anchored, Statics!Anchors
  <2> QED BY <1>2, <1>3, <2>1, <2>2, AnchoredPaths
<1>4. CASE p.at = "here"
  <2>1. r = p
    BY <1>4 DEF Statics!Expand
  <2>2. scan.cwd # Statics!Unknown
    BY <1>1, <1>4, <2>1, Anchoring DEF Statics!Anchored, Statics!Anchors
  <2>3. scan.cwd = sh.cwd
    BY <1>4, <2>2 DEF ScanFollows
  <2>4. c = Statics!Below(scan.cwd, p) /\ Statics!Real(sh, p) = Statics!Below(sh.cwd, p)
    BY <1>1, <1>4, <2>1, <2>2 DEF Statics!Real, Statics!Anchored, Statics!Anchors
  <2>5. Statics!Anchored(scan.cwd) /\ scan.cwd.names \in Seq(STRING)
    BY <2>2 DEF ScanInvariant, ScanTypes
  <2> DEFINE u == Statics!Path(scan.cwd.at, scan.cwd.names \o p.names)
  <2>6. c = Statics!normaliseLexicalPath(u)
    BY <2>4 DEF Statics!Below
  <2>7. scan.cwd.names \o p.names \in Seq(STRING)
    BY <1>2, <2>5
  <2>8. Statics!Anchored(u) /\ u.names \in Seq(STRING)
    BY <2>5, <2>7 DEF Statics!Path, Statics!Anchored
  <2>9. c.names \in Seq(STRING)
    <3> HIDE DEF u
    <3> QED BY <2>6, <2>8, AnchoredPaths
  <2> QED BY <2>3, <2>4, <2>9
<1>5. CASE p.at = "var" /\ scan.var # Statics!Unknown
  <2>1. /\ Statics!Anchored(r) /\ r.names \in Seq(STRING)
        /\ Statics!normaliseLexicalPath(r) = Statics!Real(sh, p)
    BY <1>5, VariableAlike
  <2> HIDE DEF r
  <2>2. c = Statics!normaliseLexicalPath(r)
    BY <1>1, <2>1 DEF Statics!Anchored, Statics!Anchors
  <2> QED BY <2>1, <2>2, AnchoredPaths
<1>6. CASE p.at \in {"PWD", "env"} \/ (p.at = "var" /\ scan.var = Statics!Unknown)
  <2>1. r = p
    BY <1>6 DEF Statics!Expand
  <2>2. c = Statics!normaliseLexicalPath(p)
    BY <1>1, <1>6, <2>1
  <2> QED BY <1>6, <2>2, Anchoring DEF Statics!Anchored, Statics!Anchors
<1> QED BY <1>2, <1>3, <1>4, <1>5, <1>6 DEF Statics!Starts, Statics!Anchored

\* So is the directory a cd leads it to, where the shell follows no group.
LEMMA EnteredAlike ==
    ASSUME ScanInvariant, ScanFollows, NEW p \in Texts \union Assigned,
           sh.outer = Statics!Unknown, Statics!cdTarget(p) # Statics!Unknown
    PROVE  Statics!cdTarget(p) = Statics!Real(sh, p)
<1> DEFINE r == Statics!Expand(p, scan.var)
           c == Statics!cdTarget(p)
<1>1. /\ r.at \notin {"var", "env", "PWD"}
      /\ c = Statics!resolvePathAgainstCwd(scan.cwd, r)
  BY DEF Statics!cdTarget, Statics!Unresolved
<1>2. p.at \in Statics!Starts
  BY TextsTyped
<1>3. CASE Statics!Anchored(p)
  <2>1. r = p
    BY <1>3 DEF Statics!Expand, Statics!Anchored, Statics!Anchors
  <2>2. Statics!Real(sh, p) = Statics!normaliseLexicalPath(p)
    BY <1>3 DEF Statics!Real, Statics!Anchored, Statics!Anchors
  <2> QED BY <1>1, <1>3, <2>1, <2>2 DEF Statics!resolvePathAgainstCwd
<1>4. CASE p.at = "here"
  <2>1. r = p
    BY <1>4 DEF Statics!Expand
  <2>2. ~Statics!Anchored(p)
    BY <1>4 DEF Statics!Anchored, Statics!Anchors
  <2>3. scan.cwd # Statics!Unknown /\ c = Statics!Below(scan.cwd, p)
    BY <1>1, <2>1, <2>2 DEF Statics!resolvePathAgainstCwd
  <2>4. Statics!Real(sh, p) = Statics!Below(sh.cwd, p)
    BY <1>4 DEF Statics!Real, Statics!Anchored, Statics!Anchors
  <2> QED BY <2>3, <2>4 DEF ScanFollows
<1>5. CASE p.at = "var" /\ scan.var # Statics!Unknown
  <2>1. Statics!Anchored(r) /\ Statics!normaliseLexicalPath(r) = Statics!Real(sh, p)
    BY <1>5, VariableAlike
  <2> HIDE DEF r
  <2> QED BY <1>1, <2>1 DEF Statics!resolvePathAgainstCwd
<1>6. CASE p.at \in {"PWD", "env"} \/ (p.at = "var" /\ scan.var = Statics!Unknown)
  BY <1>1, <1>6 DEF Statics!Expand
<1> QED BY <1>2, <1>3, <1>4, <1>5, <1>6 DEF Statics!Starts, Statics!Anchored

\* It is a directory with an anchor, or none.
LEMMA EnteredTyped ==
    ASSUME ScanInvariant, NEW p \in Texts \union Assigned
    PROVE  LET c == Statics!cdTarget(p)
           IN  \/ c = Statics!Unknown
               \/ Statics!Anchored(c) /\ c.names \in Seq(STRING) /\ c = Statics!Path(c.at, c.names)
<1> DEFINE r == Statics!Expand(p, scan.var)
           c == Statics!cdTarget(p)
<1> SUFFICES ASSUME c # Statics!Unknown
             PROVE  Statics!Anchored(c) /\ c.names \in Seq(STRING) /\ c = Statics!Path(c.at, c.names)
  OBVIOUS
<1>1. /\ r.at \notin {"var", "env", "PWD"}
      /\ c = Statics!resolvePathAgainstCwd(scan.cwd, r)
  BY DEF Statics!cdTarget, Statics!Unresolved
<1>2. p.at \in Statics!Starts /\ p.names \in Seq(STRING)
  BY TextsTyped
<1>3. CASE Statics!Anchored(p) \/ (p.at = "var" /\ scan.var # Statics!Unknown)
  <2>1. Statics!Anchored(r) /\ r.names \in Seq(STRING)
    <3>1. CASE Statics!Anchored(p)
      <4>1. r = p
        BY <3>1 DEF Statics!Expand, Statics!Anchored, Statics!Anchors
      <4> QED BY <1>2, <3>1, <4>1
    <3>2. CASE p.at = "var" /\ scan.var # Statics!Unknown
      BY <3>2, VariableAlike
    <3> QED BY <1>3, <3>1, <3>2
  <2> HIDE DEF r
  <2>2. c = Statics!normaliseLexicalPath(r)
    BY <1>1, <2>1 DEF Statics!resolvePathAgainstCwd
  <2> QED BY <2>1, <2>2, AnchoredPaths
<1>4. CASE p.at = "here"
  <2>1. r = p
    BY <1>4 DEF Statics!Expand
  <2>2. ~Statics!Anchored(p)
    BY <1>4 DEF Statics!Anchored, Statics!Anchors
  <2>3. scan.cwd # Statics!Unknown /\ c = Statics!Below(scan.cwd, p)
    BY <1>1, <2>1, <2>2 DEF Statics!resolvePathAgainstCwd
  <2>5. Statics!Anchored(scan.cwd) /\ scan.cwd.names \in Seq(STRING)
    BY <2>3 DEF ScanInvariant, ScanTypes
  <2> DEFINE u == Statics!Path(scan.cwd.at, scan.cwd.names \o p.names)
  <2>6. c = Statics!normaliseLexicalPath(u)
    BY <2>3 DEF Statics!Below
  <2>7. scan.cwd.names \o p.names \in Seq(STRING)
    BY <1>2, <2>5
  <2>8. Statics!Anchored(u) /\ u.names \in Seq(STRING)
    BY <2>5, <2>7 DEF Statics!Path, Statics!Anchored
  <2> HIDE DEF u
  <2> QED BY <2>6, <2>8, AnchoredPaths
<1>5. CASE p.at \in {"PWD", "env"} \/ (p.at = "var" /\ scan.var = Statics!Unknown)
  BY <1>1, <1>5 DEF Statics!Expand
<1> QED BY <1>2, <1>3, <1>4, <1>5 DEF Statics!Starts, Statics!Anchored

\* What a statement shows that leaves directory and variables alone.
LEMMA StatementShows ==
    ASSUME OnlyChecks, ScriptTypes, Groups,
           NEW sep \in Statics!Seps, NEW close \in BOOLEAN, Statics!Follows(sep, close),
           NEW status \in {"ok", "failed"}, NEW dirs, sh.dirs \subseteq dirs,
           sh' = Statics!Shell(sep, close, Effect(status, dirs))
    PROVE  /\ sh'.status = "ok" => sh.status = "ok" /\ status = "ok" /\ sh'.dirs = dirs
           /\ sh'.var = sh.var
           /\ sh.dirs \subseteq sh'.dirs
           /\ (IF sh'.outer = Statics!Unknown THEN sh'.cwd ELSE sh'.outer)
                 = (IF sh.outer = Statics!Unknown THEN sh.cwd ELSE sh.outer)
<1> DEFINE met == Met(sep, status)
           after == MetDirs(sep, dirs)
<1>1. /\ met \in {"ok", "failed", "skipping", "dead"}
      /\ met = "ok" => sh.status = "ok" /\ status = "ok" /\ after = dirs
      /\ after \in {dirs, sh.dirs}
      /\ sh' = IF ~close
               THEN [status |-> met, cwd |-> sh.cwd, var |-> sh.var, env |-> sh.env,
                     dirs |-> after, outer |-> sh.outer]
               ELSE [status |-> IF met = "skipping" THEN "failed" ELSE met,
                     cwd |-> sh.outer, var |-> sh.var, env |-> sh.env,
                     dirs |-> after, outer |-> Statics!Unknown]
  BY ShellAfter
<1>2. close => sh.outer # Statics!Unknown
  BY JoinedStatus
<1> HIDE DEF met, after
<1>3. CASE close = FALSE
  <2>1. sh' = [status |-> met, cwd |-> sh.cwd, var |-> sh.var, env |-> sh.env,
               dirs |-> after, outer |-> sh.outer]
    BY <1>1, <1>3
  <2>2. /\ sh'.status = met /\ sh'.cwd = sh.cwd /\ sh'.var = sh.var
        /\ sh'.dirs = after /\ sh'.outer = sh.outer
    BY <2>1
  <2> QED BY <1>1, <2>2
<1>4. CASE close = TRUE
  <2> DEFINE left == IF met = "skipping" THEN "failed" ELSE met
  <2>1. sh' = [status |-> left, cwd |-> sh.outer, var |-> sh.var, env |-> sh.env,
               dirs |-> after, outer |-> Statics!Unknown]
    BY <1>1, <1>4
  <2>2. left = "ok" => met = "ok"
    OBVIOUS
  <2> HIDE DEF left
  <2>3. /\ sh'.status = left /\ sh'.cwd = sh.outer /\ sh'.var = sh.var
        /\ sh'.dirs = after /\ sh'.outer = Statics!Unknown
    BY <2>1
  <2> QED BY <1>1, <1>2, <1>4, <2>2, <2>3
<1> QED BY <1>3, <1>4

\* The rule after such a statement, which may have added to what was created and to
\* where a CLI ran.
LEMMA ScanAfter ==
    ASSUME OnlyChecks, ScriptInvariant, ScanInvariant,
           NEW sep \in Statics!Seps, NEW close \in BOOLEAN, Statics!Follows(sep, close),
           NEW status \in {"ok", "failed"}, NEW dirs, sh.dirs \subseteq dirs,
           sh' = Statics!Shell(sep, close, Effect(status, dirs)),
           NEW covered, NEW roots,
           scan' = [cwd |-> scan.cwd, var |-> scan.var, covered |-> covered, roots |-> roots],
           events \subseteq events',
           ScanFollows /\ ~Excused' /\ sh.status = "ok" /\ status = "ok"
              => /\ \A d \in covered : Statics!Anchored(d) => d \in dirs
                 /\ \A root \in roots : Statics!Anchored(root)
                       => Statics!Path(root.at, Append(root.names, "st")) \in dirs,
           "lost write" \in events' /\ ~Excused' => "missing-parent-directory" \in findings'
    PROVE  ScanInvariant'
<1>1. /\ sh'.status = "ok" => sh.status = "ok" /\ status = "ok" /\ sh'.dirs = dirs
      /\ sh'.var = sh.var
      /\ sh.dirs \subseteq sh'.dirs
      /\ (IF sh'.outer = Statics!Unknown THEN sh'.cwd ELSE sh'.outer)
            = (IF sh.outer = Statics!Unknown THEN sh.cwd ELSE sh.outer)
  BY StatementShows DEF ScriptInvariant
<1>2. scan'.cwd = scan.cwd /\ scan'.var = scan.var /\ scan'.covered = covered /\ scan'.roots = roots
  OBVIOUS
<1>3. ~Excused' => ~Excused
  BY DEF Excused
<1>4. ScanTypes'
  BY <1>2 DEF ScanTypes, ScanInvariant
<1>5. scan'.var # Statics!Unknown => sh'.var = Statics!normaliseLexicalPath(scan'.var)
  BY <1>1, <1>2 DEF ScanInvariant
<1>6. ASSUME sh'.status = "ok", ~Excused' PROVE ScanFollows'
  <2>1. ScanFollows
    BY <1>1, <1>3, <1>6 DEF ScanInvariant
  <2>2. /\ \A d \in covered : Statics!Anchored(d) => d \in sh'.dirs
        /\ \A root \in roots : Statics!Anchored(root)
              => Statics!Path(root.at, Append(root.names, "st")) \in sh'.dirs
    BY <1>1, <1>6, <2>1
  <2>3. scan'.cwd # Statics!Unknown
          => scan'.cwd = IF sh'.outer = Statics!Unknown THEN sh'.cwd ELSE sh'.outer
    BY <1>1, <1>2, <2>1 DEF ScanFollows
  <2> QED BY <1>2, <2>2, <2>3 DEF ScanFollows
<1>7. Statics!AlwaysPresent \subseteq sh'.dirs
  BY <1>1 DEF ScanInvariant
<1> QED BY <1>4, <1>5, <1>6, <1>7 DEF ScanInvariant

\* mkdir.
LEMMA MakeDirScanned ==
    ASSUME OnlyChecks, ScriptInvariant, ScanInvariant, NEW p \in Texts, NEW sep \in Statics!Seps,
           NEW recursive \in BOOLEAN, NEW close \in BOOLEAN, Statics!MakeDir(p, recursive, sep, close)
    PROVE  ScanInvariant'
<1> DEFINE dir == Statics!Real(sh, p)
           made == Statics!Created(p, recursive)
           some == IF recursive THEN Statics!Ancestors(dir) ELSE {dir}
           status == IF recursive \/ (Statics!Parent(dir) \in sh.dirs /\ dir \notin sh.dirs)
                     THEN "ok" ELSE "failed"
           dirs == IF status = "ok" THEN sh.dirs \union some ELSE sh.dirs
<1>1. /\ Statics!Follows(sep, close) /\ UNCHANGED <<findings, events>>
      /\ scan' = [scan EXCEPT !.covered = @ \union made]
      /\ Statics!FollowedHere(p)
  BY DEF Statics!MakeDir
<1>2. sh' = Statics!Shell(sep, close, Effect(status, dirs)) /\ sh.dirs \subseteq dirs
  <2>1. sh' = Statics!Shell(sep, close,
                   IF recursive THEN [Statics!Ran EXCEPT !.dirs = @ \union Statics!Ancestors(dir)]
                   ELSE IF Statics!Parent(dir) \in sh.dirs /\ dir \notin sh.dirs
                   THEN [Statics!Ran EXCEPT !.dirs = @ \union {dir}] ELSE Statics!Failed)
    BY DEF Statics!MakeDir
  <2>2. \A more : [Statics!Ran EXCEPT !.dirs = @ \union more] = Effect("ok", sh.dirs \union more)
    BY Effects DEF ScriptInvariant
  <2>3. Statics!Failed = Effect("failed", sh.dirs)
    BY Effects DEF ScriptInvariant
  <2> HIDE DEF dir
  <2> QED BY <2>1, <2>2, <2>3
<1>3. scan' = [cwd |-> scan.cwd, var |-> scan.var, covered |-> scan.covered \union made, roots |-> scan.roots]
  <2> HIDE DEF made
  <2> QED BY <1>1 DEF ScanInvariant, ScanTypes
<1>4. p.at = "here" => sh.outer = Statics!Unknown
  BY <1>1 DEF Statics!FollowedHere, OnlyChecks
<1>5. ASSUME ScanFollows, NEW d \in made, Statics!Anchored(d)
      PROVE  d \in some
  <2> DEFINE r == Statics!resolveComparable(p)
  <2>1. made = IF Statics!Unresolved(r) THEN {} ELSE IF recursive THEN Statics!Ancestors(r) ELSE {r}
    BY DEF Statics!Created
  <2>2. Statics!Anchored(r)
    <3>1. d \in Statics!Ancestors(r) \/ d = r
      BY <1>5, <2>1
    <3>2. d \in Statics!Ancestors(r) => d.at = r.at
      BY DEF Statics!Ancestors, Statics!Path
    <3> QED BY <1>5, <3>1, <3>2 DEF Statics!Anchored
  <2>3. r = dir
    BY <1>4, <1>5, <2>2, ComparedAlike
  <2> HIDE DEF r, dir
  <2> QED BY <1>5, <2>1, <2>3
<1>6. status \in {"ok", "failed"}
  OBVIOUS
<1>7. ScanFollows /\ status = "ok"
         => /\ \A d \in scan.covered \union made : Statics!Anchored(d) => d \in dirs
            /\ \A root \in scan.roots : Statics!Anchored(root)
                  => Statics!Path(root.at, Append(root.names, "st")) \in dirs
  <2> HIDE DEF made, some, status
  <2> QED BY <1>5 DEF ScanFollows
<1>8. "lost write" \in events' /\ ~Excused' => "missing-parent-directory" \in findings'
  BY <1>1 DEF ScanInvariant, Excused
<1> HIDE DEF made, some, status, dirs
<1> QED BY <1>1, <1>2, <1>3, <1>6, <1>7, <1>8, ScanAfter

\* A write to a file that fails for its directory is a finding.
LEMMA WriteFileScanned ==
    ASSUME OnlyChecks, ScriptInvariant, ScanInvariant, NEW p \in Texts, NEW sep \in Statics!Seps,
           NEW close \in BOOLEAN, Statics!WriteFile(p, sep, close)
    PROVE  ScanInvariant'
<1> DEFINE lost == Statics!Parent(Statics!Real(sh, p)) \notin sh.dirs
           r == Statics!resolveComparable(p)
           parent == Statics!Parent(r)
           status == IF lost THEN "failed" ELSE "ok"
<1>1. /\ Statics!Follows(sep, close) /\ scan' = scan
      /\ Statics!FollowedHere(p) /\ ~Statics!Deeper(p)
      /\ findings' = IF Statics!MissingParent(p) THEN findings \union {"missing-parent-directory"} ELSE findings
      /\ events' = IF lost /\ Statics!Joined(sep) = "ok" /\ Statics!Anchored(r)
                   THEN events \union {"lost write"} ELSE events
  BY DEF Statics!WriteFile, OnlyChecks
<1>2. sh' = Statics!Shell(sep, close, Effect(status, sh.dirs))
  <2>1. sh' = Statics!Shell(sep, close, IF lost THEN Statics!Failed ELSE Statics!Ran)
    BY DEF Statics!WriteFile
  <2>2. Statics!Ran = Effect("ok", sh.dirs) /\ Statics!Failed = Effect("failed", sh.dirs)
    BY Effects DEF ScriptInvariant
  <2> HIDE DEF lost
  <2> QED BY <2>1, <2>2
<1>3. findings = {} /\ (Statics!Joined(sep) = "ok" => sh.status = "ok")
  BY <1>1, JoinedStatus DEF ScriptInvariant
<1>4. events \subseteq events' /\ (Excused' <=> Excused)
  BY <1>1 DEF Excused
<1>5. ASSUME "lost write" \in events', ~Excused'
      PROVE  "missing-parent-directory" \in findings'
  <2>1. "lost write" \notin events
    BY <1>3, <1>4, <1>5 DEF ScanInvariant
  <2>2. lost /\ Statics!Joined(sep) = "ok" /\ Statics!Anchored(r)
    BY <1>1, <1>5, <2>1
  <2>3. ScanFollows
    BY <1>3, <1>4, <1>5, <2>2 DEF ScanInvariant
  <2>4. p.at = "here" => sh.outer = Statics!Unknown
    BY <1>1 DEF Statics!FollowedHere, OnlyChecks
  <2>5. r = Statics!Real(sh, p) /\ r.names \in Seq(STRING)
    BY <2>2, <2>3, <2>4, ComparedAlike
  <2>6. parent \notin sh.dirs
    BY <2>2, <2>5
  <2> HIDE DEF r
  <2>7. parent.at = r.at /\ Statics!Anchored(parent) /\ parent = Statics!Path(parent.at, parent.names)
    BY <2>2 DEF Statics!Parent, Statics!Path, Statics!Anchored
  <2> HIDE DEF parent
  <2>8. parent \notin Statics!AlwaysPresent \union scan.covered
    BY <2>3, <2>6, <2>7 DEF ScanInvariant, ScanFollows
  <2>9. ~Statics!isToolScaffolded(parent)
    <3> SUFFICES ASSUME Statics!isToolScaffolded(parent) PROVE FALSE
      OBVIOUS
    <3>1. "st" \in Statics!Range(parent.names)
      BY DEF Statics!isToolScaffolded
    <3>2. PICK root \in scan.roots : root.at = parent.at /\ Statics!IsPrefix(root.names, parent.names)
      BY <2>7 DEF Statics!isToolScaffolded
    <3>3. parent.names = Append(root.names, "st")
      BY <1>1, <3>1, <3>2 DEF Statics!Deeper, parent, r
    <3>4. Statics!Path(root.at, Append(root.names, "st")) \in sh.dirs
      BY <2>3, <2>7, <3>2 DEF ScanFollows, Statics!Anchored
    <3> QED BY <2>6, <2>7, <3>2, <3>3, <3>4
  <2>10. ~Statics!Unresolved(r)
    BY <2>2 DEF Statics!Unresolved, Statics!Anchored, Statics!Anchors
  <2>11. Statics!MissingParent(p)
    BY <2>2, <2>8, <2>9, <2>10 DEF Statics!MissingParent, r, parent
  <2> QED BY <1>1, <2>11
<1>6. scan' = [cwd |-> scan.cwd, var |-> scan.var, covered |-> scan.covered, roots |-> scan.roots]
  BY <1>1 DEF ScanInvariant, ScanTypes
<1>7. ScanFollows => /\ \A d \in scan.covered : Statics!Anchored(d) => d \in sh.dirs
                     /\ \A root \in scan.roots : Statics!Anchored(root)
                           => Statics!Path(root.at, Append(root.names, "st")) \in sh.dirs
  BY DEF ScanFollows
<1>8. status \in {"ok", "failed"}
  OBVIOUS
<1> HIDE DEF lost, r, parent, status
<1> QED BY <1>1, <1>2, <1>4, <1>5, <1>6, <1>7, <1>8, ScanAfter

\* The names of the directory a CLI makes.
LEMMA OwnNames ==
    ASSUME NEW s \in Seq(STRING)
    PROVE  Append(s, "st") \in Seq(STRING \union {"st"})
<1> DEFINE S == STRING \union {"st"}
<1>1. s \in Seq(S) /\ "st" \in S
  OBVIOUS
<1> HIDE DEF S
<1>2. Append(s, "st") \in Seq(S)
  BY <1>1, AppendProperties
<1> QED BY <1>2 DEF S

\* The CLI, whose own directories are where the rule expects them if it ran there.
LEMMA RunCliScanned ==
    ASSUME OnlyChecks, ScriptInvariant, ScanInvariant, NEW p \in Texts, NEW sep \in Statics!Seps,
           NEW close \in BOOLEAN, NEW form \in {"plain", "workspace", "inline"},
           Statics!RunCli(form, p, sep, close)
    PROVE  ScanInvariant'
<1> DEFINE place == IF form = "plain" THEN sh.cwd ELSE Statics!Real(sh, p)
           runs == Statics!Joined(sep) = "ok" /\ (form = "inline" => place \in sh.dirs)
           own == Statics!Ancestors(Statics!Path(place.at, Append(place.names, "st")))
           gone == form = "inline" /\ place \notin sh.dirs
           status == IF gone THEN "failed" ELSE "ok"
           dirs == IF gone THEN sh.dirs ELSE sh.dirs \union own
<1>1. /\ Statics!Follows(sep, close)
      /\ scan' = [scan EXCEPT !.roots = @ \union {scan.cwd}]
      /\ sh' = Statics!Shell(sep, close, IF gone THEN Statics!Failed
                                         ELSE [Statics!Ran EXCEPT !.dirs = @ \union own])
      /\ events \subseteq events'
      /\ "lost write" \in events' => "lost write" \in events
      /\ runs /\ (form # "plain" \/ sh.outer # Statics!Unknown) => "elsewhere" \in events'
      /\ findings \subseteq findings'
  BY DEF Statics!RunCli
<1>2. sh' = Statics!Shell(sep, close, Effect(status, dirs)) /\ sh.dirs \subseteq dirs
  <2>1. \A more : [Statics!Ran EXCEPT !.dirs = @ \union more] = Effect("ok", sh.dirs \union more)
    BY Effects DEF ScriptInvariant
  <2>2. Statics!Failed = Effect("failed", sh.dirs)
    BY Effects DEF ScriptInvariant
  <2> HIDE DEF own, gone
  <2> QED BY <1>1, <2>1, <2>2
<1>3. scan' = [cwd |-> scan.cwd, var |-> scan.var, covered |-> scan.covered,
               roots |-> scan.roots \union {scan.cwd}]
  BY <1>1 DEF ScanInvariant, ScanTypes
<1>4. sh.status = "ok" => Statics!Joined(sep) = "ok"
  BY <1>1, JoinedStatus DEF ScriptInvariant
<1>5. ASSUME ScanFollows, ~Excused', sh.status = "ok", status = "ok", Statics!Anchored(scan.cwd)
      PROVE  Statics!Path(scan.cwd.at, Append(scan.cwd.names, "st")) \in own
  <2>1. runs
    BY <1>4, <1>5
  <2>2. form = "plain" /\ sh.outer = Statics!Unknown
    <3> HIDE DEF runs
    <3> QED BY <1>1, <1>5, <2>1 DEF Excused
  <2>3. scan.cwd # Statics!Unknown
    BY <1>5 DEF Statics!Anchored, Statics!Anchors, Statics!Unknown, Statics!Path
  <2>4. place = scan.cwd /\ scan.cwd.names \in Seq(STRING)
    BY <1>5, <2>2, <2>3 DEF ScanFollows, ScanInvariant, ScanTypes
  <2> DEFINE names == Append(scan.cwd.names, "st")
             q == Statics!Path(scan.cwd.at, names)
  <2>5. names \in Seq(STRING \union {"st"})
    BY <2>4, OwnNames
  <2>6. SubSeq(names, 1, Len(names)) = names /\ Len(names) \in 0..Len(names)
    <3> HIDE DEF names
    <3> QED BY <2>5, SubSeqFull
  <2>7. q.at = scan.cwd.at /\ q.names = names
    <3> HIDE DEF names
    <3> QED BY DEF Statics!Path
  <2>8. q \in Statics!Ancestors(q)
    <3>1. q = Statics!Path(q.at, SubSeq(q.names, 1, Len(q.names)))
      BY <2>6, <2>7
    <3>2. Len(q.names) \in 0..Len(q.names)
      BY <2>6, <2>7
    <3> HIDE DEF q, names
    <3> QED BY <3>1, <3>2 DEF Statics!Ancestors
  <2>9. own = Statics!Ancestors(q)
    <3>1. own = Statics!Ancestors(Statics!Path(place.at, Append(place.names, "st")))
      OBVIOUS
    <3> HIDE DEF own, place
    <3> QED BY <2>4, <3>1
  <2> QED BY <2>8, <2>9
<1>6. ScanFollows /\ ~Excused' /\ sh.status = "ok" /\ status = "ok"
         => /\ \A d \in scan.covered : Statics!Anchored(d) => d \in dirs
            /\ \A root \in scan.roots \union {scan.cwd} : Statics!Anchored(root)
                  => Statics!Path(root.at, Append(root.names, "st")) \in dirs
  <2> HIDE DEF own, gone
  <2> QED BY <1>5 DEF ScanFollows
<1>7. "lost write" \in events' /\ ~Excused' => "missing-parent-directory" \in findings'
  BY <1>1 DEF ScanInvariant, Excused
<1>8. status \in {"ok", "failed"}
  OBVIOUS
<1> HIDE DEF place, runs, own, gone, status, dirs
<1> QED BY <1>1, <1>2, <1>3, <1>6, <1>7, <1>8, ScanAfter

\* A change of directory.
LEMMA ChangeDirScanned ==
    ASSUME OnlyChecks, ScriptInvariant, ScanInvariant, NEW p \in Texts, NEW sep \in Statics!Seps,
           NEW open \in BOOLEAN, Statics!ChangeDir(p, sep, open)
    PROVE  ScanInvariant'
<1> DEFINE place == Statics!Real(sh, p)
           target == Statics!cdTarget(p)
           j == Statics!Joined(sep)
           moved == IF place \in sh.dirs THEN [Statics!Ran EXCEPT !.cwd = place] ELSE Statics!Failed
           s == Statics!Shell(sep, FALSE, moved)
<1>1. /\ Statics!Follows(sep, FALSE)
      /\ open => sh.outer = Statics!Unknown
      /\ scan' = IF open THEN scan ELSE [scan EXCEPT !.cwd = target]
      /\ sh' = IF open THEN [s EXCEPT !.outer = sh.cwd] ELSE s
      /\ events' = events \union
           (IF ~open /\ sh.outer # Statics!Unknown /\ j = "ok" THEN {"outlasting cd"} ELSE {})
      /\ UNCHANGED findings
  BY DEF Statics!ChangeDir
<1>2. (j = "ok" <=> sh.status = "ok") /\ Statics!Joined(sep) \in {"ok", "failed", "skipping", "dead"}
  BY <1>1, JoinedStatus DEF ScriptInvariant
<1>3. /\ sh'.status = "ok" => sh.status = "ok" /\ sh'.cwd = place
      /\ sh'.var = sh.var /\ sh'.dirs = sh.dirs
      /\ sh'.outer = IF open THEN sh.cwd ELSE sh.outer
  <2>1. sh = [status |-> sh.status, cwd |-> sh.cwd, var |-> sh.var, env |-> sh.env,
              dirs |-> sh.dirs, outer |-> sh.outer]
    BY DEF ScriptInvariant, ScriptTypes
  <2> DEFINE met == [status |-> j, cwd |-> sh.cwd, var |-> sh.var, env |-> sh.env,
                     dirs |-> sh.dirs, outer |-> sh.outer]
             there == [status |-> "ok", cwd |-> place, var |-> sh.var, env |-> sh.env,
                       dirs |-> sh.dirs, outer |-> sh.outer]
             fail == [status |-> "failed", cwd |-> sh.cwd, var |-> sh.var, env |-> sh.env,
                      dirs |-> sh.dirs, outer |-> sh.outer]
  <2>2. [sh EXCEPT !.status = j] = met
    BY <2>1
  <2>3. Statics!Ran = Effect("ok", sh.dirs) /\ Statics!Failed = fail
    BY Effects DEF ScriptInvariant, Effect
  <2>4. [Statics!Ran EXCEPT !.cwd = place] = there
    BY <2>3 DEF Effect
  <2>5. s = IF met.status = "ok" THEN moved ELSE met
    BY <2>2 DEF Statics!Shell
  <2>6. s \in {met, there, fail} /\ (s = met => j # "ok" \/ met \in {there, fail})
    <3> HIDE DEF there, fail, place
    <3> QED BY <2>3, <2>4, <2>5
  <2>7. /\ s = [status |-> s.status, cwd |-> s.cwd, var |-> s.var, env |-> s.env,
                dirs |-> s.dirs, outer |-> s.outer]
        /\ s.status = "ok" => j = "ok" /\ s.cwd = place
        /\ s.var = sh.var /\ s.dirs = sh.dirs /\ s.outer = sh.outer
    <3> HIDE DEF s, j, place
    <3>1. CASE s = there /\ j = "ok"
      BY <3>1
    <3>2. CASE s = fail
      BY <3>2
    <3>3. CASE s = met /\ j # "ok"
      BY <3>3
    <3>4. s = there => j = "ok" \/ s = met
      BY <2>5 DEF s, j
    <3> QED BY <2>6, <3>1, <3>2, <3>3, <3>4
  <2> HIDE DEF s
  <2> QED BY <1>1, <1>2, <2>7
<1> HIDE DEF place, moved, s
<1>4. ~Excused' => ~Excused /\ ~(~open /\ sh.outer # Statics!Unknown /\ j = "ok")
  BY <1>1 DEF Excused
<1>5. scan' = [cwd |-> IF open THEN scan.cwd ELSE target, var |-> scan.var,
               covered |-> scan.covered, roots |-> scan.roots]
  BY <1>1 DEF ScanInvariant, ScanTypes
<1>6. /\ scan'.cwd = IF open THEN scan.cwd ELSE target
      /\ scan'.var = scan.var /\ scan'.covered = scan.covered /\ scan'.roots = scan.roots
  BY <1>5
<1>7. ScanTypes'
  <2>1. \/ target = Statics!Unknown
        \/ Statics!Anchored(target) /\ target.names \in Seq(STRING)
           /\ target = Statics!Path(target.at, target.names)
    BY EnteredTyped
  <2> HIDE DEF target
  <2>2. scan' = [cwd |-> scan'.cwd, var |-> scan'.var, covered |-> scan'.covered, roots |-> scan'.roots]
    BY <1>5, <1>6
  <2> QED BY <1>6, <2>1, <2>2 DEF ScanTypes, ScanInvariant
<1>8. ASSUME sh'.status = "ok", ~Excused' PROVE ScanFollows'
  <2>1. ScanFollows /\ j = "ok"
    BY <1>2, <1>3, <1>4, <1>8 DEF ScanInvariant
  <2>2. CASE open = TRUE
    <3>1. sh.cwd # Statics!Unknown
      BY DEF ScriptInvariant, ScriptTypes, Statics!Anchored, Statics!Anchors, Statics!Unknown, Statics!Path
    <3> QED BY <1>1, <1>3, <1>6, <2>1, <2>2, <3>1 DEF ScanFollows
  <2>3. CASE open = FALSE
    <3>1. sh.outer = Statics!Unknown
      BY <1>4, <1>8, <2>1, <2>3
    <3>2. target # Statics!Unknown => target = Statics!Real(sh, p)
      BY <2>1, <3>1, EnteredAlike
    <3>3. sh'.cwd = Statics!Real(sh, p)
      BY <1>3, <1>8 DEF place
    <3> HIDE DEF target
    <3> QED BY <1>3, <1>6, <2>1, <2>3, <3>1, <3>2, <3>3 DEF ScanFollows
  <2> QED BY <2>2, <2>3
<1>9. "lost write" \in events' /\ ~Excused' => "missing-parent-directory" \in findings'
  BY <1>1, <1>4 DEF ScanInvariant
<1>10. Statics!AlwaysPresent \subseteq sh'.dirs
  BY <1>3 DEF ScanInvariant
<1>11. scan'.var # Statics!Unknown => sh'.var = Statics!normaliseLexicalPath(scan'.var)
  BY <1>3, <1>6 DEF ScanInvariant
<1> QED BY <1>7, <1>8, <1>9, <1>10, <1>11 DEF ScanInvariant

\* The one variable.
LEMMA AssignScanned ==
    ASSUME OnlyChecks, ScriptInvariant, ScanInvariant, NEW p \in Assigned, Statics!Assign(p)
    PROVE  ScanInvariant'
<1> DEFINE place == Statics!Real(sh, p)
           var == IF Statics!Anchored(p) THEN p ELSE scan.var
<1>1. /\ Statics!Follows("first", FALSE)
      /\ scan.var # Statics!Unknown => Statics!Anchored(p)
      /\ scan' = IF Statics!Anchored(p) THEN [scan EXCEPT !.var = p] ELSE scan
      /\ sh' = [Statics!Ran EXCEPT !.var = place]
      /\ UNCHANGED <<findings, events>>
  BY DEF Statics!Assign, OnlyChecks
<1>2. sh.status = "ok"
  BY <1>1, JoinedStatus DEF ScriptInvariant, Statics!Seps
<1>3. sh' = [status |-> "ok", cwd |-> sh.cwd, var |-> place, env |-> sh.env, dirs |-> sh.dirs, outer |-> sh.outer]
  <2>1. Statics!Ran = Effect("ok", sh.dirs)
    BY Effects DEF ScriptInvariant
  <2> QED BY <1>1, <2>1 DEF Effect
<1>4. scan' = [cwd |-> scan.cwd, var |-> var, covered |-> scan.covered, roots |-> scan.roots]
  BY <1>1 DEF ScanInvariant, ScanTypes
<1>5. var # Statics!Unknown => Statics!Anchored(p) /\ var = p /\ place = Statics!normaliseLexicalPath(p)
  BY <1>1 DEF Statics!Real, Statics!Anchored, Statics!Anchors
<1>6. var = Statics!Unknown \/ (var \in Assigned /\ Statics!Anchored(var))
  BY DEF ScanInvariant, ScanTypes
<1> HIDE DEF place, var
<1>7. /\ sh'.cwd = sh.cwd /\ sh'.var = place /\ sh'.dirs = sh.dirs /\ sh'.outer = sh.outer
      /\ scan'.cwd = scan.cwd /\ scan'.var = var /\ scan'.covered = scan.covered
      /\ scan'.roots = scan.roots
  BY <1>3, <1>4
<1>8. ScanTypes'
  <2>1. scan' = [cwd |-> scan'.cwd, var |-> scan'.var, covered |-> scan'.covered, roots |-> scan'.roots]
    BY <1>4, <1>7
  <2> QED BY <1>6, <1>7, <2>1 DEF ScanTypes, ScanInvariant
<1>9. ~Excused' => ScanFollows'
  BY <1>1, <1>2, <1>7 DEF ScanInvariant, ScanFollows, Excused
<1>10. "lost write" \in events' /\ ~Excused' => "missing-parent-directory" \in findings'
  BY <1>1 DEF ScanInvariant, Excused
<1> QED BY <1>5, <1>7, <1>8, <1>9, <1>10 DEF ScanInvariant

\* The end of a line; the rule forgets directory and variable at the end of a check.
LEMMA LineEndScanned ==
    ASSUME OnlyChecks, ScriptInvariant, ScanInvariant, Statics!NextLine \/ Statics!NextCheck
    PROVE  ScanInvariant'
<1> DEFINE status == Statics!Joined(";")
<1>1. /\ line # "fresh" /\ sh.outer = Statics!Unknown /\ sh.status # "dead"
      /\ UNCHANGED <<findings, events>>
      /\ sh' = [sh EXCEPT !.status = status]
      /\ scan' = scan \/ scan' = [scan EXCEPT !.cwd = Statics!Unknown, !.var = Statics!Unknown]
  BY DEF Statics!NextLine, Statics!NextCheck, Statics!AfterLine
<1>2. status = "ok" => sh.status = "ok"
  BY <1>1 DEF Statics!Joined, ScriptInvariant, ScriptTypes, Groups
<1>3. sh' = [status |-> status, cwd |-> sh.cwd, var |-> sh.var, env |-> sh.env,
             dirs |-> sh.dirs, outer |-> sh.outer]
  BY <1>1 DEF ScriptInvariant, ScriptTypes
<1> HIDE DEF status
<1>4. /\ sh'.status = status /\ sh'.cwd = sh.cwd /\ sh'.var = sh.var /\ sh'.dirs = sh.dirs
      /\ sh'.outer = sh.outer
  BY <1>3
<1>5. /\ scan'.cwd \in {scan.cwd, Statics!Unknown} /\ scan'.var \in {scan.var, Statics!Unknown}
      /\ scan'.covered = scan.covered /\ scan'.roots = scan.roots
      /\ scan' = [cwd |-> scan'.cwd, var |-> scan'.var, covered |-> scan'.covered, roots |-> scan'.roots]
  <2>1. scan = [cwd |-> scan.cwd, var |-> scan.var, covered |-> scan.covered, roots |-> scan.roots]
    BY DEF ScanInvariant, ScanTypes
  <2>2. CASE scan' = scan
    BY <2>1, <2>2
  <2>3. CASE scan' = [scan EXCEPT !.cwd = Statics!Unknown, !.var = Statics!Unknown]
    <3>1. scan' = [cwd |-> Statics!Unknown, var |-> Statics!Unknown, covered |-> scan.covered, roots |-> scan.roots]
      BY <2>1, <2>3
    <3> QED BY <3>1
  <2> QED BY <1>1, <2>2, <2>3
<1>6. ScanTypes'
  BY <1>5 DEF ScanTypes, ScanInvariant
<1>7. status = "ok" /\ ~Excused' => ScanFollows'
  BY <1>1, <1>2, <1>4, <1>5 DEF ScanInvariant, ScanFollows, Excused
<1>8. "lost write" \in events' /\ ~Excused' => "missing-parent-directory" \in findings'
  BY <1>1 DEF ScanInvariant, Excused
<1> QED BY <1>4, <1>5, <1>6, <1>7, <1>8 DEF ScanInvariant

LEMMA ScanKeeps ==
    ASSUME OnlyChecks, ScriptInvariant, ScanInvariant, [Statics!Next]_scriptVars
    PROVE  ScanInvariant'
<1>1. CASE Statics!NextLine \/ Statics!NextCheck
  BY <1>1, LineEndScanned
<1>2. CASE \E p \in Assigned : Statics!Assign(p)
  BY <1>2, AssignScanned
<1>3. CASE \E p \in Texts, sep \in Statics!Seps, open \in BOOLEAN : Statics!ChangeDir(p, sep, open)
  BY <1>3, ChangeDirScanned
<1>4. CASE \E p \in Texts, sep \in Statics!Seps, recursive, close \in BOOLEAN :
              Statics!MakeDir(p, recursive, sep, close)
  BY <1>4, MakeDirScanned
<1>5. CASE \E p \in Texts, sep \in Statics!Seps, close \in BOOLEAN : Statics!WriteFile(p, sep, close)
  BY <1>5, WriteFileScanned
<1>6. CASE \E p \in Texts, sep \in Statics!Seps, close \in BOOLEAN, form \in {"plain", "workspace", "inline"} :
              Statics!RunCli(form, p, sep, close)
  BY <1>6, RunCliScanned
<1>7. CASE UNCHANGED scriptVars
  BY <1>7 DEF scriptVars, ScanInvariant, ScanTypes, ScanFollows, Excused
<1> QED BY <1>1, <1>2, <1>3, <1>4, <1>5, <1>6, <1>7 DEF Statics!Next

\* In a script of any number of statements and checks, over any paths, a write that
\* fails because nobody created its directory, at a path the rule resolved, is a
\* finding, if the script is written in none of the ways SmokeStatics names in Shapes
\* (smoke-protocol.ts).
THEOREM DirectoriesAreMadeFirst == OnlyChecks /\ PartsSpec => []WritesHaveParents
<1> DEFINE Both == ScriptInvariant /\ ScanInvariant
<1>1. PartsInit => Both
  <2> SUFFICES ASSUME PartsInit PROVE Both
    OBVIOUS
  <2>1. Statics!Init
    BY DEF PartsInit
  <2>2. ScriptInvariant
    BY <2>1, ScriptStarts
  <2>3. /\ scan.cwd = Statics!Unknown /\ scan.var = Statics!Unknown
        /\ scan.covered = {} /\ scan.roots = {} /\ events = {}
        /\ scan = [cwd |-> scan.cwd, var |-> scan.var, covered |-> scan.covered, roots |-> scan.roots]
    BY <2>1 DEF Statics!Init
  <2>4. Statics!AlwaysPresent \subseteq sh.dirs
    BY <2>1 DEF Statics!Init, Statics!AlwaysPresent
  <2> QED BY <2>2, <2>3, <2>4 DEF ScanInvariant, ScanTypes, ScanFollows
<1>2. OnlyChecks /\ Both /\ [PartsNext]_<<gateVars, scriptVars, planVars, part>> => Both'
  BY ScriptKeeps, ScanKeeps DEF PartsNext
<1>3. Both => WritesHaveParents
  BY DEF ScanInvariant, Excused, WritesHaveParents, Statics!WritesHaveParents
<1>4. OnlyChecks => []OnlyChecks
  <2>1. OnlyChecks => OnlyChecks'
    BY DEF OnlyChecks
  <2> QED
    OBVIOUS
<1> HIDE DEF Both
<1> QED BY <1>1, <1>2, <1>3, <1>4, PTL DEF PartsSpec
================================================================================
