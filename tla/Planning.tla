------------------------------- MODULE Planning -------------------------------
(***************************************************************************)
(* The documents of a task and the commands that make and find them: plan  *)
(* (application/start-planning.ts), the transitions of the planning stages *)
(* (application/transition-stage.ts), what next directs in them            *)
(* (application/get-next-action.ts), the start of the implementation, and  *)
(* below them all FilePlanGenerator (infrastructure/file-plan-generator.ts)*)
(* which ranks, scaffolds and resolves plan directories.                   *)
(*                                                                         *)
(* Several titles are in play: an issue is renamed, a fetch fails and      *)
(* `Task Plan` stands in, a transition takes --title or none.  A title is  *)
(* its own slug, and names a folder <issue>-<slug> and two documents.      *)
(* Each alias a document may have (implementation_plan.md,                 *)
(* discovery_plan.md, ...) is the one name Alias.  A document is reduced   *)
(* to what its readers tell apart (value-objects/plan-content.ts,          *)
(* plan-document-kind.ts and discovery-report.ts).                         *)
(*                                                                         *)
(* Commands are interleaved with the sub-agents that write, not with one   *)
(* another: what two commands do to one checkpoint is in CheckpointStore.  *)
(***************************************************************************)
EXTENDS Naturals, Sequences, FiniteSets, SequencesExt

CONSTANTS
    Titles,      \* the titles, ordered as their slugs sort
    Legacy,      \* folders whose mirror an old version may have made of the discovery template
    Supplied,    \* folders that hold a plan somebody supplies with --plan-path
    MaxWhims     \* bound: what nobody was directed to do, and what goes wrong

TitleSet == ToSet(Titles)
Custom == "custom"                 \* a --plan-dir outside artifacts/plans
Folders == TitleSet \union {Custom}
None == "none"

Alias == "alias"
Kinds == {"discovery", "implementation"}
Docs == Kinds \X (TitleSet \union {Alias})
Mirror == <<"implementation", Alias>>
NoPath == <<>>

\* No title is one of these names, and the folders of Legacy and Supplied are folders;
\* the module that instantiates this one assumes it.
PlanningAssumption ==
    /\ Titles \in Seq(STRING) /\ TitleSet \intersect {Custom, None, Alias} = {}
    /\ Legacy \subseteq Folders /\ Supplied \subseteq Folders
    /\ MaxWhims \in Nat

VARIABLES
    dirs,    \* the folders that exist
    doc,     \* what each document of each folder holds
    ck,      \* the checkpoint
    cmd,     \* the command that runs
    asked,   \* what `next` directed last and nobody has done yet
    agent,   \* the sub-agent at work
    whims    \* bound: see MaxWhims

vars == <<dirs, doc, ck, cmd, asked, agent, whims>>

Paths == Folders \X Docs
Idle == [at |-> "idle"]
NoAgent == [role |-> None]

TypeOK ==
    /\ dirs \subseteq Folders
    /\ doc \in [Paths -> {"absent", "torn", "discovery template", "legacy template",
                          "report", "plan template", "plan"}]
    /\ ck \in [stage : {"INITIALIZED", "DISCOVERY", "PLAN", "APPROVAL", "IMPLEMENT", "COMPLETED"},
               hasIssue : BOOLEAN, planDir : Folders \union {None}, planPath : Paths \union {NoPath}]
    /\ cmd.at \in {"idle", "scaffold", "primary", "mirror", "summary", "save"}
    /\ asked \in {None, "plan", "directory", "approve"}
    /\ agent.role \in {None, "discovery", "planner"}
    /\ whims \in 0 .. MaxWhims

-----------------------------------------------------------------------------
(* Documents.                                                              *)

IsDiscoveryShaped(content) == content \in {"discovery template", "legacy template", "report"}

\* The comment of the shipped discovery template spans two lines, so that the
\* template has body lines; the templates before it had none.
IsPlanContentSubstantive(content) == content \in {"discovery template", "report", "plan"}

IsPopulated(content) == content = "report"

ListArtifacts(kind, f) ==
    IF f \in dirs THEN {d \in Docs : d[1] = kind /\ doc[<<f, d>>] # "absent"} ELSE {}

\* Documents are listed as their names sort, plans before discovery documents and
\* the aliases last.
Slug(title) == CHOOSE n \in DOMAIN Titles : Titles[n] = title

Place(d) ==
    LET last == Len(Titles) + 1
        name == IF d[2] = Alias THEN last ELSE Slug(d[2])
    IN  IF d[1] = "implementation" THEN name ELSE last + name

First(found) == CHOOSE d \in found : \A e \in found : Place(d) <= Place(e)

HasPopulatedDiscoveryReport(f) ==
    \E d \in ListArtifacts("discovery", f) : IsPopulated(doc[<<f, d>>])

HasSubstantiveImplementation(f) ==
    \E d \in ListArtifacts("implementation", f) :
        ~IsDiscoveryShaped(doc[<<f, d>>]) /\ IsPlanContentSubstantive(doc[<<f, d>>])

IsPopulatedPlanDirectory(f) == HasPopulatedDiscoveryReport(f) \/ HasSubstantiveImplementation(f)

-----------------------------------------------------------------------------
(* Which directory, which document.                                        *)

Rank(f, title) ==
    IF HasPopulatedDiscoveryReport(f) THEN 0
    ELSE IF HasSubstantiveImplementation(f) THEN 1
    ELSE IF f = title THEN 2 ELSE 3

\* The first of rankCandidateDirectories, which sorts by rank and then by name.
Best(candidates, title) ==
    LET least == CHOOSE r \in 0 .. 3 :
                   /\ \E f \in candidates : Rank(f, title) = r
                   /\ \A f \in candidates : Rank(f, title) >= r
        best == {f \in candidates : Rank(f, title) = least}
    IN  CHOOSE f \in best : \A g \in best : Slug(f) <= Slug(g)

FindPlanDirectory(title) ==
    IF ck.hasIssue /\ dirs \intersect TitleSet # {} THEN Best(dirs \intersect TitleSet, title) ELSE None

\* Mutant: the first discovery document, whatever it holds.
ResolveDiscovery_first(f) ==
    LET artifacts == ListArtifacts("discovery", f)
    IN  IF artifacts = {} THEN NoPath ELSE <<f, First(artifacts)>>

ResolveDiscovery(f) ==
    LET artifacts == ListArtifacts("discovery", f)
        populated == {d \in artifacts : IsPopulated(doc[<<f, d>>])}
    IN  IF artifacts = {} THEN NoPath
        ELSE <<f, First(IF populated # {} THEN populated ELSE artifacts)>>

ResolveImplementation(f) ==
    LET artifacts == ListArtifacts("implementation", f) \union ListArtifacts("discovery", f)
        plain == {d \in artifacts : ~IsDiscoveryShaped(doc[<<f, d>>])}
        written == {d \in plain : d[1] = "implementation" /\ IsPlanContentSubstantive(doc[<<f, d>>])}
    IN  IF plain = {} THEN NoPath ELSE <<f, First(IF written # {} THEN written ELSE plain)>>

Content(path) == IF path = NoPath THEN "absent" ELSE doc[path]

\* resolvePlanFile: a recorded file wins, also when it is no longer there.
ResolvePlanFile(sm) ==
    LET f == IF sm.planDir # None THEN sm.planDir ELSE FindPlanDirectory(None)
    IN  IF sm.planPath # NoPath
        THEN IF Content(sm.planPath) # "absent" THEN sm.planPath ELSE NoPath
        ELSE IF f \in dirs THEN ResolveImplementation(f) ELSE NoPath

-----------------------------------------------------------------------------
(* The plan command.                                                       *)

\* Mutant: that a discovery document is there is taken for the evidence.
InspectDiscoveryReport_exists(recorded, scaffolded, primary, title) ==
    \E f \in {recorded, scaffolded, FindPlanDirectory(title)} \ {None} :
        IsDiscoveryShaped(Content(ResolveDiscovery(f)))

\* inspectDiscoveryReport: the primary document, then what the recorded, the
\* scaffolded and the best ranked directory resolve to.
InspectDiscoveryReport(recorded, scaffolded, primary, title) ==
    \/ Content(primary) = "report"
    \/ \E f \in {recorded, scaffolded, FindPlanDirectory(title)} \ {None} :
         Content(ResolveDiscovery(f)) = "report"

ResolvePlanEntry(requested, kind, skip) ==
    [stage |-> IF skip \/ requested = "implementation" THEN "PLAN"
               ELSE IF requested = "discovery" \/ kind = "bug" THEN "DISCOVERY"
               ELSE "PLAN",
     type  |-> IF requested # "auto" THEN requested
               ELSE IF kind = "bug" THEN "discovery" ELSE "implementation"]

\* A task of a GitHub issue, or an ad hoc one.
New(hasIssue) ==
    [stage |-> "INITIALIZED", hasIssue |-> hasIssue, planDir |-> None, planPath |-> NoPath]

\* A DISCOVERY without its report is left exactly as it is: nothing is
\* scaffolded and nothing saved.
Parks(sm, title, skip) ==
    /\ sm.stage = "DISCOVERY"
    /\ ~skip
    /\ ~InspectDiscoveryReport(sm.planDir, None, NoPath, title)

\* The stage, directory and document a run starts from; a supplied plan is
\* recorded as the document of the task and nothing is scaffolded.
StartPlanning(title, requested, kind, skip, feedback, want, supply) ==
    LET sm == IF ck.stage = "COMPLETED" THEN New(ck.hasIssue) ELSE ck
        entry == ResolvePlanEntry(requested, kind, skip)
        new == [at |-> "scaffold", op |-> "plan", sm |-> sm, title |-> title,
                skip |-> skip /\ sm.stage = "DISCOVERY",
                revise |-> feedback /\ sm.stage = "APPROVAL", entry |-> entry,
                recorded |-> sm.planDir, want |-> want, dir |-> None,
                made |-> FALSE, primary |-> NoPath]
    IN  /\ cmd = Idle
        /\ \/ /\ supply # NoPath
              /\ IsPlanContentSubstantive(Content(supply))
              /\ cmd' = [new EXCEPT !.at = "save", !.sm.planPath = supply]
           \/ /\ supply = NoPath
              /\ cmd' = IF Parks(sm, title, skip) THEN Idle ELSE new
        /\ UNCHANGED <<dirs, doc, ck, agent>>

\* Where scaffoldPlanDirectory works.  An ad hoc run does not follow its
\* checkpoint into the folder of another title.
Ignored == ~ck.hasIssue /\ cmd.op = "plan" /\ cmd.want = None
               /\ cmd.recorded \notin {None, cmd.title}

ScaffoldTarget ==
    LET candidates == IF ck.hasIssue THEN dirs \intersect TitleSet ELSE dirs \intersect {cmd.title}
        populated == {f \in candidates : IsPopulatedPlanDirectory(f)}
        supplied == IF cmd.want # None THEN cmd.want
                    ELSE IF Ignored THEN None ELSE cmd.recorded
    IN  IF supplied # None /\ (IsPopulatedPlanDirectory(supplied) \/ populated = {}) THEN supplied
        ELSE IF populated # {} THEN Best(populated, cmd.title)
        ELSE IF cmd.title \in dirs \/ candidates = {} THEN cmd.title
        ELSE Best(candidates, cmd.title)

PrimaryDocument(f, type, title) ==
    LET artifacts == ListArtifacts(type, f)
        populated == {d \in artifacts : IsPopulated(doc[<<f, d>>])}
    IN  <<f, IF artifacts = {} THEN <<type, title>>
             ELSE First(IF type = "discovery" /\ populated # {} THEN populated ELSE artifacts)>>

MakeDirectory ==
    /\ cmd.at = "scaffold"
    /\ LET f == ScaffoldTarget
       IN  /\ cmd' = [cmd EXCEPT !.at = "primary", !.dir = f, !.made = f \notin dirs,
                                 !.primary = PrimaryDocument(f, cmd.entry.type, cmd.title)]
           /\ dirs' = dirs \union {f}
    /\ UNCHANGED <<doc, ck, asked, agent, whims>>

Template(type) == IF type = "discovery" THEN "discovery template" ELSE "plan template"

\* Mutant: the template is written again over what the document holds.
ToWrite_always(path) == TRUE

\* generatePlan writes a document that is not there.
ToWrite(path) == doc[path] = "absent"

WritePrimary ==
    /\ cmd.at = "primary"
    /\ cmd' = [cmd EXCEPT !.at = "mirror"]
    /\ IF ToWrite(cmd.primary)
       THEN doc' = [doc EXCEPT ![cmd.primary] = Template(cmd.entry.type)]
       ELSE UNCHANGED doc
    /\ UNCHANGED <<dirs, ck, asked, agent, whims>>

\* ... and heals a mirror that is still an empty discovery template.
HealsLegacyMirror(path, type) ==
    type = "discovery" /\ IsDiscoveryShaped(doc[path]) /\ ~IsPlanContentSubstantive(doc[path])

WriteMirror ==
    LET mirror == <<cmd.dir, Mirror>>
    IN  /\ cmd.at = "mirror"
        /\ cmd' = [cmd EXCEPT !.at = "summary"]
        /\ IF doc[mirror] = "absent" \/ HealsLegacyMirror(mirror, cmd.entry.type)
           THEN doc' = [doc EXCEPT ![mirror] = "plan template"]
           ELSE UNCHANGED doc
        /\ UNCHANGED <<dirs, ck, asked, agent, whims>>

ShouldAdopt == cmd.sm.planDir = None \/ cmd.want # None \/ ~cmd.made \/ Ignored

\* The summary log is written and the plan command, back from the scaffold,
\* adopts its directory; a transition saves the checkpoint a second time.
EndScaffold ==
    /\ cmd.at = "summary"
    /\ IF cmd.op = "plan"
       THEN /\ cmd' = [cmd EXCEPT !.at = "save",
                                  !.sm.planDir = IF ShouldAdopt THEN cmd.dir ELSE @]
            /\ UNCHANGED ck
       ELSE /\ cmd' = Idle
            /\ ck' = [cmd.sm EXCEPT !.planDir = cmd.dir]
    /\ UNCHANGED <<dirs, doc, asked, agent, whims>>

\* The stage the plan command saves.
PlannedStage ==
    LET sm == cmd.sm
        reported == InspectDiscoveryReport(cmd.recorded, cmd.dir, cmd.primary, cmd.title)
    IN  IF cmd.dir = None
        THEN IF sm.stage \in {"INITIALIZED", "DISCOVERY"} THEN "PLAN" ELSE sm.stage
        ELSE CASE sm.stage = "INITIALIZED" ->
                    IF cmd.entry.stage = "PLAN" \/ reported THEN "PLAN" ELSE "DISCOVERY"
               [] sm.stage = "DISCOVERY" -> IF cmd.skip \/ reported THEN "PLAN" ELSE "DISCOVERY"
               [] sm.stage = "IMPLEMENT" \/ (sm.stage = "APPROVAL" /\ cmd.revise) -> "PLAN"
               [] OTHER -> sm.stage

SavePlan ==
    /\ cmd.at = "save"
    /\ ck' = [cmd.sm EXCEPT !.stage = PlannedStage]
    /\ cmd' = Idle
    /\ UNCHANGED <<dirs, doc, asked, agent, whims>>

\* A scaffold that fails takes back the directory it made.
RemovedAfterFailure == IF cmd.made THEN {cmd.dir} ELSE {}

ScaffoldFails ==
    /\ cmd.at \in {"primary", "mirror", "summary"}
    /\ dirs' = dirs \ RemovedAfterFailure
    /\ doc' = [p \in Paths |-> IF p[1] \in RemovedAfterFailure THEN "absent" ELSE doc[p]]
    /\ cmd' = Idle
    /\ UNCHANGED <<ck, agent>>

\* The command is killed; the document it was writing may be left empty.
Crash ==
    /\ cmd # Idle
    /\ cmd' = Idle
    /\ \/ UNCHANGED doc
       \/ /\ cmd.at = "primary" /\ ToWrite(cmd.primary)
          /\ doc' = [doc EXCEPT ![cmd.primary] = "torn"]
       \/ /\ cmd.at = "mirror" /\ doc[<<cmd.dir, Mirror>>] = "absent"
          /\ doc' = [doc EXCEPT ![<<cmd.dir, Mirror>>] = "torn"]
    /\ UNCHANGED <<dirs, ck, agent>>

-----------------------------------------------------------------------------
(* The transitions of the planning stages.                                 *)

Allowed == [INITIALIZED |-> {"DISCOVERY", "PLAN"}, DISCOVERY |-> {"PLAN"},
            PLAN |-> {"APPROVAL"}, APPROVAL |-> {"PLAN"}, IMPLEMENT |-> {"PLAN"},
            COMPLETED |-> {"DISCOVERY", "PLAN"}]

\* The first save; entering DISCOVERY goes on to scaffold its directory.
TransitionStage(target, title) ==
    LET sm == [ck EXCEPT !.stage = target]
    IN  /\ cmd = Idle
        /\ target \in Allowed[ck.stage]
        /\ target = "PLAN" => ck.planDir # None
        /\ target = "APPROVAL" => IsPlanContentSubstantive(Content(ResolvePlanFile(ck)))
        /\ ck' = sm
        /\ cmd' = IF target = "DISCOVERY" /\ ck.hasIssue
                  THEN [at |-> "scaffold", op |-> "transition", sm |-> sm, title |-> title,
                        skip |-> FALSE, entry |-> [stage |-> "DISCOVERY", type |-> "discovery"],
                        recorded |-> ck.planDir, want |-> None, dir |-> None, made |-> FALSE,
                        primary |-> NoPath]
                  ELSE Idle
        /\ UNCHANGED <<dirs, doc, agent>>

\* The approval is given: implement resolves the plan and saves.
StartImplementation ==
    LET resolved == ResolvePlanFile(ck)
    IN  /\ cmd = Idle
        /\ ck.stage = "APPROVAL"
        /\ resolved # NoPath
        /\ ck' = [ck EXCEPT !.stage = "IMPLEMENT",
                            !.planDir = IF ck.planDir = None /\ ck.planPath = NoPath
                                        THEN resolved[1] ELSE @]
        /\ UNCHANGED <<dirs, doc, cmd, agent>>

\* The stages after it, see TaskPipeline, CommitDelivery and TriageFeedback.
Finish ==
    /\ cmd = Idle
    /\ ck.stage = "IMPLEMENT"
    /\ ck' = [ck EXCEPT !.stage = "COMPLETED"]
    /\ UNCHANGED <<dirs, doc, cmd, agent>>

-----------------------------------------------------------------------------
(* next.                                                                   *)

DiscoveryDir == IF ck.planDir # None THEN ck.planDir ELSE FindPlanDirectory(None)
DiscoveryPath == IF DiscoveryDir \in dirs THEN ResolveDiscovery(DiscoveryDir) ELSE NoPath

Send(role, dir, path) ==
    agent' = [role |-> role, dir |-> dir, path |-> path] /\ UNCHANGED asked
Ask(what) == asked' = what /\ UNCHANGED agent

GetNextAction ==
    /\ cmd = Idle /\ agent = NoAgent /\ asked = None
    /\ \/ /\ ck.stage = "DISCOVERY"
          /\ IF DiscoveryDir = None THEN Ask("directory")
             ELSE IF Content(DiscoveryPath) = "report" THEN Ask("plan")
             ELSE Send("discovery", DiscoveryDir,
                       IF IsDiscoveryShaped(Content(DiscoveryPath)) THEN DiscoveryPath ELSE NoPath)
       \/ /\ ck.stage = "PLAN"
          /\ LET plan == ResolvePlanFile(ck)
             IN  IF IsPlanContentSubstantive(Content(plan)) THEN Ask("approve")
                 ELSE Send("planner", ck.planDir, plan)
    /\ UNCHANGED <<dirs, doc, ck, cmd, whims>>

\* External: the sub-agent writes the document it was given, or one of its own
\* in the directory it was given.
Written(role) == IF role = "discovery" THEN "report" ELSE "plan"

AgentWrites ==
    /\ agent # NoAgent
    /\ \/ agent.path # NoPath /\ doc' = [doc EXCEPT ![agent.path] = Written(agent.role)]
       \/ /\ agent.path = NoPath /\ agent.dir # None
          /\ LET own == <<agent.dir, IF agent.role = "discovery" THEN <<"discovery", Alias>> ELSE Mirror>>
             IN  doc' = [doc EXCEPT ![own] = Written(agent.role)]
       \/ agent.path = NoPath /\ agent.dir = None /\ UNCHANGED doc
    /\ dirs' = dirs \union ({IF agent.path # NoPath THEN agent.path[1] ELSE agent.dir} \ {None})
    /\ agent' = NoAgent
    /\ UNCHANGED <<ck, cmd, asked, whims>>

AgentStops ==
    /\ agent # NoAgent
    /\ agent' = NoAgent
    /\ UNCHANGED <<dirs, doc, ck, cmd>>

\* External: somebody removes a plan directory nobody works in.
DirectoryRemoved ==
    /\ cmd = Idle /\ agent = NoAgent
    /\ \E f \in dirs :
         /\ dirs' = dirs \ {f}
         /\ doc' = [p \in Paths |-> IF p[1] = f THEN "absent" ELSE doc[p]]
    /\ UNCHANGED <<ck, cmd, agent>>

-----------------------------------------------------------------------------
(* The specification.                                                      *)

Init ==
    /\ \E hasIssue \in BOOLEAN, legacy \in {{}, Legacy} :
         /\ ck = New(hasIssue)
         /\ legacy # {} => hasIssue
         /\ dirs = Supplied \union legacy
         /\ doc = [p \in Paths |->
                     CASE p[1] \in Supplied /\ p[2] = Mirror -> "plan"
                       [] p[1] \in legacy /\ p[2] \in {Mirror, <<"discovery", p[1]>>} -> "legacy template"
                       [] OTHER -> "absent"]
    /\ cmd = Idle
    /\ asked = None
    /\ agent = NoAgent
    /\ whims = 0

IssueKinds == {"bug", "feature"}

\* What `next` named is run, with the title the task has by then.
Obey ==
    /\ \/ /\ asked \in {"plan", "directory"}
          /\ \E title \in TitleSet, kind \in IssueKinds :
               StartPlanning(title, "auto", kind, FALSE, FALSE, None, NoPath)
       \/ /\ asked = "approve"
          /\ \E title \in TitleSet : TransitionStage("APPROVAL", title)
    /\ asked' = None
    /\ UNCHANGED whims

Unprompted ==
    \/ \E title \in TitleSet, kind \in IssueKinds, requested \in Kinds \union {"auto"},
          skip, feedback \in BOOLEAN, want \in {None, Custom}, supply \in {NoPath} \union (Supplied \X {Mirror}) :
         StartPlanning(title, requested, kind, skip, feedback, want, supply)
    \/ \E title \in TitleSet, target \in {"DISCOVERY", "PLAN", "APPROVAL"} :
         TransitionStage(target, title)
    \/ DirectoryRemoved
    \/ AgentStops

CommandStep == MakeDirectory \/ WritePrimary \/ WriteMirror \/ EndScaffold \/ SavePlan

Whim ==
    /\ whims < MaxWhims
    /\ whims' = whims + 1
    /\ asked' = None
    /\ Unprompted \/ ScaffoldFails \/ Crash

\* A person approves, and the task is brought to its end.
Proceeds ==
    /\ StartImplementation \/ Finish
    /\ asked' = None
    /\ UNCHANGED whims

Next == GetNextAction \/ Obey \/ CommandStep \/ AgentWrites \/ Proceeds \/ Whim

Spec == Init /\ [][Next]_vars

\* Commands run to their end, sub-agents write, and the driver asks and obeys.
FairSpec ==
    /\ Spec
    /\ WF_vars(GetNextAction) /\ WF_vars(Obey)
    /\ WF_vars(CommandStep) /\ WF_vars(AgentWrites)

-----------------------------------------------------------------------------
(* Properties.                                                             *)

Authored == {"report", "plan"}

\* No command overwrites or removes what a sub-agent or a person has written,
\* except in the directory it has made itself: that one goes when its scaffold
\* fails, with what somebody wrote there in the meantime.
WrittenWorkStays ==
    [][cmd # Idle => \A p \in Paths :
         doc[p] \in Authored /\ ~(cmd.made /\ p[1] = cmd.dir) => doc'[p] = doc[p]]_vars

\* What a run works in: the report lies there, or it is the recorded directory, or the
\* one --plan-dir names, and a plan lies there.
Leads(f) ==
    \/ HasPopulatedDiscoveryReport(f)
    \/ f \in {cmd.recorded, cmd.want} /\ HasSubstantiveImplementation(f)

\* The plan command of an issue leaves DISCOVERY without --skip-discovery into the
\* folder that holds the report; only a recorded or a named directory stands against a
\* report that lies elsewhere, if it holds a plan: it never goes on in a bare template.
PlanFollowsItsReport ==
    [][ck.hasIssue /\ ck.stage = "DISCOVERY" /\ ck'.stage = "PLAN" /\ cmd # Idle
         /\ ~cmd.skip /\ cmd.dir # None
        => Leads(ck'.planDir)]_vars

\* There is a directory to work in, and the document that is recorded is there.
WayKnown ==
    IF ck.stage = "DISCOVERY" THEN DiscoveryDir # None
    ELSE /\ ck.planPath # NoPath => Content(ck.planPath) # "absent"
         /\ ck.planPath = NoPath => ck.planDir # None

\* A driver that asks and obeys comes to the approval: DISCOVERY and PLAN do not
\* send it round for ever, unless the task has lost its directory.
PlanningEnds ==
    (ck.stage \in {"DISCOVERY", "PLAN"} /\ WayKnown)
        ~> (ck.stage \notin {"DISCOVERY", "PLAN"} \/ ~WayKnown)

=============================================================================
