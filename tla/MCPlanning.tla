------------------------------ MODULE MCPlanning ------------------------------
(* Planning as an instance, for TLC and for modules that also speak of      *)
(* worktrees: its names stay behind Plans, its properties keep theirs.      *)
EXTENDS Naturals

CONSTANTS Titles, Legacy, Supplied, MaxWhims
VARIABLES folders, doc, ck, cmd, asked, agent, whims

Plans == INSTANCE Planning WITH dirs <- folders

ASSUME PlanningConstants == Plans!PlanningAssumption

PlanningSpec == Plans!Spec
FairPlanningSpec == Plans!FairSpec

\* Planning: no command overwrites or removes what a sub-agent or a person has
\* written, except in the directory it has made itself (file-plan-generator.ts).
WrittenWorkStays == Plans!WrittenWorkStays

\* Planning: the plan command leaves DISCOVERY into the folder of the issue that
\* holds the report, or stays in a recorded or named one that holds a plan
\* (start-planning.ts).
PlanFollowsItsReport == Plans!PlanFollowsItsReport

\* Planning: a driver that asks and obeys comes to the approval.
PlanningEnds == Plans!PlanningEnds

TwoTitles == <<"an issue", "task plan">>
=============================================================================
