----------------------------- MODULE MCAgentLoop -----------------------------
(* AgentLoop as an instance, for TLC and for modules that also speak of    *)
(* another driver: its names stay behind Loop, its properties keep theirs. *)
EXTENDS Lifecycle

CONSTANTS AgentModes, Troubles, MaxFaults, MaxDispatches, MaxLoops
VARIABLES sm, work, agent, runs, faults

Loop == INSTANCE AgentLoop WITH Modes <- AgentModes

ASSUME LoopConstants == Loop!AgentAssumption

AgentSpec == Loop!Spec
FairAgentSpec == Loop!FairSpec

\* AgentLoop: in one visit of REVIEW no more reviewers run than the cap of
\* buildReviewAction allows and one for each dispatch that was not saved.
ReviewersWithinCap == Loop!ReviewersWithinCap

\* AgentLoop: no sub-agent that writes is sent out on a task that waits at a gate
\* for people (get-next-action.ts).
NobodyWorksAtAGate == Loop!NobodyWorksAtAGate

\* AgentLoop: an agent that follows `next` gets to a person or to the review.
WorkReachesReview == Loop!WorkReachesReview
==============================================================================
