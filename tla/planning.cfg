SPECIFICATION FairPlanningSpec
CONSTANTS
    Titles <- TwoTitles
    Legacy = {"an issue", "task plan"}
    Supplied = {"custom"}
    MaxWhims = 3
PROPERTIES
    WrittenWorkStays
    PlanFollowsItsReport
    PlanningEnds
CHECK_DEADLOCK FALSE
