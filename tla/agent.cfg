SPECIFICATION FairAgentSpec
CONSTANTS
    PlanVersions = {}
    Deviations = {}
    NoPlan = noPlan
    AgentModes = {"standard", "yolo"}
    Troubles = {"gate", "halt", "plan", "worktree"}
    MaxFaults = 1
    MaxDispatches = 1
    MaxLoops = 3
INVARIANTS
    ReviewersWithinCap
PROPERTIES
    
    WorkReachesReview
CHECK_DEADLOCK FALSE
