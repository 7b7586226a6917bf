SPECIFICATION FairSpec
CONSTANTS
    PlanVersions = {"plan"}
    Deviations = {}
    NoPlan = "no plan"
    Modes = {"standard", "plan", "implement", "commit", "yolo"}
    MaxGateRetries = 1
    MaxNews = 1
    MaxTrouble = 1

    
PROPERTIES
    
    
    UnattendedTaskEnds
CHECK_DEADLOCK FALSE
