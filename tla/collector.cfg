SPECIFICATION FairCollectorSpec
CONSTANTS
    Issues = {"i1"}
    None = "none"
    Pulls <- SomePulls
    PageSize = 1
    Ceiling = 3
    MaxMerged = 3
    MaxTrouble = 1
PROPERTIES
    MergedWorkIsClosed
    SuccessIsTheTruth
    
CHECK_DEADLOCK FALSE
