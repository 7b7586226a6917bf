SPECIFICATION Spec
CONSTANTS
    t1 = t1
    t2 = t2
    Tasks = {t1, t2}
    Leftovers = {old}
    Outside = {elsewhere}
    Brain = {}
    Commands <- BothEnds
    MayFail = {"probe", "branches", "find", "add", "verify", "remove", "prune", "deleteBranch", "restore", "save", "quarantine"}
    None = None
    Unknown = Unknown
    Root = Root
    Quarantine = Quarantine
    OtherBranch = OtherBranch
    Sweeper = Sweeper
INVARIANTS
    RefusedRunLeavesWhatItFound
    BoundTreeCarriesTheTask

    
CHECK_DEADLOCK FALSE
