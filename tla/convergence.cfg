SPECIFICATION FairSpec
CONSTANTS
    p1 = p1
    p2 = p2
    Params <- TwoParams
    Runnable <- TwoParams
    RunPolicies <- BothPolicies
    None = None
    Foreign = Foreign
    Absent = Absent
    Partial = Partial
    UserOps <- LifeOps
    MaxOps = 2
    MaxCrashes = 1
    MaxDrifts = 1
INVARIANTS
    FinalizerImpliesOrphan
PROPERTIES
    CheckConverges
    ApplyConverges
    DeletionCompletes
CHECK_DEADLOCK FALSE
