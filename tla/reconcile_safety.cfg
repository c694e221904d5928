SPECIFICATION Spec
CONSTANTS
    p1 = p1
    p2 = p2
    Params <- TwoParams
    Runnable <- TwoParams
    RunPolicies <- BothPolicies
    None = None
    Foreign = Foreign
    Absent = Absent
    Partial = Partial
    UserOps <- SpecOps
    MaxOps = 3
    MaxCrashes = 1
    MaxDrifts = 0
INVARIANTS
    DeletedMeansCleaned
PROPERTIES
    SuccessMeansApplied
CHECK_DEADLOCK FALSE
