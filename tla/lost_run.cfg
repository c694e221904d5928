SPECIFICATION Spec
CONSTANTS
    p1 = p1
    p2 = p2
    Params <- TwoParams
    Runnable <- TwoParams
    RunPolicies <- OAD
    None = None
    Foreign = Foreign
    Absent = Absent
    Partial = Partial
    UserOps <- EditOps
    MaxOps = 1
    MaxCrashes = 1
    MaxDrifts = 0
PROPERTIES
    UpToDateMeansApplied
CHECK_DEADLOCK FALSE
