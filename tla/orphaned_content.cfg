SPECIFICATION Spec
CONSTANTS
    p1 = p1
    p2 = p2
    Params <- OneParams
    Runnable <- OneParams
    RunPolicies <- OAD
    None = None
    Foreign = Foreign
    Absent = Absent
    Partial = Partial
    UserOps <- DeleteOps
    MaxOps = 1
    MaxCrashes = 0
    MaxDrifts = 0
PROPERTIES
    DeletionCleansUp
CHECK_DEADLOCK FALSE
