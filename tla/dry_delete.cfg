SPECIFICATION Spec
CONSTANTS
    p1 = p1
    p2 = p2
    Params <- OneParams
    Runnable <- OneParams
    RunPolicies <- CWO
    None = None
    Foreign = Foreign
    Absent = Absent
    Partial = Partial
    UserOps <- DeleteOps
    MaxOps = 2
    MaxCrashes = 0
    MaxDrifts = 0
INVARIANTS
    ReportedDeletionCleaned
CHECK_DEADLOCK FALSE
