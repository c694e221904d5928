SPECIFICATION Spec
CONSTANTS
    p1 = p1
    p2 = p2
    Params <- TwoParams
    Runnable <- OneParams
    RunPolicies <- AllPolicies
    None = None
    Foreign = Foreign
    Absent = Absent
    Partial = Partial
    UserOps <- PolicyOps
    MaxOps = 2
    MaxCrashes = 1
    MaxDrifts = 0
INVARIANTS
    TypeOK
    AnnotatedBeforeRun
    CreateNeverRuns
CHECK_DEADLOCK FALSE
