SPECIFICATION Spec
CONSTANTS
    ArtifactsHistoryLimit = 2
    QuietStarts = {0, 8}
    MaxEmits = 3
    MaxRuns = 2
INVARIANTS
    ReasonIsOfThisRun
    ReasonInOrder
CHECK_DEADLOCK FALSE
