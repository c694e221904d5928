SPECIFICATION ShardedFairSpec
CONSTANTS
    r1 = r1
    r2 = r2
    n1 = n1
    n2 = n2
    Replicas <- TwoReplicas
    ReplicasCount <- TwoShards
    LeaseDuration = 6
    RenewalInterval = 1
    CallMax = 1
    StopMax = 1
    ClockSkew = 0
    Nobody = Nobody
    Gone = Gone
    Names <- OneName
    Hash <- OneHash
    MaxEdits = 1
INVARIANTS
    QueueOK
    OneReconciler
    EditsQueued
PROPERTIES
    EditsReconciled
