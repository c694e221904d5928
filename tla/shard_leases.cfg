SPECIFICATION FairSpec
CONSTANTS
    r1 = r1
    r2 = r2
    Replicas <- TwoReplicas
    ReplicasCount <- TwoShards
    LeaseDuration = 12
    RenewalInterval = 2
    CallMax = 1
    StopMax = 4
    ClockSkew = 2
    Nobody = Nobody
    Gone = Gone
INVARIANTS
    TypeOK
    ExclusiveShard
PROPERTIES
    OwnershipSpec
    AllShardsServed
