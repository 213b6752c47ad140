SPECIFICATION FairSpec
CONSTANTS
    r1 = r1
    r2 = r2
    r3 = r3
    Replicas <- ThreeReplicas
    Webhook = "nshp"
    MaxCrashes = 3
    MaxRefusals = 1
INVARIANTS TypeOK DoneMeansRegistered NeverAborted
PROPERTIES Settles GuardedWhenDone
