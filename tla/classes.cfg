SPECIFICATION FairSpec
CONSTANTS
    r1 = r1
    r2 = r2
    r3 = r3
    Replicas <- ThreeReplicas
    NumClasses = 3
    Foreign <- SecondClass
    MaxCrashes = 1
    MaxRefusals = 1
    MaxDeletions = 1
INVARIANTS TypeOK ServedClassesExist
PROPERTIES AllServe
CHECK_DEADLOCK FALSE
