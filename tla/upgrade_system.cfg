SPECIFICATION FairSystemSpec
CONSTANTS
    p1 = p1
    r1 = r1
    r2 = r2
    NoPV = NoPV
    PVNames <- OnePV
    ChanSize = 1
    MaxFailures = 0
    MaxTouches = 0
    MaxDeaths = 1
    Others <- NoOthers
    MayStop = TRUE
    Replicas <- TwoReplicas
    Self = r1
    MaxRefusals = 0
    MaxCreations = 1
INVARIANTS SystemTypeOK NothingForgotten
PROPERTIES EveryVolumeTried Settles
CHECK_DEADLOCK FALSE
