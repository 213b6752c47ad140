SPECIFICATION FairSpec
CONSTANTS
    p1 = p1
    p2 = p2
    NoPV = NoPV
    PVNames <- TwoPVs
    ChanSize = 1
    MaxFailures = 1
    MaxTouches = 1
    MaxDeaths = 1
    Others <- OtherMayFail
    MayStop = TRUE
INVARIANTS TypeOK WaitingMatchesWork
PROPERTIES EveryPVTried EveryEntryServed StopEndsLoop ImplementsUpgradeLine
CHECK_DEADLOCK FALSE
