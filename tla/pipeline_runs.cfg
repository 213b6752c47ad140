SPECIFICATION FairSpec
CONSTANTS
    h1 = h1
    h2 = h2
    d1 = d1
    d2 = d2
    NoHost = NoHost
    Hosts <- TwoHosts
    Dirs <- OneDir
    Faults <- RunFaults
    MaxCrashes = 0
INVARIANTS UndoLeavesNothing
PROPERTIES EveryRunEnds UpgradedUnlessFailing
CHECK_DEADLOCK FALSE
