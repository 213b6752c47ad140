SPECIFICATION Spec
CONSTANTS
    h1 = h1
    h2 = h2
    d1 = d1
    d2 = d2
    NoHost = NoHost
    Hosts <- TwoHosts
    Dirs <- TwoDirs
    Faults <- KeptFaults
    MaxCrashes = 1
SYMMETRY Symmetry
INVARIANTS QuotaDirsKept MarkedDirsListed SuccessMeansReplaced
CHECK_DEADLOCK FALSE
