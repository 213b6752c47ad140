SPECIFICATION Spec
CONSTANTS
    h1 = h1
    h2 = h2
    d1 = d1
    d2 = d2
    NoHost = NoHost
    Hosts <- TwoHosts
    Dirs <- OneDir
    Faults <- LockFaults
    MaxCrashes = 1
SYMMETRY HostSymmetry
INVARIANTS TypeOK MutualExclusion LockInv DirsTakenOver MarkedBeforeReplaced
PROPERTIES ImplementsGuardedVolume
CHECK_DEADLOCK FALSE
