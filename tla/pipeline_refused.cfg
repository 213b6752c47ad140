SPECIFICATION Spec
CONSTANTS
    h1 = h1
    h2 = h2
    d1 = d1
    d2 = d2
    NoHost = NoHost
    Hosts <- OneHost
    Dirs <- OneDir
    Faults <- RefusedOnly
    MaxCrashes = 0
INVARIANTS QuotaDirsKept
CHECK_DEADLOCK FALSE
