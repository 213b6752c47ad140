SPECIFICATION FairSpec
CONSTANTS
    p1 = p1
    Pods <- OnePod
    MaxChanges = 1
    MaxErrors = 0
INVARIANTS ExistingPodsUnaffected
CHECK_DEADLOCK FALSE
