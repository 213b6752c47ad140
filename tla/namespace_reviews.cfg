SPECIFICATION FairSpec
CONSTANTS
    p1 = p1
    Pods <- OnePod
    MaxChanges = 4
    MaxErrors = 1
INVARIANTS TypeOK GrantBacked DenialBacked
PROPERTIES AllowedPodsCreated
CHECK_DEADLOCK FALSE
