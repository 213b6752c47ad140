SPECIFICATION FairSpec
CONSTANTS
    Pods <- OnePod
    PodSpecs <- SomeSpecs
    PriorityServers <- OnePriorityServer
    SchedulerServers <- OneSchedulerServer
    MaxVolumes = 1
    MaxRestarts = 1
    MaxUnreached = 1
INVARIANTS TypeOK ClassSuitsVolume SchedulerSuitsVolume
PROPERTIES PodsCreated
CHECK_DEADLOCK FALSE
