SPECIFICATION FairSpec
CONSTANTS
    None = None
    Kinds = {"RollingUpdate", "OnDelete", "Deployment"}
    Wanted = 3
    Before = {1, 3}
    Policies = {"OrderedReady", "Parallel"}
    Flags = {{}, {"parallelPodManagement"}, {"skipWaitScaleDown", "parallelPodManagement"}, {"skipWaitScaleUp"}, {"skipWaitScaleUp", "parallelPodManagement"}}
    Rescales = {1, 4}
    FaultKinds = {"call", "recreate"}
    MaxRescales = 1
    MaxFaults = 2
INVARIANTS
    TypeOK
    StoppedBeforeRestore
    CountedMeansUp
PROPERTIES
    UpKeepsPods
    StartedInParallel
    ImplementsWorkloadLife
    EventuallyUp
CHECK_DEADLOCK FALSE
