SPECIFICATION FairSpec
CONSTANTS
    None = None
    Kinds = {"RollingUpdate"}
    Wanted = 2
    Before = {2}
    Policies = {"OrderedReady"}
    Flags = {{"parallelPodManagement"}}
    Rescales = {}
    FaultKinds = {"recreate"}
    MaxRescales = 0
    MaxFaults = 1
PROPERTIES
    StatefulSetKept
CHECK_DEADLOCK FALSE
