SPECIFICATION FairSpec
CONSTANTS
    n1 = n1
    n2 = n2
    a = a
    b = b
    None = None
    Nodes = {n1, n2}
    Modes <- MCModes
    Versions = {a, b}
    Created = a
    FaultKinds = {"call", "recheck", "job", "delete", "crash"}
    MaxEdits = 1
    MaxFaults = 2
INVARIANTS
    TypeOK
    OneVersion
    RecordedRan
    PassedMeansRan
PROPERTIES
    RecordedNotRerun
    ImplementsHookLife
    EventuallyRecorded
