SPECIFICATION FairSpec
CONSTANTS
    ClaimName <- MCClaims
    Clusters <- MCClusters
    PlanName <- MCPlan
    Schedules <- TwoSchedules
    Keep = 1
    MaxTime = 2
INVARIANTS
    TypeOK
    RefsRight
    NotOlder
PROPERTIES
    CommonTimeSuffices
CHECK_DEADLOCK FALSE
