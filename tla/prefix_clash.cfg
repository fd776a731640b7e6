SPECIFICATION FairSpec
CONSTANTS
    ClaimName <- MCClaims
    Clusters <- MCClusters
    PlanName <- MCPlan
    Schedules <- NestedSchedules
    Keep = 1
    MaxTime = 1
PROPERTIES
    CommonTimeSuffices
CHECK_DEADLOCK FALSE
