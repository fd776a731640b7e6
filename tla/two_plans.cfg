SPECIFICATION Spec
CONSTANTS
    p1 = p1
    p2 = p2
    o1 = o1
    c1 = c1
    c2 = c2
    v1 = v1
    v2 = v2
    v3 = v3
    pre1 = pre1
    post1 = post1
    post2 = post2
    None = None
    Plans = {p1, p2}
    Clusters = {c1, c2}
    Operators = {}
    PVCs = {v1, v2, v3}
    Hooks = {pre1, post2}
    PlanOf <- BarePlanOf
    ClusterOf <- WideClusterOf
    HookPlan <- TwoHookPlan
    PostHooks = {post2}
    NodeHooks = {}
    SkipRestoring = {}
    SkipWaitDown = {c1}
    SkipWaitUp = {c2}
    SpecTime <- TwoTimes
    Taken <- TwoTaken
    Late = {}
    Removable = {}
    Expirable = {}
    MaxTime = 2
    MaxFaults = 2
INVARIANTS
    CompletedMeansDone
    OneRestorePoint
PROPERTIES
    ImplementsPlanLife
    PostHooksAfterRestore
