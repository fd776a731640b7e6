SPECIFICATION Spec
CONSTANTS
    p1 = p1
    p2 = p2
    o1 = o1
    c1 = c1
    c2 = c2
    v1 = v1
    v2 = v2
    v3 = v3
    pre1 = pre1
    post1 = post1
    post2 = post2
    None = None
    Plans = {p1, p2}
    Clusters = {c1, c2}
    Operators = {o1}
    PVCs = {v1, v2, v3}
    Hooks = {pre1, post2}
    PlanOf <- TwoPlanOf
    ClusterOf <- TwoClusterOf
    HookPlan <- TwoHookPlan
    PostHooks = {post2}
    NodeHooks = {}
    SkipRestoring = {v3}
    SkipWaitDown = {}
    SkipWaitUp = {}
    SpecTime <- TwoTimes
    Taken <- TwoTaken
    Late = {}
    Removable = {}
    Expirable = {}
    MaxTime = 1
    MaxFaults = 1
INVARIANTS
    LockOnlyAfterRestore
