SPECIFICATION Spec
CONSTANTS
    q1 = q1
    q2 = q2
    q3 = q3
    Requests <- ThreeRequests
    Environments <- LangSmith
    Installed <- BothPackages
    CustomRules <- MCCustomRules
    EvalEvery = 2
    StartTime = 2
    Cooldown = 1
    SlowMs = 100
    CostLimit = 3
    Window = 0
    MaxSnapshots = 2
    Latencies <- MCLatencies
    Snapshots <- MCSnapshots
    RunCost = 2
    MaxTime = 3
SYMMETRY Symmetry
INVARIANT EveryRequestCounted
