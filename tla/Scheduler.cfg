SPECIFICATION FairSpec
CONSTANTS
    h1 = h1
    h2 = h2
    p1 = p1
    p2 = p2
    Hosts <- TwoHosts
    Pollers <- TwoPollers
    RetryMs = 1
    Plans <- MCPlans
    MaxBackoff = 2
    MaxTime = 4
    MaxFires = 4
INVARIANTS FiresExact PlanKept
PROPERTIES NoRollback TriggersLive
