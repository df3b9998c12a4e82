SPECIFICATION FairSpec
CONSTANTS
    w1 = w1
    w2 = w2
    Workers <- TwoWorkers
    Tools <- MCTools
    MaxRetries = 3
    TTL = 1
    MaxStarts = 6
INVARIANTS CallInv EffectsAuthorised
PROPERTIES RecordNeverRegresses CallReturns
\* the bound on starts ends every behaviour
CHECK_DEADLOCK FALSE
