SPECIFICATION FairSpec
CONSTANTS
    w1 = w1
    w2 = w2
    Workers <- TwoWorkers
    Plans <- MCPlans
INVARIANTS EffectAtMostOnce RunInv
PROPERTIES SleepersWakeFaultless
\* the run ends
CHECK_DEADLOCK FALSE
