SPECIFICATION FairSpec
CONSTANTS
    w1 = w1
    w2 = w2
    Workers <- TwoWorkers
    Settings <- MCSettings
    MaxJobs = 3
    MaxToken = 6
INVARIANTS UnclaimedStaysAhead WorkerInv
PROPERTIES JobsFinish
