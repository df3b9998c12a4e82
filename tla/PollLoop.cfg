SPECIFICATION FairLoop
CONSTANTS
    h1 = h1
    h2 = h2
    h3 = h3
    h4 = h4
    Handles <- MCHandles
    Undefined = Undefined
    PollMs = 2
    MaxPollMs = 7
    Backoff = TRUE
INVARIANTS LoopInv
PROPERTIES StartedPolls
