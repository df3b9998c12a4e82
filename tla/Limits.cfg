SPECIFICATION Spec
CONSTANTS
    Plans <- MCPlans
    ChainCasAttempts = 3
INVARIANTS CountsExact LoopStops CeilingsHold
\* the resumes come to an end
CHECK_DEADLOCK FALSE
