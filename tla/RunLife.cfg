SPECIFICATION Spec
CONSTANTS
    w1 = w1
    w2 = w2
    o1 = o1
    o2 = o2
    k1 = k1
    Workers <- TwoWorkers
    Operators <- TwoOperators
    Canceler <- k1
    Plans <- MCPlans
SYMMETRY Symmetry
INVARIANTS StopsReach EffectsExact
PROPERTIES ReverseOrder OutcomeMonotone
\* attempts are bounded
CHECK_DEADLOCK FALSE
