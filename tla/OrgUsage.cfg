SPECIFICATION Spec
CONSTANTS
    w1 = w1
    w2 = w2
    u1 = u1
    u2 = u2
    p1 = p1
    Runs = {"r1", "r2"}
    Workers = {w1, w2}
    Readers = {u1, u2}
    Purgers = {p1}
    Settings <- MCSettings
SYMMETRY Symmetry
INVARIANTS CountedExactly GateSeesSpending
\* the executions and the reads come to an end
CHECK_DEADLOCK FALSE
