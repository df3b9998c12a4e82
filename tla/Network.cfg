SPECIFICATION NetSpec
CONSTANTS
    h1 = h1
    h2 = h2
    Hosts <- TwoHosts
    Agents <- TwoAgents
    MaxIterations = 2
    MaxCalls = 4
SYMMETRY Symmetry
INVARIANTS FrozenHistory AnswersAgree ReplayAsksNobody VetoStands
\* the calls come to an end
CHECK_DEADLOCK FALSE
