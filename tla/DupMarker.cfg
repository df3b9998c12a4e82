SPECIFICATION MarkerSpec
CONSTANTS
    c1 = c1
    c2 = c2
    c3 = c3
    c4 = c4
    Calls <- MCCalls
    Approved <- MCApproved
    StaleTtl = 1
    Stalls = FALSE
    Crashes = TRUE
INVARIANTS MarkerInv
PROPERTIES SuccessIsFinal
\* every call ends
CHECK_DEADLOCK FALSE
