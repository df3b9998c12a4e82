SPECIFICATION FairSpec
CONSTANTS
    c1 = c1
    c2 = c2
    o1 = o1
    o2 = o2
    Procs <- MCProcs
    Teams <- MCTeams
    PageSize = 1
    ReleaseTries = 2
    MaxEvents = 2
INVARIANTS PassedIsVisible Accounts
PROPERTIES ReleaseStandsAlone ImplementsDelivery EventsSettle
