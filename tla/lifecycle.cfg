CONSTANTS
    Daemons = {d1, d2}
    Clients = {}
    Backlog = 1
    Exclusive = FALSE
    Nobody = Nobody
    Scripts = {s1, s2}
    FewAfterLoss = TRUE
SPECIFICATION LifecycleSpec
INVARIANT RunningIsRecorded ServedPathKept
PROPERTY VerdictsTrue CommandsEnd
