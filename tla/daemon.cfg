CONSTANTS
    Daemons = {d1, d2}
    Clients = {c1, c2}
    Backlog = 1
    Exclusive = TRUE
    Nobody = Nobody
SPECIFICATION FairSpec
INVARIANTS PathInv ServerInv
PROPERTIES ClientsReleased StopEnds
