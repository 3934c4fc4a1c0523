CONSTANTS
    Size = 3
    Capacity = 2
    Timeout = 2
    TicksPerMs = 2
    MaxSignals = 2
    Stoppable = {"daemon"}
SPECIFICATION FairSpec
INVARIANT NothingLostOrReordered StopEndsCall
PROPERTY DeadlineKept PacketsWhole EveryCallReturns
