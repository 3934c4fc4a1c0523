CONSTANTS
    DefaultTimeout = 1
    MaxTimeout = 5
    NormOne = 1
    Threads = {t1, t2}
    Owners = {t1}
    Tasks = {k1}
    NoTask = NoTask
    Backends = {b1}
    NoBackend = NoBackend
    Cancelable = {b1}
    Exchanges <- OneExchange
    BackendOutcomes <- NoOutcomes
    CounterMod = 2
    Fds = {0}
    Frames <- OneFrame
SPECIFICATION TimedStackSpec
INVARIANT AdapterQuiescent
PROPERTY StackBusyEnds
