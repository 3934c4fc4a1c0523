CONSTANTS
    DefaultTimeout = 1
    MaxTimeout = 5
    NormOne = 1
    Threads = {t1, t2}
    Owners = {t1, t2}
    Tasks = {k1, k2}
    NoTask = NoTask
    Backends = {b1}
    NoBackend = NoBackend
    Cancelable = {b1}
    Exchanges <- OneExchange
    BackendOutcomes <- FewOutcomes
    CounterMod = 2
SPECIFICATION Spec
INVARIANT NoUseAfterFree
