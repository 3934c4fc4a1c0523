CONSTANTS
    DefaultTimeout = 1
    MaxTimeout = 5
    NormOne = 1
    Threads = {t1, t2}
    Owners = {t1}
    Tasks = {k1}
    NoTask = NoTask
    Backends = {b1}
    NoBackend = NoBackend
    Cancelable = {b1}
    Exchanges <- SomeExchanges
    BackendOutcomes <- SomeOutcomes
    CounterMod = 2
SPECIFICATION FairSpec
INVARIANT NoUseAfterFree
PROPERTY ResultAgrees CompletedIsValid ExchangeReturns CloseReturns
