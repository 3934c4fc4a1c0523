CONSTANTS
    DefaultTimeout = 1
    MaxTimeout = 5
    NormOne = 1
    Threads = {t1}
    Owners = {t1}
    Tasks = {k1}
    NoTask = NoTask
    Backends = {b1}
    NoBackend = NoBackend
    Cancelable = {b1}
    Exchanges <- OneExchange
    BackendOutcomes <- FewOutcomes
    CounterMod = 2
SPECIFICATION Spec
PROPERTY DisconnectGoesOffline
