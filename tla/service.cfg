CONSTANTS
    DefaultTimeout = 1
    MaxTimeout = 2
    NormOne = 4
    Widths = {0, 1, 2, 3, 21}
    Shots = {0, 1, 2}
    RequestedShots = {0, 1, 2, 101}
    MaxSampled = 2
    Seeds = {0, 66051}
SPECIFICATION ServiceSpec
INVARIANT PacketsAgree InRangeSucceeds ClientsAgree NothingHeld
PROPERTY ImplementsRegister
