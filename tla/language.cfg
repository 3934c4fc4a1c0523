CONSTANTS
    Programs <- SomePrograms
    MAX_VARS = 2
    MAX_QBITS = 3
    MAX_REPEATS = 2
    QMSG_MAX_CHARS = 8
    MAX_TOKENS = 60
    ARG_CHARS = 4
    LongTexts = {"long"}
    INT_BITS = 3
    LONG_BITS = 5
SPECIFICATION Spec
INVARIANTS MachinesAgree PairsAgree QmsgFresh State2IsExported
PROPERTY ProgramsEnd
CHECK_DEADLOCK FALSE
