CONSTANTS
    MAX_QUBITS = 3
    MAX_OPS = 4
    Operands = {0, 1, 2, 4}
    Numbers = {0, 2, 3, 5}
    MaxLines = 4
SPECIFICATION Spec
INVARIANTS EmittedMeansSimulated GhzMeasured
CHECK_DEADLOCK FALSE
