SPECIFICATION Spec
CONSTANTS
    Appenders = {a1}
    Readers = {r1}
    Worker = worker
    MaxRows = 2
    MaxEdits = 0
    Lags = {0, 1}
INVARIANTS
    HonestLogVerifies
