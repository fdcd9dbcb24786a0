SPECIFICATION Spec
CONSTANTS
    Appenders = {a1, a2}
    Readers = {r1}
    Worker = worker
    MaxRows = 3
    MaxEdits = 1
    Lags = {0, 1}
INVARIANTS
    TypeOK
    ChainedOnEarlier
PROPERTIES
    IntactVouches
    AlarmHasACause
    BrokenStaysBroken
