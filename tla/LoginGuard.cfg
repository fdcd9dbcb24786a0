SPECIFICATION FairSpec
CONSTANTS
    Logins = {t1, t2}
    Limit = 2
    Window = 2
INVARIANTS
    TypeOK
    PassedWithinLimit
PROPERTIES
    ThrottleEnds
