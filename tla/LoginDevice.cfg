SPECIFICATION FairSpec
CONSTANTS
    Logins = {t1, t2}
    Limit = 3
    Window = 1
INVARIANTS
    OneDeviceRecord
