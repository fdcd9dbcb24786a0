SPECIFICATION FairSpec
CONSTANTS
    Tasks = {t1, t2}
    Pages = {w1, w2}
    MaxChanges = 2
    Unknown = Unknown
INVARIANTS
    TypeOK
    ShowsWhatItWasTold
PROPERTIES
    PassesOverTheDeadOnly
    AutoSealReachesRemote
    DeadSocketsLeave
