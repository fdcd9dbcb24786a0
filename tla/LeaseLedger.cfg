SPECIFICATION FairSpec
CONSTANTS
    Leases = {l1, l2}
    Panics = {p1, p2}
    MaxTtl = 2
INVARIANTS
    TypeOK
    ExpiredWasOverdue
PROPERTIES
    PanicMissesOnlyLatecomers
    LeaseTermsSpec
    PanicSealsOrFails
    LeasesEnd
