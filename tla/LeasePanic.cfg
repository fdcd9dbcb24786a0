SPECIFICATION FairSpec
CONSTANTS
    Leases = {l1, l2}
    Panics = {p1}
    MaxTtl = 1
PROPERTIES
    PanicRevokesAll
