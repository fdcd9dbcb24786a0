SPECIFICATION FairSpec
CONSTANTS
    Requests = {r1}
    NoRequest = NoRequest
    Secrets = {x1}
    NoText = NoText
    MaxBoots = 1
INVARIANTS
    RitualRestoresAccess
