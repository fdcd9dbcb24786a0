SPECIFICATION FairSpec
CONSTANTS
    Requests = {r1, r2}
    NoRequest = NoRequest
    Secrets = {x1}
    NoText = NoText
    MaxBoots = 2
INVARIANTS
    TypeOK
    AuditMatchesAnswers
PROPERTIES
    TransitHeals
    RequestsEnd
    SealStopsDisclosure
