SPECIFICATION FairSpec
CONSTANTS
    Runs = {r1, r2, r3}
    Names = {n1, n2}
    Roles = {"Admin"}
    MaxKills = 1
    Nobody = Nobody
\* Runs end for good: their operators have what they asked for.
CHECK_DEADLOCK FALSE
INVARIANTS
    TypeOK
    OneWinner
    AmbiguousOnlyAcross
PROPERTIES
    LoginNotTakenOver
    CommandTakesHold
