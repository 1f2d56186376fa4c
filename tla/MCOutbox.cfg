SPECIFICATION FairSpec
CONSTANTS
    Notifications = {n1, n2}
    Workers = {w1, w2}
    BatchSize = 2
    MaxAttempts = 2
    NoOne = NoOne
    Nothing = Nothing
INVARIANTS
    TypeOK
    ExclusiveClaims
    AtMostOneDelivery
PROPERTIES
    EveryMessageSettles
