SPECIFICATION FairSpec
CONSTANTS
    Instances = {i1}
    Handlers = {h1}
    Sweepers = {s1, s2}
    DegradedAfter = 1
    UnreachableAfter = 2
    EvictAfter = 3
    Never = Never
    Nobody = Nobody
    Nothing = Nothing
INVARIANTS
    TypeOK
    JudgedByAHeartbeat
PROPERTIES
    RevivalsRunOut
    SilentInstanceDecays
    ForceRemovedStaysOut
