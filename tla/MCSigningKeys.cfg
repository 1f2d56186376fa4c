SPECIFICATION FairSpec
CONSTANTS
    Replicas = {r1, r2}
    Rotations = {q1}
    Kids = {1, 2, 3}
    NewKids <- LeastKid
    NoKid = 0
    Nobody = Nobody
INVARIANTS
    TypeOK
    OneHistory
PROPERTIES
    TokensBecomeVerifiable
    ReplicasAgree
