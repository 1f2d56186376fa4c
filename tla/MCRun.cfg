SPECIFICATION FairSpec
CONSTANTS
    N = 3
    Contextual = {3}
    Unbounded = {2}
    NoError = 0
INVARIANTS
    TypeOK
PROPERTIES
    CrashShutsDownAll
    SignalEndsRun
\* Run returns.
CHECK_DEADLOCK FALSE
