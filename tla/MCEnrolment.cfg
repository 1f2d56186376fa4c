SPECIFICATION Spec
CONSTANTS
    Engines = {e1, e2}
    InScope = {e1}
    Calls = {c1, c2}
    Rotations = {r1}
    Secrets = {1, 2, 3}
    Allowed = 2
    MaxAttempts = 2
    NoSecret = 0
    NoCall = NoCall
    NoEngine = NoEngine
    NewSecrets <- FirstNew
INVARIANTS
    TypeOK
    RegistrationsArePaid
    RetiredSecretStaysOut
