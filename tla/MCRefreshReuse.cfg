SPECIFICATION Spec
CONSTANTS
    Tokens = {1, 2, 3, 4}
    Codes = {c1}
    Requests = {p1, p2}
    NoToken = 0
    NoRequest = NoRequest
    NoCode = NoCode
    NewHashes <- LeastHash
INVARIANT
    ReuseRevokesFamily
