SPECIFICATION Spec
CONSTANTS
    Requests = {r1, r2}
    NoRequest = NoRequest
    RawAccess = TRUE
INVARIANT
    AnsweredByOwnCallback
