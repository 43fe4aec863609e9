SPECIFICATION FairSpec
CONSTANTS
    Requests = {r1, r2, r3}
    NoRequest = NoRequest
    RawAccess = FALSE
INVARIANTS
    TypeOK
    SlotFreeWhenPresented
    QuietOutsideD0
    MappedWhenAccessed
    ReleasedIsClean
PROPERTIES
    RequestsAnswered
    PowerDownCompletes
