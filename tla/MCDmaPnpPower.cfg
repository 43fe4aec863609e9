SPECIFICATION FairSpec
CONSTANTS
    Irps = {r1, r2}
    NoIrp = NoIrp
    Injection = TRUE
INVARIANTS
    TypeOK
    ResourcesAllOrNothing
    ResourcesNested
PROPERTIES
    WaitSlotSpec
    PendingAnswered
