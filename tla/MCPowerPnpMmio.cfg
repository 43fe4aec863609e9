SPECIFICATION FairSpec
CONSTANTS
    Irps = {r1, r2}
    NoIrp = NoIrp
INVARIANTS
    TypeOK
    PoweredOverLower
    ResourcesFollowStarted
PROPERTIES
    WaitSlotSpec
    ManagerAnswered
    WaitAnswered
