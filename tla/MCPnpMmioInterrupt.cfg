SPECIFICATION FairSpec
CONSTANTS
    Irps = {r1, r2}
    NoIrp = NoIrp
    Word = 32
    Windows = {2, 16}
    Offsets = {3, 12, 16}
INVARIANTS
    TypeOK
    AccessInsideWindow
    ResourcesFollowStarted
PROPERTIES
    WaitSlotSpec
    WaitAnswered
