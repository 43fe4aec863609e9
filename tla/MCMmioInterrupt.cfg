SPECIFICATION FairSpec
CONSTANTS
    Irps = {r1, r2, r3}
    NoIrp = NoIrp
    DriverThread = DriverThread
    Hosts <- BothHosts
    SerialControl = TRUE
INVARIANTS
    TypeOK
    ConnectionFlagsAgree
    DeletedIsClean
PROPERTIES
    WaitSlotSpec
    WaitAnswered
