SPECIFICATION Spec
CONSTANTS
    Irps = {r1, r2, r3}
    NoIrp = NoIrp
    DriverThread = DriverThread
    Hosts <- IoManager
    SerialControl = FALSE
INVARIANT
    ConnectionFlagsAgree
