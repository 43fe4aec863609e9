SPECIFICATION Spec
CONSTANTS
    Irps = {r1, r2}
    NoIrp = NoIrp
    Injection = FALSE
INVARIANT
    NothingPendingInD3
