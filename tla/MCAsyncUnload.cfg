SPECIFICATION Spec
CONSTANTS
    Irps = {r1, r2}
    r1 = r1
    r2 = r2
    r3 = r3
    KindOf <- TwoKinds
    Hosts <- IoManager
INVARIANT UnloadWaitsForOutstanding
