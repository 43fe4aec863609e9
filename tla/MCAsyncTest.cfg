SPECIFICATION FairSpec
CONSTANTS
    Irps = {r1, r2, r3}
    r1 = r1
    r2 = r2
    r3 = r3
    KindOf <- ThreeKinds
    Hosts <- BothHosts
INVARIANTS
    TypeOK
    OutstandingCountsHolders
    NoLostWakeup
    ContextMatchesRequest
PROPERTIES
    NoAdmissionAfterUnloading
    IrpProtocolSpec
    UnloadCompletes
    RequestsAnswered
