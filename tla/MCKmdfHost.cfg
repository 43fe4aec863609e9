SPECIFICATION HostSpec
CONSTANTS
    Answers = {42, 7}
    Greetings = {"hello registry", "other"}
    RuntimeValues = {0, 5, 6}
    Missing = Missing
    Word = 16
    Windows = {2, 8}
    Offsets = {3, 4, 8}
    NoOffset = NoOffset
INVARIANTS
    HostTypeOK
    CacheAgreesWithRegistry
    RegistersMapped
PROPERTIES
    RuntimeRegisterSpec
