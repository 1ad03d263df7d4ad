SPECIFICATION Spec
CONSTANTS
    Kinds = {"string", "cfile", "ostream", "iterator"}
    BufSize = 2
    StringSizes = {0, 1, 3}
    MaxBytes = 7
    MaxFaults = 2
INVARIANTS
    NothingLost
    StreamGetsAPrefix
PROPERTIES
    WriteReturns
CHECK_DEADLOCK FALSE
