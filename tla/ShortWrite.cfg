SPECIFICATION Spec
CONSTANTS
    Kinds = {"cfile"}
    BufSize = 2
    StringSizes = {0}
    MaxBytes = 4
    MaxFaults = 1
INVARIANTS
    TrueMeansWritten
CHECK_DEADLOCK FALSE
