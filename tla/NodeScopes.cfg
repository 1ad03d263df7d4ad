SPECIFICATION Spec
CONSTANTS
    t1 = t1
    t2 = t2
    l1 = l1
    l2 = l2
    None = None
    Threads <- MCThreads
    Labels <- MCLabels
    Names <- MCNames
    Seed <- MCSeed
    Managers = {"merge", "union"}
    InitialValue = 0
    CounterMod = 32
    IdLimit = 10
    MaxCalls = 5
INVARIANTS
    TwoWay
    OneNodePerLabel
    LabelsApart
CHECK_DEADLOCK FALSE
