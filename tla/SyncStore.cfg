SPECIFICATION FairSpec
CONSTANTS
    t1 = t1
    t2 = t2
    t3 = t3
    v1 = v1
    v2 = v2
    v3 = v3
    Threads <- MCThreads
    Values <- MCValues
    Reserved <- MCReserved
    Nothing = Nothing
    NoRequest = NoRequest
    NoAnswer = NoAnswer
    DefaultView = DefaultView
    Erased = Erased
    NotErased = NotErased
    Done = Done
    MinId = 2
    MaxIx = 4
    MaxCalls = 4
INVARIANTS
    OneIdPerValue
PROPERTIES
    Linearizable
    CallsReturn
CHECK_DEADLOCK FALSE
