SPECIFICATION SpecWithClear
CONSTANTS
    v1 = v1
    v2 = v2
    v3 = v3
    v4 = v4
    v5 = v5
    v6 = v6
    Nothing = Nothing
    Values <- IriValues
    Hash <- IriHash
    Reserved <- MCReserved
    BitmapBits = 2
    MaxIx = 7
    MinId = 4
INVARIANTS
    TwoWayMap
    FreelistMatches
PROPERTY
    ImplementsInternTableWithClear
