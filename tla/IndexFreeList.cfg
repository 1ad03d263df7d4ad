SPECIFICATION Spec
CONSTANTS
    BitmapBits = 3
    MaxIx = 9
INVARIANTS
    NextIsLowestFree
    WriteInBounds
PROPERTY
    ImplementsAllocator
