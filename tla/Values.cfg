CONSTANTS
    Dynamic <- MCDynamic
    Bits <- MCBits
    IdWidth = 8
    ExponentBits = 2
    MaxExponent = 4
    MaxScaleIncrease = 2
    Grid = 8
    FloatStep = 4
    MaxDouble = 800
    MaxFloat = 400
    MinutesPerHour = 1
    SecondsPerMinute = 1
    MillisPerSecond = 1
    TicksPerMilli = 2
    MaxYear = 10000
    MaxCount = 1000
    ShortBits = 5
    SecondsBits = 4
    Specialized <- MCSpecialized
    Comparable = {"d2"}
    InlinedTags <- MCTags
    Samples <- MCSamples
    Firsts <- MCFirsts
    CastTypes <- MCCastTypes
    Multiplicities = {0, 60}
    Bases <- MCBases
    References <- MCReferences
    Prefix <- MCPrefix
    Expansions <- MCExpansions
    MaxSteps = 2
SPECIFICATION Spec
INVARIANTS ComparisonsMirror ArithmeticIsExact DatesAddUp MovedIsSame ResolvesAsRfc
CHECK_DEADLOCK FALSE
