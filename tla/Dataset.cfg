SPECIFICATION Spec
CONSTANTS
    def = def
    g1 = g1
    g2 = g2
    a = a
    b = b
    p = p
    x = x
    y = y
    z = z
    Null = Null
    DefaultGraph = def
    Names <- MCNames
    Nodes <- MCNodes
    Triples <- MCTriples
    Variables <- MCVariables
    Patterns <- MCPatterns
    BlankNodes <- MCBlankNodes
    Rank <- MCRank
    MaxQuads = 4
INVARIANTS
    StoresWhatWasAdded
    WalkSeesAll
    MatchFindsAll
    ComparisonIsRight
