SPECIFICATION Spec
CONSTANTS
    def = def
    g1 = g1
    g2 = g2
    a = a
    b = b
    p = p
    q = q
    Null = Null
    DefaultGraph = def
    Formats = {"NTriples", "Turtle", "NQuads", "TriG"}
    Nodes <- MCNodes
    Quads <- MCQuads
    MaxQuads = 3
INVARIANTS
    TextSaysTheQuads
    StateIsWhatIsOpen
CHECK_DEADLOCK FALSE
