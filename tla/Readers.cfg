SPECIFICATION Spec
CONSTANTS
    Refused <- MCRefused
    BadRefs = {"bad ref"}
    AbsoluteRefs <- MCAbsolute
    NCNames = {"n", "i"}
    IllTyped <- MCIllTyped
    BadTexts = {"one"}
    Elements <- MCElements
    Properties = {"p", "li"}
    Callbacks <- MCCallbacks
    Documents <- MCDocuments
    SerdSetups <- MCSetups
    Base = "http://base/"
    MaxNodes = 4
    MaxStrays = 1
    MaxChunks = 1
INVARIANTS
    InStep
    PropertiesSaid
    ListsWellFormed
    ReifiedOnce
    StatementsInOrder
    XmlToldOfFailure
PROPERTY
    ReadsToTheEnd
