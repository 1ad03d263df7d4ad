CONSTANTS
    Server <- MCServer
    RemoteLimit = 4
    StackLimit = 14
    DocumentBase <- MCDocumentBase
    KeepLabels = FALSE
    TypeOrder <- MCTypeOrder
    NoBlankNodes = FALSE
    DirectionForm = "compound"
    Documents <- MCDocuments
    Locals <- MCLocals
    MaxNesting = 2
SPECIFICATION Spec
INVARIANTS
    TermOrderIrrelevant
    ListsWellFormed
    RequestedOnce
    CirclesAreFound
    LabelsApart
PROPERTIES
    ProtectedStay
    OrderIndependent
CHECK_DEADLOCK FALSE
