SPECIFICATION Spec
CONSTANTS
    p1 = p1
    p2 = p2
    PadOrder <- MCPadOrder
    Stranger = stranger
    SavedMax = 2
    Retries = 4
    LinkPasses = 2
    Sequences_ <- MCSequences
    MaxEvents = 2
INVARIANTS HeldIsKept
PROPERTIES TakenIsRemembered TakenComesBack InputReturns
CHECK_DEADLOCK FALSE
