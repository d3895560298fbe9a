SPECIFICATION Spec
CONSTANTS
    AddressLimit = 32
    Chunk = 8
    Slack = 4
    Layouts <- MCLayouts
    Requests <- MCRequests
INVARIANTS
    SlotsAreExact
    BuffersSuffice
    AlignedValuesAreRead
CHECK_DEADLOCK FALSE
