SPECIFICATION StoreSpec
CONSTANTS
    Width = 4
    MaxSlots = 3
    MaxBlocks = 3
    MaxAddress = 8
INVARIANTS
    PagesTile
    BlocksRoundTrip
CHECK_DEADLOCK FALSE
