CONSTANTS
    FREEZE_DIC_LENGTH = 3
    Addresses = {1, 2, 3, 4}
    Titles = {1}
    Data = {v1, v2}
    Buffers = {1, 2, 3, 4}
    Free = Free
SPECIFICATION TableSpec
PROPERTY ImplementsFreezeMap
