CONSTANTS
    FREEZE_DIC_LENGTH = 1
    Addresses = {1}
    Titles = {1}
    Data = {v}
    Buffers = {1}
    Free = Free
    MaxFds = 1
    MaxChunks = 2
SPECIFICATION FairSpec
PROPERTIES PauseHolds MainLoopResponds FreezesResume
INVARIANTS FreezeYieldsToSearch OneSearchAtATime
