CONSTANTS MaxFaults = 0
          MaxHits = 2
          MaxRequests = 2
SPECIFICATION SafeSpec
INVARIANTS OneSession HandleIsOwned StopIsCurrent HitLimitKept
PROPERTY PatchIsGuarded
CHECK_DEADLOCK FALSE
