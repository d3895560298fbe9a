CONSTANTS MaxFaults = 1
          MaxHits = 2
          MaxRequests = 1
SPECIFICATION Spec
PROPERTIES CleanOrReported CommandsReturn TargetsRun
CHECK_DEADLOCK FALSE
