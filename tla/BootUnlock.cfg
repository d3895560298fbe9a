CONSTANTS WakeAttempts = 2
          MaxRounds = 4
          BurstPresses = 3
          MaxIll = 2
          MaxEvents = 2
SPECIFICATION Spec
INVARIANTS GivesUpWithCause
PROPERTIES NoPressIntoGame RunsEnd
CHECK_DEADLOCK FALSE
