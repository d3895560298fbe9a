SPECIFICATION Spec
CONSTANTS
    a = a
    b = b
    file = file
    session = session
    Sessions = {a, b}
    Names = {file, session}
    SearchNames = {session}
    PlainMax = 1
    MaxLength = 2
    MaxFaults = 2
    MaxCrashes = 1
    MaxCommands = 4
INVARIANTS UploadIsKept GivingUpPutsBack NeverNested
PROPERTIES SearchIsGuarded
CHECK_DEADLOCK FALSE
