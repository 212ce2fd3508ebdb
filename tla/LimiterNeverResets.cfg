\* One caller, one key, one Redis command that fails.
SPECIFICATION FairSpec
CONSTANTS
    Keys = {k1}
    Callers = {c1}
    NoKey = NoKey
    Limit = 2
    Window = 3
    MaxFaults = 1
PROPERTIES
    CountIsReset
CHECK_DEADLOCK FALSE
