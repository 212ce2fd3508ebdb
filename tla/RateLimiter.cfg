\* Two concurrent callers on two keys, two failures anywhere.
SPECIFICATION FairSpec
CONSTANTS
    Keys = {k1, k2}
    Callers = {c1, c2}
    NoKey = NoKey
    Limit = 2
    Window = 3
    MaxFaults = 2
INVARIANTS
    TypeOK
    
    NoKeyWithoutExpiry
    
PROPERTIES
    LimitIsLifted
CHECK_DEADLOCK FALSE
