\* One user, two concurrent requests, rows that change twice.
SPECIFICATION FairSpec
CONSTANTS
    Callers = {c1, c2}
    TTL = 3
    MaxHold = 2
    MaxUpdates = 3
INVARIANTS
    TypeOK
    FreshEnough
    ErrorHasCause
PROPERTIES
    CacheCatchesUp
