\* Two concurrent requests, two failures anywhere, one restart.
SPECIFICATION FairSpec
CONSTANTS
    Requests = {r1, r2}
    MaxMishaps = 2
    MaxStarts = 2
INVARIANTS
    TypeOK
    MessageHasRow
    WritesAgree
PROPERTIES
    MessageNotDropped
    EveryRequestEnds
    ShutdownEnds
CHECK_DEADLOCK FALSE
