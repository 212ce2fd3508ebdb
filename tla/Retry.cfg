\* Six-bit durations: from attempt 5 on the doubled delay overflows for some
\* base, from attempt 6 on the power of two does.
SPECIFICATION FairSpec
CONSTANTS
    Width = 6
    Attempts = {0, 1, 3, 8}
    Delays = {0, 1, 2, 3, 5, 31}
INVARIANTS
    TypeOK
    WaitsAddUp
    StopsEarly
PROPERTIES
    Returns
