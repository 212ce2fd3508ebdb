\* Three requests, one of which cannot be labelled.
SPECIFICATION Spec
CONSTANTS
    Requests = {r1, r2, r3}
    Unlabeled = {r3}
    Codes = {200, 202, 500}
INVARIANTS
    TypeOK
    GaugeMatches
    
