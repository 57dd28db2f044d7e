SPECIFICATION MCSpec
CONSTANTS
    BASE = 4
    U32 = 2
    U64 = 2
    MAX_FRAME = 6
    BASIS = 5
    PRIME = 3
    MAGIC = 3
    Keys <- MCKeys
    Values <- MCValues
    MaxReqs = 3
INVARIANTS
    FormatsTypeOK
    RequestsArrive
    ResponsesArrive
    
    HoleStopsReplay
