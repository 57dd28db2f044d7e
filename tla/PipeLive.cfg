SPECIFICATION MCFairSpec
CONSTANTS
    c1 = c1
    c2 = c2
    b1 = b1
    b2 = b2
    Conns = {c1, c2}
    Quitters = {c2}
    Keys = {"k"}
    Values <- MCOneValue
    Ops = {"Put"}
    Mode = "Async"
    MAX_BATCH = 1
    Buffers = {b1, b2}
    REQ_BOUND = 1
    RESP_BOUND = 1
    SOCK_BOUND = 1
    MaxReqs <- MCOneAndThree
PROPERTY
    EveryRequestAnswered
