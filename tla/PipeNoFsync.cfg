SPECIFICATION MCSpec
CONSTANTS
    c1 = c1
    c2 = c2
    b1 = b1
    b2 = b2
    Conns = {c1, c2}
    Quitters = {}
    Keys = {"k"}
    Values <- MCTwoValues
    Ops = {"Get", "Put", "Unknown"}
    Mode = "NoFsync"
    MAX_BATCH = 2
    Buffers = {b1}
    REQ_BOUND = 2
    RESP_BOUND = 1
    SOCK_BOUND = 1
    MaxReqs <- MCTwoEach
SYMMETRY MCSymmetry
INVARIANTS
    PipeTypeOK
    PoolConserved
    AnswersStayTrue
    OnePlaceEach
    AnswersInOrder
    
