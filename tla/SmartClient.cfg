SPECIFICATION MCSpec
CONSTANTS
    Kinds = {"sync", "async"}
    Callers = {"a", "b", "c"}
    MaxCalls = 1
    CALLS = 1
    REQS = 1
    RESPS = 3
    MaxConns = 3
INVARIANTS
    SCTypeOK
    WaitersMatchRequests
    EveryCallInOnePlace
PROPERTIES
    ImplementsCalls
    EveryCallReturns
