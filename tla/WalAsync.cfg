SPECIFICATION MCFairSpec
CONSTANTS
    Mode = "Async"
    N_BUFFERS = 2
    RING_DEPTH = 2
    SPIN_BUDGET = 1
    FSYNC_BYTES = 3
    RecSize = 2
    MaxBatchPuts = 2
    MaxLsn = 7
    MaxFaults = 1
INVARIANTS
    SafetyInv
    LossWindow
PROPERTY
    EveryPutAnswered
