SPECIFICATION MCFairSpec
CONSTANTS
    Mode = "Sync"
    N_BUFFERS = 3
    RING_DEPTH = 3
    SPIN_BUDGET = 1
    FSYNC_BYTES = 5
    RecSize = 2
    MaxBatchPuts = 2
    MaxLsn = 5
    MaxFaults = 1
INVARIANTS
    RingBound
    StreamGapless
    AckedIsSafe
    Layout
    BuffersConserved
    NoForgottenFsync
    FlushFlagExact
PROPERTY
    ReleasedByNextBatch
