SPECIFICATION MCSpec
CONSTANTS
    Mode = "Async"
    N_BUFFERS = 2
    RING_DEPTH = 2
    SPIN_BUDGET = 0
    FSYNC_BYTES = 3
    RecSize = 2
    MaxBatchPuts = 1
    MaxLsn = 9
    MaxFaults = 0
    MaxRuns = 2
    PowerLoss = FALSE
    MaxRunPuts = 2
INVARIANTS
    AckedSurvives
