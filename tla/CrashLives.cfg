SPECIFICATION MCSpec
CONSTANTS
    Mode = "Sync"
    N_BUFFERS = 2
    RING_DEPTH = 3
    SPIN_BUDGET = 0
    FSYNC_BYTES = 3
    RecSize = 2
    MaxBatchPuts = 2
    MaxLsn = 9
    MaxFaults = 0
    MaxRuns = 3
    PowerLoss = TRUE
    MaxRunPuts = 3
INVARIANTS
    OnlyOldTearsHide
    RecoveredPrefix
    AppendOnly
    ReplayInIssueOrder
