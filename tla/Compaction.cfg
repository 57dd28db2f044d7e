SPECIFICATION MCSpec
CONSTANTS
    RING = 2
    SNAPSHOT_EVERY_LSN = 2
    SNAPSHOT_MIN_LSN_GAP = 0
    MaxBatchPuts = 2
    MaxLsn = 5
    MaxRuns = 3
INVARIANTS
    CPTypeOK
    
    
    
    RetireSparesActive
