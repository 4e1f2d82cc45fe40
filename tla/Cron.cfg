CONSTANTS
    Job = {j1, j2}
    Worker = {w1}
    NoJob = NoJob
    NoHandler = {}
    MaxAttempts = 1
    MaxRetries = 0
    MaxBatch = 1
    Others = {}
    Tick = {t1, t2}
    Occurrence <- LateMinutes
    Lookback = 1
    LastMinute = 3
SPECIFICATION Spec
SYMMETRY Symmetry
CHECK_DEADLOCK FALSE
INVARIANTS TypeOK  RunNotLost
