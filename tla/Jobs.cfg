CONSTANTS
    Job = {j1, j2}
    Worker = {w1, w2}
    NoJob = NoJob
    NoHandler = {j2}
    MaxAttempts = 3
    MaxRetries = 2
    MaxBatch = 2
    Others = {j1, j2}
    Tick = {}
    Occurrence = {}
    Lookback = 1
    LastMinute = 1
SPECIFICATION FairSpec
CHECK_DEADLOCK FALSE
INVARIANTS AckedIsSettled 
 
