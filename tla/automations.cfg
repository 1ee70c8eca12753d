\* Two batches of up to two runs: the page's (a folder of three is refused) and
\* another caller's. Two slots, which a direct caller wants as well.
SPECIFICATION FairPage
CONSTANTS
    Batch = {b1, b2}
    Direct = {d1}
    MaxSize = 2
    MaxConcurrent = 2
    MaxBatches = 2
    Ttl = 1
    FolderSize = {2, 3}
    OtherSize = {1}
INVARIANTS SlotsSharedAndFull RecordsFollowRuns VerdictIsTrue OneBatchAtATime
PROPERTIES NothingWaitsForEver
CHECK_DEADLOCK FALSE
