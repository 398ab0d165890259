SPECIFICATION FairSpec
CONSTANTS
    Threads = {t1, t2}
    Nobody = nobody
    Threshold = 1
    MaxWaits = 2
    MaxLogs = 3
INVARIANTS LogIsComplete SecondaryExclusive FlushedUnlessSlow
PROPERTIES BufferIsWritten DestructorEnds
CHECK_DEADLOCK FALSE
