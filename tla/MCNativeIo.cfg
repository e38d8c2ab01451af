SPECIFICATION Spec
CONSTANTS
    Tasks = {t1, t2}
    Reader = t1
    Writer = t2
    Workers = {w1, w2}
    MaxWaits = 3
    MaxTokens = 2
    MaxDescriptors = 3
    MaxSockets = 2
    MaxArrivals = 1
    MaxRecords = 3
    MaxReads = 2
    PipeSize = 1
    Chatter = 2
CHECK_DEADLOCK FALSE
INVARIANTS DescriptorsOwned DrainedBeforeDone WatchedOpen RecordsInOrder NoLostWakeup
PROPERTIES CaptureEnds
