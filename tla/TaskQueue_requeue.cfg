SPECIFICATION FairSpec
CONSTANTS
    Task = {t1, t2}
    Priority = {0}
    MaxSize = 1
    NoEntry = NoEntry
    DuplicateResults = FALSE
    SeqLimit = 3
PROPERTY RequeueCompletes
CHECK_DEADLOCK FALSE
