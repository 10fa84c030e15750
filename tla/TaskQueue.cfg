SPECIFICATION Spec
CONSTANTS
    Task = {t1, t2}
    Priority = {0, 1}
    MaxSize = 1
    NoEntry = NoEntry
    DuplicateResults = FALSE
    SeqLimit = 4
INVARIANT QueueInv
INVARIANT CounterCoversQueue
INVARIANT CancelledStaysOffQueue
PROPERTY LatestPriorityServed
PROPERTY ImplementsPool
CHECK_DEADLOCK FALSE
