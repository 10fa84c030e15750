SPECIFICATION FairSpec
CONSTANTS
    t1 = t1
    t2 = t2
    a1 = a1
    a2 = a2
    NoTask = NoTask
    NoAgent = NoAgent
    Capable <- AnyAgent
    Target <- AimedAtA1
    Task = {t1, t2}
    Agent = {a1, a2}
    MaxRetries = 1
    DlqMaxRetries = 2
    MaxEscalations = 0
    WatchdogOn = FALSE
    Cancellable = {t1, t2}
    Drainable = {}
    Fallible = {}
    Expirable = {t1}
INVARIANT NoTaskLost
INVARIANT OneCopy
INVARIANT EndedStaysEnded
PROPERTY ImplementsLifecycle
PROPERTY EveryTaskEnds
CHECK_DEADLOCK FALSE
