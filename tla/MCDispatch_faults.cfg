SPECIFICATION Spec
CONSTANTS
    t1 = t1
    t2 = t2
    a1 = a1
    a2 = a2
    NoTask = NoTask
    NoAgent = NoAgent
    Capable <- AnyAgent
    Target <- NoTarget
    Task = {t1}
    Agent = {a1, a2}
    MaxRetries = 1
    DlqMaxRetries = 2
    MaxEscalations = 1
    WatchdogOn = TRUE
    Cancellable = {t1}
    Drainable = {a1}
    Fallible = {a1}
    Expirable = {t1}
INVARIANT DispatchInv
INVARIANT DispatchesBounded
CHECK_DEADLOCK FALSE
