SPECIFICATION CheckpointFairSpec
CONSTANTS
    first = first
    second = second
    last = last
    NoTask = NoTask
    Task = {first, second, last}
    Wf = {first, second}
    Phase = {first, second}
    Deps <- Behind
    PhaseOf <- OnePhaseEach
    Iterations <- NoLoop
    Batch = {}
    MaxRetries = 1
    Cancellable = {first, second, last}
    Expirable = {first, second, last}
    Unroutable = {second}
    SpawnsAgents = FALSE
    CancelsWorkflow = TRUE
    MaxCrashes = 2
PROPERTY ImplementsDurable
INVARIANT FinishedStaysFinished
INVARIANT OrderSurvives
INVARIANT BooksSurvive
INVARIANT RestoredRunHonest
PROPERTY QueuedSurvives
CHECK_DEADLOCK FALSE
