SPECIFICATION CheckpointFairSpec
CONSTANTS
    first = first
    second = second
    last = last
    NoTask = NoTask
    Task = {first, second, last}
    Wf = {first, second}
    Phase = {first, second}
    Deps <- Behind
    PhaseOf <- OnePhaseEach
    Iterations <- NoLoop
    Batch = {}
    MaxRetries = 1
    Cancellable = {}
    Expirable = {}
    Unroutable = {}
    SpawnsAgents = FALSE
    CancelsWorkflow = FALSE
    MaxCrashes = 1
PROPERTY HeldSurvives
CHECK_DEADLOCK FALSE
