SPECIFICATION WorkflowFairSpec
CONSTANTS
    i1 = i1
    i2 = i2
    after = after
    other = other
    NoTask = NoTask
    Task = {i1, i2, after}
    Wf = {i1, i2, after}
    Phase = {i1, i2, after}
    Deps <- Chain
    PhaseOf <- OnePhaseEach
    Iterations <- TwoIterations
    Batch = {}
    MaxRetries = 1
    Cancellable = {}
    Expirable = {}
    Unroutable = {}
    SpawnsAgents = FALSE
    CancelsWorkflow = FALSE
PROPERTY LoopReleases
CHECK_DEADLOCK FALSE
