SPECIFICATION WorkflowFairSpec
CONSTANTS
    i1 = i1
    i2 = i2
    after = after
    other = other
    NoTask = NoTask
    Task = {i1, i2, after, other}
    Wf = {i1, i2}
    Phase = {i1, i2}
    Deps <- Join
    PhaseOf <- OnePhaseEach
    Iterations <- TwoIterations
    Batch = {}
    MaxRetries = 1
    Cancellable = {i1}
    Expirable = {i2, after}
    Unroutable = {i2}
    SpawnsAgents = FALSE
    CancelsWorkflow = TRUE
INVARIANT DependenciesInv
INVARIANT StartedInOrder
INVARIANT NoDoomedWait
INVARIANT CompleteMeansDone
INVARIANT FailureReported
PROPERTY WaitingEnds
PROPERTY RunEnds
CHECK_DEADLOCK FALSE
