SPECIFICATION FairSpec
CONSTANTS
    FailureThreshold = 1
    MaxRecoveryAttempts = 1
    MaxConsecutiveFailures = 1
    FinalFailures = 1
    MaxResets = 1
    MaxResults = 1
    MaxLoops = 2
    MaxJobs = 1
INVARIANT SupervisionInv
INVARIANT IdleHasLoop
PROPERTY ErrorSettles
PROPERTY BreakerLetsGo
CHECK_DEADLOCK FALSE
