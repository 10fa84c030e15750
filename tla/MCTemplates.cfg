SPECIFICATION FairSpec
CONSTANTS
    r1 = r1
    r2 = r2
    Run = {r1, r2}
    NoRun = NoRun
    Body <- MCBody
    Plan <- MCPlan
    Before <- MCBefore
    Promised <- MCPromised
    Launch <- MCLaunch
    Custom <- MCCustom
    Slashed <- MCSlashed
    Unprefixed <- MCUnprefixed
INVARIANT BlackboardInv
INVARIANT InputsReady
INVARIANT NothingLost
INVARIANT RunReported
INVARIANT ReplyLast
INVARIANT PhaseOrder
PROPERTY RunEnds
CHECK_DEADLOCK FALSE
