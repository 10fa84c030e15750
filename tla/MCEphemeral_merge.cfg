SPECIFICATION Spec
CONSTANTS
    r1 = r1
    r2 = r2
    a = a
    p1 = p1
    p2 = p2
    c = c
    s = s
    d = d
    w = w
    Run = {r1, r2}
    Task = {a, p1, p2, c, s, d, w}
    NoTask = NoTask
    Specs <- MCSpecs
    Deps <- MCDeps
    Above <- MCAbove
    Chained = {a, p1, p2, c, d}
    Merge = {r1}
    Fallible = {}
    Synced = {}
    Suspends = FALSE
INVARIANT MergedWhenAsked
CHECK_DEADLOCK FALSE
