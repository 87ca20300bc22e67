SPECIFICATION Spec
CONSTANTS
    r1 = r1
    r2 = r2
    a = a
    b = b
    Requests = {r1, r2}
    NoOne = NoOne
    Parts = {a, b}
    Shapes <- NotModifiedRange
    EvaluateFromCache = FALSE
    TTL = 1
    MaxVersion = 2
    MaxTime = 2
    MaxFaults = 2
    MaxResubscriptions = 1
    Ops = {}
INVARIANT VerdictReturnedForRange
