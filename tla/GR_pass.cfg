SPECIFICATION Spec
CONSTANTS
    r1 = r1
    r2 = r2
    a = a
    b = b
    Requests = {r1, r2}
    NoOne = NoOne
    Parts = {a, b}
    Shapes <- AllShapes
    EvaluateFromCache = TRUE
    TTL = 1
    MaxVersion = 2
    MaxTime = 2
    MaxFaults = 1
    MaxResubscriptions = 1
    Ops = {"s3error", "denied", "timeout", "cancel", "writefail", "evict", "peer", "refresh"}
SYMMETRY RequestSymmetry
INVARIANTS TypeOK IfMatchHonoured NotModifiedIsTheClients  ResponseOfOneVersion FreshVerdictOfServedVersion NoWaiterIsStranded
