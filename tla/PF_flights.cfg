CONSTANTS
    r1 = r1
    r2 = r2
    r3 = r3
    g1 = g1
    g2 = g2
    a = a
    b = b
    Requests <- ThreeRequests
    Wants <- SameWants
    Pages <- OnePage
    PartsOf <- OnePart
    Expect <- SecondConditional
    MaxVersion = 1
    MaxEvictions = 1
    Ops = {"s3error", "timeout", "cancel"}
SPECIFICATION FairSpec
INVARIANTS
    OneFetcherPerPage
PROPERTIES
    RequestsEnd
CHECK_DEADLOCK FALSE
