CONSTANTS
    r1 = r1
    r2 = r2
    r3 = r3
    g1 = g1
    g2 = g2
    a = a
    b = b
    Requests <- TwoRequests
    Wants <- SpanWants
    Pages <- TwoPages
    PartsOf <- MCPartsOf
    Expect <- SecondConditional
    MaxVersion = 2
    MaxEvictions = 2
    Ops = {"s3error", "timeout", "cancel"}
SPECIFICATION Spec
INVARIANTS
    TypeOK
    PageResponseOfOneVersion
CHECK_DEADLOCK FALSE
