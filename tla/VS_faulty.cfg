CONSTANTS
    e1 = e1
    i1 = i1
    i2 = i2
    Instances <- OneInstance
    Extents <- OneExtent
    MaxVersion = 2
    MaxStamp = 3
    LastModified <- MCLastModified
    LockExclusive = FALSE
    Faults = TRUE
    Ops <- FaultyOps
SPECIFICATION Spec
INVARIANTS
    TypeOK
    MetaNamesItsVersion
    ResponseOfOneVersion
CHECK_DEADLOCK FALSE
