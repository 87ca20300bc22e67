CONSTANTS
    e1 = e1
    i1 = i1
    i2 = i2
    Instances <- TwoInstances
    Extents <- OneExtent
    MaxVersion = 2
    MaxStamp = 4
    LastModified <- MCLastModified
    LockExclusive = TRUE
    Faults = FALSE
    Ops <- PutOps
SPECIFICATION QuietPutSpec
INVARIANT PutInvalidatesOldCache
CHECK_DEADLOCK FALSE
