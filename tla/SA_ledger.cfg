CONSTANTS
    i1 = i1
    i2 = i2
    w1 = w1
    w2 = w2
    a = a
    Files <- OneFile
    Size <- Three
    Instances <- TwoInstances
    Workers <- TwoWorkers
    HostOf <- OneEach
    MaxSize = 1
    Trigger = 1
    Target = 0
    MaxStores = 2
    MaxFaults = 1
    Faults = {"write", "unlink", "update", "skip", "crash"}
SPECIFICATION Spec
INVARIANTS
    TypeOK
    DeltasConserved
CHECK_DEADLOCK FALSE
