CONSTANTS
    t1 = t1
    t2 = t2
    p1 = p1
    p2 = p2
    p3 = p3
    h1 = h1
    h2 = h2
    Tasks <- TwoTasks
    Procs <- MCProcs
    HostOf <- MCHostOf
    Deployments <- PairDeployments
    MaxRetries = 1
    MaxEpoch = 1
    MaxPid = 2
    Ops = {"crash", "writeFailure", "timeout"}
SPECIFICATION FairSpec
INVARIANTS
    TypeOK
    
PROPERTIES
    AttemptEnds
