SPECIFICATION Spec
CONSTANTS
    t1 = t1
    t2 = t2
    f1 = f1
    f2 = f2
    LedgerTasks = {t1, t2}
    LedgerCeiling = 3
    LedgerWord = 4
    BodyLimit = 3
    Fetches = {f1, f2}
    ClientOf <- OneClient
    HedgeBudget = 2
    FractionNum = 1
    FractionDen = 2
    MaxRetries = 1
    ObjectSize = 4
    PageSize = 3
    GapThresholds = {0, 1, 2}
    MaxExtents = 2
    RamKeys = {"a", "b", "c"}
    RamSizes = {1, 2, 5}
    RamCapacity = 4
    RamReaders = {"r1", "r2"}
    MaxPending = 2
    MetaKeys = {"a", "b", "c"}
    MetaCapacity = 2
    MetaReaders = {"r1", "r2"}
    RefreshInterval = 1
    RangeEntries = {"e1", "e2"}
    HitEntries = {"h1"}
    StagedPuts = {1, 2}
    StageReaders = {"r1"}
    LedgerFiles = {"f1"}
    StagingTrigger = 0
INVARIANTS
    LedgerCountsHeld
    GovernorCountsGuards
    
    ParsedRangeIsSelected
    PagesHoldTheRequest
    MissingIsExact
    ConsolidationCovers
    MergedBodyIsExact
    RamShardConsistent
    MetadataCacheBounded
    
    
PROPERTIES
    LedgerImplementsBudget
    RaceEnds
    
CHECK_DEADLOCK FALSE
