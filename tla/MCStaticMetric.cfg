SPECIFICATION Spec
CHECK_DEADLOCK FALSE
CONSTANTS
    INF <- MCInf
    NaN <- MCNaN
    DEFAULT_BUCKETS <- MCDefaultBuckets
    Programs <- MCPrograms
    Threads = {"t", "u"}
    MaxUpdates = 2
INVARIANTS StructsApart EveryCombinationExists Conserved DelegatorsReachTheirLeaves
PROPERTIES FlushReachesEveryLeaf
