SPECIFICATION FairSpec
CONSTANTS
    Obs = {1, 2, 3}
    Writers = {w1, w2}
    Collectors = {c1, c2}
    Readers = {r1}
    NB = 2
    BucketOf <- MCBucketOf
    CountRange = 4
    NoOwner = NoOwner
    NoResult = NoResult
INVARIANTS
    TypeOK
    SnapshotIsCut
    SampleSumComplete
    IInv
PROPERTIES
    ColdShardDrains
    ImplementsAbstract
    LockReleased
