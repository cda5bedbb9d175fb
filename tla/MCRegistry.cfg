SPECIFICATION Spec
CONSTANTS
    x = x
    y = y
    p = p
    q = q
    get = get
    put = put
    other = other
    up = up
    Get = Get
    PutGet = PutGet
    Other = Other
    Up = Up
    Put = Put
    Twice = Twice
    Nothing = Nothing
    None = None
    Desc <- MCDesc
    Name <- MCName
    Dim <- MCDim
    Collector <- MCCollector
    Gatherers = {g1}
    fqName <- MCFqName
    id <- MCId
    dimHash <- MCDimHash
    descs <- MCDescs
    WordSize = 64
INVARIANTS DescIdsExact DimensionsAgree NoDuplicateSamples GatherIsComplete
