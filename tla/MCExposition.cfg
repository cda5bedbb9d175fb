SPECIFICATION Spec
CONSTANTS
    INF <- MCInf
    NaN <- MCNaN
    DEFAULT_BUCKETS <- MCDefaultBuckets
    Offers <- MCOffers
    Setups <- MCSetups
    Pushes <- MCPushes
    MaxTogether = 2
    MaxCalls = 2
INVARIANTS EveryChildIsGathered GatherIsReproducible LabelNamesUnique IdentityIsExact
INVARIANTS TextIsFaithful BuildsAgree SeriesUnique HistogramSeries WireIsFaithful
INVARIANTS PushIsFaithful
