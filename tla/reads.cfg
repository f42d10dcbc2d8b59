SPECIFICATION Spec
CONSTANTS
    close = close
    near = near
    away = away
    ml = ml
    ops = ops
    mlops = mlops
    llmops = llmops
    Items <- ThreeItems
    Tags <- FourTags
    Distance <- Distances
    SeedLimit = 1
    Limit = 2
    PairLimit = 2
    MaxDepth = 2
    MaxNodes = 2
    Beginnings <- Started
    MaxWrites = 2
    Window = 2
    Stamps <- Arrivals
    Sample = 1
    Busiest = 1
SYMMETRY TagSymmetry
INVARIANTS
    TypeOK
    SeedsComeFirst
    DepthIsDistance
    NothingMissed
    ExplorerIsConnected
    CountedOnce
    TotalsCoverCounts
    SamplesAreEvidence
