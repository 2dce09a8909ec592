CONSTANTS
    n1 = n1
    n2 = n2
    Batch = Batch
    Names <- TwoNames
    DepName <- TwoPackages
    Vulns = {v1, v2, v3}
    Detailed = {v3}
    MaxAttempts = 2
    HydrateConcurrency = 2
SPECIFICATION Spec
INVARIANTS
    NothingLost
    NoWriterLeft
PROPERTIES
    QueryReturns
