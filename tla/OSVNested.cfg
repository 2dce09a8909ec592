CONSTANTS
    n1 = n1
    n2 = n2
    Batch = Batch
    Names <- TwoNames
    DepName <- TwoVersions
    Vulns = {v1, v2}
    Detailed = {}
    MaxAttempts = 2
    HydrateConcurrency = 2
SPECIFICATION Spec
INVARIANTS
    NothingLost
