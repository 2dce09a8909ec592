CONSTANTS
    Clients = {c1, c2, c3}
    Threshold = 2
    Cooldown = 2
    MaxFailures = 4
SPECIFICATION BreakerSpec
INVARIANTS
    BreakerTypeOK
    ClosedIffBelowThreshold
    ProbeInFlight
PROPERTIES
    OpensExactlyOnStreak
    FailFastExactlyForCooldown
    RecoversWhenHealthy
