CONSTANTS
    ArchRequests = {a1}
    VulnRequests = {v1}
    PolicyRequests = {}
    MaxFindings = 3
    MaxArch = 2
    MaxVuln = 1
    MaxConcurrent = 1
SPECIFICATION Spec
INVARIANTS
    TypeOK
    SlotsConserved
    InflightExact
    CountersExact
    ShutdownJoins
    CleanDrainDropsNothing
PROPERTIES
    ShutdownTerminates
    EnrichmentsEnd
