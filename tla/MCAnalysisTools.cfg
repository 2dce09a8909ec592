CONSTANTS
    Lookahead = 1
    DefaultRPH = 4
    MaxPerRequest = 2
    WorkerCount = 2
    None = None
    Around = 2
    BuiltinPatterns <- MCPatterns
    Rate <- MCRate
    SanitizeName <- MCSanitizeName
    Inputs <- AllInputs
    Databases <- MCDatabases
    NoPath = NoPath
    Entries <- SomeEntries
    RuleFiles <- SomeRules
    NodeBuiltins = {"fs"}
    PythonBuiltins = {"os"}
    JavaPackages <- JavaTable
    Names <- AllNames
    MaxEntries = 3
SPECIFICATION ToolsSpec
INVARIANTS
    LoopCallsReported
    SecretsLocated
    
    NamesResolved
    RequirementsRead
    WorstEnriched
    MigratedSecretIsItsOwn
    CompleteUnlessTruncated
    GraphAgreesWithEdges
    ViolationsFollowRules
CHECK_DEADLOCK FALSE
