CONSTANTS
    NoPath = NoPath
    Entries <- SomeEntries
    RuleFiles <- SomeRules
    NodeBuiltins = {"fs"}
    PythonBuiltins = {"os"}
    JavaPackages <- JavaTable
    Names <- AllNames
    MaxEntries = 1
SPECIFICATION ArchSpec
CHECK_DEADLOCK FALSE
INVARIANT AllowOverridesDeny
