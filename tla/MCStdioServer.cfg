CONSTANTS
    None = None
    Tools <- MCTools
    Lines <- MCLines
    Trees <- MCTrees
    Around = 2
    BuiltinPatterns <- MCPatterns
    Threshold = "medium"
    Rows <- MCRows
    MaxConcurrent = 1
    MaxLines = 2
SPECIFICATION Spec
INVARIANTS
    RepliesInOrder
    VerificationCounted
PROPERTIES
    EndsAfterInput
CHECK_DEADLOCK FALSE
