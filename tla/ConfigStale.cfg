CONSTANTS
    MaxEdits = 2
    Invalid = {}
SPECIFICATION Spec
PROPERTIES
    Settles
CHECK_DEADLOCK FALSE
