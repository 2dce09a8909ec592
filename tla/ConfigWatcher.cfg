CONSTANTS
    MaxEdits = 4
    Invalid = {2}
SPECIFICATION Spec
INVARIANTS
PROPERTIES
    EveryEditIsRead
    SettlesUnlessOverlapping
    StopIsClean
CHECK_DEADLOCK FALSE
