SPECIFICATION Spec
CONSTANTS
    MaxLength = 3
    MaxInsert = 2
    MaxChanges = 1
CHECK_DEADLOCK FALSE
INVARIANTS
    TypeOK
    InSync
    EditPointsFit
    PositionsMatchClient
    ReceiverPrecedesPrefix
