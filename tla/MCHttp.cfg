SPECIFICATION FairSpec
CONSTANTS
    Messages <- MCMessages
    MaxMessages = 2
    RecordSize = 12
INVARIANTS
    HttpTypeOK
    NeverBlocks
    Aligned
    EofComesLast
PROPERTIES
    EveryMessageArrives
    ImplementsStream
CHECK_DEADLOCK FALSE
