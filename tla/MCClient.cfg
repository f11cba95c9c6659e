SPECIFICATION FairSpec
CONSTANTS
    Numeral <- MCNumeral
    LongWords <- MCLongWords
    Me <- MCMe
    Right <- MCRight
    Endpoints = 2
    Typable <- MCTypable
    Tempers <- MCTempers
    MaxObjects = 4
    MaxChains = 2
    MaxFaults <- MCMaxFaults
    MaxTyped <- MCMaxTyped
INVARIANTS
    ClientTypeOK
    AnswerMatchesCommand
    UnderstoodAsTyped
    AckIsNoMessage
    OneChainForListener
    NothingDangles
PROPERTIES
    ListenerComesBack
CHECK_DEADLOCK FALSE
