SPECIFICATION FairSpec
CONSTANTS
    Numeral <- MCNumeral
    LongWords <- MCLongWords
    Me <- MCMe
    Right <- MCRight
    Endpoints = 1
    Typable <- ChatTypable
    Tempers <- ChatTempers
    MaxObjects = 5
    MaxChains = 2
    MaxFaults <- ChatMaxFaults
    MaxTyped <- ChatMaxTyped
PROPERTIES
    ReloginWorks
CHECK_DEADLOCK FALSE
