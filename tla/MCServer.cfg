SPECIFICATION MCServerSpec
CONSTANTS
    Names <- MCNames
    Hashes <- MCHashes
    Texts <- MCTexts
    Time <- MCTime
    Passwords <- MCPasswords
    Crc32 <- MCCrc32
    Word <- MCWord
    Workers = {w1}
    Clients = {"c1", "c2"}
    Workloads <- ServerWorkloads
    IoPoolSize = 2
INVARIANTS
    ServerTypeOK
PROPERTIES
    EveryConnectionIsServed
    JoinReturns
    StopEndsServer
CHECK_DEADLOCK FALSE
