SPECIFICATION ConnectedFairSpec
CONSTANTS
    Names <- MCNames
    Hashes <- MCHashes
    Texts <- MCTexts
    Time <- MCShortTime
    Passwords <- MCPasswords
    Crc32 <- MCCrc32
    Word <- MCWord
    NoParams <- MCNoParams
    Workers = {w1}
    Clients = {"c1", "c2"}
    Requests <- IdleRequests
    PingPeriod = 0
    MaxRequests = 1
    MaxQueue = 1
    MaxWrites = 2
PROPERTIES
    PeerGoneIsNoticed
    CatchesUp
CHECK_DEADLOCK FALSE
