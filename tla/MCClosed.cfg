SPECIFICATION MCSpec
CONSTANTS
    Names <- MCNames
    Hashes <- MCHashes
    Texts <- MCTexts
    Time <- MCTime
    Passwords <- MCPasswords
    Crc32 <- MCCrc32
    Word <- MCWord
    NoParams <- MCNoParams
    Workers = {w1}
    Clients = {"c1", "c2"}
    Requests <- MixedRequests
    PingPeriod = 0
    MaxRequests = 2
    MaxQueue = 2
    MaxWrites = 1
INVARIANT
    DontCloseConnect
CHECK_DEADLOCK FALSE
