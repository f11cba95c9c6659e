SPECIFICATION MCSpec
CONSTANTS
    Names <- MCNames
    Hashes <- MCHashes
    Texts <- MCTexts
    Time <- MCTime
    Passwords <- MCPasswords
    Crc32 <- MCCrc32
    Word <- MCWord
    Workers = {w1, w2}
    Clients = {"c1", "c2", "c3"}
    Workloads <- NameWorkloads
PROPERTY
    ChatDoesNotExist
SYMMETRY Threads
CHECK_DEADLOCK FALSE
