SPECIFICATION MCSpec
CONSTANTS
    Names <- MCNames
    Hashes <- MCHashes
    Texts <- MCTexts
    MaxChats = 4
    MaxMessages = 2
    Time <- MCTime
INVARIANTS
    StorageTypeOK
    KeysUnique
    UniqueUserNames
    ForeignKeys
    OwnMailbox
    NoDoubleMembership
    NameSharedByGroupAndUserOnly
PROPERTY
    AppendOnly
