SPECIFICATION Spec
CONSTANTS
    text = text
    font = font
    drm = drm
    big = big
    b1 = b1
    b2 = b2
    b3 = b3
    id1 = id1
    id2 = id2
    d1 = d1
    d2 = d2
    NoDecryptor = NoDecryptor
    NoPath = NoPath
    NoKey = NoKey
    Declined = Declined
    Paths <- MCPaths
    Books <- MCBooks
    Decryptors <- MCDecryptors
    EntryLength <- MCEntryLength
    RawLen <- MCRawLen
    Encryption <- MCEncryption
    Answers <- MCAnswers
    FileLimit <- MCFileLimit
    MaxCacheSize <- MCMaxCacheSize
    Identifier <- MCOneIdentifier
    NavPath <- MCNavPath
    MalformedNav <- MCMalformedNav
INVARIANTS
    CacheConsistent
    SizeAccounted
    KeepsMostRecent
PROPERTIES
    FetchReturns
    ReaderSpec
