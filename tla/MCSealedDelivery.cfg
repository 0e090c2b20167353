SPECIFICATION Spec
CONSTANTS
    pty = pty
    deploy = deploy
    stranger = stranger
    i1 = i1
    i2 = i2
    ssh = ssh
    k1 = k1
    k2 = k2
    Absent = Absent
    BadHex = BadHex
    Unreadable = Unreadable
    NoRegistry = NoRegistry
    Tokens = {t1, t2}
    Consumers <- MCConsumers
    Items <- MCItems
    Purposes <- MCPurposes
    Keys <- MCKeys
    Files <- MCFiles
    AskedTTLs <- MCAskedTTLs
    AskedBoxTTLs <- MCAskedBoxTTLs
    DefaultAuthzTTL = 1
    MaxAuthzTTL = 2
    DefaultBoxTTL = 1
    MaxBoxTTL = 1
    MaxNow = 2
SYMMETRY TokenSymmetry
VIEW NoReply
INVARIANTS
    TypeOK
    LiveTokensAuthorized
    BoxesBacked
    OneBoxPerToken
    PresentedTokensDead
    NoExpiredBacklog
PROPERTIES
    RedeemedInTime
    RegistryErrorsNotCached
    ImplementsLedger
