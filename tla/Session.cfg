SPECIFICATION Spec
CONSTANTS
    IdleTTL = 2
    AbsoluteTTL = 4
    MaxNow = 9
    MaxSlept = 1
INVARIANTS
    TypeOK
    ActiveMeansApproved
PROPERTIES
    SilentGrantsAreRecent
    DenialsAreHonest
