SPECIFICATION FairConnectionSpec
CONSTANT Backoff = 5
INVARIANT ConnectionTypeOK
PROPERTY BackoffHonoured
PROPERTY MemoryIsOfLastLogin
PROPERTY RefusedOnlyAfterOwnLogin
PROPERTY CallsRunDown
PROPERTY CallsEnd
PROPERTY CallsReachTheVault
