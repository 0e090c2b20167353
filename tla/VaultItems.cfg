SPECIFICATION ItemsSpec
CONSTANTS
  Backoff = 1
  Block = 2
  Err = Err
  Ids <- Two
  i1 = i1
  i2 = i2
  MyKey = "mine"
  Keep = Keep
  Unknown = Unknown
  Absent = Absent
  Other = Other
  NoRaw = NoRaw
  NoLate = NoLate
  FirstItems <- Vaults
  Asks <- Requests
  Edits <- WebVaultEdits
INVARIANTS
  ItemsTypeOK
  OncePerCall
  VaultHoldsWhatWasTold
PROPERTY
  ReadsAreWhatWasTold
