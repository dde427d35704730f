SPECIFICATION Spec
CONSTANTS
  cash = cash
  asset = asset
  none = none
  r1 = r1
  r2 = r2
  r3 = r3
  c1 = c1
  c2 = c2
  c3 = c3
  None = none
  Calls = {c1, c2, c3}
  Rows <- MCRows
  Accounts <- MCAccounts
  CashAccounts <- MCCash
  Requests <- SnapshotRequests
  OpeningAccount <- OpenCash
  OpeningAvailable <- Available2
  OpeningLocked <- Locked1
  MaxRetries = 1
INVARIANT TypeOK
INVARIANT NonNegative
INVARIANT OneRowPerAsset
PROPERTY AnsweredAtOneInstant
