CONSTANTS
  Scenes = {"claim"}
  Payers = {1, 2}
  MaxTxs = 2
  Clients = {c1, c2}
  AdminStatuses = {"PENDING", "COMPLETED", "CANCELLED"}
  SweepBatch = 1
  CashOperations = {"demo", "transfer", "sweep"}
  CreditKeys = {0}
  OpeningCash <- PayerCash
  OpeningRows = {1}
  MaxFailures = 1
  WithdrawRequests <- OneWithdrawal
  Interventions = {"speedUp", "refund"}
  MaxSpeedUps = 1
  MaxChain = 2
  Scans = {s1, s2}
  Transfers <- UsdtLogs
  MaxLogs = 2
  BlockRange = 0
  FirstRange = 2
  MaxHeight = 2
  Checks = {r1, r2}
  Required = 2
  Holders = {1, 2, 3}
  Supply = 4
  Totals <- Dividends4And3
  OpeningHoldings <- OneEach
  SnapshotBatch = 2
  SnapshotRuns = {n1, n2}
  ClaimClients = {d1, d2}
  Referred = {1}
  CommissionAttempts = 2
  CommissionWorkers = {w1, w2}
  MaxMoves = 1
  MaxDivFailures = 1
  ChainIds = {1}
  Voters = {1}
  Weight <- EqualWeights
  Splits = {30}
  MaxTime = 1
  DaoAssets = {1, 2}
  DaoHolders = {1, 2, 3}
  DaoHoldings <- FirstAssetHeld
  DaoRequests = {q1}
  DaoCrons = {b1, b2}
  SnapshotPage = 2
  MaxDaoProposals = 2
  MaxDaoMoves = 1
  MaxDaoFailures = 1
SPECIFICATION CustodySpec
INVARIANTS NoDuplicateCommission
