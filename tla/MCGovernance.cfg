CONSTANTS
  Scenes = {"kyc", "mint", "onboarding", "redeem", "liquidate", "codes", "mail", "wallet", "contract", "vote", "market", "cache"}
  Admins = {a1, a2, a3}
  Desks = {w1, w2}
  RequiredApprovals = 3
  MaxProposals = 1
  MaxSigFailures = 1
  Applicants = {1, 2}
  MaxSubmits = 2
  TokenHolders = {1, 2}
  TotalSupply = 2
  OpeningAssets <- OpenAsset
  OpeningTokens <- AllTokensOfOne
  MaxAssets = 2
  MaxRequests = 1
  MaxTokenTxs = 4
  MaxRedemptions = 1
  MaxTokenMoves = 1
  MaxLiquidations = 2
  OnboardingDecisions = {"APPROVED", "REJECTED", "PENDING"}
  RedemptionDecisions = {"PROCESSING_LEGAL", "COMPLETED", "REJECTED"}
  AssetAttempts = 2
  Members = {1, 2}
  WalletMembers = {2}
  Gadgets = {w1, w2}
  NoDevice = NoDevice
  NoToken = NoToken
  NoCode = NoCode
  AuthRequests = {w1, w2}
  MaxSeconds = 1
  MaxCodes = 2
  MaxNonces = 1
  MaxChallenges = 1
  MaxAuthFailures = 1
  ChainIds = {1, 2}
  Voters = {1, 2}
  Weight <- EqualWeights
  Splits = {30}
  MaxTime = 2
  DaoAssets = {1}
  DaoHolders = {1, 2}
  DaoHoldings <- UnevenHoldings
  DaoRequests = {w1, w2}
  DaoCrons = {w1, w2}
  SnapshotPage = 2
  MaxDaoProposals = 1
  MaxDaoMoves = 1
  MaxDaoFailures = 1
  Publishers = {w1, w2}
  Syncers = {w1, w2}
  Prices = {1, 2}
  Quantities = {1}
  Resolutions <- OneThenTwo
  DayMinutes = 2
  LastMinute = 2
  MaxTrades = 2
  MaxMarketFailures = 1
SPECIFICATION GovernanceSpec
SYMMETRY Symmetric
INVARIANTS NothingWithoutThree BurntPerAttempt OpenHasMinedContract
  PassedByMajority CandlesHoldTrades SessionsHold RegisteredOnce
PROPERTY ExecutionIsFinal
