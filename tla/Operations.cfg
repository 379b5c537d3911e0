SPECIFICATION Spec
CONSTANTS
  Admin1 = Admin1
  Admin2 = Admin2
  Open = Open
  NoFile = NoFile
  Bad = Bad
  Deadline = 2
  TotalSupply = 4
  MaxSlot = 4
  MaxGifts = 1
  BatchSize = 2
  Orders <- MCOrders
  MaxBuilds = 1
  Requests <- MCRequests
  ReclaimBatch = 2
  PoolShare = 3
  Buffer = 1
  Window = 1
  Leftovers <- MCLeftovers
  Offers <- MCOffers
  None = None
  Tokens <- MCTokens
  Cmatra = "m"
  Wallets <- MCWallets
  Asks <- MCAsks
  Paid = 2
  Fee = 1
  MinAda <- MCMinAda
  CollateralTarget = 3
  CollateralNeed = 2
  CollateralFloor = 1
  SpareFloor = 2
  MaxTokens = 2
  MaxInputs = 1
  MaxOpen = 1
  MaxPool = 4
  MaxMoves = 1
  PoolAddress = "pool"
  QuarantineAddress = "quarantine"
  KeyLocked = {"alice", "bob"}
  Assets <- MCTokens
  Matra = "m"
  Made <- MCMade
  Entitled <- MCEntitled
  Unpriced = Unpriced
  MaxFee = 2
  MaxCollateral = 1
  MaxOutflow = 1
  MaxValidity = 3
  MaxPayout = 2
INVARIANTS TypeOK MintSound ManifestTells ReportedIsPaid ReportedReclaimed OffersOpenPool OffersTrade ChangeFollowsPool CollateralOnce RefusedRightly LeanOutputs
PROPERTIES DeadlineSplits SweepEmpties
CHECK_DEADLOCK FALSE
