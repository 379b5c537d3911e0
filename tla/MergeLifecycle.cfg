SPECIFICATION MergeSpec
CONSTANTS
  T = T
  N = N
  M = M
  tok = tok
  col = col
  alice = alice
  bob = bob
  fund = fund
  dex = dex
  Assets = {tok, col}
  Fungible = {tok}
  Units = {T, N, M}
  AssetOf <- MCAssetOf
  TokenUnit <- MCTokenUnit
  Kind <- MCKind
  Supply0 <- MCSupply
  Waiver <- MCWaiver
  Burned <- MCBurned
  BucketSplits <- MCSplits
  MaxSupply = 1
  Order <- MCOrder
  Pool <- MCPool
  Fine = 50
  Markets <- MCMarkets
  MinTvl = 2
  TopPools = 3
  Mode = "median"
  Holders <- MCHolders
  Holdings <- MCHoldings
  Nfts <- MCNfts
  Resolvable <- MCResolvable
  Listed <- MCListed
  MaxMoves = 1
  PageSize = 2
  MaxRetries = 1
  ReserveAddrs = {fund}
  ScriptAddrs = {dex}
  Keys = {"k", "t"}
  KeyOf <- MCKeyOf
INVARIANTS TypeOK PaidAtRate UnitLifetime FungibleWithinBucket PriceHolds FairBuckets SnapshotFaithful AllotmentBound CarveFits
PROPERTIES RecordedPinPromise PipelineRedeems
SYMMETRY MCSymmetry
CHECK_DEADLOCK FALSE
