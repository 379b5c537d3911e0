SPECIFICATION Spec
CONSTANTS
  T = T
  N = N
  E = E
  tok = tok
  col = col
  Assets = {tok, col}
  Fungible = {tok}
  Units = {T, N, E}
  AssetOf <- MCAssetOf
  TokenUnit <- MCTokenUnit
  Kind <- MCKind
  Supply0 <- MCSupply
  Waiver <- MCNone
  Burned <- MCNone
  BucketSplits <- MCSplits
  MaxSupply = 0
INVARIANTS CollectionWithinBucket
CHECK_DEADLOCK FALSE
