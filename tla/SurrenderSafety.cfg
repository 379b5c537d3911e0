SPECIFICATION Spec
CONSTANTS
  R1 = R1
  R2 = R2
  A = A
  B = B
  C = C
  None = None
  Watchdog = Watchdog
  Roots = {R1, R2}
  RootBalance <- TwoRoots
  Builds = {A, B}
  Amount <- PairAmounts
  AdminTxs = {X}
  DepthCap = 2
  Calls = {c1, c2}
  MaxRestarts = 0
INVARIANTS TypeOK TipTruth LockHasToken HolderCanFinish
PROPERTIES WatchdogNeverStomps SingleFlightPromise
SYMMETRY CallSymmetry
CHECK_DEADLOCK FALSE
