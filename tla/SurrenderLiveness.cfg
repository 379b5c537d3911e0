SPECIFICATION FairSpec
CONSTANTS
  R1 = R1
  R2 = R2
  A = A
  B = B
  C = C
  None = None
  Watchdog = Watchdog
  Roots = {R1}
  RootBalance <- OneRoot
  Builds = {A, B}
  Amount <- PairAmounts
  AdminTxs = {X}
  DepthCap = 1
  Calls = {c1}
  MaxRestarts = 0
PROPERTIES ReclaimedUnlessQueued WaiterServedUnlessQueued PoisonedTipReplaced StrandedTipReplaced
CHECK_DEADLOCK FALSE
