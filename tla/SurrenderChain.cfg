SPECIFICATION Spec
CONSTANTS
  R1 = R1
  R2 = R2
  A = A
  B = B
  C = C
  None = None
  Watchdog = Watchdog
  Roots = {R1}
  RootBalance <- DeepRoot
  Builds = {A, B, C}
  Amount <- EqualAmounts
  AdminTxs = {}
  DepthCap = 2
  Calls = {c1, c2}
  MaxRestarts = 1
INVARIANTS UnsettledChainBounded
SYMMETRY FullSymmetry
CHECK_DEADLOCK FALSE
