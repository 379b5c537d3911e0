SPECIFICATION Spec
CONSTANTS
  R1 = R1
  R2 = R2
  w = w
  T1 = T1
  T2 = T2
  T3 = T3
  u = u
  Never = Never
  Txs = {T1, T2, T3}
  Genesis = {R1, R2, w}
  Units = {u}
  Limit <- UnitLimit
  MaxPerDay = 3
  Day = 2
  Scenarios <- Families
  Age <- Order
  MaxValidity = 2
  MaxTime = 2
  MaxOutside = 1
INVARIANTS BothRecorded LimitsHold PathsHold
CHECK_DEADLOCK FALSE
