SPECIFICATION Spec
CONSTANTS
  R1 = R1
  R2 = R2
  T1 = T1
  T2 = T2
  T3 = T3
  T4 = T4
  u = u
  Never = Never
  Txs = {T1, T2, T3, T4}
  Genesis = {R1, R2}
  Units = {u}
  Limit <- UnitLimit
  MaxPerDay = 3
  Day = 2
  Scenarios <- Forests
  Age <- Order
  MaxTime = 2
INVARIANTS LimitsHold UnitCountExact
CHECK_DEADLOCK FALSE
