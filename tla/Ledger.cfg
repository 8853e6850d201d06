SPECIFICATION Spec
CONSTANTS
  p1 = p1
  p2 = p2
  m1 = m1
  m2 = m2
  Pipelines = {p1, p2}
  Markers = {m1, m2}
  Start = 100
  Prices <- MCPrices
  Quantities <- MCQuantities
  Fee = 1
  Days = {0, 1}
  Budgets <- MCBudgets
SYMMETRY Alike
CHECK_DEADLOCK FALSE
INVARIANTS
  TypeOK
  AuditComplete
  DailyLossUnlessStraddled
  
PROPERTIES
  AccountBookSpec
  OnlyUpsetsUnbalance
  RestartLosesNothing
