SPECIFICATION Spec
CONSTANTS
  Order = {o1, o2, o3}
  Variant = {v1, v2}
  o1 = o1
  o2 = o2
  o3 = o3
  v1 = v1
  v2 = v2
  MaxQty = 2
  Lines <- MCLines
  InitialStock <- MCStock
INVARIANTS
  TypeOK
  StockBalances
  HistoryFollowsStatus
PROPERTIES
  DeliberateCancellationIsFinal
  ImplementsInventory
CHECK_DEADLOCK FALSE
