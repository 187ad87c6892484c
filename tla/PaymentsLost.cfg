SPECIFICATION PFairSpec
CONSTANTS
  Order = {o1}
  Variant = {v1}
  Payment = {p1, p2}
  o1 = o1
  v1 = v1
  p1 = p1
  p2 = p2
  p3 = p3
  MaxQty = 1
  Lines <- MCLines
  InitialStock <- MCStock
  PaidFor <- MCPaidFor
  Amount <- MCAmount
  Total <- MCTotal
  Subtotal <- MCSubtotal
PROPERTIES
  LostNotificationsCovered
CHECK_DEADLOCK FALSE
