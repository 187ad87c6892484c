SPECIFICATION LiveSpec
CONSTANTS
  Order = {o1}
  Variant = {v1}
  Payment = {p1, p2}
  o1 = o1
  v1 = v1
  o2 = o2
  v2 = v2
  p1 = p1
  p2 = p2
  p3 = p3
  MaxQty = 1
  Lines <- MCLines
  InitialStock <- MCStock
  PaidFor <- MCPaidFor
  Amount <- MCAmount
  Total <- MCTotal
  Subtotal <- MCSubtotal
PROPERTIES
  ApprovalEndsTheWait
  EveryWaitEnds
CHECK_DEADLOCK FALSE
