SPECIFICATION MCSpec
CONSTANTS
  Variant = {v1, v2}
  v1 = v1
  v2 = v2
  Request = {r1, r2}
  MaxUnits = 2
  Bought <- MCBought
  Price <- MCPrice
  Paid = 7
  Options <- MCOptions
  InitialStock <- MCStock
  OtherOrders = 1
  Payment = {p1, p2, p3}
  Row = {f1, f2, f3}
  p1 = p1
  p2 = p2
  p3 = p3
  Amount <- MCAmount
  Due = {p1, p2}
  Total = 3
  Subtotal = 2
  c1 = c1
  b1 = b1
  a1 = a1
  a2 = a2
  Nothing = Nothing
  Alone <- MCAlone
  Both <- MCBoth
  Desk <- MCDesk
SYMMETRY Symmetry
INVARIANTS
  ReturnsFitTheOrder
  EffectsFollowRequests
  BalanceHolds
  PagesDoWhatTheySay
PROPERTIES
  ResolutionIsFinal
CHECK_DEADLOCK FALSE
