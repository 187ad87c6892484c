SPECIFICATION MCSpec
CONSTANTS
  t1 = t1
  t2 = t2
  o1 = o1
  o2 = o2
  q1 = q1
  v1 = v1
  v2 = v2
  k1 = k1
  None = None
  MaxRank = 6
  Tx = {t1, t2}
  Orders = {o1, o2}
  Requests = {q1}
  Variants = {v1, v2}
  Carts = {k1}
  OrderOf <- MCOrderOf
  Lines <- MCLines
  Rank <- MCRank
  Variant = {"v"}
  Quantities = {0, 1, 2}
  Adjustment = {"a1", "a2"}
  Buyer = {"b1", "b2"}
  MaxStock = 3
  Request = {"r1", "r2"}
  Confirmation = {"c1", "c2"}
  Prices = {1, 2}
  MaxCarts = 2
  Goods = {"v", "w"}
  Units <- MCUnits
  Change = {"c1", "c2"}
  MaxLogins = 2
SYMMETRY Symmetry
INVARIANTS
  
  AdjustmentsAddUp
  EditableCartIsFree
  CartsAddUp
  VisitorKeepsHisCart
CHECK_DEADLOCK FALSE
