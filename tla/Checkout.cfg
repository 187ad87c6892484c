SPECIFICATION MCSpec
CONSTANTS
  r1 = r1
  r2 = r2
  cc = cc
  Call = {cc, r1, r2}
  Checkout = cc
  Faults = {"refused", "lost", "unclosed", "crash"}
  p1 = p1
  p2 = p2
  m1 = m1
  m2 = m2
  d1 = d1
  d2 = d2
  n1 = n1
  n2 = n2
  x = x
  y = y
  Nothing = Nothing
  Products = {p1, p2}
  Ways = {m1, m2}
  Addrs = {d1}
  Amounts = {1, 2}
  Texts = {"old"}
  Together = {{"catalogue", "methods"}, {"catalogue", "lost"}, {"cart"}, {"book", "gateway"}}
  MaxChanges = 2
  s1 = s1
  s2 = s2
  Methods = {s1, s2}
  Admins = {x, y}
  Names = {n1, n2}
  Costs = {0}
  Apart = {"create", "update"}
SYMMETRY Symmetry
INVARIANTS
  LinksAreKnown
  CancelledTakesNoPayment
  OrderIsAsSeen
  MethodsAreAsSwitched
CHECK_DEADLOCK FALSE
