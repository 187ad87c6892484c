SPECIFICATION MCSpec
CONSTANTS
  k1 = k1
  k2 = k2
  k3 = k3
  p1 = p1
  p2 = p2
  c1 = c1
  a1 = a1
  r1 = r1
  r2 = r2
  None = None
PROPERTIES
  PagesComeThrough
  EveryMailEnds
CHECK_DEADLOCK FALSE
