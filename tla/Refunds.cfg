SPECIFICATION FairSpec
CONSTANTS
  Refund = {r1}
  Worker = {w1, w2, w3}
  r1 = r1
  w1 = w1
  w2 = w2
  w3 = w3
  MaxAttempt = 3
INVARIANTS
  GatewayRefundsOnce
  StatusIsTruthful
PROPERTIES
  RefundedIsFinal
  ApprovedRefundsEnd
CHECK_DEADLOCK FALSE
