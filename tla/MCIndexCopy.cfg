CONSTANTS
  v = v
  m = m
  k1 = k1
  k2 = k2
  p = p
  q = q
  Rows = {1, 2, 3}
  Shards = {k1, k2}
  RouteOf <- MCRoute
  Texts = {v, m}
  Rendering <- MCRendering
  PageRows = 2
  Passes = {p, q}
  Plans <- MCPlans
SPECIFICATION CopyFairSpec
INVARIANTS NothingLost CopyIsSound
PROPERTIES AcknowledgedIsFinal Completes
CHECK_DEADLOCK FALSE
