\* Known divergences: each of these properties is violated; keep one to see it.
SPECIFICATION LegacySpec
CONSTANTS
  k1 = k1
  k2 = k2
  a = a
  b = b
  r1 = r1
  r2 = r2
  Contents <- TwoContents
  Refreshers <- TwoCallers
  DeltaRefreshers <- OneCaller
  IsDeltaProducer = TRUE
  MaxVersion = 2
  MaxFailures = 0
  MaxRestarts = 0
INVARIANTS
  OverlappingReadIsConsistent
  DeltasDescribeChanges
  DeltaAppliesToBase
PROPERTY NeverGoesBack
