\* Two callers, one of whom also calls RefreshWithDelta, failures and a new producer.
SPECIFICATION LegacySpec
CONSTANTS
  k1 = k1
  k2 = k2
  a = a
  b = b
  r1 = r1
  r2 = r2
  Contents <- TwoContents
  Refreshers <- TwoCallers
  DeltaRefreshers <- OneCaller
  IsDeltaProducer = TRUE
  MaxVersion = 2
  MaxFailures = 1
  MaxRestarts = 1
INVARIANTS
  LatestIsRetrievable
  ReadIsConsistent
  DeltasLinkVersions
  DiffRoundTrips
PROPERTY CommittedNeverChanges
