\* Cycles are empty or rejected and stores fail; the producer stays enabled.
SPECIFICATION Spec
CONSTANTS
  Contents <- DistinctContents
  Hash <- DistinctHash
  A = A
  B = B
  NoContent = NoContent
  NoBlob = NoBlob
  NoHash = NoHash
  NumStatesBetweenSnapshots = 3
  MaxVersion = 4
  Events = {"empty", "reject", "storeFail"}
INVARIANT SnapshotSpacing
PROPERTIES
  ReturnedIsBase
  NoLostChange
  PublishedIsImmutable
  ImplementsVersionLog
  ChangeIsAnnounced
