\* Cycles are empty or rejected, stores and announcements fail, the process stops and is restored.
SPECIFICATION Spec
CONSTANTS
  Contents <- TwoContents
  Hash <- TwoHash
  A = A
  B = B
  NoContent = NoContent
  NoBlob = NoBlob
  NoHash = NoHash
  NumStatesBetweenSnapshots = 2
  MaxVersion = 2
  Events <- FaultEvents
INVARIANTS
  TypeOK
  NoGaps
  VisibleVersionsAreStored
SYMMETRY Symmetry
