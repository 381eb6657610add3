\* The store may fail and the next cycle tries again; the other known cases are put here likewise:
\*   {"storeFail"} FirstVersionIsSnapshot, {"reject"} DeltaBaseSound,
\*   {"crash", "restore"} PublishedIsImmutable, {"restoreRace"} DeltaSpansOneVersion,
\*   {} with TextContents and TextHash, hashes as calculateDataHash computes them:
\*   the property NoLostChange.
SPECIFICATION Spec
CONSTANTS
  Contents <- DistinctContents
  Hash <- DistinctHash
  A = A
  B = B
  NoContent = NoContent
  NoBlob = NoBlob
  NoHash = NoHash
  NumStatesBetweenSnapshots = 2
  MaxVersion = 3
  Events = {"storeFail"}
INVARIANT DeltaBaseSound
CHECK_DEADLOCK FALSE
