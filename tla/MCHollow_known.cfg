\* An older version is pinned; the other known setups are put here likewise.
SPECIFICATION HollowSpec
CONSTANTS
  Contents <- TwoLists
  Hash <- TwoListsHash
  NoContent <- EmptyList
  NoBlob = NoBlob
  NoHash = NoHash
  NumStatesBetweenSnapshots = 3
  MaxVersion = 3
  Events <- DisableOnly
  BufferSize = 2
  Setups <- PinSetups
  LargeState = 1
  LargeDelta = 1
PROPERTY PinIsHonoured
