\* The refresh loop and a caller refresh one consumer.
SPECIFICATION HollowSpec
CONSTANTS
  Contents <- TwoLists
  Hash <- TwoListsHash
  NoContent <- EmptyList
  NoBlob = NoBlob
  NoHash = NoHash
  NumStatesBetweenSnapshots = 3
  MaxVersion = 3
  Events <- DisableOnly
  BufferSize = 3
  Setups <- RaceSetups
  LargeState = 1
  LargeDelta = 1
INVARIANT ReadsArePublished
