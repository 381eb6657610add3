\* The refresh loop alone, racing the producer, and a caller alone, racing producer and pins.
SPECIFICATION HollowSpec
CONSTANTS
  Contents <- Lists
  Hash <- ListsHash
  NoContent <- EmptyList
  NoBlob = NoBlob
  NoHash = NoHash
  NumStatesBetweenSnapshots = 3
  MaxVersion = 4
  Events <- DisableOnly
  BufferSize = 4
  Setups <- LoneSetups
  LargeState = 1
  LargeDelta = 1
PROPERTIES
  AnnouncedIsRead
  RefreshReachesTarget
  ImplementsReplicatedLog
