\* Two refreshers race while the store fails, readers of other formats, the command line's prompt.
SPECIFICATION ConsumerSpec
CONSTANTS
  Contents <- AllLists
  Hash <- AllListsHash
  NoContent <- EmptyList
  NoBlob = NoBlob
  NoHash = NoHash
  NoView = NoView
  NumStatesBetweenSnapshots = 2
  MaxVersion = 3
  Events <- FailuresAndEmpty
  BufferSize = 1
  Setups <- MixedSetups
  LargeState = 1
  LargeDelta = 0
  Base <- FiveRecords
  Counts <- OneOrTwo
INVARIANTS
  PlansHaveNoGap
  ReadsAreStored
  ViewsAreNearest
  SessionReadsASnapshot
CHECK_DEADLOCK FALSE
