\* Schemas, the Cap'n Proto store, indexes, collections, movie lists and the example programs, one at a time.
SPECIFICATION LibrarySpec
CONSTANTS
  PrimitiveOf <- TextsTakenFor
  ListOf <- OneList
  Primitives <- IntegerTexts
  Bytes <- ShortNames
  HashModulus = 1024
  Languages = {"yaml", "c", "capnp"}
  Lines <- LinesOf
  MaxLines <- UpTo
  Documents <- DocumentsOfAllKinds
  Float64bits <- BitsOf
  MaxCycles = 3
  RecordSize = 2
  BufferSizes <- Lengths
  Catalogue <- CollidingNames
  MaxViews = 2
  MapKeys = {"k", "l"}
  MapValues = {"v", "w"}
  NoValue = "none"
  MaxEntries = 3
  Movies <- ThreeMovies
  MaxMovies = 4
  BatchSizes <- OneToThree
  Parts = {"schemas", "capnp", "indexes", "collections", "movies", "pool", "readers"}
  Writers <- TwoWriters
  NoWriter = 0
  SnapshotFrequency = 2
  MaxVersion = 3
  MaxFailures = 2
  Feed <- FourRecords
  BatchSize = 2
  MaxPending = 1
  ErrorRetryAttempts = 1
  MaxErrors = 0
  PendingAlarm = 2
  Programs = {"production", "simple"}
  Settings <- AllPrograms
  WriterRounds = 2
  ReaderRounds = 2
  InitialBackoff = 4
  MaxBackoff = 10
  ErrorBound = 3
CHECK_DEADLOCK FALSE
INVARIANTS
  SortIsCorrect
  DocumentsAreRead
  QueriesAgree
  RecordsAreAccountedFor
  FullBatchIsFlushed
  EveryPollIsServed
