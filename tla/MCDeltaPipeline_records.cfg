\* Keyed types in every cycle, and keyed and plain types through snapshots and deltas.
\* The known settings of MCDeltaPipeline are put in the place of TameSettings, each with the property
\* that it violates: OmitSettings with MirrorMatches (StructSettings with StructTypes <- Movie).
SPECIFICATION Spec
CONSTANTS
  KeyedTypes <- Movie
  PlainTypes <- Plain
  MisnamedTypes <- Misnamed
  StructTypes <- None
  StructKey = 1
  Records <- AllRecords
  KeyHash <- IdHash
  MaxRecords = 3
  TargetMaxTypeShardSize = 1
  Settings <- TameSettings
INVARIANTS
  KeyedDeltaComplete
  DeltaMinimal
  EngineIsSound
  EveryVersionIsRead
