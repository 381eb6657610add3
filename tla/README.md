# Verification of go-hollow

go-hollow keeps a read-mostly dataset in the memory of many processes. One
*producer* builds a complete write state per cycle and publishes it as a new
version: now and then as a snapshot, otherwise as a delta to the version before.
*Consumers* hear of versions through an announcer, fetch blobs from a blob
store, and move their read state along the chain of snapshots and deltas.

This directory holds TLA+ models of that machinery, translated from the code,
TLC configurations that check them on small instances, and TLAPS proofs.
`PROJECT.json` maps every definition to the lines it models.

    tlasany Producer.tla                                   # parse
    tlc -config MCProducer_failures.cfg MCProducer         # model-check
    tlapm Producer_proofs.tla                              # prove

## 1. Inventory

| component | state | operations | interacts with |
|---|---|---|---|
| Producer (`producer/producer.go`) | `currentVersion`, `lastSnapshotVersion`, `lastDataHash`, its write engine | `RunCycle`, `storeBlob`, `Restore`, `NewProducer` | engine, validators, blob store, announcer, enforcer (calls) |
| Write state engine (`internal/state.go`) | `currentState`, `previousState`, `identityMap`, `currentDelta`, `shardCounts` | `PrepareForCycle`, `Add`, `CalculateDeletes`, `RecomputeShardAssignments` | called by the producer and, during a cycle, by the populate callback |
| Delta set (`internal/delta.go`) | change records per type | `AddRecord`, `OptimizeDeltas` | engine writes, serializer reads |
| Enforcer (`internal/state.go`) | `enabled` | `Enable`, `Disable` | read by `RunCycle`, written by anybody |
| Blob store (`blob/blob.go`) | snapshots by version, deltas by `FromVersion` | `Store`, `Retrieve...`, `ListVersions`, `RemoveSnapshot` | producer writes, consumers read concurrently |
| Feed (`blob/announcement.go`) | latest and pinned version, bounded channels | `Announce`, `Latest`, `Pin`, `Unpin`, `Subscribe` | producer announces, consumers receive |
| Goroutine announcer (`blob/goroutine_announcer.go`) | the same, a queue and a worker | the same, `WaitForVersion`, `Close` | the same |
| S3 store (`blob/s3_store.go`) | a cache per process before a bucket | as blob store; a put that fails is only logged | as blob store, of several processes |
| Consumer (`consumer/consumer.go`) | its read engine | `autoRefreshLoop`, `TriggerRefresh`, `TriggerRefreshTo`, `planBlobs`, `loadSnapshot`, `applyDelta` | feed, store, read engine; loop and callers share the read engine without a lock |
| Read state engine (`internal/state.go`) | current read state, invalidation flag | `SetCurrentState`, `GetCurrentVersion` | consumer, collections, indexes |
| Zero-copy consumer (`consumer/zero_copy_consumer.go`) | a consumer, and views by version beside its state | `TriggerRefreshToWithZeroCopy`, `GetZeroCopyView`, queries | consumer, store, indexes |
| Serializers (`internal/serialization.go`) | none | (de)serialise states and deltas in three modes | producer, consumer, views |
| Command line (`cmd/hollow-cli`) | a session: producer, store, zero-copy consumer, current version | one-shot commands and the commands of a prompt | all of the above |
| Indexes (`index`) | hash, unique and primary key indexes of one view | `BuildAllIndexes`, lookups, iteration | views |
| Collections (`collections`) | entries and an ordinal | `Get`, `Equals`, iteration | none |
| Schemas (`schema`) | schemas of a document | three parsers, `Equals`, `HashCode`, `TopologicalSort` | command line |
| Zero-copy lists (`zero_copy`) | a list of movies, an iterator | searches, batches, sums | none |
| Tools (`tools`) | none | stubs | none |
| Producer pools (`examples/go/production_producer`, `_simple`) | queues, loops, statistics | `AddRecords`, `flushRecordsBatch`, health check, shutdown | several producers on one store |
| Polling readers (`examples/go/multi_writer_zerocopy`, `production_consumer`, `advanced_zerocopy_stress`) | last version, counters, backoff | polls with fallbacks | several producers on one store |
| Legacy producer (`legacy/producer.go`, `delta.go`) | `version`, `deltaStorage` | `RunCycle`, `RunDeltaCycle` | stages and commits into a store (`memblob`) |
| Legacy consumer (`legacy/consumer.go`, `delta.go`) | `state` and `version`, two atomics | `Refresh`, `RefreshWithDelta`, `ApplyDelta` | asks an announcement watcher, retrieves from the store; no lock |
| Legacy Cap'n Proto store (`legacy/capnp_store.go`) | messages by version, the document staged last | `Stage`, `Commit`, `Retrieve`, `WriteDelta` | legacy producer and consumer |
| Legacy diff (`legacy/diff.go`) | none | `DiffData`, `Apply`, `ValidateDelta` | delta producer and consumer |
| Legacy file watcher (`legacy/filewatcher.go`) | watched directories, `isRunning`, `stopChan` | `WatchDirectory`, `UnwatchDirectory`, `Start`, `Stop`, scans | refreshes a legacy consumer |

What is hard here:

* *Failure inside a cycle.* `RunCycle` changes the engine, the snapshot counter
  and the store before it commits the version; every early return leaves some of
  that behind.
* *Restart.* Only blobs survive; `Restore` brings back the version number alone.
* *Interleaving.* `Restore` and the enforcer do not take the producer's lock;
  the consumer takes no lock at all although its own loop and its callers
  refresh it; both read the store while the producer writes it.
* *Lossy, early and late announcements.* Channels are bounded and notifications
  to a full one are dropped; subscriptions start in a goroutine.
* *Several processes.* Behind the S3 store every process has a cache the others
  do not see; what comes back from the bucket has lost its version numbers; a
  put, a get or a removal may fail or overlap another one.
* *Several producers.* The examples put producers that number their versions
  independently over one store, retry batches and poll for the highest number.
* *Two writes.* The legacy consumer writes its data and its version one after
  the other; its file watcher notes a change before the consumer is refreshed.
* *Ordinals.* The producer numbers records by primary key for ever, the consumer
  uses the numbers as positions in a list.

What makes each component correct: the producer's store is a gapless chain in
which each delta starts from the state its `FromVersion` stands for, nothing is
visible before it is stored and nothing changes afterwards; the engine's delta
turns the previous state into the current one, names every key by one ordinal
and lists nothing that did not change; the feed loses no version somebody waits
for; a consumer shows exactly a published version and only moves forward. Of the
earlier API: the latest version can be retrieved, one producer overwrites
nothing, data and version number fit together, a diff turns one data set into
the other, and a changed file takes the consumer to the latest version. A view
is made of the blob nearest to its version; a command evolves the data of one
version; a lookup finds the record asked for and all of it; a schema document
means what its parts mean, in an order that has no forward reference; and a
record given to a pool is published once or reported as lost.

## 2. Modules

| module | models | its state and actions in the code |
|---|---|---|
| `VersionLog` | abstract specification of a producer | a log that only grows, neighbours differ, and the version announced last |
| `ReplicatedLog` | abstract specification of a producer with a consumer | `VersionLog` and a reader that jumps forward along it |
| `Producer` | `RunCycle`, `storeBlob`, `Restore`, restart, enforcer, in-memory store | `pc` is the place in `RunCycle`; one action per step other goroutines can see or a crash can separate (`Populate`, `IdenticalCycle`, `AllocateVersion`, `ValidationFails`, `StoreSnapshot`, `StoreDelta`, `StoreFails`, `Commit`, `Announce`, `AnnounceFails`) |
| `Producer_proofs` | theorems about `Producer`, whatever happens around it, and if its cycles do not fail | |
| `DeltaSet` | change records, `optimizeTypeDelta`, positional deltas, `applyDelta` | operators only |
| `DeltaSet_proofs` | what the change records of one type do to a list, proved | |
| `WriteStateEngine` | the engine's records, ordinals, shards and deltas | `PrepareForCycle`, `Add`, `CalculateDeletes`, `PerformResharding` |
| `DeltaPipeline` | cycles of the engine and a *mirror*: the lists of a consumer that loads every snapshot and applies every delta with the CapnProto serializer and the type filter it was made with | `Populate` is one `WriteState.Add` of the callback, `FinishPopulating` the rest of a cycle up to its blob |
| `DeltaPipeline_proofs` | theorems about the engine, its deltas and the consumer that reads them | |
| `Serialization` | what a serializer makes of a state or a delta and what another recovers of it | operators; of the bytes only the format is kept |
| `Hollow` | `Producer` composed with the in-memory feed and one consumer | `refresher[p]` holds the local variables of a refresh by the loop ("auto") or a caller ("manual"); planning, loading and applying are steps |
| `Hollow_proofs` | theorems about `Hollow`, `ZeroCopyConsumer` and `Session` | |
| `ZeroCopyConsumer` | `Hollow` and the views of a zero-copy consumer | `call` is where `TriggerRefreshToWithZeroCopy` stands: `RegularRefresh`, then one action per retrieval |
| `Session` | `ZeroCopyConsumer` and the command line around it | `session` holds the prompt's version and the data a command has read so far; commands that only print are operators |
| `S3BlobStore` | the S3 store: a cache per process, one bucket | `thread[t]` is where a thread stands in `Store`, a retrieval or `RemoveSnapshot`; cache and bucket are separate steps |
| `S3Hollow` | `S3BlobStore` composed with a producer, consumers and a janitor in several processes | the calls of `RunCycle`, of a refresh and of `RemoveSnapshot`, with crashes and outages |
| `S3Hollow_proofs` | what `RemoveSnapshot` promises and what consumers read, proved | |
| `GoroutineAnnouncer` | the announcer with a queue and a worker goroutine | every critical section and every case of a select is an action; `client[c].pc` is where a subscriber's loop or a call of `WaitForVersion` stands; `sent` and `refused` remember what was sent last and refused last, for the properties |
| `GoroutineAnnouncer_proofs` | theorems about `GoroutineAnnouncer` | |
| `DataDiff` | `legacy/diff.go`, `ValidateDelta` | operators on functions from keys to values |
| `LegacyHollow` | the legacy producer, delta producer, store and consumer | a cycle is `RunCycle`, `Stage`, `Commit`, within a delta cycle between `RunDeltaCycle` and `StoreDelta`; `refresh[r]` holds the local variables of a call of `Refresh`, whose steps are `Ask`, `Retrieve`, `SetState`, `SetVersion` and, in `RefreshWithDelta`, `SetGoal` |
| `LegacyHollow_proofs` | theorems about `LegacyHollow` and `DataDiff` | |
| `FileWatcher` | the file watcher around that consumer | `loop` is where `Start` stands, `adding` what a `WatchDirectory` that holds the lock has seen, `held` the directory a scan holds a pointer to |
| `CapnpStore` | the legacy Cap'n Proto store between a producer and a consumer | `Stage`, `Commit`, `WriteDelta`, `AskLatest`, `Retrieve`; conversions are recursive operators over JSON values |
| `Schemas`, `SchemaCompiler` | the parsers, equality and hash of schemas; a document that is read, parsed and sorted | a parser is a recursive function of the lines read so far; `TopologicalSort` is an action per type it takes from its queue |
| `Indexes` | the zero-copy indexes, the classic ones and the query engine | the manager indexes one type per action while new views arrive |
| `Collections`, `MovieViews` | sets, maps, lists; movie lists and their iterator | entries are added one by one; an iterator gives a batch per action |
| `SharedStore` | several producers over one store and announcer | the steps of a cycle that matter to the others |
| `ProducerPool` | the production producers of the examples | `pool[w]` is a producer's queue and loop, `flushes` the batches being published, `published`, `dropped` and `refused` where records went |
| `PollingReaders` | the reading examples over `SharedStore` | `poller[r]` is a reader's loop: what it polled and which fallback it tries |
| `Library_proofs` | theorems about `ProducerPool`, `PollingReaders`, `Schemas` and `SchemaCompiler`, and `Collections` | |
| `MCProducer`, `MCDeltaPipeline`, `MCHollow`, `MCGoroutineAnnouncer`, `MCLegacyHollow`, `MCFileWatcher`, `MCZeroCopyConsumer`, `MCS3Hollow`, `MCLibrary` | instances for TLC; `MCLibrary` holds the parts that share no state, one behaviour being about one of them | |

`Hollow` EXTENDS `Producer` (a write state there is one list of records) and
`Serialization`, which EXTENDS `DeltaSet`; `Session` EXTENDS `ZeroCopyConsumer`,
which EXTENDS `Hollow`; `S3Hollow` EXTENDS `S3BlobStore` and `DeltaSet`;
`ProducerPool` and `PollingReaders` EXTEND `SharedStore`; `DeltaPipeline` EXTENDS
`WriteStateEngine`, which EXTENDS `DeltaSet`; `FileWatcher` EXTENDS
`LegacyHollow`, which EXTENDS `DataDiff`.
`Producer` implements `VersionLog`, `Hollow` implements
`ReplicatedLog`; both refinements are PROPERTYs of runs (`ImplementsVersionLog`,
`ImplementsReplicatedLog`), under the refinement mapping "log entry v is what a
reader who follows the stored chain to v gets" (`ContentOf`).

Constants select the environment. `Events` (Producer) lists what may go wrong
around a producer, `Settings` (DeltaPipeline) what a populate callback may do to
the previous records, how often snapshots are made and what the consumer
filters, `Setups` (Hollow) the serializers, who refreshes and what disturbs them,
`Situations` (S3Hollow) who refreshes and what fails, `Events`
(GoroutineAnnouncer) what its callers do and which timers expire; `MaxFailures`,
`MaxRestarts`, `CanStop` and `WatchWhileRunning` do the same for the earlier API.
Every run says under which of them its properties hold.

A definition whose comment starts with "Slip:" is no part of any specification;
it is a plausible bug put in the place of the definition after it, to show that
the property named there notices.

### Abstractions

* Data is a model value (`Producer`), one list of records (`Hollow`, `S3Hollow`)
  or lists of records with a key and a value (`DeltaPipeline`). Values are compared as the
  code does, by their text; two records with the same text are one record here.
* The data hash is an injective function, except in
  `MCProducer_known.cfg` with `TextHash`, the concatenation the code hashes.
* `Populate` is atomic in `Producer`: the callback only touches the engine,
  which nobody else uses while `p.mu` is held.
* The loop's test `version > currentVersion` and the equality test of
  `TriggerRefreshTo` are one step in `Hollow`; a read state that overtakes the
  target in between yields an empty plan, which has the same effect.
* Validators and the announcer are nondeterministic: they succeed or fail.
* One producer calls `Announce`, with increasing versions, and only versions
  that were announced are pinned, as in `integration_test.go`. Subscriptions are
  buffered. `cleanupDeadSubscribers` drops nil channels, of which there are none.
* Primary keys are hashed by an arbitrary function `KeyHash`.
* The legacy consumer's announcement watcher is the store's `Latest`, as in its
  tests and README. The lists of a diff, in map order in the code, are sets.
* The file watcher has one directory, and its files are those that pass its
  patterns and size limit. A scan is one step; the poll interval and the
  debounce delay are any length of time.
* A line of a schema document is what the parsers tell apart: how it begins, its
  name and its texts. Names that a parser takes for a type because of how they
  begin are in the tables `PrimitiveOf` and `ListOf`.
* What an index extracts is made up from positions, as in the code, so of a
  buffer only the length counts. `S3Hollow` takes cycles that go well and deltas
  that are not empty; `Producer` has the others.
* In the examples records are distinct, and intervals are any length of time.

## 3. Runs

Bounds are constants: `MaxVersion` bounds the version numbers, `MaxRecords` the
records of a type in a cycle, `BufferSize` the subscription (10 in the code).

| run | checks | bounds, and why they are enough |
|---|---|---|
| `producer_faults` | `TypeOK`, `NoGaps`, `VisibleVersionsAreStored` with rejected cycles, failing stores and announcements, crashes and Restore between cycles | 2 versions, snapshots every 2: a delta, a reuse of a version after Restore and a store that fails before and after a version was stored all occur |
| `producer_failures` | `SnapshotSpacing`, `ReturnedIsBase`, `NoLostChange`, `PublishedIsImmutable`, `ImplementsVersionLog` and the liveness `ChangeIsAnnounced` with cycles that are empty or rejected and failing stores, for a producer that stays enabled and is not restarted | 4 versions, three contents, snapshots every 3: failures before, between and after two deltas in a row and a second snapshot, which a failed one puts off |
| `pipeline` | `KeyedDeltaComplete`, `DeltaMinimal`, `EngineIsSound` (type, ordinals, shards, lookups) for all shapes but a repeated key; `EveryVersionIsRead` for a keyed and a plain type without disturbing shapes, for consumers that filter nothing, one type, or all but one | three keys, two values, up to three records and shards, two keys in one shard; for the consumers snapshots every three versions, so two deltas in a row |
| `hollow` | the liveness `AnnouncedIsRead`, `RefreshReachesTarget` and `ImplementsReplicatedLog` for the refresh loop alone and for a caller alone that pins and asks for any version | 4 versions, snapshots every three: a plan of two deltas after a snapshot; a channel that holds all versions; TLC also evaluates `ListsCanBeUpdated`, the hypothesis of two theorems |
| `zero_copy` | `PlansHaveNoGap`, `ReadsAreStored`, `ViewsAreNearest` with two refreshers racing, failing stores, empty cycles and serializers that differ; `SessionReadsASnapshot` for the command line's prompt with its refresh loop | 3 versions, snapshots every two, a channel of 1; a hybrid writes both forms; in the race the first cycle is always the same, and who makes views refreshes by that call only, until there is a view; a session makes two further versions of one or two records |
| `announcer_safety` | `ClientsAreServed` (type, nobody behind, waits are sound), `SendsAreOrderly` (only pins go back, only full channels are removed) with pins, time-outs, a close and late announcements | two subscribers, one whose channel fills up at once and one that has room for two, a waiter, a queue of one and two versions: versions overtake each other in the queue, `Announce` blocks and gives up |
| `announcer_live` | `EarlyWaiterIsAnswered`, `CloseEndsEverybody` | a subscriber, a waiter, 3 versions, channels of 4 that never fill up, an orderly close |
| `stores` | `ReadsArePublished`, `RefreshEndsAtTarget`, `RemovedStaysRemoved` over S3 stores, with processes that crash, or a bucket that fails and a janitor that removes snapshots (in the producer's process one of the two at a time, in the other both together) | two processes, one consumer in each, one of whom refreshes; 4 versions, snapshots every three: deltas read back from the bucket, versions published again after a crash, a removal that overlaps a retrieval; TLC also evaluates `ListsCanBeUpdated`, the hypothesis `DeltasApply` of two theorems |
| `library` | `SortIsCorrect`, `DocumentsAreRead`, `QueriesAgree`, `RecordsAreAccountedFor`, `FullBatchIsFlushed`, `EveryPollIsServed` | documents of 5 or 6 lines with two types that refer to each other or themselves; 3 cycles of documents of every kind of value; two views, two types whose indexes have one name; 3 entries; 4 movies in batches of 1 to 3; two producers, four records, batches of two, two failures and one retry, so that a batch is given up, and a queue that refuses records once it holds a full batch (ten in the code), so that records are refused; two writers and readers of two rounds |
| `legacy_cycles` | `LatestIsRetrievable`, `ReadIsConsistent`, `DeltasLinkVersions`, `DiffRoundTrips`, `CommittedNeverChanges` with cycles and refreshes that fail and a new producer over an old store | two callers, one of whom also calls `RefreshWithDelta`; 2 versions of two data sets that differ in a key of one and the value of another, one failure, one new producer: a version after a failed cycle, a delta over it, an overwritten version and refreshes that overlap occur |
| `legacy_reload` | the liveness `ChangeReachesConsumer` and `CancelEndsStart` | one directory with a file of two modification times and none, one version, one failure: files come, change, go and come back, the directory is added again during a scan, `Stop` and the context end `Start` anywhere |
| `hollow_race` | a violated property, see section 6 | |

Of these, `VisibleVersionsAreStored`, `PlansHaveNoGap`, `ReadsAreStored` and
`RecordsAreAccountedFor` relate what one actor has seen to what another has
stored; the four of `zero_copy` and the three of `stores` are about interleavings
of steps that the tests run one after the other.

`CHECK_DEADLOCK FALSE` is set where the model may really stop: the consumer's
process has crashed, or the version bound is reached and no event is left; and in
`library`, whose parts all come to an end.

### Fairness

`HollowSpec` and `Spec` of `Producer` are weakly fair in the steps of a started
cycle (`CycleStep`): `RunCycle` is straight-line code in a caller's goroutine.
`HollowSpec` is also weakly fair in `Subscribe` and in the refresh loop, whose
goroutine Go's scheduler keeps running. Nothing makes anybody start a cycle,
call `TriggerRefresh`, or end a pin.

`FairSpec` of `GoroutineAnnouncer` is weakly fair in the goroutines that are
running: a started `Announce`, a started `Close`, the worker, the subscribers'
loops and the calls of `WaitForVersion`. It is strongly fair in `WorkerStops`:
on a closed queue the worker's select has two ready cases for ever, and Go
chooses among ready cases at random.

`FairSpec` of `FileWatcher` is weakly fair in what running goroutines do next:
the steps of a refresh, of `Start` between its selects, the end of a
`WatchDirectory`, and the ticker. It is strongly fair in `SeesEnd`, since the
select in `Start` meets a finished context again and again together with a ready
ticker, and in `Ends` and `CheckForChanges`, which take `fw.mu`: Go's `RWMutex`
lets nobody starve behind repeated calls of `WatchDirectory`. Nobody has to call
anything, to touch a file or to run a cycle.

## 4. Proofs

`Producer_proofs` proves, for every set of contents, snapshot distance, version
bound and every combination of events:

* `TypeCorrect`: `Spec => []TypeOK`.
* `ChainHasNoGaps`: `Spec => []NoGaps`, if no Restore runs inside a cycle.
* `VisibleIsStored`: `Spec => []VisibleVersionsAreStored`, under the same
  assumption.
* `SnapshotsAreSpaced`: `Spec => []SnapshotSpacing`, under the same assumption.
  A snapshot the store failed to take counts there, since
  `lastSnapshotVersion` counts it; `failedSnapshots` remembers them.
* `FirstIsSnapshot`: `Spec => []FirstVersionIsSnapshot`, if in addition no store
  fails.

Assumptions are those of the module: `NoContent` and `NoBlob` are distinct from
data and blobs, every content has a hash other than 0, the bounds are positive.

None of the last four is inductive. A new version is stored as
`currentVersion + 1`, so the chain stays gapless only if `currentVersion` itself
is stored, and a version becomes visible only after it went through the steps of
a cycle. The inductive invariant `ChainInv` therefore ties the places of
`RunCycle` together: besides `NoGaps` and `VisibleVersionsAreStored` it says
that `newVersion = currentVersion + 1` while validating or storing, and that
`newVersion` is stored from `stored` on. `StoreExtendsChain` is the step that
matters, `ChainStep` the case split over the actions. The assumption on Restore
is necessary: `MCProducer_known.cfg` (restoreRace) shows a chain torn apart without it.

`SpacingInv` adds that the version `lastSnapshotVersion` has a snapshot, or
failed to get one, which is what the test in `shouldCreateSnapshot` relies on,
and that it follows a stored version. After `Restore` it may be newer than the
version being produced; `DeltaKeepsSpacing` then uses `NoGaps`: that version was
stored before and had its snapshot near enough. `FirstIsSnapshot` needs
`NoFailedSnapshots` besides; with a failing store the first version may be a
delta (`MCProducer_known.cfg`, storeFail).

It proves further, for a producer that is neither restarted nor restored and for
an injective hash, whatever cycles are empty, rejected or fail, whatever
announcements fail and however the enforcer is switched (`LastingEnvironment`):

* `NoChangeIsLost`: `Spec => NoLostChange`,
* `PublishedNeverChanges`: `Spec => PublishedIsImmutable`,
* `ProducerImplementsVersionLog`: `Spec => ImplementsVersionLog`, the refinement;

if in addition the enforcer is not switched (`EnabledEnvironment`),

* `ReturnedVersionIsBase`: `Spec => ReturnedIsBase`,

and if instead no cycle fails or is empty (`QuietEnvironment`),

* `DeltasAreSound`: `Spec => []DeltaBaseSound`, which is proved only and has no
  run of its own.

The invariant of the first three is `PublishedInv`: on top of `ChainInv`, what a
cycle has stored is what it populated (`CycleInv`), nothing is stored past the
end of the log, and the remembered hash is that of its end (`EndInv`). A failed
cycle leaves none of these three behind, although it rotates the engine.
`StoreAppends` says what a store does to the log, `LastingStep` that no other
step but `Announce` touches what `VersionLog` speaks of.

What a failed cycle does leave behind is a wrong base. `ReturnInv` says how far
that goes: if the last cycle returned the current version, the engine's current
state is the published one, and after the next `PrepareForCycle` the previous
one is. So one failure spoils one delta. A disabled producer returns its version
without a cycle, which is why the enforcer is left alone here. In the quiet
environment every cycle returns the current version: `EngineInv` says that the
engine's state between cycles is the published one, and `LogInv` joins it to
`PublishedInv` and `DeltaBaseSound`. What each theorem excludes does go wrong:
`MCProducer_known.cfg` shows it (section 6).

`DeltaPipeline_proofs` proves, for any types, records, primary keys, shard sizes
and settings, over any chain of cycles that are rejected, empty or identical,
with resharding or without:

* `EngineStaysSound`: `Spec => []EngineIsSound`,
* `KeyedDeltaStaysComplete`: `Spec => [](KeysOnce => KeyedDeltaComplete)`,
* `DeltaStaysMinimal`: `Spec => [](KeysOnce => DeltaMinimal)`,
* `VersionsStayRead`: `Spec => [](Tame => EveryVersionIsRead)`.

`KeysOnce` says that the callbacks of this behaviour add no key twice in one
cycle (no setting with "repeat"); the code then records two changes of one
ordinal, and the optimiser keeps one (section 6, `RepeatSettings`).

`EngineInv` says of the identity map that it numbers its keys from 0 without a
gap (`IsNaming`): the next ordinal is its size, so a new key gets a number no
other has, and old ones keep theirs (`NamingGrows`). `Named` says that the
records of both states carry the number of their own key, and so do the changes
noted, those made by the deletes at the end included: `FinishKeepsEngine` is the
step where the previous state is searched, the optimiser merges and resharding
moves the records (`ReshardingMoves`). Of records without a key only the
types are said.

Neither of the two about deltas can be read off the state while a callback runs:
deletes are added when it has ended, and only then is the delta merged. `OnceInv`
therefore says what has been noted so far (`Recording`): for each key added one
change, exactly if the record is new or another one than before, none for the
keys not added yet; at the end (`FinishRecords`) the deletes join, of ordinals
that no addition told of (`GoneIsAbsent`), so that merging loses nothing
(`OptimizeKeeps`). Adding a key does not disturb what is said of the others
because their ordinals are different ones, which is `EngineInv`. A delta lists
records in the order of their ordinals: `InOrder` gives each number the place of
its rank, `InOrderLists` proves that it lists every number once, because
lemmas about sorting would need an induction the provers cannot instantiate.
Assumed is, besides what the settings are, only that a hash is a natural number.

`VersionsStayRead` is about what a consumer holds after any number of versions.
`Tame` says that in this behaviour every version is a snapshot
(`SnapshotsOnly`), with callbacks that do whatever they like, or that snapshots
and deltas alternate at any distance and no callback omits, repeats or reorders
keys, takes more than one record from a plain type or the last it has, or fills
a type whose key field does not exist (`CyclesAreTame`). None of this can be
left out: with `OmitSettings`, `RepeatSettings`, `ReorderSettings`,
`ShrinkSettings`, `VanishSettings` and `MisnamedSettings` (section 6) TLC finds
`EveryVersionIsRead` violated. The settings of the run `pipeline` are tame.

The consumer takes an ordinal for a position in its list as the list is by then,
so the proof has two halves. `DeltaSet_proofs` has the one about data: `Edits`
says of change records, in rising order, that they say everything about the
positions both lists have, add what is behind, and delete the last record at
most; `EditsApply` goes through them one by one, the list being new up to the
position reached and old behind it (`EditedTo`). `PlainEdits` shows that the
comparison position by position gives such records, and with it `ListsApply`,
for lists of any length. The other half is about the engine: `Numbered` says that
a keyed type only ever grows at its end, so that every record stands where its
ordinal says (`InPlace`) and the merged delta edits as well (`KeyedTypesEdit`).
`FollowInv` adds that the state published last is the base of the next delta
(`Base`) and that rejected, empty and identical cycles leave it where it is;
`SnapshotIsRead` and `DeltaIsRead` are the two steps on which the consumer moves.

`applyDelta` is a loop, here a function defined by recursion over the change
records. `DeltaIsApplied` shows that the lists it goes through exist, by looking
for the smallest number of records for which they would not; the induction
theorems of the library are not needed.

`LegacyHollow_proofs` proves, for any data sets, any number of callers, with
failures and new producers:

* `LegacyTypes`: `LegacySpec => []LegacyTypeOK`,
* `LatestCanBeRetrieved`: `LegacySpec => []LatestIsRetrievable`,
* `CommittedStays`: `LegacySpec => CommittedNeverChanges`,
* `LoneReadIsConsistent`: `LegacySpec => []ReadIsConsistent`,
* `DiffsRoundTrip`: `LegacySpec => []DiffRoundTrips`, from the lemma `DiffIsExact`
  about `DiffData` and `Apply` for all maps,
* `DeltasLink`: `LegacySpec => []DeltasLinkVersions`.

The inductive invariant is `LegacyInv`. `IsThere` follows a version from staging
to the callers that were told of it. `NumberIsNew` says that the first producer
never counts below what it committed, and that the number of a cycle under way
is not committed. `LoneRefresh` looks inside a refresh that runs alone: it holds
the data of its version, and between its two stores the consumer's data is
already the new and its number still the old, so that the invariant speaks of
the consumer only outside that window. Committed data must not change meanwhile,
which is where `NumberIsNew` comes in (`CommitKeeps`). Assumed are only that data
sets are functions, that bounds are natural numbers and that those who call
`RefreshWithDelta` are among the callers. `CommittedStays` and
`LoneReadIsConsistent` speak of the first producer only, as their properties say:
a second one starts over at version 1.

`DeltasLink` needs `DeltaFits` besides: a delta cycle remembers the version that
was committed when it asked, cycles that fail in between count on, so the
version it ends with is greater and, when the delta is written, committed.

`Hollow_proofs` is about a producer, its store and feed, and a consumer that
refreshes meanwhile, for any contents, versions, snapshot distance, serializers
and channel size. With any number of failures, empty cycles, rejections and
crashes, and with two refreshers racing, it proves:

* `ReadsStayStored`: the version read and those planned are stored
  (`ReadsAreStored`, which includes the types),
* `PlansAreWithoutGaps`: a plan is a snapshot or the next delta, followed by
  deltas without a gap (`PlansHaveNoGap`),

both of `HollowSpec` and of `ZeroCopySpec`, if no Restore runs inside a cycle
(`"restoreRace"`). The invariant `HollowInv` adds, for a refresh under way, that
the version it started from, each one planned and, once the plan is complete,
its target are stored (`Sound`); the producer only adds versions (`StoredStays`).
A plan exists at all because of `ChainInv`: below a stored version everything is.

If in addition only one goroutine refreshes (`OneRefresher`), it proves of
`HollowSpec`

* `RefreshReaches`: `RefreshReachesTarget`,
* `LoneNeverRegresses`: `NeverRegresses`, and `LoneNeverPanics`: `[]NoPanic`.

`LoneInv` adds that every refresh, from its start to its end, walks from the
version read to its target step by step (`Walk`, `Chained`): each delta of the
chain starts where the one before ends, and the first where the consumer stands.
That is what a second refresher breaks, and `MCHollow_race` and
`MCHollow_known` show all three properties violated by two.

In the quiet environment (`QuietEnvironment`), with readers of the zero-copy
serializer and lists of records that deltas can turn into each other
(`DeltasApply`), it proves

* `LoneReadsArePublished`: `HollowSpec => []ReadsArePublished`,
* `HollowImplementsReplicatedLog`: `HollowSpec => ImplementsReplicatedLog`.

`ReplicaInv` joins `LoneInv` and `LogInv`: what is read is entry `readVersion` of
the log, and each blob of a plan holds what the log says (`BlobIsTrue`), so that
a step of the walk leads from one entry to the next. A plan outlives the moment
it was made; it stays true because the log only grows. `DeltasApply` says of the
data what the merge in `consumer.go` needs. `ShortListsApply` proves it of every
set of lists whose lengths differ by at most one, of any records; `MCHollow`
checks it of its lists. The other serializers read some deltas as empty (section 6).

* `ViewsStayNearest`: `ZeroCopySpec => []ViewsAreNearest`, for any refreshers, if
  the producer is not restarted or restored (`KeepsCounting`).

`ViewInv` has two parts of its own. `AppendInv`: nothing is stored beyond the
version the producer is at, hence what the store offers below it is settled;
a restarted producer counts from 0 and replaces it. `CallInv`: the version for
which a call looks for bytes is stored, and what it has found missing (the
snapshot, then records in the delta) is still missing.

Of the command line it proves, for any records, counts and numbers of versions:

* `SessionReadsStay`: `SessionSpec => []SessionReadsASnapshot`, for the command
  line's own serializers (`Interactive`) and a producer that is not restarted.

`SessionInv` says that whatever anybody holds, the consumer, a refresh or a
command, is nothing or one of the stored snapshots (`Shows`). A refresh keeps it
because the traditional serializer turns every delta into one without changes
(`DeltasAreIgnored`), the steps of the producer because of `AppendInv`: what is
stored stays as it is. The other parts say that there is data to be read: the
first version is a snapshot (`FirstInv`), and the prompt's version is the
producer's outside a cycle (`PromptInv`), or 0 after an empty cycle; so the
version it shows is stored and can be inspected, and a new consumer reaches it
(`StoredIsPlanned`). `SessionSetting` assumes that a command makes a
write state out of a write state; `ListsEvolve` proves it of the non-empty lists
of any records that the commands' own records belong to.

`GoroutineAnnouncer_proofs` proves, for any subscribers, waiters, versions,
capacities and events:

* `ClientsStayServed`: `Spec => []ClientsAreServed`,
* `SendsStayOrderly`: `Spec => SendsAreOrderly`,
* `OrderlyCloseNeverPanics`: `Spec => []NoPanic`, if nobody announces while or
  after the announcer is closed (`"lateAnnounce"`).

`ClientsAreServed` is not inductive: a subscriber on the list may be a version
behind, as long as that version is on its way. `LatestInv` says where: an
`Announce` is about to queue it, it is in the queue, or the worker holds it. The
other parts bound what queue, channels and worker hold by `latestVersion`, keep
the list free of duplicates and its members in their loops. Removing subscribers
whose channels are full deletes several indices of the list at once; `Without`
says it with ranks, and `WithoutKeeps` proves from the facts about finite sets
and injections that the rest stays a list without duplicates. (The lemmas about a
fold would take an operator as a parameter.)

`S3Hollow_proofs` proves, for any processes, threads and versions, crashes and
failures of the bucket:

* `RemovalIsFinal`: `S3Spec => []RemovedStaysRemoved`,
* `ReadsStayPublished`: `S3Spec => []ReadsArePublished`,
* `RefreshReachesTarget`: `S3Spec => RefreshEndsAtTarget`.

All assume that the janitor is another goroutine than the producer
(`OwnJanitor`). The last two also assume that changes of records apply as they
were computed (`DeltasApply`; `ShortListsApply` proves it of non-empty lists whose
lengths differ by at most one, others are a known divergence) and that processes
crash only where the bucket does not fail and nothing is removed (`CrashesAlone`). Without that they are false, as the known
divergence of `MCS3Hollow` shows: TLC finds a delta of an earlier life of the
producer that stands for one of its next life.

In `S3Inv`, `RemovalInv` follows a removal nobody interferes with: nothing in the
cache, and no retrieval about to fill it, from its first step on, and nothing in
the bucket when it is over. `RemovedInv` keeps that for what was removed. Nothing
puts the snapshot back because a producer stores only versions newer than the
announced one (`ProducerInv`), and only announced ones are removed.

For what is read, `ReadInv` strengthens the property by what caches, bucket and
calls on their way hold. A delta is in a cache either as the producer stored it,
which only its own process has (`StoredDelta`), or as it came out of the bucket,
without versions (`IsReadBack`). Where the producer cannot crash, its cache has
every delta of the bucket with its versions (`StoredChange`). Where it can, each
such delta has a snapshot before it in the same cache, since a crash takes both
(`AnchorInv`); so a plan that has taken one delta with its versions meets no
delta without them. `Walk` says of a plan that its deltas lead from where it
stands to its target; `Lost` is the plan that a delta without versions ended, and
`Applying` says the same of the blobs that are left to apply. The version that a
cycle is about to announce may already be read by consumers of its process, from
the cache (`Held`), so a crash in the middle of `Store` takes the reader along
with what it has read.

`Library_proofs` proves, for any number of producers over one store, of
records, rounds, readers and failures:

* `PollsAreServed`: `ReadersSpec => []EveryPollIsServed`,
* `FullBatchesAreFlushed`: `PoolSpec => []FullBatchIsFlushed`,
* `RecordsStayAccountedFor`: `PoolSpec => []RecordsAreAccountedFor`,
* `AnnouncedStaysReachable` and `PoolStaysReachable`: `[]AnnouncedIsReachable` of
  both.

Producers overwrite each other's blobs, so nothing can be said about whose blob
is where. `SharedInv` says only that every version a producer went through, or
that was announced, has a snapshot or a delta from the version before. That is
enough: the walk back ends at the newest snapshot on the way, or where it was to
start (`AnnouncedIsReached`). It holds although a first snapshot that fails is
noted, so that version 1 may be a delta only. `ServedInv` adds what a reader on
its way to a version knows of it. `PoolInv` ties a batch on its way to the place
of the loop that took it, and says that a loop takes one at a time; a loop about
to stop ("closing") has left nothing behind already. Assumed is an initial
backoff of at least two units (100 ms, counted in ns, in the code), which then
grows by half.

`RecordsStayAccountedFor` needs more than the property: `AccountInv` adds that
only the first snapshot of a production producer is an empty batch, that a
producer's version is one ahead of its books exactly while a stored version is
not yet published, and that the marker of a first version comes before the loop
runs. A place of a record is a triple (queue, batch, version, dropped or refused;
whose; at which index), so that "exactly one place" also means "once". Every step
leaves the places of a record alone or takes it from its only place to one other
(`MoveKeeps`, `TakingKeepsPlaces`, `BatchLeaves`, `PublishingKeepsPlaces`,
`GivingUpKeepsPlaces`); only new records get a place (`DistributingKeepsPlaces`),
and the chunks of `AddRecords` hold every record of a call once, although the last
producer gets what the division leaves, and some get none when records are few
(`ChunksCut`, `ChunksShare`). `PoolAssumption` says
that the records of the feed differ (a record stands for one call's record, not
for its text) and that the pool has a producer: `AddRecord` of an empty pool
divides by zero.

Induction over numbers is done with `WFMin` of `WellFoundedInduction`, whose
parameters are sets (`SmallestExists`, `LargestExists`, `LastExists`, `MinIs`, `MaxIs`).

`Library_proofs` also proves of the schema compiler, for documents of any length
in any of its languages:

* `SortStaysCorrect`: `CompilerSpec => []SortIsCorrect`,
* `EqualsTellsApart`: of schemas whose fields have different names, `Equals` tells
  exactly those apart that differ in more than the order of their fields.

First, whatever the lines are, the parsers make schemas of them (`AreSchemas`):
`ReadLines` has a value after every line (`DocumentIsRead`, which looks for the
first line without one), and every line leaves a list of schemas and an open one,
or none (`NextLineKeeps`); of a C style or Cap'n Proto document only an object is
ever open (`OpenIsObject`), so that a field has where to go. Hence what a type
refers to is a finite set that can be counted. `SortInv` then says of
`TopologicalSort` that the types in the result and in the queue, each there once,
are exactly those whose count is zero; that a count is the number of references
to types that are not done yet, repeated ones included; and that what a type of
the result refers to is before it. The count of a type goes down by its references to
the one that is taken (`MissingShrinks`), so it reaches zero once. At the end, as
many types as schemas means all of them; otherwise either two schemas share a
name, or every type that is left still refers to one that is left: a cycle. A
type that refers to itself is one. `EqualsTellsApart` counts: `Equals` looks at
the fields of one schema only, so it needs the number of fields to know that the
other has no more (`FieldsCount`).

* `CollectionsAlwaysAgree`: `CollectionSpec => []CollectionsAgree`, for any keys,
  values and numbers of entries, the same key as often as one likes. All calls
  depend on what is visible (`CallsTell`); equal sizes make an inclusion of keys
  an equality, which `MapEquals` relies on.

Only model-checked are all liveness properties (fairness and ENABLED are out of
the prover's reach), `FileWatcher`, `CapnpStore`, `Indexes` and `MovieViews`, and
of the schemas that sections do not depend on each other and that equal schemas
have equal hash codes:

* what is claimed of `FileWatcher` is liveness only (`ChangeReachesConsumer`,
  `CancelEndsStart`, `StopEndsStart`);
* that the sections of a schema document do not depend on each other is a fact about
  the parser run over concatenated documents, by induction over their lines;
* `CapnpStore` has RECURSIVE operators over JSON values of any depth, which rule
  proofs out;
* the keys of `Indexes` are texts put together from names and numbers, of which the
  provers know neither that they differ nor what they are made of;
* the hash of a schema and the sums over movies are folds over bytes and movies,
  whose operators are parameters of the fold.

## 5. Not modelled, and plan

Done in this order: `Producer` with its proofs, `WriteStateEngine` and
`DeltaPipeline`, `Hollow`, `GoroutineAnnouncer`, `LegacyHollow` with its proofs,
`FileWatcher`; then `Serialization`, `ZeroCopyConsumer` and `Session`,
`S3BlobStore` and `S3Hollow`, `CapnpStore`, `Schemas` and `SchemaCompiler`,
`Indexes`, `Collections`, `MovieViews`, `SharedStore` with `ProducerPool` and
`PollingReaders`; last the proofs of what is read through positional deltas.

Left out:

* generated Cap'n Proto accessors (`generated/`) and the byte layout of messages;
* the other example programs and the programs under `legacy/cmd/`: test data,
  timing and printing around calls that are modelled with the library. They are
  well over a third of the repository's lines;
* `tools/`: stubs that return constants;
* how schema lines are cut into words; `extractStructs` and `extractEnums` of
  `schema/parser.go`, which nothing calls;
* the wording of what the command line and the examples print;
* header tags and statistics nobody reads; the memory mode of a consumer, which
  its constructor alone looks at;
* `legacy/delta_wrapper.go`, a store whose `WriteDelta` writes no version;
* `capnpToDiff` and `ApplyDelta` of `legacy/capnp_store.go`: no delta can be
  written, since `diffToCapnp` panics.

## 6. Known divergences

Where the code does not do what its documents or comments say, or what one would
expect of it. `hollow_race` is a run of `PROJECT.json`, which quotes the text; for
the others the configuration named here, with the setting in brackets, makes TLC
print the behaviour. Three configurations serve for more than they show as they
stand: `MCLibrary_parts` with `Parts = {...}`, `MCZeroCopyConsumer_faults` with
`Setups <- CommandLine` and `MCDeltaPipeline_records` with `Settings <- ...`,
with the property in the place of the ones listed. In `MCLegacyHollow_known` delete the other properties.

| configuration | violated | at |
|---|---|---|
| `MCHollow_race` | `ReadsArePublished`: two refreshes apply the same delta | `consumer.go:118` |
| `MCHollow_race` | `NeverRegresses`: the slower refresh puts the older state back | `consumer.go:187` |
| `MCHollow_known` (`RaceSetups`) | `NoPanic`: `IsInvalidated` is tested, then `GetAllData` panics; `readExistingData` of the command line does the same (`GetAllDataPanics` of `Session`) | `consumer.go:248` |
| `MCHollow_known` (`PinSetups`) | `PinIsHonoured`: a refresh to an older, pinned version does nothing (TEST.md:60) | `consumer.go:154` |
| `MCHollow_known` (`LateSetups`) | `LateSubscriberCatchesUp`: what was announced before the subscription is missed | `consumer.go:108` |
| `MCHollow_known` (`LoopSetups`, `BufferSize = 1`) | `AnnouncedIsRead`: a notification to a full channel is dropped (TEST.md:59) | `announcement.go:82` |
| `MCHollow_known` (`TraditionalSetups`) | `ReadsArePublished`: the default serializer decodes every delta to nothing | `serialization.go:117` |
| `MCProducer_known` (`reject`) | `DeltaBaseSound`: a failed validation leaves an empty state as the base of the next delta (TEST.md:141 "Producers must rollback state when validation fails") | `producer.go:178` |
| `MCProducer_known` (`storeFail`) | `DeltaBaseSound`: after a failed store a retry publishes an empty delta (TEST.md:164 "All-or-nothing cycle completion") | `producer.go:184` |
| `MCProducer_known` (`storeFail`) | `FirstVersionIsSnapshot`: the snapshot counter is set before the snapshot is stored (producer.go:340 "First version is always a snapshot") | `producer.go:273` |
| `MCProducer_known` (`crash`, `restore`) | `PublishedIsImmutable`: a restarted producer publishes stored versions again (TEST.md:161 "Monotonic version numbers with deterministic behavior") | `producer.go:356` |
| `MCProducer_known` (`restoreRace`) | `DeltaSpansOneVersion`: `Restore` without the lock (REVIEW.md:160) | `producer.go:356` |
| `MCProducer_known` (`TextHash`) | `NoLostChange`: different records with the same concatenated text count as identical | `producer.go:228` |
| `MCDeltaPipeline_records` (`OmitSettings`) | `MirrorMatches`: ordinals of keys used as positions after an omission | `consumer.go:277` |
| the same (`ShrinkSettings`) | `MirrorMatches`: of two trailing deletes the second is skipped | `consumer.go:281` |
| the same (`VanishSettings`) | `MirrorMatches`: a plain type without records is never deleted (REVIEW.md:96) | `state.go:448` |
| the same (`RepeatSettings`) | `KeyedDeltaComplete`: a key added twice in one cycle (USAGE.md:94 "Automatic deduplication") | `state.go:578` |
| the same (`ReorderSettings`) | `NeverStuck`: the same keyed records in another order give a blob of no bytes, which does not decode | `producer.go:289` |
| the same (`MisnamedSettings`) | `NeverStuck`: a primary key field that does not exist is not detected (TEST.md:144) | `state.go:30` |
| the same (`FormSettings`) | `OneForm`: snapshots deliver `RecordInfo`, deltas bare values | `serialization.go:282` |
| the same (`StructSettings`) | `KeysAreUnique`: all Cap'n Proto structs of a type have one key (state.go:627 "This maintains uniqueness") | `state.go:627` |
| `MCGoroutineAnnouncer_known` | `WaiterIsAnswered`: a version sent between the look at the latest version and the subscription is missed (goroutine_announcer.go:324 "waits for a specific version to be announced") | `goroutine_announcer.go:327` |
| the same, as it says | `CloseEndsEverybody`: a slow subscriber is removed without a word and outlives `Close` | `goroutine_announcer.go:104` |
| the same, as it says | `PinHoldsBack`: newer versions are sent while a version is pinned (TEST.md:60) | `goroutine_announcer.go:95` |
| the same, as it says | `NoPanic`: `Announce` sends on the closed queue | `goroutine_announcer.go:159` |
| `MCS3Hollow_stores` (`Everything`) | `ReadsArePublished`: versions published again after a crash, while the bucket fails or a snapshot is removed, meet deltas and snapshots of the producer's earlier life | `s3_store.go:88` |
| `MCZeroCopyConsumer_faults` | `CurrentViewIsCurrentData`: a view made of a delta, or of an older snapshot, stands for the version | `zero_copy_consumer.go:134` |
| `MCZeroCopyConsumer_faults` (`CommandLine`) | `ListingShowsEveryBlob`: the legend says deltas lead into a version, the list shows those that lead out of a snapshot (interactive.go:411) | `interactive.go:411` |
| the same | `DiffShowsChanges`: the diff command compares two empty states | `main.go`, `runDiff` |
| the same | `ConsumeReadsWhatWasProduced`: `consume` and `inspect` start from a new memory store (the examples at main.go:87) | `main.go:87` |
| `MCLibrary_parts` (`"capnp"`) | `ReadIsCommitted`: `Retrieve` returns what is staged | `capnp_store.go:41` |
| `MCLibrary_parts` (`"indexes"`) | `ClassicLookupsFind`: `DetectUpdates` clears the index and rebuilds nothing (index.go:97 "Rebuild index from current state") | `index.go:97` |
| the same | `ExtractionIsComplete`: `ExtractField` always gives two texts | `zero_copy_consumer.go`, `ExtractField` |
| `MCLibrary_parts` (`"readers"`) | `ReadsAreOneWriters`: producers overwrite each other's versions (multi_writer_zerocopy/main.go:51) | `multi_writer_zerocopy/main.go:135` |
| the same | `DemoCompletes`: a reader that missed rounds ends by the timeout only | `multi_writer_zerocopy/main.go` |
| `MCLibrary_parts` (`"pool"`) | `PublishedBatchIsFresh`: a batch retried after a failed store is published as a delta without its records | `production_producer/main.go:254` |
| the same | `DeadLoopIsReported`: a producer whose first snapshot failed never flushes less than a full batch, and the health check is silent | `production_producer/main.go` |
| `MCLegacyHollow_known` | `OverlappingReadIsConsistent`: of two refreshes one writes the data and the other the version (legacy/README.md:9 "Atomic updates") | `legacy/consumer.go:80` |
| the same | `NeverGoesBack`: the slower refresh puts the older version back | `legacy/consumer.go:81` |
| the same | `DeltasDescribeChanges`: both sides of every delta's diff are empty maps (legacy/delta.go:152 "runs a production cycle and computes deltas") | `legacy/delta.go:189` |
| the same | `DeltaAppliesToBase`: the base is passed as the source, so that added and changed keys are skipped | `legacy/delta.go:355` |
| `MCFileWatcher_reload`, as it says | `StopEndsStart`: a `Stop` during a scan replaces the channel before `Start` looks at it again (filewatcher_test.go:211 "Expected file watcher to not be running after stop") | `legacy/filewatcher.go:194` |

Met while modelling, and part of the models, without a property of their own:

* *S3 store.* A delta read back has no versions: the plan of a consumer in
  another process ends at version 0, and its records grow with every refresh.
  What is read back has no metadata, hence no zero-copy view, and `ListVersions`
  is empty in other processes. A removal that overlaps a retrieval of the same
  snapshot puts it back into the cache.
* *Schemas.* With repeated field names `Equals` is not symmetric and equal
  schemas may differ in their hash; `PrimaryKey` is never set and does not
  count. Two schemas of one name are reported as circular. A `Type:` before any
  `TypeName:`, and a field after an object turned into a map, panic. A type
  whose name begins like a primitive one ("IntRange", "Int32Range") is taken for
  it. Fields after a nested struct are lost or go to another type; references
  through `List(...)` do not count in the sort.
* *Legacy Cap'n Proto store.* Entries that are no maps vanish; numbers and
  booleans come back as the float of their bits, or null; a nested map becomes
  the root of the message; `WriteDelta` always panics; `NewCapnProtoProducer` and
  `NewCapnProtoDeltaConsumer` make a store each, and the latter fails on it.
* *Indexes and collections.* Composite keys are joined by "|", so that different
  keys can be one. A hidden map equals the empty map only if it is the argument.
* *Movie lists.* An iterator with batch size 0 never ends; `RefreshTo` loads a
  fixed sample and `WriteMovieDataset` stores nothing.
* *Type filter.* `Include` without `ExcludeAll` has no effect.
* *Command line.* `p add` evolves the last snapshot and loses what deltas have
  added (interactive.go:122); an empty cycle sends the prompt to version 0.
* *Examples.* Records added after the shutdown stay in the queue; `AddRecords`
  reports an error although other chunks were accepted; the stress test's wait
  group counts a goroutine that is never done; the zero-copy reads decode Cap'n
  Proto bytes as JSON text, so that the fallbacks are never used.
* *Legacy producer and watcher.* A new `Producer` over an old store counts from 0
  and overwrites version 1 (`CommittedNeverChanges` is about one producer), and a
  `WatchDirectory` of a directory that is watched already may take over a change
  without a refresh that sees the version (`ChangeReachesConsumer` leaves out the
  time while one is under way).
