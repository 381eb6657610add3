---------------------------- MODULE ProducerPool ----------------------------
(***************************************************************************)
(* examples/go/production_producer: a pool of producers, each of which     *)
(* queues records (AddRecord, AddRecords) and publishes them in batches    *)
(* from several goroutines: its loop (Start) at every tick and once more   *)
(* when the program is stopped, and one goroutine for every call that      *)
(* finds a full batch in the queue.  A batch is retried when its cycle     *)
(* fails, and given up after ErrorRetryAttempts.                           *)
(*                                                                         *)
(* examples/go/production_producer_simple has the same queue but only      *)
(* pretends to publish ("simple").                                         *)
(*                                                                         *)
(* Records are distinct, so no cycle is identical to the one before.       *)
(***************************************************************************)
EXTENDS SharedStore, SequencesExt

CONSTANTS
  Feed,                \* the records callers add, in their order
  BatchSize,
  SnapshotFrequency,   \* 10 in the code
  MaxPending,          \* BatchSize * 10 in the code
  ErrorRetryAttempts,
  MaxErrors, PendingAlarm,  \* thresholds of the health check (5 and 1000 in the code)
  Programs             \* which of "production" and "simple"

ASSUME PoolAssumption ==
  /\ Feed \in Seq(Range(Feed)) /\ IsInjective(Feed)
  /\ Writers # {}
  /\ BatchSize \in Nat \ {0} /\ SnapshotFrequency \in Nat

VARIABLES
  program,     \* which program this is
  fed,         \* how many records of Feed were offered to the pool
  roundRobin,  \* ProducerPool.roundRobin
  cancelled,   \* the producers whose context main has cancelled
  pool,        \* writer -> its ProductionProducer: pendingRecords, its loop, and its goroutines
  flushes,     \* batches taken from the queues: who takes them where
  books,       \* writer -> stats
  published, dropped, refused   \* where records went: per writer its batches, sets

poolOwnVars == <<program, fed, roundRobin, cancelled, pool, flushes, books, published, dropped, refused>>
poolVars == <<storeVars, poolOwnVars>>

(* late: the records added since the loop was told to stop. *)
NewProductionProducer == [loop |-> "new", pending |-> <<>>, waking |-> 0, late |-> {}]
EmptyBooks == [versions |-> 0, written |-> 0, batches |-> 0, errors |-> 0]

PoolInit(frequency) ==
  /\ StoreInit(frequency)
  /\ program \in Programs
  /\ fed = 0 /\ roundRobin = 0 /\ cancelled = {}
  /\ pool = [w \in Writers |-> NewProductionProducer]
  /\ flushes = {}
  /\ books = [w \in Writers |-> EmptyBooks]
  /\ published = [w \in Writers |-> <<>>]
  /\ dropped = {} /\ refused = {}

-----------------------------------------------------------------------------
(* AddRecord and AddRecords of one producer, under pendingMutex.           *)
UnderPressure(w) == program = "production" /\ Len(pool[w].pending) > MaxPending

(* Slip: only a batch that is exactly full starts a goroutine              *)
(* (FullBatchIsFlushed).                                                   *)
QueueMissingFull(p, records) ==
  LET pending == p.pending \o records IN
  [p EXCEPT !.pending = pending,
            !.waking = IF Len(pending) = BatchSize THEN @ + 1 ELSE @,
            !.late = IF p.loop \in {"closing", "stopped"} THEN @ \cup ToSet(records) ELSE @]

Queue(p, records) ==
  LET pending == p.pending \o records IN
  [p EXCEPT !.pending = pending,
            !.waking = IF Len(pending) >= BatchSize THEN @ + 1 ELSE @,
            !.late = IF p.loop \in {"closing", "stopped"} THEN @ \cup ToSet(records) ELSE @]

(* chunks: writer -> what it is given; a producer under pressure refuses.  *)
Distribute(chunks) ==
  LET taken == {w \in Writers : chunks[w] # <<>> /\ ~UnderPressure(w)} IN
  /\ pool' = [w \in Writers |-> IF w \in taken THEN Queue(pool[w], chunks[w]) ELSE pool[w]]
  /\ refused' = refused \cup UNION {ToSet(chunks[w]) : w \in Writers \ taken}
  /\ UNCHANGED <<storeVars, program, cancelled, flushes, books, published, dropped>>

(* ProducerPool.AddRecord: the counter is advanced first. *)
AddRecord ==
  /\ fed < Len(Feed)
  /\ fed' = fed + 1
  /\ roundRobin' = roundRobin + 1
  /\ Distribute([w \in Writers |->
       IF w = (roundRobin' % Cardinality(Writers)) + 1 THEN <<Feed[fed + 1]>> ELSE <<>>])

(* Slip: the last producer gets a chunk like the others                    *)
(* (RecordsAreAccountedFor).                                               *)
ChunksOfOneSize(records) ==
  LET n == Cardinality(Writers)
      size == IF Len(records) < n THEN 1 ELSE Len(records) \div n
  IN [w \in Writers |-> SubSeq(records, (w - 1) * size + 1, Min({w * size, Len(records)}))]

(* The last producer gets what remains; a few records go to the first      *)
(* producers.                                                              *)
Chunks(records) ==
  LET n == Cardinality(Writers)
      size == IF Len(records) < n THEN 1 ELSE Len(records) \div n
      end(w) == IF w = n THEN Len(records) ELSE Min({w * size, Len(records)})
  IN [w \in Writers |-> SubSeq(records, (w - 1) * size + 1, end(w))]

(* ProducerPool.AddRecords waits for one goroutine per chunk; they meet    *)
(* nobody but the flushes of their own producer, so they are one step.     *)
AddRecords(count) ==
  /\ program = "production"
  /\ fed + count <= Len(Feed)
  /\ fed' = fed + count
  /\ Distribute(Chunks(SubSeq(Feed, fed + 1, fed + count)))
  /\ UNCHANGED roundRobin

-----------------------------------------------------------------------------
Batch(w, who, records) == [by |-> w, who |-> who, records |-> records, tries |-> 0, at |-> "cycle"]

(* Start's goroutine creates the initial snapshot first. *)
CreateInitialSnapshot(w) ==
  /\ program = "production"
  /\ pool[w].loop = "new"
  /\ pool' = [pool EXCEPT ![w].loop = "starting"]
  /\ flushes' = flushes \cup {Batch(w, "initial", <<>>)}
  /\ UNCHANGED <<storeVars, program, fed, roundRobin, cancelled, books, published, dropped, refused>>

(* Slip: the queue is copied but not emptied (RecordsAreAccountedFor). *)
TakeBatchKeepingQueue(w, who, p) ==
  /\ p.pending # <<>>
  /\ flushes' = flushes \cup {Batch(w, who, p.pending)}
  /\ pool' = [pool EXCEPT ![w] = p]

(* flushPendingRecords, first part: the queue is copied and emptied under  *)
(* pendingMutex.                                                           *)
TakeBatch(w, who, p) ==
  /\ p.pending # <<>>
  /\ flushes' = flushes \cup {Batch(w, who, p.pending)}
  /\ pool' = [pool EXCEPT ![w] = [p EXCEPT !.pending = <<>>]]

NothingTaken(w, p) ==
  /\ p.pending = <<>>
  /\ pool' = [pool EXCEPT ![w] = p]
  /\ UNCHANGED flushes

ElsewhereInPool ==
  UNCHANGED <<storeVars, program, fed, roundRobin, cancelled, books, published, dropped, refused>>

(* The goroutine of a call that found a full batch; another flush may have *)
(* emptied the queue before it runs.                                       *)
AutoFlush(w) ==
  LET p == [pool[w] EXCEPT !.waking = @ - 1] IN
  /\ pool[w].waking > 0
  /\ TakeBatch(w, "auto", p) \/ NothingTaken(w, p)
  /\ ElsewhereInPool

(* The loop is in its select when it is "running". *)
Tick(w) ==
  /\ pool[w].loop = "running"
  /\ TakeBatch(w, "loop", [pool[w] EXCEPT !.loop = "flushing"])
  /\ ElsewhereInPool

Cancel ==
  /\ program = "production"
  /\ cancelled = {}
  /\ cancelled' = Writers
  /\ UNCHANGED <<storeVars, program, fed, roundRobin, pool, flushes, books, published, dropped, refused>>

GracefulShutdown(w) ==
  /\ w \in cancelled /\ pool[w].loop = "running"
  /\ \/ TakeBatch(w, "shutdown", [pool[w] EXCEPT !.loop = "closing"])
     \/ NothingTaken(w, [pool[w] EXCEPT !.loop = "stopped"])
  /\ ElsewhereInPool

-----------------------------------------------------------------------------
(* The loop goes on when its own flush is over, one way or the other. *)
LoopAfter(f, published_) ==
  CASE f.who = "initial" -> IF published_ THEN "running" ELSE "failed"
    [] f.who = "loop" -> "running"
    [] f.who = "shutdown" -> "stopped"
    [] OTHER -> pool[f.by].loop

Over(f, published_) ==
  /\ flushes' = flushes \ {f}
  /\ pool' = [pool EXCEPT ![f.by].loop = LoopAfter(f, published_)]

Unfed == UNCHANGED <<program, fed, roundRobin, cancelled, refused>>

(* flushRecordsBatch and createInitialSnapshot: RunCycle stores a blob ... *)
RunCycle(f) ==
  /\ program = "production" /\ f.at = "cycle"
  /\ StoreBlob(f.by)
  /\ flushes' = (flushes \ {f}) \cup {[f EXCEPT !.at = "announce"]}
  /\ UNCHANGED <<pool, books, published, dropped>> /\ Unfed

Count(w, records, batches) ==
  books' = [books EXCEPT ![w].versions = @ + 1, ![w].written = @ + records, ![w].batches = @ + batches]

(* ... and announces it: the batch is published.  The marker record of an  *)
(* initial snapshot is nobody's.                                           *)
FlushRecordsBatch(f) ==
  /\ f.at = "announce"
  /\ Announce(f.by)
  /\ Over(f, TRUE)
  /\ published' = [published EXCEPT ![f.by] = Append(@, f.records)]
  /\ IF f.who = "initial" THEN Count(f.by, 1, 0) ELSE Count(f.by, Len(f.records), 1)
  /\ UNCHANGED dropped /\ Unfed

(* A failed cycle is tried again after a while, or given up; the initial   *)
(* snapshot is not tried again, and a shutdown's error is not counted.     *)
FlushFails(f) ==
  LET givenUp == f.who = "initial" \/ f.tries = ErrorRetryAttempts IN
  /\ program = "production" /\ f.at = "cycle"
  /\ StoreFails(f.by)
  /\ IF givenUp
     THEN Over(f, FALSE)
     ELSE flushes' = (flushes \ {f}) \cup {[f EXCEPT !.tries = @ + 1]} /\ UNCHANGED pool
  /\ dropped' = IF givenUp THEN dropped \cup ToSet(f.records) ELSE dropped
  /\ books' = IF givenUp /\ f.who \in {"loop", "auto"}
              THEN [books EXCEPT ![f.by].errors = @ + 1] ELSE books
  /\ UNCHANGED published /\ Unfed

-----------------------------------------------------------------------------
(* The simple program counts its initial snapshot and its batches as if    *)
(* they were published, and stops its producers one after the other.       *)
SimpleStart(w) ==
  /\ program = "simple"
  /\ pool[w].loop = "new"
  /\ pool' = [pool EXCEPT ![w].loop = "running"]
  /\ published' = [published EXCEPT ![w] = Append(@, <<>>)]
  /\ Count(w, 1, 0)
  /\ UNCHANGED <<storeVars, flushes, dropped>> /\ Unfed

SimpleFlush(f) ==
  /\ program = "simple"
  /\ Over(f, TRUE)
  /\ published' = [published EXCEPT ![f.by] = Append(@, f.records)]
  /\ Count(f.by, Len(f.records), 0)
  /\ UNCHANGED <<storeVars, dropped>> /\ Unfed

SimpleStop(w) ==
  /\ program = "simple"
  /\ w \notin cancelled /\ \A u \in Writers : u < w => u \in cancelled
  /\ cancelled' = cancelled \cup {w}
  /\ UNCHANGED <<storeVars, program, fed, roundRobin, pool, flushes, books, published, dropped, refused>>

-----------------------------------------------------------------------------
(* main: whoever adds records, the loops and goroutines of the producers,  *)
(* and the signal that ends the program.                                   *)
PoolNext ==
  \/ AddRecord
  \/ \E count \in 2..Len(Feed) : AddRecords(count)
  \/ \E w \in Writers :
       \/ CreateInitialSnapshot(w) \/ SimpleStart(w)
       \/ AutoFlush(w) \/ Tick(w) \/ GracefulShutdown(w) \/ SimpleStop(w)
  \/ \E f \in flushes : RunCycle(f) \/ FlushRecordsBatch(f) \/ FlushFails(f) \/ SimpleFlush(f)
  \/ Cancel

PoolSpec == PoolInit(SnapshotFrequency) /\ [][PoolNext]_poolVars

-----------------------------------------------------------------------------
(* What CheckHealth reports of a producer, inactivity for a time aside. *)
CheckHealth(w) ==
  IF books[w].versions = 0 THEN {"no writes"}
  ELSE (IF books[w].errors > MaxErrors THEN {"errors"} ELSE {})
         \cup (IF Len(pool[w].pending) > PendingAlarm THEN {"pending"} ELSE {})

(* Where a record is: in a queue, in a goroutine's batch, in a published   *)
(* one, given up after an error, or refused with one.                      *)
IndicesOf(records, r) == {i \in DOMAIN records : records[i] = r}

InQueues(r) ==
  UNION {{<<"queue", w, i>> : i \in IndicesOf(pool[w].pending, r)} : w \in Writers}

InBatches(r) ==
  UNION {{<<"batch", f, i>> : i \in IndicesOf(f.records, r)} : f \in flushes}

InVersions(r) ==
  UNION {UNION {{<<"version", <<w, b>>, i>> : i \in IndicesOf(published[w][b], r)} :
                  b \in DOMAIN published[w]} : w \in Writers}

Places(r) ==
  InQueues(r) \cup InBatches(r) \cup InVersions(r)
    \cup (IF r \in dropped THEN {<<"dropped", r, 1>>} ELSE {})
    \cup (IF r \in refused THEN {<<"refused", r, 1>>} ELSE {})

Offered(r) == \E i \in 1..fed : Feed[i] = r

(* Where there are records in a list of batches. *)
RecordsIn(batches) == UNION {{<<b, i>> : i \in DOMAIN batches[b]} : b \in DOMAIN batches}

(***************************************************************************)
(* Of the records offered so far every one is in exactly one place: in one *)
(* producer's queue, in one goroutine's batch, in one published batch, in  *)
(* a batch given up after an error, or refused with an error, although     *)
(* ticks, full batches, retries and the shutdown all take batches; and the *)
(* statistics of every producer count what it has published.               *)
(***************************************************************************)
RecordsAreAccountedFor ==
  /\ \A r \in Range(Feed) : IF Offered(r) THEN \E p \in Places(r) : Places(r) = {p} ELSE Places(r) = {}
  /\ \A w \in Writers :
       LET marker == IF <<>> \in ToSet(published[w]) THEN 1 ELSE 0 IN
       /\ books[w].versions = Len(published[w])
       /\ books[w].written = Cardinality(RecordsIn(published[w])) + marker
       /\ program = "production" =>
            /\ books[w].batches = Len(published[w]) - marker
            /\ producer[w].version = Len(published[w]) + (IF producer[w].stored THEN 1 ELSE 0)

(***************************************************************************)
(* A full batch never waits for a tick: a goroutine is on its way to it,   *)
(* whatever other flushes have taken meanwhile.  And what a loop leaves    *)
(* behind when it stops was added after its last flush.                    *)
(***************************************************************************)
FullBatchIsFlushed ==
  \A w \in Writers :
    /\ Len(pool[w].pending) >= BatchSize => pool[w].waking > 0
    /\ pool[w].loop = "stopped" => ToSet(pool[w].pending) \subseteq pool[w].late

(***************************************************************************)
(* A producer whose loop is gone while records wait is reported.           *)
(***************************************************************************)
DeadLoopIsReported ==
  \A w \in Writers :
    pool[w].loop = "failed" /\ pool[w].pending # <<>> => CheckHealth(w) # {}

(***************************************************************************)
(* A batch that is published was not attempted before: its delta is        *)
(* computed against the state of the failed attempt, which had the same    *)
(* records, and so shows none of them.                                     *)
(***************************************************************************)
PublishedBatchIsFresh ==
  [][\A f \in flushes : FlushRecordsBatch(f) => f.tries = 0]_poolVars
=============================================================================
