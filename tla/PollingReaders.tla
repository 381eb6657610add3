--------------------------- MODULE PollingReaders ---------------------------
(***************************************************************************)
(* The example programs in which several writers run cycles over one store *)
(* while readers ask the announcer for its latest version at every tick    *)
(* and refresh consumers of theirs to it:                                  *)
(*   "demo"        examples/go/multi_writer_zerocopy,                      *)
(*   "stress"      examples/go/advanced_zerocopy_stress,                   *)
(*   "production"  the readers of examples/go/production_consumer, with    *)
(*                 the producers of production_producer as writers.        *)
(*                                                                         *)
(* A poller's consumers have refresh loops of their own, which take them   *)
(* anywhere up to the latest version at any time.  They never fail to      *)
(* decode a blob (Serialization.tla: JSON never does, and the Cap'n Proto  *)
(* consumers are asked last), so that a refresh fails only when there is a *)
(* gap in its plan.                                                        *)
(***************************************************************************)
EXTENDS SharedStore

CONSTANTS
  Settings,         \* records: the program, the strategy of every poller, the
                    \* announcer, how often the producers make snapshots
  WriterRounds, ReaderRounds,       \* 10 and 6 in the demo
  InitialBackoff, MaxBackoff,       \* 100 ms and 5 s
  ErrorBound                        \* bound on the errors of a reader

VARIABLES
  setting,
  writerRounds,   \* writer -> "initial", the rounds it has completed, or "gone"
  poller,         \* reader -> its local variables and statistics
  ended           \* "no", or what has cancelled the context

readerOwnVars == <<setting, writerRounds, poller, ended>>
readerVars == <<storeVars, readerOwnVars>>

Readers == DOMAIN setting.strategies

(* target = 0: the reader waits for its tick. *)
NewPoller ==
  [target |-> 0, last |-> 0, zeroCopyReads |-> 0, fallbackReads |-> 0,
   errors |-> 0, backoff |-> InitialBackoff, authors |-> {}]

ReadersInit ==
  /\ setting \in Settings
  /\ StoreInit(setting.frequency)
  /\ writerRounds = [w \in Writers |-> IF setting.program = "stress" THEN 0 ELSE -1]
  /\ poller = [r \in Readers |-> NewPoller]
  /\ ended = "no"

-----------------------------------------------------------------------------
(* Writers.  Rounds are -1 before the initial cycle. *)
Gone == WriterRounds + 1

MayWrite(w) == ended = "no" /\ writerRounds[w] < WriterRounds

WriterStores(w) ==
  /\ MayWrite(w)
  /\ StoreBlob(w)
  /\ UNCHANGED readerOwnVars

(* A cycle that returns counts as a round. *)
WriterCounts(w) ==
  /\ Announce(w)
  /\ writerRounds' = [writerRounds EXCEPT ![w] = @ + 1]
  /\ UNCHANGED <<setting, poller, ended>>

(* runWriter returns when its initial cycle fails, and skips other         *)
(* batches; the others go on.                                              *)
RunWriterFails(w) ==
  /\ setting.program = "demo"
  /\ MayWrite(w)
  /\ StoreFails(w)
  /\ writerRounds' = IF writerRounds[w] = -1 THEN [writerRounds EXCEPT ![w] = Gone] ELSE writerRounds
  /\ UNCHANGED <<setting, poller, ended>>

RunHighFrequencyWriterFails(w) ==
  /\ setting.program # "demo"
  /\ MayWrite(w)
  /\ StoreFails(w)
  /\ UNCHANGED readerOwnVars

-----------------------------------------------------------------------------
(***************************************************************************)
(* What a reader tries, one after the other: a refresh of its zero-copy    *)
(* consumer to the version it has seen, of the same consumer to whatever   *)
(* is the latest version by then, of its regular consumer.                 *)
(***************************************************************************)
RunConsumer == <<"zeroCopy", "latest", "regular">>
ProcessNewData == <<"zeroCopy", "regular">>
RunZeroCopyConsumer == <<"zeroCopy">>
RunFallbackConsumer == <<"regular">>
RunAdaptiveConsumer == <<"zeroCopy", "regular">>

Attempts ==
  [demo |-> RunConsumer, production |-> ProcessNewData, zeroCopy |-> RunZeroCopyConsumer,
   fallback |-> RunFallbackConsumer, adaptive |-> RunAdaptiveConsumer]

(* A backoff of at least 2 units grows by half. *)
ASSUME ReadersAssumption ==
  /\ \A s \in Settings :
       /\ s.frequency \in Nat
       /\ \A r \in DOMAIN s.strategies : s.strategies[r] \in DOMAIN Attempts
  /\ InitialBackoff \in Nat /\ MaxBackoff \in Nat
  /\ 2 <= InitialBackoff /\ InitialBackoff < MaxBackoff

AttemptsOf(r) == Attempts[setting.strategies[r]]

Reads(r) == poller[r].zeroCopyReads + poller[r].fallbackReads

(* Production readers go on until the program is stopped. *)
MayRead(r) == ended = "no" /\ (setting.program = "production" \/ Reads(r) < ReaderRounds)

SeesLatest == setting.announcer = "goroutine"

(* The tick: the latest version is new. *)
Poll(r) ==
  /\ MayRead(r) /\ SeesLatest
  /\ poller[r].target = 0
  /\ latest > poller[r].last
  /\ poller' = [poller EXCEPT ![r].target = latest]
  /\ UNCHANGED <<storeVars, setting, writerRounds, ended>>

(* Where an attempt goes: TriggerRefresh asks for the latest version anew. *)
Goal(r, attempt) == IF attempt = "latest" THEN latest ELSE poller[r].target

IncreaseBackoff(d) == IF (d * 3) \div 2 > MaxBackoff THEN MaxBackoff ELSE (d * 3) \div 2

Served(x, attempt, authors) ==
  LET counted == IF attempt = "regular" THEN [x EXCEPT !.fallbackReads = @ + 1]
                 ELSE [x EXCEPT !.zeroCopyReads = @ + 1]
  IN [counted EXCEPT !.last = x.target, !.target = 0, !.backoff = InitialBackoff, !.authors = authors]

Failed(x) == [x EXCEPT !.target = 0, !.errors = @ + 1, !.backoff = IncreaseBackoff(@)]

(* The first attempt that reaches its version serves the reader; its       *)
(* consumers stand anywhere up to the latest version.                      *)
Read(r) ==
  /\ MayRead(r)
  /\ poller[r].target > 0
  /\ \E from \in [{"zeroCopy", "regular"} -> 0..latest] :
       LET at(attempt) == from[IF attempt = "regular" THEN "regular" ELSE "zeroCopy"]
           works == {i \in DOMAIN AttemptsOf(r) :
                       Reaches(at(AttemptsOf(r)[i]), Goal(r, AttemptsOf(r)[i]))}
           first == CHOOSE i \in works : \A j \in works : i <= j
       IN poller' = [poller EXCEPT ![r] =
            IF works = {} THEN Failed(@)
            ELSE LET attempt == AttemptsOf(r)[first]
                 IN Served(@, attempt, AuthorsOfPlan(at(attempt), Goal(r, attempt)))]
  /\ UNCHANGED <<storeVars, setting, writerRounds, ended>>

(* "unsupported announcer type": an error at every tick. *)
ProcessNewDataFails(r) ==
  /\ setting.program = "production" /\ ~SeesLatest
  /\ MayRead(r)
  /\ poller[r].errors < ErrorBound
  /\ poller' = [poller EXCEPT ![r] = Failed(@)]
  /\ UNCHANGED <<storeVars, setting, writerRounds, ended>>

-----------------------------------------------------------------------------
(* The demo's reporter cancels when every writer has counted its initial   *)
(* and all further versions and every reader all its reads.                *)
ReportStatistics ==
  /\ setting.program = "demo" /\ ended = "no"
  /\ \A w \in Writers : writerRounds[w] = WriterRounds
  /\ \A r \in Readers : Reads(r) >= ReaderRounds
  /\ ended' = "report"
  /\ UNCHANGED <<storeVars, setting, writerRounds, poller>>

(* The context times out, or is cancelled by a signal.  The stress test    *)
(* has no other end: the wait group counts a goroutine that never leaves.  *)
TimeOut ==
  /\ ended = "no"
  /\ ended' = "timeout"
  /\ UNCHANGED <<storeVars, setting, writerRounds, poller>>

ReadersNext ==
  \/ \E w \in Writers :
       WriterStores(w) \/ WriterCounts(w) \/ RunWriterFails(w) \/ RunHighFrequencyWriterFails(w)
  \/ \E r \in Readers : Poll(r) \/ Read(r) \/ ProcessNewDataFails(r)
  \/ ReportStatistics \/ TimeOut

ReadersSpec == ReadersInit /\ [][ReadersNext]_readerVars

-----------------------------------------------------------------------------
(***************************************************************************)
(* The fallbacks of the readers are never used: whichever version a reader *)
(* has seen, its first attempt reaches it, although the writers fail,      *)
(* stand at different versions and overwrite each other's blobs, and its   *)
(* consumer may stand anywhere.  So every read of a new version counts,    *)
(* none is tried again, and errors come from the announcer's type only.    *)
(***************************************************************************)
EveryPollIsServed ==
  \A r \in Readers :
    /\ SeesLatest => poller[r].errors = 0 /\ poller[r].backoff = InitialBackoff
    /\ setting.strategies[r] # "fallback" => poller[r].fallbackReads = 0
    /\ poller[r].errors > 0 => poller[r].backoff \in (InitialBackoff + 1)..MaxBackoff
    /\ Reads(r) <= poller[r].last /\ poller[r].last <= latest

(***************************************************************************)
(* The demo's and the stress test's banners: writers do not overwrite each *)
(* other, that is, what a reader applies is of one writer.                 *)
(***************************************************************************)
ReadsAreOneWriters == \A r \in Readers : Cardinality(poller[r].authors) <= 1

(***************************************************************************)
(* The demo ends by itself: if writers and readers go on, the reporter     *)
(* finds them done before the context times out.                           *)
(***************************************************************************)
DemoCompletes ==
  ~(/\ setting.program = "demo" /\ failures = 0
    /\ \A w \in Writers : writerRounds[w] = WriterRounds
    /\ \E r \in Readers : poller[r].target = 0 /\ latest = poller[r].last /\ Reads(r) < ReaderRounds)
=============================================================================
