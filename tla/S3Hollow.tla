------------------------------ MODULE S3Hollow ------------------------------
(***************************************************************************)
(* A producer, consumers and somebody who removes snapshots, in several    *)
(* processes around one bucket: S3BlobStore.tla composed with the parts of *)
(* producer/producer.go and consumer/consumer.go that call a blob store.   *)
(*                                                                         *)
(* Producer.tla and Hollow.tla model those programs in full, over a store  *)
(* whose operations are atomic and never forget anything.  Here a cycle is *)
(* one that goes well, a consumer has one caller and nobody's delta is     *)
(* empty; what is new is every step of the store, the processes that fail  *)
(* and start again, and a bucket that cannot be reached.                   *)
(***************************************************************************)
EXTENDS S3BlobStore, DeltaSet

CONSTANTS
  Contents,                    \* what a write state can hold: lists of records
  NumStatesBetweenSnapshots,
  MaxRecords,                  \* bound: a consumer with more does not refresh
  Producer, Janitor,           \* threads; all others are consumers
  Situations                   \* who refreshes, and what goes wrong

Consumers == Threads \ {Producer, Janitor}

Troubles ==
  { "crash",     \* processes end and start again
    "outage",    \* accesses to the bucket fail
    "remove" }   \* snapshots are removed

ASSUME S3Assumption ==
  /\ {Producer, Janitor} \subseteq Threads
  /\ NumStatesBetweenSnapshots \in Nat \ {0}
  /\ MaxRecords \in Nat
  /\ Situations \subseteq [consumers : SUBSET Consumers, troubles : SUBSET Troubles]

(* A change of records that is applied as it was computed gives the new    *)
(* records.  (Lists that shrink in the middle are not such, README.)       *)
DeltasApply == \A old, new \in Contents : ApplyDelta(old, DeltaOfPlain(old, new)) = new

(* What can be in a blob, and that no blob is none. *)
Changes == {DeltaOfPlain(old, new) : old, new \in Contents}
BlobsOf(data) ==
  [type : BlobTypes, version : 0..MaxVersion, from : 0..MaxVersion, to : 0..MaxVersion,
   data : data]

ASSUME BlobAssumption == NoBlob \notin BlobsOf(Contents) /\ NoBlob \notin BlobsOf(Changes)

VARIABLES
  producer,      \* the producer's version counters, and whether it runs
  published,     \* version -> content of the last cycle that took the version
  announced,     \* the version the consumers are told
  consumer,      \* consumer -> its read state and its running refresh
  removal,       \* the version being removed, and whether something interferes
  removed,       \* versions removed while nothing interfered
  situation

flowVars == <<producer, published, announced, consumer, removal, removed, situation>>
s3Vars == <<storeVars, flowVars>>

NewProducer == [pc |-> "ready", currentVersion |-> 0, lastSnapshotVersion |-> 0]

NewConsumer == [pc |-> "idle", target |-> 0, from |-> 0, cur |-> 0, chain |-> <<>>,
                readVersion |-> 0, readContent |-> <<>>]

NoRemoval == [version |-> 0, disturbed |-> FALSE]

S3Init ==
  /\ StoreInit
  /\ producer = NewProducer
  /\ published = [v \in Versions |-> <<>>]
  /\ announced = 0
  /\ consumer = [c \in Consumers |-> NewConsumer]
  /\ removal = NoRemoval
  /\ removed = {}
  /\ situation \in Situations

-----------------------------------------------------------------------------
ShouldCreateSnapshot(version) ==
  \/ producer.lastSnapshotVersion = 0
  \/ version - producer.lastSnapshotVersion >= NumStatesBetweenSnapshots

(* RunCycle with content that has changed, up to the call of Store.        *)
RunCycle(content) ==
  LET old == producer.currentVersion
      new == old + 1
      isSnapshot == ShouldCreateSnapshot(new)
  IN /\ producer.pc = "ready"
     /\ new \in Versions
     /\ producer.lastSnapshotVersion # 0 => content # published[old]
     /\ Store(Producer,
          IF isSnapshot
          THEN [type |-> "snapshot", version |-> new, from |-> 0, to |-> new, data |-> content]
          ELSE [type |-> "delta", version |-> new, from |-> old, to |-> new,
                data |-> DeltaOfPlain(published[old], content)])
     /\ producer' = [producer EXCEPT !.pc = "storing",
                       !.lastSnapshotVersion = IF isSnapshot THEN new ELSE @]
     /\ published' = [published EXCEPT ![new] = content]
     /\ UNCHANGED <<announced, consumer, removal, removed, situation>>

(* Store is back: the version is current, and announced. *)
Stored ==
  /\ producer.pc = "storing"
  /\ Return(Producer)
  /\ producer' = [producer EXCEPT !.pc = "ready", !.currentVersion = @ + 1]
  /\ announced' = producer.currentVersion + 1
  /\ UNCHANGED <<published, consumer, removal, removed, situation>>

(* A producer that was started again restores what was announced; without  *)
(* a snapshot of it there it stays as it is.                               *)
CallRestore ==
  /\ producer.pc = "new"
  /\ IF announced = 0
     THEN producer' = [producer EXCEPT !.pc = "ready"] /\ UNCHANGED storeVars
     ELSE /\ Retrieve(Producer, [type |-> "snapshot", version |-> announced])
          /\ producer' = [producer EXCEPT !.pc = "restoring"]
  /\ UNCHANGED <<published, announced, consumer, removal, removed, situation>>

Restore ==
  /\ producer.pc = "restoring"
  /\ Return(Producer)
  /\ producer' = IF thread[Producer].blob = NoBlob THEN [producer EXCEPT !.pc = "stopped"]
                 ELSE [producer EXCEPT !.pc = "ready", !.currentVersion = announced]
  /\ UNCHANGED <<published, announced, consumer, removal, removed, situation>>

-----------------------------------------------------------------------------
ConsumerStep(c, new) ==
  /\ consumer' = [consumer EXCEPT ![c] = new]
  /\ UNCHANGED <<producer, published, announced, removal, removed, situation>>

(* TriggerRefreshTo the announced version, or TriggerRefresh of a consumer *)
(* without a cursor to the newest version its own store lists.  (A         *)
(* consumer that a delta took to version 0 applies it again the next time, *)
(* so that its records grow without end.)                                  *)
Targets(c) ==
  LET listed == ListVersions(Home[c])
  IN {announced} \cup IF listed = {} THEN {} ELSE {Max(listed)}

BeginRefresh(c, target) ==
  LET r == consumer[c] IN
  /\ c \in situation.consumers
  /\ r.pc = "idle"
  /\ target # r.readVersion
  /\ Len(r.readContent) <= MaxRecords
  /\ ConsumerStep(c, [r EXCEPT !.pc = "plan", !.target = target, !.from = r.readVersion,
                               !.cur = target, !.chain = <<>>])
  /\ UNCHANGED storeVars

(* planBlobs asks for a snapshot, then for a delta, one call after the     *)
(* other.                                                                  *)
AskForSnapshot(c) ==
  LET r == consumer[c] IN
  /\ r.pc = "plan"
  /\ r.cur > r.from
  /\ Retrieve(c, [type |-> "snapshot", version |-> r.cur])
  /\ ConsumerStep(c, [r EXCEPT !.pc = "snapshot"])

GetSnapshot(c) ==
  LET r == consumer[c]  blob == thread[c].blob IN
  /\ r.pc = "snapshot"
  /\ Return(c)
  /\ ConsumerStep(c, IF blob = NoBlob THEN [r EXCEPT !.pc = "noSnapshot"]
                     ELSE [r EXCEPT !.pc = "apply", !.chain = <<blob>> \o @])

AskForDelta(c) ==
  LET r == consumer[c] IN
  /\ r.pc = "noSnapshot"
  /\ Retrieve(c, [type |-> "delta", version |-> r.cur - 1])
  /\ ConsumerStep(c, [r EXCEPT !.pc = "delta"])

(* The walk goes on where the delta says it starts; no delta is a gap, and *)
(* the refresh fails.                                                      *)
GetDelta(c) ==
  LET r == consumer[c]  blob == thread[c].blob IN
  /\ r.pc = "delta"
  /\ Return(c)
  /\ ConsumerStep(c, IF blob = NoBlob THEN [r EXCEPT !.pc = "idle", !.chain = <<>>]
                     ELSE [r EXCEPT !.pc = "plan", !.chain = <<blob>> \o @, !.cur = blob.from])

PlanReached(c) ==
  LET r == consumer[c] IN
  /\ r.pc = "plan"
  /\ r.cur <= r.from
  /\ ConsumerStep(c, [r EXCEPT !.pc = "apply"])
  /\ UNCHANGED storeVars

(* loadSnapshot takes the blob's version, applyDelta its ToVersion. *)
Applied(r, blob) ==
  IF blob.type = "snapshot"
  THEN [r EXCEPT !.readVersion = blob.version, !.readContent = blob.data]
  ELSE [r EXCEPT !.readVersion = blob.to, !.readContent = ApplyDelta(@, blob.data)]

(* The blobs are applied one by one, without a further call of the store. *)
ApplyBlob(c) ==
  LET r == consumer[c] IN
  /\ r.pc = "apply" /\ r.chain # <<>>
  /\ ConsumerStep(c, [Applied(r, Head(r.chain)) EXCEPT !.chain = Tail(@)])
  /\ UNCHANGED storeVars

FinishRefresh(c) ==
  LET r == consumer[c] IN
  /\ r.pc = "apply" /\ r.chain = <<>>
  /\ ConsumerStep(c, [r EXCEPT !.pc = "idle"])
  /\ UNCHANGED storeVars

-----------------------------------------------------------------------------
(* Another thread of this process is about to put a blob of this name into *)
(* the cache, or asks for one while it is being removed.                   *)
AskedFor(version) ==
  \E t \in Threads \ {Janitor} :
    /\ Home[t] = Home[Janitor]
    /\ thread[t].pc \in {"put", "get", "fill"}
    /\ thread[t].name = [type |-> "snapshot", version |-> version]

CallRemove(version) ==
  /\ "remove" \in situation.troubles
  /\ version <= announced
  /\ RemoveSnapshot(Janitor, version)
  /\ removal' = [version |-> version, disturbed |-> AskedFor(version)]
  /\ UNCHANGED <<producer, published, announced, consumer, removed, situation>>

(* An error says that the object is still there. *)
Removed ==
  /\ removal # NoRemoval
  /\ Return(Janitor)
  /\ removal' = NoRemoval
  /\ removed' = IF removal.disturbed THEN removed ELSE removed \cup {removal.version}
  /\ UNCHANGED <<producer, published, announced, consumer, situation>>

-----------------------------------------------------------------------------
(* Without an outage only what is not there cannot be had. *)
MayFail(t) ==
  \/ "outage" \in situation.troubles
  \/ thread[t].pc = "get" /\ bucket[thread[t].name] = NoBlob

(* A removal that leaves the object where it is does not count, nor one    *)
(* that another thread of the process meets.                               *)
StoreStep(t) ==
  /\ CallSucceeds(t) \/ (MayFail(t) /\ CallFails(t))
  /\ removal' = [removal EXCEPT !.disturbed =
                   \/ @
                   \/ thread[t].pc = "remove" /\ bucket'[thread[t].name] # NoBlob
                   \/ removal # NoRemoval /\ AskedFor(removal.version)]
  /\ UNCHANGED <<producer, published, announced, consumer, removed, situation>>

Crash(p) ==
  /\ "crash" \in situation.troubles
  /\ Restart(p)
  /\ producer' = IF Home[Producer] = p THEN [NewProducer EXCEPT !.pc = "new"] ELSE producer
  /\ consumer' = [c \in Consumers |-> IF Home[c] = p THEN NewConsumer ELSE consumer[c]]
  /\ UNCHANGED <<published, announced, removal, removed, situation>>

S3Next ==
  \/ \E content \in Contents : RunCycle(content)
  \/ Stored \/ CallRestore \/ Restore
  \/ \E c \in Consumers :
       \/ \E target \in Targets(c) : BeginRefresh(c, target)
       \/ AskForSnapshot(c) \/ GetSnapshot(c) \/ AskForDelta(c) \/ GetDelta(c)
       \/ PlanReached(c) \/ ApplyBlob(c) \/ FinishRefresh(c)
  \/ \E v \in Versions : CallRemove(v)
  \/ Removed
  \/ \E t \in Threads : StoreStep(t)
  \/ \E p \in Processes : Crash(p)

S3Spec == S3Init /\ [][S3Next]_s3Vars

-----------------------------------------------------------------------------
(***************************************************************************)
(* Whatever a consumer shows as version v is what was last published as v, *)
(* although blobs read back from the bucket have lost their versions: such *)
(* a delta ends the plan early and takes the consumer to version 0, never  *)
(* to a version it has not got all changes of.                             *)
(***************************************************************************)
ReadsArePublished ==
  \A c \in Consumers :
    consumer[c].readVersion > 0 =>
      consumer[c].readContent = published[consumer[c].readVersion]

(***************************************************************************)
(* A refresh to a newer version that returns nil ends at that version.     *)
(* Only a consumer whose process has not stored the deltas itself may end  *)
(* at version 0 instead.                                                   *)
(***************************************************************************)
RefreshEndsAtTarget ==
  [][\A c \in Consumers :
       LET r == consumer[c] IN
       FinishRefresh(c) /\ r.target > r.from =>
         \/ r.readVersion = r.target
         \/ /\ r.readVersion = 0
            /\ Home[c] # Home[Producer] \/ "crash" \in situation.troubles]_s3Vars

(***************************************************************************)
(* A snapshot that RemoveSnapshot removed, while no other thread of the    *)
(* process was storing it or asking for it, is gone from the bucket and    *)
(* from the process's cache, whatever is retrieved afterwards.             *)
(***************************************************************************)
RemovedStaysRemoved ==
  \A v \in removed :
    LET name == [type |-> "snapshot", version |-> v]
    IN bucket[name] = NoBlob /\ cache[Home[Janitor]][name] = NoBlob
=============================================================================
