----------------------------- MODULE S3BlobStore -----------------------------
(***************************************************************************)
(* blob/s3_store.go: every process has an S3BlobStore of its own, a cache  *)
(* in front of the one bucket.  Store and RemoveSnapshot change the cache  *)
(* first and the bucket afterwards, a retrieval that misses the cache asks *)
(* the bucket and then fills the cache; s.mu is held for the cache alone,  *)
(* so that each of these is a step, interleaved with those of all threads  *)
(* of all processes.  Every access to the bucket may fail.                 *)
(*                                                                         *)
(* Of a blob the bucket keeps the bytes alone.  The methods of             *)
(* InMemoryBlobStore (blob/blob.go) are those of a cache without a bucket. *)
(***************************************************************************)
EXTENDS Integers, FiniteSets

CONSTANTS
  Processes, Threads,
  Home,          \* the process of a thread
  MaxVersion,
  NoBlob         \* no blob, no bytes

ASSUME StoreAssumption ==
  /\ Home \in [Threads -> Processes]
  /\ MaxVersion \in Nat \ {0}

Versions == 1..MaxVersion
BlobTypes == {"snapshot", "delta", "reverse"}

(* Slip: a delta is named by the version it leads to (RefreshEndsAtTarget). *)
ObjectNameByVersion(blob) == [type |-> blob.type, version |-> blob.version]

(* getObjectName: the version that identifies a blob is that of a          *)
(* snapshot, the one a delta starts from, or the one a reverse delta leads *)
(* to.                                                                     *)
ObjectName(blob) ==
  [type |-> blob.type,
   version |-> IF blob.type = "snapshot" THEN blob.version
               ELSE IF blob.type = "delta" THEN blob.from ELSE blob.to]

Names == [type : BlobTypes, version : 0..MaxVersion]

VARIABLES
  bucket,        \* object name -> bytes
  cache,         \* process -> object name -> blob
  thread         \* thread -> its call of the store

storeVars == <<bucket, cache, thread>>

NoCall == [pc |-> "idle", name |-> [type |-> "snapshot", version |-> 0], blob |-> NoBlob]

StoreInit ==
  /\ bucket = [n \in Names |-> NoBlob]
  /\ cache = [p \in Processes |-> [n \in Names |-> NoBlob]]
  /\ thread = [t \in Threads |-> NoCall]

Goto(t, pc, name, blob) ==
  thread' = [thread EXCEPT ![t] = [pc |-> pc, name |-> name, blob |-> blob]]

InCache(t, name, blob) == cache' = [cache EXCEPT ![Home[t]][name] = blob]

-----------------------------------------------------------------------------
Store(t, blob) ==
  /\ thread[t].pc = "idle"
  /\ InCache(t, ObjectName(blob), blob)
  /\ Goto(t, "put", ObjectName(blob), blob)
  /\ UNCHANGED bucket

PutSucceeds(t) ==
  /\ thread[t].pc = "put"
  /\ bucket' = [bucket EXCEPT ![thread[t].name] = thread[t].blob.data]
  /\ Goto(t, "done", thread[t].name, thread[t].blob)
  /\ UNCHANGED cache

(* A warning; Store returns nil all the same. *)
PutFails(t) ==
  /\ thread[t].pc = "put"
  /\ Goto(t, "done", thread[t].name, thread[t].blob)
  /\ UNCHANGED <<bucket, cache>>

-----------------------------------------------------------------------------
Retrieve(t, name) ==
  /\ thread[t].pc = "idle"
  /\ Goto(t, IF cache[Home[t]][name] # NoBlob THEN "done" ELSE "get",
          name, cache[Home[t]][name])
  /\ UNCHANGED <<bucket, cache>>

(* Slip: the versions of a delta are guessed from its name                 *)
(* (ReadsArePublished).                                                    *)
GuessedBack(name, bytes) ==
  [type |-> name.type, version |-> name.version, from |-> 0,
   to |-> name.version + 1, data |-> bytes]

(* The blob made of the bytes has the version of the name and neither      *)
(* FromVersion nor ToVersion.                                              *)
ReadBack(name, bytes) ==
  [type |-> name.type, version |-> name.version, from |-> 0, to |-> 0, data |-> bytes]

GetSucceeds(t) ==
  /\ thread[t].pc = "get"
  /\ bucket[thread[t].name] # NoBlob
  /\ Goto(t, "fill", thread[t].name, ReadBack(thread[t].name, bucket[thread[t].name]))
  /\ UNCHANGED <<bucket, cache>>

(* There is no such object, or the bucket cannot be reached. *)
GetFails(t) ==
  /\ thread[t].pc = "get"
  /\ Goto(t, "done", thread[t].name, NoBlob)
  /\ UNCHANGED <<bucket, cache>>

FillCache(t) ==
  /\ thread[t].pc = "fill"
  /\ InCache(t, thread[t].name, thread[t].blob)
  /\ Goto(t, "done", thread[t].name, thread[t].blob)
  /\ UNCHANGED bucket

-----------------------------------------------------------------------------
(* Slip: the cache is left alone (RemovedStaysRemoved). *)
RemoveObjectOnly(t, version) ==
  /\ thread[t].pc = "idle"
  /\ Goto(t, "remove", [type |-> "snapshot", version |-> version], NoBlob)
  /\ UNCHANGED <<bucket, cache>>

RemoveSnapshot(t, version) ==
  LET name == [type |-> "snapshot", version |-> version] IN
  /\ thread[t].pc = "idle"
  /\ InCache(t, name, NoBlob)
  /\ Goto(t, "remove", name, NoBlob)
  /\ UNCHANGED bucket

RemoveSucceeds(t) ==
  /\ thread[t].pc = "remove"
  /\ bucket' = [bucket EXCEPT ![thread[t].name] = NoBlob]
  /\ Goto(t, "done", thread[t].name, NoBlob)
  /\ UNCHANGED cache

(* RemoveSnapshot returns an error; the cache has forgotten the snapshot. *)
RemoveFails(t) ==
  /\ thread[t].pc = "remove"
  /\ Goto(t, "done", thread[t].name, NoBlob)
  /\ UNCHANGED <<bucket, cache>>

(* ListVersions looks at the process's own cache, never at the bucket. *)
ListVersions(p) ==
  {v \in Versions : cache[p][[type |-> "snapshot", version |-> v]] # NoBlob}

(* A process ends and starts again with an empty cache. *)
Restart(p) ==
  /\ cache' = [cache EXCEPT ![p] = [n \in Names |-> NoBlob]]
  /\ thread' = [t \in Threads |-> IF Home[t] = p THEN NoCall ELSE thread[t]]
  /\ UNCHANGED bucket

(* What a call does between its start and its return. *)
CallSucceeds(t) == PutSucceeds(t) \/ GetSucceeds(t) \/ FillCache(t) \/ RemoveSucceeds(t)
CallFails(t) == PutFails(t) \/ GetFails(t) \/ RemoveFails(t)

(* The caller has the result. *)
Return(t) ==
  /\ thread[t].pc = "done"
  /\ thread' = [thread EXCEPT ![t] = NoCall]
  /\ UNCHANGED <<bucket, cache>>
=============================================================================
