--------------------------- MODULE S3Hollow_proofs ---------------------------
(***************************************************************************)
(* What RemoveSnapshot has removed stays removed, for any processes,       *)
(* threads and versions, whatever crashes and whichever accesses to the    *)
(* bucket fail; what consumers read is what was published, and a refresh   *)
(* ends where it should, if crashes do not come together with the rest.    *)
(***************************************************************************)
EXTENDS S3Hollow, DeltaSet_proofs

(* Whoever removes snapshots is another goroutine than RunCycle's. *)
OwnJanitor == Producer # Janitor

SnapshotOf(v) == [type |-> "snapshot", version |-> v]

StoreTypes ==
  /\ bucket = [n \in Names |-> bucket[n]]
  /\ cache = [p \in Processes |-> cache[p]]
  /\ \A p \in Processes : cache[p] = [n \in Names |-> cache[p][n]]

CallsOf(t) ==
  IF t = Producer THEN {"idle", "put", "get", "fill", "done"}
  ELSE IF t = Janitor THEN {"idle", "remove", "done"}
  ELSE {"idle", "get", "fill", "done"}

(* Each thread makes its own calls. *)
ThreadInv ==
  /\ thread = [t \in Threads |-> thread[t]]
  /\ \A t \in Threads : thread[t].pc \in CallsOf(t)

(* A producer that runs stands at the announced version, and stores only   *)
(* snapshots of newer ones.                                                *)
ProducerInv ==
  /\ announced \in 0..MaxVersion
  /\ producer = [pc |-> producer.pc, currentVersion |-> producer.currentVersion,
                 lastSnapshotVersion |-> producer.lastSnapshotVersion]
  /\ producer.pc \in {"ready", "storing", "new", "restoring", "stopped"}
  /\ producer.pc \in {"ready", "storing"} => producer.currentVersion = announced
  /\ producer.pc = "new" => producer.currentVersion = 0
  /\ thread[Producer].pc = "put" => producer.pc = "storing"
  /\ producer.pc = "storing" =>
       /\ announced < MaxVersion
       /\ thread[Producer].name.type = "snapshot" => thread[Producer].name.version = announced + 1
       /\ thread[Producer].pc # "idle"
  /\ thread[Producer].pc # "idle" => producer.pc \in {"storing", "restoring"}

(* Nothing in this cache, and nothing on its way there. *)
Uncached(v) ==
  /\ cache[Home[Janitor]][SnapshotOf(v)] = NoBlob
  /\ \A t \in Threads :
       Home[t] = Home[Janitor] /\ thread[t].name = SnapshotOf(v) => thread[t].pc # "fill"

Gone(v) == bucket[SnapshotOf(v)] = NoBlob /\ Uncached(v)

(* As long as nothing interferes, a removal has emptied the cache, and     *)
(* when it is over the bucket.                                             *)
RemovalInv ==
  /\ removal = [version |-> removal.version, disturbed |-> removal.disturbed]
  /\ thread[Janitor].pc # "idle" =>
       /\ removal.version \in 1..announced
       /\ thread[Janitor].name = SnapshotOf(removal.version)
       /\ ~removal.disturbed => Uncached(removal.version)
       /\ ~removal.disturbed /\ thread[Janitor].pc = "done" => Gone(removal.version)

RemovedInv == \A v \in removed : v \in 1..announced /\ Gone(v)

S3Inv == StoreTypes /\ ThreadInv /\ ProducerInv /\ RemovalInv /\ RemovedInv

LEMMA Surroundings ==
  /\ Producer \in Threads /\ Janitor \in Threads
  /\ Home \in [Threads -> Processes]
  /\ MaxVersion \in Nat
  BY S3Assumption, StoreAssumption

USE Surroundings DEF OwnJanitor

LEMMA SnapshotName ==
  ASSUME NEW v \in Versions
  PROVE  SnapshotOf(v) \in Names
  BY DEF SnapshotOf, Names, BlobTypes, Versions

LEMMA S3InvInit == OwnJanitor /\ S3Init => S3Inv
<1> SUFFICES ASSUME OwnJanitor, S3Init PROVE S3Inv
  OBVIOUS
<1>1. StoreTypes
  BY DEF S3Init, StoreInit, StoreTypes
<1>2. /\ thread = [t \in Threads |-> NoCall]
      /\ Producer \in Threads /\ Janitor \in Threads
      /\ NoCall.pc = "idle"
  BY DEF S3Init, StoreInit, NoCall
<1>3. ThreadInv
  BY <1>2 DEF ThreadInv, CallsOf
<1>4. ProducerInv
  BY <1>2 DEF S3Init, ProducerInv, NewProducer
<1>5. RemovalInv /\ RemovedInv
  BY <1>2 DEF S3Init, RemovalInv, RemovedInv, NoRemoval
<1> QED BY <1>1, <1>3, <1>4, <1>5 DEF S3Inv

(***************************************************************************)
(* Steps of the store                                                      *)
(***************************************************************************)
LEMMA InCacheOnly ==
  ASSUME StoreTypes, NEW t \in Threads, NEW name, NEW blob,
         InCache(t, name, blob), UNCHANGED bucket
  PROVE  /\ StoreTypes'
         /\ \A v \in Versions :
              cache'[Home[Janitor]][SnapshotOf(v)] =
                IF Home[t] = Home[Janitor] /\ name = SnapshotOf(v)
                THEN blob ELSE cache[Home[Janitor]][SnapshotOf(v)]
         /\ \A p \in Processes : \A n \in Names :
              cache'[p][n] = IF p = Home[t] /\ n = name THEN blob ELSE cache[p][n]
<1>1. Home[t] \in Processes /\ Home[Janitor] \in Processes
  OBVIOUS
<1>2. /\ cache' = [p \in Processes |-> cache'[p]]
      /\ \A p \in Processes : cache'[p] = [n \in Names |-> cache'[p][n]]
      /\ \A p \in Processes : \A n \in Names :
           cache'[p][n] = IF p = Home[t] /\ n = name THEN blob ELSE cache[p][n]
  <2>1. PICK q \in Processes : q = Home[t]
    BY <1>1
  <2>2. cache' = [p \in Processes |-> IF p = q THEN [cache[q] EXCEPT ![name] = blob] ELSE cache[p]]
    BY <1>1, <2>1 DEF InCache, StoreTypes
  <2>3. /\ cache' = [p \in Processes |-> cache'[p]]
        /\ cache'[q] = [cache[q] EXCEPT ![name] = blob]
        /\ \A p \in Processes \ {q} : cache'[p] = cache[p]
    BY ONLY <2>1, <2>2
  <2>4. cache'[q] = [n \in Names |-> IF n = name THEN blob ELSE cache[q][n]]
    <3>1. PICK h, k : h = cache[q] /\ k = cache'[q]
      OBVIOUS
    <3>2. h = [n \in Names |-> h[n]]
      BY <2>1, <3>1 DEF StoreTypes
    <3>3. k = [h EXCEPT ![name] = blob]
      BY <2>3, <3>1
    <3>4. k = [n \in Names |-> IF n = name THEN blob ELSE h[n]]
      BY ONLY <3>2, <3>3
    <3> QED BY ONLY <3>1, <3>4
  <2>5. /\ cache'[q] = [n \in Names |-> cache'[q][n]]
        /\ \A n \in Names : cache'[q][n] = IF n = name THEN blob ELSE cache[q][n]
    <3>1. PICK k : k = cache'[q]
      OBVIOUS
    <3>2. k = [n \in Names |-> IF n = name THEN blob ELSE cache[q][n]]
      BY ONLY <2>4, <3>1
    <3>3. /\ k = [n \in Names |-> k[n]]
          /\ \A n \in Names : k[n] = IF n = name THEN blob ELSE cache[q][n]
      BY ONLY <3>2
    <3> QED BY ONLY <3>1, <3>3
  <2>6. ASSUME NEW p \in Processes
        PROVE  /\ cache'[p] = [n \in Names |-> cache'[p][n]]
               /\ \A n \in Names :
                    cache'[p][n] = IF p = Home[t] /\ n = name THEN blob ELSE cache[p][n]
    <3>1. CASE p = q
      BY ONLY <3>1, <2>1, <2>5
    <3>2. CASE p # q
      <4>1. cache'[p] = cache[p]
        BY <3>2, <2>3
      <4>2. cache[p] = [n \in Names |-> cache[p][n]]
        BY DEF StoreTypes
      <4> QED BY ONLY <4>1, <4>2, <3>2, <2>1
    <3> QED BY <3>1, <3>2
  <2> QED BY <2>3, <2>6
<1>3. StoreTypes'
  BY <1>2 DEF StoreTypes
<1> QED BY ONLY <1>1, <1>2, <1>3, SnapshotName

(* Who interferes with a removal when it takes a step. *)
Interferes(t, v) ==
  /\ t # Janitor /\ Home[t] = Home[Janitor]
  /\ thread[t].pc \in {"put", "get", "fill"}
  /\ thread[t].name = SnapshotOf(v)

(* A step inside a call puts nothing back that is gone, and nothing into   *)
(* an empty cache unless its thread interferes.                            *)
LEMMA CallStepKeeps ==
  ASSUME OwnJanitor, StoreTypes, ThreadInv, ProducerInv, NEW t \in Threads,
         CallSucceeds(t) \/ CallFails(t)
  PROVE  /\ StoreTypes' /\ ThreadInv'
         /\ thread'[t].name = thread[t].name
         /\ \A u \in Threads \ {t} : thread'[u] = thread[u]
         /\ thread[t].pc # "idle" /\ thread'[t].pc \in {"fill", "done"}
         /\ thread'[t].pc = "fill" => thread[t].pc = "get"
         /\ \A v \in 1..announced : Gone(v) => Gone(v)'
         /\ \A v \in 1..announced : Uncached(v) /\ ~Interferes(t, v) => Uncached(v)'
<1> PICK name : name = thread[t].name
  OBVIOUS
<1>0. /\ 1..announced \subseteq Versions /\ thread[t].pc \in CallsOf(t)
      /\ "done" \in CallsOf(t)
  BY DEF ProducerInv, Versions, ThreadInv, CallsOf
<1>1. ASSUME NEW blob, Goto(t, "done", name, blob)
      PROVE  /\ ThreadInv' /\ thread'[t].name = name /\ thread'[t].pc = "done"
             /\ \A u \in Threads \ {t} : thread'[u] = thread[u]
  <2>1. thread' = [u \in Threads |->
                     IF u = t THEN [pc |-> "done", name |-> name, blob |-> blob] ELSE thread[u]]
    BY <1>1 DEF Goto, ThreadInv
  <2> QED BY <1>0, <2>1 DEF ThreadInv
<1>2. ASSUME ThreadInv', thread'[t].name = name, thread'[t].pc = "done",
             \A u \in Threads \ {t} : thread'[u] = thread[u], NEW v \in 1..announced,
             cache'[Home[Janitor]][SnapshotOf(v)] = NoBlob, Uncached(v)
      PROVE  Uncached(v)'
  BY <1>2 DEF Uncached
<1>3. CASE PutSucceeds(t)
  <2>1. /\ thread[t].pc = "put" /\ Goto(t, "done", name, thread[t].blob)
        /\ bucket' = [bucket EXCEPT ![name] = thread[t].blob.data] /\ UNCHANGED cache
    BY <1>3 DEF PutSucceeds
  <2>2. t = Producer
    BY <1>0, <2>1 DEF CallsOf
  <2>3. \A v \in 1..announced : name # SnapshotOf(v)
    BY <2>1, <2>2 DEF ProducerInv, SnapshotOf
  <2>4. /\ StoreTypes'
        /\ \A v \in 1..announced : bucket'[SnapshotOf(v)] = bucket[SnapshotOf(v)]
    <3>1. PICK bytes : bucket' = [n \in Names |-> IF n = name THEN bytes ELSE bucket[n]]
      BY <2>1 DEF StoreTypes
    <3> QED BY <1>0, <2>1, <2>3, <3>1, SnapshotName DEF StoreTypes
  <2>5. \A v \in 1..announced : Uncached(v) => Uncached(v)'
    BY <1>1, <1>2, <2>1 DEF Uncached
  <2> QED BY <1>1, <2>1, <2>4, <2>5 DEF Gone
<1>4. CASE PutFails(t) \/ GetFails(t) \/ RemoveFails(t)
  <2>1. PICK blob : Goto(t, "done", name, blob)
    BY <1>4 DEF PutFails, GetFails, RemoveFails
  <2>2. /\ UNCHANGED <<bucket, cache>> /\ thread[t].pc # "idle"
    BY <1>4 DEF PutFails, GetFails, RemoveFails
  <2>3. \A v \in 1..announced : Uncached(v) => Uncached(v)'
    BY <1>1, <1>2, <2>1, <2>2 DEF Uncached
  <2> QED BY <1>1, <2>1, <2>2, <2>3 DEF Gone, StoreTypes
<1>5. CASE GetSucceeds(t)
  <2>1. /\ thread[t].pc = "get" /\ bucket[name] # NoBlob /\ UNCHANGED <<bucket, cache>>
        /\ Goto(t, "fill", name, ReadBack(name, bucket[name]))
    BY <1>5 DEF GetSucceeds
  <2>2. "fill" \in CallsOf(t)
    BY <1>0, <2>1 DEF CallsOf
  <2>3. /\ ThreadInv' /\ thread'[t].name = name /\ thread'[t].pc = "fill"
        /\ \A u \in Threads \ {t} : thread'[u] = thread[u]
    <3>1. PICK blob : thread' = [u \in Threads |->
                     IF u = t THEN [pc |-> "fill", name |-> name, blob |-> blob] ELSE thread[u]]
      BY <2>1 DEF Goto, ThreadInv
    <3> QED BY <2>2, <3>1 DEF ThreadInv
  <2>4. t # Janitor
    BY <1>0, <2>1 DEF CallsOf
  <2>5. ASSUME NEW v \in 1..announced, Uncached(v), ~Interferes(t, v) \/ bucket[SnapshotOf(v)] = NoBlob
        PROVE  Uncached(v)'
    <3>1. Home[t] # Home[Janitor] \/ name # SnapshotOf(v)
      BY <2>1, <2>4, <2>5 DEF Interferes
    <3> QED BY <2>1, <2>3, <2>5, <3>1 DEF Uncached
  <2> QED BY <2>1, <2>3, <2>5 DEF Gone, StoreTypes
<1>6. CASE FillCache(t)
  <2>1. /\ thread[t].pc = "fill" /\ UNCHANGED bucket
        /\ InCache(t, name, thread[t].blob) /\ Goto(t, "done", name, thread[t].blob)
    BY <1>6 DEF FillCache
  <2>2. /\ StoreTypes'
        /\ \A v \in Versions :
              cache'[Home[Janitor]][SnapshotOf(v)] =
                IF Home[t] = Home[Janitor] /\ name = SnapshotOf(v)
                THEN thread[t].blob ELSE cache[Home[Janitor]][SnapshotOf(v)]
    BY <2>1, InCacheOnly
  <2>3. ASSUME NEW v \in 1..announced, Uncached(v)
        PROVE  Uncached(v)'
    <3>1. ~(Home[t] = Home[Janitor] /\ name = SnapshotOf(v))
      BY <2>1, <2>3 DEF Uncached
    <3>2. cache'[Home[Janitor]][SnapshotOf(v)] = NoBlob
      BY <1>0, <2>2, <2>3, <3>1 DEF Uncached
    <3> QED BY <1>1, <1>2, <2>1, <2>3, <3>2
  <2> QED BY <1>1, <2>1, <2>2, <2>3 DEF Gone
<1>7. CASE RemoveSucceeds(t)
  <2>1. /\ thread[t].pc = "remove" /\ Goto(t, "done", name, NoBlob)
        /\ bucket' = [bucket EXCEPT ![name] = NoBlob] /\ UNCHANGED cache
    BY <1>7 DEF RemoveSucceeds
  <2>2. /\ StoreTypes'
        /\ \A v \in 1..announced : bucket[SnapshotOf(v)] = NoBlob => bucket'[SnapshotOf(v)] = NoBlob
    <3>1. bucket' = [n \in Names |-> IF n = name THEN NoBlob ELSE bucket[n]]
      BY <2>1 DEF StoreTypes
    <3> QED BY <1>0, <2>1, <3>1, SnapshotName DEF StoreTypes
  <2>3. \A v \in 1..announced : Uncached(v) => Uncached(v)'
    BY <1>1, <1>2, <2>1 DEF Uncached
  <2> QED BY <1>1, <2>1, <2>2, <2>3 DEF Gone
<1> QED BY <1>3, <1>4, <1>5, <1>6, <1>7 DEF CallSucceeds, CallFails

(* So does the start of a retrieval, *)
LEMMA RetrieveKeeps ==
  ASSUME OwnJanitor, StoreTypes, ThreadInv, NEW t \in Threads, t # Janitor, NEW name,
         Retrieve(t, name)
  PROVE  /\ StoreTypes' /\ ThreadInv'
         /\ \A u \in Threads \ {t} : thread'[u] = thread[u]
         /\ thread[t].pc = "idle" /\ thread'[t].pc \in {"done", "get"}
         /\ \A v \in Versions : Gone(v) => Gone(v)'
         /\ \A v \in Versions : Uncached(v) => Uncached(v)'
<1>1. PICK pc, blob : /\ pc \in {"done", "get"}
                      /\ Goto(t, pc, name, blob)
  BY DEF Retrieve
<1>2. thread[t].pc = "idle" /\ UNCHANGED <<bucket, cache>>
  BY DEF Retrieve
<1>3. thread' = [u \in Threads |->
                   IF u = t THEN [pc |-> pc, name |-> name, blob |-> blob] ELSE thread[u]]
  BY <1>1 DEF Goto, ThreadInv
<1>4. pc \in CallsOf(t)
  BY <1>1 DEF CallsOf
<1>5. ThreadInv' /\ thread'[t].pc = pc /\ \A u \in Threads \ {t} : thread'[u] = thread[u]
  BY <1>3, <1>4 DEF ThreadInv
<1>6. \A v \in Versions : Uncached(v) => Uncached(v)'
  BY <1>1, <1>2, <1>5 DEF Uncached
<1> QED BY <1>1, <1>2, <1>5, <1>6 DEF Gone, StoreTypes

(* the return from a call, *)
LEMMA ReturnKeeps ==
  ASSUME StoreTypes, ThreadInv, NEW t \in Threads, Return(t)
  PROVE  /\ StoreTypes' /\ ThreadInv'
         /\ \A u \in Threads \ {t} : thread'[u] = thread[u]
         /\ thread[t].pc = "done" /\ thread'[t].pc = "idle"
         /\ \A v \in Versions : Gone(v) => Gone(v)'
         /\ \A v \in Versions : Uncached(v) => Uncached(v)'
<1>1. thread[t].pc = "done" /\ UNCHANGED <<bucket, cache>>
  BY DEF Return
<1>2. thread' = [u \in Threads |-> IF u = t THEN NoCall ELSE thread[u]]
  BY DEF Return, ThreadInv
<1>3. "idle" \in CallsOf(t) /\ NoCall.pc = "idle"
  BY DEF CallsOf, NoCall
<1>4. ThreadInv' /\ thread'[t].pc = "idle" /\ \A u \in Threads \ {t} : thread'[u] = thread[u]
  BY <1>2, <1>3 DEF ThreadInv
<1>5. \A v \in Versions : Uncached(v) => Uncached(v)'
  BY <1>1, <1>4 DEF Uncached
<1> QED BY <1>1, <1>4, <1>5 DEF Gone, StoreTypes

(* the restart of a process, *)
LEMMA RestartKeeps ==
  ASSUME StoreTypes, ThreadInv, NEW p \in Processes, Restart(p)
  PROVE  /\ StoreTypes' /\ ThreadInv'
         /\ \A t \in Threads : thread'[t] = IF Home[t] = p THEN NoCall ELSE thread[t]
         /\ NoCall.pc = "idle"
         /\ \A v \in Versions : Gone(v) => Gone(v)'
         /\ \A v \in Versions : Uncached(v) => Uncached(v)'
<1>1. /\ bucket' = bucket
      /\ thread' = [t \in Threads |-> IF Home[t] = p THEN NoCall ELSE thread[t]]
  BY DEF Restart
<1>2. cache' = [q \in Processes |-> IF q = p THEN [n \in Names |-> NoBlob] ELSE cache[q]]
  BY DEF Restart, StoreTypes
<1>3. NoCall.pc = "idle" /\ \A t \in Threads : "idle" \in CallsOf(t)
  BY DEF CallsOf, NoCall
<1>4. ThreadInv'
  BY <1>1, <1>3 DEF ThreadInv
<1>5. StoreTypes'
  <2>1. cache' = [q \in Processes |-> cache'[q]]
    BY <1>2
  <2>2. ASSUME NEW q \in Processes PROVE cache'[q] = [n \in Names |-> cache'[q][n]]
    <3>1. CASE q = p
      BY <1>2, <3>1
    <3>2. CASE q # p
      <4>1. cache'[q] = cache[q]
        BY <1>2, <3>2
      <4> QED BY <4>1 DEF StoreTypes
    <3> QED BY <3>1, <3>2
  <2> QED BY <1>1, <2>1, <2>2 DEF StoreTypes
<1>6. ASSUME NEW v \in Versions, Uncached(v) PROVE Uncached(v)'
  <2>1. cache'[Home[Janitor]][SnapshotOf(v)] = NoBlob
    BY <1>2, <1>6, SnapshotName DEF Uncached
  <2> QED BY <1>1, <1>3, <1>6, <2>1 DEF Uncached
<1> QED BY <1>1, <1>3, <1>4, <1>5, <1>6 DEF Gone

(* and the start of a Store, unless it is of the snapshot itself. *)
LEMMA StoreKeeps ==
  ASSUME OwnJanitor, StoreTypes, ThreadInv, NEW blob, Store(Producer, blob)
  PROVE  /\ StoreTypes' /\ ThreadInv'
         /\ \A u \in Threads \ {Producer} : thread'[u] = thread[u]
         /\ thread[Producer].pc = "idle" /\ thread'[Producer].pc = "put"
         /\ thread'[Producer].name = ObjectName(blob)
         /\ \A v \in Versions : ObjectName(blob) # SnapshotOf(v) =>
              /\ Gone(v) => Gone(v)'
              /\ Uncached(v) => Uncached(v)'
<1>1. PICK name : name = ObjectName(blob)
  OBVIOUS
<1>2. /\ thread[Producer].pc = "idle" /\ UNCHANGED bucket
      /\ InCache(Producer, name, blob) /\ Goto(Producer, "put", name, blob)
  BY <1>1 DEF Store
<1>3. thread' = [u \in Threads |->
                   IF u = Producer THEN [pc |-> "put", name |-> name, blob |-> blob] ELSE thread[u]]
  BY <1>2 DEF Goto, ThreadInv
<1>4. /\ ThreadInv' /\ thread'[Producer].pc = "put" /\ thread'[Producer].name = name
      /\ \A u \in Threads \ {Producer} : thread'[u] = thread[u]
  BY <1>3 DEF ThreadInv, CallsOf
<1>5. /\ StoreTypes'
      /\ \A v \in Versions :
            cache'[Home[Janitor]][SnapshotOf(v)] =
              IF Home[Producer] = Home[Janitor] /\ name = SnapshotOf(v)
              THEN blob ELSE cache[Home[Janitor]][SnapshotOf(v)]
  BY <1>2, InCacheOnly
<1>6. ASSUME NEW v \in Versions, name # SnapshotOf(v), Uncached(v) PROVE Uncached(v)'
  BY <1>4, <1>5, <1>6 DEF Uncached
<1> QED BY <1>1, <1>2, <1>4, <1>5, <1>6 DEF Gone

(***************************************************************************)
(* The steps of the programs around the store                              *)
(***************************************************************************)
Keeps ==
  \A v \in 1..announced : (Gone(v) => Gone(v)') /\ (Uncached(v) => Uncached(v)')

LEMMA RemovalRests ==
  ASSUME ProducerInv, RemovalInv, RemovedInv, Keeps, UNCHANGED <<removal, removed>>,
         announced' \in {announced, announced + 1},
         thread'[Janitor] = thread[Janitor] \/ thread'[Janitor].pc = "idle"
  PROVE  RemovalInv' /\ RemovedInv'
<1>1. \A v \in 1..announced : v \in 1..announced'
  BY DEF ProducerInv
<1>2. RemovedInv'
  BY <1>1 DEF RemovedInv, Keeps
<1>3. CASE thread'[Janitor].pc = "idle"
  BY <1>2, <1>3 DEF RemovalInv
<1>4. CASE thread'[Janitor] = thread[Janitor] /\ thread[Janitor].pc # "idle"
  <2>1. /\ removal.version \in 1..announced
        /\ Uncached(removal.version) => Uncached(removal.version)'
        /\ Gone(removal.version) => Gone(removal.version)'
    BY <1>4 DEF RemovalInv, Keeps
  <2> QED BY <1>1, <1>2, <1>4, <2>1 DEF RemovalInv
<1> QED BY <1>3, <1>4

LEMMA ProducerRests ==
  ASSUME ProducerInv, UNCHANGED <<producer, announced>>,
         /\ thread'[Producer].name = thread[Producer].name
         /\ thread'[Producer].pc = thread[Producer].pc
  PROVE  ProducerInv'
  BY DEF ProducerInv

LEMMA RunCycleKeeps ==
  ASSUME OwnJanitor, S3Inv, NEW content, RunCycle(content)
  PROVE  S3Inv'
<1> DEFINE new == producer.currentVersion + 1
<1>1. PICK blob :
        /\ Store(Producer, blob)
        /\ blob.type \in {"snapshot", "delta"}
        /\ blob.type = "snapshot" => blob.version = new
  <2>1. PICK blob :
          /\ Store(Producer, blob)
          /\ blob \in {[type |-> "snapshot", version |-> new, from |-> 0, to |-> new, data |-> content],
                       [type |-> "delta", version |-> new, from |-> producer.currentVersion,
                        to |-> new, data |-> DeltaOfPlain(published[producer.currentVersion], content)]}
    BY Zenon DEF RunCycle
  <2> QED BY <2>1
<1>2. /\ producer.pc = "ready" /\ new \in Versions
      /\ UNCHANGED <<announced, removal, removed>>
  BY DEF RunCycle
<1>3. /\ producer.pc = "ready" /\ producer.currentVersion = announced
      /\ announced \in 0..MaxVersion
      /\ 1..announced \subseteq Versions
  BY <1>2 DEF S3Inv, ProducerInv, Versions
<1>4. /\ producer' = [pc |-> "storing", currentVersion |-> announced,
                      lastSnapshotVersion |-> producer'.lastSnapshotVersion]
  BY <1>3 DEF RunCycle, S3Inv, ProducerInv
<1>5. /\ ObjectName(blob).type = blob.type
      /\ blob.type = "snapshot" => ObjectName(blob).version = announced + 1
      /\ \A v \in 1..announced : ObjectName(blob) # SnapshotOf(v)
  BY <1>1, <1>3 DEF ObjectName, SnapshotOf
<1>6. /\ StoreTypes' /\ ThreadInv'
      /\ \A u \in Threads \ {Producer} : thread'[u] = thread[u]
      /\ thread'[Producer].pc = "put"
      /\ thread'[Producer].name = ObjectName(blob)
      /\ Keeps
  BY <1>1, <1>3, <1>5, StoreKeeps DEF S3Inv, Keeps
<1>7. announced < MaxVersion
  BY <1>2, <1>3 DEF Versions
<1>8. ProducerInv'
  BY <1>2, <1>3, <1>4, <1>5, <1>6, <1>7 DEF ProducerInv
<1> QED BY <1>2, <1>6, <1>8, RemovalRests DEF S3Inv

LEMMA ProducerKeeps ==
  ASSUME OwnJanitor, S3Inv, Stored \/ CallRestore \/ Restore
  PROVE  S3Inv'
<1>0. 1..announced \subseteq Versions /\ UNCHANGED <<removal, removed>>
  BY DEF S3Inv, ProducerInv, Versions, Stored, CallRestore, Restore
<1>1. CASE Stored
  <2>1. /\ StoreTypes' /\ ThreadInv' /\ Keeps
        /\ \A u \in Threads \ {Producer} : thread'[u] = thread[u]
        /\ thread'[Producer].pc = "idle"
    BY <1>0, <1>1, ReturnKeeps DEF Stored, S3Inv, Keeps
  <2>2. /\ producer.pc = "storing"
        /\ producer' = [pc |-> "ready", currentVersion |-> producer.currentVersion + 1,
                        lastSnapshotVersion |-> producer.lastSnapshotVersion]
        /\ announced' = producer.currentVersion + 1
    BY <1>1 DEF Stored, S3Inv, ProducerInv
  <2>3. announced' = announced + 1 /\ announced < MaxVersion /\ announced \in 0..MaxVersion
    BY <2>2 DEF S3Inv, ProducerInv
  <2>4. ProducerInv'
    BY <2>1, <2>2, <2>3 DEF ProducerInv
  <2> QED BY <1>0, <2>1, <2>3, <2>4, RemovalRests DEF S3Inv
<1>2. CASE CallRestore
  <2>1. CASE announced = 0
    <3>1. /\ producer.pc = "new"
          /\ producer' = [pc |-> "ready", currentVersion |-> producer.currentVersion,
                          lastSnapshotVersion |-> producer.lastSnapshotVersion]
          /\ UNCHANGED <<bucket, cache, thread, announced>>
      BY <1>2, <2>1 DEF CallRestore, storeVars, S3Inv, ProducerInv
    <3>2. StoreTypes' /\ ThreadInv' /\ Keeps
      BY <3>1 DEF S3Inv, StoreTypes, ThreadInv, Keeps, Gone, Uncached
    <3>3. ProducerInv'
      BY <2>1, <3>1 DEF S3Inv, ProducerInv
    <3> QED BY <1>0, <3>1, <3>2, <3>3, RemovalRests DEF S3Inv
  <2>2. CASE announced # 0
    <3>1. /\ producer.pc = "new" /\ announced' = announced
          /\ producer' = [pc |-> "restoring", currentVersion |-> producer.currentVersion,
                          lastSnapshotVersion |-> producer.lastSnapshotVersion]
          /\ \E name : Retrieve(Producer, name)
      BY <1>2, <2>2 DEF CallRestore, S3Inv, ProducerInv
    <3>2. /\ StoreTypes' /\ ThreadInv' /\ Keeps
          /\ \A u \in Threads \ {Producer} : thread'[u] = thread[u]
          /\ thread'[Producer].pc \in {"done", "get"}
      BY <1>0, <3>1, RetrieveKeeps DEF S3Inv, Keeps
    <3>3. ProducerInv'
      BY <3>1, <3>2 DEF S3Inv, ProducerInv
    <3> QED BY <1>0, <3>1, <3>2, <3>3, RemovalRests DEF S3Inv
  <2> QED BY <2>1, <2>2
<1>3. CASE Restore
  <2>1. /\ StoreTypes' /\ ThreadInv' /\ Keeps
        /\ \A u \in Threads \ {Producer} : thread'[u] = thread[u]
        /\ thread'[Producer].pc = "idle"
    BY <1>0, <1>3, ReturnKeeps DEF Restore, S3Inv, Keeps
  <2>2. /\ announced' = announced
        /\ producer' = [pc |-> producer'.pc, currentVersion |-> producer'.currentVersion,
                        lastSnapshotVersion |-> producer'.lastSnapshotVersion]
        /\ \/ producer'.pc = "stopped"
           \/ producer'.pc = "ready" /\ producer'.currentVersion = announced
    BY <1>3 DEF Restore, S3Inv, ProducerInv
  <2>3. ProducerInv'
    BY <2>1, <2>2 DEF S3Inv, ProducerInv
  <2> QED BY <1>0, <2>1, <2>2, <2>3, RemovalRests DEF S3Inv
<1> QED BY <1>1, <1>2, <1>3

ConsumerNext(c) ==
  \/ \E target \in Targets(c) : BeginRefresh(c, target)
  \/ AskForSnapshot(c) \/ GetSnapshot(c) \/ AskForDelta(c) \/ GetDelta(c)
  \/ PlanReached(c) \/ ApplyBlob(c) \/ FinishRefresh(c)

LEMMA ConsumerKeeps ==
  ASSUME OwnJanitor, S3Inv, NEW c \in Consumers, ConsumerNext(c)
  PROVE  S3Inv'
<1>1. /\ c \in Threads /\ c # Janitor /\ c # Producer /\ 1..announced \subseteq Versions
  BY DEF Consumers, S3Inv, ProducerInv, Versions
<1>2. /\ UNCHANGED <<producer, announced, removal, removed>>
      /\ UNCHANGED storeVars \/ Return(c) \/ \E name : Retrieve(c, name)
  <2>1. ASSUME NEW new, ConsumerStep(c, new) PROVE UNCHANGED <<producer, announced, removal, removed>>
    BY <2>1 DEF ConsumerStep
  <2>2. CASE (\E target \in Targets(c) : BeginRefresh(c, target))
            \/ PlanReached(c) \/ ApplyBlob(c) \/ FinishRefresh(c)
    BY <2>1, <2>2 DEF BeginRefresh, PlanReached, ApplyBlob, FinishRefresh
  <2>3. CASE AskForSnapshot(c) \/ AskForDelta(c)
    BY <2>1, <2>3 DEF AskForSnapshot, AskForDelta
  <2>4. CASE GetSnapshot(c) \/ GetDelta(c)
    BY <2>1, <2>4 DEF GetSnapshot, GetDelta
  <2> QED BY <2>2, <2>3, <2>4 DEF ConsumerNext
<1>3. /\ StoreTypes' /\ ThreadInv' /\ Keeps
      /\ thread'[Producer] = thread[Producer] /\ thread'[Janitor] = thread[Janitor]
  <2>1. CASE UNCHANGED storeVars
    BY <2>1 DEF storeVars, S3Inv, StoreTypes, ThreadInv, Keeps, Gone, Uncached
  <2>2. CASE Return(c)
    BY <1>1, <2>2, ReturnKeeps DEF S3Inv, Keeps
  <2>3. ASSUME NEW name, Retrieve(c, name)
        PROVE  /\ StoreTypes' /\ ThreadInv' /\ Keeps
               /\ thread'[Producer] = thread[Producer] /\ thread'[Janitor] = thread[Janitor]
    BY <1>1, <2>3, RetrieveKeeps DEF S3Inv, Keeps
  <2> QED BY <1>2, <2>1, <2>2, <2>3
<1> QED BY <1>2, <1>3, ProducerRests, RemovalRests DEF S3Inv

LEMMA StoreStepKeeps ==
  ASSUME OwnJanitor, S3Inv, NEW t \in Threads, StoreStep(t)
  PROVE  S3Inv'
<1>1. /\ StoreTypes' /\ ThreadInv'
      /\ thread'[t].name = thread[t].name
      /\ \A u \in Threads \ {t} : thread'[u] = thread[u]
      /\ thread[t].pc # "idle" /\ thread'[t].pc \in {"fill", "done"}
      /\ thread'[t].pc = "fill" => thread[t].pc = "get"
      /\ \A v \in 1..announced : Gone(v) => Gone(v)'
      /\ \A v \in 1..announced : Uncached(v) /\ ~Interferes(t, v) => Uncached(v)'
  BY CallStepKeeps DEF S3Inv, StoreStep
<1>2. UNCHANGED <<producer, announced, removed>>
  BY DEF StoreStep
<1>3. ProducerInv'
  BY <1>1, <1>2 DEF S3Inv, ProducerInv
<1>4. RemovedInv'
  BY <1>1, <1>2 DEF S3Inv, RemovedInv
<1>5. removal' = [version |-> removal.version, disturbed |-> removal'.disturbed]
  BY DEF StoreStep, S3Inv, RemovalInv
<1>6. ASSUME thread'[Janitor].pc # "idle" PROVE RemovalInv'
  <2>1. /\ thread[Janitor].pc # "idle"
        /\ thread'[Janitor].name = thread[Janitor].name
    BY <1>1, <1>6
  <2>2. /\ removal.version \in 1..announced /\ removal'.version = removal.version
        /\ thread'[Janitor].name = SnapshotOf(removal.version)
    BY <1>5, <2>1 DEF S3Inv, RemovalInv
  <2>3. removal # NoRemoval
    BY <2>2 DEF NoRemoval, S3Inv, ProducerInv
  <2>4. ASSUME ~removal'.disturbed
        PROVE  /\ ~removal.disturbed /\ ~AskedFor(removal.version)
               /\ thread[t].pc = "remove" => bucket'[thread[t].name] = NoBlob
    BY <2>3, <2>4 DEF StoreStep, S3Inv, RemovalInv
  <2>5. AskedFor(removal.version) \/ ~Interferes(t, removal.version)
    BY DEF AskedFor, Interferes, SnapshotOf
  <2>6. ~removal'.disturbed => Uncached(removal.version)'
    BY <1>1, <2>1, <2>2, <2>4, <2>5 DEF S3Inv, RemovalInv
  <2>7. ASSUME ~removal'.disturbed, thread'[Janitor].pc = "done"
        PROVE  Gone(removal.version)'
    <3>1. CASE thread[Janitor].pc = "done"
      BY <1>1, <2>2, <2>4, <2>7, <3>1 DEF S3Inv, RemovalInv
    <3>2. CASE thread[Janitor].pc # "done"
      <4>1. t = Janitor /\ thread[t].pc = "remove"
        BY <1>1, <2>1, <2>7, <3>2 DEF S3Inv, ThreadInv, CallsOf
      <4>2. bucket'[SnapshotOf(removal.version)] = NoBlob
        BY <2>1, <2>2, <2>4, <2>7, <4>1
      <4> QED BY <2>2, <2>6, <2>7, <4>2 DEF Gone
    <3> QED BY <3>1, <3>2
  <2> QED BY <1>2, <1>5, <2>2, <2>6, <2>7 DEF RemovalInv
<1>7. RemovalInv'
  BY <1>5, <1>6 DEF RemovalInv
<1> QED BY <1>1, <1>3, <1>4, <1>7 DEF S3Inv

LEMMA JanitorKeeps ==
  ASSUME OwnJanitor, S3Inv, Removed \/ \E v \in Versions : CallRemove(v)
  PROVE  S3Inv'
<1>0. /\ 1..announced \subseteq Versions
      /\ UNCHANGED <<producer, announced>>
  BY DEF S3Inv, ProducerInv, Versions, Removed, CallRemove
<1>1. CASE Removed
  <2>1. /\ StoreTypes' /\ ThreadInv' /\ Keeps
        /\ \A u \in Threads \ {Janitor} : thread'[u] = thread[u]
        /\ thread[Janitor].pc = "done" /\ thread'[Janitor].pc = "idle"
    BY <1>0, <1>1, ReturnKeeps DEF Removed, S3Inv, Keeps
  <2>2. RemovalInv'
    BY <1>1, <2>1 DEF Removed, RemovalInv, NoRemoval
  <2>3. /\ removal.version \in 1..announced
        /\ ~removal.disturbed => Gone(removal.version)
    BY <2>1 DEF S3Inv, RemovalInv
  <2>4. removed' \subseteq removed \cup {removal.version}
        /\ (removal.disturbed => removed' = removed)
    BY <1>1 DEF Removed
  <2>5. RemovedInv'
    BY <1>0, <2>1, <2>3, <2>4 DEF S3Inv, RemovedInv, Keeps
  <2>6. thread'[Producer] = thread[Producer]
    BY <2>1 DEF OwnJanitor
  <2> QED BY <1>0, <2>1, <2>2, <2>5, <2>6, ProducerRests DEF S3Inv
<1>2. ASSUME NEW v \in Versions, CallRemove(v) PROVE S3Inv'
  <2>1. PICK name : name = SnapshotOf(v)
    OBVIOUS
  <2>2. /\ v <= announced /\ thread[Janitor].pc = "idle" /\ UNCHANGED <<bucket, removed>>
        /\ InCache(Janitor, name, NoBlob) /\ Goto(Janitor, "remove", name, NoBlob)
        /\ removal' = [version |-> v, disturbed |-> AskedFor(v)]
    BY <1>2, <2>1 DEF CallRemove, RemoveSnapshot, SnapshotOf
  <2>3. thread' = [u \in Threads |->
                     IF u = Janitor THEN [pc |-> "remove", name |-> name, blob |-> NoBlob] ELSE thread[u]]
    BY <2>2 DEF Goto, S3Inv, ThreadInv
  <2>4. /\ ThreadInv' /\ thread'[Janitor].pc = "remove" /\ thread'[Janitor].name = name
        /\ \A u \in Threads \ {Janitor} : thread'[u] = thread[u]
    BY <2>3 DEF S3Inv, ThreadInv, CallsOf
  <2>5. /\ StoreTypes'
        /\ \A w \in Versions :
              cache'[Home[Janitor]][SnapshotOf(w)] =
                IF name = SnapshotOf(w) THEN NoBlob ELSE cache[Home[Janitor]][SnapshotOf(w)]
    BY <2>2, InCacheOnly DEF S3Inv
  <2>6. \A w \in Versions : Uncached(w) => Uncached(w)'
    BY <2>4, <2>5 DEF Uncached
  <2>7. Keeps
    BY <1>0, <2>2, <2>6 DEF Gone, Keeps
  <2>8. v \in 1..announced
    BY <2>2 DEF Versions, S3Inv, ProducerInv
  <2>9. ASSUME ~AskedFor(v) PROVE Uncached(v)'
    <3>1. \A u \in Threads : Home[u] = Home[Janitor] /\ thread'[u].name = name => thread'[u].pc # "fill"
      BY <2>1, <2>4, <2>9 DEF AskedFor, SnapshotOf
    <3> QED BY <2>1, <2>5, <3>1 DEF Uncached
  <2>10. removal'.version = v /\ (~removal'.disturbed => ~AskedFor(v))
    BY <2>2
  <2>11. removal' = [version |-> removal'.version, disturbed |-> removal'.disturbed]
    BY <2>2
  <2>12. RemovalInv'
    <3>1. announced' = announced /\ thread'[Janitor].pc # "done" /\ thread'[Janitor].name = SnapshotOf(v)
      BY <1>0, <2>1, <2>4
    <3>2. Uncached(removal.version)' <=> Uncached(v)'
      BY <2>10 DEF Uncached
    <3> QED BY <2>8, <2>9, <2>10, <2>11, <3>1, <3>2 DEF RemovalInv
  <2>13. RemovedInv'
    BY <1>0, <2>2, <2>7 DEF S3Inv, RemovedInv, Keeps
  <2>14. thread'[Producer] = thread[Producer]
    BY <2>4 DEF OwnJanitor
  <2> QED BY <1>0, <2>4, <2>5, <2>12, <2>13, <2>14, ProducerRests DEF S3Inv
<1> QED BY <1>1, <1>2

LEMMA CrashKeeps ==
  ASSUME OwnJanitor, S3Inv, NEW p \in Processes, Crash(p)
  PROVE  S3Inv'
<1>1. /\ StoreTypes' /\ ThreadInv'
      /\ \A t \in Threads : thread'[t] = IF Home[t] = p THEN NoCall ELSE thread[t]
      /\ NoCall.pc = "idle"
      /\ Keeps
  BY RestartKeeps DEF Crash, S3Inv, ProducerInv, Versions, Keeps
<1>2. UNCHANGED <<announced, removal, removed>>
  BY DEF Crash
<1>3. ProducerInv'
  <2>1. CASE Home[Producer] = p
    <3>1. /\ producer' = [pc |-> "new", currentVersion |-> 0, lastSnapshotVersion |-> 0]
          /\ thread'[Producer].pc = "idle"
      BY <1>1, <2>1 DEF Crash, NewProducer
    <3> QED BY <1>2, <3>1 DEF S3Inv, ProducerInv
  <2>2. CASE Home[Producer] # p
    <3>1. producer' = producer /\ thread'[Producer] = thread[Producer]
      BY <1>1, <2>2 DEF Crash
    <3> QED BY <1>2, <3>1, ProducerRests DEF S3Inv
  <2> QED BY <2>1, <2>2
<1> QED BY <1>1, <1>2, <1>3, RemovalRests DEF S3Inv

LEMMA S3InvNext == OwnJanitor /\ S3Inv /\ [S3Next]_s3Vars => S3Inv'
<1> SUFFICES ASSUME OwnJanitor, S3Inv, [S3Next]_s3Vars PROVE S3Inv'
  OBVIOUS
<1>1. CASE UNCHANGED s3Vars
  BY <1>1 DEF s3Vars, storeVars, flowVars, S3Inv, StoreTypes, ThreadInv, ProducerInv,
              RemovalInv, RemovedInv, Gone, Uncached
<1>2. ASSUME NEW c \in Consumers, ConsumerNext(c) PROVE S3Inv'
  BY <1>2, ConsumerKeeps
<1> QED
  BY <1>1, <1>2, RunCycleKeeps, ProducerKeeps, JanitorKeeps, StoreStepKeeps, CrashKeeps
  DEF S3Next, ConsumerNext

(* Whatever is retrieved, stored, lost and restarted afterwards: a snapshot *)
(* whose removal nobody in its process interfered with is never back in the *)
(* bucket or in that process's cache (RemoveSnapshot).                      *)
THEOREM RemovalIsFinal ==
  ASSUME OwnJanitor
  PROVE  S3Spec => []RemovedStaysRemoved
<1>1. S3Inv => RemovedStaysRemoved
  BY DEF S3Inv, RemovedInv, Gone, Uncached, SnapshotOf, RemovedStaysRemoved
<1> QED BY <1>1, S3InvInit, S3InvNext, PTL DEF S3Spec

(***************************************************************************)
(* What consumers read                                                     *)
(***************************************************************************)
(* Processes end in runs in which nothing else goes wrong: what one of     *)
(* them published and lost would otherwise be mixed with what another      *)
(* publishes as the same version (README, known divergences).              *)
CrashesAlone == \A s \in Situations : "crash" \in s.troubles => s.troubles = {"crash"}

Data == Contents \cup Changes
Blobs == BlobsOf(Data)

DeltaFrom(v) == [type |-> "delta", version |-> v]

Near == Home[Producer]
Crashes == "crash" \in situation.troubles
Storing == producer.pc = "storing"
Snapping == Storing /\ producer.lastSnapshotVersion = announced + 1

(* Versions are announced after they are published. *)
PublishedInv ==
  /\ situation \in Situations
  /\ published = [v \in Versions |-> published[v]]
  /\ \A v \in 1..announced : published[v] \in Contents
  /\ Storing => published[announced + 1] \in Contents
  /\ ~Crashes => producer.pc \in {"ready", "storing"}
  /\ producer.lastSnapshotVersion \in 0..announced \/ Snapping
  /\ producer.pc \in {"new", "restoring", "stopped"} => producer.lastSnapshotVersion = 0
  /\ ~Crashes /\ producer.lastSnapshotVersion = 0 => announced = 0

IsSnapshot(v, blob) ==
  blob \in Blobs /\ blob.type = "snapshot" /\ blob.version = v /\ blob.data = published[v]

StoredDelta(v) ==
  [type |-> "delta", version |-> v + 1, from |-> v, to |-> v + 1,
   data |-> DeltaOfPlain(published[v], published[v + 1])]

(* A delta that has come out of the bucket. *)
IsReadBack(blob) == blob \in Blobs /\ blob.type = "delta" /\ blob.from = 0 /\ blob.to = 0

(* Caches hold what was published; deltas with their versions are in the   *)
(* producer's process alone.                                               *)
CachedSnapshot(p, v) ==
  cache[p][SnapshotOf(v)] # NoBlob =>
    /\ v \in 1..announced \/ (p = Near /\ Snapping /\ v = announced + 1)
    /\ IsSnapshot(v, cache[p][SnapshotOf(v)])

CachedDelta(p, v) ==
  cache[p][DeltaFrom(v)] # NoBlob =>
    \/ IsReadBack(cache[p][DeltaFrom(v)]) /\ (p # Near \/ Crashes)
    \/ /\ p = Near /\ cache[p][DeltaFrom(v)] = StoredDelta(v)
       /\ v \in 1..(announced - 1) \/ (v >= 1 /\ Storing /\ ~Snapping /\ v = announced)

CacheInv ==
  \A p \in Processes : \A v \in 0..MaxVersion : CachedSnapshot(p, v) /\ CachedDelta(p, v)

(* The snapshots in the bucket are those of announced versions, but for    *)
(* that of a cycle that is running, or that a crash has cut short.         *)
StoredSnapshot(v) ==
  bucket[SnapshotOf(v)] # NoBlob =>
    /\ v \in 1..(announced + 1)
    /\ v \in 1..announced => bucket[SnapshotOf(v)] = published[v]
    /\ v = announced + 1 =>
         /\ producer.pc = "ready" => Crashes /\ producer.lastSnapshotVersion = 0
         /\ Storing => Snapping
         /\ Storing /\ (~Crashes \/ thread[Producer].pc = "done") =>
              bucket[SnapshotOf(v)] = published[v]

StoredChange(v) ==
  bucket[DeltaFrom(v)] # NoBlob =>
    /\ bucket[DeltaFrom(v)] \in Data
    /\ ~Crashes => cache[Near][DeltaFrom(v)] # NoBlob

BucketInv == \A v \in 0..MaxVersion : StoredSnapshot(v) /\ StoredChange(v)

(* The blob on its way is in the cache already. *)
StoringInv ==
  Storing =>
    LET call == thread[Producer]
    IN /\ call.pc \in {"put", "done"}
       /\ Snapping => /\ call.name = SnapshotOf(announced + 1)
                      /\ call.blob.data = published[announced + 1]
       /\ ~Snapping => /\ call.name = DeltaFrom(announced) /\ announced >= 1
                       /\ call.blob.data \in Data
                       /\ cache[Near][DeltaFrom(announced)] = StoredDelta(announced)
       /\ cache[Near][call.name] # NoBlob

(* A chain of deltas in the producer's process that reaches v. *)
Anchor(s, v) ==
  /\ cache[Near][SnapshotOf(s)] # NoBlob
  /\ \A w \in s..(v - 1) : cache[Near][DeltaFrom(w)] = StoredDelta(w)
Anchored(v) == \E s \in 1..v : Anchor(s, v)
AnchoredBelow(v) == \E s \in 1..(v - 1) : Anchor(s, v)

(* A crash takes snapshots and deltas alike: what is left is anchored.     *)
AnchorInv ==
  Crashes =>
    /\ \A v \in 1..announced :
         v < MaxVersion /\ cache[Near][DeltaFrom(v)] # NoBlob
           /\ cache[Near][DeltaFrom(v)] = StoredDelta(v) => Anchored(v)
    /\ producer.lastSnapshotVersion \in 1..announced => Anchored(announced)

(* A retrieval asks for what was announced, and takes a delta only where   *)
(* the cache has none with its versions.                                   *)
SnapshotCall(call) ==
  \E v \in 1..announced :
    /\ call.name = SnapshotOf(v)
    /\ call.pc = "fill" => IsSnapshot(v, call.blob)

DeltaCall(t, call) ==
  \E v \in 0..(announced - 1) :
    /\ call.name = DeltaFrom(v)
    /\ call.pc = "fill" => IsReadBack(call.blob) /\ (Home[t] # Near \/ Crashes)
    /\ Home[t] = Near /\ cache[Near][DeltaFrom(v)] # NoBlob =>
         IsReadBack(cache[Near][DeltaFrom(v)])

CallOk(t, call) ==
  call.pc \in {"get", "fill"} =>
    /\ SnapshotCall(call) \/ DeltaCall(t, call)
    /\ call.pc = "get" => call.blob = NoBlob

CallInv == \A t \in Threads \ {Janitor} : CallOk(t, thread[t])

Steps == {"idle", "plan", "snapshot", "noSnapshot", "delta", "apply"}

ConsumerRecord(r) ==
  /\ r = [pc |-> r.pc, target |-> r.target, from |-> r.from, cur |-> r.cur, chain |-> r.chain,
          readVersion |-> r.readVersion, readContent |-> r.readContent]
  /\ r.pc \in Steps
  /\ r.target \in Nat /\ r.from \in Nat /\ r.cur \in Nat /\ r.readVersion \in Nat
  /\ r.chain \in Seq(Blobs)

(* A version whose content this consumer may have seen. *)
Held(c, v) == v \in 1..announced \/ (Home[c] = Near /\ Storing /\ v = announced + 1)

ReadOk(c, r) ==
  r.readVersion > 0 =>
    Held(c, r.readVersion) /\ r.readContent = published[r.readVersion]

TargetOk(c, r) ==
  \/ r.target \in 0..announced
  \/ Home[c] = Near /\ Snapping /\ r.target = announced + 1

(* The deltas from v on. *)
Deltas(chain, v) == \A i \in 1..Len(chain) : chain[i] = StoredDelta(v + i - 1)

(* The plan so far leads to the target. *)
Walk(c, r) ==
  /\ r.cur = r.target - Len(r.chain)
  /\ Deltas(r.chain, r.cur)
  /\ Len(r.chain) > 0 =>
       /\ Home[c] = Near /\ r.cur >= 1 /\ r.cur >= r.from
       /\ r.cur <= announced
       /\ r.cur = announced => Storing
       /\ Crashes => Anchored(r.cur)

(* A delta without its versions ends the plan, and leads to version 0. *)
Lost(c, r) ==
  /\ r.cur = 0 /\ Len(r.chain) = 1
  /\ r.chain[1].type = "delta" /\ r.chain[1].to = 0
  /\ Home[c] # Near \/ Crashes

Below(r) == Crashes /\ Len(r.chain) > 0 => AnchoredBelow(r.cur)

SnapshotAsked(r, call) ==
  /\ call.name = SnapshotOf(r.cur)
  /\ call.blob # NoBlob => IsSnapshot(r.cur, call.blob)
  /\ call.blob = NoBlob => r.cur <= announced /\ Below(r)

DeltaAsked(c, r, call) ==
  /\ call.name = DeltaFrom(r.cur - 1)
  /\ call.pc = "get" /\ Crashes => Len(r.chain) = 0
  /\ call.blob # NoBlob =>
       \/ /\ call.blob = StoredDelta(r.cur - 1) /\ Home[c] = Near /\ r.cur > 1
          /\ Crashes => Anchored(r.cur - 1)
       \/ IsReadBack(call.blob) /\ (Home[c] # Near \/ Crashes) /\ Len(r.chain) = 0

(* Everything is applied; or a snapshot and the deltas after it are to be; *)
(* or the deltas from the version that is read.                            *)
Applying(c, r) ==
  LET first == r.target - Len(r.chain) IN
  \/ /\ Len(r.chain) = 0
     /\ \/ r.target <= r.from \/ r.readVersion = r.target
        \/ r.readVersion = 0 /\ (Home[c] # Near \/ Crashes)
  \/ /\ Len(r.chain) > 0 /\ first >= 0
     /\ IsSnapshot(first + 1, r.chain[1])
     /\ \A i \in 2..Len(r.chain) : r.chain[i] = StoredDelta(first + i - 1)
  \/ /\ Len(r.chain) > 0 /\ first >= 1
     /\ Deltas(r.chain, first)
     /\ r.readVersion = first
  \/ Lost(c, r)

ConsumerOk(c, r, call) ==
  /\ ConsumerRecord(r) /\ ReadOk(c, r)
  /\ r.pc # "idle" => TargetOk(c, r)
  /\ r.pc \in {"plan", "snapshot", "noSnapshot", "delta"} => r.from = r.readVersion
  /\ r.pc = "plan" => Walk(c, r) \/ Lost(c, r)
  /\ r.pc \in {"snapshot", "noSnapshot", "delta"} => Walk(c, r) /\ r.cur > r.from
  /\ r.pc = "snapshot" => SnapshotAsked(r, call)
  /\ r.pc \in {"noSnapshot", "delta"} => r.cur <= announced
  /\ r.pc = "noSnapshot" => Below(r)
  /\ r.pc = "delta" => DeltaAsked(c, r, call)
  /\ r.pc = "apply" => Applying(c, r)

ConsumersInv ==
  /\ consumer = [c \in Consumers |-> consumer[c]]
  /\ \A c \in Consumers : ConsumerOk(c, consumer[c], thread[c])

ReadInv ==
  /\ PublishedInv /\ CacheInv /\ BucketInv /\ StoringInv /\ AnchorInv /\ CallInv
  /\ ConsumersInv

LEMMA NamesOfBlobs ==
  ASSUME NEW v \in 0..MaxVersion
  PROVE  /\ SnapshotOf(v) \in Names /\ DeltaFrom(v) \in Names
         /\ \A w \in 0..MaxVersion :
              /\ SnapshotOf(v) = SnapshotOf(w) => v = w
              /\ DeltaFrom(v) = DeltaFrom(w) => v = w
              /\ SnapshotOf(v) # DeltaFrom(w)
  BY DEF SnapshotOf, DeltaFrom, Names, BlobTypes

LEMMA BlobsAreSomething == \A blob \in Blobs : blob # NoBlob
<1> SUFFICES ASSUME NEW blob \in Blobs PROVE blob \in BlobsOf(Contents) \/ blob \in BlobsOf(Changes)
  BY BlobAssumption
<1> QED BY DEF Blobs, BlobsOf, Data

LEMMA StoredDeltaIsBlob ==
  ASSUME NEW v \in 1..MaxVersion, v < MaxVersion,
         published[v] \in Contents, published[v + 1] \in Contents
  PROVE  /\ StoredDelta(v) \in Blobs /\ StoredDelta(v) # NoBlob
         /\ StoredDelta(v).type = "delta" /\ StoredDelta(v).from = v /\ StoredDelta(v).to = v + 1
         /\ StoredDelta(v).data = DeltaOfPlain(published[v], published[v + 1])
         /\ ~IsReadBack(StoredDelta(v))
<1> DEFINE data == DeltaOfPlain(published[v], published[v + 1])
<1>1. data \in Data
  BY DEF Data, Changes
<1>2. /\ StoredDelta(v) = [type |-> "delta", version |-> v + 1, from |-> v, to |-> v + 1, data |-> data]
  BY DEF StoredDelta
<1> HIDE DEF data
<1>3. StoredDelta(v) \in Blobs
  BY <1>1, <1>2 DEF Blobs, BlobsOf, BlobTypes
<1>4. StoredDelta(v).to = v + 1 /\ StoredDelta(v).to # 0
  BY <1>2
<1> QED BY <1>2, <1>3, <1>4, BlobsAreSomething DEF IsReadBack, data

(* How a sequence grows and shrinks at its front. *)
LEMMA InFront ==
  ASSUME NEW S, NEW s \in Seq(S), NEW e \in S
  PROVE  /\ <<e>> \o s \in Seq(S) /\ Len(<<e>> \o s) = Len(s) + 1
         /\ (<<e>> \o s)[1] = e
         /\ \A i \in 2..(Len(s) + 1) : (<<e>> \o s)[i] = s[i - 1]
  OBVIOUS

LEMMA WithoutFirst ==
  ASSUME NEW S, NEW s \in Seq(S), s # <<>>
  PROVE  /\ Head(s) = s[1] /\ s[1] \in S /\ Tail(s) \in Seq(S)
         /\ Len(s) \in Nat /\ Len(s) > 0 /\ Len(Tail(s)) = Len(s) - 1
         /\ \A i \in 1..(Len(s) - 1) : Tail(s)[i] = s[i + 1]
  OBVIOUS

(***************************************************************************)
(* What does not disturb a consumer that takes no step                     *)
(***************************************************************************)
PublishedStays == \A v \in 1..announced : published'[v] = published[v]

CycleGoesOn ==
  Storing =>
    /\ published'[announced + 1] = published[announced + 1]
    /\ \/ announced' = announced + 1
       \/ /\ announced' = announced /\ Storing'
          /\ producer'.lastSnapshotVersion = producer.lastSnapshotVersion

AnchorsStay ==
  Crashes => \A v \in 1..announced :
    (Anchored(v) => Anchored(v)') /\ (AnchoredBelow(v) => AnchoredBelow(v)')

Stays(c) ==
  /\ announced' \in {announced, announced + 1} /\ UNCHANGED situation
  /\ PublishedStays
  /\ Home[c] = Near => CycleGoesOn /\ AnchorsStay

LEMMA ConsumerRests ==
  ASSUME announced \in Nat, NEW c \in Consumers, NEW r, NEW call,
         ConsumerOk(c, r, call), Stays(c)
  PROVE  ConsumerOk(c, r, call)'
<1>1. /\ announced' \in Nat /\ announced <= announced'
      /\ Crashes' = Crashes /\ Near' = Near
      /\ ConsumerRecord(r)
      /\ Len(r.chain) \in Nat
      /\ r.target \in Nat /\ r.from \in Nat /\ r.cur \in Nat /\ r.readVersion \in Nat
  BY DEF Stays, ConsumerOk, ConsumerRecord, Crashes, Near
<1>2. ASSUME NEW v \in Nat, Held(c, v)
      PROVE  Held(c, v)' /\ published'[v] = published[v]
  <2>1. CASE v \in 1..announced
    BY <1>1, <2>1 DEF Held, Stays, PublishedStays
  <2>2. CASE Home[c] = Near /\ Storing /\ v = announced + 1
    <3>1. /\ published'[announced + 1] = published[announced + 1]
          /\ announced' = announced + 1 \/ (announced' = announced /\ Storing')
      BY <2>2 DEF Stays, CycleGoesOn
    <3>2. published'[v] = published[v]
      BY ONLY <2>2, <3>1
    <3>3. CASE announced' = announced + 1
      BY <1>1, <2>2, <3>2, <3>3 DEF Held
    <3>4. CASE announced' = announced /\ Storing'
      <4>1. Held(c, v)'
        BY ONLY <1>1, <2>2, <3>4 DEF Held
      <4> QED BY <3>2, <4>1
    <3> QED BY <3>1, <3>3, <3>4
  <2> QED BY <1>2, <2>1, <2>2 DEF Held
<1>3. TargetOk(c, r) => TargetOk(c, r)'
  BY <1>1 DEF TargetOk, Stays, CycleGoesOn, Snapping, Storing, Near
<1>4. ASSUME TargetOk(c, r), NEW v \in 1..r.target PROVE Held(c, v)
  BY <1>1, <1>4 DEF TargetOk, Held, Snapping
<1>5. ASSUME TargetOk(c, r), NEW v \in 1..r.target, v < r.target
      PROVE  StoredDelta(v)' = StoredDelta(v)
  <2>1. published'[v] = published[v] /\ published'[v + 1] = published[v + 1]
    BY <1>1, <1>2, <1>4, <1>5
  <2> QED BY <2>1 DEF StoredDelta
<1>6. ASSUME TargetOk(c, r), NEW v \in 1..r.target, NEW blob
      PROVE  IsSnapshot(v, blob)' <=> IsSnapshot(v, blob)
  BY <1>1, <1>2, <1>4, <1>6 DEF IsSnapshot
<1>7. ASSUME TargetOk(c, r), NEW v \in Nat, v >= 1, v = r.target - Len(r.chain), Deltas(r.chain, v)
      PROVE  Deltas(r.chain, v)'
  <2>1. ASSUME NEW i \in 1..Len(r.chain) PROVE r.chain[i] = StoredDelta(v + i - 1)'
    <3>1. v + i - 1 \in 1..r.target /\ v + i - 1 < r.target
      BY <1>1, <1>7
    <3>2. r.chain[i] = StoredDelta(v + i - 1)
      BY <1>7 DEF Deltas
    <3> QED BY <1>5, <1>7, <3>1, <3>2
  <2> QED BY <2>1 DEF Deltas
<1>8. ASSUME NEW v \in 1..announced, Home[c] = Near, Crashes
      PROVE  (Anchored(v) => Anchored(v)') /\ (AnchoredBelow(v) => AnchoredBelow(v)')
  BY <1>8 DEF Stays, AnchorsStay
<1>9. ReadOk(c, r)'
  BY <1>1, <1>2 DEF ConsumerOk, ReadOk
<1>10. ASSUME TargetOk(c, r), Walk(c, r) PROVE Walk(c, r)'
  <2>1. CASE Len(r.chain) = 0
    BY <1>1, <1>10, <2>1 DEF Walk, Deltas
  <2>2. CASE Len(r.chain) > 0
    <3>1. /\ Home[c] = Near /\ r.cur >= 1 /\ r.cur >= r.from /\ r.cur <= announced
          /\ r.cur = announced => Storing
          /\ Crashes => Anchored(r.cur)
          /\ r.cur = r.target - Len(r.chain) /\ Deltas(r.chain, r.cur)
      BY <1>10, <2>2 DEF Walk
    <3>2. Deltas(r.chain, r.cur)'
      BY <1>1, <1>7, <1>10, <3>1
    <3>3. r.cur = announced' => Storing'
      BY <1>1, <3>1 DEF Stays, CycleGoesOn
    <3>4. Crashes => Anchored(r.cur)'
      BY <1>1, <1>8, <3>1
    <3> QED BY <1>1, <3>1, <3>2, <3>3, <3>4 DEF Walk
  <2> QED BY <1>1, <2>1, <2>2
<1>11. Lost(c, r) => Lost(c, r)'
  BY <1>1 DEF Lost
<1>12. ASSUME Walk(c, r), r.cur > r.from, r.cur <= announced, Below(r) PROVE Below(r)'
  BY <1>1, <1>8, <1>12 DEF Below, Walk
<1>13. ASSUME TargetOk(c, r), Walk(c, r), r.cur > r.from, SnapshotAsked(r, call)
       PROVE  SnapshotAsked(r, call)'
  <2>1. r.cur \in 1..r.target
    BY <1>1, <1>13 DEF Walk
  <2> QED BY <1>1, <1>6, <1>12, <1>13, <2>1 DEF SnapshotAsked
<1>14. ASSUME TargetOk(c, r), Walk(c, r), r.cur > r.from, r.cur <= announced, DeltaAsked(c, r, call)
       PROVE  DeltaAsked(c, r, call)'
  <2>1. CASE call.blob = StoredDelta(r.cur - 1) /\ Home[c] = Near /\ r.cur > 1
    <3>1. r.cur - 1 \in 1..r.target /\ r.cur - 1 < r.target /\ r.cur - 1 \in 1..announced
      BY <1>1, <1>14, <2>1 DEF Walk
    <3>2. call.blob = StoredDelta(r.cur - 1)'
      BY <1>5, <1>14, <2>1, <3>1
    <3>3. Crashes /\ Anchored(r.cur - 1) => Anchored(r.cur - 1)'
      BY <1>8, <2>1, <3>1
    <3> QED BY <1>1, <1>14, <2>1, <3>2, <3>3 DEF DeltaAsked, IsReadBack
  <2>2. CASE ~(call.blob = StoredDelta(r.cur - 1) /\ Home[c] = Near /\ r.cur > 1)
    BY <1>1, <1>14, <2>2 DEF DeltaAsked, IsReadBack
  <2> QED BY <2>1, <2>2
<1>15. ASSUME TargetOk(c, r), Applying(c, r) PROVE Applying(c, r)'
  <2> DEFINE first == r.target - Len(r.chain)
  <2>1. CASE Len(r.chain) = 0
    BY <1>1, <1>15, <2>1 DEF Applying, Lost
  <2>2. CASE /\ Len(r.chain) > 0 /\ first >= 0 /\ IsSnapshot(first + 1, r.chain[1])
             /\ \A i \in 2..Len(r.chain) : r.chain[i] = StoredDelta(first + i - 1)
    <3>1. IsSnapshot(first + 1, r.chain[1])'
      <4>1. first + 1 \in 1..r.target
        BY <1>1, <2>2
      <4> QED BY <1>6, <1>15, <2>2, <4>1
    <3>2. ASSUME NEW i \in 2..Len(r.chain) PROVE r.chain[i] = StoredDelta(first + i - 1)'
      <4>1. first + i - 1 \in 1..r.target /\ first + i - 1 < r.target
        BY <1>1, <2>2
      <4> QED BY <1>5, <1>15, <2>2, <4>1
    <3> QED BY <1>1, <2>2, <3>1, <3>2 DEF Applying
  <2>3. CASE Len(r.chain) > 0 /\ first >= 1 /\ Deltas(r.chain, first) /\ r.readVersion = first
    <3>1. first \in Nat /\ Deltas(r.chain, first)'
      BY <1>1, <1>7, <1>15, <2>3
    <3> QED BY <1>1, <2>3, <3>1 DEF Applying
  <2>4. CASE Lost(c, r)
    BY <1>11, <2>4 DEF Applying
  <2> QED BY <1>15, <2>1, <2>2, <2>3, <2>4 DEF Applying
<1> QED
  BY <1>1, <1>3, <1>9, <1>10, <1>11, <1>12, <1>13, <1>14, <1>15 DEF ConsumerOk, ConsumerRecord

(***************************************************************************)
(* The store and the producer when nothing happens to them                 *)
(***************************************************************************)
SharedInv ==
  PublishedInv /\ CacheInv /\ BucketInv /\ StoringInv /\ AnchorInv /\ CallInv

LEMMA CallRests ==
  ASSUME announced \in Nat, announced' \in {announced, announced + 1}, UNCHANGED situation,
         PublishedStays, NEW t \in Threads, NEW call, CallOk(t, call),
         \A v \in 0..(announced - 1) :
           \/ cache'[Near][DeltaFrom(v)] = cache[Near][DeltaFrom(v)]
           \/ IsReadBack(cache'[Near][DeltaFrom(v)])
  PROVE  CallOk(t, call)'
<1>1. /\ Near' = Near /\ Crashes' = Crashes
      /\ \A v \in 1..announced : v \in 1..announced'
      /\ \A v \in 0..(announced - 1) : v \in 0..(announced' - 1)
  BY DEF Near, Crashes
<1>2. SnapshotCall(call) => SnapshotCall(call)'
  BY <1>1 DEF SnapshotCall, IsSnapshot, PublishedStays
<1>3. ASSUME DeltaCall(t, call) PROVE DeltaCall(t, call)'
  <2>1. PICK v \in 0..(announced - 1) :
          /\ call.name = DeltaFrom(v)
          /\ call.pc = "fill" => IsReadBack(call.blob) /\ (Home[t] # Near \/ Crashes)
          /\ Home[t] = Near /\ cache[Near][DeltaFrom(v)] # NoBlob =>
               IsReadBack(cache[Near][DeltaFrom(v)])
    BY <1>3 DEF DeltaCall
  <2>2. Home[t] = Near /\ cache'[Near][DeltaFrom(v)] # NoBlob => IsReadBack(cache'[Near][DeltaFrom(v)])
    BY <2>1
  <2>3. v \in 0..(announced' - 1)
    BY <1>1
  <2> QED BY <1>1, <2>1, <2>2, <2>3 DEF DeltaCall, IsReadBack
<1> QED BY <1>2, <1>3 DEF CallOk

LEMMA CallsAreOk ==
  ASSUME \A t \in Threads \ {Janitor} : \E call : call = thread'[t] /\ CallOk(t, call)'
  PROVE  CallInv'
<1> SUFFICES ASSUME NEW t \in Threads \ {Janitor} PROVE CallOk(t, thread[t])'
  BY DEF CallInv
<1>1. PICK call : call = thread'[t] /\ CallOk(t, call)'
  OBVIOUS
<1> QED BY <1>1 DEF CallOk, SnapshotCall, DeltaCall, IsSnapshot, IsReadBack

LEMMA AnchorsRemain ==
  ASSUME announced \in Nat, PublishedStays,
         Crashes => \A v \in 1..announced :
           /\ cache[Near][SnapshotOf(v)] # NoBlob => cache'[Near][SnapshotOf(v)] # NoBlob
           /\ v < announced /\ cache[Near][DeltaFrom(v)] = StoredDelta(v) =>
                cache'[Near][DeltaFrom(v)] = StoredDelta(v)
  PROVE  AnchorsStay
<1> SUFFICES ASSUME Crashes PROVE AnchorsStay
  BY DEF AnchorsStay
<1>1. ASSUME NEW v \in 1..announced, NEW s \in 1..v, Anchor(s, v) PROVE Anchor(s, v)'
  <2>1. cache'[Near][SnapshotOf(s)] # NoBlob
    BY <1>1 DEF Anchor
  <2>2. ASSUME NEW w \in s..(v - 1) PROVE cache'[Near][DeltaFrom(w)] = StoredDelta(w)'
    <3>1. w \in 1..announced /\ w < announced /\ w + 1 \in 1..announced
      BY <1>1
    <3>2. StoredDelta(w)' = StoredDelta(w)
      BY <3>1 DEF StoredDelta, PublishedStays
    <3> QED BY <1>1, <3>1, <3>2 DEF Anchor
  <2> QED BY <2>1, <2>2 DEF Anchor, Near, SnapshotOf, DeltaFrom
<1>2. ASSUME NEW v \in 1..announced PROVE Anchored(v) => Anchored(v)'
  BY <1>1 DEF Anchored
<1>3. ASSUME NEW v \in 1..announced PROVE AnchoredBelow(v) => AnchoredBelow(v)'
  BY <1>1 DEF AnchoredBelow
<1> QED BY <1>2, <1>3 DEF AnchorsStay

(* A step that changes neither the bucket nor a cache nor the producer. *)
Quiet == UNCHANGED <<bucket, cache, published, producer, announced, situation>>

LEMMA QuietKeeps ==
  ASSUME announced \in Nat, SharedInv, Quiet,
         \/ thread'[Producer] = thread[Producer]
         \/ ~Storing
         \/ /\ ~Crashes /\ thread'[Producer].pc = "done"
            /\ thread'[Producer].name = thread[Producer].name
            /\ thread'[Producer].blob = thread[Producer].blob,
         \A t \in Threads \ {Janitor} : thread'[t] = thread[t] \/ CallOk(t, thread'[t])
  PROVE  SharedInv' /\ \A c \in Consumers : Stays(c)
<1>1. /\ Near' = Near /\ (Crashes' <=> Crashes) /\ (Storing' <=> Storing) /\ (Snapping' <=> Snapping)
      /\ UNCHANGED <<bucket, cache, published, producer, announced, situation>>
  BY DEF Quiet, Near, Crashes, Storing, Snapping
<1>2. PublishedInv'
  BY <1>1 DEF SharedInv, PublishedInv
<1>3. CacheInv'
  BY <1>1 DEF SharedInv, CacheInv, CachedSnapshot, CachedDelta, IsSnapshot, IsReadBack, StoredDelta
<1>4. BucketInv'
  <2>1. ASSUME NEW v \in 0..MaxVersion, StoredSnapshot(v) PROVE StoredSnapshot(v)'
    BY <1>1, <2>1 DEF StoredSnapshot
  <2>2. ASSUME NEW v \in 0..MaxVersion, StoredChange(v) PROVE StoredChange(v)'
    BY <1>1, <2>2 DEF StoredChange
  <2> QED BY <2>1, <2>2 DEF SharedInv, BucketInv
<1>5. StoringInv'
  BY <1>1 DEF SharedInv, StoringInv, StoredDelta
<1>6. AnchorInv'
  BY <1>1 DEF SharedInv, AnchorInv, Anchored, Anchor, StoredDelta
<1>7. PublishedStays
  BY <1>1 DEF PublishedStays
<1>8. CallInv'
  <2>1. ASSUME NEW t \in Threads \ {Janitor} PROVE \E call : call = thread'[t] /\ CallOk(t, call)'
    <3>1. PICK call : call = thread'[t]
      OBVIOUS
    <3>2. CallOk(t, call)
      BY <3>1 DEF SharedInv, CallInv
    <3>3. CallOk(t, call)'
      BY <1>1, <1>7, <3>2, CallRests
    <3> QED BY <3>1, <3>3
  <2> QED BY <2>1, CallsAreOk
<1>9. AnchorsStay
  BY <1>1, <1>7, AnchorsRemain
<1>10. ASSUME NEW c \in Consumers PROVE Stays(c)
  BY <1>1, <1>7, <1>9 DEF Stays, CycleGoesOn
<1> QED BY <1>2, <1>3, <1>4, <1>5, <1>6, <1>8, <1>10 DEF SharedInv

(***************************************************************************)
(* The steps of a consumer                                                 *)
(***************************************************************************)
LEMMA ConsumersAreOk ==
  ASSUME consumer' = [c \in Consumers |-> consumer'[c]],
         \A c \in Consumers :
           \E r, call : r = consumer'[c] /\ call = thread'[c] /\ ConsumerOk(c, r, call)'
  PROVE  ConsumersInv'
<1> SUFFICES ASSUME NEW c \in Consumers PROVE ConsumerOk(c, consumer[c], thread[c])'
  BY DEF ConsumersInv
<1>1. PICK r, call : r = consumer'[c] /\ call = thread'[c] /\ ConsumerOk(c, r, call)'
  OBVIOUS
<1> QED
  BY <1>1 DEF ConsumerOk, ConsumerRecord, ReadOk, Held, TargetOk, Walk, Lost, Below, Deltas,
              SnapshotAsked, DeltaAsked, Applying, IsSnapshot, IsReadBack

LEMMA ConsumersRest ==
  ASSUME announced \in Nat, ConsumersInv, UNCHANGED consumer,
         \A c \in Consumers : Stays(c) /\ thread'[c] = thread[c]
  PROVE  ConsumersInv'
<1>1. ASSUME NEW c \in Consumers
      PROVE  \E r, call : r = consumer'[c] /\ call = thread'[c] /\ ConsumerOk(c, r, call)'
  <2>1. PICK r, call : r = consumer[c] /\ call = thread[c]
    OBVIOUS
  <2>2. ConsumerOk(c, r, call)
    BY <2>1 DEF ConsumersInv
  <2>3. ConsumerOk(c, r, call)'
    BY <2>2, ConsumerRests
  <2>4. consumer'[c] = consumer[c]
    OBVIOUS
  <2> QED BY <2>1, <2>3, <2>4
<1>2. consumer' = [c \in Consumers |-> consumer'[c]]
  BY DEF ConsumersInv
<1> QED BY <1>1, <1>2, ConsumersAreOk

(* One consumer moves on, to "r" with "call". *)
LEMMA ConsumerMoves ==
  ASSUME announced \in Nat, SharedInv, ConsumersInv, NEW c \in Consumers, NEW r, NEW call,
         UNCHANGED <<bucket, cache>>, ConsumerStep(c, r),
         \A t \in Threads \ {c} : thread'[t] = thread[t],
         thread'[c] = call, CallOk(c, call), ConsumerOk(c, r, call)
  PROVE  ReadInv'
<1>1. Quiet /\ consumer' = [consumer EXCEPT ![c] = r]
  BY DEF Quiet, ConsumerStep
<1>2. c \in Threads /\ c # Producer /\ Consumers \subseteq Threads
  BY DEF Consumers
<1>3. SharedInv' /\ \A d \in Consumers : Stays(d)
  BY <1>1, <1>2, QuietKeeps
<1>4. consumer' = [d \in Consumers |-> IF d = c THEN r ELSE consumer[d]]
  BY <1>1 DEF ConsumersInv
<1>5. ASSUME NEW d \in Consumers
      PROVE  \E s, k : s = consumer'[d] /\ k = thread'[d] /\ ConsumerOk(d, s, k)'
  <2>1. CASE d = c
    <3>1. ConsumerOk(c, r, call)' /\ consumer'[c] = r
      BY <1>3, <1>4, ConsumerRests
    <3> QED BY <2>1, <3>1
  <2>2. CASE d # c
    <3>1. PICK s, k : s = consumer[d] /\ k = thread[d]
      OBVIOUS
    <3>2. ConsumerOk(d, s, k)'
      BY <1>3, <3>1, ConsumerRests DEF ConsumersInv
    <3> QED BY <1>2, <1>4, <2>2, <3>1, <3>2
  <2> QED BY <2>1, <2>2
<1>6. ConsumersInv'
  BY <1>4, <1>5, ConsumersAreOk
<1> QED BY <1>3, <1>6 DEF SharedInv, ReadInv

(* What a retrieval starts with. *)
LEMMA RetrieveIs ==
  ASSUME ThreadInv, NEW t \in Threads, NEW name, Retrieve(t, name)
  PROVE  /\ UNCHANGED <<bucket, cache>>
         /\ \A u \in Threads \ {t} : thread'[u] = thread[u]
         /\ thread'[t].name = name /\ thread'[t].blob = cache[Home[t]][name]
         /\ thread'[t].pc = IF cache[Home[t]][name] # NoBlob THEN "done" ELSE "get"
<1>1. PICK pc, blob : pc = (IF cache[Home[t]][name] # NoBlob THEN "done" ELSE "get")
                      /\ blob = cache[Home[t]][name]
  OBVIOUS
<1>2. thread' = [u \in Threads |->
                   IF u = t THEN [pc |-> pc, name |-> name, blob |-> blob] ELSE thread[u]]
  BY <1>1 DEF Retrieve, Goto, ThreadInv
<1>3. UNCHANGED <<bucket, cache>>
  BY DEF Retrieve
<1> QED BY <1>1, <1>2, <1>3

LEMMA ReturnIs ==
  ASSUME ThreadInv, NEW t \in Threads, Return(t)
  PROVE  /\ UNCHANGED <<bucket, cache>>
         /\ \A u \in Threads \ {t} : thread'[u] = thread[u]
         /\ thread'[t] = NoCall /\ NoCall.pc = "idle" /\ thread[t].pc = "done"
  BY DEF Return, ThreadInv, NoCall

LEMMA NewestIs ==
  ASSUME NEW T, T \subseteq 0..MaxVersion, T # {}
  PROVE  Max(T) \in T
<1> DEFINE R == OpToRel(<, Nat)
           below == {MaxVersion - y : y \in T}
<1>0. \A y \in T : y \in Nat /\ MaxVersion - y \in Nat
  OBVIOUS
<1>1. below \subseteq Nat /\ below # {}
  BY <1>0
<1>2. \A x, y \in Nat : y < x => <<y, x>> \in R
  BY DEF OpToRel
<1>3. IsWellFoundedOn(R, Nat)
  BY NatLessThanWellFounded
<1>4. PICK z \in below : \A y \in below : ~(y < z)
  <2> HIDE DEF R, below
  <2>1. PICK z \in below : \A y \in below : <<y, z>> \notin R
    BY <1>1, <1>3, WFMin
  <2>2. ASSUME NEW y \in below PROVE ~(y < z)
    <3>1. y \in Nat /\ z \in Nat
      BY <1>1
    <3> QED BY <1>2, <2>1, <3>1
  <2> QED BY <2>2
<1>5. \E x \in T : \A y \in T : x >= y
  <2>1. PICK x \in T : z = MaxVersion - x
    OBVIOUS
  <2>2. ASSUME NEW y \in T PROVE x >= y
    <3>1. MaxVersion - y \in below
      OBVIOUS
    <3>2. ~(MaxVersion - y < MaxVersion - x)
      BY <1>4, <2>1, <3>1
    <3> QED BY <1>0, <3>2
  <2> QED BY <2>2
<1> QED BY <1>5 DEF Max

(* What the invariants say of a consumer before its step. *)
LEMMA ConsumerBefore ==
  ASSUME OwnJanitor, S3Inv, ReadInv, NEW c \in Consumers
  PROVE  /\ c \in Threads \ {Janitor} /\ c # Producer /\ Home[c] \in Processes
         /\ announced \in Nat /\ announced <= MaxVersion
         /\ SharedInv /\ ConsumersInv /\ ThreadInv
         /\ ConsumerOk(c, consumer[c], thread[c]) /\ CallOk(c, thread[c])
         /\ (Storing => announced < MaxVersion)
<1>1. c \in Threads \ {Janitor} /\ c # Producer /\ Home[c] \in Processes
  BY DEF Consumers
<1> QED
  BY <1>1 DEF S3Inv, ProducerInv, ReadInv, SharedInv, ConsumersInv, CallInv, Storing

LEMMA BeginRefreshKeeps ==
  ASSUME OwnJanitor, S3Inv, ReadInv, NEW c \in Consumers,
         NEW target \in Targets(c), BeginRefresh(c, target)
  PROVE  ReadInv'
<1>1. PICK old, call, r :
        /\ old = consumer[c] /\ call = thread[c]
        /\ r = [old EXCEPT !.pc = "plan", !.target = target, !.from = old.readVersion,
                           !.cur = target, !.chain = <<>>]
  OBVIOUS
<1>2. ConsumerOk(c, old, call) /\ CallOk(c, call)
  BY <1>1, ConsumerBefore
<1>3. /\ UNCHANGED <<bucket, cache, thread>> /\ ConsumerStep(c, r)
  BY <1>1 DEF BeginRefresh, storeVars
<1>4. /\ r = [pc |-> "plan", target |-> target, from |-> old.readVersion, cur |-> target,
              chain |-> <<>>, readVersion |-> old.readVersion, readContent |-> old.readContent]
  BY <1>1, <1>2 DEF ConsumerOk, ConsumerRecord
<1>5. target \in Nat /\ TargetOk(c, r)
  <2>1. CASE target = announced
    BY <1>4, <2>1, ConsumerBefore DEF TargetOk
  <2>2. CASE target # announced
    <3>1. target \in ListVersions(Home[c])
      <4>1. PICK listed : listed = ListVersions(Home[c])
        OBVIOUS
      <4>2. listed # {} /\ target = Max(listed)
        BY <2>2, <4>1 DEF Targets
      <4>3. listed \subseteq 0..MaxVersion
        BY <4>1 DEF ListVersions, Versions
      <4> QED BY <4>1, <4>2, <4>3, NewestIs
    <3>2. target \in 0..MaxVersion /\ cache[Home[c]][SnapshotOf(target)] # NoBlob
      BY <3>1 DEF ListVersions, Versions, SnapshotOf
    <3>3. target \in 1..announced \/ (Home[c] = Near /\ Snapping /\ target = announced + 1)
      BY <3>2, ConsumerBefore DEF SharedInv, CacheInv, CachedSnapshot
    <3> QED BY <1>4, <3>3, ConsumerBefore DEF TargetOk
  <2> QED BY <2>1, <2>2
<1>6. ConsumerOk(c, r, call)
  <2>1. ConsumerRecord(r)
    BY <1>2, <1>4, <1>5 DEF ConsumerOk, ConsumerRecord, Steps
  <2>2. ReadOk(c, r)
    BY <1>2, <1>4 DEF ConsumerOk, ReadOk
  <2>3. Walk(c, r)
    BY <1>4, <1>5 DEF Walk, Deltas
  <2> QED BY <1>4, <1>5, <2>1, <2>2, <2>3 DEF ConsumerOk
<1> QED BY <1>1, <1>2, <1>3, <1>6, ConsumerBefore, ConsumerMoves

LEMMA AskForSnapshotKeeps ==
  ASSUME OwnJanitor, S3Inv, ReadInv, NEW c \in Consumers, AskForSnapshot(c)
  PROVE  ReadInv'
<1>1. PICK old, call, r :
        old = consumer[c] /\ call = thread'[c] /\ r = [old EXCEPT !.pc = "snapshot"]
  OBVIOUS
<1>2. /\ ConsumerOk(c, old, thread[c]) /\ old.pc = "plan" /\ old.cur > old.from
      /\ Retrieve(c, SnapshotOf(old.cur)) /\ ConsumerStep(c, r)
  BY <1>1, ConsumerBefore DEF AskForSnapshot, SnapshotOf
<1>3. r = [pc |-> "snapshot", target |-> old.target, from |-> old.from, cur |-> old.cur,
           chain |-> old.chain, readVersion |-> old.readVersion, readContent |-> old.readContent]
  BY <1>1, <1>2 DEF ConsumerOk, ConsumerRecord
<1>4. /\ UNCHANGED <<bucket, cache>>
      /\ \A t \in Threads \ {c} : thread'[t] = thread[t]
      /\ call.name = SnapshotOf(old.cur) /\ call.blob = cache[Home[c]][SnapshotOf(old.cur)]
      /\ call.pc = IF call.blob # NoBlob THEN "done" ELSE "get"
  BY <1>1, <1>2, RetrieveIs, ConsumerBefore
<1>5. /\ ConsumerRecord(old) /\ Len(old.chain) \in Nat /\ TargetOk(c, old)
      /\ old.from = old.readVersion /\ Walk(c, old) /\ ReadOk(c, old)
      /\ old.cur \in 1..old.target
  <2>1. ConsumerRecord(old) /\ Len(old.chain) \in Nat
    BY <1>2 DEF ConsumerOk, ConsumerRecord
  <2>2. Walk(c, old)
    BY <1>2, <2>1 DEF ConsumerOk, ConsumerRecord, Lost
  <2> QED BY <1>2, <2>1, <2>2 DEF ConsumerOk, ConsumerRecord, Walk
<1>6. old.cur \in 0..MaxVersion
  BY <1>5, ConsumerBefore DEF TargetOk, ConsumerRecord, Snapping
<1>7. call.blob # NoBlob => IsSnapshot(old.cur, call.blob)
  BY <1>4, <1>6, ConsumerBefore DEF SharedInv, CacheInv, CachedSnapshot
<1>8. ASSUME call.blob = NoBlob PROVE old.cur <= announced /\ Below(r)
  <2>1. old.cur <= announced
    <3>1. CASE Len(old.chain) > 0
      BY <1>5, <3>1 DEF Walk
    <3>2. CASE Len(old.chain) = 0 /\ old.target <= announced
      BY <1>5, <3>2 DEF Walk, ConsumerRecord
    <3>3. CASE Len(old.chain) = 0 /\ Home[c] = Near /\ Snapping /\ old.target = announced + 1
      <4>1. old.cur = announced + 1
        BY <1>5, <3>3, ConsumerBefore DEF Walk
      <4>2. cache[Near][SnapshotOf(announced + 1)] # NoBlob
        BY <3>3, ConsumerBefore DEF SharedInv, StoringInv, Snapping
      <4> QED BY <1>4, <1>8, <3>3, <4>1, <4>2
    <3> QED BY <1>5, <3>1, <3>2, <3>3, ConsumerBefore DEF TargetOk
  <2>2. ASSUME Crashes, Len(old.chain) > 0 PROVE AnchoredBelow(old.cur)
    <3>1. Home[c] = Near /\ Anchored(old.cur)
      BY <1>5, <2>2 DEF Walk
    <3>2. PICK s \in 1..old.cur : Anchor(s, old.cur)
      BY <3>1 DEF Anchored
    <3>3. s # old.cur
      BY <1>4, <1>8, <3>1, <3>2 DEF Anchor
    <3> QED BY <1>6, <3>2, <3>3 DEF AnchoredBelow
  <2> QED BY <1>3, <2>1, <2>2 DEF Below
<1>9. CallOk(c, call)
  BY <1>4, <1>5, <1>8 DEF CallOk, SnapshotCall
<1>10. ConsumerOk(c, r, call)
  <2>1. ConsumerRecord(r)
    BY <1>3, <1>5 DEF ConsumerRecord, Steps
  <2>2. ReadOk(c, r) /\ TargetOk(c, r)
    BY <1>3, <1>5 DEF ReadOk, TargetOk
  <2>3. Walk(c, r)
    BY <1>3, <1>5 DEF Walk
  <2>4. SnapshotAsked(r, call)
    BY <1>3, <1>4, <1>7, <1>8 DEF SnapshotAsked
  <2> QED BY <1>2, <1>3, <1>5, <2>1, <2>2, <2>3, <2>4 DEF ConsumerOk
<1> QED BY <1>1, <1>2, <1>4, <1>9, <1>10, ConsumerBefore, ConsumerMoves

LEMMA GetSnapshotKeeps ==
  ASSUME OwnJanitor, S3Inv, ReadInv, NEW c \in Consumers, GetSnapshot(c)
  PROVE  ReadInv'
<1>1. PICK old, call, r, blob :
        /\ old = consumer[c] /\ call = thread[c] /\ blob = call.blob
        /\ r = IF blob = NoBlob THEN [old EXCEPT !.pc = "noSnapshot"]
               ELSE [old EXCEPT !.pc = "apply", !.chain = <<blob>> \o old.chain]
  OBVIOUS
<1>2. /\ ConsumerOk(c, old, call) /\ old.pc = "snapshot"
      /\ Return(c) /\ ConsumerStep(c, r)
  BY <1>1, ConsumerBefore DEF GetSnapshot
<1>3. /\ UNCHANGED <<bucket, cache>> /\ \A t \in Threads \ {c} : thread'[t] = thread[t]
      /\ thread'[c] = NoCall /\ CallOk(c, NoCall)
  BY <1>2, ReturnIs, ConsumerBefore DEF CallOk
<1>4. /\ ConsumerRecord(old) /\ old.chain \in Seq(Blobs) /\ Len(old.chain) \in Nat
      /\ old.target \in Nat /\ old.cur \in Nat /\ old.from \in Nat
      /\ TargetOk(c, old) /\ ReadOk(c, old)
      /\ old.from = old.readVersion /\ Walk(c, old) /\ old.cur > old.from
      /\ SnapshotAsked(old, call)
  BY <1>2 DEF ConsumerOk, ConsumerRecord
<1>5. CASE blob = NoBlob
  <2>1. r = [pc |-> "noSnapshot", target |-> old.target, from |-> old.from, cur |-> old.cur,
             chain |-> old.chain, readVersion |-> old.readVersion, readContent |-> old.readContent]
    BY <1>1, <1>4, <1>5 DEF ConsumerRecord
  <2>2. ConsumerRecord(r)
    BY <1>4, <2>1 DEF ConsumerRecord, Steps
  <2>3. ReadOk(c, r) /\ TargetOk(c, r) /\ Walk(c, r)
    BY <1>4, <2>1 DEF ReadOk, TargetOk, Walk
  <2>4. r.cur <= announced /\ Below(r)
    BY <1>1, <1>4, <1>5, <2>1 DEF SnapshotAsked, Below
  <2>5. ConsumerOk(c, r, NoCall)
    BY <1>4, <2>1, <2>2, <2>3, <2>4 DEF ConsumerOk
  <2> QED BY <1>2, <1>3, <2>5, ConsumerBefore, ConsumerMoves
<1>6. CASE blob # NoBlob
  <2>1. PICK chain : chain = <<blob>> \o old.chain
    OBVIOUS
  <2>2. r = [pc |-> "apply", target |-> old.target, from |-> old.from, cur |-> old.cur,
             chain |-> chain, readVersion |-> old.readVersion, readContent |-> old.readContent]
    BY <1>1, <1>4, <1>6, <2>1 DEF ConsumerRecord
  <2>3. IsSnapshot(old.cur, blob) /\ blob \in Blobs
    BY <1>1, <1>4, <1>6 DEF SnapshotAsked, IsSnapshot
  <2>4. /\ chain \in Seq(Blobs) /\ Len(chain) = Len(old.chain) + 1 /\ chain[1] = blob
        /\ \A i \in 2..Len(chain) : chain[i] = old.chain[i - 1]
    BY <1>4, <2>1, <2>3, InFront
  <2>5. ConsumerRecord(r)
    BY <1>4, <2>2, <2>4 DEF ConsumerRecord, Steps
  <2>6. ReadOk(c, r) /\ TargetOk(c, r)
    BY <1>4, <2>2 DEF ReadOk, TargetOk
  <2>7. PICK first : first = old.target - Len(chain)
    OBVIOUS
  <2>8. first + 1 = old.cur /\ first >= 0 /\ first \in Int
    BY <1>4, <2>4, <2>7 DEF Walk
  <2>9. ASSUME NEW i \in 2..Len(chain) PROVE chain[i] = StoredDelta(first + i - 1)
    <3>1. i - 1 \in 1..Len(old.chain) /\ old.cur + (i - 1) - 1 = first + i - 1
      BY <1>4, <2>4, <2>8
    <3>2. old.chain[i - 1] = StoredDelta(old.cur + (i - 1) - 1)
      BY <1>4, <3>1 DEF Walk, Deltas
    <3> QED BY <2>4, <3>1, <3>2
  <2>10. Applying(c, r)
    <3>1. r.chain = chain /\ r.target - Len(r.chain) = first /\ Len(r.chain) > 0
      BY <1>4, <2>2, <2>4, <2>7
    <3>2. IsSnapshot(first + 1, r.chain[1])
      BY <2>3, <2>4, <2>8, <3>1
    <3> QED BY <2>8, <2>9, <3>1, <3>2 DEF Applying
  <2>11. ConsumerOk(c, r, NoCall)
    BY <1>4, <2>2, <2>5, <2>6, <2>10 DEF ConsumerOk
  <2> QED BY <1>2, <1>3, <2>11, ConsumerBefore, ConsumerMoves
<1> QED BY <1>5, <1>6

LEMMA AskForDeltaKeeps ==
  ASSUME OwnJanitor, S3Inv, ReadInv, NEW c \in Consumers, AskForDelta(c)
  PROVE  ReadInv'
<1>1. PICK old, call, r, v :
        /\ old = consumer[c] /\ call = thread'[c] /\ r = [old EXCEPT !.pc = "delta"]
        /\ v = old.cur - 1
  OBVIOUS
<1>2. /\ ConsumerOk(c, old, thread[c]) /\ old.pc = "noSnapshot"
      /\ Retrieve(c, DeltaFrom(v)) /\ ConsumerStep(c, r)
  BY <1>1, ConsumerBefore DEF AskForDelta, DeltaFrom
<1>3. r = [pc |-> "delta", target |-> old.target, from |-> old.from, cur |-> old.cur,
           chain |-> old.chain, readVersion |-> old.readVersion, readContent |-> old.readContent]
  BY <1>1, <1>2 DEF ConsumerOk, ConsumerRecord
<1>4. /\ UNCHANGED <<bucket, cache>>
      /\ \A t \in Threads \ {c} : thread'[t] = thread[t]
      /\ call.name = DeltaFrom(v) /\ call.blob = cache[Home[c]][DeltaFrom(v)]
      /\ call.pc = IF call.blob # NoBlob THEN "done" ELSE "get"
  BY <1>1, <1>2, RetrieveIs, ConsumerBefore
<1>5. /\ ConsumerRecord(old) /\ Len(old.chain) \in Nat
      /\ old.target \in Nat /\ old.cur \in Nat /\ old.from \in Nat
      /\ TargetOk(c, old) /\ ReadOk(c, old)
      /\ old.from = old.readVersion /\ Walk(c, old) /\ old.cur > old.from
      /\ old.cur <= announced /\ Below(old)
  BY <1>2 DEF ConsumerOk, ConsumerRecord
<1>6. v \in 0..(announced - 1) /\ v \in 0..MaxVersion /\ v < MaxVersion
  BY <1>1, <1>5, ConsumerBefore
<1>7. CachedDelta(Home[c], v)
  BY <1>6, ConsumerBefore DEF SharedInv, CacheInv
<1>8. CallOk(c, call)
  BY <1>4, <1>6 DEF CallOk, DeltaCall
<1>9. ASSUME Crashes, Len(old.chain) > 0
      PROVE  /\ Home[c] = Near /\ call.blob = StoredDelta(v) /\ call.blob # NoBlob
  <2>1. Home[c] = Near /\ AnchoredBelow(old.cur)
    BY <1>5, <1>9 DEF Walk, Below
  <2>2. PICK s \in 1..v : Anchor(s, old.cur)
    BY <1>1, <2>1 DEF AnchoredBelow
  <2>3. v \in s..(old.cur - 1) /\ v >= 1
    BY <1>1, <1>6, <2>2
  <2>4. call.blob = StoredDelta(v)
    BY <1>4, <2>1, <2>2, <2>3 DEF Anchor
  <2>5. published[v] \in Contents /\ published[v + 1] \in Contents
    <3>1. v \in 1..announced /\ v + 1 \in 1..announced
      BY <1>6, <2>3, ConsumerBefore
    <3> QED BY <3>1, ConsumerBefore DEF SharedInv, PublishedInv
  <2>6. StoredDelta(v) # NoBlob
    BY <1>6, <2>3, <2>5, StoredDeltaIsBlob
  <2> QED BY <2>1, <2>4, <2>6
<1>10. ASSUME call.blob # NoBlob
       PROVE  \/ /\ call.blob = StoredDelta(v) /\ Home[c] = Near /\ v >= 1
                 /\ Crashes => Anchored(v)
              \/ IsReadBack(call.blob) /\ (Home[c] # Near \/ Crashes) /\ Len(old.chain) = 0
  <2>1. CASE call.blob = StoredDelta(v) /\ Home[c] = Near /\ v >= 1
    <3>1. v \in 1..announced /\ v < MaxVersion
      BY <1>6, <2>1, ConsumerBefore
    <3>2. cache[Near][DeltaFrom(v)] # NoBlob /\ cache[Near][DeltaFrom(v)] = StoredDelta(v)
      BY <1>4, <1>10, <2>1
    <3>3. Crashes => Anchored(v)
      BY <3>1, <3>2, ConsumerBefore DEF SharedInv, AnchorInv
    <3> QED BY <2>1, <3>3
  <2>2. CASE IsReadBack(call.blob) /\ (Home[c] # Near \/ Crashes)
             /\ ~(call.blob = StoredDelta(v) /\ Home[c] = Near /\ v >= 1)
    <3>1. Len(old.chain) > 0 => Home[c] = Near
      BY <1>5 DEF Walk
    <3>2. ASSUME Len(old.chain) > 0 PROVE FALSE
      <4>1. Crashes /\ Home[c] = Near /\ call.blob = StoredDelta(v)
        BY <1>9, <2>2, <3>1, <3>2
      <4>2. v >= 1
        BY <1>1, <1>5, <3>2, <4>1 DEF Below, AnchoredBelow
      <4> QED BY <2>2, <4>1, <4>2
    <3> QED BY <1>5, <2>2, <3>2
  <2> QED BY <1>4, <1>7, <1>10, <2>1, <2>2 DEF CachedDelta
<1>11. ConsumerOk(c, r, call)
  <2>1. ConsumerRecord(r)
    BY <1>3, <1>5 DEF ConsumerRecord, Steps
  <2>2. ReadOk(c, r) /\ TargetOk(c, r) /\ Walk(c, r)
    BY <1>3, <1>5 DEF ReadOk, TargetOk, Walk
  <2>3. DeltaAsked(c, r, call)
    <3>1. r.cur - 1 = v /\ r.chain = old.chain /\ (v >= 1 <=> r.cur > 1)
      BY <1>1, <1>3, <1>5
    <3>2. call.pc = "get" /\ Crashes => Len(r.chain) = 0
      BY <1>4, <1>5, <1>9, <3>1
    <3> QED BY <1>4, <1>10, <3>1, <3>2 DEF DeltaAsked
  <2> QED BY <1>3, <1>5, <2>1, <2>2, <2>3 DEF ConsumerOk
<1> QED BY <1>1, <1>2, <1>4, <1>8, <1>11, ConsumerBefore, ConsumerMoves

LEMMA GetDeltaKeeps ==
  ASSUME OwnJanitor, S3Inv, ReadInv, NEW c \in Consumers, GetDelta(c)
  PROVE  ReadInv'
<1>1. PICK old, call, r, blob :
        /\ old = consumer[c] /\ call = thread[c] /\ blob = call.blob
        /\ r = IF blob = NoBlob THEN [old EXCEPT !.pc = "idle", !.chain = <<>>]
               ELSE [old EXCEPT !.pc = "plan", !.chain = <<blob>> \o old.chain, !.cur = blob.from]
  OBVIOUS
<1>2. /\ ConsumerOk(c, old, call) /\ old.pc = "delta"
      /\ Return(c) /\ ConsumerStep(c, r)
  BY <1>1, ConsumerBefore DEF GetDelta
<1>3. /\ UNCHANGED <<bucket, cache>> /\ \A t \in Threads \ {c} : thread'[t] = thread[t]
      /\ thread'[c] = NoCall /\ CallOk(c, NoCall)
  BY <1>2, ReturnIs, ConsumerBefore DEF CallOk
<1>4. /\ ConsumerRecord(old) /\ old.chain \in Seq(Blobs) /\ Len(old.chain) \in Nat
      /\ old.target \in Nat /\ old.cur \in Nat /\ old.from \in Nat
      /\ TargetOk(c, old) /\ ReadOk(c, old)
      /\ old.from = old.readVersion /\ Walk(c, old) /\ old.cur > old.from
      /\ old.cur <= announced /\ DeltaAsked(c, old, call)
  BY <1>2 DEF ConsumerOk, ConsumerRecord
<1>5. CASE blob = NoBlob
  <2>1. r = [pc |-> "idle", target |-> old.target, from |-> old.from, cur |-> old.cur,
             chain |-> <<>>, readVersion |-> old.readVersion, readContent |-> old.readContent]
    BY <1>1, <1>4, <1>5 DEF ConsumerRecord
  <2>2. ConsumerRecord(r)
    BY <1>4, <2>1 DEF ConsumerRecord, Steps
  <2>3. ReadOk(c, r)
    BY <1>4, <2>1 DEF ReadOk
  <2>4. ConsumerOk(c, r, NoCall)
    BY <2>1, <2>2, <2>3 DEF ConsumerOk
  <2> QED BY <1>2, <1>3, <2>4, ConsumerBefore, ConsumerMoves
<1>6. CASE blob # NoBlob
  <2>1. PICK chain : chain = <<blob>> \o old.chain
    OBVIOUS
  <2>2. r = [pc |-> "plan", target |-> old.target, from |-> old.from, cur |-> blob.from,
             chain |-> chain, readVersion |-> old.readVersion, readContent |-> old.readContent]
    BY <1>1, <1>4, <1>6, <2>1 DEF ConsumerRecord
  <2>3. ReadOk(c, r) /\ TargetOk(c, r)
    BY <1>4, <2>2 DEF ReadOk, TargetOk
  <2>4. CASE /\ blob = StoredDelta(old.cur - 1) /\ Home[c] = Near /\ old.cur > 1
             /\ Crashes => Anchored(old.cur - 1)
    <3>1. PICK v : v = old.cur - 1
      OBVIOUS
    <3>2. v \in 1..MaxVersion /\ v < MaxVersion /\ v \in 1..announced /\ v + 1 \in 1..announced
      BY <1>4, <2>4, <3>1, ConsumerBefore
    <3>3. published[v] \in Contents /\ published[v + 1] \in Contents
      BY <3>2, ConsumerBefore DEF SharedInv, PublishedInv
    <3>4. blob \in Blobs /\ blob.from = v /\ blob = StoredDelta(v)
      BY <2>4, <3>1, <3>2, <3>3, StoredDeltaIsBlob
    <3>5. /\ chain \in Seq(Blobs) /\ Len(chain) = Len(old.chain) + 1 /\ chain[1] = blob
          /\ \A i \in 2..Len(chain) : chain[i] = old.chain[i - 1]
      BY <1>4, <2>1, <3>4, InFront
    <3>6. ConsumerRecord(r)
      BY <1>4, <2>2, <3>2, <3>4, <3>5 DEF ConsumerRecord, Steps
    <3>7. ASSUME NEW i \in 1..Len(chain) PROVE chain[i] = StoredDelta(v + i - 1)
      <4>1. CASE i = 1
        BY <3>2, <3>4, <3>5, <4>1
      <4>2. CASE i # 1
        <5>0. PICK n, m : n = Len(old.chain) /\ m = old.cur /\ n \in Nat /\ m \in Nat
          BY <1>4
        <5>1. i - 1 \in 1..Len(old.chain) /\ old.cur + (i - 1) - 1 = v + i - 1
          <6>1. i \in 1..(n + 1) /\ i # 1 /\ v = m - 1
            BY <3>1, <3>5, <4>2, <5>0
          <6>2. i - 1 \in 1..n /\ m + (i - 1) - 1 = v + i - 1
            BY ONLY <5>0, <6>1
          <6> QED BY ONLY <5>0, <6>2
        <5>2. old.chain[i - 1] = StoredDelta(old.cur + (i - 1) - 1)
          BY <1>4, <5>1 DEF Walk, Deltas
        <5> QED BY <3>5, <4>2, <5>1, <5>2
      <4> QED BY <4>1, <4>2
    <3>8. r.cur = v /\ r.chain = chain /\ r.target = old.target /\ r.from = old.from
      BY <2>2, <3>4
    <3>9. Deltas(r.chain, r.cur)
      BY <3>7, <3>8 DEF Deltas
    <3>10. r.cur = r.target - Len(r.chain)
      BY <1>4, <3>1, <3>5, <3>8 DEF Walk
    <3>11. Walk(c, r)
      BY <1>4, <2>4, <3>1, <3>2, <3>8, <3>9, <3>10, ConsumerBefore DEF Walk
    <3>12. ConsumerOk(c, r, NoCall)
      BY <1>4, <2>2, <2>3, <3>6, <3>11 DEF ConsumerOk
    <3> QED BY <1>2, <1>3, <3>12, ConsumerBefore, ConsumerMoves
  <2>5. CASE IsReadBack(blob) /\ (Home[c] # Near \/ Crashes) /\ Len(old.chain) = 0
    <3>1. blob \in Blobs /\ blob.type = "delta" /\ blob.from = 0 /\ blob.to = 0
      BY <2>5 DEF IsReadBack
    <3>2. chain \in Seq(Blobs) /\ Len(chain) = 1 /\ chain[1] = blob
      BY <1>4, <2>1, <2>5, <3>1, InFront
    <3>3. ConsumerRecord(r)
      BY <1>4, <2>2, <3>1, <3>2 DEF ConsumerRecord, Steps
    <3>4. Lost(c, r)
      BY <2>2, <2>5, <3>1, <3>2 DEF Lost
    <3>5. ConsumerOk(c, r, NoCall)
      BY <1>4, <2>2, <2>3, <3>3, <3>4 DEF ConsumerOk
    <3> QED BY <1>2, <1>3, <3>5, ConsumerBefore, ConsumerMoves
  <2> QED BY <1>1, <1>4, <1>6, <2>4, <2>5 DEF DeltaAsked
<1> QED BY <1>5, <1>6

LEMMA PlanReachedKeeps ==
  ASSUME OwnJanitor, S3Inv, ReadInv, NEW c \in Consumers, PlanReached(c)
  PROVE  ReadInv'
<1>1. PICK old, call, r :
        old = consumer[c] /\ call = thread[c] /\ r = [old EXCEPT !.pc = "apply"]
  OBVIOUS
<1>2. /\ ConsumerOk(c, old, call) /\ CallOk(c, call) /\ old.pc = "plan" /\ old.cur <= old.from
      /\ UNCHANGED <<bucket, cache, thread>> /\ ConsumerStep(c, r)
  BY <1>1, ConsumerBefore DEF PlanReached, storeVars
<1>3. r = [pc |-> "apply", target |-> old.target, from |-> old.from, cur |-> old.cur,
           chain |-> old.chain, readVersion |-> old.readVersion, readContent |-> old.readContent]
  BY <1>1, <1>2 DEF ConsumerOk, ConsumerRecord
<1>4. /\ ConsumerRecord(old) /\ Len(old.chain) \in Nat
      /\ old.target \in Nat /\ old.cur \in Nat /\ old.from \in Nat
      /\ TargetOk(c, old) /\ ReadOk(c, old)
      /\ old.from = old.readVersion /\ (Walk(c, old) \/ Lost(c, old))
  BY <1>2 DEF ConsumerOk, ConsumerRecord
<1>5. ConsumerRecord(r) /\ ReadOk(c, r) /\ TargetOk(c, r)
  BY <1>3, <1>4 DEF ConsumerRecord, Steps, ReadOk, TargetOk
<1>6. Applying(c, r)
  <2>1. CASE Lost(c, old)
    BY <1>3, <2>1 DEF Applying, Lost
  <2>2. CASE Walk(c, old) /\ Len(old.chain) = 0
    BY <1>2, <1>3, <1>4, <2>2 DEF Applying, Walk
  <2>3. CASE Walk(c, old) /\ Len(old.chain) > 0
    <3>1. /\ old.cur = old.target - Len(old.chain) /\ Deltas(old.chain, old.cur)
          /\ old.cur >= 1 /\ old.cur = old.readVersion
      BY <1>2, <1>4, <2>3 DEF Walk
    <3>2. Deltas(r.chain, r.target - Len(r.chain))
      BY <1>3, <3>1
    <3>3. r.target - Len(r.chain) = old.cur /\ r.readVersion = old.cur /\ Len(r.chain) > 0
      BY <1>3, <2>3, <3>1
    <3> QED BY <3>1, <3>2, <3>3 DEF Applying
  <2> QED BY <1>4, <2>1, <2>2, <2>3
<1>7. ConsumerOk(c, r, call)
  BY <1>3, <1>5, <1>6 DEF ConsumerOk
<1> QED BY <1>1, <1>2, <1>7, ConsumerBefore, ConsumerMoves

LEMMA FinishRefreshKeeps ==
  ASSUME OwnJanitor, S3Inv, ReadInv, NEW c \in Consumers, FinishRefresh(c)
  PROVE  ReadInv'
<1>1. PICK old, call, r :
        old = consumer[c] /\ call = thread[c] /\ r = [old EXCEPT !.pc = "idle"]
  OBVIOUS
<1>2. /\ ConsumerOk(c, old, call) /\ CallOk(c, call)
      /\ UNCHANGED <<bucket, cache, thread>> /\ ConsumerStep(c, r)
  BY <1>1, ConsumerBefore DEF FinishRefresh, storeVars
<1>3. r = [pc |-> "idle", target |-> old.target, from |-> old.from, cur |-> old.cur,
           chain |-> old.chain, readVersion |-> old.readVersion, readContent |-> old.readContent]
  BY <1>1, <1>2 DEF ConsumerOk, ConsumerRecord
<1>4. ConsumerRecord(r) /\ ReadOk(c, r)
  BY <1>2, <1>3 DEF ConsumerOk, ConsumerRecord, Steps, ReadOk
<1>5. ConsumerOk(c, r, call)
  BY <1>3, <1>4 DEF ConsumerOk
<1> QED BY <1>1, <1>2, <1>5, ConsumerBefore, ConsumerMoves

LEMMA ApplyBlobKeeps ==
  ASSUME OwnJanitor, DeltasApply, S3Inv, ReadInv, NEW c \in Consumers, ApplyBlob(c)
  PROVE  ReadInv'
<1>1. PICK old, call, blob, r :
        /\ old = consumer[c] /\ call = thread[c] /\ blob = Head(old.chain)
        /\ r = [Applied(old, blob) EXCEPT !.chain = Tail(@)]
  OBVIOUS
<1>2. /\ ConsumerOk(c, old, call) /\ CallOk(c, call) /\ old.pc = "apply" /\ old.chain # <<>>
      /\ UNCHANGED <<bucket, cache, thread>> /\ ConsumerStep(c, r)
  BY <1>1, ConsumerBefore DEF ApplyBlob, storeVars
<1>3. /\ ConsumerRecord(old) /\ old.chain \in Seq(Blobs)
      /\ old.target \in Nat /\ old.readVersion \in Nat /\ old.from \in Nat /\ old.cur \in Nat
      /\ TargetOk(c, old) /\ ReadOk(c, old) /\ Applying(c, old)
  BY <1>2 DEF ConsumerOk, ConsumerRecord
<1>4. PICK chain, first : chain = Tail(old.chain) /\ first = old.target - Len(old.chain)
  OBVIOUS
<1>5. /\ blob = old.chain[1] /\ chain \in Seq(Blobs)
      /\ Len(old.chain) \in Nat /\ Len(old.chain) > 0
      /\ Len(chain) = Len(old.chain) - 1 /\ Len(chain) \in Nat
      /\ \A i \in 1..(Len(old.chain) - 1) : chain[i] = old.chain[i + 1]
      /\ blob \in Blobs
  BY <1>1, <1>2, <1>3, <1>4, WithoutFirst
<1>6. PICK version, content :
        /\ version = (IF blob.type = "snapshot" THEN blob.version ELSE blob.to)
        /\ content = (IF blob.type = "snapshot" THEN blob.data
                      ELSE ApplyDelta(old.readContent, blob.data))
  OBVIOUS
<1>7. r = [pc |-> "apply", target |-> old.target, from |-> old.from, cur |-> old.cur,
           chain |-> chain, readVersion |-> version, readContent |-> content]
  <2>1. ConsumerRecord(old) /\ old.pc = "apply"
    BY <1>2, <1>3
  <2>2. [old EXCEPT !.readVersion = version, !.readContent = content] =
          [pc |-> old.pc, target |-> old.target, from |-> old.from, cur |-> old.cur,
           chain |-> old.chain, readVersion |-> version, readContent |-> content]
    <3>1. PICK o, v, w : o = old /\ v = version /\ w = content
      OBVIOUS
    <3>2. o = [pc |-> o.pc, target |-> o.target, from |-> o.from, cur |-> o.cur, chain |-> o.chain,
               readVersion |-> o.readVersion, readContent |-> o.readContent]
      BY <2>1, <3>1 DEF ConsumerRecord
    <3>3. PICK a, f : /\ a = [pc |-> o.pc, target |-> o.target, from |-> o.from, cur |-> o.cur,
                              chain |-> o.chain, readVersion |-> v, readContent |-> o.readContent]
                      /\ f = [o EXCEPT !.readVersion = v]
      OBVIOUS
    <3>4. f = a
      BY ONLY <3>2, <3>3
    <3>5. PICK b, t, m, u, h, x, y :
            /\ b = o.pc /\ t = o.target /\ m = o.from /\ u = o.cur /\ h = o.chain
            /\ x = v /\ y = o.readContent
      OBVIOUS
    <3>6. f = [pc |-> b, target |-> t, from |-> m, cur |-> u, chain |-> h,
               readVersion |-> x, readContent |-> y]
      BY ONLY <3>3, <3>4, <3>5
    <3>7. [f EXCEPT !.readContent = w] =
            [pc |-> b, target |-> t, from |-> m, cur |-> u, chain |-> h,
             readVersion |-> x, readContent |-> w]
      BY ONLY <3>6
    <3>8. [o EXCEPT !.readVersion = v, !.readContent = w] = [f EXCEPT !.readContent = w]
      BY ONLY <3>3
    <3> QED BY ONLY <3>1, <3>5, <3>7, <3>8
  <2>3. PICK applied : applied = Applied(old, blob)
    OBVIOUS
  <2>4. applied = [old EXCEPT !.readVersion = version, !.readContent = content]
    BY <1>6, <2>3 DEF Applied
  <2>5. applied.chain = old.chain
    BY <2>2, <2>4
  <2>6. r = [applied EXCEPT !.chain = Tail(applied.chain)]
    BY <1>1, <2>3
  <2>7. r = [applied EXCEPT !.chain = chain]
    BY <1>4, <2>5, <2>6
  <2> QED BY <2>1, <2>2, <2>4, <2>7
<1>8. version \in Nat
  BY <1>5, <1>6 DEF Blobs, BlobsOf
<1>9. ConsumerRecord(r) /\ TargetOk(c, r)
  BY <1>3, <1>5, <1>7, <1>8 DEF ConsumerRecord, Steps, TargetOk
<1>10. ASSUME NEW v \in 1..old.target
       PROVE  Held(c, v) /\ published[v] \in Contents /\ v \in 1..MaxVersion
  <2>1. CASE v \in 1..announced
    BY <2>1, ConsumerBefore DEF Held, SharedInv, PublishedInv
  <2>2. CASE v \notin 1..announced
    <3>1. Home[c] = Near /\ Snapping /\ v = announced + 1 /\ Storing
      BY <1>3, <2>2, ConsumerBefore DEF TargetOk, Snapping
    <3>2. published[announced + 1] \in Contents
      BY <3>1, ConsumerBefore DEF SharedInv, PublishedInv
    <3> QED BY <3>1, <3>2, ConsumerBefore DEF Held
  <2> QED BY <2>1, <2>2
<1>11. CASE Lost(c, old)
  <2>1. version = 0 /\ Len(chain) = 0 /\ (Home[c] # Near \/ Crashes)
    BY <1>5, <1>6, <1>11 DEF Lost
  <2>2. ReadOk(c, r) /\ Applying(c, r)
    BY <1>7, <2>1 DEF ReadOk, Applying
  <2> QED BY <1>1, <1>2, <1>7, <1>9, <2>2, ConsumerBefore, ConsumerMoves DEF ConsumerOk
<1>12. ASSUME first \in Nat, version = first + 1, content = published[first + 1],
              \A i \in 2..Len(old.chain) : old.chain[i] = StoredDelta(first + i - 1)
       PROVE  ReadInv'
  <2>1. first + 1 \in 1..old.target
    BY <1>3, <1>4, <1>5, <1>12
  <2>2. ReadOk(c, r)
    BY <1>7, <1>10, <1>12, <2>1 DEF ReadOk
  <2>3. r.target - Len(r.chain) = first + 1 /\ r.chain = chain /\ r.readVersion = first + 1
    BY <1>3, <1>4, <1>5, <1>7, <1>12
  <2>4. CASE Len(chain) = 0
    <3>1. r.readVersion = r.target
      BY <1>3, <1>5, <1>7, <2>3, <2>4
    <3>2. Applying(c, r)
      BY <2>3, <2>4, <3>1 DEF Applying
    <3> QED BY <1>1, <1>2, <1>7, <1>9, <2>2, <3>2, ConsumerBefore, ConsumerMoves DEF ConsumerOk
  <2>5. CASE Len(chain) > 0
    <3>1. ASSUME NEW i \in 1..Len(chain) PROVE chain[i] = StoredDelta(first + 1 + i - 1)
      <4>1. i + 1 \in 2..Len(old.chain) /\ first + (i + 1) - 1 = first + 1 + i - 1
        BY <1>5, <1>12
      <4>2. old.chain[i + 1] = StoredDelta(first + (i + 1) - 1)
        BY <1>12, <4>1
      <4> QED BY <1>5, <4>1, <4>2
    <3>2. Deltas(chain, first + 1)
      BY <3>1 DEF Deltas
    <3>3. Applying(c, r)
      BY <1>12, <2>3, <2>5, <3>2 DEF Applying
    <3> QED BY <1>1, <1>2, <1>7, <1>9, <2>2, <3>3, ConsumerBefore, ConsumerMoves DEF ConsumerOk
  <2>6. Len(chain) = 0 \/ Len(chain) > 0
    <3>1. PICK n : n = Len(chain) /\ n \in Nat
      BY <1>5
    <3> QED BY ONLY <3>1
  <2> QED BY <2>4, <2>5, <2>6
<1>13. CASE /\ first >= 0 /\ IsSnapshot(first + 1, old.chain[1])
            /\ \A i \in 2..Len(old.chain) : old.chain[i] = StoredDelta(first + i - 1)
  <2>1. first \in Nat
    BY <1>3, <1>4, <1>5, <1>13
  <2>2. version = first + 1 /\ content = published[first + 1]
    BY <1>5, <1>6, <1>13 DEF IsSnapshot
  <2> QED BY <1>12, <1>13, <2>1, <2>2
<1>14. CASE first >= 1 /\ Deltas(old.chain, first) /\ old.readVersion = first
  <2>1. first \in Nat /\ first \in 1..old.target /\ first + 1 \in 1..old.target
    BY <1>3, <1>4, <1>5, <1>14
  <2>2. blob = StoredDelta(first)
    <3>1. 1 \in 1..Len(old.chain) /\ first + 1 - 1 = first
      BY <1>5, <2>1
    <3>2. old.chain[1] = StoredDelta(first + 1 - 1)
      BY <1>14, <3>1 DEF Deltas
    <3> QED BY <1>5, <3>1, <3>2
  <2>3. /\ first \in 1..MaxVersion /\ first < MaxVersion
        /\ published[first] \in Contents /\ published[first + 1] \in Contents
    BY <1>10, <2>1
  <2>4. /\ blob.type = "delta" /\ blob.to = first + 1
        /\ blob.data = DeltaOfPlain(published[first], published[first + 1])
    BY <2>2, <2>3, StoredDeltaIsBlob
  <2>5. old.readContent = published[first]
    BY <1>3, <1>14, <2>1 DEF ReadOk
  <2>6. version = first + 1 /\ content = published[first + 1]
    BY <1>6, <2>3, <2>4, <2>5 DEF DeltasApply
  <2>7. \A i \in 2..Len(old.chain) : old.chain[i] = StoredDelta(first + i - 1)
    BY <1>14 DEF Deltas
  <2> QED BY <1>12, <2>1, <2>6, <2>7
<1> QED BY <1>3, <1>4, <1>5, <1>11, <1>13, <1>14 DEF Applying

LEMMA ConsumerKeepsReads ==
  ASSUME OwnJanitor, DeltasApply, S3Inv, ReadInv, NEW c \in Consumers, ConsumerNext(c)
  PROVE  ReadInv'
  BY BeginRefreshKeeps, AskForSnapshotKeeps, GetSnapshotKeeps, AskForDeltaKeeps, GetDeltaKeeps,
     PlanReachedKeeps, ApplyBlobKeeps, FinishRefreshKeeps DEF ConsumerNext

(***************************************************************************)
(* The steps of the producer                                               *)
(***************************************************************************)
LEMMA Before ==
  ASSUME OwnJanitor, S3Inv, ReadInv
  PROVE  /\ announced \in Nat /\ announced <= MaxVersion /\ Near \in Processes
         /\ SharedInv /\ ConsumersInv /\ StoreTypes /\ ThreadInv
         /\ \A v \in 1..announced : published[v] \in Contents
         /\ (Storing => announced < MaxVersion /\ published[announced + 1] \in Contents)
         /\ \A c \in Consumers : c \in Threads \ {Janitor} /\ c # Producer
<1>1. \A c \in Consumers : c \in Threads \ {Janitor} /\ c # Producer
  BY DEF Consumers
<1>2. Near \in Processes
  BY DEF Near
<1> QED
  BY <1>1, <1>2 DEF S3Inv, ProducerInv, ReadInv, SharedInv, PublishedInv, Storing

LEMMA OthersRest ==
  ASSUME OwnJanitor, S3Inv, ReadInv, SharedInv', UNCHANGED consumer,
         \A c \in Consumers : Stays(c) /\ thread'[c] = thread[c]
  PROVE  ReadInv'
<1>1. ConsumersInv'
  BY Before, ConsumersRest
<1> QED BY <1>1 DEF SharedInv, ReadInv

(* What a call of Store starts with. *)
LEMMA StoreIs ==
  ASSUME StoreTypes, ThreadInv, NEW blob, Store(Producer, blob)
  PROVE  /\ UNCHANGED bucket
         /\ \A u \in Threads \ {Producer} : thread'[u] = thread[u]
         /\ thread'[Producer].pc = "put" /\ thread'[Producer].name = ObjectName(blob)
         /\ thread'[Producer].blob = blob
         /\ \A p \in Processes : \A n \in Names :
              cache'[p][n] = IF p = Near /\ n = ObjectName(blob) THEN blob ELSE cache[p][n]
<1>1. PICK name : name = ObjectName(blob)
  OBVIOUS
<1>2. /\ UNCHANGED bucket
      /\ InCache(Producer, name, blob) /\ Goto(Producer, "put", name, blob)
  BY <1>1 DEF Store
<1>3. thread' = [u \in Threads |->
                   IF u = Producer THEN [pc |-> "put", name |-> name, blob |-> blob] ELSE thread[u]]
  BY <1>2 DEF Goto, ThreadInv
<1>4. \A p \in Processes : \A n \in Names :
        cache'[p][n] = IF p = Near /\ n = name THEN blob ELSE cache[p][n]
  BY <1>2, InCacheOnly DEF Near
<1> QED BY <1>1, <1>2, <1>3, <1>4

(* What RunCycle stores, *)
LEMMA RunCycleStores ==
  ASSUME OwnJanitor, S3Inv, ReadInv, NEW content \in Contents, RunCycle(content)
  PROVE  \E name, blob :
    /\ Store(Producer, blob) /\ name = ObjectName(blob) /\ blob \in Blobs
    /\ ~Storing /\ Storing' /\ announced < MaxVersion
    /\ producer.pc = "ready"
    /\ UNCHANGED <<announced, consumer, situation>>
    /\ published' = [v \in Versions |-> IF v = announced + 1 THEN content ELSE published[v]]
    /\ \/ /\ Snapping' /\ producer'.lastSnapshotVersion = announced + 1
          /\ name = SnapshotOf(announced + 1)
          /\ blob.type = "snapshot" /\ blob.version = announced + 1 /\ blob.data = content
       \/ /\ ~Snapping' /\ producer'.lastSnapshotVersion = producer.lastSnapshotVersion
          /\ producer.lastSnapshotVersion \in 1..announced /\ announced \in 1..MaxVersion
          /\ name = DeltaFrom(announced) /\ blob = StoredDelta(announced)'
          /\ blob.data \in Data
<1>1. /\ producer.pc = "ready" /\ producer.currentVersion = announced
      /\ producer = [pc |-> producer.pc, currentVersion |-> producer.currentVersion,
                     lastSnapshotVersion |-> producer.lastSnapshotVersion]
      /\ UNCHANGED <<announced, consumer, situation>>
      /\ announced + 1 \in Versions /\ announced \in Nat
      /\ producer.lastSnapshotVersion \in 0..announced
      /\ published = [v \in Versions |-> published[v]]
      /\ \A v \in 1..announced : published[v] \in Contents
  BY Before DEF RunCycle, S3Inv, ProducerInv, SharedInv, PublishedInv, Snapping, Storing
<1>2. announced < MaxVersion /\ ~Storing
  BY <1>1 DEF Versions, Storing
<1>3. published' = [v \in Versions |-> IF v = announced + 1 THEN content ELSE published[v]]
  <2>1. published' = [published EXCEPT ![announced + 1] = content]
    BY <1>1 DEF RunCycle
  <2> QED BY <1>1, <2>1
<1>4. CASE ShouldCreateSnapshot(announced + 1)
  <2> DEFINE blob == [type |-> "snapshot", version |-> announced + 1, from |-> 0,
                      to |-> announced + 1, data |-> content]
  <2>1. Store(Producer, blob)
    BY <1>1, <1>4, Zenon DEF RunCycle
  <2>2. producer' = [pc |-> "storing", currentVersion |-> producer.currentVersion,
                     lastSnapshotVersion |-> announced + 1]
    BY <1>1, <1>4 DEF RunCycle
  <2>3. blob \in Blobs
    BY <1>1, <1>2 DEF Blobs, BlobsOf, BlobTypes, Data
  <2>4. ObjectName(blob) = SnapshotOf(announced + 1)
    BY DEF ObjectName, SnapshotOf
  <2>5. Storing' /\ Snapping'
    BY <1>1, <2>2 DEF Storing, Snapping
  <2> QED BY <1>1, <1>2, <1>3, <2>1, <2>2, <2>3, <2>4, <2>5
<1>5. CASE ~ShouldCreateSnapshot(announced + 1)
  <2> DEFINE data == DeltaOfPlain(published[announced], content)
             blob == [type |-> "delta", version |-> announced + 1, from |-> announced,
                      to |-> announced + 1, data |-> data]
  <2>1. Store(Producer, blob)
    BY <1>1, <1>5, Zenon DEF RunCycle
  <2>2. producer' = [pc |-> "storing", currentVersion |-> producer.currentVersion,
                     lastSnapshotVersion |-> producer.lastSnapshotVersion]
    BY <1>1, <1>5 DEF RunCycle
  <2>3. producer.lastSnapshotVersion \in 1..announced /\ announced \in 1..announced
    BY <1>1, <1>5 DEF ShouldCreateSnapshot
  <2>4. data \in Data
    <3>1. published[announced] \in Contents
      BY <1>1, <2>3
    <3> QED BY <3>1 DEF Data, Changes
  <2>5. /\ published'[announced] = published[announced] /\ published'[announced + 1] = content
    BY <1>1, <1>3, <2>3 DEF Versions
  <2>6. blob = StoredDelta(announced)'
    BY <1>1, <2>5 DEF StoredDelta
  <2> HIDE DEF data
  <2>7. blob \in Blobs /\ blob.data = data
    BY <1>1, <1>2, <2>4 DEF Blobs, BlobsOf, BlobTypes
  <2>8. ObjectName(blob) = DeltaFrom(announced)
    BY DEF ObjectName, DeltaFrom
  <2>9. Storing' /\ ~Snapping'
    BY <1>1, <2>2, <2>3 DEF Storing, Snapping
  <2>10. announced \in 1..MaxVersion
    BY <1>2, <2>3
  <2>11. producer'.lastSnapshotVersion = producer.lastSnapshotVersion
    BY <2>2
  <2> HIDE DEF blob
  <2> QED BY <1>1, <1>2, <1>3, <2>1, <2>3, <2>4, <2>6, <2>7, <2>8, <2>9, <2>10, <2>11
<1> QED BY <1>4, <1>5

LEMMA RunCycleKeepsReads ==
  ASSUME OwnJanitor, S3Inv, ReadInv, NEW content \in Contents, RunCycle(content)
  PROVE  ReadInv'
<1>1. PICK name, blob :
    /\ Store(Producer, blob) /\ name = ObjectName(blob) /\ blob \in Blobs
    /\ ~Storing /\ Storing' /\ announced < MaxVersion
    /\ producer.pc = "ready"
    /\ UNCHANGED <<announced, consumer, situation>>
    /\ published' = [v \in Versions |-> IF v = announced + 1 THEN content ELSE published[v]]
    /\ \/ /\ Snapping' /\ producer'.lastSnapshotVersion = announced + 1
          /\ name = SnapshotOf(announced + 1)
          /\ blob.type = "snapshot" /\ blob.version = announced + 1 /\ blob.data = content
       \/ /\ ~Snapping' /\ producer'.lastSnapshotVersion = producer.lastSnapshotVersion
          /\ producer.lastSnapshotVersion \in 1..announced /\ announced \in 1..MaxVersion
          /\ name = DeltaFrom(announced) /\ blob = StoredDelta(announced)'
          /\ blob.data \in Data
  BY RunCycleStores, Zenon
<1>2. /\ UNCHANGED bucket
      /\ \A u \in Threads \ {Producer} : thread'[u] = thread[u]
      /\ thread'[Producer].pc = "put" /\ thread'[Producer].name = name
      /\ thread'[Producer].blob = blob
      /\ \A p \in Processes : \A n \in Names :
           cache'[p][n] = IF p = Near /\ n = name THEN blob ELSE cache[p][n]
  BY <1>1, StoreIs, Before, Zenon
<1>3. /\ announced \in Nat /\ announced' = announced /\ announced + 1 \in Versions
      /\ 1..announced \subseteq Versions
      /\ Near' = Near /\ (Crashes' <=> Crashes) /\ producer'.pc = "storing" /\ Near \in Processes
      /\ SharedInv /\ blob # NoBlob /\ producer'.lastSnapshotVersion # 0
      /\ producer'.lastSnapshotVersion \in 1..(announced + 1)
      /\ ~Snapping' => producer'.lastSnapshotVersion \in 1..announced
  BY <1>1, Before, BlobsAreSomething DEF Near, Crashes, Versions, Storing
<1>4. /\ published' = [v \in Versions |-> published'[v]]
      /\ published'[announced + 1] = content
      /\ \A v \in 1..announced : published'[v] = published[v]
  <2>1. PICK new : new = published'
    OBVIOUS
  <2>2. new = [v \in Versions |-> IF v = announced + 1 THEN content ELSE published[v]]
    BY <1>1, <2>1
  <2>3. /\ new = [v \in Versions |-> new[v]] /\ new[announced + 1] = content
        /\ \A v \in 1..announced : new[v] = published[v]
    BY ONLY <1>3, <2>2
  <2> QED BY <2>1, <2>3
<1>5. PublishedInv'
  <2>1. /\ \A v \in 1..announced : published'[v] \in Contents
        /\ published'[announced + 1] \in Contents
    BY <1>3, <1>4 DEF SharedInv, PublishedInv
  <2> QED BY <1>1, <1>3, <1>4, <2>1 DEF SharedInv, PublishedInv
<1>6. CacheInv'
  <2>1. ASSUME NEW p \in Processes, NEW v \in 0..MaxVersion PROVE CachedSnapshot(p, v)'
    <3>1. SnapshotOf(v) \in Names /\ CachedSnapshot(p, v)
      BY <1>3, NamesOfBlobs DEF SharedInv, CacheInv
    <3>2. CASE p = Near /\ SnapshotOf(v) = name
      <4>1. Snapping' /\ v = announced + 1
        BY <1>1, <1>3, <3>2, NamesOfBlobs DEF Versions
      <4>2. cache'[p][SnapshotOf(v)] = blob
        BY <1>2, <3>1, <3>2
      <4>3. blob.type = "snapshot" /\ blob.version = v /\ blob.data = published'[v]
        BY <1>1, <1>4, <4>1
      <4> QED BY <1>1, <1>3, <3>2, <4>1, <4>2, <4>3 DEF CachedSnapshot, IsSnapshot
    <3>3. CASE ~(p = Near /\ SnapshotOf(v) = name)
      <4>1. cache'[p][SnapshotOf(v)] = cache[p][SnapshotOf(v)]
        BY <1>2, <3>1, <3>3
      <4> QED BY <1>1, <1>3, <1>4, <3>1, <4>1 DEF CachedSnapshot, IsSnapshot, Snapping
    <3> QED BY <3>2, <3>3
  <2>2. ASSUME NEW p \in Processes, NEW v \in 0..MaxVersion PROVE CachedDelta(p, v)'
    <3>1. DeltaFrom(v) \in Names /\ CachedDelta(p, v)
      BY <1>3, NamesOfBlobs DEF SharedInv, CacheInv
    <3>2. CASE p = Near /\ DeltaFrom(v) = name
      <4>1. ~Snapping' /\ v = announced
        BY <1>1, <1>3, <3>2, NamesOfBlobs DEF Versions
      <4>2. cache'[p][DeltaFrom(v)] = StoredDelta(v)'
        BY <1>1, <1>2, <3>1, <3>2, <4>1
      <4> QED BY <1>1, <1>3, <3>2, <4>1, <4>2 DEF CachedDelta
    <3>3. CASE ~(p = Near /\ DeltaFrom(v) = name)
      <4>1. cache'[p][DeltaFrom(v)] = cache[p][DeltaFrom(v)]
        BY <1>2, <3>1, <3>3
      <4>2. ASSUME v \in 1..(announced - 1) PROVE StoredDelta(v)' = StoredDelta(v)
        BY <1>3, <1>4, <4>2 DEF StoredDelta
      <4>3. cache[p][DeltaFrom(v)] # NoBlob =>
              \/ IsReadBack(cache[p][DeltaFrom(v)]) /\ (p # Near \/ Crashes)
              \/ /\ p = Near /\ cache[p][DeltaFrom(v)] = StoredDelta(v)'
                 /\ v \in 1..(announced - 1)
        BY <1>1, <3>1, <4>2 DEF CachedDelta
      <4> QED BY <1>3, <4>1, <4>3 DEF CachedDelta, IsReadBack
    <3> QED BY <3>2, <3>3
  <2> QED BY <2>1, <2>2 DEF CacheInv
<1>7. BucketInv'
  <2>1. ASSUME NEW v \in 0..MaxVersion PROVE StoredSnapshot(v)'
    <3>1. StoredSnapshot(v)
      BY <1>3 DEF SharedInv, BucketInv
    <3>2. ASSUME v = announced + 1, bucket[SnapshotOf(v)] # NoBlob PROVE Crashes /\ Snapping'
      BY <1>1, <1>3, <3>1, <3>2 DEF StoredSnapshot
    <3> QED BY <1>1, <1>2, <1>3, <1>4, <3>1, <3>2 DEF StoredSnapshot
  <2>2. ASSUME NEW v \in 0..MaxVersion PROVE StoredChange(v)'
    <3>1. StoredChange(v) /\ DeltaFrom(v) \in Names
      BY <1>3, NamesOfBlobs DEF SharedInv, BucketInv
    <3>2. cache[Near][DeltaFrom(v)] # NoBlob => cache'[Near][DeltaFrom(v)] # NoBlob
      BY <1>2, <1>3, <3>1
    <3> QED BY <1>2, <1>3, <3>1, <3>2 DEF StoredChange
  <2> QED BY <2>1, <2>2 DEF BucketInv
<1>8. name \in Names /\ cache'[Near][name] = blob
  <2>1. name \in Names
    BY <1>1, <1>3, NamesOfBlobs DEF Versions
  <2> QED BY <1>2, <1>3, <2>1
<1>9. StoringInv'
  BY <1>1, <1>2, <1>3, <1>4, <1>8 DEF StoringInv
<1>10. PublishedStays
  BY <1>4 DEF PublishedStays
<1>11. ASSUME NEW v \in 1..announced
       PROVE  /\ cache'[Near][SnapshotOf(v)] = cache[Near][SnapshotOf(v)]
              /\ v < announced => cache'[Near][DeltaFrom(v)] = cache[Near][DeltaFrom(v)]
  <2>1. /\ SnapshotOf(v) \in Names /\ DeltaFrom(v) \in Names
        /\ SnapshotOf(v) # name /\ (v < announced => DeltaFrom(v) # name)
    BY <1>1, <1>3, NamesOfBlobs DEF Versions
  <2> QED BY <1>2, <1>3, <2>1
<1>12. AnchorsStay
  BY <1>3, <1>10, <1>11, AnchorsRemain
<1>13. AnchorInv'
  <2> PICK n : n = announced
    OBVIOUS
  <2>1. ASSUME Crashes, NEW v \in 1..announced, cache'[Near][DeltaFrom(v)] # NoBlob,
               cache'[Near][DeltaFrom(v)] = StoredDelta(v)', v < announced
        PROVE  Anchored(v)'
    <3>1. StoredDelta(v)' = StoredDelta(v)
      BY <1>3, <1>4, <2>1 DEF StoredDelta
    <3>2. Anchored(v)
      BY <1>3, <1>11, <2>1, <3>1, Before DEF SharedInv, AnchorInv
    <3> QED BY <1>12, <2>1, <3>2 DEF AnchorsStay
  <2>2. ASSUME Crashes, ~Snapping' PROVE Anchored(n)'
    <3>1. Anchored(n) /\ n \in 1..announced
      BY <1>1, <1>3, <2>2 DEF SharedInv, AnchorInv
    <3> QED BY <1>12, <2>2, <3>1 DEF AnchorsStay
  <2>3. ASSUME Snapping', announced \in 1..announced, cache'[Near][DeltaFrom(announced)] # NoBlob,
               cache'[Near][DeltaFrom(announced)] = StoredDelta(announced)'
        PROVE  FALSE
    <3>1. DeltaFrom(announced) \in Names /\ DeltaFrom(announced) # name /\ announced \in 0..MaxVersion
      BY <1>1, <1>3, <2>3, NamesOfBlobs DEF Versions
    <3>2. cache[Near][DeltaFrom(announced)] = cache'[Near][DeltaFrom(announced)]
      BY <1>2, <1>3, <3>1
    <3>3. CachedDelta(Near, announced)
      BY <1>3, <3>1 DEF SharedInv, CacheInv
    <3>4. IsReadBack(cache[Near][DeltaFrom(announced)])
      BY <1>1, <1>3, <2>3, <3>2, <3>3 DEF CachedDelta
    <3>5. StoredDelta(announced)'.to = announced + 1
      BY <1>3 DEF StoredDelta
    <3>6. announced + 1 = 0
      BY <2>3, <3>2, <3>4, <3>5 DEF IsReadBack
    <3> QED BY <1>3, <3>6
  <2>4. ASSUME Crashes, NEW v \in 1..announced, cache'[Near][DeltaFrom(v)] # NoBlob,
               cache'[Near][DeltaFrom(v)] = StoredDelta(v)'
        PROVE  Anchored(v)'
    <3>1. CASE v < announced
      BY <2>1, <2>4, <3>1
    <3>2. CASE ~(v < announced)
      <4>1. v = n
        BY <1>3, <3>2
      <4>2. ~Snapping'
        BY <1>3, <2>3, <2>4, <4>1
      <4>3. Anchored(n)'
        BY <2>2, <2>4, <4>2
      <4> QED BY ONLY <4>1, <4>3, Zenon
    <3> QED BY <3>1, <3>2
  <2>5. Crashes /\ producer'.lastSnapshotVersion \in 1..announced => Anchored(n)'
    <3>1. Snapping' => producer'.lastSnapshotVersion = announced + 1
      BY <1>1
    <3>2. announced + 1 \notin 1..announced
      BY <1>3
    <3> QED BY <2>2, <3>1, <3>2
  <2> QED BY <1>3, <2>4, <2>5 DEF AnchorInv, Anchored, Anchor
<1>14. CallInv'
  <2>1. ASSUME NEW t \in Threads \ {Janitor} PROVE \E call : call = thread'[t] /\ CallOk(t, call)'
    <3>1. CASE t = Producer
      BY <1>2, <3>1 DEF CallOk
    <3>2. CASE t # Producer
      <4>1. PICK call : call = thread[t]
        OBVIOUS
      <4>2. CallOk(t, call)
        BY <1>3, <4>1 DEF SharedInv, CallInv
      <4>3. ASSUME NEW v \in 0..(announced - 1)
            PROVE  cache'[Near][DeltaFrom(v)] = cache[Near][DeltaFrom(v)]
        <5>1. DeltaFrom(v) \in Names /\ DeltaFrom(v) # name
          BY <1>1, <1>3, NamesOfBlobs DEF Versions
        <5> QED BY <1>2, <1>3, <5>1
      <4>4. CallOk(t, call)'
        BY <1>1, <1>3, <1>10, <4>2, <4>3, CallRests
      <4> QED BY <1>2, <3>2, <4>1, <4>4
    <3> QED BY <3>1, <3>2
  <2> QED BY <2>1, CallsAreOk
<1>15. ASSUME NEW c \in Consumers PROVE Stays(c) /\ thread'[c] = thread[c]
  BY <1>1, <1>2, <1>3, <1>10, <1>12, Before DEF Stays, CycleGoesOn
<1>16. SharedInv'
  BY <1>5, <1>6, <1>7, <1>9, <1>13, <1>14 DEF SharedInv
<1> QED BY <1>1, <1>15, <1>16, OthersRest

LEMMA StoredKeepsReads ==
  ASSUME OwnJanitor, S3Inv, ReadInv, Stored
  PROVE  ReadInv'
<1> PICK n : n = announced
  OBVIOUS
<1>1. /\ Storing /\ thread[Producer].pc = "done" /\ thread'[Producer].pc = "idle"
      /\ UNCHANGED <<bucket, cache, published, consumer, situation>>
      /\ \A u \in Threads \ {Producer} : thread'[u] = thread[u]
  BY ReturnIs, Before DEF Stored, Storing
<1>2. /\ producer' = [pc |-> "ready", currentVersion |-> producer.currentVersion + 1,
                      lastSnapshotVersion |-> producer.lastSnapshotVersion]
      /\ announced' = n + 1 /\ producer.pc = "storing"
  BY DEF Stored, S3Inv, ProducerInv
<1>3. /\ n \in Nat /\ n + 1 <= MaxVersion /\ announced' \in Nat
      /\ Near' = Near /\ (Crashes' <=> Crashes) /\ ~Storing' /\ ~Snapping' /\ Near \in Processes
      /\ producer'.lastSnapshotVersion = producer.lastSnapshotVersion /\ producer'.pc = "ready"
      /\ SharedInv /\ PublishedInv /\ CacheInv /\ BucketInv /\ StoringInv /\ AnchorInv
  BY <1>1, <1>2, Before DEF Near, Crashes, Storing, Snapping, SharedInv
<1>4. PublishedInv'
  <2>1. \A v \in 1..(n + 1) : published[v] \in Contents
    BY <1>1, <1>3 DEF PublishedInv
  <2>2. producer.lastSnapshotVersion \in 0..(n + 1)
    BY <1>3 DEF PublishedInv, Snapping
  <2>3. ASSUME ~Crashes PROVE producer.lastSnapshotVersion # 0
    <3>1. producer.lastSnapshotVersion = 0 => n = 0
      BY <1>3, <2>3 DEF PublishedInv
    <3>2. Snapping => producer.lastSnapshotVersion = n + 1
      BY DEF Snapping
    <3>3. ~Snapping => n >= 1
      BY <1>1, <1>3 DEF StoringInv
    <3> QED BY <1>3, <3>1, <3>2, <3>3
  <2> QED BY <1>1, <1>2, <1>3, <2>1, <2>2, <2>3 DEF PublishedInv
<1>5. CacheInv'
  <2>1. ASSUME NEW p \in Processes, NEW v \in 0..MaxVersion PROVE CachedSnapshot(p, v)'
    <3>1. CachedSnapshot(p, v)
      BY <1>3 DEF CacheInv
    <3>2. v \in 1..announced \/ v = announced + 1 => v \in 1..announced'
      BY <1>2, <1>3
    <3> QED BY <1>1, <3>1, <3>2 DEF CachedSnapshot, IsSnapshot
  <2>2. ASSUME NEW p \in Processes, NEW v \in 0..MaxVersion PROVE CachedDelta(p, v)'
    <3>1. CachedDelta(p, v)
      BY <1>3 DEF CacheInv
    <3>2. v \in 1..(announced - 1) \/ (v >= 1 /\ v = announced) => v \in 1..(announced' - 1)
      BY <1>2, <1>3
    <3> QED BY <1>1, <1>3, <3>1, <3>2 DEF CachedDelta, IsReadBack, StoredDelta
  <2> QED BY <2>1, <2>2 DEF CacheInv
<1>6. BucketInv'
  <2>1. ASSUME NEW v \in 0..MaxVersion PROVE StoredSnapshot(v)'
    <3>1. StoredSnapshot(v)
      BY <1>3 DEF BucketInv
    <3>2. bucket[SnapshotOf(v)] # NoBlob => v \in 1..(n + 1) /\ bucket[SnapshotOf(v)] = published[v]
      BY <1>1, <1>3, <3>1 DEF StoredSnapshot
    <3>3. v \in 1..(n + 1) => v \in 1..(announced' + 1) /\ v # announced' + 1
      BY <1>2, <1>3
    <3> QED BY <1>1, <3>2, <3>3 DEF StoredSnapshot
  <2>2. ASSUME NEW v \in 0..MaxVersion PROVE StoredChange(v)'
    <3>1. StoredChange(v)
      BY <1>3 DEF BucketInv
    <3> QED BY <1>1, <1>3, <3>1 DEF StoredChange
  <2> QED BY <2>1, <2>2 DEF BucketInv
<1>7. StoringInv'
  BY <1>3 DEF StoringInv
<1>8. PublishedStays
  BY <1>1 DEF PublishedStays
<1>9. AnchorsStay
  BY <1>1, <1>3, <1>8, AnchorsRemain
<1>10. AnchorInv'
  <2>1. ASSUME Crashes, NEW v \in 1..n, Anchored(v) PROVE Anchored(v)'
    BY <1>9, <2>1 DEF AnchorsStay
  <2>2. ASSUME NEW v \in 0..MaxVersion, cache[Near][DeltaFrom(v)] # NoBlob,
               cache[Near][DeltaFrom(v)] = StoredDelta(v), v \in 1..(n + 1)
        PROVE  v \in 1..n
    <3>1. CachedDelta(Near, v)
      BY <1>3, <2>2 DEF CacheInv
    <3>2. ~IsReadBack(cache[Near][DeltaFrom(v)])
      <4>1. StoredDelta(v).to = v + 1 /\ v + 1 # 0
        BY <1>3, <2>2 DEF StoredDelta
      <4> QED BY <2>2, <4>1 DEF IsReadBack
    <3> QED BY <1>3, <2>2, <3>1, <3>2 DEF CachedDelta
  <2>3. ASSUME Crashes PROVE Anchored(n + 1)'
    <3>1. CASE Snapping
      <4>1. cache[Near][SnapshotOf(n + 1)] # NoBlob
        BY <1>1, <1>3, <3>1 DEF StoringInv
      <4>2. n + 1 \in 1..(n + 1) /\ (n + 1)..(n + 1 - 1) = {}
        BY <1>3
      <4>3. Anchor(n + 1, n + 1)
        BY <4>1, <4>2 DEF Anchor
      <4>4. Anchor(n + 1, n + 1)'
        BY <1>1, <1>3, <4>3 DEF Anchor, StoredDelta
      <4> QED BY <4>2, <4>4 DEF Anchored
    <3>2. CASE ~Snapping
      <4>1. /\ n \in 1..n /\ cache[Near][DeltaFrom(n)] # NoBlob
            /\ cache[Near][DeltaFrom(n)] = StoredDelta(n)
        BY <1>1, <1>3, <3>2 DEF StoringInv
      <4>2. Anchored(n)
        BY <1>3, <2>3, <4>1 DEF AnchorInv
      <4>3. PICK s \in 1..n : Anchor(s, n)
        BY <4>2 DEF Anchored
      <4>4. PICK m : m = n + 1
        OBVIOUS
      <4>5. Anchor(s, m)
        <5>1. ASSUME NEW w \in s..(m - 1) PROVE cache[Near][DeltaFrom(w)] = StoredDelta(w)
          <6>1. w = n \/ w \in s..(n - 1)
            BY <1>3, <4>4
          <6> QED BY <4>1, <4>3, <6>1 DEF Anchor
        <5>2. cache[Near][SnapshotOf(s)] # NoBlob
          BY <4>3 DEF Anchor
        <5> QED BY <5>1, <5>2 DEF Anchor
      <4>6. Anchor(s, m)' /\ s \in 1..m
        BY <1>1, <1>3, <4>4, <4>5 DEF Anchor, StoredDelta
      <4>7. Anchored(m)'
        BY <4>6 DEF Anchored
      <4> QED BY <4>4, <4>7
    <3> QED BY <3>1, <3>2
  <2>4. ASSUME Crashes, NEW v \in 1..(n + 1), v < MaxVersion, cache'[Near][DeltaFrom(v)] # NoBlob,
               cache'[Near][DeltaFrom(v)] = StoredDelta(v)'
        PROVE  Anchored(v)'
    <3>1. v \in 0..MaxVersion /\ StoredDelta(v)' = StoredDelta(v)
      BY <1>1, <1>3 DEF StoredDelta
    <3>2. v \in 1..n
      BY <1>1, <2>2, <2>4, <3>1
    <3>3. Anchored(v)
      BY <1>1, <1>3, <2>4, <3>1, <3>2 DEF AnchorInv
    <3> QED BY <2>1, <2>4, <3>2, <3>3
  <2> QED BY <1>2, <1>3, <2>3, <2>4 DEF AnchorInv, Anchored, Anchor
<1>11. CallInv'
  <2>1. ASSUME NEW t \in Threads \ {Janitor} PROVE \E call : call = thread'[t] /\ CallOk(t, call)'
    <3>1. CASE t = Producer
      BY <1>1, <3>1 DEF CallOk
    <3>2. CASE t # Producer
      <4>1. PICK call : call = thread[t]
        OBVIOUS
      <4>2. CallOk(t, call)
        BY <1>3, <4>1 DEF SharedInv, CallInv
      <4>3. CallOk(t, call)'
        BY <1>1, <1>2, <1>3, <1>8, <4>2, CallRests
      <4> QED BY <1>1, <3>2, <4>1, <4>3
    <3> QED BY <3>1, <3>2
  <2> QED BY <2>1, CallsAreOk
<1>12. ASSUME NEW c \in Consumers PROVE Stays(c) /\ thread'[c] = thread[c]
  BY <1>1, <1>2, <1>8, <1>9, Before DEF Stays, CycleGoesOn
<1>13. SharedInv'
  BY <1>4, <1>5, <1>6, <1>7, <1>10, <1>11 DEF SharedInv
<1> QED BY <1>1, <1>12, <1>13, OthersRest

LEMMA RestoringKeeps ==
  ASSUME OwnJanitor, S3Inv, ReadInv,
         producer.pc \in {"new", "restoring"}, producer'.pc \in {"ready", "restoring", "stopped"},
         producer'.lastSnapshotVersion = producer.lastSnapshotVersion,
         UNCHANGED <<bucket, cache, published, announced, situation, consumer>>,
         \A u \in Threads \ {Producer} : thread'[u] = thread[u],
         NEW call, call = thread'[Producer], CallOk(Producer, call)
  PROVE  ReadInv'
<1>1. /\ announced \in Nat /\ UNCHANGED <<bucket, cache, published, announced, situation>>
      /\ Near' = Near /\ (Crashes' <=> Crashes) /\ ~Storing /\ ~Storing' /\ ~Snapping /\ ~Snapping'
      /\ SharedInv /\ Crashes /\ producer.lastSnapshotVersion = 0
      /\ producer'.lastSnapshotVersion = 0
  BY Before DEF SharedInv, PublishedInv, Near, Crashes, Storing, Snapping
<1>2. PublishedInv'
  BY <1>1 DEF SharedInv, PublishedInv
<1>3. CacheInv'
  BY <1>1 DEF SharedInv, CacheInv, CachedSnapshot, CachedDelta, IsSnapshot, IsReadBack, StoredDelta
<1>4. BucketInv'
  <2>1. ASSUME NEW v \in 0..MaxVersion, StoredSnapshot(v) PROVE StoredSnapshot(v)'
    BY <1>1, <2>1 DEF StoredSnapshot
  <2>2. ASSUME NEW v \in 0..MaxVersion, StoredChange(v) PROVE StoredChange(v)'
    BY <1>1, <2>2 DEF StoredChange
  <2> QED BY <1>1, <2>1, <2>2 DEF SharedInv, BucketInv
<1>5. StoringInv'
  BY <1>1 DEF StoringInv
<1>6. AnchorInv'
  BY <1>1 DEF SharedInv, AnchorInv, Anchored, Anchor, StoredDelta
<1>7. PublishedStays
  BY <1>1 DEF PublishedStays
<1>8. CallInv'
  <2>1. ASSUME NEW t \in Threads \ {Janitor} PROVE \E k : k = thread'[t] /\ CallOk(t, k)'
    <3>1. PICK k : k = thread'[t]
      OBVIOUS
    <3>2. CallOk(t, k)
      <4>1. CASE t = Producer
        BY <3>1, <4>1
      <4>2. CASE t # Producer
        BY <1>1, <3>1, <4>2 DEF SharedInv, CallInv
      <4> QED BY <4>1, <4>2
    <3>3. CallOk(t, k)'
      BY <1>1, <1>7, <3>2, CallRests
    <3> QED BY <3>1, <3>3
  <2> QED BY <2>1, CallsAreOk
<1>9. AnchorsStay
  BY <1>1, <1>7, AnchorsRemain
<1>10. ASSUME NEW c \in Consumers PROVE Stays(c) /\ thread'[c] = thread[c]
  BY <1>1, <1>7, <1>9, Before DEF Stays, CycleGoesOn
<1>11. SharedInv'
  BY <1>2, <1>3, <1>4, <1>5, <1>6, <1>8 DEF SharedInv
<1> QED BY <1>10, <1>11, OthersRest

LEMMA RestoreKeepsReads ==
  ASSUME OwnJanitor, S3Inv, ReadInv, CallRestore \/ Restore
  PROVE  ReadInv'
<1>1. /\ UNCHANGED <<published, announced, consumer, situation>>
      /\ announced \in Nat /\ announced <= MaxVersion /\ SharedInv
      /\ producer = [pc |-> producer.pc, currentVersion |-> producer.currentVersion,
                     lastSnapshotVersion |-> producer.lastSnapshotVersion]
  BY Before DEF CallRestore, Restore, S3Inv, ProducerInv
<1>2. CASE CallRestore /\ announced = 0
  <2>1. /\ producer.pc = "new" /\ UNCHANGED <<bucket, cache, thread>>
        /\ producer' = [pc |-> "ready", currentVersion |-> producer.currentVersion,
                        lastSnapshotVersion |-> producer.lastSnapshotVersion]
    BY <1>1, <1>2 DEF CallRestore, storeVars
  <2>2. producer'.pc = "ready" /\ producer'.lastSnapshotVersion = producer.lastSnapshotVersion
    BY <2>1
  <2>3. PICK call : call = thread'[Producer]
    OBVIOUS
  <2>4. CallOk(Producer, call)
    BY <1>1, <2>1, <2>3 DEF SharedInv, CallInv
  <2> QED BY <1>1, <2>1, <2>2, <2>3, <2>4, RestoringKeeps
<1>3. CASE CallRestore /\ announced # 0
  <2>1. /\ producer.pc = "new" /\ Retrieve(Producer, SnapshotOf(announced))
        /\ producer' = [pc |-> "restoring", currentVersion |-> producer.currentVersion,
                        lastSnapshotVersion |-> producer.lastSnapshotVersion]
    BY <1>1, <1>3 DEF CallRestore, SnapshotOf
  <2>2. producer'.pc = "restoring" /\ producer'.lastSnapshotVersion = producer.lastSnapshotVersion
    BY <2>1
  <2>3. PICK call : call = thread'[Producer]
    OBVIOUS
  <2>4. /\ UNCHANGED <<bucket, cache>>
        /\ \A u \in Threads \ {Producer} : thread'[u] = thread[u]
        /\ call.name = SnapshotOf(announced) /\ call.pc \in {"done", "get"}
        /\ call.pc = "get" => call.blob = NoBlob
    BY <2>1, <2>3, RetrieveIs, Before
  <2>5. announced \in 1..announced
    BY <1>1, <1>3
  <2>6. SnapshotCall(call)
    BY <2>4, <2>5 DEF SnapshotCall
  <2>7. CallOk(Producer, call)
    BY <2>4, <2>6 DEF CallOk
  <2> QED BY <1>1, <2>1, <2>2, <2>3, <2>4, <2>7, RestoringKeeps
<1>4. CASE Restore
  <2>1. /\ producer.pc = "restoring" /\ Return(Producer)
        /\ producer' \in {[pc |-> "stopped", currentVersion |-> producer.currentVersion,
                           lastSnapshotVersion |-> producer.lastSnapshotVersion],
                          [pc |-> "ready", currentVersion |-> announced,
                           lastSnapshotVersion |-> producer.lastSnapshotVersion]}
    BY <1>1, <1>4 DEF Restore
  <2>2. /\ producer'.pc \in {"ready", "stopped"}
        /\ producer'.lastSnapshotVersion = producer.lastSnapshotVersion
    BY <2>1
  <2>3. /\ UNCHANGED <<bucket, cache>> /\ \A u \in Threads \ {Producer} : thread'[u] = thread[u]
        /\ thread'[Producer] = NoCall /\ CallOk(Producer, NoCall)
    BY <2>1, ReturnIs, Before DEF CallOk
  <2> QED BY <1>1, <2>1, <2>2, <2>3, RestoringKeeps
<1> QED BY <1>2, <1>3, <1>4

(***************************************************************************)
(* The steps of the removal, and inside a call of the store                *)
(***************************************************************************)
LEMMA GotoIs ==
  ASSUME ThreadInv, NEW t \in Threads, NEW pc, NEW name, NEW blob, Goto(t, pc, name, blob)
  PROVE  /\ thread'[t].pc = pc /\ thread'[t].name = name /\ thread'[t].blob = blob
         /\ \A u \in Threads \ {t} : thread'[u] = thread[u]
<1>1. thread' = [u \in Threads |->
                   IF u = t THEN [pc |-> pc, name |-> name, blob |-> blob] ELSE thread[u]]
  BY DEF Goto, ThreadInv
<1> QED BY <1>1

LEMMA CallGoesOn ==
  ASSUME OwnJanitor, S3Inv, ReadInv, SharedInv', UNCHANGED consumer,
         \A c \in Consumers : Stays(c),
         NEW t \in Threads, \A u \in Threads \ {t} : thread'[u] = thread[u],
         NEW call, call = thread'[t], t \in Consumers => ConsumerOk(t, consumer[t], call)
  PROVE  ReadInv'
<1>1. announced \in Nat /\ ConsumersInv /\ Consumers \subseteq Threads
  BY Before DEF Consumers
<1>2. ASSUME NEW c \in Consumers
      PROVE  \E r, k : r = consumer'[c] /\ k = thread'[c] /\ ConsumerOk(c, r, k)'
  <2>1. PICK r, k : r = consumer[c] /\ k = thread'[c]
    OBVIOUS
  <2>2. ConsumerOk(c, r, k)
    <3>1. CASE c = t
      BY <2>1, <3>1
    <3>2. CASE c # t
      BY <1>1, <2>1, <3>2 DEF ConsumersInv
    <3> QED BY <3>1, <3>2
  <2>3. ConsumerOk(c, r, k)'
    BY <1>1, <2>2, ConsumerRests
  <2>4. consumer'[c] = consumer[c]
    OBVIOUS
  <2> QED BY <2>1, <2>3, <2>4
<1>3. consumer' = [c \in Consumers |-> consumer'[c]]
  BY <1>1 DEF ConsumersInv
<1>4. ConsumersInv'
  BY <1>2, <1>3, ConsumersAreOk
<1> QED BY <1>4 DEF SharedInv, ReadInv

(* What a consumer asked for, or got, with another call. *)
LEMMA OtherCall ==
  ASSUME NEW c, NEW r, NEW old, NEW call, ConsumerOk(c, r, old),
         r.pc = "snapshot" => SnapshotAsked(r, call),
         r.pc = "delta" => DeltaAsked(c, r, call)
  PROVE  ConsumerOk(c, r, call)
  BY DEF ConsumerOk

LEMMA JanitorKeepsReads ==
  ASSUME OwnJanitor, CrashesAlone, S3Inv, ReadInv, Removed \/ \E v \in Versions : CallRemove(v)
  PROVE  ReadInv'
<1>1. CASE Removed
  <2>1. /\ UNCHANGED <<bucket, cache, published, producer, announced, situation, consumer>>
        /\ \A u \in Threads \ {Janitor} : thread'[u] = thread[u]
    BY <1>1, ReturnIs, Before DEF Removed
  <2>2. SharedInv' /\ \A c \in Consumers : Stays(c)
    BY <2>1, QuietKeeps, Before DEF Quiet
  <2> QED BY <2>1, <2>2, OthersRest, Before
<1>2. ASSUME NEW version \in Versions, CallRemove(version) PROVE ReadInv'
  <2>1. PICK name : name = SnapshotOf(version)
    OBVIOUS
  <2>2. /\ "remove" \in situation.troubles /\ version <= announced /\ UNCHANGED bucket
        /\ InCache(Janitor, name, NoBlob) /\ Goto(Janitor, "remove", name, NoBlob)
        /\ UNCHANGED <<producer, published, announced, consumer, situation>>
    BY <1>2, <2>1 DEF CallRemove, RemoveSnapshot, SnapshotOf
  <2>3. /\ \A u \in Threads \ {Janitor} : thread'[u] = thread[u]
        /\ \A p \in Processes : \A n \in Names :
             cache'[p][n] = IF p = Home[Janitor] /\ n = name THEN NoBlob ELSE cache[p][n]
    BY <2>2, GotoIs, InCacheOnly, Before
  <2>4. /\ SharedInv /\ announced \in Nat /\ announced <= MaxVersion /\ Near \in Processes
        /\ version \in 1..announced /\ version \in 0..MaxVersion
        /\ Near' = Near /\ (Crashes' <=> Crashes) /\ (Storing' <=> Storing) /\ (Snapping' <=> Snapping)
    BY <2>2, Before DEF Near, Crashes, Storing, Snapping, Versions
  <2>5. ~Crashes
    BY <2>2, <2>4 DEF SharedInv, PublishedInv, CrashesAlone, Crashes
  <2>6. ASSUME NEW p \in Processes, NEW v \in 0..MaxVersion
        PROVE  /\ cache'[p][SnapshotOf(v)] \in {NoBlob, cache[p][SnapshotOf(v)]}
               /\ v = announced + 1 => cache'[p][SnapshotOf(v)] = cache[p][SnapshotOf(v)]
               /\ cache'[p][DeltaFrom(v)] = cache[p][DeltaFrom(v)]
    <3>1. /\ SnapshotOf(v) \in Names /\ DeltaFrom(v) \in Names /\ DeltaFrom(v) # name
          /\ v = announced + 1 => SnapshotOf(v) # name
      BY <2>1, <2>4, NamesOfBlobs
    <3> QED BY <2>3, <3>1
  <2>7. PublishedInv'
    BY <2>2, <2>4 DEF SharedInv, PublishedInv
  <2>8. CacheInv'
    <3>1. ASSUME NEW p \in Processes, NEW v \in 0..MaxVersion PROVE CachedSnapshot(p, v)'
      <4>1. CachedSnapshot(p, v)
        BY <2>4 DEF SharedInv, CacheInv
      <4> QED BY <2>2, <2>4, <2>6, <4>1 DEF CachedSnapshot, IsSnapshot
    <3>2. ASSUME NEW p \in Processes, NEW v \in 0..MaxVersion PROVE CachedDelta(p, v)'
      <4>1. CachedDelta(p, v)
        BY <2>4 DEF SharedInv, CacheInv
      <4> QED BY <2>2, <2>4, <2>6, <4>1 DEF CachedDelta, IsReadBack, StoredDelta
    <3> QED BY <3>1, <3>2 DEF CacheInv
  <2>9. BucketInv'
    <3>1. ASSUME NEW v \in 0..MaxVersion PROVE StoredSnapshot(v)'
      <4>1. StoredSnapshot(v)
        BY <2>4 DEF SharedInv, BucketInv
      <4> QED BY <2>2, <2>3, <2>4, <4>1 DEF StoredSnapshot
    <3>2. ASSUME NEW v \in 0..MaxVersion PROVE StoredChange(v)'
      <4>1. StoredChange(v)
        BY <2>4 DEF SharedInv, BucketInv
      <4> QED BY <2>2, <2>4, <2>6, <4>1 DEF StoredChange
    <3> QED BY <3>1, <3>2 DEF BucketInv
  <2>10. StoringInv'
    <3> SUFFICES ASSUME Storing PROVE StoringInv'
      BY <2>4 DEF StoringInv
    <3>1. PICK call : call = thread[Producer] /\ call = thread'[Producer]
      BY <2>3
    <3>2. /\ announced + 1 \in 0..MaxVersion /\ announced \in 0..MaxVersion
      BY <2>4, Before
    <3>3. /\ cache'[Near][DeltaFrom(announced)] = cache[Near][DeltaFrom(announced)]
          /\ cache'[Near][SnapshotOf(announced + 1)] = cache[Near][SnapshotOf(announced + 1)]
      BY <2>4, <2>6, <3>2
    <3> QED BY <2>2, <2>4, <3>1, <3>3 DEF SharedInv, StoringInv, StoredDelta
  <2>11. AnchorInv' /\ AnchorsStay
    BY <2>4, <2>5 DEF AnchorInv, AnchorsStay
  <2>12. PublishedStays
    BY <2>2 DEF PublishedStays
  <2>13. CallInv'
    <3>1. ASSUME NEW t \in Threads \ {Janitor} PROVE \E call : call = thread'[t] /\ CallOk(t, call)'
      <4>1. PICK call : call = thread[t]
        OBVIOUS
      <4>2. CallOk(t, call)
        BY <2>4, <4>1 DEF SharedInv, CallInv
      <4>3. ASSUME NEW v \in 0..(announced - 1)
            PROVE  cache'[Near][DeltaFrom(v)] = cache[Near][DeltaFrom(v)]
        <5>1. v \in 0..MaxVersion
          BY <2>4
        <5> QED BY <2>4, <2>6, <5>1
      <4>4. CallOk(t, call)'
        BY <2>2, <2>4, <2>12, <4>2, <4>3, CallRests
      <4> QED BY <2>3, <4>1, <4>4
    <3> QED BY <3>1, CallsAreOk
  <2>14. ASSUME NEW c \in Consumers PROVE Stays(c) /\ thread'[c] = thread[c]
    BY <2>2, <2>3, <2>4, <2>11, <2>12, Before DEF Stays, CycleGoesOn
  <2>15. SharedInv'
    BY <2>7, <2>8, <2>9, <2>10, <2>11, <2>13 DEF SharedInv
  <2> QED BY <2>2, <2>14, <2>15, OthersRest
<1> QED BY <1>1, <1>2

LEMMA PutKeepsReads ==
  ASSUME OwnJanitor, CrashesAlone, S3Inv, ReadInv, NEW t \in Threads,
         StoreStep(t), thread[t].pc = "put"
  PROVE  ReadInv'
<1>1. /\ t = Producer /\ Storing /\ SharedInv /\ announced \in Nat /\ announced < MaxVersion
      /\ \A c \in Consumers : c # Producer
      /\ UNCHANGED <<producer, published, announced, consumer, situation>>
  <2>1. t = Producer
    BY Before DEF ThreadInv, CallsOf
  <2>2. Storing
    BY <2>1 DEF S3Inv, ProducerInv, Storing
  <2> QED BY <2>1, <2>2, Before DEF StoreStep
<1>2. PICK name, blob : name = thread[t].name /\ blob = thread[t].blob
  OBVIOUS
<1>3. /\ PutSucceeds(t) \/ (PutFails(t) /\ "outage" \in situation.troubles)
      /\ UNCHANGED cache /\ Goto(t, "done", name, blob)
  BY <1>2 DEF StoreStep, CallSucceeds, CallFails, MayFail, PutSucceeds, PutFails, GetSucceeds,
              GetFails, FillCache, RemoveSucceeds, RemoveFails
<1>4. /\ thread'[t].pc = "done" /\ thread'[t].name = name /\ thread'[t].blob = blob
      /\ \A u \in Threads \ {t} : thread'[u] = thread[u]
  BY <1>3, GotoIs, Before
<1>5. CASE PutFails(t) /\ "outage" \in situation.troubles
  <2>1. UNCHANGED bucket
    BY <1>5 DEF PutFails
  <2>2. ~Crashes
    BY <1>1, <1>5 DEF SharedInv, PublishedInv, CrashesAlone, Crashes
  <2>3. \A u \in Threads \ {Janitor} : thread'[u] = thread[u] \/ CallOk(u, thread'[u])
    BY <1>4 DEF CallOk
  <2>4. Quiet
    BY <1>1, <1>3, <2>1 DEF Quiet
  <2>5. SharedInv' /\ \A c \in Consumers : Stays(c)
    BY <1>1, <1>2, <1>4, <2>2, <2>3, <2>4, QuietKeeps
  <2> QED BY <1>1, <1>4, <2>5, OthersRest, Before
<1>6. CASE PutSucceeds(t)
  <2>1. /\ name \in Names /\ blob.data \in Data /\ cache[Near][name] # NoBlob
        /\ Snapping => name = SnapshotOf(announced + 1) /\ blob.data = published[announced + 1]
        /\ ~Snapping => name = DeltaFrom(announced)
    <3>1. /\ announced + 1 \in 0..MaxVersion /\ announced \in 0..MaxVersion
          /\ published[announced + 1] \in Data
      BY <1>1, Before DEF Data
    <3> QED BY <1>1, <1>2, <3>1, NamesOfBlobs DEF SharedInv, StoringInv
  <2>2. /\ Near' = Near /\ (Crashes' <=> Crashes) /\ (Storing' <=> Storing) /\ (Snapping' <=> Snapping)
    BY <1>1 DEF Near, Crashes, Storing, Snapping
  <2>3. bucket' = [n \in Names |-> IF n = name THEN blob.data ELSE bucket[n]]
    <3>1. PICK data : data = blob.data
      OBVIOUS
    <3>2. bucket' = [bucket EXCEPT ![name] = data]
      BY <1>2, <1>6, <3>1 DEF PutSucceeds
    <3>3. bucket = [n \in Names |-> bucket[n]]
      BY Before DEF StoreTypes
    <3> QED BY ONLY <3>1, <3>2, <3>3
  <2>4. PublishedInv'
    BY <1>1, <2>2 DEF SharedInv, PublishedInv
  <2>5. CacheInv'
    BY <1>1, <1>3, <2>2
    DEF SharedInv, CacheInv, CachedSnapshot, CachedDelta, IsSnapshot, IsReadBack, StoredDelta
  <2>6. BucketInv'
    <3>1. ASSUME NEW v \in 0..MaxVersion PROVE StoredSnapshot(v)'
      <4>1. StoredSnapshot(v) /\ SnapshotOf(v) \in Names
        BY <1>1, NamesOfBlobs DEF SharedInv, BucketInv
      <4>2. CASE SnapshotOf(v) = name
        <5>1. Snapping /\ v = announced + 1
          BY <1>1, <2>1, <4>2, NamesOfBlobs
        <5>2. bucket'[SnapshotOf(v)] = published[v]
          BY <2>1, <2>3, <4>1, <4>2, <5>1
        <5>3. producer.pc # "ready" /\ v \in 1..(announced + 1)
          BY <1>1, <5>1 DEF Storing
        <5> QED BY <1>1, <2>2, <5>1, <5>2, <5>3 DEF StoredSnapshot
      <4>3. CASE SnapshotOf(v) # name
        <5>1. bucket'[SnapshotOf(v)] = bucket[SnapshotOf(v)]
          BY <2>3, <4>1, <4>3
        <5>2. v = announced + 1 => bucket[SnapshotOf(v)] = NoBlob
          BY <1>1, <2>1, <4>1, <4>3 DEF StoredSnapshot
        <5> QED BY <1>1, <2>2, <4>1, <5>1, <5>2 DEF StoredSnapshot
      <4> QED BY <4>2, <4>3
    <3>2. ASSUME NEW v \in 0..MaxVersion PROVE StoredChange(v)'
      <4>1. StoredChange(v) /\ DeltaFrom(v) \in Names
        BY <1>1, NamesOfBlobs DEF SharedInv, BucketInv
      <4>2. CASE DeltaFrom(v) = name
        BY <1>3, <2>1, <2>2, <2>3, <4>1, <4>2 DEF StoredChange
      <4>3. CASE DeltaFrom(v) # name
        BY <1>3, <2>2, <2>3, <4>1, <4>3 DEF StoredChange
      <4> QED BY <4>2, <4>3
    <3> QED BY <3>1, <3>2 DEF BucketInv
  <2>7. StoringInv'
    BY <1>1, <1>2, <1>3, <1>4, <2>2 DEF SharedInv, StoringInv, StoredDelta
  <2>8. AnchorInv'
    BY <1>1, <1>3, <2>2 DEF SharedInv, AnchorInv, Anchored, Anchor, StoredDelta
  <2>9. PublishedStays
    BY <1>1 DEF PublishedStays
  <2>10. CallInv'
    <3>1. ASSUME NEW u \in Threads \ {Janitor} PROVE \E call : call = thread'[u] /\ CallOk(u, call)'
      <4>1. CASE u = t
        BY <1>4, <4>1 DEF CallOk
      <4>2. CASE u # t
        <5>1. PICK call : call = thread[u]
          OBVIOUS
        <5>2. CallOk(u, call)
          BY <1>1, <5>1 DEF SharedInv, CallInv
        <5>3. CallOk(u, call)'
          BY <1>1, <1>3, <2>9, <5>2, CallRests
        <5> QED BY <1>4, <4>2, <5>1, <5>3
      <4> QED BY <4>1, <4>2
    <3> QED BY <3>1, CallsAreOk
  <2>11. AnchorsStay
    BY <1>1, <1>3, <2>9, AnchorsRemain
  <2>12. ASSUME NEW c \in Consumers PROVE Stays(c) /\ thread'[c] = thread[c]
    BY <1>1, <1>4, <2>2, <2>9, <2>11, Before DEF Stays, CycleGoesOn
  <2>13. SharedInv'
    BY <2>4, <2>5, <2>6, <2>7, <2>8, <2>10 DEF SharedInv
  <2> QED BY <1>1, <2>12, <2>13, OthersRest
<1> QED BY <1>3, <1>5, <1>6

(* Which call a thread makes that asks the bucket, or fills its cache. *)
LEMMA AskingBefore ==
  ASSUME OwnJanitor, S3Inv, ReadInv, NEW t \in Threads, thread[t].pc \in {"get", "fill"}
  PROVE  /\ t # Janitor /\ (t = Producer => ~Storing)
         /\ CallOk(t, thread[t])
         /\ SnapshotCall(thread[t]) \/ DeltaCall(t, thread[t])
         /\ thread[t].name \in Names
<1>1. t # Janitor
  BY Before DEF ThreadInv, CallsOf
<1>2. t = Producer => ~Storing
  BY Before DEF SharedInv, StoringInv
<1>3. CallOk(t, thread[t]) /\ (SnapshotCall(thread[t]) \/ DeltaCall(t, thread[t]))
  BY <1>1, Before DEF SharedInv, CallInv, CallOk
<1>4. \A v \in 1..announced : v \in 0..MaxVersion
  BY Before
<1>5. \A v \in 0..(announced - 1) : v \in 0..MaxVersion
  BY Before
<1> QED BY <1>1, <1>2, <1>3, <1>4, <1>5, NamesOfBlobs DEF SnapshotCall, DeltaCall

LEMMA GetSucceedsKeepsReads ==
  ASSUME OwnJanitor, S3Inv, ReadInv, NEW t \in Threads, StoreStep(t), GetSucceeds(t)
  PROVE  ReadInv'
<1>1. PICK old, bytes : old = thread[t] /\ bytes = bucket[old.name]
  OBVIOUS
<1>2. PICK call : call = thread'[t]
  OBVIOUS
<1>3. /\ old.pc = "get" /\ bytes # NoBlob
      /\ UNCHANGED <<bucket, cache, published, producer, announced, situation, consumer>>
      /\ Goto(t, "fill", old.name, ReadBack(old.name, bytes))
  BY <1>1 DEF GetSucceeds, StoreStep
<1>4. /\ call.pc = "fill" /\ call.name = old.name /\ call.blob = ReadBack(old.name, bytes)
      /\ \A u \in Threads \ {t} : thread'[u] = thread[u]
  BY <1>2, <1>3, GotoIs, Before
<1>5. /\ t # Janitor /\ (t = Producer => ~Storing) /\ CallOk(t, old)
      /\ SnapshotCall(old) \/ DeltaCall(t, old)
      /\ SharedInv /\ announced \in Nat /\ announced <= MaxVersion /\ Near \in Processes
  BY <1>1, <1>3, AskingBefore, Before
<1>6. ASSUME NEW v \in 1..announced, old.name = SnapshotOf(v)
      PROVE  IsSnapshot(v, call.blob) /\ call.blob # NoBlob
  <2>1. v \in 0..MaxVersion /\ published[v] \in Contents
    BY <1>5, Before
  <2>2. StoredSnapshot(v)
    BY <1>5, <2>1 DEF SharedInv, BucketInv
  <2>3. bytes = published[v]
    BY <1>1, <1>3, <1>6, <2>2 DEF StoredSnapshot
  <2>4. call.blob = [type |-> "snapshot", version |-> v, from |-> 0, to |-> 0, data |-> published[v]]
    BY <1>4, <1>6, <2>3 DEF ReadBack, SnapshotOf
  <2>5. IsSnapshot(v, call.blob)
    BY <2>1, <2>4 DEF IsSnapshot, Blobs, BlobsOf, BlobTypes, Data
  <2> QED BY <2>5, BlobsAreSomething DEF IsSnapshot
<1>7. ASSUME NEW v \in 0..(announced - 1), old.name = DeltaFrom(v)
      PROVE  IsReadBack(call.blob) /\ call.blob # NoBlob
  <2>1. v \in 0..MaxVersion
    BY <1>5
  <2>2. StoredChange(v)
    BY <1>5, <2>1 DEF SharedInv, BucketInv
  <2>3. bytes \in Data
    BY <1>1, <1>3, <1>7, <2>2 DEF StoredChange
  <2>4. call.blob = [type |-> "delta", version |-> v, from |-> 0, to |-> 0, data |-> bytes]
    BY <1>4, <1>7 DEF ReadBack, DeltaFrom
  <2>5. IsReadBack(call.blob)
    BY <2>1, <2>3, <2>4 DEF IsReadBack, Blobs, BlobsOf, BlobTypes
  <2> QED BY <2>5, BlobsAreSomething DEF IsReadBack
<1>8. ASSUME NEW v \in 0..(announced - 1), old.name = DeltaFrom(v), Home[t] = Near
      PROVE  Crashes
  <2> SUFFICES ASSUME ~Crashes PROVE FALSE
    OBVIOUS
  <2>1. v \in 0..MaxVersion
    BY <1>5
  <2>2. StoredChange(v) /\ CachedDelta(Near, v)
    BY <1>5, <2>1 DEF SharedInv, BucketInv, CacheInv
  <2>3. cache[Near][DeltaFrom(v)] # NoBlob
    BY <1>1, <1>3, <1>8, <2>2 DEF StoredChange
  <2>4. cache[Near][DeltaFrom(v)] = StoredDelta(v)
    BY <2>2, <2>3 DEF CachedDelta
  <2>5. ~SnapshotCall(old)
    <3>1. \A w \in 1..announced : w \in 0..MaxVersion
      BY <1>5
    <3> QED BY <1>8, <2>1, <3>1, NamesOfBlobs DEF SnapshotCall
  <2>6. PICK w \in 0..(announced - 1) :
          /\ old.name = DeltaFrom(w)
          /\ Home[t] = Near /\ cache[Near][DeltaFrom(w)] # NoBlob =>
               IsReadBack(cache[Near][DeltaFrom(w)])
    BY <1>5, <2>5 DEF DeltaCall
  <2>7. w = v
    <3>1. w \in 0..MaxVersion
      BY <1>5
    <3> QED BY <1>8, <2>1, <2>6, <3>1, NamesOfBlobs
  <2>8. IsReadBack(StoredDelta(v))
    BY <1>8, <2>3, <2>4, <2>6, <2>7
  <2>9. StoredDelta(v).to = v + 1 /\ v + 1 # 0
    BY DEF StoredDelta
  <2> QED BY <2>8, <2>9 DEF IsReadBack
<1>9. CallOk(t, call)
  <2>1. ASSUME SnapshotCall(old) PROVE SnapshotCall(call)
    BY <1>4, <1>6, <2>1 DEF SnapshotCall
  <2>2. ASSUME DeltaCall(t, old) PROVE DeltaCall(t, call)
    BY <1>4, <1>7, <1>8, <2>2 DEF DeltaCall
  <2> QED BY <1>4, <1>5, <2>1, <2>2 DEF CallOk
<1>10. SharedInv' /\ \A c \in Consumers : Stays(c)
  BY <1>2, <1>3, <1>4, <1>5, <1>9, QuietKeeps DEF Quiet
<1>11. ASSUME t \in Consumers PROVE ConsumerOk(t, consumer[t], call)
  <2>1. PICK r : r = consumer[t]
    OBVIOUS
  <2>2. ConsumerOk(t, r, old)
    BY <1>1, <1>11, <2>1, Before DEF ConsumersInv
  <2>3. r.cur \in Nat /\ r.from \in Nat /\ r.chain \in Seq(Blobs) /\ Len(r.chain) \in Nat
        /\ r.target \in Nat
    BY <2>2 DEF ConsumerOk, ConsumerRecord
  <2>4. ASSUME r.pc = "snapshot" PROVE SnapshotAsked(r, call)
    <3>1. SnapshotAsked(r, old) /\ old.blob = NoBlob /\ r.cur > r.from
      BY <1>3, <1>5, <2>2, <2>4 DEF ConsumerOk, CallOk
    <3>2. old.name = SnapshotOf(r.cur) /\ r.cur \in 1..announced
      BY <2>3, <3>1 DEF SnapshotAsked
    <3> QED BY <1>4, <1>6, <3>2 DEF SnapshotAsked
  <2>5. ASSUME r.pc = "delta" PROVE DeltaAsked(t, r, call)
    <3>1. DeltaAsked(t, r, old) /\ r.cur > r.from /\ r.cur <= announced /\ Walk(t, r)
      BY <2>2, <2>5 DEF ConsumerOk
    <3>2. old.name = DeltaFrom(r.cur - 1) /\ r.cur - 1 \in 0..(announced - 1)
      BY <1>5, <2>3, <3>1 DEF DeltaAsked
    <3>3. IsReadBack(call.blob) /\ (Home[t] # Near \/ Crashes)
      BY <1>7, <1>8, <3>2
    <3>4. Len(r.chain) = 0
      BY <1>3, <2>3, <3>1, <3>3 DEF DeltaAsked, Walk
    <3> QED BY <1>4, <3>2, <3>3, <3>4 DEF DeltaAsked
  <2> QED BY <2>1, <2>2, <2>4, <2>5, OtherCall
<1> QED BY <1>2, <1>3, <1>4, <1>10, <1>11, CallGoesOn

LEMMA GetFailsKeepsReads ==
  ASSUME OwnJanitor, S3Inv, ReadInv, NEW t \in Threads, StoreStep(t), GetFails(t)
  PROVE  ReadInv'
<1>1. PICK old, call : old = thread[t] /\ call = thread'[t]
  OBVIOUS
<1>2. /\ old.pc = "get"
      /\ UNCHANGED <<bucket, cache, published, producer, announced, situation, consumer>>
      /\ Goto(t, "done", old.name, NoBlob)
  BY <1>1 DEF GetFails, StoreStep
<1>3. /\ call.pc = "done" /\ call.name = old.name /\ call.blob = NoBlob
      /\ \A u \in Threads \ {t} : thread'[u] = thread[u]
  BY <1>1, <1>2, GotoIs, Before
<1>4. /\ t # Janitor /\ (t = Producer => ~Storing) /\ CallOk(t, old)
      /\ SharedInv /\ announced \in Nat
  BY <1>1, <1>2, AskingBefore, Before
<1>5. \A u \in Threads \ {Janitor} : thread'[u] = thread[u] \/ CallOk(u, thread'[u])
  BY <1>1, <1>3 DEF CallOk
<1>6. SharedInv' /\ \A c \in Consumers : Stays(c)
  BY <1>2, <1>3, <1>4, <1>5, QuietKeeps DEF Quiet
<1>7. ASSUME t \in Consumers PROVE ConsumerOk(t, consumer[t], call)
  <2>1. PICK r : r = consumer[t]
    OBVIOUS
  <2>2. ConsumerOk(t, r, old) /\ old.blob = NoBlob
    BY <1>1, <1>2, <1>4, <1>7, <2>1, Before DEF ConsumersInv, CallOk
  <2>3. r.pc = "snapshot" => SnapshotAsked(r, call)
    BY <1>3, <2>2 DEF ConsumerOk, SnapshotAsked
  <2>4. r.pc = "delta" => DeltaAsked(t, r, call)
    BY <1>3, <2>2 DEF ConsumerOk, DeltaAsked
  <2> QED BY <2>1, <2>2, <2>3, <2>4, OtherCall
<1> QED BY <1>1, <1>2, <1>3, <1>6, <1>7, CallGoesOn

LEMMA FillCacheKeepsReads ==
  ASSUME OwnJanitor, S3Inv, ReadInv, NEW t \in Threads, StoreStep(t), FillCache(t)
  PROVE  ReadInv'
<1>1. PICK old, call, name, blob :
        old = thread[t] /\ call = thread'[t] /\ name = old.name /\ blob = old.blob
  OBVIOUS
<1>2. /\ old.pc = "fill"
      /\ UNCHANGED <<bucket, published, producer, announced, situation, consumer>>
      /\ InCache(t, name, blob) /\ Goto(t, "done", name, blob)
  BY <1>1 DEF FillCache, StoreStep
<1>3. /\ call.pc = "done" /\ call.name = name /\ call.blob = blob
      /\ \A u \in Threads \ {t} : thread'[u] = thread[u]
      /\ \A p \in Processes : \A n \in Names :
           cache'[p][n] = IF p = Home[t] /\ n = name THEN blob ELSE cache[p][n]
  BY <1>1, <1>2, GotoIs, InCacheOnly, Before
<1>4. /\ t # Janitor /\ (t = Producer => ~Storing) /\ name \in Names
      /\ SnapshotCall(old) \/ DeltaCall(t, old)
      /\ SharedInv /\ announced \in Nat /\ announced <= MaxVersion /\ Near \in Processes
      /\ Home[t] \in Processes
  BY <1>1, <1>2, AskingBefore, Before
<1>5. /\ Near' = Near /\ (Crashes' <=> Crashes) /\ (Storing' <=> Storing) /\ (Snapping' <=> Snapping)
      /\ producer' = producer /\ announced' = announced /\ published' = published
  BY <1>2 DEF Near, Crashes, Storing, Snapping
<1>6. ASSUME NEW v \in 0..MaxVersion, name = SnapshotOf(v)
      PROVE  v \in 1..announced /\ IsSnapshot(v, blob)
  <2>1. ~DeltaCall(t, old)
    <3>1. \A w \in 0..(announced - 1) : w \in 0..MaxVersion
      BY <1>4
    <3> QED BY <1>1, <1>6, <3>1, NamesOfBlobs DEF DeltaCall
  <2>2. PICK w \in 1..announced : old.name = SnapshotOf(w) /\ IsSnapshot(w, old.blob)
    BY <1>2, <1>4, <2>1 DEF SnapshotCall
  <2>3. w \in 0..MaxVersion
    BY <1>4
  <2>4. w = v
    BY <1>1, <1>6, <2>2, <2>3, NamesOfBlobs
  <2> QED BY <1>1, <2>2, <2>4
<1>7. ASSUME NEW v \in 0..MaxVersion, name = DeltaFrom(v)
      PROVE  /\ v \in 0..(announced - 1) /\ IsReadBack(blob)
             /\ Home[t] # Near \/ Crashes
             /\ Home[t] = Near /\ cache[Near][DeltaFrom(v)] # NoBlob =>
                  IsReadBack(cache[Near][DeltaFrom(v)])
  <2>1. ~SnapshotCall(old)
    <3>1. \A w \in 1..announced : w \in 0..MaxVersion
      BY <1>4
    <3> QED BY <1>1, <1>7, <3>1, NamesOfBlobs DEF SnapshotCall
  <2>2. PICK w \in 0..(announced - 1) :
          /\ old.name = DeltaFrom(w)
          /\ IsReadBack(old.blob) /\ (Home[t] # Near \/ Crashes)
          /\ Home[t] = Near /\ cache[Near][DeltaFrom(w)] # NoBlob =>
               IsReadBack(cache[Near][DeltaFrom(w)])
    BY <1>2, <1>4, <2>1 DEF DeltaCall
  <2>3. w \in 0..MaxVersion
    BY <1>4
  <2>4. w = v
    BY <1>1, <1>7, <2>2, <2>3, NamesOfBlobs
  <2> QED BY <1>1, <2>2, <2>4
<1>8. blob # NoBlob
  <2>1. \A w \in 0..(announced - 1) : w \in 0..MaxVersion
    BY <1>4
  <2>2. \A w \in 1..announced : w \in 0..MaxVersion
    BY <1>4
  <2> QED BY <1>1, <1>4, <1>6, <1>7, <2>1, <2>2, BlobsAreSomething
          DEF SnapshotCall, DeltaCall, IsSnapshot, IsReadBack
<1>9. \A n \in Names : cache[Near][n] # NoBlob => cache'[Near][n] # NoBlob
  BY <1>3, <1>4, <1>8
<1>10. PublishedInv'
  BY <1>2, <1>4, <1>5 DEF SharedInv, PublishedInv
<1>11. CacheInv'
  <2>1. ASSUME NEW p \in Processes, NEW v \in 0..MaxVersion PROVE CachedSnapshot(p, v)'
    <3>1. CachedSnapshot(p, v) /\ SnapshotOf(v) \in Names
      BY <1>4, NamesOfBlobs DEF SharedInv, CacheInv
    <3>2. CASE p = Home[t] /\ SnapshotOf(v) = name
      <4>1. v \in 1..announced /\ IsSnapshot(v, blob) /\ cache'[p][SnapshotOf(v)] = blob
        BY <1>3, <1>6, <3>1, <3>2
      <4> QED BY <1>5, <4>1 DEF CachedSnapshot, IsSnapshot
    <3>3. CASE ~(p = Home[t] /\ SnapshotOf(v) = name)
      <4>1. cache'[p][SnapshotOf(v)] = cache[p][SnapshotOf(v)]
        BY <1>3, <3>1, <3>3
      <4> QED BY <1>5, <3>1, <4>1 DEF CachedSnapshot, IsSnapshot
    <3> QED BY <3>2, <3>3
  <2>2. ASSUME NEW p \in Processes, NEW v \in 0..MaxVersion PROVE CachedDelta(p, v)'
    <3>1. CachedDelta(p, v) /\ DeltaFrom(v) \in Names
      BY <1>4, NamesOfBlobs DEF SharedInv, CacheInv
    <3>2. CASE p = Home[t] /\ DeltaFrom(v) = name
      <4>1. IsReadBack(blob) /\ (p # Near \/ Crashes) /\ cache'[p][DeltaFrom(v)] = blob
        BY <1>3, <1>7, <3>1, <3>2
      <4> QED BY <1>5, <4>1 DEF CachedDelta, IsReadBack
    <3>3. CASE ~(p = Home[t] /\ DeltaFrom(v) = name)
      <4>1. cache'[p][DeltaFrom(v)] = cache[p][DeltaFrom(v)]
        BY <1>3, <3>1, <3>3
      <4> QED BY <1>5, <3>1, <4>1 DEF CachedDelta, IsReadBack, StoredDelta
    <3> QED BY <3>2, <3>3
  <2> QED BY <2>1, <2>2 DEF CacheInv
<1>12. BucketInv'
  <2>1. ASSUME NEW v \in 0..MaxVersion PROVE StoredSnapshot(v)'
    <3>1. StoredSnapshot(v)
      BY <1>4 DEF SharedInv, BucketInv
    <3>2. Storing => thread'[Producer] = thread[Producer]
      BY <1>3, <1>4
    <3> QED BY <1>2, <1>5, <3>1, <3>2 DEF StoredSnapshot
  <2>2. ASSUME NEW v \in 0..MaxVersion PROVE StoredChange(v)'
    <3>1. StoredChange(v) /\ DeltaFrom(v) \in Names
      BY <1>4, NamesOfBlobs DEF SharedInv, BucketInv
    <3> QED BY <1>2, <1>5, <1>9, <3>1 DEF StoredChange
  <2> QED BY <2>1, <2>2 DEF BucketInv
<1>13. StoringInv'
  <2> SUFFICES ASSUME Storing PROVE StoringInv'
    BY <1>5 DEF StoringInv
  <2>1. PICK k : k = thread[Producer] /\ k = thread'[Producer]
    BY <1>3, <1>4
  <2>2. /\ announced + 1 \in 0..MaxVersion /\ announced \in 0..MaxVersion
    BY <1>4, Before
  <2>3. DeltaFrom(announced) \in Names /\ DeltaFrom(announced) # name
    BY <1>4, <1>7, <2>2, NamesOfBlobs
  <2>4. cache'[Near][DeltaFrom(announced)] = cache[Near][DeltaFrom(announced)]
    BY <1>3, <1>4, <2>3
  <2>5. cache[Near][SnapshotOf(announced + 1)] # NoBlob => cache'[Near][SnapshotOf(announced + 1)] # NoBlob
    BY <1>9, <2>2, NamesOfBlobs
  <2> QED BY <1>4, <1>5, <2>1, <2>4, <2>5 DEF SharedInv, StoringInv, StoredDelta
<1>14. PublishedStays
  BY <1>2 DEF PublishedStays
<1>15. ASSUME NEW v \in 0..MaxVersion
       PROVE  \/ cache'[Near][DeltaFrom(v)] = cache[Near][DeltaFrom(v)]
              \/ /\ IsReadBack(cache'[Near][DeltaFrom(v)]) /\ Crashes /\ v <= announced
                 /\ cache[Near][DeltaFrom(v)] = NoBlob \/ IsReadBack(cache[Near][DeltaFrom(v)])
  <2>1. DeltaFrom(v) \in Names
    BY NamesOfBlobs
  <2>2. CASE Home[t] = Near /\ DeltaFrom(v) = name
    <3>1. cache'[Near][DeltaFrom(v)] = blob
      BY <1>3, <1>4, <2>1, <2>2
    <3> QED BY <1>4, <1>7, <2>2, <3>1
  <2>3. CASE ~(Home[t] = Near /\ DeltaFrom(v) = name)
    BY <1>3, <1>4, <2>1, <2>3
  <2> QED BY <2>2, <2>3
<1>16. \A v \in Nat : ~IsReadBack(StoredDelta(v)) /\ ~IsReadBack(StoredDelta(v)')
  <2> SUFFICES ASSUME NEW v \in Nat PROVE ~IsReadBack(StoredDelta(v)) /\ ~IsReadBack(StoredDelta(v)')
    OBVIOUS
  <2>1. StoredDelta(v).to = v + 1 /\ StoredDelta(v)' = StoredDelta(v) /\ v + 1 # 0
    BY <1>5 DEF StoredDelta
  <2> QED BY <2>1 DEF IsReadBack
<1>17. AnchorsStay
  <2>1. ASSUME NEW v \in 1..announced
        PROVE  cache[Near][SnapshotOf(v)] # NoBlob => cache'[Near][SnapshotOf(v)] # NoBlob
    <3>1. v \in 0..MaxVersion
      BY <1>4
    <3> QED BY <1>9, <3>1, NamesOfBlobs
  <2>2. ASSUME NEW v \in 1..announced, v < announced, cache[Near][DeltaFrom(v)] = StoredDelta(v)
        PROVE  cache'[Near][DeltaFrom(v)] = StoredDelta(v)
    <3>1. v \in 1..MaxVersion /\ v \in 0..MaxVersion /\ v < MaxVersion /\ v + 1 \in 1..announced /\ v \in Nat
      BY <1>4, <2>2
    <3>2. published[v] \in Contents /\ published[v + 1] \in Contents
      BY <3>1, Before
    <3>3. StoredDelta(v) # NoBlob
      BY <3>1, <3>2, StoredDeltaIsBlob
    <3> QED BY <1>15, <1>16, <2>2, <3>1, <3>3
  <2> QED BY <1>4, <1>14, <2>1, <2>2, AnchorsRemain
<1>18. AnchorInv'
  <2> PICK n : n = announced
    OBVIOUS
  <2>1. ASSUME Crashes, NEW v \in 1..n, Anchored(v) PROVE Anchored(v)'
    BY <1>17, <2>1 DEF AnchorsStay
  <2>2. ASSUME Crashes, NEW v \in 1..n, v < MaxVersion, cache'[Near][DeltaFrom(v)] # NoBlob,
               cache'[Near][DeltaFrom(v)] = StoredDelta(v)'
        PROVE  Anchored(v)'
    <3>1. v \in 0..MaxVersion /\ v \in Nat /\ StoredDelta(v)' = StoredDelta(v)
      BY <1>4, <1>5 DEF StoredDelta
    <3>2. cache'[Near][DeltaFrom(v)] = cache[Near][DeltaFrom(v)]
      BY <1>15, <1>16, <2>2, <3>1
    <3>3. Anchored(v)
      BY <1>4, <2>2, <3>1, <3>2 DEF SharedInv, AnchorInv
    <3> QED BY <2>1, <2>2, <3>3
  <2>3. Crashes /\ producer.lastSnapshotVersion \in 1..n => Anchored(n)'
    <3> SUFFICES ASSUME Crashes, producer.lastSnapshotVersion \in 1..n PROVE Anchored(n)'
      OBVIOUS
    <3>1. Anchored(n) /\ n \in 1..n
      BY <1>4 DEF SharedInv, AnchorInv
    <3> QED BY <2>1, <3>1
  <2> QED BY <1>5, <2>2, <2>3 DEF AnchorInv, Anchored, Anchor
<1>19. CallInv'
  <2>1. ASSUME NEW u \in Threads \ {Janitor} PROVE \E k : k = thread'[u] /\ CallOk(u, k)'
    <3>1. CASE u = t
      BY <1>1, <1>3, <3>1 DEF CallOk
    <3>2. CASE u # t
      <4>1. PICK k : k = thread[u]
        OBVIOUS
      <4>2. CallOk(u, k)
        BY <1>4, <4>1 DEF SharedInv, CallInv
      <4>3. ASSUME NEW v \in 0..(announced - 1)
            PROVE  \/ cache'[Near][DeltaFrom(v)] = cache[Near][DeltaFrom(v)]
                   \/ IsReadBack(cache'[Near][DeltaFrom(v)])
        <5>1. v \in 0..MaxVersion
          BY <1>4
        <5> QED BY <1>15, <5>1
      <4>4. CallOk(u, k)'
        BY <1>2, <1>4, <1>14, <4>2, <4>3, CallRests
      <4> QED BY <1>3, <3>2, <4>1, <4>4
    <3> QED BY <3>1, <3>2
  <2> QED BY <2>1, CallsAreOk
<1>20. ASSUME NEW c \in Consumers PROVE Stays(c)
  BY <1>2, <1>5, <1>14, <1>17 DEF Stays, CycleGoesOn
<1>21. SharedInv'
  BY <1>10, <1>11, <1>12, <1>13, <1>18, <1>19 DEF SharedInv
<1>22. ASSUME t \in Consumers PROVE ConsumerOk(t, consumer[t], call)
  <2>1. PICK r : r = consumer[t]
    OBVIOUS
  <2>2. ConsumerOk(t, r, old)
    BY <1>1, <1>22, <2>1, Before DEF ConsumersInv
  <2>3. r.pc = "snapshot" => SnapshotAsked(r, call)
    BY <1>1, <1>3, <2>2 DEF ConsumerOk, SnapshotAsked
  <2>4. r.pc = "delta" => DeltaAsked(t, r, call)
    BY <1>1, <1>3, <2>2 DEF ConsumerOk, DeltaAsked
  <2> QED BY <2>1, <2>2, <2>3, <2>4, OtherCall
<1> QED BY <1>1, <1>2, <1>3, <1>20, <1>21, <1>22, CallGoesOn

LEMMA RemoveKeepsReads ==
  ASSUME OwnJanitor, S3Inv, ReadInv, NEW t \in Threads, StoreStep(t),
         RemoveSucceeds(t) \/ RemoveFails(t)
  PROVE  ReadInv'
<1>1. /\ t = Janitor /\ SharedInv /\ announced \in Nat /\ announced <= MaxVersion
      /\ UNCHANGED <<cache, published, producer, announced, situation, consumer>>
  BY Before DEF RemoveSucceeds, RemoveFails, StoreStep, ThreadInv, CallsOf
<1>2. PICK name : name = thread[t].name
  OBVIOUS
<1>3. Goto(t, "done", name, NoBlob)
  BY <1>2 DEF RemoveSucceeds, RemoveFails
<1>4. \A u \in Threads \ {Janitor} : thread'[u] = thread[u]
  BY <1>1, <1>3, GotoIs, Before
<1>5. CASE RemoveFails(t)
  <2>1. Quiet
    BY <1>1, <1>5 DEF Quiet, RemoveFails
  <2>2. SharedInv' /\ \A c \in Consumers : Stays(c)
    BY <1>1, <1>4, <2>1, QuietKeeps
  <2> QED BY <1>1, <1>4, <2>2, OthersRest, Before
<1>6. CASE RemoveSucceeds(t)
  <2>1. bucket' = [n \in Names |-> IF n = name THEN NoBlob ELSE bucket[n]]
    <3>1. bucket' = [bucket EXCEPT ![name] = NoBlob]
      BY <1>2, <1>6 DEF RemoveSucceeds
    <3>2. bucket = [n \in Names |-> bucket[n]]
      BY Before DEF StoreTypes
    <3> QED BY ONLY <3>1, <3>2
  <2>2. \A n \in Names : bucket'[n] \in {NoBlob, bucket[n]}
    BY <2>1
  <2>3. /\ Near' = Near /\ (Crashes' <=> Crashes) /\ (Storing' <=> Storing) /\ (Snapping' <=> Snapping)
    BY <1>1 DEF Near, Crashes, Storing, Snapping
  <2>4. PublishedInv'
    BY <1>1, <2>3 DEF SharedInv, PublishedInv
  <2>5. CacheInv'
    BY <1>1, <2>3
    DEF SharedInv, CacheInv, CachedSnapshot, CachedDelta, IsSnapshot, IsReadBack, StoredDelta
  <2>6. BucketInv'
    <3>1. ASSUME NEW v \in 0..MaxVersion PROVE StoredSnapshot(v)'
      <4>1. StoredSnapshot(v) /\ SnapshotOf(v) \in Names
        BY <1>1, NamesOfBlobs DEF SharedInv, BucketInv
      <4>2. thread'[Producer] = thread[Producer]
        BY <1>4
      <4> QED BY <1>1, <2>2, <2>3, <4>1, <4>2 DEF StoredSnapshot
    <3>2. ASSUME NEW v \in 0..MaxVersion PROVE StoredChange(v)'
      <4>1. StoredChange(v) /\ DeltaFrom(v) \in Names
        BY <1>1, NamesOfBlobs DEF SharedInv, BucketInv
      <4> QED BY <1>1, <2>2, <2>3, <4>1 DEF StoredChange
    <3> QED BY <3>1, <3>2 DEF BucketInv
  <2>7. StoringInv'
    <3>1. thread'[Producer] = thread[Producer]
      BY <1>4
    <3> QED BY <1>1, <2>3, <3>1 DEF SharedInv, StoringInv, StoredDelta
  <2>8. AnchorInv'
    BY <1>1, <2>3 DEF SharedInv, AnchorInv, Anchored, Anchor, StoredDelta
  <2>9. PublishedStays
    BY <1>1 DEF PublishedStays
  <2>10. CallInv'
    <3>1. ASSUME NEW u \in Threads \ {Janitor} PROVE \E call : call = thread'[u] /\ CallOk(u, call)'
      <4>1. PICK call : call = thread[u]
        OBVIOUS
      <4>2. CallOk(u, call)
        BY <1>1, <4>1 DEF SharedInv, CallInv
      <4>3. CallOk(u, call)'
        BY <1>1, <2>9, <4>2, CallRests
      <4> QED BY <1>4, <4>1, <4>3
    <3> QED BY <3>1, CallsAreOk
  <2>11. AnchorsStay
    BY <1>1, <2>9, AnchorsRemain
  <2>12. ASSUME NEW c \in Consumers PROVE Stays(c) /\ thread'[c] = thread[c]
    BY <1>1, <1>4, <2>3, <2>9, <2>11, Before DEF Stays, CycleGoesOn
  <2>13. SharedInv'
    BY <2>4, <2>5, <2>6, <2>7, <2>8, <2>10 DEF SharedInv
  <2> QED BY <1>1, <2>12, <2>13, OthersRest
<1> QED BY <1>5, <1>6

LEMMA StoreStepKeepsReads ==
  ASSUME OwnJanitor, CrashesAlone, S3Inv, ReadInv, NEW t \in Threads, StoreStep(t)
  PROVE  ReadInv'
<1>1. CASE PutSucceeds(t) \/ PutFails(t)
  <2>1. thread[t].pc = "put"
    BY <1>1 DEF PutSucceeds, PutFails
  <2> QED BY <2>1, PutKeepsReads
<1> QED
  BY <1>1, GetSucceedsKeepsReads, GetFailsKeepsReads, FillCacheKeepsReads, RemoveKeepsReads
  DEF StoreStep, CallSucceeds, CallFails

(***************************************************************************)
(* A process that ends takes its cache, its calls and its consumers along  *)
(***************************************************************************)
LEMMA CrashKeepsReads ==
  ASSUME OwnJanitor, S3Inv, ReadInv, NEW p \in Processes, Crash(p)
  PROVE  ReadInv'
<1>1. /\ Crashes /\ SharedInv /\ ConsumersInv /\ announced \in Nat /\ Near \in Processes
      /\ UNCHANGED <<bucket, published, announced, situation>>
      /\ consumer' = [c \in Consumers |-> IF Home[c] = p THEN NewConsumer ELSE consumer[c]]
      /\ \A t \in Threads : thread'[t] = IF Home[t] = p THEN NoCall ELSE thread[t]
      /\ NoCall.pc = "idle"
  BY RestartKeeps, Before DEF Crash, Restart, Crashes
<1>2. /\ \A n \in Names : cache'[p][n] = NoBlob
      /\ \A q \in Processes \ {p} : cache'[q] = cache[q]
  <2>1. cache' = [q \in Processes |-> IF q = p THEN [n \in Names |-> NoBlob] ELSE cache[q]]
    <3>1. cache' = [cache EXCEPT ![p] = [n \in Names |-> NoBlob]]
      BY DEF Crash, Restart
    <3>2. cache = [q \in Processes |-> cache[q]]
      BY Before DEF StoreTypes
    <3> QED BY ONLY <3>1, <3>2
  <2> QED BY <2>1
<1>3. /\ Near' = Near /\ (Crashes' <=> Crashes)
      /\ Near = p => producer'.pc = "new" /\ producer'.lastSnapshotVersion = 0
      /\ Near # p => producer' = producer /\ thread'[Producer] = thread[Producer]
  BY <1>1 DEF Crash, NewProducer, Near, Crashes
<1>4. /\ Near = p => ~Storing' /\ ~Snapping'
      /\ Near # p => (Storing' <=> Storing) /\ (Snapping' <=> Snapping) /\ cache'[Near] = cache[Near]
  BY <1>1, <1>2, <1>3 DEF Storing, Snapping
<1>5. PublishedInv'
  <2>1. CASE Near = p
    BY <1>1, <1>3, <1>4, <2>1 DEF SharedInv, PublishedInv
  <2>2. CASE Near # p
    BY <1>1, <1>3, <1>4, <2>2 DEF SharedInv, PublishedInv
  <2> QED BY <2>1, <2>2
<1>6. CacheInv'
  <2>1. ASSUME NEW q \in Processes, NEW v \in 0..MaxVersion
        PROVE  CachedSnapshot(q, v)' /\ CachedDelta(q, v)'
    <3>1. /\ CachedSnapshot(q, v) /\ CachedDelta(q, v)
          /\ SnapshotOf(v) \in Names /\ DeltaFrom(v) \in Names
      BY <1>1, NamesOfBlobs DEF SharedInv, CacheInv
    <3>2. CASE q = p
      BY <1>2, <3>1, <3>2 DEF CachedSnapshot, CachedDelta
    <3>3. CASE q # p
      <4>1. cache'[q] = cache[q]
        BY <1>2, <3>3
      <4>2. q = Near => (Storing' <=> Storing) /\ (Snapping' <=> Snapping)
        BY <1>4, <3>3
      <4>3. CachedSnapshot(q, v)'
        BY <1>1, <1>3, <3>1, <4>1, <4>2 DEF CachedSnapshot, IsSnapshot
      <4>4. CachedDelta(q, v)'
        BY <1>1, <1>3, <3>1, <4>1, <4>2 DEF CachedDelta, IsReadBack, StoredDelta
      <4> QED BY <4>3, <4>4
    <3> QED BY <3>2, <3>3
  <2> QED BY <2>1 DEF CacheInv
<1>7. BucketInv'
  <2>1. ASSUME NEW v \in 0..MaxVersion PROVE StoredSnapshot(v)'
    <3>1. StoredSnapshot(v)
      BY <1>1 DEF SharedInv, BucketInv
    <3>2. CASE Near = p
      BY <1>1, <1>3, <1>4, <3>1, <3>2 DEF StoredSnapshot
    <3>3. CASE Near # p
      BY <1>1, <1>3, <1>4, <3>1, <3>3 DEF StoredSnapshot
    <3> QED BY <3>2, <3>3
  <2>2. ASSUME NEW v \in 0..MaxVersion PROVE StoredChange(v)'
    <3>1. StoredChange(v)
      BY <1>1 DEF SharedInv, BucketInv
    <3> QED BY <1>1, <1>3, <3>1 DEF StoredChange
  <2> QED BY <2>1, <2>2 DEF BucketInv
<1>8. StoringInv'
  <2>1. CASE Near = p
    BY <1>4, <2>1 DEF StoringInv
  <2>2. CASE Near # p
    BY <1>1, <1>3, <1>4, <2>2 DEF SharedInv, StoringInv, StoredDelta
  <2> QED BY <2>1, <2>2
<1>9. AnchorInv'
  <2>1. CASE Near = p
    <3>1. ASSUME NEW v \in 1..announced, v < MaxVersion PROVE cache'[Near][DeltaFrom(v)] = NoBlob
      <4>1. v \in 0..MaxVersion
        BY <1>1, <3>1
      <4> QED BY <1>2, <2>1, <4>1, NamesOfBlobs
    <3>2. producer'.lastSnapshotVersion \notin 1..announced
      BY <1>1, <1>3, <2>1
    <3> QED BY <1>1, <1>3, <3>1, <3>2 DEF AnchorInv
  <2>2. CASE Near # p
    BY <1>1, <1>3, <1>4, <2>2 DEF SharedInv, AnchorInv, Anchored, Anchor, StoredDelta
  <2> QED BY <2>1, <2>2
<1>10. PublishedStays
  BY <1>1 DEF PublishedStays
<1>11. CallInv'
  <2>1. ASSUME NEW t \in Threads \ {Janitor} PROVE \E call : call = thread'[t] /\ CallOk(t, call)'
    <3>1. CASE Home[t] = p
      BY <1>1, <3>1 DEF CallOk
    <3>2. CASE Home[t] # p
      <4>1. PICK call : call = thread[t]
        OBVIOUS
      <4>2. CallOk(t, call)
        BY <1>1, <4>1 DEF SharedInv, CallInv
      <4>3. SnapshotCall(call) => SnapshotCall(call)'
        BY <1>1 DEF SnapshotCall, IsSnapshot
      <4>4. DeltaCall(t, call) => DeltaCall(t, call)'
        BY <1>1, <1>3, <1>4, <3>2 DEF DeltaCall, IsReadBack
      <4>5. CallOk(t, call)'
        BY <4>2, <4>3, <4>4 DEF CallOk
      <4> QED BY <1>1, <3>2, <4>1, <4>5
    <3> QED BY <3>1, <3>2
  <2> QED BY <2>1, CallsAreOk
<1>12. Near # p => AnchorsStay
  BY <1>1, <1>4, <1>10, AnchorsRemain
<1>13. ASSUME NEW c \in Consumers, Home[c] # p PROVE Stays(c)
  BY <1>1, <1>3, <1>4, <1>10, <1>12, <1>13 DEF Stays, CycleGoesOn
<1>14. ConsumersInv'
  <2>1. ASSUME NEW c \in Consumers
        PROVE  \E r, call : r = consumer'[c] /\ call = thread'[c] /\ ConsumerOk(c, r, call)'
    <3>0. c \in Threads
      BY DEF Consumers
    <3>1. CASE Home[c] = p
      <4>1. PICK r, call : r = NewConsumer /\ call = NoCall
        OBVIOUS
      <4>2. r = [pc |-> "idle", target |-> 0, from |-> 0, cur |-> 0, chain |-> <<>>,
                 readVersion |-> 0, readContent |-> <<>>]
        BY <4>1 DEF NewConsumer
      <4>3. ConsumerRecord(r)'
        BY <4>2 DEF ConsumerRecord, Steps
      <4>4. ConsumerOk(c, r, call)'
        BY <4>2, <4>3 DEF ConsumerOk, ReadOk
      <4> QED BY <1>1, <3>0, <3>1, <4>1, <4>4
    <3>2. CASE Home[c] # p
      <4>1. PICK r, call : r = consumer[c] /\ call = thread[c]
        OBVIOUS
      <4>2. ConsumerOk(c, r, call)
        BY <1>1, <4>1 DEF ConsumersInv
      <4>3. ConsumerOk(c, r, call)'
        BY <1>1, <1>13, <3>2, <4>2, ConsumerRests
      <4> QED BY <1>1, <3>0, <3>2, <4>1, <4>3
    <3> QED BY <3>1, <3>2
  <2>2. consumer' = [c \in Consumers |-> consumer'[c]]
    BY <1>1
  <2> QED BY <2>1, <2>2, ConsumersAreOk
<1> QED BY <1>5, <1>6, <1>7, <1>8, <1>9, <1>11, <1>14 DEF SharedInv, ReadInv

LEMMA ReadInvInit == OwnJanitor /\ S3Init => ReadInv
<1> SUFFICES ASSUME OwnJanitor, S3Init PROVE ReadInv
  OBVIOUS
<1>1. /\ bucket = [n \in Names |-> NoBlob]
      /\ cache = [p \in Processes |-> [n \in Names |-> NoBlob]]
      /\ thread = [t \in Threads |-> NoCall] /\ NoCall.pc = "idle"
      /\ producer.pc = "ready" /\ producer.lastSnapshotVersion = 0
      /\ published = [v \in Versions |-> <<>>] /\ announced = 0
      /\ consumer = [c \in Consumers |-> NewConsumer] /\ situation \in Situations
      /\ Near \in Processes
  BY DEF S3Init, StoreInit, NoCall, NewProducer, Near
<1>2. ~Storing /\ ~Snapping /\ 1..announced = {}
  BY <1>1 DEF Storing, Snapping
<1>3. PublishedInv
  BY <1>1, <1>2 DEF PublishedInv
<1>4. CacheInv /\ BucketInv
  BY <1>1, NamesOfBlobs DEF CacheInv, CachedSnapshot, CachedDelta, BucketInv, StoredSnapshot, StoredChange
<1>5. StoringInv /\ AnchorInv
  BY <1>1, <1>2 DEF StoringInv, AnchorInv
<1>6. CallInv
  BY <1>1 DEF CallInv, CallOk
<1>7. ConsumersInv
  <2>1. ASSUME NEW c \in Consumers PROVE ConsumerOk(c, consumer[c], thread[c])
    <3>1. PICK r : r = consumer[c]
      OBVIOUS
    <3>2. r = [pc |-> "idle", target |-> 0, from |-> 0, cur |-> 0, chain |-> <<>>,
               readVersion |-> 0, readContent |-> <<>>]
      BY <1>1, <3>1 DEF NewConsumer
    <3>3. ConsumerRecord(r)
      BY <3>2 DEF ConsumerRecord, Steps
    <3> QED BY <3>1, <3>2, <3>3 DEF ConsumerOk, ReadOk
  <2> QED BY <1>1, <2>1 DEF ConsumersInv
<1> QED BY <1>3, <1>4, <1>5, <1>6, <1>7 DEF ReadInv

LEMMA ReadInvNext ==
  OwnJanitor /\ CrashesAlone /\ DeltasApply /\ S3Inv /\ ReadInv /\ [S3Next]_s3Vars => ReadInv'
<1> SUFFICES ASSUME OwnJanitor, CrashesAlone, DeltasApply, S3Inv, ReadInv, [S3Next]_s3Vars
             PROVE  ReadInv'
  OBVIOUS
<1>1. CASE UNCHANGED s3Vars
  <2>1. UNCHANGED <<bucket, cache, thread, producer, published, announced, situation, consumer>>
    BY <1>1 DEF s3Vars, storeVars, flowVars
  <2>2. SharedInv' /\ \A c \in Consumers : Stays(c)
    BY <2>1, QuietKeeps, Before DEF Quiet
  <2> QED BY <2>1, <2>2, OthersRest
<1>2. ASSUME NEW c \in Consumers, ConsumerNext(c) PROVE ReadInv'
  BY <1>2, ConsumerKeepsReads
<1> QED
  BY <1>1, <1>2, RunCycleKeepsReads, StoredKeepsReads, RestoreKeepsReads, JanitorKeepsReads,
     StoreStepKeepsReads, CrashKeepsReads
  DEF S3Next, ConsumerNext

(* Whatever a consumer reads as a version of the data is what was published *)
(* as that version, although the deltas that come back from the bucket have *)
(* lost their versions and processes or the bucket fail: GetData after      *)
(* TriggerRefresh and TriggerRefreshTo.                                     *)
THEOREM ReadsStayPublished ==
  ASSUME OwnJanitor, CrashesAlone, DeltasApply
  PROVE  S3Spec => []ReadsArePublished
<1>1. ASSUME S3Inv, ReadInv PROVE ReadsArePublished
  <2>1. ASSUME NEW c \in Consumers, consumer[c].readVersion > 0
        PROVE  consumer[c].readContent = published[consumer[c].readVersion]
    BY <1>1, <2>1 DEF ReadInv, ConsumersInv, ConsumerOk, ReadOk
  <2> QED BY <2>1 DEF ReadsArePublished
<1> QED BY <1>1, S3InvInit, S3InvNext, ReadInvInit, ReadInvNext, PTL DEF S3Spec

(* A refresh to a newer version that succeeds has reached that version, or  *)
(* version 0 where the deltas came from the bucket (planBlobs, applyDelta). *)
THEOREM RefreshReachesTarget ==
  ASSUME OwnJanitor, CrashesAlone, DeltasApply
  PROVE  S3Spec => RefreshEndsAtTarget
<1>1. ASSUME S3Inv, ReadInv, NEW c \in Consumers, FinishRefresh(c),
             consumer[c].target > consumer[c].from
      PROVE  \/ consumer[c].readVersion = consumer[c].target
             \/ /\ consumer[c].readVersion = 0
                /\ Home[c] # Home[Producer] \/ "crash" \in situation.troubles
  <2>1. PICK r : r = consumer[c]
    OBVIOUS
  <2>2. /\ ConsumerOk(c, r, thread[c]) /\ r.pc = "apply" /\ r.chain = <<>> /\ r.target > r.from
    BY <1>1, <2>1, Before DEF FinishRefresh, ConsumersInv
  <2>3. Applying(c, r) /\ Len(r.chain) = 0 /\ r.target \in Nat /\ r.from \in Nat
    BY <2>2 DEF ConsumerOk, ConsumerRecord
  <2>4. r.readVersion = r.target \/ (r.readVersion = 0 /\ (Home[c] # Near \/ Crashes))
    BY <2>2, <2>3 DEF Applying, Lost
  <2> QED BY <2>1, <2>4 DEF Near, Crashes
<1> DEFINE Ends == \A c \in Consumers :
       LET r == consumer[c] IN
       FinishRefresh(c) /\ r.target > r.from =>
         \/ r.readVersion = r.target
         \/ /\ r.readVersion = 0
            /\ Home[c] # Home[Producer] \/ "crash" \in situation.troubles
<1>2. S3Inv /\ ReadInv => [Ends]_s3Vars
  BY <1>1
<1>3. S3Spec => [][Ends]_s3Vars
  <2> HIDE DEF Ends
  <2> QED BY <1>2, S3InvInit, S3InvNext, ReadInvInit, ReadInvNext, PTL DEF S3Spec
<1> QED BY <1>3 DEF RefreshEndsAtTarget
(* What the theorems ask of the changes of records in DeltasApply holds of *)
(* every set of lists, none of them empty, of which no two are more than   *)
(* one record apart in length.                                             *)
THEOREM ShortListsApply ==
  ASSUME NEW V, Contents \subseteq Seq(V) \ {<<>>},
         \A old, new \in Contents : Len(old) <= Len(new) + 1
  PROVE  DeltasApply
<1>1. SUFFICES ASSUME NEW old \in Contents, NEW new \in Contents
               PROVE  ApplyDelta(old, DeltaOfPlain(old, new)) = new
  BY DEF DeltasApply
<1> QED BY ListsApply

=============================================================================
